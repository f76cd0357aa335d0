------------------------------- MODULE Beacon -------------------------------
(***************************************************************************)
(* The threshold beacon (beacon.rs): a dealer gives every participant a    *)
(* share of a group key, participants sign rounds, verifiers collect the   *)
(* signature shares as they arrive and combine them into the randomness of *)
(* a round, from which each assigns the round's committee.                 *)
(*                                                                         *)
(*   group    the group key, and sk the share of each participant          *)
(*   signed   how many rounds each participant has signed                  *)
(*   held     verifier, round -> participant -> the last share that came,  *)
(*            NoShare when none did                                        *)
(*                                                                         *)
(* A signature over a round is the key times the round's point, in the     *)
(* field of module Shamir; blsttc and the hash are external.               *)
(***************************************************************************)
EXTENDS Shamir

CONSTANTS
  Member, Threshold,   (* participants 0 .. n - 1, and T                   *)
  Dealings,            (* polynomials the dealer may draw                  *)
  Collector,
  Rounds,              (* rounds 0 .. Rounds - 1, signed in this order     *)
  Pool,                (* the relays a committee is drawn from, in order   *)
  Seats,               (* committee_size                                   *)
  Draws,               (* the hash that picks a seat: value, seat -> Nat   *)
  NoShare, Nothing,
  Garbage,             (* bytes that are nobody's share                    *)
  MaxArrivals          (* bound of the model                               *)

Round == 0 .. Rounds - 1

\* SecretKeySet::random, no two rounds hashed to one point, a pool without duplicates.
ASSUME BeaconAssumption ==
  /\ Member \subseteq Nat /\ IsFiniteSet(Member)
  /\ Threshold \in Nat \ {0} /\ Dealings \subseteq [1 .. Threshold -> Byte]
  /\ Rounds \in Nat /\ \A q, r \in Round : Bits(q + 1) = Bits(r + 1) => q = r
  /\ Pool \in Seq(Range(Pool)) /\ IsInjective(Pool) /\ Seats \in Nat
  /\ Draws \in [Byte \X (1 .. Len(Pool)) -> Nat]
  /\ \A b \in Byte : b # Garbage

VARIABLES group, sk, signed, held, arrivals

beaconVars == <<group, sk, signed, held, arrivals>>

-----------------------------------------------------------------------------
\* SecretKeyShare: the dealer's polynomial at index + 1.
KeyShare(coeffs, i) == EvalPoly(coeffs, Bits(i + 1))

\* Mutant of RoundMessage: the round is left out.
OneMessage(r) == {0}

\* beacon_round_message, as the point that is signed.
RoundMessage(r) == Bits(r + 1)

Sign(i, r) == GfMul(sk[i], RoundMessage(r))

\* public_key_share(i).verify.
ShareVerifies(i, share, r) == share = Sign(i, r)

Holders(v, r) == {i \in Member : held[v][r][i] # NoShare}

\* combine_signatures: more than T - 1 shares, of which it takes the first T.
Combine(v, r) ==
  LET first == SubSeq(SetToSortSeq(Holders(v, r), <), 1, Threshold)
  IN  LagrangeAtZero([k \in 1 .. Threshold |-> [x |-> Bits(first[k] + 1),
                                                y |-> held[v][r][first[k]]]])

EnoughShares(v, r) == Cardinality(Holders(v, r)) >= Threshold

\* randomness_result: one bad share refuses the round, however many good ones there
\* are; the value is the hash of the combined signature.
RandomnessResult(v, r) ==
  IF /\ \A i \in Holders(v, r) : ShareVerifies(i, held[v][r][i], r)
     /\ EnoughShares(v, r)
  THEN LET combined == Combine(v, r)
       IN  IF combined = GfMul(group, RoundMessage(r)) THEN combined ELSE Nothing
  ELSE Nothing

\* The index a seat is swapped with: from itself to the end.
Seat(value, i, n) == i + (Draws[value, i] % (n - i + 1))

Swap(s, i, j) == [s EXCEPT ![i] = s[j], ![j] = s[i]]

\* committee_from_randomness: a prefix of a shuffle.
Committee(value) ==
  LET n    == Len(Pool)
      take == IF Seats < n THEN Seats ELSE n
  IN  SubSeq(FoldLeft(LAMBDA s, i : Swap(s, i, Seat(value, i, n)), Pool,
                      [i \in 1 .. take |-> i]), 1, take)

-----------------------------------------------------------------------------
\* dealer_setup: SecretKeySet::random(t - 1).  A share that is zero is left out: it signs
\* all rounds alike, in this small field only with a chance worth mentioning.
BeaconInit ==
  /\ \E c \in Dealings :
       /\ \A i \in Member : KeyShare(c, i) # {}
       /\ group = c[1] /\ sk = [i \in Member |-> KeyShare(c, i)]
  /\ signed = [i \in Member |-> 0]
  /\ held = [v \in Collector |-> [r \in Round |-> [i \in Member |-> NoShare]]]
  /\ arrivals = 0

\* sign_round.
SignRound(i) ==
  /\ signed[i] < Rounds /\ signed' = [signed EXCEPT ![i] = @ + 1]
  /\ UNCHANGED <<group, sk, held, arrivals>>

\* add_shares: the last share of a participant stays, unverified.  What arrives is a
\* share that participant made, for this round or for another, or garbage.
AddShare(v, r, i, share) ==
  /\ share # held[v][r][i] /\ arrivals < MaxArrivals /\ arrivals' = arrivals + 1
  /\ held' = [held EXCEPT ![v][r][i] = share]
  /\ UNCHANGED <<group, sk, signed>>

\* build_beacon_for_round: participants in one process sign and hand over at once.
BuildForRound(v, r, I) ==
  /\ I # {} /\ \A i \in I : r < signed[i]
  /\ held' = [held EXCEPT ![v][r] = [i \in Member |-> IF i \in I THEN Sign(i, r) ELSE NoShare]]
  /\ held' # held /\ arrivals < MaxArrivals /\ arrivals' = arrivals + 1
  /\ UNCHANGED <<group, sk, signed>>

BeaconNext ==
  \/ \E i \in Member : SignRound(i)
  \/ \E v \in Collector, r \in Round, i \in Member :
       \/ \E q \in Round : q < signed[i] /\ AddShare(v, r, i, Sign(i, q))
       \/ AddShare(v, r, i, Garbage)
  \/ \E v \in Collector, r \in Round, I \in SUBSET Member : BuildForRound(v, r, I)

BeaconSpec == BeaconInit /\ [][BeaconNext]_beaconVars

-----------------------------------------------------------------------------
\* No round has a value before T participants signed that very round, and whichever
\* shares reached them, in whichever order, verifiers with a value for a round seat the
\* same committee, each relay once.
OneCommittee ==
  \A v \in Collector, r \in Round :
    LET value == RandomnessResult(v, r)
    IN  value # Nothing =>
          /\ Cardinality({i \in Member : r < signed[i]}) >= Threshold
          /\ IsInjective(Committee(value))
          /\ \A w \in Collector :
               RandomnessResult(w, r) # Nothing =>
                 Committee(RandomnessResult(w, r)) = Committee(value)

=============================================================================
