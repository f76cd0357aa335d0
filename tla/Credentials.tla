---------------------------- MODULE Credentials -----------------------------
(***************************************************************************)
(* Anonymous reputation credentials of aegis-trust: the issuer             *)
(* (anon_issuer.rs), the threshold presentation (zk.rs) and the registry   *)
(* of spent nullifiers that a verifier node keeps (nullifier.rs, saved and *)
(* loaded by main.rs).                                                     *)
(*                                                                         *)
(*   score     the score of each relay, in halves of the proof's unit      *)
(*   requests  blinded requests on their way to the issuer                 *)
(*   creds     credentials about, issued or put together from others       *)
(*   issued    what the issuer signed                                      *)
(*   up, used  each verifier: running, and the nullifiers it knows spent   *)
(*   regFile   its registry file: a set, Absent, or Torn                   *)
(*   saved     nullifiers saved there or imported, that nobody forgot      *)
(*   spends    how often it accepted each nullifier                        *)
(*   taken     the credentials that were accepted                          *)
(*                                                                         *)
(* A nullifier is the hash of [relay, epoch, blinding], a presentation the *)
(* band of its transcript and the committed score; hash, commitment, range *)
(* proof and signature are taken as the functions they stand for.          *)
(***************************************************************************)
EXTENDS Naturals, FiniteSets

CONSTANTS
  Holder,      (* relays that ask for credentials                          *)
  Verifier,    (* nodes that keep a registry                               *)
  Epoch, Blinding,
  Band,        (* score bands asked for, in the units of scores            *)
  Issuer, Other, (* the key in the parameters, and some other key          *)
  RegTorn, RegAbsent, NoSig,
  MaxScore, MaxIssued, MaxMixed, MaxSpends, MaxOps   (* bounds of the model *)

VARIABLES score, requests, creds, issued, up, used, regFile, saved, spends, taken, ops

credVars == <<score, requests, creds, issued, up, used, regFile, saved, spends, taken, ops>>

Nullifier == [holder : Holder, epoch : Epoch, blinding : Blinding]

\* What the registry records: the epoch it was presented for and the nullifier.
Spent == [epoch : Epoch, nullifier : Nullifier]

ASSUME CredentialsAssumption ==
  /\ Band \subseteq Nat /\ MaxScore \in Nat
  /\ RegTorn # RegAbsent
  /\ \A spent \in SUBSET Spent : spent \notin {RegTorn, RegAbsent}

-----------------------------------------------------------------------------
(* The presentation and the binding.                                       *)

\* scale_reputation: to the nearest unit, half up.
Scale(v) == (v + 1) \div 2

\* derive_reputation_nullifier.
DeriveNullifier(h, e, b) == [holder |-> h, epoch |-> e, blinding |-> b]

\* prove: below the threshold, after scaling, the proof is empty and verifies nowhere.
Prove(s, band) == [good |-> Scale(s) >= Scale(band), band |-> Scale(band), score |-> s]

\* present_anonymous: the commitment is that of the proof.
Present(s, band) == [proof |-> Prove(s, band), commitment |-> Prove(s, band)]

\* verify_anonymous: the range proof holds for the band of its own transcript only.
VerifyAnonymous(p, band) ==
  p.commitment = p.proof /\ p.proof.good /\ p.proof.band = Scale(band)

\* canonical_binding.
CanonicalBinding(e, band, p, n) ==
  [epoch |-> e, band |-> Scale(band), commitment |-> p.commitment, nullifier |-> n]

\* sign_binding.
Signed(e, band, p, n) ==
  [epoch |-> e, band |-> band, presentation |-> p, nullifier |-> n, by |-> Issuer,
   sig |-> CanonicalBinding(e, band, p, n)]

\* verify_issuer_binding: the key of the parameters, over this very content.
VerifyBinding(c) ==
  c.by = Issuer /\ c.sig = CanonicalBinding(c.epoch, c.band, c.presentation, c.nullifier)

\* verify_credential: what verify_and_spend checks before it looks at the registry.
VerifyCredential(c) == VerifyBinding(c) /\ VerifyAnonymous(c.presentation, c.band)

-----------------------------------------------------------------------------
CredInit ==
  /\ score \in [Holder -> 0 .. MaxScore] /\ requests = {} /\ creds = {} /\ issued = {}
  /\ up = [v \in Verifier |-> TRUE] /\ used = [v \in Verifier |-> {}]
  /\ regFile = [v \in Verifier |-> RegAbsent] /\ saved = [v \in Verifier |-> {}]
  /\ spends = [v \in Verifier |-> [x \in Spent |-> 0]] /\ taken = {} /\ ops = 0

Bounded == ops < MaxOps /\ ops' = ops + 1

\* The ledger the issuer looks at goes on.
ScoreMoves(h, s) ==
  /\ Bounded /\ score[h] # s /\ score' = [score EXCEPT ![h] = s]
  /\ UNCHANGED <<requests, creds, issued, up, used, regFile, saved, spends, taken>>

\* The check of issue and of build_blinded_request, on the score as it is.
MeetsBand(h, band) == score[h] >= band

\* issue, which learns the relay.
Issue(h, e, b, band) ==
  /\ Bounded /\ Cardinality(issued) < MaxIssued /\ MeetsBand(h, band)
  /\ LET c == Signed(e, band, Present(score[h], band), DeriveNullifier(h, e, b))
     IN  creds' = creds \cup {c} /\ issued' = issued \cup {c}
  /\ UNCHANGED <<score, requests, up, used, regFile, saved, spends, taken>>

\* build_blinded_request, by the relay, over its score of this moment.
BuildBlindedRequest(h, e, b, band) ==
  /\ Bounded /\ Cardinality(requests \cup issued) < MaxIssued /\ MeetsBand(h, band)
  /\ requests' = requests \cup
       {[epoch |-> e, band |-> band, presentation |-> Present(score[h], band),
         nullifier |-> DeriveNullifier(h, e, b)]}
  /\ UNCHANGED <<score, creds, issued, up, used, regFile, saved, spends, taken>>

\* issue_from_blinded_request: only the proof is looked at.
IssueBlinded(q) ==
  /\ Bounded /\ q \in requests /\ VerifyAnonymous(q.presentation, q.band)
  /\ LET c == Signed(q.epoch, q.band, q.presentation, q.nullifier)
     IN  creds' = creds \cup {c} /\ issued' = issued \cup {c}
  /\ requests' = requests \ {q}
  /\ UNCHANGED <<score, up, used, regFile, saved, spends, taken>>

\* A credential one field of which belongs to something else.
Mixed(c, field, to) ==
  /\ Bounded /\ c \in creds /\ c[field] # to /\ Cardinality(creds \ issued) < MaxMixed
  /\ creds' = {[c EXCEPT ![field] = to]} \cup creds
  /\ UNCHANGED <<score, requests, issued, up, used, regFile, saved, spends, taken>>

\* verify_and_spend: an unknown epoch is as good as any other; a replay is refused by
\* try_register.
VerifyAndSpend(v, c) ==
  LET x == [epoch |-> c.epoch, nullifier |-> c.nullifier]
  IN  /\ up[v] /\ c \in creds /\ VerifyCredential(c) /\ x \notin used[v]
      /\ spends[v][x] < MaxSpends
      /\ used' = [used EXCEPT ![v] = @ \cup {x}]
      /\ spends' = [spends EXCEPT ![v][x] = @ + 1]
      /\ taken' = taken \cup {c}
      /\ UNCHANGED <<score, requests, creds, issued, up, regFile, saved, ops>>

-----------------------------------------------------------------------------
(* The registry.                                                           *)

\* save_to_file, from the tick of main and from its end.
SaveRegistry(v) ==
  /\ up[v] /\ regFile[v] # used[v]
  /\ regFile' = [regFile EXCEPT ![v] = used[v]] /\ saved' = [saved EXCEPT ![v] = @ \cup used[v]]
  /\ UNCHANGED <<score, requests, creds, issued, up, used, spends, taken, ops>>

\* The process dies, or dies inside fs::write.
VerifierDies(v) ==
  /\ Bounded /\ up[v] /\ up' = [up EXCEPT ![v] = FALSE]
  /\ used' = [used EXCEPT ![v] = {}]
  /\ \/ UNCHANGED regFile
     \/ regFile' = [regFile EXCEPT ![v] = RegTorn]
  /\ UNCHANGED <<score, requests, creds, issued, saved, spends, taken>>

\* Mutant of Loads: a file that cannot be read is taken for none.
LoadsAnything(v) == TRUE

\* open_or_empty: a missing file is an empty registry, a torn one an error that stops
\* the start of the node.
Loads(v) == regFile[v] # RegTorn

RegistryOf(v) == IF regFile[v] \in {RegAbsent, RegTorn} THEN {} ELSE regFile[v]

VerifierStarts(v) ==
  /\ ~up[v] /\ Loads(v)
  /\ up' = [up EXCEPT ![v] = TRUE] /\ used' = [used EXCEPT ![v] = RegistryOf(v)]
  /\ UNCHANGED <<score, requests, creds, issued, regFile, saved, spends, taken, ops>>

\* The operator takes a torn file away; what it held is gone.
RemoveTorn(v) ==
  /\ ~up[v] /\ regFile[v] = RegTorn
  /\ regFile' = [regFile EXCEPT ![v] = RegAbsent] /\ saved' = [saved EXCEPT ![v] = {}]
  /\ UNCHANGED <<score, requests, creds, issued, up, used, spends, taken, ops>>

\* merge: the union.
MergeInto(v, w) == used[v] \cup RegistryOf(w)

\* merge_nullifier_registry_from: the export of another node, then a save.
MergeFrom(v, w) ==
  /\ v # w /\ up[v] /\ regFile[w] \notin {RegAbsent, RegTorn}
  /\ used' = [used EXCEPT ![v] = MergeInto(v, w)]
  /\ regFile' = [regFile EXCEPT ![v] = MergeInto(v, w)]
  /\ saved' = [saved EXCEPT ![v] = @ \cup used[v] \cup RegistryOf(w)]
  /\ UNCHANGED <<score, requests, creds, issued, up, spends, taken, ops>>

\* rotate_epoch: forget_epoch in memory; the file follows with the next save.
RotateEpoch(v, e) ==
  /\ Bounded /\ up[v] /\ \E x \in used[v] : x.epoch = e
  /\ used' = [used EXCEPT ![v] = {x \in @ : x.epoch # e}]
  /\ saved' = [saved EXCEPT ![v] = {x \in @ : x.epoch # e}]
  /\ UNCHANGED <<score, requests, creds, issued, up, regFile, spends, taken>>

Issuing ==
  \/ \E h \in Holder, s \in 0 .. MaxScore : ScoreMoves(h, s)
  \/ \E h \in Holder, e \in Epoch, b \in Blinding, band \in Band :
       Issue(h, e, b, band) \/ BuildBlindedRequest(h, e, b, band)
  \/ \E q \in requests : IssueBlinded(q)

Mixing ==
  \E c \in creds : \/ \E n \in Nullifier : Mixed(c, "nullifier", n)
                  \/ \E e \in Epoch : Mixed(c, "epoch", e)
                  \/ \E band \in Band : Mixed(c, "band", band)
                  \/ Mixed(c, "by", Other)

RegistryStep ==
  \/ \E v \in Verifier, c \in creds : VerifyAndSpend(v, c)
  \/ \E v \in Verifier : SaveRegistry(v) \/ VerifierDies(v) \/ VerifierStarts(v) \/ RemoveTorn(v)
  \/ \E v, w \in Verifier : MergeFrom(v, w)
  \/ \E v \in Verifier, e \in Epoch : RotateEpoch(v, e)

CredNext == Issuing \/ Mixing \/ RegistryStep

CredSpec == CredInit /\ [][CredNext]_credVars

-----------------------------------------------------------------------------
\* A nullifier of the last whole save, own or imported, is not accepted again by that
\* node, over crashes, torn writes and restarts, until the operator forgets its epoch
\* or removes a file that was torn ("so a verifier process can reject presentation
\* replay", nullifier.rs:3).
SavedStaysSpent ==
  [][\A v \in Verifier : \A x \in saved[v] : spends'[v][x] = spends[v][x]]_credVars

=============================================================================
