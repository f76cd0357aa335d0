------------------------------ MODULE Topology ------------------------------
(***************************************************************************)
(* Layers, guards and paths of aegis-topology (layers.rs, guards.rs,       *)
(* guard_mitigation.rs, path.rs, pruning.rs) as operators.                 *)
(*                                                                         *)
(* Relays are numbers, in the order of their ids.  A roster is a function  *)
(* from the admitted relays to [jur, kem].  A seeded generator is the      *)
(* function Draw: the same seed, step and range give the same number.  A   *)
(* seed is mixed by a wrapping multiplication with a fixed number, Mix.    *)
(* What is drawn from the system generator may be anything.                *)
(***************************************************************************)
EXTENDS Reputation, Sequences, FiniteSets, FiniteSetsExt, SequencesExt, Functions

CONSTANTS
  Draw(_, _, _),   (* seed, step, n -> 0 .. n - 1                          *)
  Mix,             (* the multipliers of the seeds                         *)
  Word,            (* seeds are taken modulo Word, 2^64                    *)
  Roll(_),         (* age -> age * 0x9E3779B97F4A7C15 modulo 2^64, % 100    *)
  LayerCount, GuardCount

\* build_topology refuses to deal into no layers; GUARD_SET_SIZE is 3; gen_range stays
\* below its bound.
ASSUME TopologyAssumption ==
  /\ LayerCount \in Nat \ {0} /\ GuardCount \in Nat \ {0}
  /\ Mix \in Nat /\ Word \in Nat \ {0}
  /\ Relay \subseteq Nat /\ IsFiniteSet(Relay)
  /\ \A seed \in 0 .. Word - 1, step, n \in 1 .. Cardinality(Relay) : Draw(seed, step, n) \in 0 .. n - 1

\* wrapping_mul and wrapping_add.
Wrapped(seed, more) == (seed * Mix + more) % Word

\* The numbers of a set, in order.
Ascending(S) ==
  CHOOSE s \in [1 .. Cardinality(S) -> S] : \A i, j \in DOMAIN s : i < j => s[i] < s[j]

\* What a sequence has at some places, in order.
At(s, places) == LET p == Ascending(places) IN [k \in DOMAIN p |-> s[p[k]]]

SwapAt(s, i, j) == [s EXCEPT ![i] = s[j], ![j] = s[i]]

\* The shuffle of build_topology: from the last place down to the second.
Shuffled(ids, seed) ==
  LET n == Len(ids)
      f[k \in 0 .. n] == IF k < 2 THEN ids
                         ELSE LET i == n - k + 2   \* places n, n - 1 .. 2 in turn
                              IN  SwapAt(f[k - 1], i, Draw(seed, i, i) + 1)
  IN  f[n]

\* layers[i % layer_count].push(id).
Dealt(ids) ==
  [l \in 1 .. LayerCount |-> At(ids, {i \in 1 .. Len(ids) : (i - 1) % LayerCount = l - 1})]

\* admitted_sorted, and the same above a reputation.
AdmittedSorted(roster) == Ascending(DOMAIN roster)
AdmittedAbove(roster, ledger, floor) ==
  Ascending({r \in DOMAIN roster : Score(ledger, r) >= floor})

\* build_topology; an empty roster is an error.
BuildTopology(ids, epoch, seed) ==
  [epoch |-> epoch, layers |-> Dealt(Shuffled(ids, Wrapped(seed, epoch)))]

-----------------------------------------------------------------------------
(* Guard mitigation.                                                       *)

Disabled      == [max |-> 1000000, soft |-> 1000000, anomaly |-> FALSE, peer |-> FALSE, spike |-> 3]
AdaptiveFirst == [max |-> 12, soft |-> 12, anomaly |-> TRUE, peer |-> TRUE, spike |-> 2]
AdaptiveV2    == [max |-> 8, soft |-> 8, anomaly |-> TRUE, peer |-> TRUE, spike |-> 1]
AdaptiveV3    == [max |-> 4, soft |-> 2, anomaly |-> TRUE, peer |-> TRUE, spike |-> 1]
AdaptiveV4    == [max |-> 2, soft |-> 1, anomaly |-> TRUE, peer |-> TRUE, spike |-> 1]

\* resolve_policy: a preset that is not known turns mitigation off.
ResolvePolicy(preset, adaptiveFirst) ==
  CASE preset = "adaptive_first" -> AdaptiveFirst
    [] preset = "adaptive_v2" -> AdaptiveV2
    [] preset = "adaptive_v3" -> AdaptiveV3
    [] preset = "adaptive_v4" -> AdaptiveV4
    [] preset = "none" /\ adaptiveFirst -> AdaptiveFirst
    [] OTHER -> Disabled

SoftStickyResample(m, age) ==
  /\ m.soft < m.max /\ age >= m.soft
  /\ Roll(age) < ((age - m.soft + 1) * 100) \div (m.max - m.soft + 1)

ShouldResample(m, sig) ==
  \/ sig.age >= m.max
  \/ SoftStickyResample(m, sig.age)
  \/ m.anomaly /\ sig.anomaly
  \/ m.peer /\ sig.peers >= m.spike

PinMode(m, base, sig) == IF ShouldResample(m, sig) THEN "Rotate" ELSE base

\* client_seed_for_guards; resample_guard_client_seed mixes the signals in.
GuardSeed(m, seed, sig) ==
  IF ShouldResample(m, sig)
  THEN Wrapped(seed, sig.age * Mix + sig.peers + (IF sig.anomaly THEN 1 ELSE 0))
  ELSE seed

-----------------------------------------------------------------------------
\* relay_satisfies_pruning_policy and path_satisfies_pruning_policy: the score is
\* at the caller's floor.
Satisfies(ledger, r, floor) == Score(ledger, r) >= floor

\* Mutant of PathSatisfies: hops behind the guard are not looked at.
PathSatisfiesAtEntry(ledger, path, floor) == Satisfies(ledger, path[1], floor)

PathSatisfies(ledger, path, floor) ==
  \A i \in 1 .. Len(path) : Satisfies(ledger, path[i], floor)

\* new_reputation_weighted_pruned: a partial shuffle of the candidates of layer 1.
GuardCandidates(topo, ledger, floor) ==
  LET layer == topo.layers[1]
  IN  At(layer, {i \in 1 .. Len(layer) : Satisfies(ledger, layer[i], floor)})

PickGuards(cands, seed, epoch) ==
  LET n == Len(cands)
      f[k \in 0 .. GuardCount] ==
        IF k = 0 THEN cands
        ELSE SwapAt(f[k - 1], k, k + Draw(Wrapped(seed, epoch), k, n - k + 1))
  IN  SubSeq(f[GuardCount], 1, GuardCount)

\* entry_guard_for_packet.
EntryGuard(guards, pin, packet) ==
  IF pin = "Rotate" THEN guards[(packet % Len(guards)) + 1] ELSE guards[1]

\* select_path_indexed_impl: the paths it may return.
PathsThrough(topo, entry) ==
  {p \in [1 .. LayerCount -> UNION {Range(topo.layers[l]) : l \in 1 .. LayerCount}] :
     p[1] = entry /\ \A l \in 2 .. LayerCount : p[l] \in Range(topo.layers[l])}

HasEmptyLayer(topo) == \E l \in 1 .. LayerCount : topo.layers[l] = <<>>

\* path_satisfies_jurisdiction walks the path: a relay that is gone is an error
\* unless a jurisdiction was over its number before.
JurisdictionVerdict(path, roster, most) ==
  LET gone(k) == path[k] \notin DOMAIN roster
      same(k) == {i \in 1 .. k : path[i] \in DOMAIN roster
                                 /\ roster[path[i]].jur = roster[path[k]].jur}
      over(k) == ~gone(k) /\ Cardinality(same(k)) > most
      stops   == {k \in 1 .. Len(path) : gone(k) \/ over(k)}
  IN  IF stops = {} THEN "ok" ELSE IF gone(Min(stops)) THEN "gone" ELSE "no"

\* relay_records_for_path: every relay of the path has its record.
HasRecords(path, roster) == \A i \in 1 .. Len(path) : path[i] \in DOMAIN roster

\* What one attempt makes of a path.  The plain builder looks for the records
\* first, the diverse one for the scores.
AttemptPlain(path, roster, ledger, floor) ==
  IF ~HasRecords(path, roster) THEN "gone"
  ELSE IF PathSatisfies(ledger, path, floor) THEN "ok" ELSE "no"

AttemptDiverse(path, roster, ledger, floor, most) ==
  IF ~PathSatisfies(ledger, path, floor) THEN "no"
  ELSE JurisdictionVerdict(path, roster, most)
=============================================================================
