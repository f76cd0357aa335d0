--------------------------- MODULE ReplayCacheOps ---------------------------
(***************************************************************************)
(* The per-relay replay cache of aegis-crypto/src/replay.rs as operators   *)
(* on its state.  A cache is the record of the struct's four containers    *)
(* and its generation counter:                                             *)
(*                                                                         *)
(*   seen               the HashSet used for the length test               *)
(*   order              the FIFO queue of (generation, tag) pairs, which   *)
(*                      is what the membership scan reads                  *)
(*   by_generation      generation -> tags inserted under it; a missing    *)
(*                      HashMap entry is the empty set                     *)
(*   active_generations the queue of generations, oldest first             *)
(*   generation         the u32 counter stamped on every insert            *)
(*   capacity           the bound given to with_capacity                   *)
(*                                                                         *)
(* The operators carry the names of the Rust methods.                      *)
(***************************************************************************)
EXTENDS Integers, Sequences, FiniteSets

CONSTANTS
  Tag,              (* replay tags (32-byte hashes in the code)             *)
  Capacities,       (* what with_capacity is called with; new: 1_000_000    *)
  PressureCapacity, (* MIN_CAPACITY_FOR_PRESSURE_ADVANCE, 1024              *)
  FillNum, FillDen, (* auto_advance_fill_ratio, 85 / 100                    *)
  MaxGenerations,   (* max_generations, 4                                   *)
  GenModulus        (* the generation counter wraps: 2^32                   *)

\* with_capacity(0) would turn the scan off altogether; nothing builds it.
ASSUME ReplayCacheAssumption ==
  /\ Capacities \subseteq Nat \ {0}
  /\ PressureCapacity \in Nat
  /\ FillNum \in Nat /\ FillDen \in Nat \ {0} /\ FillNum <= FillDen
  /\ MaxGenerations \in Nat \ {0}
  /\ GenModulus \in Nat \ {0, 1}

Generation == 0 .. GenModulus - 1

ReplayCacheType ==
  [seen               : SUBSET Tag,
   order              : Seq([gen : Generation, tag : Tag]),
   by_generation      : [Generation -> SUBSET Tag],
   active_generations : Seq(Generation),
   generation         : Generation,
   capacity           : Capacities]

NewReplayCache(capacity) ==
  [seen               |-> {},
   order              |-> << >>,
   by_generation      |-> [g \in Generation |-> {}],
   active_generations |-> << >>,
   generation         |-> 0,
   capacity           |-> capacity]

TagsInOrder(s) == {s.order[i].tag : i \in 1 .. Len(s.order)}

-----------------------------------------------------------------------------
\* Vec::retain: the elements of q at the indices of keep, in their order.
Retain(q, keep) ==
  [k \in 1 .. Cardinality(keep) |->
     q[CHOOSE i \in keep : Cardinality({j \in keep : j <= i}) = k]]

WithoutGeneration(gens, gen) ==
  Retain(gens, {i \in 1 .. Len(gens) : gens[i] # gen})

DropGeneration(s, gen) ==
  [seen               |-> s.seen \ s.by_generation[gen],
   order              |-> Retain(s.order, {i \in 1 .. Len(s.order) :
                                             s.order[i].gen # gen}),
   by_generation      |-> [s.by_generation EXCEPT ![gen] = {}],
   active_generations |-> WithoutGeneration(s.active_generations, gen),
   generation         |-> s.generation,
   capacity           |-> s.capacity]

\* The front generation is dropped before the counter moves on.  The while
\* loop over max_generations runs at most once per call: every call adds one
\* generation.
DropFront(s) ==
  IF s.active_generations = << >> THEN s
  ELSE DropGeneration(s, Head(s.active_generations))

StartGeneration(s) ==
  LET next == (s.generation + 1) % GenModulus
  IN  [seen               |-> s.seen,
       order              |-> s.order,
       by_generation      |-> s.by_generation,
       active_generations |-> Append(s.active_generations, next),
       generation         |-> next,
       capacity           |-> s.capacity]

AdvanceEpoch(s) ==
  LET started == StartGeneration(DropFront(s))
  IN  IF Len(started.active_generations) > MaxGenerations
      THEN DropFront(started) ELSE started

\* Mutant of EvictOldest: pop_back instead of pop_front.
EvictNewest(s) ==
  LET n == Len(s.order)
  IN  IF n = 0 THEN s ELSE
      [s EXCEPT !.seen = @ \ {s.order[n].tag},
                !.order = SubSeq(@, 1, n - 1),
                !.by_generation[s.order[n].gen] = @ \ {s.order[n].tag}]

\* pop_front and remove_tag_from_generation: FIFO eviction of one tag.
EvictOldest(s) ==
  LET gen == s.order[1].gen
      t   == s.order[1].tag
      lastOfGen == s.by_generation[gen] = {t}
  IN  IF s.order = << >> THEN s ELSE
      [seen               |-> s.seen \ {t},
       order              |-> Tail(s.order),
       by_generation      |-> [s.by_generation EXCEPT ![gen] = @ \ {t}],
       active_generations |->
         IF lastOfGen THEN WithoutGeneration(s.active_generations, gen)
                      ELSE s.active_generations,
       generation         |-> s.generation,
       capacity           |-> s.capacity]

InsertTag(s, t) ==
  [seen               |-> s.seen \cup {t},
   order              |-> Append(s.order, [gen |-> s.generation, tag |-> t]),
   by_generation      |-> [s.by_generation EXCEPT ![s.generation] = @ \cup {t}],
   active_generations |-> IF s.active_generations = << >> THEN <<s.generation>>
                          ELSE s.active_generations,
   generation         |-> s.generation,
   capacity           |-> s.capacity]

\* Mutant of CtContains: the scan stops one slot short.
CtContainsShort(s, t) ==
  \E i \in 1 .. s.capacity - 1 : i <= Len(s.order) /\ s.order[i].tag = t

\* The scan reads exactly capacity slots and masks the inactive ones.
CtContains(s, t) ==
  \E i \in 1 .. s.capacity : i <= Len(s.order) /\ s.order[i].tag = t

PressureThreshold(s) == (s.capacity * FillNum) \div FillDen

UnderPressure(s) ==
  /\ s.capacity >= PressureCapacity
  /\ Cardinality(s.seen) >= PressureThreshold(s)

\* What check_and_insert does to make room before it inserts.
MakeRoom(s) ==
  LET relieved == IF UnderPressure(s) THEN AdvanceEpoch(s) ELSE s
      full(c)  == Cardinality(c.seen) >= s.capacity
      hard     == IF full(relieved) /\ s.capacity >= PressureCapacity
                  THEN AdvanceEpoch(relieved) ELSE relieved
  IN  IF full(hard) THEN EvictOldest(hard) ELSE hard

\* check_and_insert: TRUE when the tag is fresh.
IsFresh(s, t) == ~CtContains(s, t)
CheckAndInsert(s, t) == IF IsFresh(s, t) THEN InsertTag(MakeRoom(s), t) ELSE s
=============================================================================
