---------------------------- MODULE RelayNodeProofs ----------------------------
(***************************************************************************)
(* A relay node, proved.  Of its replay cache (ReplayCache): every set of  *)
(* tags, every capacity, every pressure threshold, every number of         *)
(* generations and every width of the generation counter.  Of its loop     *)
(* (RelayNode): the handshake with the round controller and the cover a    *)
(* round ends with, for every size of the channels, every cover plan and   *)
(* target and whichever ends go away; and that a packet is sent on once    *)
(* while the replay cache remembers it, from the lemmas on the cache's     *)
(* operators.  Of its start (NodeStart): the identity a running node has,  *)
(* for every set of keys, every TOML and any number of edits, stops and    *)
(* torn writes.                                                            *)
(***************************************************************************)
EXTENDS RelayNode, NodeStart, ReplayCache, FiniteSetTheorems, SequenceTheorems, TLAPS

-----------------------------------------------------------------------------
(* The replay cache.                                                       *)

(***************************************************************************)
(* The reachable shape of the cache.  The counter's current generation is  *)
(* the only one that is ever active, and so the only one with tags: this   *)
(* is what makes every advance forget the whole cache.                     *)
(***************************************************************************)
OneGeneration(s) ==
  /\ s.active_generations \in {<< >>, <<s.generation>>}
  /\ s.order # << >> => s.active_generations # << >>
  /\ \A i \in 1 .. Len(s.order) : s.order[i].gen = s.generation
  /\ \A g \in Generation :
       s.by_generation[g] = IF g = s.generation THEN s.seen ELSE {}

Counted(s) ==
  /\ s.seen = TagsInOrder(s)
  /\ IsFiniteSet(s.seen)
  /\ Cardinality(s.seen) = Len(s.order)
  /\ \A i, j \in 1 .. Len(s.order) :
       s.order[i].tag = s.order[j].tag => i = j

Good(s) ==
  /\ s \in ReplayCacheType
  /\ OneGeneration(s)
  /\ Counted(s)

Emptied(s) == s.order = << >> /\ s.seen = {}

-----------------------------------------------------------------------------
\* Vec::retain with nothing to keep returns the empty queue.
LEMMA RetainNothing ==
  ASSUME NEW q
  PROVE  Retain(q, {}) = << >>
<1>1. Cardinality({}) = 0
  BY FS_EmptySet
<1> DEFINE f == Retain(q, {})
<1>2. DOMAIN f = {}
  BY <1>1 DEF Retain
<1>3. f \in Seq({})
  <2>1. 1 .. 0 = {}
    OBVIOUS
  <2>2. f \in [1 .. 0 -> {}]
    BY <1>1, <2>1 DEF Retain
  <2> QED
    BY <2>2
<1>4. Len(f) = 0
  BY <1>2, <1>3
<1> QED
  BY <1>3, <1>4, SeqEqual, EmptySeq

\* The initial and the cleared cache have the reachable shape.
LEMMA NewGood ==
  ASSUME NEW c \in Capacities
  PROVE  Good(NewReplayCache(c)) /\ Emptied(NewReplayCache(c))
<1> USE ReplayCacheAssumption DEF NewReplayCache
<1>1. NewReplayCache(c) \in ReplayCacheType
  BY DEF ReplayCacheType, Generation
<1>2. OneGeneration(NewReplayCache(c))
  BY DEF OneGeneration
<1>3. Counted(NewReplayCache(c))
  BY FS_EmptySet DEF Counted, TagsInOrder
<1> QED
  BY <1>1, <1>2, <1>3 DEF Good, Emptied

\* Dropping the current generation of a reachable cache drops everything.
LEMMA DropGenerationEmpties ==
  ASSUME NEW s, Good(s), s.active_generations = <<s.generation>>
  PROVE  DropGeneration(s, s.generation) =
           [seen |-> {}, order |-> << >>,
            by_generation |-> [g \in Generation |-> {}],
            active_generations |-> << >>, generation |-> s.generation,
             capacity |-> s.capacity]
<1> DEFINE gen == s.generation
<1>1. /\ gen \in Generation
      /\ s.by_generation \in [Generation -> SUBSET Tag]
      /\ \A g \in Generation : s.by_generation[g] = IF g = gen THEN s.seen ELSE {}
  BY DEF Good, OneGeneration, ReplayCacheType
<1>2. {i \in 1 .. Len(s.order) : s.order[i].gen # gen} = {}
  BY DEF Good, OneGeneration
<1>3. WithoutGeneration(<<gen>>, gen) = << >>
  <2>1. {i \in 1 .. Len(<<gen>>) : <<gen>>[i] # gen} = {}
    OBVIOUS
  <2> QED
    BY <2>1, RetainNothing DEF WithoutGeneration
<1>4. s.seen \ s.by_generation[gen] = {}
  BY <1>1
<1>5. [s.by_generation EXCEPT ![gen] = {}] = [g \in Generation |-> {}]
  BY <1>1
<1> QED
  BY <1>2, <1>3, <1>4, <1>5, RetainNothing DEF DropGeneration

\* advance_epoch on a reachable cache: the shape is kept, nothing is
\* remembered, and the counter has moved on by one.
LEMMA AdvanceEmpties ==
  ASSUME NEW s, Good(s)
  PROVE  /\ Good(AdvanceEpoch(s)) /\ Emptied(AdvanceEpoch(s))
         /\ AdvanceEpoch(s).capacity = s.capacity
         /\ AdvanceEpoch(s).generation = (s.generation + 1) % GenModulus
<1> DEFINE next == (s.generation + 1) % GenModulus
           empty == [seen |-> {}, order |-> << >>,
                     by_generation |-> [g \in Generation |-> {}],
                     active_generations |-> << >>, generation |-> s.generation,
             capacity |-> s.capacity]
           result == [seen |-> {}, order |-> << >>,
                      by_generation |-> [g \in Generation |-> {}],
                      active_generations |-> <<next>>, generation |-> next, capacity |-> s.capacity]
<1>1. s.generation \in Generation /\ next \in Generation
  BY ReplayCacheAssumption DEF Good, ReplayCacheType, Generation
<1>2. DropFront(s) = empty
  <2>1. CASE s.active_generations = << >>
    <3>1. s.order = << >> /\ s.seen = {}
      BY <2>1 DEF Good, OneGeneration, Counted, TagsInOrder
    <3>2. s.by_generation = [g \in Generation |-> {}]
      BY <3>1 DEF Good, OneGeneration, ReplayCacheType
    <3> QED
      BY <2>1, <3>1, <3>2 DEF DropFront, Good, ReplayCacheType
  <2>2. CASE s.active_generations = <<s.generation>>
    <3>1. s.active_generations # << >> /\ Head(s.active_generations) = s.generation
      BY <2>2, <1>1
    <3> QED
      BY <2>2, <3>1, DropGenerationEmpties DEF DropFront
  <2> QED
    BY <2>1, <2>2 DEF Good, OneGeneration
<1>3. StartGeneration(empty) = result
  <2>1. Append(<< >>, next) = <<next>>
    OBVIOUS
  <2> QED
    BY <2>1 DEF StartGeneration
<1>4. AdvanceEpoch(s) = result
  <2>1. Len(result.active_generations) = 1 /\ ~(1 > MaxGenerations)
    BY ReplayCacheAssumption
  <2> HIDE DEF result, empty
  <2> QED
    BY <1>2, <1>3, <2>1 DEF AdvanceEpoch
<1>5. /\ result \in ReplayCacheType /\ result.capacity = s.capacity
      /\ result.generation = next
  <2>0. s.capacity \in Capacities
    BY DEF Good, ReplayCacheType
  <2>1. << >> \in Seq([gen : Generation, tag : Tag]) /\ <<next>> \in Seq(Generation)
    BY <1>1
  <2> QED
    BY <1>1, <2>0, <2>1 DEF ReplayCacheType
<1>6. OneGeneration(result)
  BY DEF OneGeneration
<1>7. Counted(result)
  BY FS_EmptySet DEF Counted, TagsInOrder
<1> HIDE DEF result
<1>8. Emptied(result)
  BY DEF Emptied, result
<1> QED
  BY <1>4, <1>5, <1>6, <1>7, <1>8 DEF Good

\* Evicting the oldest of a nonempty reachable cache removes the front of the
\* queue and exactly that tag.
LEMMA EvictGood ==
  ASSUME NEW s, Good(s), s.order # << >>
  PROVE  LET e == EvictOldest(s) IN
         /\ Good(e)
         /\ e.order = Tail(s.order)
         /\ e.generation = s.generation
         /\ e.capacity = s.capacity
<1> DEFINE gen == s.order[1].gen
           t == s.order[1].tag
           e == EvictOldest(s)
           n == Len(s.order)
           Item == [gen : Generation, tag : Tag]
<1>a. s.order \in Seq(Item) /\ n \in Nat \ {0}
  <2>1. s.order \in Seq(Item)
    BY DEF Good, ReplayCacheType
  <2> QED
    BY <2>1, EmptySeq
<1>b. s.active_generations = <<s.generation>>
  BY DEF Good, OneGeneration
<1>c. s.seen = TagsInOrder(s) /\ IsFiniteSet(s.seen) /\ Cardinality(s.seen) = n
  BY DEF Good, Counted
<1>f. \A i, j \in 1 .. n : s.order[i].tag = s.order[j].tag => i = j
  BY DEF Good, Counted
<1>e. /\ s.by_generation \in [Generation -> SUBSET Tag]
      /\ s.generation \in Generation /\ s.seen \in SUBSET Tag
      /\ \A g \in Generation :
           s.by_generation[g] = IF g = s.generation THEN s.seen ELSE {}
  BY DEF Good, OneGeneration, ReplayCacheType
<1>1. /\ s.generation \in Generation /\ s.seen \in SUBSET Tag
      /\ s.by_generation \in [Generation -> SUBSET Tag]
      /\ \A i \in 1 .. n : s.order[i] \in Item /\ s.order[i].gen = s.generation
      /\ \A g \in Generation :
           s.by_generation[g] = IF g = s.generation THEN s.seen ELSE {}
  <2>1. \A i \in 1 .. n : s.order[i] \in Item
    BY <1>a, ElementOfSeq
  <2> QED
    BY <2>1 DEF Good, OneGeneration, ReplayCacheType
<1>2. gen = s.generation /\ t \in s.seen /\ t \in Tag
  <2>1. 1 \in 1 .. n
    BY <1>a
  <2> QED
    BY <2>1, <1>1, <1>c DEF TagsInOrder
<1>3. /\ e.seen = s.seen \ {t}
      /\ e.order = Tail(s.order)
      /\ e.by_generation = [s.by_generation EXCEPT ![gen] = @ \ {t}]
      /\ e.active_generations = IF s.seen = {t}
                                THEN WithoutGeneration(s.active_generations, gen)
                                ELSE s.active_generations
      /\ e.generation = s.generation
      /\ e.capacity = s.capacity /\ s.capacity \in Capacities
  BY <1>1, <1>2 DEF EvictOldest, Good, ReplayCacheType
<1>d. e = [seen |-> e.seen, order |-> e.order, by_generation |-> e.by_generation,
           active_generations |-> e.active_generations, generation |-> e.generation,
           capacity |-> e.capacity]
  BY DEF EvictOldest
<1>g. /\ e.by_generation \in [Generation -> SUBSET Tag]
      /\ \A g \in Generation :
           e.by_generation[g] = IF g = s.generation THEN e.seen ELSE {}
  <2> HIDE DEF e, t, gen
  <2>1. e.by_generation = [s.by_generation EXCEPT ![s.generation] = s.seen \ {t}]
    BY <1>e, <1>2, <1>3
  <2>2. s.seen \ {t} \in SUBSET Tag
    BY <1>e
  <2>3. e.by_generation \in [Generation -> SUBSET Tag]
    BY <1>e, <2>1, <2>2
  <2>4. ASSUME NEW g \in Generation
        PROVE  e.by_generation[g] = IF g = s.generation THEN e.seen ELSE {}
    BY <1>e, <1>3, <2>1
  <2> QED
    BY <2>3, <2>4
<1> HIDE DEF e, n, t, gen
<1>4. /\ Tail(s.order) \in Seq(Item) /\ Len(Tail(s.order)) = n - 1
      /\ \A i \in 1 .. n - 1 : Tail(s.order)[i] = s.order[i + 1]
  BY <1>a, HeadTailProperties DEF n
<1>5. e.active_generations \in {<< >>, <<s.generation>>}
      /\ (e.active_generations = << >> => s.seen = {t})
  <2>1. WithoutGeneration(<<s.generation>>, s.generation) = << >>
    <3>1. {i \in 1 .. Len(<<s.generation>>) : <<s.generation>>[i] # s.generation} = {}
      OBVIOUS
    <3> QED
      BY <3>1, RetainNothing DEF WithoutGeneration
  <2> QED
    BY <1>b, <1>1, <1>2, <1>3, <2>1
<1>6. IsFiniteSet(e.seen) /\ Cardinality(e.seen) = n - 1
  BY <1>c, <1>2, <1>3, FS_RemoveElement
<1>7. e.seen = TagsInOrder(e)
  <2> DEFINE rest == {s.order[i].tag : i \in 2 .. n}
  <2>1. TagsInOrder(e) = rest
    <3>1. TagsInOrder(e) = {s.order[i + 1].tag : i \in 1 .. n - 1}
      <4>1. TagsInOrder(e) = {Tail(s.order)[i].tag : i \in 1 .. n - 1}
        <5>1. TagsInOrder(e) = {e.order[i].tag : i \in 1 .. Len(e.order)}
          BY DEF TagsInOrder
        <5>2. e.order = Tail(s.order) /\ Len(Tail(s.order)) = n - 1
          BY <1>3, <1>4
        <5> QED
          BY <5>1, <5>2
      <4> QED
        BY <1>4, <4>1
    <3>2. \A i \in 2 .. n : i - 1 \in 1 .. n - 1 /\ (i - 1) + 1 = i
      BY <1>a
    <3>3. \A i \in 1 .. n - 1 : i + 1 \in 2 .. n
      BY <1>a
    <3> QED
      BY <3>1, <3>2, <3>3
  <2>2. s.seen = rest \cup {t}
    <3>1. \A i \in 1 .. n : i = 1 \/ i \in 2 .. n
      BY <1>a
    <3>2. 1 \in 1 .. n /\ \A i \in 2 .. n : i \in 1 .. n
      BY <1>a
    <3> QED
      BY <1>c, <3>1, <3>2 DEF TagsInOrder, n, t
  <2>3. t \notin rest
    <3>1. \A i \in 2 .. n : i # 1 /\ i \in 1 .. n /\ 1 \in 1 .. n
      BY <1>a
    <3> QED
      BY <1>f, <3>1 DEF t
  <2> QED
    BY <1>3, <2>1, <2>2, <2>3
<1>8. OneGeneration(e)
  <2>1. \A i \in 1 .. Len(e.order) : e.order[i].gen = e.generation
    <3>1. \A i \in 1 .. n - 1 : i + 1 \in 1 .. n
      BY <1>a
    <3>2. \A i \in 1 .. n - 1 : Tail(s.order)[i].gen = s.generation
      BY <1>1, <1>4, <3>1
    <3> QED
      BY <1>3, <1>4, <3>2
  <2>2. \A g \in Generation :
          e.by_generation[g] = IF g = e.generation THEN e.seen ELSE {}
    BY <1>3, <1>g
  <2>3. e.order # << >> => e.active_generations # << >>
    <3> SUFFICES ASSUME e.active_generations = << >> PROVE e.order = << >>
      OBVIOUS
    <3>1. e.seen = {}
      BY <1>3, <1>5
    <3>2. n - 1 = 0
      BY <1>6, <3>1, FS_EmptySet
    <3> QED
      BY <1>3, <1>4, <3>2, EmptySeq
  <2> QED
    BY <1>3, <1>5, <2>1, <2>2, <2>3 DEF OneGeneration
<1>9. e \in ReplayCacheType
  <2>2. e.active_generations \in Seq(Generation)
    <3>1. << >> \in Seq(Generation) /\ <<s.generation>> \in Seq(Generation)
      BY <1>1
    <3> QED
      BY <1>5, <3>1
  <2>3. e.seen \in SUBSET Tag /\ e.order \in Seq(Item) /\ e.generation \in Generation
    BY <1>e, <1>3, <1>4
  <2> QED
    BY <1>d, <1>g, <1>3, <2>2, <2>3 DEF ReplayCacheType
<1>10. \A i, j \in 1 .. Len(e.order) : e.order[i].tag = e.order[j].tag => i = j
  <2>1. \A i \in 1 .. n - 1 : i + 1 \in 1 .. n
    BY <1>a
  <2>2. \A i, j \in 1 .. n - 1 : i + 1 = j + 1 => i = j
    BY <1>a
  <2>3. ASSUME NEW i \in 1 .. n - 1, NEW j \in 1 .. n - 1,
               s.order[i + 1].tag = s.order[j + 1].tag
        PROVE  i = j
    BY <1>f, <2>1, <2>2, <2>3
  <2>4. Len(e.order) = n - 1 /\ \A i \in 1 .. n - 1 : e.order[i] = s.order[i + 1]
    BY <1>3, <1>4
  <2> QED
    BY <2>3, <2>4
<1> QED
  <2>1. Cardinality(e.seen) = Len(e.order)
    BY <1>3, <1>4, <1>6
  <2> QED
    BY <1>3, <1>6, <1>7, <1>8, <1>9, <1>10, <2>1 DEF Good, Counted, e

\* Inserting a tag the cache does not hold appends it to the queue.
LEMMA InsertGood ==
  ASSUME NEW s, Good(s), NEW t \in Tag, t \notin s.seen
  PROVE  LET r == InsertTag(s, t) IN
         /\ Good(r)
         /\ r.order = Append(s.order, [gen |-> s.generation, tag |-> t])
         /\ r.capacity = s.capacity
<1> DEFINE r == InsertTag(s, t)
           n == Len(s.order)
           Item == [gen : Generation, tag : Tag]
           new == [gen |-> s.generation, tag |-> t]
<1>1. /\ r.seen = s.seen \cup {t}
      /\ r.order = Append(s.order, new)
      /\ r.by_generation = [s.by_generation EXCEPT ![s.generation] = @ \cup {t}]
      /\ r.active_generations = IF s.active_generations = << >>
                                THEN <<s.generation>> ELSE s.active_generations
      /\ r.generation = s.generation /\ r.capacity = s.capacity
      /\ r = [seen |-> r.seen, order |-> r.order,
              by_generation |-> r.by_generation,
              active_generations |-> r.active_generations,
              generation |-> r.generation, capacity |-> r.capacity]
  BY DEF InsertTag
<1>2. /\ s.by_generation \in [Generation -> SUBSET Tag]
      /\ s.capacity \in Capacities
      /\ s.generation \in Generation /\ s.seen \in SUBSET Tag
      /\ \A g \in Generation :
           s.by_generation[g] = IF g = s.generation THEN s.seen ELSE {}
      /\ s.active_generations \in {<< >>, <<s.generation>>}
  BY DEF Good, OneGeneration, ReplayCacheType
<1>3. s.order \in Seq(Item) /\ n \in Nat
  <2>1. s.order \in Seq(Item)
    BY DEF Good, ReplayCacheType
  <2> QED
    BY <2>1, LenProperties
<1>4. /\ s.seen = TagsInOrder(s) /\ IsFiniteSet(s.seen) /\ Cardinality(s.seen) = n
      /\ \A i, j \in 1 .. n : s.order[i].tag = s.order[j].tag => i = j
  BY DEF Good, Counted
<1>5. \A i \in 1 .. n : s.order[i].gen = s.generation
  BY DEF Good, OneGeneration
<1> HIDE DEF r, n
<1>6. /\ r.order \in Seq(Item) /\ Len(r.order) = n + 1
      /\ \A i \in 1 .. n : r.order[i] = s.order[i]
      /\ r.order[n + 1] = new
  <2>1. new \in Item
    BY <1>2
  <2> HIDE DEF new
  <2> QED
    BY <1>1, <1>3, <2>1, AppendProperties DEF n
<1>7. \A i \in 1 .. n + 1 : i \in 1 .. n \/ i = n + 1
  BY <1>3
<1>8. (\A i \in 1 .. n : i \in 1 .. n + 1) /\ n + 1 \in 1 .. n + 1 /\ n + 1 \notin 1 .. n
  BY <1>3
<1>9. r \in ReplayCacheType
  <2>1. r.active_generations \in Seq(Generation)
    <3>1. << >> \in Seq(Generation) /\ <<s.generation>> \in Seq(Generation)
      BY <1>2
    <3>2. r.active_generations = << >> \/ r.active_generations = <<s.generation>>
      BY <1>1, <1>2
    <3> QED
      BY <3>1, <3>2
  <2>2. r.by_generation \in [Generation -> SUBSET Tag] /\ r.seen \in SUBSET Tag
    BY <1>1, <1>2
  <2> QED
    BY <1>1, <1>2, <1>6, <2>1, <2>2 DEF ReplayCacheType
<1>10. OneGeneration(r)
  <2>1. /\ r.active_generations \in {<< >>, <<r.generation>>}
        /\ r.order # << >> => r.active_generations # << >>
    BY <1>1, <1>2
  <2>2. \A i \in 1 .. Len(r.order) : r.order[i].gen = r.generation
    BY <1>1, <1>5, <1>6, <1>7
  <2>3. ASSUME NEW g \in Generation
        PROVE  r.by_generation[g] = IF g = r.generation THEN r.seen ELSE {}
    <3>1. r.by_generation[g] = IF g = s.generation THEN s.by_generation[g] \cup {t}
                               ELSE s.by_generation[g]
      BY <1>1, <1>2
    <3>2. s.by_generation[g] = IF g = s.generation THEN s.seen ELSE {}
      BY <1>2
    <3>3. r.seen = s.seen \cup {t} /\ r.generation = s.generation
      BY <1>1
    <3> QED
      BY <3>1, <3>2, <3>3
  <2> QED
    BY <2>1, <2>2, <2>3 DEF OneGeneration
<1>11. IsFiniteSet(r.seen) /\ Cardinality(r.seen) = n + 1
  BY <1>1, <1>4, FS_AddElement
<1>12. r.seen = TagsInOrder(r)
  <2>1. TagsInOrder(r) = {r.order[i].tag : i \in 1 .. n + 1}
    BY <1>6 DEF TagsInOrder
  <2>2. TagsInOrder(s) = {r.order[i].tag : i \in 1 .. n}
    BY <1>6 DEF TagsInOrder, n
  <2>3. r.order[n + 1].tag = t
    BY <1>6
  <2>4. TagsInOrder(r) \subseteq TagsInOrder(s) \cup {t}
    BY <1>7, <2>1, <2>2, <2>3
  <2>5. TagsInOrder(s) \cup {t} \subseteq TagsInOrder(r)
    BY <1>8, <2>1, <2>2, <2>3
  <2> QED
    BY <1>1, <1>4, <2>4, <2>5
<1>13. ASSUME NEW i \in 1 .. n + 1, NEW j \in 1 .. n + 1,
              r.order[i].tag = r.order[j].tag
       PROVE  i = j
  <2>1. \A k \in 1 .. n : r.order[k].tag = s.order[k].tag /\ r.order[k].tag # t
    BY <1>4, <1>6 DEF TagsInOrder, n
  <2>2. r.order[n + 1].tag = t
    BY <1>6
  <2> QED
    BY <1>4, <1>7, <1>13, <2>1, <2>2
<1> QED
  <2>1. Counted(r)
    BY <1>6, <1>11, <1>12, <1>13 DEF Counted
  <2> QED
    BY <1>1, <1>9, <1>10, <2>1 DEF Good, r

\* The proactive threshold is never above the capacity, so a full cache above
\* the pressure capacity is under pressure too.
LEMMA ThresholdBound ==
  ASSUME NEW s, s.capacity \in Capacities
  PROVE  PressureThreshold(s) \in Nat /\ PressureThreshold(s) <= s.capacity
<1> DEFINE q == PressureThreshold(s)
<1>1. /\ s.capacity \in Nat /\ FillNum \in Nat /\ FillDen \in Nat \ {0}
      /\ FillNum <= FillDen
  BY ReplayCacheAssumption
<1>2. s.capacity * FillNum \in Nat /\ s.capacity * FillNum <= s.capacity * FillDen
  BY <1>1
<1>3. q \in Nat /\ q * FillDen <= s.capacity * FillNum
  BY <1>1, <1>2 DEF PressureThreshold
<1> HIDE DEF q
<1>4. q * FillDen <= s.capacity * FillDen
  BY <1>1, <1>2, <1>3
<1>5. q <= s.capacity
  BY <1>1, <1>3, <1>4
<1> QED
  BY <1>3, <1>5 DEF q

\* Every reachable cache was built with a positive capacity.
LEMMA CapacityPositive ==
  ASSUME NEW s, Good(s)
  PROVE  s.capacity \in Capacities /\ s.capacity \in Nat \ {0}
<1>1. s.capacity \in Capacities
  BY DEF Good, ReplayCacheType
<1> QED
  BY <1>1, ReplayCacheAssumption

\* The scan of capacity slots is membership in seen while the queue fits.
LEMMA ScanIsMembership ==
  ASSUME NEW s, Good(s), Len(s.order) <= s.capacity, NEW t
  PROVE  IsFresh(s, t) <=> t \notin s.seen
<1>1. Len(s.order) \in Nat
  BY LenProperties DEF Good, ReplayCacheType
<1>2. \A i \in 1 .. Len(s.order) : i \in 1 .. s.capacity /\ i <= Len(s.order)
  BY <1>1, CapacityPositive
<1>3. \A i \in 1 .. s.capacity : i <= Len(s.order) => i \in 1 .. Len(s.order)
  BY <1>1, CapacityPositive
<1> QED
  BY <1>2, <1>3 DEF IsFresh, CtContains, Good, Counted, TagsInOrder

\* Making room: under pressure everything is forgotten, a full cache loses its
\* oldest tag, and any other cache is left alone.
LEMMA MakeRoomGood ==
  ASSUME NEW s, Good(s), Len(s.order) <= s.capacity
  PROVE  LET m == MakeRoom(s) IN
         /\ Good(m)
         /\ UnderPressure(s) => Emptied(m)
         /\ ~UnderPressure(s) /\ Len(s.order) = s.capacity => m.order = Tail(s.order)
         /\ ~UnderPressure(s) /\ Len(s.order) < s.capacity => m = s
         /\ m.capacity = s.capacity
         /\ m.generation = IF UnderPressure(s) THEN (s.generation + 1) % GenModulus
                           ELSE s.generation
<1>1. /\ Cardinality(s.seen) = Len(s.order) /\ Len(s.order) \in Nat
      /\ s.capacity \in Capacities
      /\ s.capacity \in Nat \ {0} /\ PressureCapacity \in Nat
  BY LenProperties, CapacityPositive, ReplayCacheAssumption DEF Good, Counted, ReplayCacheType
<1>2. CASE UnderPressure(s)
  <2>1. Cardinality(AdvanceEpoch(s).seen) = 0
    BY AdvanceEmpties, FS_EmptySet DEF Emptied
  <2>2. MakeRoom(s) = AdvanceEpoch(s)
    BY <1>1, <1>2, <2>1 DEF MakeRoom
  <2> QED
    BY <1>2, <2>2, AdvanceEmpties
<1>3. CASE ~UnderPressure(s) /\ Len(s.order) < s.capacity
  <2>1. MakeRoom(s) = s
    BY <1>1, <1>3 DEF MakeRoom
  <2> QED
    BY <1>1, <1>3, <2>1
<1>4. CASE ~UnderPressure(s) /\ Len(s.order) = s.capacity
  <2>1. ~(s.capacity >= PressureCapacity)
    BY <1>1, <1>4, ThresholdBound DEF UnderPressure
  <2>2. MakeRoom(s) = EvictOldest(s)
    BY <1>1, <1>4, <2>1 DEF MakeRoom
  <2>3. s.order # << >>
    BY <1>1, <1>4
  <2> QED
    BY <1>1, <1>4, <2>2, <2>3, EvictGood
<1> QED
  BY <1>1, <1>2, <1>3, <1>4

-----------------------------------------------------------------------------
(***************************************************************************)
(* The inductive invariant.  The queue lists the most recent accepts in    *)
(* their order: entry i was the accept number accepts - Len + i, and no    *)
(* tag outside the queue was accepted later than that.  The queue is       *)
(* either full or reaches back to the last time a generation was dropped.  *)
(***************************************************************************)
WindowIsRecent ==
  LET n == Len(cache.order) IN
  /\ n = cache.capacity \/ n = accepts - epochStart
  /\ n <= accepts - epochStart
  /\ \A i \in 1 .. n : last[cache.order[i].tag] = accepts - n + i
  /\ \A t \in Tag : last[t] > accepts - n => t \in cache.seen
  /\ \A t \in Tag : last[t] <= accepts

IInv ==
  /\ TypeOK
  /\ Good(cache)
  /\ WithinCapacity
  /\ WindowIsRecent

\* A fresh cache, whatever its capacity, satisfies the invariant.
LEMMA InitIInv == CacheInit => IInv
<1> SUFFICES ASSUME CacheInit PROVE IInv
  OBVIOUS
<1>1. /\ \E c \in Capacities : cache = NewReplayCache(c)
      /\ cache.order = << >>
  BY DEF CacheInit, NewReplayCache
<1>2. Good(cache)
  BY <1>1, NewGood
<1>3. Len(cache.order) = 0 /\ 1 .. 0 = {}
  BY <1>1
<1>4. TypeOK
  BY <1>2 DEF CacheInit, TypeOK, Good
<1>5. WithinCapacity
  BY <1>2, <1>3, CapacityPositive DEF WithinCapacity
<1>6. WindowIsRecent
  BY <1>3 DEF WindowIsRecent, CacheInit
<1> QED
  BY <1>2, <1>4, <1>5, <1>6 DEF IInv

\* A step that empties the cache and leaves the history alone.
LEMMA EmptiedIInv ==
  ASSUME IInv, Good(cache'), Emptied(cache'), cache'.capacity = cache.capacity, verdict' = NoVerdict,
         epochStart' = accepts, UNCHANGED <<accepts, last>>
  PROVE  IInv'
<1>1. Len(cache'.order) = 0 /\ 1 .. 0 = {}
  BY DEF Emptied
<1>2. TypeOK'
  BY DEF IInv, TypeOK, Good
<1>3. WithinCapacity'
  BY <1>1, CapacityPositive DEF WithinCapacity
<1>4. WindowIsRecent'
  BY <1>1 DEF WindowIsRecent, IInv, TypeOK
<1> QED
  BY <1>2, <1>3, <1>4 DEF IInv

\* check_and_insert answering true keeps it: what MakeRoom leaves of the queue is
\* a suffix, and the new tag is the youngest accept.
LEMMA AcceptIInv ==
  ASSUME IInv, NEW t \in Tag, AcceptFresh(t)
  PROVE  IInv'
<1> DEFINE m == MakeRoom(cache)
           k == Len(m.order)
           n == Len(cache.order)
           new == [gen |-> m.generation, tag |-> t]
<1>1. Good(cache) /\ n <= cache.capacity /\ n \in Nat /\ cache.capacity \in Nat \ {0}
  BY LenProperties, CapacityPositive
     DEF IInv, WithinCapacity, Good, ReplayCacheType
<1>2. /\ accepts \in Nat /\ epochStart \in Nat /\ last \in [Tag -> Nat]
      /\ accepts' = accepts + 1 /\ last' = [last EXCEPT ![t] = accepts + 1]
      /\ epochStart' = IF UnderPressure(cache) THEN accepts ELSE epochStart
      /\ verdict' = [tag |-> t, fresh |-> TRUE]
  BY DEF IInv, TypeOK, AcceptFresh
<1>3. t \notin cache.seen /\ cache' = InsertTag(m, t)
  BY <1>1, ScanIsMembership DEF AcceptFresh, CheckAndInsert
<1>4. /\ n = cache.capacity \/ n = accepts - epochStart
      /\ n <= accepts - epochStart
      /\ \A i \in 1 .. n : last[cache.order[i].tag] = accepts - n + i
      /\ \A u \in Tag : last[u] > accepts - n => u \in cache.seen
      /\ \A u \in Tag : last[u] <= accepts
  BY DEF IInv, WindowIsRecent
<1>5. /\ cache.seen = TagsInOrder(cache)
      /\ cache.order \in Seq([gen : Generation, tag : Tag])
      /\ \A i \in 1 .. n : cache.order[i].tag \in Tag
  <2>1. cache.order \in Seq([gen : Generation, tag : Tag])
    BY <1>1 DEF Good, ReplayCacheType
  <2>2. \A i \in 1 .. n : cache.order[i] \in [gen : Generation, tag : Tag]
    BY <2>1, ElementOfSeq
  <2> QED
    BY <1>1, <2>1, <2>2 DEF Good, Counted
<1>6. Good(m) /\ m.capacity = cache.capacity
  BY <1>1, MakeRoomGood
<1>7. k \in Nat /\ m.order \in Seq([gen : Generation, tag : Tag])
  BY <1>6, LenProperties DEF Good, ReplayCacheType
\* What is left is a suffix of the queue, shorter than the capacity.
<1>8. /\ k <= n /\ k < cache.capacity
      /\ \A i \in 1 .. k : m.order[i] = cache.order[n - k + i]
      /\ k + 1 = cache.capacity \/ k + 1 = accepts' - epochStart'
      /\ k + 1 <= accepts' - epochStart'
  <2>1. CASE UnderPressure(cache)
    <3>1. m.order = << >> /\ k = 0
      BY <1>1, <2>1, MakeRoomGood DEF Emptied
    <3> QED
      BY <1>1, <1>2, <2>1, <3>1
  <2>2. CASE ~UnderPressure(cache) /\ n = cache.capacity
    <3>1. m.order = Tail(cache.order)
      BY <1>1, <2>2, MakeRoomGood
    <3>2. cache.order # << >>
      BY <1>1, <2>2
    <3>3. k = n - 1 /\ \A i \in 1 .. k : m.order[i] = cache.order[i + 1]
      BY <1>5, <3>1, <3>2, HeadTailProperties
    <3>4. \A i \in 1 .. k : n - k + i = i + 1
      BY <1>1, <3>3
    <3>5. k <= n /\ k < cache.capacity /\ k + 1 = cache.capacity
      BY <1>1, <2>2, <3>3
    <3>6. k + 1 <= accepts' - epochStart'
      BY <1>1, <1>2, <1>4, <2>2, <3>3
    <3> QED
      BY <3>3, <3>4, <3>5, <3>6
  <2>3. CASE ~UnderPressure(cache) /\ n < cache.capacity
    <3>1. m = cache
      BY <1>1, <2>3, MakeRoomGood
    <3>2. \A i \in 1 .. n : n - n + i = i
      BY <1>1
    <3> QED
      BY <1>1, <1>2, <1>4, <2>3, <3>1, <3>2
  <2>4. n = cache.capacity \/ n < cache.capacity
    BY <1>1
  <2> HIDE DEF m, k, n
  <2> QED
    BY <2>1, <2>2, <2>3, <2>4
<1> HIDE DEF m, k, n
<1>9. t \notin m.seen
  <2>1. m.seen = TagsInOrder(m)
    BY <1>6 DEF Good, Counted
  <2>2. \A i \in 1 .. k : n - k + i \in 1 .. n
    BY <1>1, <1>7, <1>8
  <2>3. ASSUME t \in m.seen PROVE FALSE
    <3>1. PICK i \in 1 .. k : m.order[i].tag = t
      BY <2>1, <2>3 DEF TagsInOrder, k
    <3>2. n - k + i \in 1 .. n /\ m.order[i] = cache.order[n - k + i]
      BY <1>8, <2>2
    <3>3. cache.order[n - k + i].tag = t
      BY <3>1, <3>2
    <3>4. t \in TagsInOrder(cache)
      BY <3>2, <3>3 DEF TagsInOrder, n
    <3> QED
      BY <1>3, <1>5, <3>4
  <2> QED
    BY <2>3
<1>10. /\ Good(cache') /\ cache'.order = Append(m.order, new)
       /\ cache'.capacity = cache.capacity
  BY <1>3, <1>6, <1>9, InsertGood
<1>11. /\ Len(cache'.order) = k + 1
       /\ \A i \in 1 .. k : cache'.order[i] = cache.order[n - k + i]
       /\ cache'.order[k + 1] = new
  <2>1. new \in [gen : Generation, tag : Tag]
    BY <1>6 DEF Good, ReplayCacheType
  <2> HIDE DEF new
  <2> QED
    BY <1>7, <1>8, <1>10, <2>1, AppendProperties DEF k
<1>12. TypeOK'
  <2>1. cache' \in ReplayCacheType
    BY <1>10 DEF Good
  <2>2. accepts' \in Nat /\ last' \in [Tag -> Nat] /\ epochStart' \in Nat
    BY <1>2
  <2> QED
    BY <1>2, <2>1, <2>2 DEF TypeOK
<1>13. WithinCapacity'
  BY <1>1, <1>7, <1>8, <1>10, <1>11 DEF WithinCapacity
<1>14. \A i \in 1 .. k + 1 : last'[cache'.order[i].tag] = accepts' - (k + 1) + i
  <2>1. ASSUME NEW i \in 1 .. k
        PROVE  last'[cache'.order[i].tag] = accepts' - (k + 1) + i
    <3>1. n - k + i \in 1 .. n
      BY <1>1, <1>7, <1>8
    <3>2. cache.order[n - k + i].tag \in cache.seen
      BY <1>5, <3>1 DEF TagsInOrder, n
    <3>3. last[cache.order[n - k + i].tag] = accepts - n + (n - k + i)
      BY <1>4, <3>1
    <3>4. last'[cache.order[n - k + i].tag] = last[cache.order[n - k + i].tag]
      BY <1>2, <1>3, <1>5, <3>1, <3>2
    <3>5. accepts' - (k + 1) + i = accepts - n + (n - k + i)
      BY <1>1, <1>2, <1>7
    <3> QED
      BY <1>11, <3>3, <3>4, <3>5
  <2>2. last'[cache'.order[k + 1].tag] = accepts' - (k + 1) + (k + 1)
    BY <1>2, <1>7, <1>11
  <2>3. \A i \in 1 .. k + 1 : i \in 1 .. k \/ i = k + 1
    BY <1>7
  <2> QED
    BY <2>1, <2>2, <2>3
<1>15. ASSUME NEW u \in Tag, last'[u] > accepts' - (k + 1)
       PROVE  u \in cache'.seen
  <2>1. cache'.seen = TagsInOrder(cache')
    BY <1>10 DEF Good, Counted
  <2>2. CASE u = t
    BY <1>7, <1>11, <2>1, <2>2 DEF TagsInOrder
  <2>3. CASE u # t
    <3>1. last[u] > accepts - k
      BY <1>2, <1>7, <1>15, <2>3
    <3>2. u \in cache.seen
      BY <1>1, <1>2, <1>4, <1>7, <1>8, <3>1
    <3>3. PICK j \in 1 .. n : cache.order[j].tag = u
      BY <1>5, <3>2 DEF TagsInOrder, n
    <3>4. accepts - n + j > accepts - k
      BY <1>4, <3>1, <3>3
    <3> DEFINE i == j - (n - k)
    <3>5. i \in 1 .. k /\ n - k + i = j
      BY <1>1, <1>2, <1>7, <1>8, <3>4
    <3>6. cache'.order[i].tag = u /\ i \in 1 .. Len(cache'.order)
      BY <1>7, <1>11, <3>3, <3>5
    <3> QED
      BY <2>1, <3>6 DEF TagsInOrder
  <2> QED
    BY <2>2, <2>3
<1>16. \A u \in Tag : last'[u] <= accepts'
  BY <1>2, <1>4
<1>17. WindowIsRecent'
  BY <1>8, <1>10, <1>11, <1>14, <1>15, <1>16 DEF WindowIsRecent
<1> QED
  BY <1>10, <1>12, <1>13, <1>17 DEF IInv

\* Every call keeps it.
LEMMA NextIInv == IInv /\ [CacheNext]_cacheVars => IInv'
<1> SUFFICES ASSUME IInv, [CacheNext]_cacheVars PROVE IInv'
  OBVIOUS
<1>1. ASSUME NEW t \in Tag, RejectSeen(t) PROVE IInv'
  <2>1. UNCHANGED <<cache, accepts, last, epochStart>>
    BY <1>1 DEF RejectSeen, CheckAndInsert
  <2>2. TypeOK'
    BY <1>1, <2>1 DEF RejectSeen, IInv, TypeOK
  <2> QED
    BY <2>1, <2>2 DEF IInv, WithinCapacity, WindowIsRecent
<1>2. ASSUME NEW t \in Tag, AcceptFresh(t) PROVE IInv'
  BY <1>2, AcceptIInv
<1>3. CASE Advance
  BY <1>3, AdvanceEmpties, EmptiedIInv DEF Advance, IInv
<1>4. CASE Clear
  <2>1. cache.capacity \in Capacities
    BY DEF IInv, Good, ReplayCacheType
  <2>2. cache'.capacity = cache.capacity
    BY <1>4 DEF Clear, NewReplayCache
  <2> QED
    BY <1>4, <2>1, <2>2, NewGood, EmptiedIInv DEF Clear
<1>5. CASE UNCHANGED cacheVars
  BY <1>5 DEF cacheVars, IInv, TypeOK, WithinCapacity, WindowIsRecent
<1> QED
  BY <1>1, <1>2, <1>3, <1>4, <1>5 DEF CacheNext

\* The strengthened invariant holds in every reachable state.
THEOREM IInvHolds == CacheSpec => []IInv
<1> QED
  BY InitIInv, NextIInv, PTL DEF CacheSpec

\* replay.rs keeps its containers well formed.
THEOREM TypeCorrect == CacheSpec => []TypeOK
<1>1. IInv => TypeOK
  BY DEF IInv
<1> QED
  BY <1>1, IInvHolds, PTL

\* The three containers of replay.rs never disagree about a tag.
THEOREM ContainersAlwaysAgree == CacheSpec => []ContainersAgree
<1>1. IInv => ContainersAgree
  <2> SUFFICES ASSUME IInv PROVE ContainersAgree
    OBVIOUS
  <2>1. cache.seen = TagsInOrder(cache) /\ Cardinality(cache.seen) = Len(cache.order)
    BY DEF IInv, Good, Counted
  <2>2. ASSUME NEW g \in Generation
        PROVE  cache.by_generation[g] =
                 {cache.order[i].tag : i \in {j \in 1 .. Len(cache.order) :
                                                cache.order[j].gen = g}}
    <3>1. /\ cache.by_generation[g] = IF g = cache.generation THEN cache.seen ELSE {}
          /\ \A i \in 1 .. Len(cache.order) : cache.order[i].gen = cache.generation
      BY DEF IInv, Good, OneGeneration
    <3>2. CASE g = cache.generation
      <4>1. {j \in 1 .. Len(cache.order) : cache.order[j].gen = g} =
              1 .. Len(cache.order)
        BY <3>1, <3>2
      <4> QED
        BY <2>1, <3>1, <3>2, <4>1 DEF TagsInOrder
    <3>3. CASE g # cache.generation
      <4>1. {j \in 1 .. Len(cache.order) : cache.order[j].gen = g} = {}
        BY <3>1, <3>3
      <4> QED
        BY <3>1, <3>3, <4>1
    <3> QED
      BY <3>2, <3>3
  <2> QED
    BY <2>1, <2>2 DEF ContainersAgree
<1> QED
  BY <1>1, IInvHolds, PTL

\* replay.rs never queues more tags than its scan reads.
THEOREM AlwaysWithinCapacity == CacheSpec => []WithinCapacity
<1>1. IInv => WithinCapacity
  BY DEF IInv
<1> QED
  BY <1>1, IInvHolds, PTL

\* The replay window of check_and_insert: none of the last capacity accepted
\* tags is accepted again unless a generation was dropped in between.
THEOREM RecentTagsAlwaysRemembered == CacheSpec => []RecentTagsRemembered
<1>1. IInv => RecentTagsRemembered
  <2> SUFFICES ASSUME IInv, NEW t \in Tag, last[t] > epochStart,
                      accepts - last[t] < cache.capacity
               PROVE  ~IsFresh(cache, t)
    BY DEF RecentTagsRemembered
  <2>1. /\ accepts \in Nat /\ epochStart \in Nat /\ last[t] \in Nat
        /\ Len(cache.order) <= cache.capacity /\ cache.capacity \in Nat
    BY CapacityPositive DEF IInv, TypeOK, WithinCapacity
  <2>2. Len(cache.order) \in Nat
    BY LenProperties DEF IInv, Good, ReplayCacheType
  <2>3. last[t] > accepts - Len(cache.order)
    BY <2>1, <2>2 DEF IInv, WindowIsRecent
  <2>4. t \in cache.seen
    BY <2>3 DEF IInv, WindowIsRecent
  <2> QED
    BY <2>1, <2>4, ScanIsMembership DEF IInv
<1> QED
  BY <1>1, IInvHolds, PTL

-----------------------------------------------------------------------------
(***************************************************************************)
(* The cache implements the window of recent tags: every call maps to a    *)
(* step of ReplayWindow, for every capacity and every threshold.           *)
(***************************************************************************)

\* The refinement mapping, as operators on a cache.
WindowOf(s) == [i \in 1 .. Len(s.order) |-> s.order[i].tag]
LimitsOf(s) == [max |-> s.capacity,
                min |-> IF s.capacity >= PressureCapacity
                        THEN PressureThreshold(s) ELSE s.capacity]

\* The window is the queue without its generations.
LEMMA WindowIsQueue ==
  ASSUME NEW s, s.order \in Seq([gen : Generation, tag : Tag])
  PROVE  /\ WindowOf(s) \in Seq(Tag)
         /\ Len(WindowOf(s)) = Len(s.order)
         /\ Len(s.order) \in Nat
         /\ \A i \in 1 .. Len(s.order) : WindowOf(s)[i] = s.order[i].tag
<1> DEFINE w == WindowOf(s)
           n == Len(s.order)
<1>1. n \in Nat
  BY LenProperties
<1>2. \A i \in 1 .. n : s.order[i] \in [gen : Generation, tag : Tag]
  BY ElementOfSeq
<1>3. w \in [1 .. n -> Tag]
  BY <1>2 DEF WindowOf
<1>4. w \in Seq(Tag)
  BY <1>1, <1>3, SeqDef
<1>5. DOMAIN w = 1 .. n
  BY <1>3
<1>6. Len(w) = n
  <2>1. DOMAIN w = 1 .. Len(w) /\ Len(w) \in Nat
    BY <1>4, LenProperties
  <2> HIDE DEF w, n
  <2> QED
    BY <1>1, <1>5, <2>1
<1> QED
  BY <1>1, <1>4, <1>6 DEF WindowOf

\* What MakeRoom forgets is a prefix of the queue, forgotten only from the
\* lower limit on, and the rest is below the capacity.
LEMMA MakeRoomForgetsOldest ==
  ASSUME NEW s, Good(s), Len(s.order) <= s.capacity
  PROVE  \E k \in 0 .. Len(s.order) :
           /\ k > 0 => Len(s.order) >= LimitsOf(s).min
           /\ Len(s.order) - k < s.capacity
           /\ MakeRoom(s).order = SubSeq(s.order, k + 1, Len(s.order))
<1> DEFINE n == Len(s.order)
           Entry == [gen : Generation, tag : Tag]
<1>1. /\ s.order \in Seq(Entry) /\ n \in Nat
      /\ s.capacity \in Capacities /\ s.capacity \in Nat \ {0}
      /\ Cardinality(s.seen) = n
  BY LenProperties, CapacityPositive DEF Good, Counted, ReplayCacheType
<1>2. PressureCapacity \in Nat /\ PressureThreshold(s) \in Nat /\ PressureThreshold(s) <= s.capacity
  BY <1>1, ThresholdBound, ReplayCacheAssumption
<1>3. CASE UnderPressure(s)
  <2>1. MakeRoom(s).order = << >>
    BY <1>3, MakeRoomGood DEF Emptied
  <2>2. SubSeq(s.order, n + 1, n) = << >>
    BY <1>1, SubSeqEmpty
  <2>3. n >= LimitsOf(s).min
    BY <1>1, <1>3 DEF UnderPressure, LimitsOf
  <2> HIDE DEF n
  <2>4. n \in 0 .. n /\ n - n < s.capacity
    BY <1>1
  <2> QED
    BY <2>1, <2>2, <2>3, <2>4 DEF n
<1>4. CASE ~UnderPressure(s) /\ n = s.capacity
  <2>1. MakeRoom(s).order = Tail(s.order)
    BY <1>4, MakeRoomGood
  <2>2. s.order # << >>
    BY <1>1, <1>4
  <2>3. MakeRoom(s).order = SubSeq(s.order, 1 + 1, n)
    BY <1>1, <2>1, <2>2, TailIsSubSeq
  <2>4. n >= LimitsOf(s).min
    BY <1>1, <1>2, <1>4 DEF UnderPressure, LimitsOf
  <2> HIDE DEF n
  <2>5. 1 \in 0 .. n /\ n - 1 < s.capacity
    BY <1>1, <1>4
  <2> QED
    BY <2>3, <2>4, <2>5 DEF n
<1>5. CASE ~UnderPressure(s) /\ n < s.capacity
  <2>1. MakeRoom(s) = s
    BY <1>5, MakeRoomGood
  <2>2. MakeRoom(s).order = SubSeq(s.order, 0 + 1, n)
    BY <1>1, <2>1, SubSeqFull
  <2> HIDE DEF n
  <2>3. 0 \in 0 .. n /\ n - 0 < s.capacity /\ ~(0 > 0)
    BY <1>1, <1>5
  <2> QED
    BY <2>2, <2>3 DEF n
<1> QED
  BY <1>1, <1>3, <1>4, <1>5

\* What is left of a queue when its first k entries are forgotten.
LEMMA RestOfQueue ==
  ASSUME NEW S, NEW q \in Seq(S), NEW k \in 0 .. Len(q)
  PROVE  /\ SubSeq(q, k + 1, Len(q)) \in Seq(S)
         /\ Len(SubSeq(q, k + 1, Len(q))) = Len(q) - k
         /\ \A i \in 1 .. Len(q) - k : SubSeq(q, k + 1, Len(q))[i] = q[k + i]
<1> DEFINE n == Len(q)
           a == k + 1
           rest == SubSeq(q, a, n)
<1>1. n \in Nat /\ k \in 0 .. n /\ a \in Int /\ n \in Int
  BY LenProperties
<1>2. \A i \in 1 .. n : q[i] \in S
  BY ElementOfSeq
<1>3. \A i \in a .. n : q[i] \in S
  <2>1. \A i \in a .. n : i \in 1 .. n
    BY <1>1
  <2> QED
    BY <1>2, <2>1
<1> HIDE DEF a, n
<1>4. /\ rest \in Seq(S)
      /\ Len(rest) = IF a <= n THEN n - a + 1 ELSE 0
      /\ \A i \in 1 .. n - a + 1 : rest[i] = q[a + i - 1]
  BY <1>1, <1>3, SubSeqProperties
<1>5. n - a + 1 = n - k /\ (IF a <= n THEN n - a + 1 ELSE 0) = n - k
  BY <1>1 DEF a
<1>6. \A i \in 1 .. n - k : a + i - 1 = k + i
  BY <1>1 DEF a
<1> HIDE DEF rest
<1>7. rest \in Seq(S) /\ Len(rest) = n - k /\ \A i \in 1 .. n - k : rest[i] = q[k + i]
  BY <1>4, <1>5, <1>6
<1> QED
  BY <1>7 DEF rest, a, n

\* Forgetting and inserting commute with leaving out the generations.
LEMMA WindowOfAppend ==
  ASSUME NEW s, s.order \in Seq([gen : Generation, tag : Tag]),
         NEW k \in 0 .. Len(s.order), NEW g \in Generation, NEW t \in Tag, NEW r,
         r.order = Append(SubSeq(s.order, k + 1, Len(s.order)), [gen |-> g, tag |-> t])
  PROVE  WindowOf(r) = Append(SubSeq(WindowOf(s), k + 1, Len(s.order)), t)
<1> DEFINE Entry == [gen : Generation, tag : Tag]
           n == Len(s.order)
           new == [gen |-> g, tag |-> t]
           rest == SubSeq(s.order, k + 1, n)
           kept == SubSeq(WindowOf(s), k + 1, n)
<1>1. n \in Nat /\ k \in 0 .. n /\ k \in Nat /\ new \in Entry
  BY LenProperties
<1>2. /\ WindowOf(s) \in Seq(Tag) /\ Len(WindowOf(s)) = n
      /\ \A i \in 1 .. n : WindowOf(s)[i] = s.order[i].tag
  BY WindowIsQueue
<1>3. /\ rest \in Seq(Entry) /\ Len(rest) = n - k
      /\ \A i \in 1 .. n - k : rest[i] = s.order[k + i]
  BY RestOfQueue
<1>4. /\ kept \in Seq(Tag) /\ Len(kept) = n - k
      /\ \A i \in 1 .. n - k : kept[i] = WindowOf(s)[k + i]
  BY <1>1, <1>2, RestOfQueue
<1> HIDE DEF n, new, rest, kept, Entry
<1>5. /\ r.order \in Seq(Entry) /\ Len(r.order) = n - k + 1
      /\ \A i \in 1 .. n - k : r.order[i] = s.order[k + i]
      /\ r.order[n - k + 1] = new
  <2>1. r.order = Append(rest, new)
    BY DEF rest, n, new
  <2>2. new \in Entry /\ rest \in Seq(Entry)
    BY <1>1, <1>3
  <2>3. /\ Append(rest, new) \in Seq(Entry)
        /\ Len(Append(rest, new)) = Len(rest) + 1
        /\ \A i \in 1 .. Len(rest) : Append(rest, new)[i] = rest[i]
        /\ Append(rest, new)[Len(rest) + 1] = new
    BY <2>2, AppendProperties
  <2> QED
    BY <1>3, <2>1, <2>3
<1>6. /\ Append(kept, t) \in Seq(Tag) /\ Len(Append(kept, t)) = n - k + 1
      /\ \A i \in 1 .. n - k : Append(kept, t)[i] = WindowOf(s)[k + i]
      /\ Append(kept, t)[n - k + 1] = t
  <2>1. /\ Append(kept, t) \in Seq(Tag)
        /\ Len(Append(kept, t)) = Len(kept) + 1
        /\ \A i \in 1 .. Len(kept) : Append(kept, t)[i] = kept[i]
        /\ Append(kept, t)[Len(kept) + 1] = t
    <3>1. kept \in Seq(Tag)
      BY <1>4
    <3> QED
      BY <3>1, AppendProperties
  <2> QED
    BY <1>4, <2>1
<1>7. /\ WindowOf(r) \in Seq(Tag) /\ Len(WindowOf(r)) = n - k + 1
      /\ \A i \in 1 .. n - k + 1 : WindowOf(r)[i] = r.order[i].tag
  BY <1>5, WindowIsQueue DEF Entry
<1>8. ASSUME NEW i \in 1 .. n - k + 1
      PROVE  WindowOf(r)[i] = Append(kept, t)[i]
  <2>1. CASE i = n - k + 1
    BY <1>5, <1>6, <1>7, <2>1 DEF new
  <2>2. CASE i # n - k + 1
    <3>1. i \in 1 .. n - k /\ k + i \in 1 .. n
      BY <1>1, <2>2
    <3> QED
      BY <1>2, <1>5, <1>6, <1>7, <3>1
  <2> QED
    BY <2>1, <2>2
<1>9. WindowOf(r) = Append(kept, t)
  BY <1>6, <1>7, <1>8, SeqEqual
<1> QED
  BY <1>9 DEF kept, n

\* The tags of the window are those of the scan.
LEMMA RememberedIsSeen ==
  ASSUME IInv
  PROVE  /\ Window!Remembered = cache.seen
         /\ \A t : IsFresh(cache, t) <=> t \notin Window!Remembered
<1>1. Good(cache) /\ Len(cache.order) <= cache.capacity
  BY DEF IInv, WithinCapacity
<1>2. cache.order \in Seq([gen : Generation, tag : Tag]) /\ cache.seen = TagsInOrder(cache)
  BY <1>1 DEF Good, Counted, ReplayCacheType
<1>3. Window!Remembered = {WindowOf(cache)[i] : i \in 1 .. Len(WindowOf(cache))}
  BY DEF Window!Remembered, WindowOf
<1>4. Window!Remembered = cache.seen
  <2>1. /\ Len(WindowOf(cache)) = Len(cache.order)
        /\ \A i \in 1 .. Len(cache.order) : WindowOf(cache)[i] = cache.order[i].tag
    BY <1>2, WindowIsQueue
  <2> QED
    BY <1>2, <1>3, <2>1 DEF TagsInOrder
<1> QED
  BY <1>1, <1>4, ScanIsMembership

\* A new cache is an empty window.
LEMMA InitRefines == CacheInit => Window!Init
<1> SUFFICES ASSUME CacheInit PROVE Window!Init
  OBVIOUS
<1>1. PICK c \in Capacities : cache = NewReplayCache(c)
  BY DEF CacheInit
<1>2. cache.order = << >> /\ cache.capacity = c /\ c \in Nat
  BY <1>1, ReplayCacheAssumption DEF NewReplayCache
<1>3. PressureThreshold(cache) \in Nat
  BY <1>2, ThresholdBound
<1>4. LimitsOf(cache) \in [min : Nat, max : Nat]
  BY <1>2, <1>3 DEF LimitsOf
<1>5. WindowOf(cache) = << >>
  BY <1>2, WindowIsQueue, EmptySeq DEF WindowOf
<1> QED
  BY <1>4, <1>5 DEF CacheInit, Window!Init, WindowOf, LimitsOf

\* advance_epoch and clear empty the window.
LEMMA EmptiedRefines ==
  ASSUME IInv, Emptied(cache'), cache'.capacity = cache.capacity, verdict' = NoVerdict
  PROVE  Window!Rollover
<1>1. WindowOf(cache') = << >>
  BY WindowIsQueue, EmptySeq DEF WindowOf, Emptied
<1>2. LimitsOf(cache') = LimitsOf(cache)
  BY DEF LimitsOf, PressureThreshold
<1> QED
  BY <1>1, <1>2 DEF Window!Rollover, WindowOf, LimitsOf

\* An accept forgets a prefix when it may and puts the tag at the young end.
LEMMA AcceptRefines ==
  ASSUME IInv, NEW t \in Tag, AcceptFresh(t)
  PROVE  Window!Accept(t)
<1> DEFINE m == MakeRoom(cache)
           n == Len(cache.order)
<1>1. /\ Good(cache) /\ n <= cache.capacity /\ n \in Nat
      /\ cache.order \in Seq([gen : Generation, tag : Tag])
  BY LenProperties DEF IInv, WithinCapacity, Good, ReplayCacheType
<1>2. t \notin Window!Remembered
  BY RememberedIsSeen DEF AcceptFresh
<1>3. cache' = InsertTag(m, t)
  BY DEF AcceptFresh, CheckAndInsert
<1>4. Good(m) /\ m.capacity = cache.capacity
  BY <1>1, MakeRoomGood
<1>5. PICK k \in 0 .. n : /\ k > 0 => n >= LimitsOf(cache).min
                          /\ n - k < cache.capacity
                          /\ m.order = SubSeq(cache.order, k + 1, n)
  BY <1>1, MakeRoomForgetsOldest
<1>6. /\ cache'.order = Append(SubSeq(cache.order, k + 1, n), [gen |-> m.generation, tag |-> t])
      /\ cache'.capacity = cache.capacity
      /\ m.generation \in Generation
  BY <1>3, <1>4, <1>5 DEF InsertTag, Good, ReplayCacheType
<1>7. WindowOf(cache') = Append(SubSeq(WindowOf(cache), k + 1, n), t)
  BY <1>1, <1>6, WindowOfAppend
<1>8. Len(WindowOf(cache)) = n
  BY <1>1, WindowIsQueue
<1>9. LimitsOf(cache') = LimitsOf(cache) /\ LimitsOf(cache).max = cache.capacity
  BY <1>6 DEF LimitsOf, PressureThreshold
<1>10. \E j \in 0 .. Len(WindowOf(cache)) :
         /\ j > 0 => Len(WindowOf(cache)) >= LimitsOf(cache).min
         /\ Len(WindowOf(cache)) - j < LimitsOf(cache).max
         /\ WindowOf(cache') =
              Append(SubSeq(WindowOf(cache), j + 1, Len(WindowOf(cache))), t)
  BY <1>5, <1>7, <1>8, <1>9
<1>11. verdict' = [tag |-> t, fresh |-> TRUE]
  BY DEF AcceptFresh
<1> QED
  BY <1>2, <1>9, <1>10, <1>11 DEF Window!Accept, WindowOf, LimitsOf

\* Every call maps to a step of the window or to a stutter.
LEMMA NextRefines == IInv /\ [CacheNext]_cacheVars => [Window!Next]_(Window!vars)
<1> SUFFICES ASSUME IInv, [CacheNext]_cacheVars PROVE [Window!Next]_(Window!vars)
  OBVIOUS
<1>1. ASSUME NEW t \in Tag, RejectSeen(t) PROVE Window!Reject(t)
  <2>1. cache' = cache /\ verdict' = [tag |-> t, fresh |-> FALSE]
    BY <1>1 DEF RejectSeen, CheckAndInsert
  <2>2. t \in Window!Remembered
    BY <1>1, RememberedIsSeen DEF RejectSeen
  <2> QED
    BY <2>1, <2>2 DEF Window!Reject, PressureThreshold
<1>2. ASSUME NEW t \in Tag, AcceptFresh(t) PROVE Window!Accept(t)
  BY <1>2, AcceptRefines
<1>3. ASSUME Advance PROVE Window!Rollover
  BY <1>3, AdvanceEmpties, EmptiedRefines DEF Advance, IInv
<1>4. ASSUME Clear PROVE Window!Rollover
  <2>1. cache.capacity \in Capacities
    BY DEF IInv, Good, ReplayCacheType
  <2>2. cache'.capacity = cache.capacity
    BY <1>4 DEF Clear, NewReplayCache
  <2> QED
    BY <1>4, <2>1, <2>2, NewGood, EmptiedRefines DEF Clear
<1>5. ASSUME UNCHANGED cacheVars PROVE UNCHANGED Window!vars
  BY <1>5 DEF cacheVars, Window!vars, PressureThreshold
<1> QED
  BY <1>1, <1>2, <1>3, <1>4, <1>5 DEF CacheNext, Window!Next

\* check_and_insert, advance_epoch and clear together behave as a window of
\* recent tags that forgets from its old end and never before it has to.
THEOREM CacheImplementsWindow == CacheSpec => ImplementsWindow
<1> QED
  BY InitRefines, NextRefines, IInvHolds, PTL DEF CacheSpec, ImplementsWindow, Window!Spec

-----------------------------------------------------------------------------
(* The relay loop.                                                         *)

RoundType == [active : BOOLEAN, real : Nat]

\* A burst of cover is under way exactly while the loop is emitting.
BurstUnderWay ==
  /\ coverLeft \in Nat
  /\ at = "emitting" <=> coverLeft # 0

\* Where a call of the controller is, seen from both ends: with the command in
\* the channel, at the loop, or answered.
Idle      == command = "none" /\ ack = FALSE /\ at # "emitting"
Asked(c)  == command = c /\ ack = FALSE /\ at # "emitting"
Answered  == command = "none" /\ ack = TRUE /\ at # "emitting"
Emptying  == command = "none" /\ ack = FALSE /\ at = "emitting"

CallPhase ==
  \/ control = "closed" /\ Idle /\ round.active = FALSE
  \/ control = "beginning" /\ Asked("begin") /\ round.active = FALSE
  \/ control = "beginning" /\ Answered /\ round.active = TRUE
  \/ control = "open" /\ Idle /\ round.active = TRUE
  \/ control = "ending" /\ Asked("end") /\ round.active = TRUE
  \/ control = "ending" /\ Emptying /\ round.active = FALSE
  \/ control = "ending" /\ Answered /\ round.active = FALSE
  \/ control = "failed" /\ at = "stopped"

RelayInv ==
  /\ defense \in Defenses /\ round \in RoundType
  /\ BurstUnderWay /\ CallPhase

LEMMA RelayInvEnough == RelayInv => AckMeansApplied
BY DEF RelayInv, BurstUnderWay, CallPhase, Idle, Asked, Answered, Emptying, AckMeansApplied

LEMMA RelayInvInit == MixInit => RelayInv
BY DEF MixInit, RelayInv, RoundType, NoRound, BurstUnderWay, CallPhase, Idle

-----------------------------------------------------------------------------
\* What a closed round emits is a number of flows, whatever the plan.
LEMMA FlowsAreCounted ==
  ASSUME RelayInv
  PROVE  CloseAndEmit(round) \in Nat
<1>1. FixedFlows \in Nat /\ Target \in Nat /\ round.real \in Nat
  BY RelayNodeAssumption DEF RelayInv, RoundType
<1>2. defense.plan \in Plans
  BY RelayNodeAssumption DEF RelayInv, Defenses
<1> DEFINE pad == RequiredCoverFlowCount(round.real)
<1>3. pad \in Nat
  BY <1>1 DEF RequiredCoverFlowCount
<1> HIDE DEF pad
<1>4. /\ PlanCoverEmit(round.real).discard \in Nat
      /\ PlanCoverEmit(round.real).peelable \in Nat
  <2>1. CASE ~IsL2
    BY <2>1 DEF PlanCoverEmit
  <2>2. CASE IsL2 /\ defense.plan = "baseline"
    BY <1>3, <2>2 DEF PlanCoverEmit, pad
  <2>3. CASE IsL2 /\ defense.plan = "matched"
    BY <1>1, <2>3 DEF PlanCoverEmit
  <2>4. CASE IsL2 /\ defense.plan = "cover_onions"
    BY <1>1, <1>3, <2>4 DEF PlanCoverEmit, pad
  <2>5. CASE IsL2 /\ defense.plan = "scaffold"
    BY <1>1, <1>3, <2>5 DEF PlanCoverEmit, pad
  <2> QED
    BY <1>2, <2>1, <2>2, <2>3, <2>4, <2>5 DEF Plans
<1> QED
  BY <1>4 DEF CloseAndEmit, GeneratePlan

\* The link bridge, the dispatchers and a packet that is turned away leave the
\* handshake alone.
HandshakeVars == <<defense, round, control, command, ack, at, coverLeft>>

LEMMA OthersKeep ==
  ASSUME RelayInv, UNCHANGED HandshakeVars
  PROVE  RelayInv'
BY DEF HandshakeVars, RelayInv, RoundType, BurstUnderWay, CallPhase,
       Idle, Asked, Answered, Emptying

\* A packet that is peeled moves the loop and counts a flow; the round stays
\* open or closed.
LEMMA PacketKeeps ==
  ASSUME RelayInv, at = "select" \/ at = "mixing",
         at' \in {"select", "mixing", "stopped"},
         round' \in RoundType, round'.active = round.active,
         UNCHANGED <<defense, control, command, ack, coverLeft>>
  PROVE  RelayInv'
<1>1. BurstUnderWay'
  BY DEF RelayInv, BurstUnderWay
<1>2. CallPhase'
  BY DEF RelayInv, CallPhase, Idle, Asked, Answered, Emptying
<1> QED
  BY <1>1, <1>2 DEF RelayInv, RoundType

\* begin_bulk_round, end_bulk_round and their return.
LEMMA ControllerKeeps ==
  ASSUME RelayInv, ControllerStep
  PROVE  RelayInv'
<1>1. UNCHANGED <<defense, round, at, coverLeft>>
  BY DEF ControllerStep, CallBegin, CallEnd, CallReturns, chanVars, loopVars
<1>2. BurstUnderWay' /\ defense' \in Defenses /\ round' \in RoundType
  BY <1>1 DEF RelayInv, BurstUnderWay
<1>3. ASSUME CallBegin PROVE CallPhase'
  BY <1>1, <1>3 DEF CallBegin, RelayInv, CallPhase, Idle, Asked, Answered, Emptying
<1>4. ASSUME CallEnd PROVE CallPhase'
  BY <1>1, <1>4 DEF CallEnd, RelayInv, CallPhase, Idle, Asked, Answered, Emptying
<1>5. ASSUME CallReturns PROVE CallPhase'
  <2>1. command' = command /\ ack' = FALSE
    BY <1>5 DEF CallReturns
  <2>2. CASE ack = TRUE
    <3>1. /\ control \in {"beginning", "ending"}
          /\ control' = IF control = "beginning" THEN "open" ELSE "closed"
      BY <1>5, <2>2 DEF CallReturns
    <3> QED
      BY <1>1, <2>1, <2>2, <3>1 DEF RelayInv, CallPhase, Idle, Asked, Answered, Emptying
  <2>3. CASE ack # TRUE
    <3>1. at = "stopped" /\ control' = "failed"
      BY <1>5, <2>3 DEF CallReturns, RelayInv, CallPhase, Idle, Asked, Answered, Emptying
    <3> QED
      BY <1>1, <3>1 DEF CallPhase
  <2> QED
    BY <2>2, <2>3
<1> QED
  BY <1>2, <1>3, <1>4, <1>5 DEF ControllerStep, RelayInv

\* One step of the relay loop.
LEMMA LoopKeeps ==
  ASSUME RelayInv, RelayStep
  PROVE  RelayInv'
<1>1. defense \in Defenses /\ round \in RoundType /\ BurstUnderWay /\ CallPhase
  BY DEF RelayInv
<1>2. ASSUME HandleBegin PROVE RelayInv'
  <2>1. /\ at = "select" /\ command = "begin" /\ round' = BeginRound
        /\ command' = "none" /\ ack' = TRUE
        /\ UNCHANGED <<defense, at, coverLeft, control>>
    BY <1>2 DEF HandleBegin, chanVars
  <2>2. round' \in RoundType /\ round'.active = TRUE
    BY <2>1 DEF BeginRound, RoundType
  <2>3. CallPhase'
    BY <1>1, <2>1, <2>2 DEF CallPhase, Idle, Asked, Answered, Emptying
  <2> QED
    BY <1>1, <2>1, <2>2, <2>3 DEF RelayInv, BurstUnderWay, RoundType
<1>3. ASSUME HandleEnd PROVE RelayInv'
  <2>1. /\ at = "select" /\ command = "end" /\ round' = NoRound /\ command' = "none"
        /\ UNCHANGED <<defense, control>>
    BY <1>3 DEF HandleEnd, CloseRound, chanVars
  <2>2. round' \in RoundType /\ round'.active = FALSE
    BY <2>1 DEF NoRound, RoundType
  <2>3. control = "ending" /\ ack = FALSE
    BY <1>1, <2>1 DEF CallPhase, Idle, Asked, Answered, Emptying
  <2>4. CASE CloseAndEmit(round) > 0 /\ "cover" \in open
    <3>1. at' = "emitting" /\ coverLeft' = CloseAndEmit(round) /\ ack' = ack
      BY <1>3, <2>4 DEF HandleEnd
    <3>2. coverLeft' \in Nat /\ coverLeft' # 0
      BY <2>4, <3>1, FlowsAreCounted
    <3>3. CallPhase'
      BY <2>1, <2>2, <2>3, <3>1 DEF CallPhase, Emptying
    <3> QED
      BY <1>1, <2>1, <2>2, <3>1, <3>2, <3>3 DEF RelayInv, BurstUnderWay, RoundType
  <2>5. CASE ~(CloseAndEmit(round) > 0 /\ "cover" \in open)
    <3>1. at' = at /\ coverLeft' = coverLeft /\ ack' = TRUE
      BY <1>3, <2>5 DEF HandleEnd
    <3>2. CallPhase'
      BY <2>1, <2>2, <2>3, <3>1 DEF CallPhase, Answered
    <3> QED
      BY <1>1, <2>1, <2>2, <3>1, <3>2 DEF RelayInv, BurstUnderWay, RoundType
  <2> QED
    BY <2>4, <2>5
<1>4. ASSUME EmitCover PROVE RelayInv'
  <2>1. /\ at = "emitting" /\ coverLeft' = coverLeft - 1
        /\ IF coverLeft = 1 THEN at' = "select" /\ ack' = TRUE ELSE UNCHANGED <<at, ack>>
        /\ UNCHANGED <<defense, round, control, command>>
    BY <1>4 DEF EmitCover
  <2>2. BurstUnderWay'
    BY <1>1, <2>1 DEF BurstUnderWay
  <2>3. CallPhase'
    BY <1>1, <2>1 DEF CallPhase, Idle, Asked, Answered, Emptying
  <2> QED
    BY <1>1, <2>1, <2>2, <2>3 DEF RelayInv, RoundType
<1>5. ASSUME EmitFails PROVE RelayInv'
  <2>1. /\ at = "emitting" /\ coverLeft' = 0 /\ at' = "select" /\ ack' = TRUE
        /\ UNCHANGED <<defense, round, control, command>>
    BY <1>5 DEF EmitFails, chanVars
  <2>2. BurstUnderWay'
    BY <2>1 DEF BurstUnderWay
  <2>3. CallPhase'
    BY <1>1, <2>1 DEF CallPhase, Idle, Asked, Answered, Emptying
  <2> QED
    BY <1>1, <2>1, <2>2, <2>3 DEF RelayInv, RoundType
<1>6. ASSUME RejectPacket \/ RejectReplay PROVE RelayInv'
  <2>1. UNCHANGED HandshakeVars
    BY <1>6 DEF RejectPacket, RejectReplay, TakeInbound, HandshakeVars, ctlVars
  <2> QED
    BY <2>1, OthersKeep
<1>7. ASSUME PeelPacket PROVE RelayInv'
  <2>1. /\ at = "select" /\ at' \in {"select", "mixing"}
        /\ round' = round \/ round' = ObserveRealFlow(round)
        /\ UNCHANGED <<defense, control, command, ack, coverLeft>>
    BY <1>7 DEF PeelPacket, TakeInbound, ctlVars
  <2>2. ObserveRealFlow(round) \in RoundType /\ ObserveRealFlow(round).active = round.active
    BY <1>1 DEF ObserveRealFlow, RoundType
  <2> QED
    BY <1>1, <2>1, <2>2, PacketKeeps
<1>8. ASSUME Forward PROVE RelayInv'
  <2>1. /\ at = "mixing" /\ at' \in {"select", "stopped"} /\ round' = round
        /\ UNCHANGED <<defense, control, command, ack, coverLeft>>
    BY <1>8 DEF Forward, ctlVars
  <2> QED
    BY <1>1, <2>1, PacketKeeps
<1>9. ASSUME LoopEnds PROVE RelayInv'
  <2>1. /\ at = "select" /\ at' = "stopped" /\ round' = round
        /\ UNCHANGED <<defense, control, command, ack, coverLeft>>
    BY <1>9 DEF LoopEnds, chanVars, ctlVars
  <2> QED
    BY <1>1, <2>1, PacketKeeps
<1> QED
  BY <1>2, <1>3, <1>4, <1>5, <1>6, <1>7, <1>8, <1>9 DEF RelayStep

LEMMA RelayInvNext == RelayInv /\ [MixNext]_mixVars => RelayInv'
<1> SUFFICES ASSUME RelayInv, [MixNext]_mixVars PROVE RelayInv'
  OBVIOUS
<1>1. ASSUME RelayStep PROVE RelayInv'
  BY <1>1, LoopKeeps
<1>2. ASSUME ControllerStep PROVE RelayInv'
  BY <1>2, ControllerKeeps
<1>3. ASSUME UNCHANGED HandshakeVars PROVE RelayInv'
  BY <1>3, OthersKeep
<1>4. ASSUME \/ \E p \in MixPacket : Offer(p)
             \/ TakeOutbound \/ TakeCover
             \/ \E e \in Ends : CloseEnd(e)
             \/ UNCHANGED mixVars
      PROVE  UNCHANGED HandshakeVars
  BY <1>4 DEF Offer, TakeOutbound, TakeCover, CloseEnd, HandshakeVars,
              mixVars, chanVars, loopVars, ctlVars
<1> QED
  BY <1>1, <1>2, <1>3, <1>4 DEF MixNext

\* begin_bulk_round and end_bulk_round return only after the loop has acted: a round
\* that was begun is open, one that was ended is closed and its cover handed over or
\* given up, whatever the channels' sizes and whichever ends go away.
THEOREM AcksAlwaysMeanApplied == MixSpec => []AckMeansApplied
<1> QED
  BY RelayInvInit, RelayInvNext, RelayInvEnough, PTL DEF MixSpec

-----------------------------------------------------------------------------
(***************************************************************************)
(* The padding of a round.  The tracker's count is what left the relay or  *)
(* was dropped, plus the packet whose delay runs; and what a closing round *)
(* has yet to emit completes what it has emitted.                          *)
(***************************************************************************)
EgressType == [real : Nat, cover : Nat, lost : Nat]

FlowsMatch ==
  round.active /\ at # "stopped" =>
    /\ egress.cover = 0
    /\ round.real = egress.real + egress.lost + (IF at = "mixing" THEN 1 ELSE 0)

\* With n flows more the round is what its plan promises.
PaddedWith(n) ==
  IF defense.plan = "matched" THEN egress.cover + n = FixedFlows
  ELSE egress.real + egress.lost + egress.cover + n >= Target

\* The round that was last begun has ended.
Ended == \/ control = "ending" /\ ack = TRUE
         \/ control = "closed" /\ rounds > 0

PadInv ==
  /\ egress \in EgressType /\ rounds \in Nat
  /\ FlowsMatch
  /\ IsL2 /\ at = "emitting" => PaddedWith(coverLeft)
  /\ IsL2 /\ Ended /\ "cover" \in open => PaddedWith(0)

LEMMA PadInvEnough == PadInv => RoundPadded
<1> SUFFICES ASSUME PadInv, control = "closed", rounds > 0, IsL2, "cover" \in open
             PROVE  IF defense.plan = "matched" THEN egress.cover = FixedFlows
                    ELSE egress.real + egress.lost + egress.cover >= Target
  BY DEF RoundPadded
<1>1. PaddedWith(0) /\ egress \in EgressType
  BY DEF PadInv, Ended
<1> QED
  BY <1>1 DEF PaddedWith, EgressType

LEMMA PadInvInit == MixInit => PadInv
BY DEF MixInit, PadInv, EgressType, FlowsMatch, NoRound, Ended

\* A closed L2 round emits its padding at least, and its fixed number when matched.
LEMMA PlanPads ==
  ASSUME RelayInv, IsL2, round.active
  PROVE  IF defense.plan = "matched" THEN CloseAndEmit(round) = FixedFlows
         ELSE round.real + CloseAndEmit(round) >= Target
<1>1. FixedFlows \in Nat /\ Target \in Nat /\ round.real \in Nat
  BY RelayNodeAssumption DEF RelayInv, RoundType
<1>2. defense.plan \in Plans /\ (defense.terminal => defense.plan = "cover_onions")
  BY RelayNodeAssumption DEF RelayInv, Defenses
<1> DEFINE pad == RequiredCoverFlowCount(round.real)
<1>3. pad \in Nat /\ round.real + pad >= Target
  BY <1>1 DEF RequiredCoverFlowCount
<1>4. CloseAndEmit(round) = GeneratePlan(PlanCoverEmit(round.real))
  BY DEF CloseAndEmit
<1> HIDE DEF pad
<1>5. CASE defense.plan = "baseline"
  BY <1>1, <1>2, <1>3, <1>4, <1>5 DEF PlanCoverEmit, GeneratePlan, pad
<1>6. CASE defense.plan = "matched"
  BY <1>1, <1>2, <1>4, <1>6 DEF PlanCoverEmit, GeneratePlan
<1>7. CASE defense.plan = "cover_onions"
  <2>1. PlanCoverEmit(round.real) = [discard |-> pad, peelable |-> FixedFlows]
    BY <1>7 DEF PlanCoverEmit, pad
  <2> QED
    BY <1>1, <1>3, <1>4, <1>7, <2>1 DEF GeneratePlan
<1>8. CASE defense.plan = "scaffold"
  <2>1. PlanCoverEmit(round.real) = [discard |-> pad + FixedFlows, peelable |-> 0]
    BY <1>8 DEF PlanCoverEmit, pad
  <2> QED
    BY <1>1, <1>2, <1>3, <1>4, <1>8, <2>1 DEF GeneratePlan
<1> QED
  BY <1>2, <1>5, <1>6, <1>7, <1>8 DEF Plans

\* A step that leaves the count, its round and the plan alone, and neither ends a
\* round nor opens the cover channel again.
LEMMA CountsStay ==
  ASSUME PadInv, UNCHANGED <<egress, rounds, round, defense, coverLeft>>,
         at' = at \/ (at = "select" /\ at' = "stopped"),
         open' \subseteq open, Ended' => Ended
  PROVE  PadInv'
<1>1. FlowsMatch'
  BY DEF PadInv, FlowsMatch
<1>2. (IsL2 /\ at = "emitting" => PaddedWith(coverLeft))'
  BY DEF PadInv, PaddedWith
<1>3. (IsL2 /\ Ended /\ "cover" \in open => PaddedWith(0))'
  BY DEF PadInv, PaddedWith
<1> QED
  BY <1>1, <1>2, <1>3 DEF PadInv

\* The controller's calls.
LEMMA ControllerPads ==
  ASSUME RelayInv, PadInv, ControllerStep
  PROVE  PadInv'
<1>1. UNCHANGED <<defense, open, round, at, coverLeft, egress>>
  BY DEF ControllerStep, CallBegin, CallEnd, CallReturns, chanVars, loopVars, histVars
<1>2. ASSUME CallBegin PROVE PadInv'
  <2>1. rounds' \in Nat /\ ~Ended'
    BY <1>2 DEF CallBegin, PadInv, Ended
  <2> QED
    BY <1>1, <2>1 DEF PadInv, FlowsMatch, PaddedWith
<1>3. ASSUME CallEnd PROVE PadInv'
  <2>1. rounds' = rounds /\ ~Ended'
    BY <1>3 DEF CallEnd, histVars, Ended
  <2> QED
    BY <1>1, <2>1, CountsStay
<1>4. ASSUME CallReturns PROVE PadInv'
  <2>1. rounds' = rounds
    BY <1>4 DEF CallReturns, histVars
  <2>2. ASSUME Ended' PROVE Ended
    <3>1. control' = "closed"
      BY <1>4, <2>2 DEF CallReturns, Ended
    <3>2. control = "ending" /\ ack = TRUE
      BY <1>4, <3>1 DEF CallReturns, RelayInv, CallPhase, Idle, Asked, Answered, Emptying
    <3> QED
      BY <3>2 DEF Ended
  <2> QED
    BY <1>1, <2>1, <2>2, CountsStay
<1> QED
  BY <1>2, <1>3, <1>4 DEF ControllerStep

\* The loop opens a round, closes it and emits its cover.
LEMMA RoundPads ==
  ASSUME RelayInv, PadInv, HandleBegin \/ HandleEnd \/ EmitCover \/ EmitFails
  PROVE  PadInv'
<1>1. CallPhase /\ BurstUnderWay /\ FlowsMatch /\ egress \in EgressType /\ rounds \in Nat
  BY DEF RelayInv, PadInv
<1>2. ASSUME HandleBegin PROVE PadInv'
  <2>1. /\ at = "select" /\ command = "begin" /\ round' = [active |-> TRUE, real |-> 0]
        /\ egress' = [real |-> 0, cover |-> 0, lost |-> 0]
        /\ UNCHANGED <<at, control, rounds>>
    BY <1>2 DEF HandleBegin, BeginRound
  <2>2. ~Ended'
    BY <1>1, <2>1 DEF CallPhase, Idle, Asked, Answered, Emptying, Ended
  <2> QED
    BY <1>1, <2>1, <2>2 DEF PadInv, EgressType, FlowsMatch
<1>3. ASSUME HandleEnd PROVE PadInv'
  <2>1. /\ at = "select" /\ command = "end" /\ round' = NoRound
        /\ UNCHANGED <<defense, open, control, rounds, egress>>
    BY <1>3 DEF HandleEnd, CloseRound, chanVars, histVars
  <2>2. round.active /\ control = "ending" /\ ack = FALSE
    BY <1>1, <2>1 DEF CallPhase, Idle, Asked, Answered, Emptying
  <2>3. egress.cover = 0 /\ round.real = egress.real + egress.lost
    BY <1>1, <2>1, <2>2 DEF FlowsMatch, EgressType
  <2>4. CloseAndEmit(round) \in Nat
    BY FlowsAreCounted
  <2>5. IsL2 => PaddedWith(CloseAndEmit(round))
    BY <1>1, <2>2, <2>3, <2>4, PlanPads DEF PaddedWith, EgressType
  <2>6. ~round'.active
    BY <2>1 DEF NoRound
  <2>7. CASE CloseAndEmit(round) > 0 /\ "cover" \in open
    <3>1. at' = "emitting" /\ coverLeft' = CloseAndEmit(round) /\ ack' = ack
      BY <1>3, <2>7 DEF HandleEnd
    <3>2. ~Ended'
      BY <2>1, <2>2, <3>1 DEF Ended
    <3>3. IsL2 => PaddedWith(coverLeft)'
      BY <2>1, <2>5, <3>1 DEF PaddedWith
    <3> QED
      BY <1>1, <2>1, <2>6, <3>2, <3>3 DEF PadInv, FlowsMatch
  <2>8. CASE ~(CloseAndEmit(round) > 0 /\ "cover" \in open)
    <3>1. at' = at
      BY <1>3, <2>8 DEF HandleEnd
    <3>2. IsL2 /\ "cover" \in open => PaddedWith(0)'
      <4>1. "cover" \in open => CloseAndEmit(round) = 0
        BY <2>4, <2>8
      <4> QED
        BY <2>1, <2>5, <4>1 DEF PaddedWith
    <3> QED
      BY <1>1, <2>1, <2>6, <3>1, <3>2 DEF PadInv, FlowsMatch
  <2> QED
    BY <2>7, <2>8
<1>4. ASSUME EmitCover PROVE PadInv'
  <2>1. /\ at = "emitting" /\ coverLeft' = coverLeft - 1
        /\ egress' = [egress EXCEPT !.cover = @ + 1]
        /\ UNCHANGED <<defense, open, round, control, rounds>>
    BY <1>4 DEF EmitCover
  <2>2. /\ egress' \in EgressType /\ egress'.cover = egress.cover + 1
        /\ egress'.real = egress.real /\ egress'.lost = egress.lost
    BY <1>1, <2>1 DEF EgressType
  <2>3. ~round.active /\ control = "ending"
    BY <1>1, <2>1 DEF CallPhase, Idle, Asked, Answered, Emptying
  <2>4. coverLeft \in Nat /\ Target \in Nat /\ FixedFlows \in Nat
    BY <1>1, RelayNodeAssumption DEF BurstUnderWay
  <2>5. IsL2 => PaddedWith(coverLeft)
    BY <2>1 DEF PadInv
  <2>6. IsL2 => PaddedWith(coverLeft)'
    BY <1>1, <2>1, <2>2, <2>4, <2>5 DEF PaddedWith, EgressType
  <2>7. CASE coverLeft = 1
    <3>1. IsL2 => PaddedWith(0)'
      BY <2>1, <2>4, <2>6, <2>7 DEF PaddedWith
    <3>2. at' = "select"
      BY <1>4, <2>7 DEF EmitCover
    <3> QED
      BY <1>1, <2>1, <2>2, <2>3, <3>1, <3>2 DEF PadInv, FlowsMatch
  <2>8. CASE coverLeft # 1
    <3>1. ack' = ack /\ at' = at
      BY <1>4, <2>8 DEF EmitCover
    <3>2. ~Ended'
      BY <1>1, <2>1, <2>3, <3>1 DEF CallPhase, Idle, Asked, Answered, Emptying, Ended
    <3> QED
      BY <1>1, <2>1, <2>2, <2>3, <2>6, <3>1, <3>2 DEF PadInv, FlowsMatch
  <2> QED
    BY <2>7, <2>8
<1>5. ASSUME EmitFails PROVE PadInv'
  <2>1. /\ at = "emitting" /\ "cover" \notin open /\ at' = "select"
        /\ UNCHANGED <<defense, open, round, control, rounds, egress>>
    BY <1>5 DEF EmitFails, chanVars, histVars
  <2>2. ~round.active
    BY <1>1, <2>1 DEF CallPhase, Idle, Asked, Answered, Emptying
  <2> QED
    BY <1>1, <2>1, <2>2 DEF PadInv, FlowsMatch
<1> QED
  BY <1>2, <1>3, <1>4, <1>5

\* A packet of an open round is counted when it is peeled, and has left or was
\* dropped when the loop is back at its select.
LEMMA PacketPads ==
  ASSUME RelayInv, PadInv, PeelPacket \/ Forward
  PROVE  PadInv'
<1>1. /\ round \in RoundType /\ FlowsMatch /\ egress \in EgressType /\ rounds \in Nat
      /\ round.active \in BOOLEAN /\ round.real \in Nat
  BY DEF RelayInv, PadInv, RoundType
<1>2. ASSUME PeelPacket PROVE PadInv'
  <2>1. /\ at = "select"
        /\ UNCHANGED <<defense, open, control, ack, coverLeft, rounds, egress>>
        /\ \/ round' = ObserveRealFlow(round) /\ at' = "mixing"
           \/ round' = round /\ at' = at
    BY <1>2 DEF PeelPacket, TakeInbound, ctlVars
  <2>2. FlowsMatch'
    <3>1. CASE round' = ObserveRealFlow(round) /\ at' = "mixing"
      <4>1. CASE round.active
        <5>1. round'.active /\ round'.real = round.real + 1
          BY <1>1, <3>1, <4>1 DEF ObserveRealFlow, RoundType
        <5> QED
          BY <1>1, <2>1, <3>1, <4>1, <5>1 DEF FlowsMatch, EgressType
      <4>2. CASE ~round.active
        BY <3>1, <4>2 DEF ObserveRealFlow, FlowsMatch
      <4> QED
        BY <4>1, <4>2
    <3>2. CASE round' = round /\ at' = at
      BY <1>1, <2>1, <3>2 DEF FlowsMatch
    <3> QED
      BY <2>1, <3>1, <3>2
  <2>3. Ended' => Ended
    BY <2>1 DEF Ended
  <2> QED
    BY <1>1, <2>1, <2>2, <2>3 DEF PadInv, PaddedWith
<1>3. ASSUME Forward PROVE PadInv'
  <2>1. /\ at = "mixing" /\ at' \in {"select", "stopped"}
        /\ UNCHANGED <<defense, open, control, ack, coverLeft, rounds, round>>
    BY <1>3 DEF Forward, ctlVars
  <2> DEFINE one == IF round.active THEN 1 ELSE 0
  <2>2. \/ egress' = [egress EXCEPT !.real = @ + one]
        \/ egress' = [egress EXCEPT !.lost = @ + one]
        \/ egress' = egress /\ at' = "stopped"
    BY <1>3 DEF Forward
  <2>3. CASE round.active
    <3>1. egress.cover = 0 /\ round.real = egress.real + egress.lost + 1
      BY <1>1, <2>1, <2>3 DEF FlowsMatch
    <3>2. one = 1
      BY <2>3
    <3> HIDE DEF one
    <3>3. /\ egress' \in EgressType
          /\ at' # "stopped" => egress'.cover = 0 /\ round.real = egress'.real + egress'.lost
      BY <1>1, <2>2, <3>1, <3>2 DEF EgressType
    <3>4. ~Ended
      BY <2>1, <2>3 DEF RelayInv, CallPhase, Idle, Asked, Answered, Emptying, Ended
    <3> QED
      BY <1>1, <2>1, <3>3, <3>4 DEF PadInv, FlowsMatch, Ended, EgressType
  <2>4. CASE ~round.active
    <3>1. egress' = egress
      BY <1>1, <2>2, <2>4 DEF EgressType
    <3> QED
      BY <1>1, <2>1, <2>4, <3>1 DEF PadInv, FlowsMatch, Ended, PaddedWith
  <2> QED
    BY <2>3, <2>4
<1> QED
  BY <1>2, <1>3

LEMMA PadInvNext == RelayInv /\ PadInv /\ [MixNext]_mixVars => PadInv'
<1> SUFFICES ASSUME RelayInv, PadInv, [MixNext]_mixVars PROVE PadInv'
  OBVIOUS
<1>1. ASSUME ControllerStep PROVE PadInv'
  BY <1>1, ControllerPads
<1>2. ASSUME HandleBegin \/ HandleEnd \/ EmitCover \/ EmitFails PROVE PadInv'
  BY <1>2, RoundPads
<1>3. ASSUME PeelPacket \/ Forward PROVE PadInv'
  BY <1>3, PacketPads
<1>4. ASSUME \/ \E p \in MixPacket : Offer(p)
             \/ TakeOutbound \/ TakeCover
             \/ \E e \in Ends : CloseEnd(e)
             \/ RejectPacket \/ RejectReplay \/ LoopEnds \/ UNCHANGED mixVars
      PROVE  PadInv'
  <2>1. /\ UNCHANGED <<egress, rounds, round, defense, coverLeft, control, ack>>
        /\ at' = at \/ (at = "select" /\ at' = "stopped")
        /\ open' \subseteq open
    BY <1>4 DEF Offer, TakeOutbound, TakeCover, CloseEnd, RejectPacket, RejectReplay,
                TakeInbound, LoopEnds, mixVars, chanVars, loopVars, ctlVars, histVars
  <2>2. Ended' => Ended
    BY <2>1 DEF Ended
  <2> QED
    BY <2>1, <2>2, CountsStay
<1> QED
  BY <1>1, <1>2, <1>3, <1>4 DEF MixNext, RelayStep

\* A round that ended has its cover: the flows that left, those the full queue dropped
\* and the cover amount to the target (close_and_emit, required_cover_flow_count), or
\* the cover to the matched number, however packets and commands interleaved and for
\* every plan, target and channel size, unless the cover channel was closed.
THEOREM RoundsAlwaysPadded == MixSpec => []RoundPadded
<1> QED
  BY RelayInvInit, RelayInvNext, PadInvInit, PadInvNext, PadInvEnough, PTL DEF MixSpec

-----------------------------------------------------------------------------
(***************************************************************************)
(* What was sent on, packet by packet, against what the cache remembers.   *)
(* Seen from a packet on its way out, the cache either still counts the    *)
(* generation it was accepted in, and then has it at its place in the      *)
(* queue or has pushed it out at the full length; or the counter has moved *)
(* on by no more generations than packets were accepted since.             *)
(***************************************************************************)
Flow == [packet : MixPacket, n : Nat, nth : Nat, gen : Generation]

Age(e) == fresh - e.nth

InCache(e) ==
  /\ e.gen = replay.generation
  /\ LET n == Len(replay.order)
     IN  IF Age(e) < n THEN replay.order[n - Age(e)].tag = e.packet
         ELSE n = ReplayCapacity

Later(g, k) == IF g + k < GenModulus THEN g + k ELSE g + k - GenModulus

Dropped(e) ==
  \/ \E k \in 1 .. GenModulus - 1 : k <= Age(e) /\ replay.generation = Later(e.gen, k)
  \/ Age(e) >= GenModulus

Placed(e) == e.nth \in 1 .. fresh /\ (InCache(e) \/ Dropped(e))

\* f was sent long enough after e, or in another generation.
Apart(e, f) ==
  e.packet = f.packet => f.nth - e.nth > ReplayCapacity \/ f.gen # e.gen

In(q) == {q[i] : i \in 1 .. Len(q)}
InLine(q) == \A i, j \in 1 .. Len(q) : i < j => Apart(q[i], q[j])
Ahead(q, r) == \A e \in In(q), f \in In(r) : Apart(e, f)

CacheInv ==
  /\ fresh \in Nat
  /\ Good(replay) /\ replay.capacity = ReplayCapacity
  /\ Len(replay.order) <= ReplayCapacity

LineShape ==
  /\ offers \in Nat /\ inbound \in Seq([packet : MixPacket, n : Nat])
  /\ delivered \in Seq(Flow) /\ outbound \in Seq(Flow) /\ mixing \in Seq(Flow)
  /\ Len(mixing) = IF at = "mixing" THEN 1 ELSE 0

LineInv ==
  /\ CacheInv /\ LineShape
  /\ InLine(delivered) /\ InLine(outbound)
  /\ Ahead(delivered, outbound) /\ Ahead(delivered, mixing) /\ Ahead(outbound, mixing)
  /\ \A e \in In(delivered) \cup In(outbound) \cup In(mixing) : Placed(e)

-----------------------------------------------------------------------------
\* The sets of a queue and of what Append and Tail make of it.
LEMMA InOfSeq ==
  ASSUME NEW S, NEW q \in Seq(S)
  PROVE  /\ Len(q) \in Nat /\ In(q) \subseteq S
         /\ q # << >> => /\ In(Tail(q)) \subseteq In(q) /\ Head(q) \in In(q)
                         /\ Head(q) = q[1] /\ Len(q) >= 1
         /\ \A e \in S : In(Append(q, e)) = In(q) \cup {e}
<1>1. Len(q) \in Nat /\ In(q) \subseteq S
  BY LenProperties, ElementOfSeq DEF In
<1>2. ASSUME q # << >>
      PROVE  /\ In(Tail(q)) \subseteq In(q) /\ Head(q) \in In(q)
             /\ Head(q) = q[1] /\ Len(q) >= 1
  <2>1. Len(q) \in Nat \ {0} /\ Head(q) = q[1]
    BY <1>2, EmptySeq
  <2>2. Len(Tail(q)) = Len(q) - 1 /\ \A i \in 1 .. Len(q) - 1 : Tail(q)[i] = q[i + 1]
    BY <1>2, HeadTailProperties
  <2>3. \A i \in 1 .. Len(q) - 1 : i + 1 \in 1 .. Len(q)
    BY <2>1
  <2>4. In(Tail(q)) \subseteq In(q)
    BY <2>2, <2>3 DEF In
  <2> QED
    BY <2>1, <2>4 DEF In
<1>3. ASSUME NEW e \in S PROVE In(Append(q, e)) = In(q) \cup {e}
  <2>1. /\ Len(Append(q, e)) = Len(q) + 1
        /\ \A i \in 1 .. Len(q) : Append(q, e)[i] = q[i]
        /\ Append(q, e)[Len(q) + 1] = e
    BY AppendProperties
  <2>2. \A i \in 1 .. Len(q) + 1 : i \in 1 .. Len(q) \/ i = Len(q) + 1
    BY <1>1
  <2>3. (\A i \in 1 .. Len(q) : i \in 1 .. Len(q) + 1) /\ Len(q) + 1 \in 1 .. Len(q) + 1
    BY <1>1
  <2> QED
    BY <2>1, <2>2, <2>3 DEF In
<1> QED
  BY <1>1, <1>2, <1>3

LEMMA TailInLine ==
  ASSUME NEW S, NEW q \in Seq(S), q # << >>, InLine(q)
  PROVE  InLine(Tail(q)) /\ \A e \in In(Tail(q)) : Apart(Head(q), e)
<1>1. Len(q) \in Nat \ {0} /\ Head(q) = q[1]
  BY EmptySeq
<1>2. Len(Tail(q)) = Len(q) - 1 /\ \A i \in 1 .. Len(q) - 1 : Tail(q)[i] = q[i + 1]
  BY HeadTailProperties
<1>3. \A i \in 1 .. Len(q) - 1 : i + 1 \in 1 .. Len(q) /\ 1 < i + 1 /\ 1 \in 1 .. Len(q)
  BY <1>1
<1>4. \A i, j \in 1 .. Len(q) - 1 : i < j => i + 1 < j + 1
  BY <1>1
<1>5. InLine(Tail(q))
  BY <1>2, <1>3, <1>4 DEF InLine
<1> QED
  BY <1>1, <1>2, <1>3, <1>5 DEF InLine, In

LEMMA AppendInLine ==
  ASSUME NEW S, NEW q \in Seq(S), NEW e \in S, InLine(q), \A f \in In(q) : Apart(f, e)
  PROVE  InLine(Append(q, e))
<1>1. Len(q) \in Nat
  BY LenProperties
<1>2. /\ Len(Append(q, e)) = Len(q) + 1
      /\ \A i \in 1 .. Len(q) : Append(q, e)[i] = q[i]
      /\ Append(q, e)[Len(q) + 1] = e
  BY AppendProperties
<1>3. \A i \in 1 .. Len(q) : Apart(q[i], e)
  BY DEF In
<1>4. \A i, j \in 1 .. Len(q) + 1 :
        i < j => i \in 1 .. Len(q) /\ (j \in 1 .. Len(q) \/ j = Len(q) + 1)
  BY <1>1
<1> QED
  BY <1>2, <1>3, <1>4 DEF InLine

\* What comes out of the three places one behind the other.
LEMMA LineInvEnough == LineInv => ForwardedOnceWhileRemembered
<1> SUFFICES ASSUME LineInv PROVE ForwardedOnceWhileRemembered
  OBVIOUS
<1> DEFINE front == delivered \o outbound
           line == front \o mixing
           a == Len(delivered)
           b == Len(outbound)
           c == Len(mixing)
<1>1. /\ delivered \in Seq(Flow) /\ outbound \in Seq(Flow) /\ mixing \in Seq(Flow)
      /\ a \in Nat /\ b \in Nat /\ c \in {0, 1}
  BY LenProperties DEF LineInv, LineShape
<1>2. /\ front \in Seq(Flow) /\ Len(front) = a + b
      /\ \A i \in 1 .. a + b : front[i] = IF i <= a THEN delivered[i] ELSE outbound[i - a]
  BY <1>1, ConcatProperties
<1>3. /\ Len(line) = a + b + c
      /\ \A i \in 1 .. a + b + c : line[i] = IF i <= a + b THEN front[i] ELSE mixing[i - (a + b)]
  BY <1>1, <1>2, ConcatProperties
<1> HIDE DEF front, line, a, b, c
<1>4. ASSUME NEW i \in 1 .. a + b + c
      PROVE  \/ i \in 1 .. a /\ line[i] = delivered[i] /\ line[i] \in In(delivered)
             \/ i - a \in 1 .. b /\ line[i] = outbound[i - a] /\ line[i] \in In(outbound)
             \/ i = a + b + 1 /\ line[i] \in In(mixing)
  <2>1. CASE i <= a
    <3>1. i \in 1 .. a /\ line[i] = delivered[i]
      BY <1>1, <1>2, <1>3, <2>1
    <3> QED
      BY <3>1 DEF In, a
  <2>2. CASE a < i /\ i <= a + b
    <3>1. i - a \in 1 .. b /\ line[i] = outbound[i - a]
      BY <1>1, <1>2, <1>3, <2>2
    <3> QED
      BY <3>1 DEF In, b
  <2>3. CASE a + b < i
    <3>1. i = a + b + 1 /\ i - (a + b) = 1 /\ 1 \in 1 .. c /\ line[i] = mixing[i - (a + b)]
      BY <1>1, <1>3, <2>3
    <3> QED
      BY <3>1 DEF In, c
  <2> QED
    BY <1>1, <2>1, <2>2, <2>3
<1>5. ASSUME NEW i \in 1 .. a + b + c, NEW j \in 1 .. a + b + c, i < j
      PROVE  Apart(line[i], line[j])
  <2>1. CASE j \in 1 .. a /\ line[j] = delivered[j]
    <3>1. i \in 1 .. a /\ ~(i - a \in 1 .. b) /\ i # a + b + 1
      BY <1>1, <1>5, <2>1
    <3> QED
      BY <1>4, <1>5, <2>1, <3>1 DEF LineInv, InLine, a
  <2>2. CASE j - a \in 1 .. b /\ line[j] = outbound[j - a] /\ line[j] \in In(outbound)
    <3>1. i # a + b + 1 /\ (i - a \in 1 .. b => i - a < j - a)
      BY <1>1, <1>5, <2>2
    <3> QED
      BY <1>4, <2>2, <3>1 DEF LineInv, InLine, Ahead, b
  <2>3. CASE j = a + b + 1 /\ line[j] \in In(mixing)
    <3>1. i # a + b + 1
      BY <1>5, <2>3
    <3> QED
      BY <1>4, <2>3, <3>1 DEF LineInv, Ahead
  <2> QED
    BY <1>4, <2>1, <2>2, <2>3
<1> QED
  BY <1>3, <1>5 DEF ForwardedOnceWhileRemembered, Apart, line, front

LEMMA LineInvInit == MixInit => LineInv
<1> SUFFICES ASSUME MixInit PROVE LineInv
  OBVIOUS
<1>1. ReplayCapacity \in Capacities /\ ReplayCapacity \in Nat \ {0}
  BY ReplayAssumption, ReplayCacheAssumption
<1>2. CacheInv
  <2>1. Good(replay) /\ Emptied(replay)
    BY <1>1, NewGood DEF MixInit
  <2>2. replay.capacity = ReplayCapacity /\ Len(replay.order) = 0
    BY DEF MixInit, NewReplayCache
  <2> QED
    BY <1>1, <2>1, <2>2 DEF CacheInv, MixInit
<1>3. LineShape
  BY EmptySeq DEF LineShape, MixInit
<1>4. Len(delivered) = 0 /\ Len(outbound) = 0 /\ Len(mixing) = 0
  BY EmptySeq DEF MixInit
<1>5. In(delivered) = {} /\ In(outbound) = {} /\ In(mixing) = {}
  BY <1>4 DEF In
<1>6. InLine(delivered) /\ InLine(outbound)
  BY <1>4 DEF InLine
<1> QED
  BY <1>2, <1>3, <1>5, <1>6 DEF LineInv, Ahead

-----------------------------------------------------------------------------
\* The counter of generations goes up by one and wraps.
LEMMA NextGeneration ==
  ASSUME NEW g \in Generation
  PROVE  (g + 1) % GenModulus = Later(g, 1)
<1>1. g \in 0 .. GenModulus - 1 /\ GenModulus \in Nat \ {0, 1}
  BY ReplayCacheAssumption DEF Generation
<1>2. CASE g + 1 < GenModulus
  BY <1>1, <1>2 DEF Later
<1>3. CASE g + 1 = GenModulus
  BY <1>1, <1>3 DEF Later
<1> QED
  BY <1>1, <1>2, <1>3

LEMMA LaterAgain ==
  ASSUME NEW g \in Generation, NEW k \in 1 .. GenModulus - 1
  PROVE  /\ Later(g, k) # g
         /\ k + 1 <= GenModulus - 1 => Later(Later(g, k), 1) = Later(g, k + 1)
BY ReplayCacheAssumption DEF Later, Generation

\* What check_and_insert makes of the cache when it accepts a tag: the queue it
\* keeps, emptied with the counter moved on, short of its oldest entry, or whole,
\* and the tag behind it.
Keeps(old, kept) ==
  \/ kept.order = << >> /\ kept.generation = Later(old.generation, 1)
  \/ /\ Len(old.order) = old.capacity
     /\ kept.order = Tail(old.order) /\ kept.generation = old.generation
  \/ /\ Len(old.order) < old.capacity
     /\ kept.order = old.order /\ kept.generation = old.generation

LEMMA AcceptKeeps ==
  ASSUME CacheInv, NEW p \in Tag, IsFresh(replay, p)
  PROVE  LET m == MakeRoom(replay) IN
         /\ p \notin replay.seen /\ Keeps(replay, m)
         /\ Good(m) /\ m.capacity = replay.capacity /\ p \notin m.seen
<1> DEFINE m == MakeRoom(replay)
           n == Len(replay.order)
<1>1. Good(replay) /\ n <= replay.capacity /\ n \in Nat /\ replay.capacity \in Nat \ {0}
  BY LenProperties, CapacityPositive DEF CacheInv, Good, ReplayCacheType
<1>2. p \notin replay.seen
  BY <1>1, ScanIsMembership DEF CacheInv
<1>3. /\ Good(m) /\ m.capacity = replay.capacity
      /\ UnderPressure(replay) => Emptied(m)
      /\ ~UnderPressure(replay) /\ n = replay.capacity => m.order = Tail(replay.order)
      /\ ~UnderPressure(replay) /\ n < replay.capacity => m = replay
      /\ m.generation = IF UnderPressure(replay) THEN (replay.generation + 1) % GenModulus
                        ELSE replay.generation
  BY <1>1, MakeRoomGood
<1>4. replay.generation \in Generation /\ replay.order \in Seq([gen : Generation, tag : Tag])
  BY <1>1 DEF Good, ReplayCacheType
<1> HIDE DEF m
<1>5. Keeps(replay, m)
  <2>1. n = replay.capacity \/ n < replay.capacity
    BY <1>1
  <2> QED
    BY <1>3, <1>4, <2>1, NextGeneration DEF Keeps, Emptied
<1>6. m.seen = TagsInOrder(m) /\ replay.seen = TagsInOrder(replay)
  BY <1>1, <1>3 DEF Good, Counted
<1>7. p \notin m.seen
  <2>1. CASE m.order = << >>
    <3>1. Len(m.order) = 0
      BY <2>1, EmptySeq
    <3> QED
      BY <1>6, <3>1 DEF TagsInOrder
  <2>2. CASE n = replay.capacity /\ m.order = Tail(replay.order)
    <3>1. replay.order # << >>
      BY <1>1, <2>2
    <3>2. In(m.order) \subseteq In(replay.order)
      BY <1>4, <2>2, <3>1, InOfSeq
    <3>3. \A i \in 1 .. Len(m.order) : \E j \in 1 .. n : m.order[i] = replay.order[j]
      BY <3>2 DEF In
    <3> QED
      BY <1>2, <1>6, <3>3 DEF TagsInOrder
  <2>3. CASE m.order = replay.order
    BY <1>2, <1>6, <2>3 DEF TagsInOrder
  <2> QED
    BY <1>5, <2>1, <2>2, <2>3 DEF Keeps
<1> QED
  BY <1>2, <1>3, <1>5, <1>7 DEF m

\* The cache after an accept, place by place.
Accepted(p) ==
  LET n == Len(replay.order) IN
  /\ fresh' = fresh + 1
  /\ \/ /\ replay'.generation = Later(replay.generation, 1)
        /\ Len(replay'.order) = 1 /\ replay'.order[1].tag = p
     \/ /\ replay'.generation = replay.generation /\ n = ReplayCapacity
        /\ Len(replay'.order) = n /\ replay'.order[n].tag = p
        /\ \A i \in 1 .. n - 1 : replay'.order[i] = replay.order[i + 1]
     \/ /\ replay'.generation = replay.generation /\ n < ReplayCapacity
        /\ Len(replay'.order) = n + 1 /\ replay'.order[n + 1].tag = p
        /\ \A i \in 1 .. n : replay'.order[i] = replay.order[i]

LEMMA CacheInvAccept ==
  ASSUME CacheInv, NEW p \in Tag, IsFresh(replay, p),
         replay' = RecordTag(replay, p), fresh' = fresh + 1
  PROVE  CacheInv' /\ Accepted(p)
<1> DEFINE m == MakeRoom(replay)
           n == Len(replay.order)
           new == [gen |-> m.generation, tag |-> p]
           Item == [gen : Generation, tag : Tag]
<1>1. /\ n \in Nat /\ n <= ReplayCapacity /\ replay.capacity = ReplayCapacity
      /\ replay.order \in Seq(Item) /\ ReplayCapacity \in Nat \ {0} /\ fresh \in Nat
  BY LenProperties, CapacityPositive DEF CacheInv, Good, ReplayCacheType
<1>2. Keeps(replay, m) /\ Good(m) /\ m.capacity = ReplayCapacity /\ p \notin m.seen
  BY <1>1, AcceptKeeps
<1>3. replay' = InsertTag(m, p)
  BY DEF RecordTag, CheckAndInsert
<1>4. m.order \in Seq(Item) /\ new \in Item
  BY <1>2 DEF Good, ReplayCacheType
<1> HIDE DEF m, new, Item
<1>5. /\ Good(replay') /\ replay'.order = Append(m.order, new)
      /\ replay'.capacity = ReplayCapacity /\ replay'.generation = m.generation
  <2>1. Good(InsertTag(m, p)) /\ InsertTag(m, p).order = Append(m.order, new)
        /\ InsertTag(m, p).capacity = m.capacity
    BY <1>2, InsertGood DEF new
  <2>2. InsertTag(m, p).generation = m.generation
    BY DEF InsertTag
  <2> QED
    BY <1>2, <1>3, <2>1, <2>2
<1>6. /\ Len(replay'.order) = Len(m.order) + 1
      /\ \A i \in 1 .. Len(m.order) : replay'.order[i] = m.order[i]
      /\ replay'.order[Len(m.order) + 1].tag = p
  BY <1>4, <1>5, AppendProperties DEF new
<1>7. CASE m.order = << >> /\ m.generation = Later(replay.generation, 1)
  <2>1. Len(m.order) = 0
    BY <1>7, EmptySeq
  <2>2. Len(replay'.order) = 1 /\ replay'.order[1].tag = p
    BY <1>6, <2>1
  <2> QED
    BY <1>1, <1>5, <1>7, <2>2 DEF CacheInv, Accepted
<1>8. CASE n = ReplayCapacity /\ m.order = Tail(replay.order) /\ m.generation = replay.generation
  <2>1. replay.order # << >>
    BY <1>1, <1>8
  <2>2. Len(m.order) = n - 1 /\ \A i \in 1 .. n - 1 : m.order[i] = replay.order[i + 1]
    BY <1>1, <1>8, <2>1, HeadTailProperties
  <2>3. (n - 1) + 1 = n
    BY <1>1
  <2>4. /\ Len(replay'.order) = n /\ replay'.order[n].tag = p
        /\ \A i \in 1 .. n - 1 : replay'.order[i] = replay.order[i + 1]
    BY <1>6, <2>2, <2>3
  <2> QED
    BY <1>1, <1>5, <1>8, <2>4 DEF CacheInv, Accepted
<1>9. CASE n < ReplayCapacity /\ m.order = replay.order /\ m.generation = replay.generation
  <2>1. /\ Len(replay'.order) = n + 1 /\ replay'.order[n + 1].tag = p
        /\ \A i \in 1 .. n : replay'.order[i] = replay.order[i]
    BY <1>6, <1>9
  <2> QED
    BY <1>1, <1>5, <1>9, <2>1 DEF CacheInv, Accepted
<1> QED
  BY <1>1, <1>2, <1>7, <1>8, <1>9 DEF Keeps

\* A packet sent on earlier keeps its place in that account.
LEMMA PlacedStays ==
  ASSUME CacheInv, NEW p, Accepted(p), NEW e \in Flow, Placed(e)
  PROVE  Placed(e)'
<1> DEFINE n == Len(replay.order)
           k1 == fresh - e.nth
<1>1. /\ n \in Nat /\ n <= ReplayCapacity /\ ReplayCapacity \in Nat \ {0} /\ fresh \in Nat
      /\ replay.generation \in Generation /\ GenModulus \in Nat \ {0, 1}
  BY LenProperties, CapacityPositive, ReplayCacheAssumption DEF CacheInv, Good, ReplayCacheType
<1>2. e.nth \in 1 .. fresh /\ e.nth \in 1 .. fresh + 1 /\ e.gen \in Generation
  BY <1>1 DEF Placed, Flow
<1>3. fresh' = fresh + 1 /\ Age(e) \in Nat /\ Age(e)' = Age(e) + 1
  BY <1>1, <1>2 DEF Accepted, Age
<1>4. CASE Age(e) >= GenModulus
  <2>1. Age(e)' >= GenModulus
    BY <1>1, <1>3, <1>4
  <2> QED
    BY <1>2, <1>3, <2>1 DEF Placed, Dropped
<1>5. CASE replay'.generation = Later(replay.generation, 1)
  <2>1. CASE InCache(e)
    <3>1. 1 \in 1 .. GenModulus - 1 /\ 1 <= Age(e)'
      BY <1>1, <1>3
    <3> QED
      BY <1>2, <1>3, <1>5, <2>1, <3>1 DEF Placed, InCache, Dropped
  <2>2. ASSUME NEW k \in 1 .. GenModulus - 1, k <= Age(e), replay.generation = Later(e.gen, k)
        PROVE  Placed(e)'
    <3>1. CASE k + 1 <= GenModulus - 1
      <4>1. k + 1 \in 1 .. GenModulus - 1 /\ k + 1 <= Age(e)'
        BY <1>1, <1>3, <2>2, <3>1
      <4>2. replay'.generation = Later(e.gen, k + 1)
        BY <1>2, <1>5, <2>2, <3>1, LaterAgain
      <4> QED
        BY <1>2, <1>3, <4>1, <4>2 DEF Placed, Dropped
    <3>2. CASE k + 1 = GenModulus
      <4>1. Age(e)' >= GenModulus
        BY <1>1, <1>3, <2>2, <3>2
      <4> QED
        BY <1>2, <1>3, <4>1 DEF Placed, Dropped
    <3> QED
      BY <1>1, <3>1, <3>2
  <2> QED
    BY <1>4, <2>1, <2>2 DEF Placed, Dropped
<1>6. CASE replay'.generation = replay.generation
  <2>1. ASSUME NEW k \in 1 .. GenModulus - 1, k <= Age(e), replay.generation = Later(e.gen, k)
        PROVE  Placed(e)'
    <3>1. k <= Age(e)'
      BY <1>1, <1>3, <2>1
    <3> QED
      BY <1>2, <1>3, <1>6, <2>1, <3>1 DEF Placed, Dropped
  <2>2. CASE InCache(e) /\ replay'.generation # Later(replay.generation, 1)
    <3>1. e.gen = replay'.generation
      BY <1>6, <2>2 DEF InCache
    <3> DEFINE n1 == Len(replay'.order)
               a == Age(e)
    <3>2. a \in Nat /\ Age(e)' = a + 1
      BY <1>3
    <3>3. CASE a < n
      <4>1. replay.order[n - a].tag = e.packet
        BY <2>2, <3>3 DEF InCache
      <4> HIDE DEF n, n1, a
      <4>2. CASE /\ n = ReplayCapacity /\ n1 = n
                 /\ \A i \in 1 .. n - 1 : replay'.order[i] = replay.order[i + 1]
        <5>1. CASE a + 1 < n
          <6>1. n - (a + 1) \in 1 .. n - 1 /\ (n - (a + 1)) + 1 = n - a
            BY <1>1, <3>2, <5>1
          <6>2. replay'.order[n - (a + 1)].tag = e.packet
            BY <4>1, <4>2, <6>1
          <6> QED
            BY <1>2, <1>3, <3>1, <3>2, <4>2, <5>1, <6>2 DEF Placed, InCache, n1
        <5>2. CASE ~(a + 1 < n)
          BY <1>2, <1>3, <3>1, <3>2, <4>2, <5>2 DEF Placed, InCache, n1
        <5> QED
          BY <5>1, <5>2
      <4>3. CASE n1 = n + 1 /\ \A i \in 1 .. n : replay'.order[i] = replay.order[i]
        <5>1. a + 1 < n + 1 /\ n - a \in 1 .. n /\ (n + 1) - (a + 1) = n - a
          BY <1>1, <3>2, <3>3
        <5>2. replay'.order[(n + 1) - (a + 1)].tag = e.packet
          BY <4>1, <4>3, <5>1
        <5> QED
          BY <1>2, <1>3, <3>1, <3>2, <4>3, <5>1, <5>2 DEF Placed, InCache, n1
      <4> QED
        BY <1>6, <2>2, <4>2, <4>3 DEF Accepted, n, n1
    <3>4. CASE ~(a < n)
      <4>1. n = ReplayCapacity
        BY <2>2, <3>4 DEF InCache
      <4>2. n1 = ReplayCapacity
        BY <1>1, <2>2, <4>1 DEF Accepted
      <4> HIDE DEF n, n1, a
      <4>3. ~(a + 1 < n1)
        BY <1>1, <3>2, <3>4, <4>1, <4>2
      <4> QED
        BY <1>2, <1>3, <3>1, <3>2, <4>2, <4>3 DEF Placed, InCache, n1
    <3> QED
      BY <3>3, <3>4
  <2> QED
    BY <1>4, <1>5, <2>1, <2>2 DEF Placed, Dropped
<1> QED
  BY <1>5, <1>6 DEF Accepted

\* The packet just accepted, and those of its tag sent on before.
LEMMA NewPlaced ==
  ASSUME CacheInv, NEW p, Accepted(p), NEW e \in Flow,
         e.packet = p, e.nth = fresh + 1, e.gen = replay'.generation
  PROVE  Placed(e)'
<1>1. /\ Len(replay.order) \in Nat /\ fresh \in Nat /\ ReplayCapacity \in Nat \ {0}
  BY LenProperties, CapacityPositive DEF CacheInv, Good, ReplayCacheType
<1>2. fresh' = fresh + 1 /\ Age(e)' = 0 /\ e.nth \in 1 .. fresh'
  BY <1>1 DEF Accepted, Age
<1> DEFINE n1 == Len(replay'.order)
<1>3. n1 \in Nat /\ 0 < n1 /\ replay'.order[n1].tag = p
  BY <1>1 DEF Accepted
<1> HIDE DEF n1
<1>4. n1 - 0 = n1
  BY <1>3
<1> QED
  BY <1>2, <1>3, <1>4 DEF Placed, InCache, n1

LEMMA NewApart ==
  ASSUME CacheInv, NEW p, p \notin replay.seen, Accepted(p),
         NEW f \in Flow, Placed(f), NEW e \in Flow,
         e.packet = p, e.nth = fresh + 1, e.gen = replay'.generation
  PROVE  Apart(f, e)
<1> SUFFICES ASSUME f.packet = p, f.gen = e.gen PROVE e.nth - f.nth > ReplayCapacity
  BY DEF Apart
<1> DEFINE n == Len(replay.order)
<1>1. /\ n \in Nat /\ fresh \in Nat /\ ReplayCapacity \in Nat \ {0}
      /\ replay.generation \in Generation /\ GenModulus \in Nat \ {0, 1}
      /\ replay.seen = TagsInOrder(replay)
  BY LenProperties, CapacityPositive, ReplayCacheAssumption
     DEF CacheInv, Good, Counted, ReplayCacheType
<1>2. f.nth \in 1 .. fresh /\ f.gen \in Generation /\ ReplayCapacity < GenModulus
  BY ReplayAssumption DEF Placed, Flow
<1>3. Age(f) \in Nat /\ e.nth - f.nth = Age(f) + 1
  BY <1>1, <1>2 DEF Age
<1> HIDE DEF n
<1>4. CASE InCache(f)
  <2>1. ~(Age(f) < n)
    <3> SUFFICES ASSUME Age(f) < n PROVE FALSE
      OBVIOUS
    <3>1. n - Age(f) \in 1 .. n
      BY <1>1, <1>3
    <3>2. replay.order[n - Age(f)].tag = p
      BY <1>4 DEF InCache, n
    <3> QED
      BY <1>1, <3>1, <3>2 DEF TagsInOrder, n
  <2>2. n = ReplayCapacity
    BY <1>4, <2>1 DEF InCache, n
  <2> QED
    BY <1>1, <1>3, <2>1, <2>2
<1>5. CASE Age(f) >= GenModulus
  BY <1>1, <1>2, <1>3, <1>5
<1>6. ASSUME NEW k \in 1 .. GenModulus - 1, k <= Age(f), replay.generation = Later(f.gen, k)
      PROVE  e.nth - f.nth > ReplayCapacity
  <2>1. replay.generation # f.gen
    BY <1>2, <1>6, LaterAgain
  <2>2. replay'.generation = Later(replay.generation, 1)
    BY <2>1 DEF Accepted
  <2>3. ~(k + 1 <= GenModulus - 1)
    <3> SUFFICES ASSUME k + 1 <= GenModulus - 1 PROVE FALSE
      OBVIOUS
    <3>1. replay'.generation = Later(f.gen, k + 1) /\ k + 1 \in 1 .. GenModulus - 1
      BY <1>1, <1>2, <1>6, <2>2, LaterAgain
    <3> QED
      BY <1>2, <3>1, LaterAgain
  <2> QED
    BY <1>1, <1>2, <1>3, <1>6, <2>3
<1> QED
  BY <1>4, <1>5, <1>6 DEF Placed, Dropped

-----------------------------------------------------------------------------
OnTheWay == In(delivered) \cup In(outbound) \cup In(mixing)

\* While the cache is left alone every packet keeps its place.
LEMMA PlacesKept ==
  ASSUME LineInv, UNCHANGED <<replay, fresh>>, OnTheWay' \subseteq OnTheWay
  PROVE  CacheInv' /\ \A e \in OnTheWay' : Placed(e)'
<1>1. CacheInv'
  BY DEF LineInv, CacheInv
<1>2. ASSUME NEW e \in OnTheWay' PROVE Placed(e)'
  <2>1. Placed(e)
    BY <1>2 DEF LineInv, OnTheWay
  <2> QED
    BY <2>1 DEF Placed, InCache, Dropped, Age
<1> QED
  BY <1>1, <1>2

LEMMA LineInvStays ==
  ASSUME LineInv, UNCHANGED <<delivered, outbound, mixing, replay, fresh>>, LineShape'
  PROVE  LineInv'
<1>1. OnTheWay' \subseteq OnTheWay
  BY DEF OnTheWay, In
<1>2. CacheInv' /\ \A e \in OnTheWay' : Placed(e)'
  BY <1>1, PlacesKept
<1>3. /\ In(delivered)' = In(delivered) /\ In(outbound)' = In(outbound)
      /\ In(mixing)' = In(mixing)
  BY DEF In
<1>4. InLine(delivered)' /\ InLine(outbound)'
  BY DEF LineInv, InLine
<1>5. Ahead(delivered, outbound)' /\ Ahead(delivered, mixing)' /\ Ahead(outbound, mixing)'
  BY <1>3 DEF LineInv, Ahead
<1> QED
  BY <1>2, <1>4, <1>5 DEF LineInv, OnTheWay

\* The bridge offers, the dispatcher takes, an end goes away.
LEMMA LineInvOffer ==
  ASSUME LineInv, NEW p \in MixPacket, Offer(p)
  PROVE  LineInv'
<1>1. UNCHANGED <<delivered, outbound, mixing, replay, fresh, at>> /\ offers' = offers + 1
  BY DEF Offer, loopVars
<1>2. offers \in Nat /\ inbound \in Seq([packet : MixPacket, n : Nat])
  BY DEF LineInv, LineShape
<1> DEFINE new == [packet |-> p, n |-> offers + 1]
<1>3. new \in [packet : MixPacket, n : Nat]
  BY <1>2
<1>4. inbound' = Append(inbound, new) \/ inbound' = inbound
  BY DEF Offer, TrySent
<1> HIDE DEF new
<1>5. inbound' \in Seq([packet : MixPacket, n : Nat])
  <2>1. CASE inbound' = Append(inbound, new)
    <3>1. Append(inbound, new) \in Seq([packet : MixPacket, n : Nat])
      BY <1>2, <1>3, AppendProperties
    <3> QED
      BY <2>1, <3>1
  <2> QED
    BY <1>2, <1>4, <2>1
<1>6. LineShape'
  BY <1>1, <1>2, <1>5 DEF LineInv, LineShape
<1> QED
  BY <1>1, <1>6, LineInvStays

LEMMA LineInvTakeOutbound ==
  ASSUME LineInv, TakeOutbound
  PROVE  LineInv'
<1> DEFINE h == Head(outbound)
<1>1. /\ outbound # << >> /\ delivered' = Append(delivered, h) /\ outbound' = Tail(outbound)
      /\ UNCHANGED <<mixing, at, replay, fresh, inbound, offers>>
  BY DEF TakeOutbound, loopVars
<1>2. delivered \in Seq(Flow) /\ outbound \in Seq(Flow)
  BY DEF LineInv, LineShape
<1>3. /\ In(outbound') \subseteq In(outbound) /\ h \in In(outbound) /\ h \in Flow
      /\ In(delivered') = In(delivered) \cup {h}
  BY <1>1, <1>2, InOfSeq
<1>4. delivered' \in Seq(Flow) /\ outbound' \in Seq(Flow)
  BY <1>1, <1>2, <1>3, AppendProperties, HeadTailProperties
<1>5. InLine(outbound') /\ \A e \in In(outbound') : Apart(h, e)
  BY <1>1, <1>2, TailInLine DEF LineInv
<1> HIDE DEF h
<1>6. InLine(delivered')
  <2>1. \A f \in In(delivered) : Apart(f, h)
    BY <1>3 DEF LineInv, Ahead
  <2> QED
    BY <1>1, <1>2, <1>3, <2>1, AppendInLine DEF LineInv
<1>7. /\ Ahead(delivered', outbound') /\ Ahead(delivered', mixing)
      /\ Ahead(outbound', mixing)
  BY <1>3, <1>5 DEF LineInv, Ahead
<1>8. OnTheWay' \subseteq OnTheWay
  BY <1>1, <1>3 DEF OnTheWay
<1>9. LineShape'
  BY <1>1, <1>4 DEF LineInv, LineShape
<1> QED
  BY <1>1, <1>5, <1>6, <1>7, <1>8, <1>9, PlacesKept DEF LineInv, OnTheWay, InLine, Ahead

LEMMA LineInvCloseEnd ==
  ASSUME LineInv, NEW e \in Ends, CloseEnd(e)
  PROVE  LineInv'
<1>1. /\ outbound' = << >> \/ outbound' = outbound
      /\ UNCHANGED <<delivered, mixing, at, replay, fresh, inbound, offers>>
  BY DEF CloseEnd, loopVars, histVars
<1>2. CASE outbound' = outbound
  <2>1. LineShape'
    BY <1>1, <1>2 DEF LineInv, LineShape
  <2> QED
    BY <1>1, <1>2, <2>1, LineInvStays
<1>3. CASE outbound' = << >>
  <2>1. Len(outbound') = 0 /\ outbound' \in Seq(Flow)
    BY <1>3, EmptySeq
  <2>2. In(outbound') = {} /\ InLine(outbound')
    BY <2>1 DEF In, InLine
  <2>3. OnTheWay' \subseteq OnTheWay
    BY <1>1, <2>2 DEF OnTheWay
  <2>4. LineShape'
    BY <1>1, <2>1 DEF LineInv, LineShape
  <2>5. Ahead(delivered, outbound') /\ Ahead(outbound', mixing)
    BY <2>2 DEF Ahead
  <2> QED
    BY <1>1, <2>2, <2>3, <2>4, <2>5, PlacesKept DEF LineInv, OnTheWay, InLine, Ahead
<1> QED
  BY <1>1, <1>2, <1>3

\* The delay has elapsed: the packet goes to the queue, or nowhere.
LEMMA LineInvForward ==
  ASSUME LineInv, Forward
  PROVE  LineInv'
<1>1. /\ at = "mixing" /\ mixing' = << >> /\ at' \in {"select", "stopped"}
      /\ outbound' = Append(outbound, mixing[1]) \/ outbound' = outbound
      /\ UNCHANGED <<delivered, replay, fresh, inbound, offers>>
  BY DEF Forward, TrySent
<1>2. delivered \in Seq(Flow) /\ outbound \in Seq(Flow) /\ mixing \in Seq(Flow) /\ Len(mixing) = 1
  BY <1>1 DEF LineInv, LineShape
<1>3. mixing[1] \in In(mixing) /\ mixing[1] \in Flow
  <2>1. 1 \in 1 .. Len(mixing)
    BY <1>2
  <2> QED
    BY <1>2, <2>1, ElementOfSeq DEF In
<1>4. Len(mixing') = 0 /\ mixing' \in Seq(Flow) /\ In(mixing') = {}
  BY <1>1, EmptySeq DEF In
<1>5. /\ outbound' \in Seq(Flow) /\ In(outbound') \subseteq In(outbound) \cup In(mixing)
      /\ InLine(outbound')
  <2>1. CASE outbound' = outbound
    BY <1>2, <2>1 DEF LineInv
  <2>2. CASE outbound' = Append(outbound, mixing[1])
    <3>1. outbound' \in Seq(Flow) /\ In(outbound') = In(outbound) \cup {mixing[1]}
      BY <1>2, <1>3, <2>2, AppendProperties, InOfSeq
    <3>2. \A f \in In(outbound) : Apart(f, mixing[1])
      BY <1>3 DEF LineInv, Ahead
    <3> QED
      BY <1>2, <1>3, <2>2, <3>1, <3>2, AppendInLine DEF LineInv
  <2> QED
    BY <1>1, <2>1, <2>2
<1>6. Ahead(delivered, outbound') /\ Ahead(delivered, mixing') /\ Ahead(outbound', mixing')
  BY <1>4, <1>5 DEF LineInv, Ahead
<1>7. OnTheWay' \subseteq OnTheWay
  BY <1>1, <1>4, <1>5 DEF OnTheWay
<1>8. LineShape'
  BY <1>1, <1>4, <1>5 DEF LineInv, LineShape
<1> QED
  BY <1>1, <1>5, <1>6, <1>7, <1>8, PlacesKept DEF LineInv, OnTheWay, InLine, Ahead

\* A packet the cache has not seen: recorded, and if it is a real one on its way.
LEMMA LineInvPeel ==
  ASSUME LineInv, PeelPacket
  PROVE  LineInv'
<1> DEFINE p == Head(inbound).packet
           new == [packet |-> p, n |-> Head(inbound).n, nth |-> fresh + 1,
                   gen |-> replay'.generation]
<1>1. /\ at = "select" /\ inbound # << >> /\ inbound' = Tail(inbound)
      /\ p \in Authentic /\ IsFresh(replay, p) /\ replay' = RecordTag(replay, p)
      /\ fresh' = fresh + 1
      /\ UNCHANGED <<delivered, outbound, offers>>
      /\ \/ at' = "mixing" /\ mixing' = <<new>>
         \/ at' = at /\ mixing' = mixing
  BY DEF PeelPacket, TakeInbound
<1>2. /\ delivered \in Seq(Flow) /\ outbound \in Seq(Flow) /\ mixing \in Seq(Flow)
      /\ Len(mixing) = 0 /\ CacheInv /\ fresh \in Nat
      /\ inbound \in Seq([packet : MixPacket, n : Nat])
  BY <1>1 DEF LineInv, LineShape, CacheInv
<1>3. /\ Head(inbound) \in [packet : MixPacket, n : Nat]
      /\ inbound' \in Seq([packet : MixPacket, n : Nat])
  BY <1>1, <1>2, HeadTailProperties
<1>4. p \in MixPacket /\ p \in Tag /\ Head(inbound).n \in Nat
  BY <1>3, ReplayAssumption
<1> HIDE DEF p
<1>5. CacheInv' /\ Accepted(p) /\ p \notin replay.seen
  BY <1>1, <1>2, <1>4, CacheInvAccept, AcceptKeeps
<1>6. replay'.generation \in Generation
  BY <1>5 DEF CacheInv, Good, ReplayCacheType
<1>7. new \in Flow /\ new.packet = p /\ new.nth = fresh + 1 /\ new.gen = replay'.generation
  BY <1>2, <1>4, <1>6 DEF Flow
<1> HIDE DEF new
<1>8. In(mixing) = {} /\ In(delivered) \subseteq Flow /\ In(outbound) \subseteq Flow
  BY <1>2, InOfSeq DEF In
<1>9. /\ mixing' \in Seq(Flow) /\ In(mixing') \subseteq {new}
      /\ Len(mixing') = IF at' = "mixing" THEN 1 ELSE 0
  <2>1. CASE mixing' = <<new>> /\ at' = "mixing"
    <3>1. mixing' \in Seq(Flow) /\ Len(mixing') = 1 /\ mixing'[1] = new
      BY <1>7, <2>1
    <3> QED
      BY <2>1, <3>1 DEF In
  <2>2. CASE mixing' = mixing /\ at' = at
    BY <1>1, <1>2, <1>8, <2>2
  <2> QED
    BY <1>1, <2>1, <2>2
<1>10. \A f \in In(delivered) \cup In(outbound) : Apart(f, new)
  <2>1. ASSUME NEW f \in In(delivered) \cup In(outbound) PROVE Apart(f, new)
    <3>1. f \in Flow /\ Placed(f)
      BY <1>8 DEF LineInv
    <3> QED
      BY <1>2, <1>5, <1>7, <3>1, NewApart
  <2> QED
    BY <2>1
<1>11. \A e \in OnTheWay' : Placed(e)'
  <2>2. ASSUME NEW e \in OnTheWay' PROVE Placed(e)'
    <3>1. e \in In(delivered) \cup In(outbound) \/ e = new
      BY <1>1, <1>9, <2>2 DEF OnTheWay
    <3>2. CASE e \in In(delivered) \cup In(outbound)
      <4>1. e \in Flow /\ Placed(e)
        BY <1>8, <3>2 DEF LineInv
      <4> QED
        BY <1>2, <1>5, <4>1, PlacedStays
    <3>3. CASE e = new
      BY <1>2, <1>5, <1>7, <3>3, NewPlaced
    <3> QED
      BY <3>1, <3>2, <3>3
  <2> QED
    BY <2>2
<1>12. Ahead(delivered, mixing') /\ Ahead(outbound, mixing')
  BY <1>9, <1>10 DEF Ahead
<1>13. LineShape'
  BY <1>1, <1>2, <1>3, <1>9 DEF LineInv, LineShape
<1> QED
  BY <1>1, <1>5, <1>11, <1>12, <1>13 DEF LineInv, OnTheWay, InLine, Ahead

LEMMA LineInvNext == LineInv /\ [MixNext]_mixVars => LineInv'
<1> SUFFICES ASSUME LineInv, [MixNext]_mixVars PROVE LineInv'
  OBVIOUS
<1>1. ASSUME UNCHANGED <<delivered, outbound, mixing, replay, fresh, offers>>,
             inbound' = inbound \/ (inbound # << >> /\ inbound' = Tail(inbound)),
             at' = "mixing" <=> at = "mixing"
      PROVE  LineInv'
  <2>1. inbound' \in Seq([packet : MixPacket, n : Nat])
    BY <1>1, HeadTailProperties DEF LineInv, LineShape
  <2>2. LineShape'
    BY <1>1, <2>1 DEF LineInv, LineShape
  <2> QED
    BY <1>1, <2>2, LineInvStays
<1>2. CASE RejectPacket \/ RejectReplay
  <2>1. /\ UNCHANGED <<delivered, outbound, mixing, replay, fresh, offers, at>>
        /\ inbound # << >> /\ inbound' = Tail(inbound)
    BY <1>2 DEF RejectPacket, RejectReplay, TakeInbound
  <2> QED
    BY <1>1, <2>1
<1>3. CASE HandleBegin \/ HandleEnd \/ EmitCover \/ EmitFails \/ LoopEnds
  <2>1. /\ UNCHANGED <<delivered, outbound, mixing, replay, fresh, offers, inbound>>
        /\ at \in {"select", "emitting"} /\ at' \in {"select", "emitting", "stopped"}
    BY <1>3 DEF HandleBegin, HandleEnd, EmitCover, EmitFails, LoopEnds, chanVars, histVars
  <2> QED
    BY <1>1, <2>1
<1>4. CASE ControllerStep \/ TakeCover \/ UNCHANGED mixVars
  <2>1. UNCHANGED <<delivered, outbound, mixing, replay, fresh, offers, inbound, at>>
    BY <1>4 DEF ControllerStep, CallBegin, CallEnd, CallReturns, TakeCover, mixVars, chanVars,
                loopVars, histVars
  <2> QED
    BY <1>1, <2>1
<1> QED
  BY <1>2, <1>3, <1>4, LineInvOffer, LineInvTakeOutbound, LineInvCloseEnd, LineInvForward,
     LineInvPeel DEF MixNext, RelayStep

\* A packet is sent on again only when the cache had to forget it: more packets than
\* the cache holds were accepted since, or it had dropped its generation.  For every
\* capacity and pressure threshold, in both ways of making room, and although the
\* counter of generations wraps.
THEOREM SentOnceWhileRemembered == MixSpec => []ForwardedOnceWhileRemembered
<1> QED
  BY LineInvInit, LineInvNext, LineInvEnough, PTL DEF MixSpec

-----------------------------------------------------------------------------
(***************************************************************************)
(* The start of the node.                                                  *)
(***************************************************************************)
NodeShape ==
  /\ conf \in Settings \cup {Torn} /\ copy \in Settings
  /\ node = [at |-> node.at, conf |-> node.conf, bytes |-> node.bytes, kem |-> node.kem,
             run |-> node.run]
  /\ seeds = [holds |-> seeds.holds, private |-> seeds.private]
  /\ keyring = [open |-> keyring.open, entry |-> keyring.entry]
  /\ node.at \in {"down", "loaded", "seeds", "conf", "kem", "up"}
  /\ node.at # "down" => node.conf \in Settings /\ conf # Torn

\* Until the process changes the seeds in its TOML, and again once it has written it
\* back, they are those of the TOML on disk, which no edit touches.
SameInline == node.at \in {"loaded", "kem", "up"} => conf.inline = node.conf.inline

SeedsInPlace == node.at = "up" => OnDisk = node.kem

\* Since the last run nothing was drawn: what its identity came from still resolves.
StillResolves ==
  steady /\ lastKem # Unset =>
    /\ node.at \in {"down", "loaded", "kem", "up"}
    /\ conf # Torn /\ ResolveKemSeeds(conf) = lastKem

NodeInv == NodeShape /\ SameInline /\ SeedsInPlace /\ StillResolves


LEMMA EditKeeps ==
  ASSUME NEW c \in Settings, NEW e \in Edits
  PROVE  /\ [c EXCEPT ![e.field] = e.to] \in Settings
         /\ [c EXCEPT ![e.field] = e.to].inline = c.inline
<1> DEFINE d == [c EXCEPT ![e.field] = e.to]
<1>1. d.inline = c.inline
  BY NodeStartAssumption DEF Settings, Flags, Counts, Options, Words
<1>2. CASE e.field \in Flags /\ e.to \in BOOLEAN
  BY <1>2 DEF Settings, Flags
<1>3. CASE e.field \in Counts /\ e.to \in Nat
  BY <1>3 DEF Settings, Counts
<1>4. CASE e.field \in Options /\ e.to \in Nat \cup {Unset}
  BY <1>4 DEF Settings, Options
<1>5. CASE e.field \in Words /\ e.to \in STRING \cup {Unset}
  BY <1>5 DEF Settings, Words
<1> QED  BY <1>1, <1>2, <1>3, <1>4, <1>5, NodeStartAssumption

LEMMA InlineKeeps ==
  ASSUME NEW c \in Settings, NEW k \in Key \cup {Unset}
  PROVE  [c EXCEPT !.inline = k] \in Settings
BY DEF Settings

\* What the seeds of a TOML resolve to depends on its inline section alone.
LEMMA SameSeeds ==
  ASSUME NEW c, NEW d, c.inline = d.inline
  PROVE  ResolveKemSeeds(c) = ResolveKemSeeds(d)
BY DEF ResolveKemSeeds

\* When they resolve, they are the seeds on disk.
LEMMA ResolvesToDisk ==
  ASSUME conf # Torn, ResolveKemSeeds(conf) # Unset
  PROVE  OnDisk = ResolveKemSeeds(conf)
BY DEF ResolveKemSeeds, OnDisk, Unprotect

LEMMA NodeInvInit == NodeInit => NodeInv
BY NodeStartAssumption
   DEF NodeInit, NodeInv, NodeShape, SameInline, SeedsInPlace, StillResolves, Down, NoSeeds

\* The process.
LEMMA NodeInvLoad == NodeInv /\ Load => NodeInv'
<1> SUFFICES ASSUME NodeInv, Load PROVE NodeInv'
  OBVIOUS
<1>1. /\ node' = [at |-> "loaded", conf |-> conf, bytes |-> Unset, kem |-> Unset, run |-> Unset]
      /\ conf \in Settings /\ conf # Torn
  BY DEF NodeInv, NodeShape, Load, Down
<1>2. NodeShape' /\ SameInline' /\ SeedsInPlace'
  BY <1>1 DEF NodeInv, NodeShape, SameInline, SeedsInPlace, Load
<1>3. StillResolves'
  BY <1>1 DEF NodeInv, StillResolves, Load, ResolveKemSeeds, Unprotect
<1> QED  BY <1>2, <1>3 DEF NodeInv

LEMMA NodeInvKeepSeeds == NodeInv /\ KeepSeeds => NodeInv'
<1> SUFFICES ASSUME NodeInv, KeepSeeds PROVE NodeInv'
  OBVIOUS
<1>1. node' = [at |-> "kem", conf |-> node.conf, bytes |-> node.bytes, kem |-> node.kem,
               run |-> node.run]
  BY DEF NodeInv, NodeShape, KeepSeeds
<1>2. NodeShape' /\ SameInline' /\ SeedsInPlace'
  BY <1>1 DEF NodeInv, NodeShape, SameInline, SeedsInPlace, KeepSeeds
<1>3. StillResolves'
  BY <1>1 DEF NodeInv, StillResolves, KeepSeeds, ResolveKemSeeds, Unprotect
<1> QED  BY <1>2, <1>3 DEF NodeInv

\* Seeds are drawn when the old ones do not resolve, which since a run they did.
LEMMA DrawnMeansLost ==
  ASSUME NodeInv, node.at = "loaded", NeedsSeeds(node.conf)
  PROVE  ~(steady /\ lastKem # Unset)
<1>1. ResolveKemSeeds(conf) = ResolveKemSeeds(node.conf)
  BY SameSeeds DEF NodeInv, SameInline
<1> QED  BY <1>1 DEF NodeInv, StillResolves, NeedsSeeds

LEMMA NodeInvGenerateInline == NodeInv /\ GenerateInline => NodeInv'
<1> SUFFICES ASSUME NodeInv, GenerateInline PROVE NodeInv'
  OBVIOUS
<1>1. PICK k \in DrawKem : node' = [node EXCEPT !.at = "conf", !.conf.inline = k]
  BY DEF GenerateInline
<1>2. k \in Key
  BY DEF DrawKem
<1> DEFINE c == [node.conf EXCEPT !.inline = k]
<1>3. node' = [at |-> "conf", conf |-> c, bytes |-> node.bytes, kem |-> node.kem,
               run |-> node.run]
  BY <1>1 DEF NodeInv, NodeShape
<1>4. c \in Settings
  BY <1>2, InlineKeeps DEF NodeInv, NodeShape, GenerateInline
<1>5. ~(steady /\ lastKem # Unset)
  BY DrawnMeansLost DEF GenerateInline
<1> HIDE DEF c
<1> QED
  BY <1>3, <1>4, <1>5
     DEF NodeInv, NodeShape, SameInline, SeedsInPlace, StillResolves, GenerateInline

LEMMA NodeInvGenerateProtected == NodeInv /\ GenerateProtected => NodeInv'
<1> SUFFICES ASSUME NodeInv, GenerateProtected PROVE NodeInv'
  OBVIOUS
<1>1. PICK b : node' = [node EXCEPT !.at = "seeds", !.bytes = b]
  BY DEF GenerateProtected
<1>2. node' = [at |-> "seeds", conf |-> node.conf, bytes |-> b, kem |-> node.kem,
               run |-> node.run]
  BY <1>1 DEF NodeInv, NodeShape
<1>3. ~(steady /\ lastKem # Unset)
  BY DrawnMeansLost DEF GenerateProtected
<1>4. keyring' = [open |-> keyring'.open, entry |-> keyring'.entry]
  BY DEF NodeInv, NodeShape, GenerateProtected
<1> QED
  BY <1>2, <1>3, <1>4
     DEF NodeInv, NodeShape, SameInline, SeedsInPlace, StillResolves, GenerateProtected

LEMMA NodeInvPersistSeeds == NodeInv /\ PersistSeeds => NodeInv'
<1> SUFFICES ASSUME NodeInv, PersistSeeds PROVE NodeInv'
  OBVIOUS
<1> DEFINE c == [node.conf EXCEPT !.inline = Unset]
<1>1. node' = [at |-> "conf", conf |-> c, bytes |-> Unset, kem |-> node.kem, run |-> node.run]
  BY DEF NodeInv, NodeShape, PersistSeeds
<1>2. c \in Settings
  BY InlineKeeps DEF NodeInv, NodeShape, PersistSeeds
<1>3. ~(steady /\ lastKem # Unset)
  BY DEF NodeInv, StillResolves, PersistSeeds
<1>4. /\ seeds' = [holds |-> seeds'.holds, private |-> seeds'.private]
      /\ UNCHANGED <<conf, keyring, copy, lastKem, steady>> /\ node.at = "seeds"
  BY DEF PersistSeeds, WriteRestricted
<1> HIDE DEF c
<1> QED
  BY <1>1, <1>2, <1>3, <1>4
     DEF NodeInv, NodeShape, SameInline, SeedsInPlace, StillResolves

LEMMA NodeInvRewriteConf == NodeInv /\ RewriteConf => NodeInv'
<1> SUFFICES ASSUME NodeInv, RewriteConf PROVE NodeInv'
  OBVIOUS
<1>1. /\ node' = [at |-> "kem", conf |-> node.conf, bytes |-> node.bytes, kem |-> node.kem,
                  run |-> node.run]
      /\ conf' = node.conf /\ node.conf \in Settings /\ node.conf # Torn
  BY NodeStartAssumption DEF NodeInv, NodeShape, RewriteConf
<1>2. ~(steady /\ lastKem # Unset)
  BY DEF NodeInv, StillResolves, RewriteConf
<1> QED
  BY <1>1, <1>2
     DEF NodeInv, NodeShape, SameInline, SeedsInPlace, StillResolves, RewriteConf

\* into_runtime reads the seeds that load_or_init_kem left on disk.
LEMMA NodeInvGoUp == NodeInv /\ GoUp => NodeInv'
<1> SUFFICES ASSUME NodeInv, GoUp PROVE NodeInv'
  OBVIOUS
<1> DEFINE k == ResolveKemSeeds(node.conf)
<1>1. node' = [at |-> "up", conf |-> node.conf, bytes |-> node.bytes, kem |-> k,
               run |-> Runtime(node.conf)]
  BY DEF NodeInv, NodeShape, GoUp
<1>2. conf # Torn /\ ResolveKemSeeds(conf) = k /\ k # Unset
  BY SameSeeds DEF NodeInv, NodeShape, SameInline, GoUp, Startable
<1>3. OnDisk = k
  BY <1>2, ResolvesToDisk
<1>4. OnDisk' = OnDisk /\ ResolveKemSeeds(conf)' = ResolveKemSeeds(conf)
  BY DEF OnDisk, GoUp, ResolveKemSeeds, Unprotect
<1> HIDE DEF k
<1>5. NodeShape' /\ SameInline'
  BY <1>1, <1>2 DEF NodeInv, NodeShape, SameInline, GoUp
<1>6. SeedsInPlace'
  BY <1>1, <1>3, <1>4 DEF SeedsInPlace
<1>7. StillResolves'
  BY <1>1, <1>2, <1>4 DEF StillResolves, GoUp, k
<1> QED  BY <1>5, <1>6, <1>7 DEF NodeInv

LEMMA NodeInvGoesDown ==
  ASSUME NodeInv, node' = Down, UNCHANGED <<conf, seeds, keyring, copy, lastKem, steady>>
  PROVE  NodeInv'
<1>1. StillResolves'
  BY DEF NodeInv, StillResolves, Down, ResolveKemSeeds, Unprotect
<1> QED
  BY <1>1 DEF NodeInv, NodeShape, SameInline, SeedsInPlace, Down

LEMMA NodeInvDiesInWrite == NodeInv /\ DiesInWrite => NodeInv'
BY DEF DiesInWrite, WriteRestricted, NodeInv, NodeShape, SameInline, SeedsInPlace, StillResolves, Down

\* The operator and the machine.
LEMMA NodeInvEdits == NodeInv /\ (Edit \/ EditInLab) => NodeInv'
<1> SUFFICES ASSUME NodeInv, Edit \/ EditInLab PROVE NodeInv'
  OBVIOUS
<1>1. PICK e \in Edits : conf' = [conf EXCEPT ![e.field] = e.to] /\ copy' = conf'
  BY DEF Edit, EditInLab
<1>2. conf # Torn /\ conf \in Settings /\ UNCHANGED <<seeds, keyring, node, lastKem, steady>>
  BY DEF Edit, EditInLab, NodeInv, NodeShape
<1>3. conf' \in Settings /\ conf'.inline = conf.inline /\ conf' # Torn
  BY <1>1, <1>2, EditKeeps, NodeStartAssumption
<1>4. OnDisk' = OnDisk /\ ResolveKemSeeds(conf)' = ResolveKemSeeds(conf)
  BY <1>2, <1>3 DEF OnDisk, ResolveKemSeeds, Unprotect
<1>5. NodeShape' /\ SameInline'
  BY <1>1, <1>2, <1>3 DEF NodeInv, NodeShape, SameInline
<1>6. SeedsInPlace' /\ StillResolves'
  BY <1>2, <1>3, <1>4 DEF NodeInv, SeedsInPlace, StillResolves
<1> QED  BY <1>5, <1>6 DEF NodeInv

LEMMA NodeInvRepair == NodeInv /\ Repair => NodeInv'
BY NodeStartAssumption
   DEF Repair, NodeInv, NodeShape, SameInline, SeedsInPlace, StillResolves

\* Neither the lock of the keychain nor the mode of the file changes what they hold; and
\* what resolved while the one was closed or the other too open needed neither.
LEMMA NodeInvTurns == NodeInv /\ (KeyringTurns \/ ModeTurns) => NodeInv'
<1> SUFFICES ASSUME NodeInv, KeyringTurns \/ ModeTurns PROVE NodeInv'
  OBVIOUS
<1>1. /\ UNCHANGED <<conf, node, copy, lastKem>>
      /\ keyring'.entry = keyring.entry /\ seeds'.holds = seeds.holds
  BY DEF NodeInv, NodeShape, KeyringTurns, ModeTurns
<1>2. NodeShape' /\ SameInline' /\ SeedsInPlace'
  <2>1. /\ keyring' = [open |-> keyring'.open, entry |-> keyring'.entry]
        /\ seeds' = [holds |-> seeds'.holds, private |-> seeds'.private]
    BY DEF NodeInv, NodeShape, KeyringTurns, ModeTurns
  <2> QED
    BY <1>1, <2>1 DEF NodeInv, NodeShape, SameInline, SeedsInPlace, OnDisk
<1>3. StillResolves'
  BY <1>1 DEF NodeInv, StillResolves, KeyringTurns, ModeTurns, ResolveKemSeeds, Unprotect
<1> QED  BY <1>2, <1>3 DEF NodeInv

LEMMA NodeInvNext == NodeInv /\ [NodeNext]_nodeVars => NodeInv'
<1> SUFFICES ASSUME NodeInv, [NodeNext]_nodeVars PROVE NodeInv'
  OBVIOUS
<1>1. CASE Starts
  <2>1. CASE StartFails
    BY <2>1, NodeInvGoesDown DEF StartFails
  <2> QED
    BY <1>1, <2>1, NodeInvLoad, NodeInvKeepSeeds, NodeInvGenerateInline,
       NodeInvGenerateProtected, NodeInvPersistSeeds, NodeInvRewriteConf, NodeInvGoUp
       DEF Starts
<1>2. CASE Stop
  BY <1>2, NodeInvGoesDown DEF Stop
<1>3. CASE UNCHANGED nodeVars
  BY <1>3 DEF nodeVars, NodeInv, NodeShape, SameInline, SeedsInPlace, StillResolves,
              OnDisk, ResolveKemSeeds, Unprotect
<1> QED
  BY <1>1, <1>2, <1>3, NodeInvDiesInWrite, NodeInvEdits, NodeInvRepair, NodeInvTurns
     DEF NodeNext

LEMMA NodeInvEnough == NodeInv => Recoverable
BY DEF NodeInv, NodeShape, SeedsInPlace, Recoverable

\* A node is started with what it ran with last.
LEMMA NodeKeepsIdentity ==
  ASSUME NodeInv, [NodeNext]_nodeVars,
         node.at # "up", node'.at = "up", steady, lastKem # Unset
  PROVE  lastKem' = lastKem
<1>1. GoUp
  <2>1. ~UNCHANGED nodeVars
    BY DEF nodeVars
  <2>2. ~(Stop \/ DiesInWrite \/ StartFails)
    <3>1. Down.at # "up"
      BY DEF Down
    <3> QED  BY <3>1 DEF Stop, DiesInWrite, StartFails
  <2>3. ~(Edit \/ EditInLab \/ Repair \/ KeyringTurns \/ ModeTurns)
    BY DEF Edit, EditInLab, Repair, KeyringTurns, ModeTurns
  <2>4. ~(Load \/ KeepSeeds \/ RewriteConf)
    BY DEF NodeInv, NodeShape, Load, KeepSeeds, RewriteConf, Down
  <2>5. ~(GenerateInline \/ PersistSeeds)
    BY DEF NodeInv, NodeShape, GenerateInline, PersistSeeds
  <2>6. ~GenerateProtected
    <3>1. SUFFICES ASSUME NEW b, node' = [node EXCEPT !.at = "seeds", !.bytes = b]
                   PROVE  FALSE
      BY DEF GenerateProtected
    <3> QED  BY <3>1 DEF NodeInv, NodeShape
  <2> QED  BY <2>1, <2>2, <2>3, <2>4, <2>5, <2>6 DEF NodeNext, Starts
<1>2. ResolveKemSeeds(node.conf) = ResolveKemSeeds(conf)
  BY <1>1, SameSeeds DEF NodeInv, SameInline, GoUp
<1> QED  BY <1>1, <1>2 DEF GoUp, NodeInv, StillResolves

NodeSpec == NodeInit /\ [][NodeNext]_nodeVars

\* However a start was cut short and however the TOML was edited, what a running node
\* peels with is what its files and the keychain hold (load_or_init_kem, into_runtime).
THEOREM RunningNodeRecoverable == NodeSpec => []Recoverable
BY NodeInvInit, NodeInvNext, NodeInvEnough, PTL DEF NodeSpec

\* The seeds that load_or_init_kem finds are never replaced: while the keychain answers
\* and kem.seeds stays private, a node comes up as the relay it was.
THEOREM RelayIdentityKept == NodeSpec => IdentityKept
<1>1. /\ NodeInv /\ [NodeNext]_nodeVars
      => [node.at # "up" /\ node'.at = "up" /\ steady /\ lastKem # Unset
            => lastKem' = lastKem]_nodeVars
  BY NodeKeepsIdentity
<1> QED  BY <1>1, NodeInvInit, NodeInvNext, PTL DEF NodeSpec, IdentityKept
=============================================================================
