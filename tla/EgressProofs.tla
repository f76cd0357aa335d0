----------------------------- MODULE EgressProofs -----------------------------
(***************************************************************************)
(* Proofs that a peer's packets arrive in the order the relay sent them,   *)
(* none twice, and that every packet is in flight, forwarded or counted as *)
(* dropped, for every peer table, every size of the channels and queues    *)
(* and every weight, however connections break and writes are repeated.    *)
(***************************************************************************)
EXTENDS Egress, FunctionTheorems, FiniteSetTheorems, SequenceTheorems,
        WellFoundedInduction, TLAPS

Packet == [hop : Hop, number : Nat]
Slot == [live : BOOLEAN, queue : Seq(Packet), weight : Nat, credits : Int]

\* The sending half of a slot lives as long as the dispatcher.
AllLive(table) == \A i \in DOMAIN table : table[i].live

EgressType ==
  /\ peers \subseteq Hop
  /\ slots \in Seq(Slot) /\ AllLive(slots) /\ cursor \in Nat
  /\ place \in [peers -> DOMAIN slots]
  /\ outbound \in Seq(Packet)
  /\ sent \in [Hop -> Nat]
  /\ arrived \in [peers -> Nat]

Forwarding == {"locking", "opening", "writing", "reopening", "rewriting"}

\* A task holds one packet while it works on it, and none otherwise.
HoldsOne ==
  IF drain \in Forwarding
  THEN \E x \in Packet : holding = << x >> /\ x.hop \in peers
  ELSE holding = << >>

RoutesOne ==
  CASE router = "exiting" -> \E x \in Packet : routing = << x >> /\ x.hop \notin peers
    [] router = "putting" -> \E x \in Packet : routing = << x >> /\ x.hop \in peers
    [] OTHER -> routing = << >>

\* A queue holds packets of the peers it was made for.
QueuesSorted ==
  \A i \in DOMAIN slots : \A x \in Range(slots[i].queue) : x.hop \in peers /\ place[x.hop] = i

Rising(p, q) ==
  \A j, k \in DOMAIN q :
    j < k /\ q[j].hop = p /\ q[k].hop = p => q[j].number < q[k].number

Before(p, S, T) ==
  \A x \in S, y \in T : x.hop = p /\ y.hop = p => x.number < y.number

QueueOf(p) == slots[place[p]].queue

\* Between the relay and the peer: all numbers, from stage to stage, go up.
InOrder(p) ==
  LET H == Range(holding)
      Q == Range(QueueOf(p))
      R == Range(routing)
      O == Range(outbound)
  IN  /\ Rising(p, QueueOf(p)) /\ Rising(p, outbound)
      /\ Before(p, H, Q \cup R \cup O) /\ Before(p, Q, R \cup O) /\ Before(p, R, O)
      /\ \A x \in H \cup Q \cup R \cup O :
           x.hop = p => arrived[p] < x.number /\ x.number <= sent[p]
      /\ arrived[p] <= sent[p]

EgressInv ==
  /\ EgressType /\ HoldsOne /\ RoutesOne /\ QueuesSorted
  /\ \A p \in peers : InOrder(p)

-----------------------------------------------------------------------------
\* Sequences, by what they hold.
LEMMA RangeParts ==
  ASSUME NEW S, NEW q \in Seq(S)
  PROVE  /\ Range(q) \subseteq S
         /\ q = << >> => Range(q) = {}
         /\ q # << >> => /\ Head(q) \in S /\ Tail(q) \in Seq(S)
                         /\ Range(q) = {Head(q)} \cup Range(Tail(q))
         /\ \A x \in S : Append(q, x) \in Seq(S) /\ Range(Append(q, x)) = Range(q) \cup {x}
<1>1. Len(q) \in Nat /\ DOMAIN q = 1 .. Len(q) /\ \A i \in 1 .. Len(q) : q[i] \in S
  BY LenProperties, ElementOfSeq
<1>2. Range(q) \subseteq S /\ (q = << >> => Range(q) = {})
  BY <1>1 DEF Range
<1>3. ASSUME q # << >>
      PROVE  Head(q) \in S /\ Tail(q) \in Seq(S) /\ Range(q) = {Head(q)} \cup Range(Tail(q))
  <2>1. /\ Head(q) = q[1] /\ Tail(q) \in Seq(S) /\ Len(Tail(q)) = Len(q) - 1 /\ Len(q) # 0
        /\ \A i \in 1 .. Len(Tail(q)) : Tail(q)[i] = q[i + 1]
    BY <1>3, HeadTailProperties, EmptySeq
  <2>2. DOMAIN Tail(q) = 1 .. Len(q) - 1
    BY <2>1, LenProperties
  <2>3. Range(q) \subseteq {Head(q)} \cup Range(Tail(q))
    <3> SUFFICES ASSUME NEW i \in 1 .. Len(q), i # 1 PROVE q[i] \in Range(Tail(q))
      BY <1>1, <2>1 DEF Range
    <3>1. i - 1 \in 1 .. Len(q) - 1 /\ Tail(q)[i - 1] = q[i]
      BY <1>1, <2>1
    <3> QED
      BY <2>2, <3>1 DEF Range
  <2>4. Range(Tail(q)) \subseteq Range(q)
    <3> SUFFICES ASSUME NEW i \in 1 .. Len(q) - 1 PROVE Tail(q)[i] \in Range(q)
      BY <2>2 DEF Range
    <3>1. i + 1 \in 1 .. Len(q) /\ Tail(q)[i] = q[i + 1]
      BY <1>1, <2>1
    <3> QED
      BY <1>1, <3>1 DEF Range
  <2>5. Head(q) \in Range(q) /\ Head(q) \in S
    BY <1>1, <2>1 DEF Range
  <2> QED
    BY <2>1, <2>3, <2>4, <2>5
<1>4. ASSUME NEW x \in S
      PROVE  Append(q, x) \in Seq(S) /\ Range(Append(q, x)) = Range(q) \cup {x}
  <2>1. /\ Append(q, x) \in Seq(S) /\ Len(Append(q, x)) = Len(q) + 1
        /\ \A i \in 1 .. Len(q) : Append(q, x)[i] = q[i]
        /\ Append(q, x)[Len(q) + 1] = x
    BY AppendProperties
  <2>2. DOMAIN Append(q, x) = 1 .. Len(q) + 1
    BY <2>1, LenProperties
  <2>3. 1 .. Len(q) + 1 = 1 .. Len(q) \cup {Len(q) + 1}
    BY <1>1
  <2> QED
    BY <1>1, <2>1, <2>2, <2>3 DEF Range
<1> QED
  BY <1>2, <1>3, <1>4

LEMMA RangeOfOne == ASSUME NEW x PROVE Range(<< x >>) = {x}
BY DEF Range

LEMMA RangeOfNone == Range(<< >>) = {}
BY DEF Range

\* A queue that rises goes on to rise, at its head, its tail and its end.
LEMMA RisingParts ==
  ASSUME NEW q \in Seq(Packet), NEW p, Rising(p, q)
  PROVE  /\ q # << >> => /\ Rising(p, Tail(q))
                         /\ Before(p, {Head(q)}, Range(Tail(q)))
         /\ \A x \in Packet : Before(p, Range(q), {x}) => Rising(p, Append(q, x))
<1>1. Len(q) \in Nat /\ DOMAIN q = 1 .. Len(q)
  BY LenProperties
<1>2. ASSUME q # << >>
      PROVE  Rising(p, Tail(q)) /\ Before(p, {Head(q)}, Range(Tail(q)))
  <2>1. /\ Head(q) = q[1] /\ Tail(q) \in Seq(Packet) /\ Len(Tail(q)) = Len(q) - 1 /\ Len(q) # 0
        /\ \A i \in 1 .. Len(Tail(q)) : Tail(q)[i] = q[i + 1]
    BY <1>2, HeadTailProperties, EmptySeq
  <2>2. DOMAIN Tail(q) = 1 .. Len(q) - 1
    BY <2>1, LenProperties
  <2>3. \A i \in DOMAIN Tail(q) : i \in Nat /\ i + 1 \in DOMAIN q /\ 1 < i + 1 /\ Tail(q)[i] = q[i + 1]
    BY <1>1, <2>1, <2>2
  <2>4. Rising(p, Tail(q))
    <3> SUFFICES ASSUME NEW j \in DOMAIN Tail(q), NEW k \in DOMAIN Tail(q), j < k,
                        Tail(q)[j].hop = p, Tail(q)[k].hop = p
                 PROVE  Tail(q)[j].number < Tail(q)[k].number
      BY DEF Rising
    <3>1. j + 1 < k + 1
      BY <2>3
    <3> QED
      BY <2>3, <3>1 DEF Rising
  <2>5. 1 \in DOMAIN q
    BY <1>1, <2>1
  <2> QED
    BY <2>1, <2>3, <2>4, <2>5 DEF Rising, Before, Range
<1>3. ASSUME NEW x \in Packet, Before(p, Range(q), {x})
      PROVE  Rising(p, Append(q, x))
  <2>1. /\ Len(Append(q, x)) = Len(q) + 1 /\ Append(q, x) \in Seq(Packet)
        /\ \A i \in 1 .. Len(q) : Append(q, x)[i] = q[i]
        /\ Append(q, x)[Len(q) + 1] = x
    BY AppendProperties
  <2>2. DOMAIN Append(q, x) = 1 .. Len(q) + 1
    BY <2>1, LenProperties
  <2> SUFFICES ASSUME NEW j \in 1 .. Len(q) + 1, NEW k \in 1 .. Len(q) + 1, j < k,
                      Append(q, x)[j].hop = p, Append(q, x)[k].hop = p
               PROVE  Append(q, x)[j].number < Append(q, x)[k].number
    BY <2>2 DEF Rising
  <2>3. j \in DOMAIN q /\ Append(q, x)[j] = q[j]
    BY <1>1, <2>1
  <2>4. CASE k = Len(q) + 1
    BY <1>3, <2>1, <2>3, <2>4 DEF Before, Range
  <2>5. CASE k # Len(q) + 1
    <3>1. k \in DOMAIN q /\ Append(q, x)[k] = q[k]
      BY <1>1, <2>1, <2>5
    <3> QED
      BY <2>3, <3>1 DEF Rising
  <2> QED
    BY <2>4, <2>5
<1> QED
  BY <1>2, <1>3

\* Two queues, one behind the other.
LEMMA RisingConcat ==
  ASSUME NEW q \in Seq(Packet), NEW r \in Seq(Packet), NEW p,
         Rising(p, q), Rising(p, r), Before(p, Range(q), Range(r))
  PROVE  /\ q \o r \in Seq(Packet)
         /\ Rising(p, q \o r)
         /\ Range(q \o r) = Range(q) \cup Range(r)
<1>1. /\ Len(q) \in Nat /\ DOMAIN q = 1 .. Len(q)
      /\ Len(r) \in Nat /\ DOMAIN r = 1 .. Len(r)
  BY LenProperties
<1>2. /\ q \o r \in Seq(Packet) /\ Len(q \o r) = Len(q) + Len(r)
      /\ \A i \in 1 .. Len(q) + Len(r) :
           (q \o r)[i] = IF i <= Len(q) THEN q[i] ELSE r[i - Len(q)]
  BY ConcatProperties
<1>3. DOMAIN (q \o r) = 1 .. Len(q) + Len(r)
  BY <1>2, LenProperties
<1> DEFINE s == q \o r
<1>4. \A i \in DOMAIN s :
        \/ i \in DOMAIN q /\ s[i] = q[i]
        \/ i - Len(q) \in DOMAIN r /\ s[i] = r[i - Len(q)] /\ i > Len(q)
  BY <1>1, <1>2, <1>3
<1>5. Rising(p, s)
  <2> HIDE DEF s
  <2> SUFFICES ASSUME NEW j \in DOMAIN s, NEW k \in DOMAIN s, j < k, s[j].hop = p, s[k].hop = p
               PROVE  s[j].number < s[k].number
    BY DEF Rising
  <2>1. j \in Nat /\ k \in Nat
    BY <1>1, <1>3 DEF s
  <2>2. CASE j \in DOMAIN q /\ s[j] = q[j] /\ k \in DOMAIN q /\ s[k] = q[k]
    BY <2>2 DEF Rising
  <2>3. CASE j \in DOMAIN q /\ s[j] = q[j] /\ k - Len(q) \in DOMAIN r /\ s[k] = r[k - Len(q)]
    BY <2>3 DEF Before, Range
  <2>4. CASE j - Len(q) \in DOMAIN r /\ s[j] = r[j - Len(q)]
             /\ k - Len(q) \in DOMAIN r /\ s[k] = r[k - Len(q)]
    <3>1. j - Len(q) < k - Len(q)
      BY <1>1, <2>1
    <3> QED
      BY <2>4, <3>1 DEF Rising
  <2>5. ~ (j > Len(q) /\ k \in DOMAIN q)
    BY <1>1, <2>1
  <2> QED
    BY <1>4, <2>2, <2>3, <2>4, <2>5
<1>6. Range(s) = Range(q) \cup Range(r)
  <2>1. Range(s) \subseteq Range(q) \cup Range(r)
    BY <1>4 DEF Range
  <2>2. ASSUME NEW i \in DOMAIN q PROVE q[i] \in Range(s)
    <3>1. i \in DOMAIN s /\ s[i] = q[i]
      BY <1>1, <1>2, <1>3
    <3> QED
      BY <3>1 DEF Range
  <2>3. ASSUME NEW i \in DOMAIN r PROVE r[i] \in Range(s)
    <3>1. i + Len(q) \in DOMAIN s /\ s[i + Len(q)] = r[i]
      BY <1>1, <1>2, <1>3
    <3> HIDE DEF s
    <3> QED
      BY <3>1 DEF Range
  <2> QED
    BY <2>1, <2>2, <2>3 DEF Range
<1> QED
  BY <1>2, <1>5, <1>6

-----------------------------------------------------------------------------
(***************************************************************************)
(* What fair_wfq_take_one does to the queues, whatever weights and credits *)
(* are: it takes the head of one, or finds every queue empty.              *)
(***************************************************************************)
LEMMA LeastOfNaturals ==
  ASSUME NEW S, S \subseteq Nat, S # {}
  PROVE  FQ!Min(S) \in S
<1>1. PICK x \in S : \A y \in S : ~ << y, x >> \in OpToRel(<, Nat)
  BY NatLessThanWellFounded, WFMin
<1>2. ASSUME NEW y \in S PROVE x =< y
  <2>1. << y, x >> \in Nat \X Nat /\ << y, x >>[1] = y /\ << y, x >>[2] = x
    OBVIOUS
  <2>2. << y, x >> \in OpToRel(<, Nat)
        <=> << y, x >> \in Nat \X Nat /\ << y, x >>[1] < << y, x >>[2]
    BY Zenon DEF OpToRel
  <2>3. ~ y < x
    BY <1>1, <2>1, <2>2, Zenon
  <2> QED
    BY <2>3
<1> QED
  BY <1>2 DEF FQ!Min

SameQueues(old, new) == \A i \in DOMAIN old : new[i].queue = old[i].queue

HeadTaken(old, new, i) ==
  \A j \in DOMAIN old : new[j].queue = IF j = i THEN Tail(old[j].queue) ELSE old[j].queue

\* The changes the queue's operators make to a slot.
LEMMA CreditsChange ==
  ASSUME NEW slot \in Slot, NEW c \in Int
  PROVE  /\ [slot EXCEPT !.credits = c] \in Slot
         /\ [slot EXCEPT !.credits = c].queue = slot.queue
         /\ [slot EXCEPT !.credits = c].live = slot.live
<1>1. [slot EXCEPT !.credits = c] \in Slot
  BY DEF Slot
<1>2. [slot EXCEPT !.credits = c].queue = slot.queue
  BY DEF Slot
<1>3. [slot EXCEPT !.credits = c].live = slot.live
  BY DEF Slot
<1> QED
  BY <1>1, <1>2, <1>3

LEMMA WeightChange ==
  ASSUME NEW slot \in Slot, NEW w \in Nat
  PROVE  /\ [slot EXCEPT !.weight = w] \in Slot
         /\ [slot EXCEPT !.weight = w].queue = slot.queue
         /\ [slot EXCEPT !.weight = w].live = slot.live
<1>1. [slot EXCEPT !.weight = w] \in Slot
  BY DEF Slot
<1>2. [slot EXCEPT !.weight = w].queue = slot.queue
  BY DEF Slot
<1>3. [slot EXCEPT !.weight = w].live = slot.live
  BY DEF Slot
<1> QED
  BY <1>1, <1>2, <1>3

LEMMA QueueChange ==
  ASSUME NEW slot \in Slot, NEW q \in Seq(Packet)
  PROVE  /\ [slot EXCEPT !.queue = q] \in Slot
         /\ [slot EXCEPT !.queue = q].queue = q
         /\ [slot EXCEPT !.queue = q].live = slot.live
<1>1. [slot EXCEPT !.queue = q] \in Slot
  BY DEF Slot
<1>2. [slot EXCEPT !.queue = q].queue = q
  BY DEF Slot
<1>3. [slot EXCEPT !.queue = q].live = slot.live
  BY DEF Slot
<1> QED
  BY <1>1, <1>2, <1>3

LEMMA TakeOneTakesHead ==
  ASSUME NEW table \in Seq(Slot), AllLive(table), table # << >>, NEW c \in Nat
  PROVE  LET take == FQ!TakeOne(table, c)
         IN  /\ take.slots \in Seq(Slot) /\ AllLive(take.slots) /\ take.cursor \in Nat
             /\ DOMAIN take.slots = DOMAIN table
             /\ \/ take.item = << >> /\ SameQueues(table, take.slots)
                \/ \E i \in DOMAIN table :
                     /\ table[i].queue # << >>
                     /\ take.item = << Head(table[i].queue) >>
                     /\ HeadTaken(table, take.slots, i)
<1> DEFINE n == Len(table)
           take == FQ!TakeOne(table, c)
<1>1. /\ n \in Nat /\ n # 0 /\ DOMAIN table = 1 .. n
      /\ \A i \in 1 .. n : table[i] \in Slot /\ table[i].live
  BY LenProperties, ElementOfSeq, EmptySeq DEF AllLive
<1>2. \A step \in Nat : FQ!Place(table, c, step) \in 1 .. n
  BY <1>1 DEF FQ!Place
<1>3. ASSUME NEW slot \in Slot, slot.live
      PROVE  /\ ~ FQ!IsFree(slot)
             /\ FQ!Passed(slot) \in Slot /\ FQ!Passed(slot).live
             /\ FQ!Passed(slot).queue = slot.queue
  <2>1. ~ FQ!IsFree(slot)
    BY <1>3 DEF FQ!IsFree, FQ!Free
  <2>2. FQ!Passed(slot) = [slot EXCEPT !.credits = 0]
    BY <1>3, <2>1 DEF FQ!Passed
  <2> QED
    BY <1>3, <2>1, <2>2, CreditsChange
<1>4. ASSUME NEW slot \in Slot, slot.live, slot.queue # << >>
      PROVE  /\ FQ!Served(slot) \in Slot /\ FQ!Served(slot).live
             /\ FQ!Served(slot).queue = Tail(slot.queue)
  <2>1. slot.queue \in Seq(Packet) /\ slot.weight \in Nat /\ slot.credits \in Int
    BY DEF Slot
  <2> DEFINE q == Tail(slot.queue)
             left == FQ!Refilled(slot) - 1
  <2>2. q \in Seq(Packet) /\ left \in Int
    BY <1>4, <2>1, RangeParts DEF FQ!Refilled
  <2> DEFINE shorter == [slot EXCEPT !.queue = q]
  <2>3. FQ!Served(slot) = [shorter EXCEPT !.credits = left]
    BY DEF FQ!Served
  <2> HIDE DEF q, left
  <2>4. shorter \in Slot /\ shorter.queue = q /\ shorter.live
    BY <1>4, <2>2, QueueChange
  <2> HIDE DEF shorter
  <2> QED
    BY <2>2, <2>3, <2>4, CreditsChange DEF q
<1>5. CASE FQ!Hits(table, c) = {}
  <2>1. take = [item   |-> << >>,
                slots  |-> [i \in DOMAIN table |-> FQ!Passed(table[i])],
                cursor |-> c]
    BY <1>5 DEF FQ!TakeOne
  <2>2. take.slots \in [1 .. n -> Slot]
    BY <1>1, <1>3, <2>1
  <2>3. take.slots \in Seq(Slot) /\ AllLive(take.slots)
    BY <1>1, <1>3, <2>1, <2>2, SeqDef DEF AllLive
  <2>4. SameQueues(table, take.slots)
    BY <1>1, <1>3, <2>1 DEF SameQueues
  <2> QED
    BY <2>1, <2>3, <2>4
<1>6. CASE FQ!Hits(table, c) # {}
  <2> DEFINE hit == FQ!HitPlace(table, c)
  <2>1. FQ!Hits(table, c) \subseteq Nat
    BY <1>1 DEF FQ!Hits, FQ!Steps
  <2>2. FQ!Reach(table, c) \in FQ!Hits(table, c)
    BY <1>6, <2>1, LeastOfNaturals DEF FQ!Reach
  <2>3. hit \in 1 .. n /\ FQ!Backlogged(table[hit])
    BY <1>2, <2>1, <2>2 DEF FQ!HitPlace, FQ!Hits
  <2>4. table[hit].queue # << >> /\ table[hit] \in Slot /\ table[hit].live
    BY <1>1, <2>3 DEF FQ!Backlogged
  <2>5. take = [item   |-> << Head(table[hit].queue) >>,
                slots  |-> [i \in DOMAIN table |->
                              IF i = hit THEN FQ!Served(table[i])
                              ELSE IF i \in FQ!Scanned(table, c) THEN FQ!Passed(table[i])
                              ELSE table[i]],
                cursor |-> FQ!NextCursor(table, c)]
    BY <1>6 DEF FQ!TakeOne
  <2> HIDE DEF hit
  <2>6. take.slots \in [1 .. n -> Slot]
    BY <1>1, <1>3, <1>4, <2>4, <2>5
  <2>7. take.slots \in Seq(Slot)
    BY <1>1, <2>6, SeqDef
  <2>a. AllLive(take.slots)
    BY <1>1, <1>3, <1>4, <2>4, <2>5 DEF AllLive
  <2>8. HeadTaken(table, take.slots, hit)
    BY <1>1, <1>3, <1>4, <2>3, <2>4, <2>5 DEF HeadTaken
  <2>9. FQ!NextCursor(table, c) \in Nat
    BY <2>3 DEF FQ!NextCursor, hit
  <2>b. /\ take.item = << Head(table[hit].queue) >> /\ take.cursor = FQ!NextCursor(table, c)
        /\ DOMAIN take.slots = DOMAIN table
    BY <2>5
  <2> QED
    BY <1>1, <2>3, <2>4, <2>7, <2>8, <2>9, <2>a, <2>b
<1> QED
  BY <1>5, <1>6

-----------------------------------------------------------------------------
LEMMA SlotOrderPlaces ==
  ASSUME NEW table \in SUBSET Hop
  PROVE  SlotOrder(table) \in [table -> 1 .. Cardinality(table)] /\ Cardinality(table) \in Nat
<1>1. IsFiniteSet(table)
  BY EgressAssumption, FS_Subset
<1>2. Cardinality(table) \in Nat /\ ExistsBijection(table, 1 .. Cardinality(table))
  BY <1>1, FS_CardinalityType, Fun_ExistsBijSymmetric
<1>3. \E f \in [table -> 1 .. Cardinality(table)] : IsInjective(f)
  BY <1>2 DEF ExistsBijection, Bijection, Injection
<1> QED
  BY <1>2, <1>3 DEF SlotOrder

LEMMA EgressInvInit == Init => EgressInv
<1> SUFFICES ASSUME Init PROVE EgressInv
  OBVIOUS
<1> DEFINE n == Cardinality(peers)
<1>1. peers \in SUBSET Hop
  BY EgressAssumption DEF Init
<1>2. n \in Nat /\ place \in [peers -> 1 .. n]
  BY <1>1, SlotOrderPlaces DEF Init
<1>3. FQ!NewSlot(FQ!DefaultWeight) \in Slot
  BY EmptySeq DEF FQ!NewSlot, FQ!DefaultWeight, Slot
<1>4. /\ slots \in [1 .. n -> Slot] /\ DOMAIN slots = 1 .. n
      /\ \A i \in 1 .. n : slots[i].queue = << >> /\ slots[i].live
  BY <1>3 DEF Init, FQ!NewSlot
<1>5. slots \in Seq(Slot) /\ AllLive(slots)
  BY <1>2, <1>4, SeqDef DEF AllLive
<1>6. EgressType
  BY <1>1, <1>2, <1>4, <1>5, EmptySeq DEF EgressType, Init
<1>7. HoldsOne /\ RoutesOne
  BY DEF Init, HoldsOne, Forwarding, RoutesOne
<1>8. QueuesSorted
  BY <1>4, RangeOfNone DEF QueuesSorted
<1>9. ASSUME NEW p \in peers PROVE InOrder(p)
  <2>1. QueueOf(p) = << >> /\ holding = << >> /\ routing = << >> /\ outbound = << >>
    BY <1>2, <1>4 DEF Init, QueueOf
  <2>2. Rising(p, << >>)
    BY DEF Rising
  <2>3. arrived[p] = 0 /\ sent[p] = 0
    BY <1>1 DEF Init
  <2> QED
    BY <2>1, <2>2, <2>3, RangeOfNone DEF InOrder, Before
<1> QED
  BY <1>6, <1>7, <1>8, <1>9 DEF EgressInv

-----------------------------------------------------------------------------
(***************************************************************************)
(* The steps.  What a task only looks at or records beside the packets     *)
(* leaves the order as it was.                                             *)
(***************************************************************************)
LEMMA QueuesAre ==
  ASSUME EgressType
  PROVE  /\ DOMAIN slots = 1 .. Len(slots) /\ Len(slots) \in Nat
         /\ \A i \in DOMAIN slots : slots[i] \in Slot /\ slots[i].queue \in Seq(Packet)
                                    /\ Range(slots[i].queue) \subseteq Packet
         /\ \A p \in peers : /\ place[p] \in DOMAIN slots
                             /\ QueueOf(p) \in Seq(Packet)
                             /\ Range(QueueOf(p)) \subseteq Packet
<1>1. DOMAIN slots = 1 .. Len(slots) /\ Len(slots) \in Nat
      /\ \A i \in 1 .. Len(slots) : slots[i] \in Slot
  BY LenProperties, ElementOfSeq DEF EgressType
<1>2. \A i \in DOMAIN slots : slots[i].queue \in Seq(Packet)
  BY <1>1 DEF Slot
<1>3. \A i \in DOMAIN slots : Range(slots[i].queue) \subseteq Packet
  BY <1>2, RangeParts
<1>4. \A p \in peers : place[p] \in DOMAIN slots
  BY DEF EgressType
<1> QED
  BY <1>1, <1>2, <1>3, <1>4 DEF QueueOf

packetVars == << peers, place, slots, cursor, outbound, sent, arrived, holding, routing >>

LEMMA PacketsStay ==
  ASSUME EgressInv, UNCHANGED packetVars, HoldsOne', RoutesOne'
  PROVE  EgressInv'
BY DEF EgressInv, packetVars, EgressType, AllLive, QueuesSorted, InOrder, QueueOf, Rising,
       Before, Packet, Slot, Range

LEMMA OthersStep ==
  ASSUME EgressInv,
         \/ RelayStops \/ ExitTakes \/ OthersLock \/ OthersUnlock
         \/ \E p \in peers : PeerCloses(p)
         \/ UNCHANGED vars
  PROVE  EgressInv'
<1>1. UNCHANGED packetVars /\ UNCHANGED << drain, router >>
  BY DEF RelayStops, ExitTakes, OthersLock, OthersUnlock, PeerCloses, vars, configVars,
         relayVars, routerVars, hubVars, drainVars, linkVars, packetVars
<1>2. HoldsOne' /\ RoutesOne'
  BY <1>1 DEF EgressInv, HoldsOne, Forwarding, RoutesOne, packetVars, Packet
<1> QED
  BY <1>1, <1>2, PacketsStay

LEMMA RouterWaits ==
  ASSUME EgressInv, RouterNotifies \/ RouterEnds \/ RouterJoins
  PROVE  EgressInv'
<1>1. UNCHANGED packetVars /\ UNCHANGED drain
  BY DEF RouterNotifies, RouterEnds, RouterJoins, configVars, relayVars, routerVars, hubVars,
         drainVars, linkVars, packetVars
<1>2. /\ router \notin {"exiting", "putting"} /\ router' \notin {"exiting", "putting"}
  BY DEF RouterNotifies, RouterEnds, RouterJoins
<1>3. HoldsOne' /\ RoutesOne'
  BY <1>1, <1>2 DEF EgressInv, HoldsOne, Forwarding, RoutesOne, packetVars, Packet
<1> QED
  BY <1>1, <1>3, PacketsStay

\* While a forward goes on, or while nothing is found, nothing moves.
LEMMA DrainStays ==
  ASSUME EgressInv,
         \/ DrainStops \/ DrainLooksAgain \/ DrainPolls \/ DrainWakes \/ DrainLocks
         \/ (DrainOpens \/ WriteBreaks \/ Reopen) /\ drain' # "scan"
  PROVE  EgressInv'
<1>1. UNCHANGED packetVars /\ UNCHANGED router /\ (drain \in Forwarding <=> drain' \in Forwarding)
  BY DEF DrainStops, DrainLooksAgain, DrainPolls, DrainWakes, DrainLocks, DrainOpens, WriteBreaks,
         Reopen, Finish, Forwarding, configVars, relayVars, routerVars, hubVars, drainVars,
         linkVars, packetVars
<1>2. HoldsOne' /\ RoutesOne'
  BY <1>1 DEF EgressInv, HoldsOne, Forwarding, RoutesOne, packetVars, Packet
<1> QED
  BY <1>1, <1>2, PacketsStay

-----------------------------------------------------------------------------
\* A new packet has a higher number than all there are for its hop.
LEMMA RelaySendsInOrder ==
  ASSUME EgressInv, NEW h \in Hop, RelaySends(h)
  PROVE  EgressInv'
<1> DEFINE x == [hop |-> h, number |-> sent[h] + 1]
<1>1. /\ sent \in [Hop -> Nat] /\ sent[h] \in Nat /\ x \in Packet
  BY DEF EgressInv, EgressType, Packet
<1>2. /\ sent' = [sent EXCEPT ![h] = sent[h] + 1]
      /\ outbound' = Append(outbound, x)
      /\ UNCHANGED << peers, place, slots, cursor, arrived, holding, routing, drain, router >>
  BY DEF RelaySends, configVars, routerVars, hubVars, drainVars, linkVars
<1>3. x.hop = h /\ x.number = sent[h] + 1
  OBVIOUS
<1> HIDE DEF x
<1>4. outbound \in Seq(Packet) /\ outbound' \in Seq(Packet)
      /\ Range(outbound') = Range(outbound) \cup {x}
  BY <1>1, <1>2, RangeParts DEF EgressInv, EgressType
<1>5. EgressType' /\ HoldsOne' /\ RoutesOne' /\ QueuesSorted'
  <2>1. sent' \in [Hop -> Nat]
    BY <1>1, <1>2
  <2>2. EgressType'
    BY <1>2, <1>4, <2>1 DEF EgressInv, EgressType, AllLive, Slot, Packet
  <2>3. HoldsOne' /\ RoutesOne'
    BY <1>2 DEF EgressInv, HoldsOne, Forwarding, RoutesOne, Packet
  <2>4. QueuesSorted'
    BY <1>2 DEF EgressInv, QueuesSorted
  <2> QED
    BY <2>2, <2>3, <2>4
<1>6. ASSUME NEW p \in peers PROVE InOrder(p)'
  <2> DEFINE H == Range(holding)
             Q == Range(QueueOf(p))
             R == Range(routing)
             O == Range(outbound)
  <2>1. InOrder(p) /\ p \in Hop /\ sent[p] \in Nat /\ arrived[p] \in Nat
    BY <1>1 DEF EgressInv, EgressType
  <2>2. sent'[p] = IF p = h THEN sent[p] + 1 ELSE sent[p]
    BY <1>1, <1>2, <2>1
  <2>3. QueueOf(p)' = QueueOf(p) /\ Range(holding') = H /\ Range(routing') = R /\ arrived' = arrived
    BY <1>2 DEF QueueOf
  <2>4. \A y \in H \cup Q \cup R \cup O : y.hop = p => y.number \in Int /\ y.number <= sent[p]
    <3>1. H \subseteq Packet /\ R \subseteq Packet
      BY RangeOfOne, RangeOfNone DEF EgressInv, HoldsOne, Forwarding, RoutesOne
    <3>2. O \subseteq Packet /\ Q \subseteq Packet
      BY <1>4, QueuesAre, RangeParts DEF EgressInv
    <3> QED
      BY <2>1, <3>1, <3>2 DEF InOrder, Packet
  <2>5. Before(p, O, {x})
    BY <1>1, <1>3, <2>1, <2>2, <2>4 DEF Before
  <2>6. Rising(p, outbound')
    BY <1>1, <1>2, <1>4, <2>1, <2>5, RisingParts DEF InOrder
  <2> HIDE DEF H, Q, R, O
  <2> QED
    BY <1>1, <1>3, <1>4, <2>1, <2>2, <2>3, <2>4, <2>6 DEF InOrder, Before, H, Q, R, O
<1> QED
  BY <1>2, <1>5, <1>6 DEF EgressInv

\* Another weight leaves the queues as they are.
LEMMA SetWeightKeeps ==
  ASSUME EgressInv, NEW i \in DOMAIN slots, NEW w \in FQ!Weights,
         slots' = FQ!SetWeight(slots, i, w)
  PROVE  slots' \in Seq(Slot) /\ AllLive(slots') /\ DOMAIN slots' = DOMAIN slots
         /\ SameQueues(slots, slots')
<1>1. /\ slots \in Seq(Slot) /\ DOMAIN slots = 1 .. Len(slots) /\ Len(slots) \in Nat
      /\ \A j \in DOMAIN slots : slots[j] \in Slot /\ slots[j].live
  BY QueuesAre DEF EgressInv, EgressType, AllLive
<1>2. w \in Nat
  BY EgressAssumption DEF FQ!Weights, FQ!DefaultWeight
<1>3. ~ FQ!IsFree(slots[i])
  BY <1>1 DEF FQ!IsFree, FQ!Free
<1> DEFINE heavier == [slots[i] EXCEPT !.weight = w]
<1>4. heavier \in Slot /\ heavier.queue = slots[i].queue /\ heavier.live
  BY <1>1, <1>2, WeightChange
<1>5. slots' = [slots EXCEPT ![i] = heavier]
  BY <1>3 DEF FQ!SetWeight
<1> HIDE DEF heavier
<1>6. slots' \in [1 .. Len(slots) -> Slot]
  BY <1>1, <1>4, <1>5
<1> QED
  BY <1>1, <1>4, <1>5, <1>6, SeqDef DEF AllLive, SameQueues

\* The router takes the first packet of the channel, to keep or to drop it.
LEMMA RouterTakesInOrder ==
  ASSUME EgressInv, outbound # << >>, routing = << >>,
         outbound' = Tail(outbound),
         routing' = << >> \/ routing' = << Head(outbound) >>,
         UNCHANGED << peers, place, cursor, sent, arrived, holding >>,
         slots' \in Seq(Slot), AllLive(slots'), DOMAIN slots' = DOMAIN slots,
         SameQueues(slots, slots'),
         HoldsOne', RoutesOne'
  PROVE  EgressInv'
<1> DEFINE x == Head(outbound)
<1>1. /\ x \in Packet /\ outbound' \in Seq(Packet)
      /\ Range(outbound) = {x} \cup Range(outbound')
  BY RangeParts DEF EgressInv, EgressType
<1>2. Range(routing) = {} /\ Range(routing') \subseteq {x}
  BY RangeOfOne, RangeOfNone
<1>3. EgressType'
  BY <1>1 DEF EgressInv, EgressType
<1>4. QueuesSorted'
  BY DEF EgressInv, QueuesSorted, SameQueues
<1>5. ASSUME NEW p \in peers PROVE InOrder(p)'
  <2>1. InOrder(p) /\ QueueOf(p)' = QueueOf(p)
    BY QueuesAre DEF EgressInv, QueueOf, SameQueues
  <2>2. Rising(p, outbound') /\ Before(p, {x}, Range(outbound'))
    BY <2>1, RisingParts DEF InOrder, EgressInv, EgressType
  <2> HIDE DEF x
  <2> QED
    BY <1>1, <1>2, <2>1, <2>2 DEF InOrder, Before
<1> QED
  BY <1>3, <1>4, <1>5 DEF EgressInv

LEMMA RouteInOrder ==
  ASSUME EgressInv, RouteExit \/ RoutePeer
  PROVE  EgressInv'
<1>1. Head(outbound) \in Packet /\ outbound # << >> /\ router = "recv" /\ routing = << >>
  BY RangeParts DEF RouteExit, RoutePeer, EgressInv, EgressType, RoutesOne
<1>2. CASE RouteExit
  <2>1. /\ outbound' = Tail(outbound) /\ Head(outbound).hop \notin peers
        /\ \/ router' = "exiting" /\ routing' = << Head(outbound) >>
           \/ router' = "recv" /\ routing' = << >>
        /\ UNCHANGED << peers, place, slots, cursor, sent, arrived, holding, drain >>
    BY <1>1, <1>2 DEF RouteExit, configVars, relayVars, hubVars, drainVars, linkVars
  <2>2. HoldsOne' /\ RoutesOne'
    BY <1>1, <2>1 DEF EgressInv, HoldsOne, Forwarding, RoutesOne
  <2>3. slots' \in Seq(Slot) /\ AllLive(slots') /\ SameQueues(slots, slots')
    BY <2>1 DEF EgressInv, EgressType, AllLive, SameQueues
  <2> QED
    BY <1>1, <2>1, <2>2, <2>3, RouterTakesInOrder
<1>3. CASE RoutePeer
  <2>1. /\ outbound' = Tail(outbound) /\ Head(outbound).hop \in peers
        /\ router' = "putting" /\ routing' = << Head(outbound) >>
        /\ UNCHANGED << peers, place, cursor, sent, arrived, holding, drain >>
    BY <1>3 DEF RoutePeer, configVars, relayVars, drainVars, linkVars
  <2>2. HoldsOne' /\ RoutesOne'
    BY <1>1, <2>1 DEF EgressInv, HoldsOne, Forwarding, RoutesOne
  <2>3. place[Head(outbound).hop] \in DOMAIN slots
    BY <2>1, QueuesAre DEF EgressInv
  <2>4. slots' \in Seq(Slot) /\ AllLive(slots') /\ DOMAIN slots' = DOMAIN slots
        /\ SameQueues(slots, slots')
    BY <1>3, <2>3, SetWeightKeeps DEF RoutePeer
  <2> QED
    BY <1>1, <2>1, <2>2, <2>4, RouterTakesInOrder
<1> QED
  BY <1>2, <1>3

\* A packet the router held is gone: sent to the exit, or dropped at a full queue.
LEMMA RouterLetsGo ==
  ASSUME EgressInv, routing' = << >>, HoldsOne', RoutesOne',
         UNCHANGED << peers, place, slots, cursor, outbound, sent, arrived, holding >>
  PROVE  EgressInv'
<1>1. Range(routing') = {}
  BY RangeOfNone
<1>2. EgressType' /\ QueuesSorted'
  BY DEF EgressInv, EgressType, AllLive, QueuesSorted
<1>3. ASSUME NEW p \in peers PROVE InOrder(p)'
  <2>1. InOrder(p) /\ QueueOf(p)' = QueueOf(p)
    BY DEF EgressInv, QueueOf
  <2> QED
    BY <1>1, <2>1 DEF InOrder, Before
<1> QED
  BY <1>2, <1>3 DEF EgressInv

LEMMA ExitSendInOrder ==
  ASSUME EgressInv, ExitSend
  PROVE  EgressInv'
<1>1. /\ router' = "recv" /\ routing' = << >>
      /\ UNCHANGED << peers, place, slots, cursor, outbound, sent, arrived, holding, drain >>
  BY DEF ExitSend, configVars, relayVars, hubVars, drainVars, linkVars
<1>2. HoldsOne' /\ RoutesOne'
  BY <1>1 DEF EgressInv, HoldsOne, Forwarding, RoutesOne
<1> QED
  BY <1>1, <1>2, RouterLetsGo

LEMMA RouterPutsInOrder ==
  ASSUME EgressInv, RouterPuts
  PROVE  EgressInv'
<1>1. PICK x \in Packet : routing = << x >> /\ x.hop \in peers
  BY DEF EgressInv, RoutesOne, RouterPuts
<1> DEFINE i == place[x.hop]
<1>2. /\ routing[1] = x /\ i \in DOMAIN slots /\ router' = "notifying" /\ routing' = << >>
      /\ UNCHANGED << peers, place, cursor, outbound, sent, arrived, holding, drain >>
  BY <1>1, QueuesAre DEF EgressInv, RouterPuts, configVars, relayVars, drainVars, linkVars
<1>3. HoldsOne' /\ RoutesOne'
  BY <1>2 DEF EgressInv, HoldsOne, Forwarding, RoutesOne
<1>4. CASE UNCHANGED slots
  BY <1>2, <1>3, <1>4, RouterLetsGo
<1>5. CASE slots' = FQ!Put(slots, i, x)
  <2> DEFINE q == slots[i].queue
             more == Append(q, x)
             longer == [slots[i] EXCEPT !.queue = more]
  <2>1. /\ slots \in Seq(Slot) /\ DOMAIN slots = 1 .. Len(slots) /\ Len(slots) \in Nat
        /\ \A j \in DOMAIN slots : slots[j] \in Slot /\ slots[j].live
        /\ q \in Seq(Packet)
    BY <1>2, QueuesAre DEF EgressInv, EgressType, AllLive
  <2>2. more \in Seq(Packet) /\ Range(more) = Range(q) \cup {x}
    BY <2>1, RangeParts
  <2>3. slots' = [slots EXCEPT ![i] = longer]
    BY <1>5 DEF FQ!Put
  <2> HIDE DEF more
  <2>4. longer \in Slot /\ longer.queue = more /\ longer.live
    BY <1>2, <2>1, <2>2, QueueChange
  <2> HIDE DEF longer
  <2>5. slots' \in [1 .. Len(slots) -> Slot]
    BY <2>1, <2>3, <2>4
  <2>6. slots' \in Seq(Slot) /\ AllLive(slots') /\ DOMAIN slots' = DOMAIN slots
    BY <2>1, <2>3, <2>4, <2>5, SeqDef DEF AllLive
  <2>7. \A j \in DOMAIN slots :
          slots'[j].queue = IF j = i THEN more ELSE slots[j].queue
    BY <2>1, <2>3, <2>4
  <2>8. Range(routing) = {x} /\ Range(routing') = {}
    BY <1>1, <1>2, RangeOfOne, RangeOfNone
  <2> HIDE DEF i
  <2>9. EgressType'
    BY <1>2, <2>6 DEF EgressInv, EgressType
  <2>10. QueuesSorted'
    BY <1>1, <1>2, <2>2, <2>6, <2>7 DEF EgressInv, QueuesSorted, i
  <2>11. ASSUME NEW p \in peers PROVE InOrder(p)'
    <3>1. InOrder(p) /\ place[p] \in DOMAIN slots /\ QueueOf(p) = slots[place[p]].queue
      BY QueuesAre DEF EgressInv, QueueOf
    <3>2. CASE place[p] # i
      <4>1. QueueOf(p)' = QueueOf(p)
        BY <1>2, <2>7, <3>1, <3>2 DEF QueueOf
      <4> QED
        BY <1>2, <2>8, <3>1, <4>1 DEF InOrder, Before
    <3>3. CASE place[p] = i
      <4>1. QueueOf(p) = q /\ QueueOf(p)' = more
        BY <1>2, <2>7, <3>1, <3>3 DEF QueueOf
      <4>2. Rising(p, q) /\ Before(p, Range(q), {x})
        BY <2>8, <3>1, <4>1 DEF InOrder, Before
      <4>3. Rising(p, more)
        BY <2>1, <4>2, RisingParts DEF more
      <4> HIDE DEF q
      <4> QED
        BY <1>2, <2>2, <2>8, <3>1, <4>1, <4>3 DEF InOrder, Before
    <3> QED
      BY <3>2, <3>3
  <2> QED
    BY <1>2, <1>3, <2>9, <2>10, <2>11 DEF EgressInv
<1> QED
  BY <1>2, <1>4, <1>5 DEF RouterPuts

-----------------------------------------------------------------------------
\* The drain takes the head of a queue: the stage before the peer.
LEMMA DrainScansInOrder ==
  ASSUME EgressInv, DrainScans
  PROVE  EgressInv'
<1> DEFINE take == FQ!TakeOne(slots, cursor)
<1>1. /\ holding = << >> /\ drain = "scan"
      /\ UNCHANGED << peers, place, outbound, sent, arrived, routing, router >>
  BY DEF DrainScans, EgressInv, HoldsOne, Forwarding, configVars, relayVars, routerVars, linkVars
<1>2. RoutesOne'
  BY <1>1 DEF EgressInv, RoutesOne
<1>3. CASE slots = << >> /\ drain' = "empty" /\ UNCHANGED << slots, cursor, holding >>
  <2>1. HoldsOne'
    BY <1>1, <1>3 DEF HoldsOne, Forwarding
  <2> QED
    BY <1>1, <1>2, <1>3, <2>1, PacketsStay DEF packetVars
<1>4. CASE /\ slots # << >>
           /\ slots' = take.slots /\ cursor' = take.cursor /\ holding' = take.item
           /\ drain' = IF take.item = << >> THEN "miss" ELSE "locking"
  <2>1. /\ slots \in Seq(Slot) /\ AllLive(slots) /\ cursor \in Nat
        /\ \A i \in DOMAIN slots : slots[i].queue \in Seq(Packet)
    BY QueuesAre DEF EgressInv, EgressType
  <2>2. /\ slots' \in Seq(Slot) /\ AllLive(slots') /\ cursor' \in Nat
        /\ DOMAIN slots' = DOMAIN slots
        /\ \/ holding' = << >> /\ SameQueues(slots, slots')
           \/ \E i \in DOMAIN slots :
                /\ slots[i].queue # << >>
                /\ holding' = << Head(slots[i].queue) >>
                /\ HeadTaken(slots, slots', i)
    BY <1>4, <2>1, TakeOneTakesHead
  <2>3. EgressType'
    BY <1>1, <2>2 DEF EgressInv, EgressType
  <2>4. drain' = IF holding' = << >> THEN "miss" ELSE "locking"
    BY <1>4
  <2>5. CASE holding' = << >> /\ SameQueues(slots, slots')
    <3>1. HoldsOne'
      BY <2>4, <2>5 DEF HoldsOne, Forwarding
    <3>2. QueuesSorted'
      BY <1>1, <2>2, <2>5 DEF EgressInv, QueuesSorted, SameQueues
    <3>3. ASSUME NEW p \in peers PROVE InOrder(p)'
      <4>1. InOrder(p) /\ QueueOf(p)' = QueueOf(p)
        BY <1>1, <2>5, QueuesAre DEF EgressInv, QueueOf, SameQueues
      <4> QED
        BY <1>1, <2>5, <4>1 DEF InOrder
    <3> QED
      BY <1>1, <1>2, <2>3, <3>1, <3>2, <3>3 DEF EgressInv
  <2>6. ASSUME NEW i \in DOMAIN slots, slots[i].queue # << >>,
               holding' = << Head(slots[i].queue) >>, HeadTaken(slots, slots', i)
        PROVE  EgressInv'
    <3> DEFINE q == slots[i].queue
               x == Head(q)
               rest == Tail(q)
    <3>1. /\ q \in Seq(Packet) /\ x \in Packet /\ rest \in Seq(Packet)
          /\ Range(q) = {x} \cup Range(rest)
      BY <2>1, <2>6, RangeParts
    <3>2. \A j \in DOMAIN slots : slots'[j].queue = IF j = i THEN rest ELSE slots[j].queue
      BY <2>6 DEF HeadTaken
    <3>3. x.hop \in peers /\ place[x.hop] = i
      BY <3>1 DEF EgressInv, QueuesSorted
    <3>4. holding' = << x >> /\ Range(holding') = {x} /\ Range(holding) = {}
      BY <1>1, <2>6, RangeOfOne, RangeOfNone
    <3>5. \A p : Rising(p, q) => Rising(p, rest) /\ Before(p, {x}, Range(rest))
      BY <2>6, <3>1, RisingParts
    <3> HIDE DEF x, rest
    <3>6. HoldsOne'
      BY <1>1, <2>4, <3>1, <3>3, <3>4 DEF HoldsOne, Forwarding
    <3>7. QueuesSorted'
      BY <1>1, <2>2, <3>1, <3>2 DEF EgressInv, QueuesSorted
    <3>8. ASSUME NEW p \in peers PROVE InOrder(p)'
      <4>1. InOrder(p) /\ place[p] \in DOMAIN slots /\ QueueOf(p) = slots[place[p]].queue
        BY QueuesAre DEF EgressInv, QueueOf
      <4>2. CASE place[p] # i
        <5>1. QueueOf(p)' = QueueOf(p) /\ x.hop # p
          BY <1>1, <3>2, <3>3, <4>1, <4>2 DEF QueueOf
        <5> QED
          BY <1>1, <3>4, <4>1, <5>1 DEF InOrder, Before
      <4>3. CASE place[p] = i
        <5>1. QueueOf(p) = q /\ QueueOf(p)' = rest
          BY <1>1, <3>2, <4>1, <4>3 DEF QueueOf
        <5>2. Rising(p, rest) /\ Before(p, {x}, Range(rest))
          BY <3>5, <4>1, <5>1 DEF InOrder
        <5> HIDE DEF q
        <5> QED
          BY <1>1, <3>1, <3>4, <4>1, <5>1, <5>2 DEF InOrder, Before
      <4> QED
        BY <4>2, <4>3
    <3> QED
      BY <1>1, <1>2, <2>3, <3>6, <3>7, <3>8 DEF EgressInv
  <2> QED
    BY <2>2, <2>5, <2>6
<1> QED
  BY <1>3, <1>4 DEF DrainScans

\* A forward ends: its packet arrived, and then all that come are later, or is lost.
LEMMA ForwardEndsInOrder ==
  ASSUME EgressInv, drain \in Forwarding, drain' = "scan", holding' = << >>,
         UNCHANGED << peers, place, slots, cursor, outbound, sent, routing, router >>,
         \/ arrived' = arrived
         \/ arrived' = [arrived EXCEPT ![Peer] = holding[1].number]
  PROVE  EgressInv'
<1>1. PICK x \in Packet : holding = << x >> /\ x.hop \in peers
  BY DEF EgressInv, HoldsOne, Forwarding
<1>2. /\ Peer = x.hop /\ holding[1].number = x.number
      /\ Range(holding) = {x} /\ Range(holding') = {}
  BY <1>1, RangeOfOne, RangeOfNone DEF Peer
<1>3. HoldsOne' /\ RoutesOne'
  BY DEF EgressInv, HoldsOne, Forwarding, RoutesOne
<1>4. x.number \in Nat /\ arrived \in [peers -> Nat]
  BY DEF EgressInv, EgressType, Packet
<1>5. EgressType' /\ QueuesSorted'
  BY <1>1, <1>2, <1>4 DEF EgressInv, EgressType, AllLive, QueuesSorted
<1>6. ASSUME NEW p \in peers PROVE InOrder(p)'
  <2>1. InOrder(p) /\ QueueOf(p)' = QueueOf(p)
    BY DEF EgressInv, QueueOf
  <2>2. arrived'[p] = arrived[p] \/ (x.hop = p /\ arrived'[p] = x.number)
    BY <1>1, <1>2, <1>4
  <2> QED
    BY <1>2, <2>1, <2>2 DEF InOrder, Before
<1> QED
  BY <1>3, <1>5, <1>6 DEF EgressInv

LEMMA ForwardStepInOrder ==
  ASSUME EgressInv, ForwardStep
  PROVE  EgressInv'
<1>1. CASE WriteBreaks \/ ((DrainOpens \/ Reopen) /\ drain' # "scan")
  <2>1. WriteBreaks => drain' # "scan"
    BY DEF WriteBreaks
  <2> QED
    BY <1>1, <2>1, DrainStays
<1>2. CASE WriteWhole \/ RewriteBreaks \/ SealFails \/ ((DrainOpens \/ Reopen) /\ drain' = "scan")
  <2>1. /\ drain \in Forwarding /\ drain' = "scan" /\ holding' = << >>
        /\ UNCHANGED << peers, place, slots, cursor, outbound, sent, routing, router >>
    BY <1>2 DEF WriteWhole, RewriteBreaks, SealFails, DrainOpens, Reopen, Finish, Forwarding,
               configVars, relayVars, routerVars, hubVars
  <2>2. CASE WriteWhole
    <3>1. PICK x \in Packet : holding = << x >> /\ x.hop \in peers
      BY <2>1 DEF EgressInv, HoldsOne, Forwarding
    <3>2. arrived \in [peers -> Nat] /\ Peer \in peers
      BY <3>1 DEF EgressInv, EgressType, Peer
    <3>3. \/ arrived' = arrived
          \/ arrived' = [arrived EXCEPT ![Peer] = holding[1].number]
      BY <2>2, <3>2 DEF WriteWhole
    <3> QED
      BY <2>1, <3>3, ForwardEndsInOrder
  <2>3. CASE ~ WriteWhole
    <3>1. arrived' = arrived
      BY <1>2, <2>3 DEF RewriteBreaks, SealFails, DrainOpens, Reopen
    <3> QED
      BY <2>1, <3>1, ForwardEndsInOrder
  <2> QED
    BY <2>2, <2>3
<1> QED
  BY <1>1, <1>2 DEF ForwardStep

-----------------------------------------------------------------------------
LEMMA EgressInvNext == EgressInv /\ [Next]_vars => EgressInv'
<1> SUFFICES ASSUME EgressInv, [Next]_vars PROVE EgressInv'
  OBVIOUS
<1>1. CASE \E h \in Hop : RelaySends(h)
  BY <1>1, RelaySendsInOrder
<1>2. CASE \/ RelayStops \/ ExitTakes \/ OthersLock \/ OthersUnlock
           \/ (\E p \in peers : PeerCloses(p)) \/ UNCHANGED vars
  BY <1>2, OthersStep
<1>3. CASE RouterStep
  <2>1. CASE RouteExit \/ RoutePeer
    BY <2>1, RouteInOrder
  <2>2. CASE ExitSend
    BY <2>2, ExitSendInOrder
  <2>3. CASE RouterPuts
    BY <2>3, RouterPutsInOrder
  <2>4. CASE RouterNotifies \/ RouterEnds \/ RouterJoins
    BY <2>4, RouterWaits
  <2> QED
    BY <1>3, <2>1, <2>2, <2>3, <2>4 DEF RouterStep
<1>4. CASE DrainStep \/ DrainLocks
  <2>1. CASE DrainScans
    BY <2>1, DrainScansInOrder
  <2>2. CASE ForwardStep
    BY <2>2, ForwardStepInOrder
  <2>3. CASE DrainStops \/ DrainLooksAgain \/ DrainPolls \/ DrainWakes \/ DrainLocks
    BY <2>3, DrainStays
  <2> QED
    BY <1>4, <2>1, <2>2, <2>3 DEF DrainStep
<1> QED
  BY <1>1, <1>2, <1>3, <1>4 DEF Next

\* Stages whose numbers go up from one to the next make a line that rises.
LEMMA EgressInvEnough == EgressInv => PeerOrder
<1> SUFFICES ASSUME EgressInv, NEW p \in peers
             PROVE  LET line == << [hop |-> p, number |-> arrived[p]] >> \o holding
                                \o slots[place[p]].queue \o routing \o outbound
                        mine == {k \in DOMAIN line : line[k].hop = p}
                    IN  \A j, k \in mine : j < k => line[j].number < line[k].number
  BY DEF PeerOrder
<1> DEFINE first == [hop |-> p, number |-> arrived[p]]
           queue == QueueOf(p)
<1>1. /\ InOrder(p) /\ first \in Packet /\ first.number = arrived[p]
      /\ outbound \in Seq(Packet) /\ queue \in Seq(Packet) /\ arrived[p] \in Nat
  BY QueuesAre DEF EgressInv, EgressType, Packet
<1> HIDE DEF first, queue
<1>2. << first >> \in Seq(Packet) /\ Range(<< first >>) = {first} /\ Rising(p, << first >>)
  BY <1>1, RangeOfOne DEF Rising
<1>0. /\ << >> \in Seq(Packet) /\ Rising(p, << >>)
      /\ \A x \in Packet : << x >> \in Seq(Packet) /\ Rising(p, << x >>)
  BY DEF Rising
<1>3. holding \in Seq(Packet) /\ Rising(p, holding)
  BY <1>0 DEF EgressInv, HoldsOne, Forwarding
<1>4. routing \in Seq(Packet) /\ Rising(p, routing)
  BY <1>0 DEF EgressInv, RoutesOne
<1>5. /\ Rising(p, queue) /\ Rising(p, outbound)
      /\ Before(p, {first}, Range(holding) \cup Range(queue) \cup Range(routing) \cup Range(outbound))
      /\ Before(p, Range(holding), Range(queue) \cup Range(routing) \cup Range(outbound))
      /\ Before(p, Range(queue), Range(routing) \cup Range(outbound))
      /\ Before(p, Range(routing), Range(outbound))
  BY <1>1 DEF InOrder, Before, queue
<1> DEFINE two == << first >> \o holding
           three == two \o queue
           four == three \o routing
           line == four \o outbound
<1>6. two \in Seq(Packet) /\ Rising(p, two) /\ Range(two) = {first} \cup Range(holding)
  <2>1. Before(p, Range(<< first >>), Range(holding))
    BY <1>2, <1>5 DEF Before
  <2> QED
    BY <1>2, <1>3, <2>1, RisingConcat
<1> HIDE DEF two
<1>7. three \in Seq(Packet) /\ Rising(p, three) /\ Range(three) = Range(two) \cup Range(queue)
  <2>1. Before(p, Range(two), Range(queue))
    BY <1>5, <1>6 DEF Before
  <2> QED
    BY <1>1, <1>5, <1>6, <2>1, RisingConcat
<1> HIDE DEF three
<1>8. four \in Seq(Packet) /\ Rising(p, four) /\ Range(four) = Range(three) \cup Range(routing)
  <2>1. Before(p, Range(three), Range(routing))
    BY <1>5, <1>6, <1>7 DEF Before
  <2> QED
    BY <1>4, <1>7, <2>1, RisingConcat
<1> HIDE DEF four
<1>9. Rising(p, line)
  <2>1. Before(p, Range(four), Range(outbound))
    BY <1>5, <1>6, <1>7, <1>8 DEF Before
  <2> QED
    BY <1>1, <1>5, <1>8, <2>1, RisingConcat
<1>10. line = << [hop |-> p, number |-> arrived[p]] >> \o holding
              \o slots[place[p]].queue \o routing \o outbound
  BY DEF four, three, two, first, queue, QueueOf
<1> HIDE DEF line
<1> QED
  BY <1>9, <1>10 DEF Rising

\* A peer's packets arrive in the order the relay sent them and none twice
\* (spawn_outbound_dispatcher, fair_wfq_take_one, forward_to_peer): a packet that is
\* written again has not arrived, however the scan goes round and connections break.
THEOREM PacketsAlwaysInOrder == Spec => []PeerOrder
<1> QED
  BY EgressInvInit, EgressInvNext, EgressInvEnough, PTL DEF Spec

-----------------------------------------------------------------------------
(***************************************************************************)
(* The account of packets.  Induction over the naturals as a statement     *)
(* about sets, then what the sum of a function is made of.                 *)
(***************************************************************************)
LEMMA FromZeroUp ==
  ASSUME NEW T \in SUBSET Nat, 0 \in T, \A n \in T : n + 1 \in T
  PROVE  T = Nat
<1> SUFFICES ASSUME NEW m \in Nat, m \notin T PROVE FALSE
  OBVIOUS
<1> DEFINE U == Nat \ T
<1>1. PICK x \in U : \A y \in U : ~ << y, x >> \in OpToRel(<, Nat)
  BY NatLessThanWellFounded, WFMin
<1>2. x \in Nat /\ x # 0 /\ x - 1 \in Nat
  OBVIOUS
<1>3. << x - 1, x >> \in OpToRel(<, Nat)
  <2>1. << x - 1, x >> \in Nat \X Nat /\ << x - 1, x >>[1] = x - 1 /\ << x - 1, x >>[2] = x
    BY <1>2
  <2>2. << x - 1, x >> \in OpToRel(<, Nat)
        <=> << x - 1, x >> \in Nat \X Nat /\ << x - 1, x >>[1] < << x - 1, x >>[2]
    BY Zenon DEF OpToRel
  <2>3. x - 1 < x
    BY <1>2
  <2> QED
    BY <2>1, <2>2, <2>3, Zenon
<1>4. x - 1 \in T
  BY <1>1, <1>2, <1>3
<1>5. (x - 1) + 1 = x
  BY <1>2
<1>6. x \in T
  BY <1>4, <1>5
<1> QED
  BY <1>6

\* The element a fold takes next.
NextOf(s) == CHOOSE x \in s : TRUE

\* What a sum makes of a set, from what it makes of smaller ones.
SumStep(g, f, s) == IF s = {} THEN 0 ELSE f[NextOf(s)] + g[s \ {NextOf(s)}]

LEMMA SumIsFold ==
  ASSUME NEW f
  PROVE  LET g == CHOOSE g : g = [s \in SUBSET DOMAIN f |-> SumStep(g, f, s)]
         IN  SumFunction(f) = g[DOMAIN f]
BY Zenon DEF SumFunction, SumFunctionOnSet, FoldFunctionOnSet, MapThenFoldSet, SumStep, NextOf


Parts(S, n) == {s \in SUBSET S : Cardinality(s) <= n}

SumsUpTo(f, S, n) == \E g \in [Parts(S, n) -> Int] : \A s \in Parts(S, n) : g[s] = SumStep(g, f, s)

LEMMA Smaller ==
  ASSUME NEW S, IsFiniteSet(S), NEW s \in SUBSET S, s # {}
  PROVE  /\ NextOf(s) \in s /\ s \ {NextOf(s)} \in SUBSET S
         /\ Cardinality(s) \in Nat \ {0}
         /\ Cardinality(s \ {NextOf(s)}) = Cardinality(s) - 1
<1>1. NextOf(s) \in s
  BY DEF NextOf
<1>2. IsFiniteSet(s)
  BY FS_Subset
<1>3. Cardinality(s) \in Nat /\ Cardinality(s) # 0
  BY <1>2, FS_CardinalityType, FS_EmptySet
<1> QED
  BY <1>1, <1>2, <1>3, FS_RemoveElement

LEMMA NoPartsButEmpty ==
  ASSUME NEW S, IsFiniteSet(S)
  PROVE  Parts(S, 0) = {{}}
<1>1. ASSUME NEW s \in SUBSET S, s # {} PROVE ~ Cardinality(s) <= 0
  <2>1. Cardinality(s) \in Nat \ {0}
    BY <1>1, Smaller
  <2> QED
    BY <2>1
<1> QED
  BY <1>1, FS_EmptySet DEF Parts

LEMMA SumsExist ==
  ASSUME NEW S, IsFiniteSet(S), NEW f \in [S -> Int]
  PROVE  \A n \in Nat : SumsUpTo(f, S, n)
<1> DEFINE T == {n \in Nat : SumsUpTo(f, S, n)}
<1>1. 0 \in T
  <2>1. \A s \in Parts(S, 0) : s = {}
    BY NoPartsButEmpty
  <2> DEFINE g == [s \in Parts(S, 0) |-> 0]
  <2>2. g \in [Parts(S, 0) -> Int] /\ \A s \in Parts(S, 0) : g[s] = SumStep(g, f, s)
    BY <2>1 DEF SumStep
  <2> QED
    BY <2>2 DEF SumsUpTo
<1>2. ASSUME NEW n \in T
      PROVE  n + 1 \in T
  <2> DEFINE A == Parts(S, n)
             B == Parts(S, n + 1)
  <2>1. PICK g \in [A -> Int] : \A s \in A : g[s] = SumStep(g, f, s)
    BY DEF SumsUpTo
  <2>2. \A s \in SUBSET S : Cardinality(s) \in Nat
    BY FS_Subset, FS_CardinalityType
  <2>3. A \subseteq B
    BY <2>2 DEF Parts
  <2>4. \A s \in B : s # {} => NextOf(s) \in S /\ s \ {NextOf(s)} \in A
    BY Smaller DEF Parts
  <2> HIDE DEF A, B
  <2> DEFINE h == [s \in B |-> SumStep(g, f, s)]
  <2>5. \A s \in B : SumStep(g, f, s) \in Int
    BY <2>1, <2>4 DEF SumStep
  <2>6. h \in [B -> Int]
    BY <2>5
  <2>7. \A s \in A : h[s] = g[s]
    BY <2>1, <2>3
  <2>8. ASSUME NEW s \in B
        PROVE  h[s] = SumStep(h, f, s)
    <3>1. h[s] = SumStep(g, f, s)
      OBVIOUS
    <3> HIDE DEF h
    <3>2. s # {} => h[s \ {NextOf(s)}] = g[s \ {NextOf(s)}]
      BY <2>4, <2>7
    <3> QED
      BY <3>1, <3>2 DEF SumStep
  <2> HIDE DEF h
  <2>9. SumsUpTo(f, S, n + 1)
    BY <2>6, <2>8 DEF SumsUpTo, B
  <2> QED
    BY <2>9
<1> HIDE DEF T
<1>3. T = Nat
  <2>1. T \subseteq Nat
    BY DEF T
  <2> QED
    BY <1>1, <1>2, <2>1, FromZeroUp
<1> QED
  BY <1>3 DEF T

\* g is what a sum makes of each part of S.
SumsOf(g, f, S) ==
  /\ g \in [SUBSET S -> Int] /\ SumFunction(f) = g[S]
  /\ \A s \in SUBSET S : g[s] = SumStep(g, f, s)

LEMMA SumsRecursive ==
  ASSUME NEW S, IsFiniteSet(S), NEW f \in [S -> Int]
  PROVE  \E g : SumsOf(g, f, S)
<1>1. PICK n \in Nat : n = Cardinality(S)
  BY FS_CardinalityType
<1>2. Parts(S, n) = SUBSET S
  BY <1>1, FS_Subset DEF Parts
<1>3. PICK g \in [SUBSET S -> Int] : \A s \in SUBSET S : g[s] = SumStep(g, f, s)
  <2>1. SumsUpTo(f, S, n)
    BY SumsExist
  <2> QED
    BY <1>2, <2>1 DEF SumsUpTo
<1>4. g = [s \in SUBSET S |-> SumStep(g, f, s)]
  BY <1>3
<1> DEFINE h == CHOOSE h : h = [s \in SUBSET S |-> SumStep(h, f, s)]
<1>5. h = [s \in SUBSET S |-> SumStep(h, f, s)]
  BY <1>4
<1>6. SumFunction(f) = h[S]
  <2>1. DOMAIN f = S
    OBVIOUS
  <2> QED
    BY <2>1, SumIsFold
<1> HIDE DEF h
<1>7. \A s \in SUBSET S : h[s] = SumStep(h, f, s)
  BY <1>5
<1>8. h \in [SUBSET S -> Int]
  <2> DEFINE T == {k \in Nat : \A s \in Parts(S, k) : h[s] \in Int}
  <2>1. 0 \in T
    <3>1. \A s \in Parts(S, 0) : s = {}
      BY NoPartsButEmpty
    <3>2. \A s \in Parts(S, 0) : h[s] = 0
      BY <1>7, <3>1 DEF SumStep, Parts
    <3> QED
      BY <3>2
  <2>2. ASSUME NEW k \in T
        PROVE  k + 1 \in T
    <3> SUFFICES ASSUME NEW s \in Parts(S, k + 1) PROVE h[s] \in Int
      OBVIOUS
    <3>1. CASE s = {}
      <4>1. h[s] = 0
        BY <1>7, <3>1 DEF SumStep
      <4> QED
        BY <4>1
    <3>2. CASE s # {}
      <4>1. NextOf(s) \in S /\ s \ {NextOf(s)} \in Parts(S, k)
        BY <3>2, Smaller DEF Parts
      <4>2. h[s \ {NextOf(s)}] \in Int /\ f[NextOf(s)] \in Int
        BY <4>1
      <4>3. h[s] = f[NextOf(s)] + h[s \ {NextOf(s)}]
        BY <1>7, <3>2 DEF SumStep, Parts
      <4> QED
        BY <4>2, <4>3
    <3> QED
      BY <3>1, <3>2
  <2> HIDE DEF T
  <2>3. T = Nat
    <3>1. T \subseteq Nat
      BY DEF T
    <3> QED
      BY <2>1, <2>2, <3>1, FromZeroUp
  <2>4. \A s \in SUBSET S : h[s] \in Int
    BY <1>2, <2>3 DEF T
  <2> QED
    BY <1>5, <2>4
<1> QED
  BY <1>6, <1>7, <1>8 DEF SumsOf

LEMMA SumIsInt ==
  ASSUME NEW S, IsFiniteSet(S), NEW f \in [S -> Int]
  PROVE  SumFunction(f) \in Int
<1> PICK g : SumsOf(g, f, S)
  BY SumsRecursive
<1> QED
  BY DEF SumsOf

\* A sum moves with one of its terms.
MovedAt(S, f, h, i, d) == \A x \in S : h[x] = IF x = i THEN f[x] + d ELSE f[x]

LEMMA SumMoves ==
  ASSUME NEW S, IsFiniteSet(S), NEW f \in [S -> Int], NEW h \in [S -> Int],
         NEW i \in S, NEW d \in Int, MovedAt(S, f, h, i, d)
  PROVE  SumFunction(h) = SumFunction(f) + d
<1> PICK g : SumsOf(g, f, S)
  BY SumsRecursive
<1>1. /\ g \in [SUBSET S -> Int] /\ SumFunction(f) = g[S] /\ g[{}] = 0
      /\ \A s \in SUBSET S : s # {} => g[s] = f[NextOf(s)] + g[s \ {NextOf(s)}]
  BY DEF SumsOf, SumStep
<1> PICK k : SumsOf(k, h, S)
  BY SumsRecursive
<1>2. /\ k \in [SUBSET S -> Int] /\ SumFunction(h) = k[S] /\ k[{}] = 0
      /\ \A s \in SUBSET S : s # {} => k[s] = h[NextOf(s)] + k[s \ {NextOf(s)}]
  BY DEF SumsOf, SumStep
<1> DEFINE T == {n \in Nat : \A s \in Parts(S, n) : k[s] = g[s] + (IF i \in s THEN d ELSE 0)}
<1>3. 0 \in T
  <2>1. Parts(S, 0) = {{}}
    BY NoPartsButEmpty
  <2>2. k[{}] = g[{}] + (IF i \in {} THEN d ELSE 0)
    BY <1>1, <1>2
  <2> QED
    BY <2>1, <2>2
<1>4. ASSUME NEW n \in T PROVE n + 1 \in T
  <2> SUFFICES ASSUME NEW s \in Parts(S, n + 1)
               PROVE  k[s] = g[s] + (IF i \in s THEN d ELSE 0)
    OBVIOUS
  <2>1. CASE s = {}
    BY <1>1, <1>2, <2>1
  <2>2. CASE s # {}
    <3> DEFINE x == NextOf(s)
               r == s \ {x}
    <3>1. s \in SUBSET S /\ x \in s /\ x \in S /\ r \in Parts(S, n) /\ r \in SUBSET S
      BY <2>2, Smaller DEF Parts
    <3>2. k[s] = h[x] + k[r] /\ g[s] = f[x] + g[r]
      BY <1>1, <1>2, <2>2, <3>1
    <3>3. k[r] = g[r] + (IF i \in r THEN d ELSE 0)
      BY <1>4, <3>1
    <3>4. h[x] = IF x = i THEN f[x] + d ELSE f[x]
      BY <3>1 DEF MovedAt
    <3>5. i \in s <=> (i = x \/ i \in r)
      BY <3>1
    <3>6. i \in r => i # x
      OBVIOUS
    <3>7. f[x] \in Int /\ g[r] \in Int
      BY <1>1, <3>1
    <3> HIDE DEF x, r
    <3> QED
      BY <3>2, <3>3, <3>4, <3>5, <3>6, <3>7
  <2> QED
    BY <2>1, <2>2
<1> HIDE DEF T
<1>5. T = Nat
  <2>1. T \subseteq Nat
    BY DEF T
  <2> QED
    BY <1>3, <1>4, <2>1, FromZeroUp
<1>6. k[S] = g[S] + d
  <2>1. Cardinality(S) \in T /\ S \in Parts(S, Cardinality(S))
    BY <1>5, FS_CardinalityType DEF Parts
  <2> QED
    BY <2>1 DEF T
<1> QED
  BY <1>1, <1>2, <1>6

\* Terms that are nought make a sum of nought.
LEMMA SumOfNought ==
  ASSUME NEW S, IsFiniteSet(S), NEW f \in [S -> Int], \A x \in S : f[x] = 0
  PROVE  SumFunction(f) = 0
<1> PICK g : SumsOf(g, f, S)
  BY SumsRecursive
<1>1. /\ g \in [SUBSET S -> Int] /\ SumFunction(f) = g[S] /\ g[{}] = 0
      /\ \A s \in SUBSET S : s # {} => g[s] = f[NextOf(s)] + g[s \ {NextOf(s)}]
  BY DEF SumsOf, SumStep
<1> DEFINE T == {n \in Nat : \A s \in Parts(S, n) : g[s] = 0}
<1>2. 0 \in T
  <2>1. Parts(S, 0) = {{}}
    BY NoPartsButEmpty
  <2> QED
    BY <1>1, <2>1
<1>3. ASSUME NEW n \in T PROVE n + 1 \in T
  <2> SUFFICES ASSUME NEW s \in Parts(S, n + 1) PROVE g[s] = 0
    OBVIOUS
  <2>1. CASE s = {}
    BY <1>1, <2>1
  <2>2. CASE s # {}
    <3>1. s \in SUBSET S /\ NextOf(s) \in S /\ s \ {NextOf(s)} \in Parts(S, n)
      BY <2>2, Smaller DEF Parts
    <3>2. g[s] = f[NextOf(s)] + g[s \ {NextOf(s)}]
      BY <1>1, <2>2, <3>1
    <3>3. g[s \ {NextOf(s)}] = 0 /\ f[NextOf(s)] = 0
      BY <1>3, <3>1
    <3> QED
      BY <3>2, <3>3
  <2> QED
    BY <2>1, <2>2
<1> HIDE DEF T
<1>4. T = Nat
  <2>1. T \subseteq Nat
    BY DEF T
  <2> QED
    BY <1>2, <1>3, <2>1, FromZeroUp
<1>5. Cardinality(S) \in T /\ S \in Parts(S, Cardinality(S))
  BY <1>4, FS_CardinalityType DEF Parts
<1> QED
  BY <1>1, <1>5 DEF T


-----------------------------------------------------------------------------
(***************************************************************************)
(* The steps, by the place of the account each moves a packet from and to. *)
(***************************************************************************)
Ways == {"exited", "unrouted", "dropped"}

Queued == [i \in DOMAIN slots |-> Len(slots[i].queue)]
Recorded == [p \in peers |-> tally[p].ok + tally[p].fail]

AccountType == counts \in [Ways -> Nat] /\ tally \in [peers -> [ok : Nat, fail : Nat]]

AccountInv == EgressInv /\ AccountType /\ Accounted

\* All sums are of natural numbers over finite sets, and all queues have lengths.
LEMMA AccountTerms ==
  ASSUME EgressInv, AccountType
  PROVE  /\ IsFiniteSet(Hop) /\ sent \in [Hop -> Int] /\ SumSent \in Int
         /\ IsFiniteSet(Ways) /\ counts \in [Ways -> Int] /\ SumFunction(counts) \in Int
         /\ IsFiniteSet(DOMAIN slots) /\ Queued \in [DOMAIN slots -> Int]
         /\ SumFunction(Queued) \in Int
         /\ IsFiniteSet(peers) /\ Recorded \in [peers -> Int] /\ SumFunction(Recorded) \in Int
         /\ Len(outbound) \in Nat /\ Len(routing) \in Nat /\ Len(holding) \in Nat
<1>1. IsFiniteSet(Hop) /\ IsFiniteSet(peers)
  BY EgressAssumption, FS_Subset DEF EgressInv, EgressType
<1>2. IsFiniteSet(Ways)
  <2>1. IsFiniteSet({"exited"}) /\ IsFiniteSet({"unrouted"}) /\ IsFiniteSet({"dropped"})
    BY FS_Singleton
  <2>2. Ways = ({"exited"} \cup {"unrouted"}) \cup {"dropped"}
    BY DEF Ways
  <2> QED
    BY <2>1, <2>2, FS_Union
<1>3. IsFiniteSet(DOMAIN slots)
  BY QueuesAre, FS_Interval DEF EgressInv
<1>4. sent \in [Hop -> Int] /\ counts \in [Ways -> Int]
  BY DEF EgressInv, EgressType, AccountType
<1>5. Queued \in [DOMAIN slots -> Int]
  BY QueuesAre, LenProperties DEF EgressInv, Queued
<1>6. Recorded \in [peers -> Int]
  BY DEF AccountType, Recorded
<1>7. Len(outbound) \in Nat /\ Len(routing) \in Nat /\ Len(holding) \in Nat
  <2>1. routing = << >> \/ \E x : routing = << x >>
    BY DEF EgressInv, RoutesOne
  <2>2. holding = << >> \/ \E x : holding = << x >>
    BY DEF EgressInv, HoldsOne
  <2> QED
    BY <2>1, <2>2, LenProperties DEF EgressInv, EgressType
<1>8. SumSent \in Int /\ SumFunction(counts) \in Int
  BY <1>1, <1>2, <1>4, SumIsInt DEF SumSent
<1>9. SumFunction(Queued) \in Int /\ SumFunction(Recorded) \in Int
  BY <1>1, <1>3, <1>5, <1>6, SumIsInt
<1> QED
  BY <1>1, <1>2, <1>3, <1>4, <1>5, <1>6, <1>7, <1>8, <1>9

LEMMA AccountInit == Init => AccountInv
<1> SUFFICES ASSUME Init PROVE AccountInv
  OBVIOUS
<1>1. EgressInv
  BY EgressInvInit
<1>2. AccountType
  BY DEF Init, AccountType, Ways
<1>3. SumSent = 0
  <2>1. \A h \in Hop : sent[h] = 0
    BY DEF Init
  <2> QED
    BY <1>1, <1>2, <2>1, AccountTerms, SumOfNought DEF SumSent
<1>4. SumFunction(counts) = 0
  <2>1. \A w \in Ways : counts[w] = 0
    BY DEF Init, Ways
  <2> QED
    BY <1>1, <1>2, <2>1, AccountTerms, SumOfNought
<1>5. SumFunction(Queued) = 0
  <2>1. \A i \in DOMAIN slots : slots[i].queue = << >>
    BY DEF Init, FQ!NewSlot
  <2>2. \A i \in DOMAIN slots : Queued[i] = 0
    BY <2>1 DEF Queued
  <2> QED
    BY <1>1, <1>2, <2>2, AccountTerms, SumOfNought
<1>6. SumFunction(Recorded) = 0
  <2>1. \A p \in peers : Recorded[p] = 0
    BY DEF Init, Recorded
  <2> QED
    BY <1>1, <1>2, <2>1, AccountTerms, SumOfNought
<1>7. outbound = << >> /\ routing = << >> /\ holding = << >>
  BY DEF Init
<1>8. Len(outbound) = 0 /\ Len(routing) = 0 /\ Len(holding) = 0
  BY <1>7
<1>9. Accounted
  BY <1>3, <1>4, <1>5, <1>6, <1>8 DEF Accounted, Queued, Recorded
<1> QED
  BY <1>1, <1>2, <1>9 DEF AccountInv

LEMMA CountMoves ==
  ASSUME EgressInv, AccountType, NEW what \in Ways, Count(what)
  PROVE  /\ counts' \in [Ways -> Nat]
         /\ SumFunction(counts)' = SumFunction(counts) + 1
<1>1. counts' = [counts EXCEPT ![what] = counts[what] + 1]
  BY DEF Count
<1>2. counts' \in [Ways -> Nat] /\ counts' \in [Ways -> Int]
  BY <1>1 DEF AccountType
<1>3. MovedAt(Ways, counts, counts', what, 1)
  BY <1>1 DEF AccountType, MovedAt
<1>4. SumFunction(counts') = SumFunction(counts) + 1
  <2>1. IsFiniteSet(Ways) /\ counts \in [Ways -> Int]
    BY AccountTerms
  <2> QED
    BY <1>2, <1>3, <2>1, SumMoves
<1> QED
  BY <1>2, <1>4

LEMMA TallyMoves ==
  ASSUME EgressInv, AccountType, peers' = peers, Peer \in peers,
         NEW outcome \in {"ok", "fail"}, Record(outcome)
  PROVE  /\ tally' \in [peers -> [ok : Nat, fail : Nat]]
         /\ SumFunction(Recorded)' = SumFunction(Recorded) + 1
<1> DEFINE old == tally[Peer]
           new == [old EXCEPT ![outcome] = old[outcome] + 1]
<1>1. tally' = [tally EXCEPT ![Peer] = new]
  BY DEF Record
<1>2. old \in [ok : Nat, fail : Nat]
  BY DEF AccountType
<1>3. new \in [ok : Nat, fail : Nat] /\ new.ok + new.fail = old.ok + old.fail + 1
  <2>1. CASE outcome = "ok"
    <3>1. new = [ok |-> old.ok + 1, fail |-> old.fail]
      BY <1>2, <2>1
    <3> QED
      BY <1>2, <3>1
  <2>2. CASE outcome = "fail"
    <3>1. new = [ok |-> old.ok, fail |-> old.fail + 1]
      BY <1>2, <2>2
    <3> QED
      BY <1>2, <3>1
  <2> QED
    BY <2>1, <2>2
<1> HIDE DEF new
<1>4. tally' \in [peers -> [ok : Nat, fail : Nat]]
  BY <1>1, <1>3 DEF AccountType
<1>5. MovedAt(peers, Recorded, Recorded', Peer, 1)
  BY <1>1, <1>3 DEF AccountType, Recorded, MovedAt
<1>6. Recorded' \in [peers -> Int]
  BY <1>4 DEF Recorded
<1>7. SumFunction(Recorded') = SumFunction(Recorded) + 1
  <2>1. IsFiniteSet(peers) /\ Recorded \in [peers -> Int]
    BY AccountTerms
  <2> QED
    BY <1>5, <1>6, <2>1, SumMoves
<1> QED
  BY <1>4, <1>7

LEMMA QueuedMoves ==
  ASSUME EgressInv, AccountType, DOMAIN slots' = DOMAIN slots, NEW i \in DOMAIN slots, NEW d \in Int,
         \A j \in DOMAIN slots :
            Len(slots'[j].queue) = IF j = i THEN Len(slots[j].queue) + d ELSE Len(slots[j].queue)
  PROVE  SumFunction(Queued)' = SumFunction(Queued) + d
<1>1. Queued \in [DOMAIN slots -> Int]
  BY AccountTerms
<1>2. MovedAt(DOMAIN slots, Queued, Queued', i, d)
  BY DEF Queued, MovedAt
<1>3. Queued' \in [DOMAIN slots -> Int]
  <2>1. \A j \in DOMAIN slots : Queued'[j] \in Int
    BY <1>1, <1>2 DEF MovedAt
  <2> QED
    BY <2>1 DEF Queued
<1>4. SumFunction(Queued') = SumFunction(Queued) + d
  <2>1. IsFiniteSet(DOMAIN slots)
    BY AccountTerms
  <2> QED
    BY <1>1, <1>2, <1>3, <2>1, SumMoves
<1> QED
  BY <1>4

LEMMA QueuedStays ==
  ASSUME DOMAIN slots' = DOMAIN slots, SameQueues(slots, slots')
  PROVE  SumFunction(Queued)' = SumFunction(Queued)
<1>1. Queued' = Queued
  BY DEF Queued, SameQueues
<1> QED
  BY <1>1

\* The balance, before and after a step.
LEMMA Balance ==
  /\ Accounted <=> SumSent = Len(outbound) + Len(routing) + Len(holding) + SumFunction(counts)
                              + SumFunction(Queued) + SumFunction(Recorded)
  /\ Accounted' <=> SumSent' = Len(outbound') + Len(routing') + Len(holding') + SumFunction(counts')
                              + SumFunction(Queued)' + SumFunction(Recorded)'
BY DEF Accounted, Queued, Recorded

LEMMA RelaySendsCounted ==
  ASSUME AccountInv, NEW h \in Hop, RelaySends(h)
  PROVE  AccountType' /\ Accounted'
<1>1. /\ sent' = [sent EXCEPT ![h] = sent[h] + 1]
      /\ outbound' = Append(outbound, [hop |-> h, number |-> sent[h] + 1])
      /\ UNCHANGED << peers, routing, holding, counts, slots, tally >>
  BY DEF RelaySends, configVars, hubVars, drainVars, linkVars
<1>2. sent' \in [Hop -> Int] /\ MovedAt(Hop, sent, sent', h, 1)
  BY <1>1 DEF AccountInv, EgressInv, EgressType, MovedAt
<1>3. SumFunction(sent') = SumFunction(sent) + 1
  <2>1. IsFiniteSet(Hop) /\ sent \in [Hop -> Int]
    BY AccountTerms DEF AccountInv
  <2> QED
    BY <1>2, <2>1, SumMoves
<1>4. Len(outbound') = Len(outbound) + 1
  BY <1>1 DEF AccountInv, EgressInv, EgressType
<1>5. AccountType' /\ SumFunction(Queued)' = SumFunction(Queued)
      /\ SumFunction(Recorded)' = SumFunction(Recorded)
  BY <1>1 DEF AccountInv, AccountType, Queued, Recorded
<1> QED
  BY <1>1, <1>3, <1>4, <1>5, Balance, AccountTerms DEF AccountInv, SumSent

LEMMA RouterCounted ==
  ASSUME AccountInv, RouteExit \/ ExitSend \/ RoutePeer
  PROVE  AccountType' /\ Accounted'
<1>1. UNCHANGED << peers, sent, holding, tally >>
  BY DEF RouteExit, ExitSend, RoutePeer, configVars, relayVars, drainVars, linkVars
<1>2. SumSent' = SumSent /\ SumFunction(Recorded)' = SumFunction(Recorded)
  BY <1>1 DEF SumSent, Recorded
<1>3. outbound # << >> => Len(Tail(outbound)) = Len(outbound) - 1
  BY DEF AccountInv, EgressInv, EgressType
<1>4. CASE RouteExit
  <2>1. /\ outbound # << >> /\ outbound' = Tail(outbound) /\ slots' = slots
        /\ \/ routing' = << Head(outbound) >> /\ counts' = counts
           \/ routing' = routing /\ Count("unrouted")
    BY <1>4 DEF RouteExit, hubVars
  <2>2. routing = << >>
    BY <1>4 DEF RouteExit, AccountInv, EgressInv, RoutesOne
  <2>3. SumFunction(Queued)' = SumFunction(Queued)
    BY <2>1 DEF Queued
  <2>4. CASE routing' = << Head(outbound) >> /\ counts' = counts
    <3>1. Len(routing') = 1 /\ Len(routing) = 0
      BY <2>2, <2>4
    <3>2. AccountType'
      BY <1>1, <2>4 DEF AccountInv, AccountType
    <3> QED
      BY <1>1, <1>2, <1>3, <2>1, <2>3, <2>4, <3>1, <3>2, Balance, AccountTerms DEF AccountInv
  <2>5. CASE routing' = routing /\ Count("unrouted")
    <3>1. counts' \in [Ways -> Nat] /\ SumFunction(counts)' = SumFunction(counts) + 1
      BY <2>5, CountMoves DEF AccountInv, Ways
    <3>2. AccountType'
      BY <1>1, <3>1 DEF AccountInv, AccountType
    <3> QED
      BY <1>1, <1>2, <1>3, <2>1, <2>3, <2>5, <3>1, <3>2, Balance, AccountTerms DEF AccountInv
  <2> QED
    BY <2>1, <2>4, <2>5
<1>5. CASE ExitSend
  <2>1. /\ outbound' = outbound /\ slots' = slots /\ routing' = << >> /\ Count("exited")
    BY <1>5 DEF ExitSend, hubVars
  <2>2. Len(routing) = 1
    <3>1. \E x : routing = << x >>
      BY <1>5 DEF ExitSend, AccountInv, EgressInv, RoutesOne
    <3> QED
      BY <3>1
  <2>3. counts' \in [Ways -> Nat] /\ SumFunction(counts)' = SumFunction(counts) + 1
    BY <2>1, CountMoves DEF AccountInv, Ways
  <2>4. AccountType' /\ SumFunction(Queued)' = SumFunction(Queued) /\ Len(routing') = 0
    BY <1>1, <2>1, <2>3 DEF AccountInv, AccountType, Queued
  <2> QED
    BY <1>1, <1>2, <2>1, <2>2, <2>3, <2>4, Balance, AccountTerms DEF AccountInv
<1>6. CASE RoutePeer
  <2>1. /\ outbound # << >> /\ outbound' = Tail(outbound) /\ routing' = << Head(outbound) >>
        /\ counts' = counts /\ Head(outbound).hop \in peers
    BY <1>6 DEF RoutePeer
  <2>2. routing = << >>
    BY <1>6 DEF RoutePeer, AccountInv, EgressInv, RoutesOne
  <2>3. place[Head(outbound).hop] \in DOMAIN slots
    BY <2>1, QueuesAre DEF AccountInv, EgressInv
  <2>4. DOMAIN slots' = DOMAIN slots /\ SameQueues(slots, slots')
    BY <1>6, <2>3, SetWeightKeeps DEF RoutePeer, AccountInv
  <2>5. SumFunction(Queued)' = SumFunction(Queued)
    BY <2>4, QueuedStays
  <2>6. AccountType' /\ Len(routing') = 1 /\ Len(routing) = 0
    BY <1>1, <2>1, <2>2 DEF AccountInv, AccountType
  <2> QED
    BY <1>1, <1>2, <1>3, <2>1, <2>5, <2>6, Balance, AccountTerms DEF AccountInv
<1> QED
  BY <1>4, <1>5, <1>6

LEMMA RouterPutsCounted ==
  ASSUME AccountInv, RouterPuts
  PROVE  AccountType' /\ Accounted'
<1>1. PICK x \in Packet : routing = << x >> /\ x.hop \in peers
  BY DEF AccountInv, EgressInv, RoutesOne, RouterPuts
<1> DEFINE i == place[x.hop]
<1>2. /\ routing[1] = x /\ i \in DOMAIN slots /\ routing' = << >>
      /\ UNCHANGED << peers, outbound, sent, holding, tally >>
  BY <1>1, QueuesAre DEF AccountInv, EgressInv, RouterPuts, configVars, relayVars, drainVars, linkVars
<1>3. /\ SumSent' = SumSent /\ SumFunction(Recorded)' = SumFunction(Recorded)
      /\ Len(routing) = 1 /\ Len(routing') = 0
  BY <1>1, <1>2 DEF SumSent, Recorded
<1>4. CASE slots' = FQ!Put(slots, i, x) /\ counts' = counts
  <2>1. /\ DOMAIN slots = 1 .. Len(slots) /\ slots[i] \in Slot /\ slots[i].queue \in Seq(Packet)
    BY <1>2, QueuesAre DEF AccountInv, EgressInv
  <2> DEFINE more == Append(slots[i].queue, x)
             longer == [slots[i] EXCEPT !.queue = more]
  <2>2. more \in Seq(Packet) /\ Len(more) = Len(slots[i].queue) + 1
    BY <2>1
  <2>3. slots' = [slots EXCEPT ![i] = longer]
    BY <1>4 DEF FQ!Put
  <2> HIDE DEF more
  <2>4. longer.queue = more
    BY <2>1, <2>2, QueueChange
  <2> HIDE DEF longer, i
  <2>5. DOMAIN slots' = DOMAIN slots
        /\ \A j \in DOMAIN slots : slots'[j].queue = IF j = i THEN more ELSE slots[j].queue
    BY <1>2, <2>3, <2>4
  <2>6. SumFunction(Queued)' = SumFunction(Queued) + 1
    BY <1>2, <2>2, <2>5, QueuedMoves DEF AccountInv
  <2>7. AccountType'
    BY <1>2, <1>4 DEF AccountInv, AccountType
  <2> QED
    BY <1>2, <1>3, <1>4, <2>6, <2>7, Balance, AccountTerms DEF AccountInv
<1>5. CASE slots' = slots /\ Count("dropped")
  <2>1. counts' \in [Ways -> Nat] /\ SumFunction(counts)' = SumFunction(counts) + 1
    BY <1>5, CountMoves DEF AccountInv, Ways
  <2>2. AccountType' /\ SumFunction(Queued)' = SumFunction(Queued)
    BY <1>2, <1>5, <2>1 DEF AccountInv, AccountType, Queued
  <2> QED
    BY <1>2, <1>3, <2>1, <2>2, Balance, AccountTerms DEF AccountInv
<1> QED
  BY <1>2, <1>4, <1>5 DEF RouterPuts

LEMMA DrainScansCounted ==
  ASSUME AccountInv, DrainScans
  PROVE  AccountType' /\ Accounted'
<1> DEFINE take == FQ!TakeOne(slots, cursor)
<1>1. holding = << >> /\ UNCHANGED << peers, outbound, sent, routing, counts, tally >>
  BY DEF DrainScans, AccountInv, EgressInv, HoldsOne, Forwarding, configVars, relayVars, routerVars, linkVars
<1>2. /\ SumSent' = SumSent /\ SumFunction(Recorded)' = SumFunction(Recorded)
      /\ AccountType' /\ Len(holding) = 0
  BY <1>1 DEF SumSent, Recorded, AccountInv, AccountType
<1>3. CASE UNCHANGED << slots, holding >>
  <2>1. SumFunction(Queued)' = SumFunction(Queued)
    BY <1>3 DEF Queued
  <2> QED
    BY <1>1, <1>2, <1>3, <2>1, Balance DEF AccountInv
<1>4. CASE slots # << >> /\ slots' = take.slots /\ holding' = take.item
  <2>1. slots \in Seq(Slot) /\ AllLive(slots) /\ cursor \in Nat
    BY DEF AccountInv, EgressInv, EgressType
  <2>2. /\ DOMAIN slots' = DOMAIN slots
        /\ \/ holding' = << >> /\ SameQueues(slots, slots')
           \/ \E i \in DOMAIN slots :
                /\ slots[i].queue # << >>
                /\ holding' = << Head(slots[i].queue) >>
                /\ HeadTaken(slots, slots', i)
    BY <1>4, <2>1, TakeOneTakesHead
  <2>3. CASE holding' = << >> /\ SameQueues(slots, slots')
    <3>1. SumFunction(Queued)' = SumFunction(Queued)
      BY <2>2, <2>3, QueuedStays
    <3> QED
      BY <1>1, <1>2, <2>3, <3>1, Balance DEF AccountInv
  <2>4. ASSUME NEW i \in DOMAIN slots, slots[i].queue # << >>,
               holding' = << Head(slots[i].queue) >>, HeadTaken(slots, slots', i)
        PROVE  Accounted'
    <3>1. slots[i].queue \in Seq(Packet)
      BY QueuesAre DEF AccountInv, EgressInv
    <3>2. Len(Tail(slots[i].queue)) = Len(slots[i].queue) - 1 /\ Len(slots[i].queue) \in Nat
      BY <2>4, <3>1
    <3>3. \A j \in DOMAIN slots :
            Len(slots'[j].queue) = IF j = i THEN Len(slots[j].queue) + (-1) ELSE Len(slots[j].queue)
      BY <2>4, <3>2 DEF HeadTaken
    <3>4. SumFunction(Queued)' = SumFunction(Queued) + (-1)
      BY <2>2, <3>3, QueuedMoves DEF AccountInv
    <3>5. Len(holding') = 1
      BY <2>4
    <3> QED
      BY <1>1, <1>2, <3>4, <3>5, Balance, AccountTerms DEF AccountInv
  <2> QED
    BY <1>2, <2>2, <2>3, <2>4
<1> QED
  BY <1>3, <1>4 DEF DrainScans

\* A forward ends in one outcome, whichever of its steps ends it.
LEMMA ForwardEndsCounted ==
  ASSUME AccountInv, drain \in Forwarding, NEW outcome \in {"ok", "fail"}, Finish(outcome),
         UNCHANGED << peers, outbound, sent, routing, counts, slots >>
  PROVE  AccountType' /\ Accounted'
<1>1. PICK x \in Packet : holding = << x >> /\ x.hop \in peers
  BY DEF AccountInv, EgressInv, HoldsOne, Forwarding
<1>2. Peer \in peers /\ Len(holding) = 1
  BY <1>1 DEF Peer
<1>3. tally' \in [peers -> [ok : Nat, fail : Nat]] /\ SumFunction(Recorded)' = SumFunction(Recorded) + 1
  BY <1>2, TallyMoves DEF AccountInv, Finish
<1>4. /\ AccountType' /\ SumSent' = SumSent /\ SumFunction(Queued)' = SumFunction(Queued)
      /\ Len(holding') = 0
  BY <1>3 DEF AccountInv, AccountType, SumSent, Queued, Finish
<1> QED
  BY <1>2, <1>3, <1>4, Balance, AccountTerms DEF AccountInv

accountVars == << peers, outbound, sent, routing, holding, counts, slots, tally >>

LEMMA ForwardStepCounted ==
  ASSUME AccountInv, ForwardStep
  PROVE  (AccountType' /\ Accounted') \/ UNCHANGED accountVars
<1>1. \/ UNCHANGED accountVars
      \/ /\ drain \in Forwarding /\ UNCHANGED << peers, outbound, sent, routing, counts, slots >>
         /\ Finish("ok") \/ Finish("fail")
  BY DEF ForwardStep, DrainOpens, WriteWhole, WriteBreaks, SealFails, Reopen, RewriteBreaks,
         Forwarding, accountVars, configVars, relayVars, routerVars, hubVars
<1> QED
  BY <1>1, ForwardEndsCounted

LEMMA AccountStays ==
  ASSUME AccountInv, UNCHANGED accountVars
  PROVE  AccountType' /\ Accounted'
BY DEF AccountInv, AccountType, Accounted, SumSent, accountVars

LEMMA AccountNext == AccountInv /\ [Next]_vars => AccountInv'
<1> SUFFICES ASSUME AccountInv, [Next]_vars PROVE AccountInv'
  OBVIOUS
<1>1. EgressInv'
  BY EgressInvNext DEF AccountInv
<1>2. CASE \E h \in Hop : RelaySends(h)
  BY <1>1, <1>2, RelaySendsCounted DEF AccountInv
<1>3. CASE RouteExit \/ ExitSend \/ RoutePeer
  BY <1>1, <1>3, RouterCounted DEF AccountInv
<1>4. CASE RouterPuts
  BY <1>1, <1>4, RouterPutsCounted DEF AccountInv
<1>5. CASE DrainScans
  BY <1>1, <1>5, DrainScansCounted DEF AccountInv
<1>6. CASE ForwardStep
  BY <1>1, <1>6, ForwardStepCounted, AccountStays DEF AccountInv
<1>7. CASE \/ RelayStops \/ ExitTakes \/ RouterNotifies \/ RouterEnds \/ RouterJoins
           \/ DrainStops \/ DrainLooksAgain \/ DrainPolls \/ DrainWakes \/ DrainLocks
           \/ (\E p \in peers : PeerCloses(p)) \/ OthersLock \/ OthersUnlock \/ UNCHANGED vars
  <2>1. UNCHANGED accountVars
    BY <1>7 DEF RelayStops, ExitTakes, RouterNotifies, RouterEnds, RouterJoins, DrainStops,
                DrainLooksAgain, DrainPolls, DrainWakes, DrainLocks, PeerCloses, OthersLock,
                OthersUnlock, vars, accountVars, configVars, relayVars, routerVars, hubVars,
                drainVars, linkVars
  <2> QED
    BY <1>1, <2>1, AccountStays DEF AccountInv
<1> QED
  BY <1>2, <1>3, <1>4, <1>5, <1>6, <1>7 DEF Next, RouterStep, DrainStep

\* Every packet the relay sent is on its way, left for the exit, was dropped for want of
\* a route or of room, or has one outcome recorded for its next hop
\* (spawn_outbound_dispatcher, forward_to_peer), for every peer table, every size of
\* channels and queues and every weight, however connections break and are opened again.
THEOREM PacketsAlwaysAccounted == Spec => []Accounted
<1>1. AccountInv => Accounted
  BY DEF AccountInv
<1> QED
  BY AccountInit, AccountNext, <1>1, PTL DEF Spec

=============================================================================
