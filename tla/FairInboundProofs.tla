-------------------------- MODULE FairInboundProofs -------------------------
(***************************************************************************)
(* Two promises of the fair inbound hub, for every set of connections,     *)
(* every size of queue and channel and every weight: a connection's        *)
(* packets stay in the order it reassembled them, and no connection with   *)
(* packets queued is passed over for more than one full visit to each      *)
(* other slot, however connections come, go and change weight.             *)
(***************************************************************************)
EXTENDS FairInbound, FunctionTheorems, FiniteSetTheorems, SequenceTheorems,
        WellFoundedInduction, TLAPS

Numbered == [from : Conn, number : Nat]
Slot == [live : BOOLEAN, queue : Seq(Numbered), weight : 0 .. MaxWeight, credits : 0 .. MaxWeight]

InboundType ==
  /\ slots \in Seq(Slot) /\ cursor \in 0 .. Len(slots)
  /\ place \in [Conn -> 0 .. Len(slots)]
  /\ conn \in [Conn -> {"new", "accepted", "registered", "ready", "notifying",
                        "closed", "rejected"}]
  /\ sent \in [Conn -> Nat] /\ got \in [Conn -> Nat] /\ bypass \in [Conn -> Nat]
  /\ shared \in Seq(Numbered)

\* The drain holds one packet while it delivers, and none otherwise.
HoldsOne ==
  IF drain = "deliver" THEN \E x \in Numbered : holding = << x >> ELSE holding = << >>

\* Only a freed place weighs nothing, so every visit is of one packet at least.
Weighted(table) == \A i \in DOMAIN table : table[i].weight = 0 => FQ!IsFree(table[i])

\* Credits are left over at the cursor alone.
Spent(table, at) == \A i \in DOMAIN table : i # at + 1 => table[i].credits = 0

\* A task between its registration and its end.
Active(c) == conn[c] \in {"registered", "ready", "notifying"}

QueueOf(c) == IF place[c] = 0 THEN << >> ELSE slots[place[c]].queue

\* A slot belongs to one connection, and what others queued there is gone.
Owned ==
  /\ \A c \in Conn : Active(c) =>
       /\ place[c] \in DOMAIN slots /\ slots[place[c]].live
       /\ \A x \in Range(QueueOf(c)) : x.from = c
       /\ \A d \in Conn : Active(d) /\ place[d] = place[c] => d = c
  /\ \A c \in Conn : conn[c] \in {"new", "accepted"} => place[c] = 0
  /\ \A i \in DOMAIN slots : \A x, y \in Range(slots[i].queue) :
       x.from = y.from /\ place[x.from] = i

Rising(c, q) ==
  \A j, k \in DOMAIN q :
    j < k /\ q[j].from = c /\ q[k].from = c => q[j].number < q[k].number

Before(c, S, T) ==
  \A x \in S, y \in T : x.from = c /\ y.from = c => x.number < y.number

\* From stage to stage the numbers of a connection go up.
InOrder(c) ==
  LET S == Range(shared)
      H == Range(holding)
      Q == Range(QueueOf(c))
  IN  /\ Rising(c, shared) /\ Rising(c, QueueOf(c))
      /\ Before(c, S, H \cup Q) /\ Before(c, H, Q)
      /\ \A x \in S \cup H \cup Q : x.from = c => got[c] < x.number /\ x.number <= sent[c]
      /\ got[c] <= sent[c]

\* How many slots the cursor meets before the one at place i.
Dist(n, k, i) == IF k < i THEN i - 1 - k ELSE i - 1 - k + n

\* What the drain can still take at the slot it stands at.
Left(table, k) ==
  IF k + 1 \in DOMAIN table /\ table[k + 1].credits # 0 THEN table[k + 1].credits ELSE MaxWeight

\* What it can still take before it comes to place i.
Ahead(table, k, i) ==
  LET d == Dist(Len(table), k, i)
  IN  IF d = 0 THEN 0 ELSE (d - 1) * MaxWeight + Left(table, k)

WaitingIn(table, c) ==
  \E i \in DOMAIN table, k \in 1 .. QueueCap :
    k <= Len(table[i].queue) /\ table[i].queue[k].from = c

\* What went before a waiting connection and what still can make one full round.
RoundIn(table, k, i, c, before) ==
  IF WaitingIn(table, c)
  THEN before + Ahead(table, k, i) <= (Len(table) - 1) * MaxWeight
  ELSE before = 0

Round(c) == RoundIn(slots, cursor, place[c], c, bypass[c])

HubInv ==
  /\ InboundType /\ HoldsOne /\ Weighted(slots) /\ Spent(slots, cursor) /\ Owned
  /\ \A c \in Conn : InOrder(c)
  /\ \A c \in Conn : Round(c)

-----------------------------------------------------------------------------
\* Sequences, by what they hold.
LEMMA RangeParts ==
  ASSUME NEW S, NEW q \in Seq(S)
  PROVE  /\ Range(q) \subseteq S
         /\ q = << >> => Range(q) = {}
         /\ q # << >> => /\ Head(q) \in S /\ Tail(q) \in Seq(S)
                         /\ Range(q) = {Head(q)} \cup Range(Tail(q))
         /\ \A x \in S : Append(q, x) \in Seq(S) /\ Range(Append(q, x)) = Range(q) \cup {x}
<1>1. Len(q) \in Nat /\ DOMAIN q = 1 .. Len(q) /\ \A i \in 1 .. Len(q) : q[i] \in S
  BY LenProperties, ElementOfSeq
<1>2. Range(q) \subseteq S /\ (q = << >> => Range(q) = {})
  BY <1>1 DEF Range
<1>3. ASSUME q # << >>
      PROVE  Head(q) \in S /\ Tail(q) \in Seq(S) /\ Range(q) = {Head(q)} \cup Range(Tail(q))
  <2>1. /\ Head(q) = q[1] /\ Tail(q) \in Seq(S) /\ Len(Tail(q)) = Len(q) - 1 /\ Len(q) # 0
        /\ \A i \in 1 .. Len(Tail(q)) : Tail(q)[i] = q[i + 1]
    BY <1>3, HeadTailProperties, EmptySeq
  <2>2. DOMAIN Tail(q) = 1 .. Len(q) - 1
    BY <2>1, LenProperties
  <2>3. Range(q) \subseteq {Head(q)} \cup Range(Tail(q))
    <3> SUFFICES ASSUME NEW i \in 1 .. Len(q), i # 1 PROVE q[i] \in Range(Tail(q))
      BY <1>1, <2>1 DEF Range
    <3>1. i - 1 \in 1 .. Len(q) - 1 /\ Tail(q)[i - 1] = q[i]
      BY <1>1, <2>1
    <3> QED
      BY <2>2, <3>1 DEF Range
  <2>4. Range(Tail(q)) \subseteq Range(q)
    <3> SUFFICES ASSUME NEW i \in 1 .. Len(q) - 1 PROVE Tail(q)[i] \in Range(q)
      BY <2>2 DEF Range
    <3>1. i + 1 \in 1 .. Len(q) /\ Tail(q)[i] = q[i + 1]
      BY <1>1, <2>1
    <3> QED
      BY <1>1, <3>1 DEF Range
  <2>5. Head(q) \in Range(q) /\ Head(q) \in S
    BY <1>1, <2>1 DEF Range
  <2> QED
    BY <2>1, <2>3, <2>4, <2>5
<1>4. ASSUME NEW x \in S
      PROVE  Append(q, x) \in Seq(S) /\ Range(Append(q, x)) = Range(q) \cup {x}
  <2>1. /\ Append(q, x) \in Seq(S) /\ Len(Append(q, x)) = Len(q) + 1
        /\ \A i \in 1 .. Len(q) : Append(q, x)[i] = q[i]
        /\ Append(q, x)[Len(q) + 1] = x
    BY AppendProperties
  <2>2. DOMAIN Append(q, x) = 1 .. Len(q) + 1
    BY <2>1, LenProperties
  <2>3. 1 .. Len(q) + 1 = 1 .. Len(q) \cup {Len(q) + 1}
    BY <1>1
  <2> QED
    BY <1>1, <2>1, <2>2, <2>3 DEF Range
<1> QED
  BY <1>2, <1>3, <1>4

LEMMA RangeOfOne == ASSUME NEW x PROVE Range(<< x >>) = {x}
BY DEF Range

LEMMA RangeOfNone == Range(<< >>) = {}
BY DEF Range

\* A queue that rises goes on to rise, at its head, its tail and its end.
LEMMA RisingParts ==
  ASSUME NEW q \in Seq(Numbered), NEW p, Rising(p, q)
  PROVE  /\ q # << >> => /\ Rising(p, Tail(q))
                         /\ Before(p, {Head(q)}, Range(Tail(q)))
         /\ \A x \in Numbered : Before(p, Range(q), {x}) => Rising(p, Append(q, x))
<1>1. Len(q) \in Nat /\ DOMAIN q = 1 .. Len(q)
  BY LenProperties
<1>2. ASSUME q # << >>
      PROVE  Rising(p, Tail(q)) /\ Before(p, {Head(q)}, Range(Tail(q)))
  <2>1. /\ Head(q) = q[1] /\ Tail(q) \in Seq(Numbered) /\ Len(Tail(q)) = Len(q) - 1 /\ Len(q) # 0
        /\ \A i \in 1 .. Len(Tail(q)) : Tail(q)[i] = q[i + 1]
    BY <1>2, HeadTailProperties, EmptySeq
  <2>2. DOMAIN Tail(q) = 1 .. Len(q) - 1
    BY <2>1, LenProperties
  <2>3. \A i \in DOMAIN Tail(q) : i \in Nat /\ i + 1 \in DOMAIN q /\ 1 < i + 1 /\ Tail(q)[i] = q[i + 1]
    BY <1>1, <2>1, <2>2
  <2>4. Rising(p, Tail(q))
    <3> SUFFICES ASSUME NEW j \in DOMAIN Tail(q), NEW k \in DOMAIN Tail(q), j < k,
                        Tail(q)[j].from = p, Tail(q)[k].from = p
                 PROVE  Tail(q)[j].number < Tail(q)[k].number
      BY DEF Rising
    <3>1. j + 1 < k + 1
      BY <2>3
    <3> QED
      BY <2>3, <3>1 DEF Rising
  <2>5. 1 \in DOMAIN q
    BY <1>1, <2>1
  <2> QED
    BY <2>1, <2>3, <2>4, <2>5 DEF Rising, Before, Range
<1>3. ASSUME NEW x \in Numbered, Before(p, Range(q), {x})
      PROVE  Rising(p, Append(q, x))
  <2>1. /\ Len(Append(q, x)) = Len(q) + 1 /\ Append(q, x) \in Seq(Numbered)
        /\ \A i \in 1 .. Len(q) : Append(q, x)[i] = q[i]
        /\ Append(q, x)[Len(q) + 1] = x
    BY AppendProperties
  <2>2. DOMAIN Append(q, x) = 1 .. Len(q) + 1
    BY <2>1, LenProperties
  <2> SUFFICES ASSUME NEW j \in 1 .. Len(q) + 1, NEW k \in 1 .. Len(q) + 1, j < k,
                      Append(q, x)[j].from = p, Append(q, x)[k].from = p
               PROVE  Append(q, x)[j].number < Append(q, x)[k].number
    BY <2>2 DEF Rising
  <2>3. j \in DOMAIN q /\ Append(q, x)[j] = q[j]
    BY <1>1, <2>1
  <2>4. CASE k = Len(q) + 1
    BY <1>3, <2>1, <2>3, <2>4 DEF Before, Range
  <2>5. CASE k # Len(q) + 1
    <3>1. k \in DOMAIN q /\ Append(q, x)[k] = q[k]
      BY <1>1, <2>1, <2>5
    <3> QED
      BY <2>3, <3>1 DEF Rising
  <2> QED
    BY <2>4, <2>5
<1> QED
  BY <1>2, <1>3

\* Two queues, one behind the other.
LEMMA RisingConcat ==
  ASSUME NEW q \in Seq(Numbered), NEW r \in Seq(Numbered), NEW p,
         Rising(p, q), Rising(p, r), Before(p, Range(q), Range(r))
  PROVE  /\ q \o r \in Seq(Numbered)
         /\ Rising(p, q \o r)
         /\ Range(q \o r) = Range(q) \cup Range(r)
<1>1. /\ Len(q) \in Nat /\ DOMAIN q = 1 .. Len(q)
      /\ Len(r) \in Nat /\ DOMAIN r = 1 .. Len(r)
  BY LenProperties
<1>2. /\ q \o r \in Seq(Numbered) /\ Len(q \o r) = Len(q) + Len(r)
      /\ \A i \in 1 .. Len(q) + Len(r) :
           (q \o r)[i] = IF i <= Len(q) THEN q[i] ELSE r[i - Len(q)]
  BY ConcatProperties
<1>3. DOMAIN (q \o r) = 1 .. Len(q) + Len(r)
  BY <1>2, LenProperties
<1> DEFINE s == q \o r
<1>4. \A i \in DOMAIN s :
        \/ i \in DOMAIN q /\ s[i] = q[i]
        \/ i - Len(q) \in DOMAIN r /\ s[i] = r[i - Len(q)] /\ i > Len(q)
  BY <1>1, <1>2, <1>3
<1>5. Rising(p, s)
  <2> HIDE DEF s
  <2> SUFFICES ASSUME NEW j \in DOMAIN s, NEW k \in DOMAIN s, j < k, s[j].from = p, s[k].from = p
               PROVE  s[j].number < s[k].number
    BY DEF Rising
  <2>1. j \in Nat /\ k \in Nat
    BY <1>1, <1>3 DEF s
  <2>2. CASE j \in DOMAIN q /\ s[j] = q[j] /\ k \in DOMAIN q /\ s[k] = q[k]
    BY <2>2 DEF Rising
  <2>3. CASE j \in DOMAIN q /\ s[j] = q[j] /\ k - Len(q) \in DOMAIN r /\ s[k] = r[k - Len(q)]
    BY <2>3 DEF Before, Range
  <2>4. CASE j - Len(q) \in DOMAIN r /\ s[j] = r[j - Len(q)]
             /\ k - Len(q) \in DOMAIN r /\ s[k] = r[k - Len(q)]
    <3>1. j - Len(q) < k - Len(q)
      BY <1>1, <2>1
    <3> QED
      BY <2>4, <3>1 DEF Rising
  <2>5. ~ (j > Len(q) /\ k \in DOMAIN q)
    BY <1>1, <2>1
  <2> QED
    BY <1>4, <2>2, <2>3, <2>4, <2>5
<1>6. Range(s) = Range(q) \cup Range(r)
  <2>1. Range(s) \subseteq Range(q) \cup Range(r)
    BY <1>4 DEF Range
  <2>2. ASSUME NEW i \in DOMAIN q PROVE q[i] \in Range(s)
    <3>1. i \in DOMAIN s /\ s[i] = q[i]
      BY <1>1, <1>2, <1>3
    <3> QED
      BY <3>1 DEF Range
  <2>3. ASSUME NEW i \in DOMAIN r PROVE r[i] \in Range(s)
    <3>1. i + Len(q) \in DOMAIN s /\ s[i + Len(q)] = r[i]
      BY <1>1, <1>2, <1>3
    <3> HIDE DEF s
    <3> QED
      BY <3>1 DEF Range
  <2> QED
    BY <2>1, <2>2, <2>3 DEF Range
<1> QED
  BY <1>2, <1>5, <1>6

-----------------------------------------------------------------------------
(***************************************************************************)
(* Places of the table, from the cursor on.                                *)
(***************************************************************************)
LEMMA ModSmall ==
  ASSUME NEW n \in Nat, n # 0, NEW x \in Nat, x < n + n
  PROVE  x % n = IF x < n THEN x ELSE x - n
<1> DEFINE r == x % n
           d == x \div n
<1>1. r \in 0 .. n - 1 /\ d \in Nat /\ x = n * d + r
  OBVIOUS
<1> HIDE DEF r, d
<1>2. CASE d = 0
  BY <1>1, <1>2 DEF r
<1>3. CASE d = 1
  BY <1>1, <1>3 DEF r
<1>4. CASE d >= 2
  <2>1. PICK e \in Nat : d = e + 2
    BY <1>1, <1>4
  <2>2. n * d = n * e + n + n /\ n * e \in Nat
    BY <2>1
  <2> QED
    BY <1>1, <2>2
<1> QED
  BY <1>1, <1>2, <1>3, <1>4

LEMMA PlaceAt ==
  ASSUME NEW table \in Seq(Slot), table # << >>, NEW k \in 0 .. Len(table)
  PROVE  /\ \A s \in 0 .. Len(table) - 1 :
              /\ FQ!Place(table, k, s) \in DOMAIN table
              /\ Dist(Len(table), k, FQ!Place(table, k, s)) = s
         /\ \A i \in DOMAIN table :
              /\ Dist(Len(table), k, i) \in 0 .. Len(table) - 1
              /\ FQ!Place(table, k, Dist(Len(table), k, i)) = i
<1> DEFINE n == Len(table)
<1>1. n \in Nat /\ n # 0 /\ DOMAIN table = 1 .. n
  BY LenProperties, EmptySeq
<1> HIDE DEF n
<1>2. ASSUME NEW s \in 0 .. n - 1
      PROVE  FQ!Place(table, k, s) = IF k + s < n THEN k + s + 1 ELSE k + s - n + 1
  <2>1. k \in 0 .. n
    BY DEF n
  <2>2. k + s \in Nat /\ k + s < n + n
    BY <1>1, <2>1
  <2> DEFINE x == k + s
  <2> HIDE DEF x
  <2>3. x % n = IF x < n THEN x ELSE x - n
    <3>1. x \in Nat /\ x < n + n
      BY <2>2 DEF x
    <3> QED
      BY <1>1, <3>1, ModSmall
  <2> QED
    BY <2>3 DEF FQ!Place, n, x
<1>3. ASSUME NEW s \in 0 .. n - 1
      PROVE  FQ!Place(table, k, s) \in 1 .. n /\ Dist(n, k, FQ!Place(table, k, s)) = s
  <2>1. k \in 0 .. n
    BY DEF n
  <2> QED
    BY <1>1, <1>2, <2>1 DEF Dist
<1>4. ASSUME NEW i \in 1 .. n
      PROVE  Dist(n, k, i) \in 0 .. n - 1 /\ FQ!Place(table, k, Dist(n, k, i)) = i
  <2>1. k \in 0 .. n
    BY DEF n
  <2>2. Dist(n, k, i) \in 0 .. n - 1
    BY <1>1, <2>1 DEF Dist
  <2> QED
    BY <1>1, <1>2, <2>1, <2>2 DEF Dist
<1> QED
  BY <1>1, <1>3, <1>4 DEF n

LEMMA LeastOfNaturals ==
  ASSUME NEW S, S \subseteq Nat, S # {}
  PROVE  FQ!Min(S) \in S /\ \A y \in S : FQ!Min(S) <= y
<1>1. PICK x \in S : \A y \in S : ~ << y, x >> \in OpToRel(<, Nat)
  BY NatLessThanWellFounded, WFMin
<1>2. ASSUME NEW y \in S PROVE x =< y
  <2>1. << y, x >> \in Nat \X Nat /\ << y, x >>[1] = y /\ << y, x >>[2] = x
    OBVIOUS
  <2>2. << y, x >> \in OpToRel(<, Nat)
        <=> << y, x >> \in Nat \X Nat /\ << y, x >>[1] < << y, x >>[2]
    BY Zenon DEF OpToRel
  <2>3. ~ y < x
    BY <1>1, <2>1, <2>2, Zenon
  <2> QED
    BY <2>3
<1> QED
  BY <1>2 DEF FQ!Min

-----------------------------------------------------------------------------
(***************************************************************************)
(* What fair_wfq_take_one does, whatever weights and credits are: it takes *)
(* the head of the first queue it meets that has one.                      *)
(***************************************************************************)
SameQueues(old, new) == \A i \in DOMAIN old : new[i].queue = old[i].queue

HeadTaken(old, new, i) ==
  \A j \in DOMAIN old : new[j].queue = IF j = i THEN Tail(old[j].queue) ELSE old[j].queue

StillLive(old, new) == \A i \in DOMAIN old : old[i].live => new[i].live

\* The queue at place i is the first with a packet, and r the credits of its visit.
TakesAt(old, k, new, at, i) ==
  /\ old[i].queue # << >>
  /\ \A j \in DOMAIN old :
       Dist(Len(old), k, j) < Dist(Len(old), k, i) => old[j].queue = << >>
  /\ HeadTaken(old, new, i)
  /\ LET r == FQ!Refilled(old[i])
     IN  /\ r \in 1 .. MaxWeight
         /\ new[i].credits = r - 1
         /\ at = IF r = 1 THEN i ELSE i - 1

LEMMA WeightChange ==
  ASSUME NEW slot \in Slot, NEW w \in 0 .. MaxWeight
  PROVE  /\ [slot EXCEPT !.weight = w] \in Slot
         /\ [slot EXCEPT !.weight = w].queue = slot.queue
         /\ [slot EXCEPT !.weight = w].live = slot.live
         /\ [slot EXCEPT !.weight = w].credits = slot.credits
         /\ [slot EXCEPT !.weight = w].weight = w
<1>1. [slot EXCEPT !.weight = w] \in Slot
  BY DEF Slot
<1>2. [slot EXCEPT !.weight = w].queue = slot.queue
  BY DEF Slot
<1>3. [slot EXCEPT !.weight = w].live = slot.live
  BY DEF Slot
<1>4. [slot EXCEPT !.weight = w].credits = slot.credits
  BY DEF Slot
<1>5. [slot EXCEPT !.weight = w].weight = w
  BY DEF Slot
<1> QED
  BY <1>1, <1>2, <1>3, <1>4, <1>5

LEMMA CreditsChange ==
  ASSUME NEW slot \in Slot, NEW w \in 0 .. MaxWeight
  PROVE  /\ [slot EXCEPT !.credits = w] \in Slot
         /\ [slot EXCEPT !.credits = w].queue = slot.queue
         /\ [slot EXCEPT !.credits = w].live = slot.live
         /\ [slot EXCEPT !.credits = w].credits = w
         /\ [slot EXCEPT !.credits = w].weight = slot.weight
<1>1. [slot EXCEPT !.credits = w] \in Slot
  BY DEF Slot
<1>2. [slot EXCEPT !.credits = w].queue = slot.queue
  BY DEF Slot
<1>3. [slot EXCEPT !.credits = w].live = slot.live
  BY DEF Slot
<1>4. [slot EXCEPT !.credits = w].credits = w
  BY DEF Slot
<1>5. [slot EXCEPT !.credits = w].weight = slot.weight
  BY DEF Slot
<1> QED
  BY <1>1, <1>2, <1>3, <1>4, <1>5

LEMMA QueueChange ==
  ASSUME NEW slot \in Slot, NEW q \in Seq(Numbered)
  PROVE  /\ [slot EXCEPT !.queue = q] \in Slot
         /\ [slot EXCEPT !.queue = q].queue = q
         /\ [slot EXCEPT !.queue = q].live = slot.live
         /\ [slot EXCEPT !.queue = q].credits = slot.credits
         /\ [slot EXCEPT !.queue = q].weight = slot.weight
<1>1. [slot EXCEPT !.queue = q] \in Slot
  BY DEF Slot
<1>2. [slot EXCEPT !.queue = q].queue = q
  BY DEF Slot
<1>3. [slot EXCEPT !.queue = q].live = slot.live
  BY DEF Slot
<1>4. [slot EXCEPT !.queue = q].credits = slot.credits
  BY DEF Slot
<1>5. [slot EXCEPT !.queue = q].weight = slot.weight
  BY DEF Slot
<1> QED
  BY <1>1, <1>2, <1>3, <1>4, <1>5

LEMMA Hanging ==
  ASSUME NEW slot \in Slot
  PROVE  /\ [slot EXCEPT !.live = FALSE] \in Slot
         /\ [slot EXCEPT !.live = FALSE].queue = slot.queue
         /\ [slot EXCEPT !.live = FALSE].live = FALSE
         /\ [slot EXCEPT !.live = FALSE].credits = slot.credits
         /\ [slot EXCEPT !.live = FALSE].weight = slot.weight
<1>1. [slot EXCEPT !.live = FALSE] \in Slot
  BY DEF Slot
<1>2. [slot EXCEPT !.live = FALSE].queue = slot.queue
  BY DEF Slot
<1>3. [slot EXCEPT !.live = FALSE].live = FALSE
  BY DEF Slot
<1>4. [slot EXCEPT !.live = FALSE].credits = slot.credits
  BY DEF Slot
<1>5. [slot EXCEPT !.live = FALSE].weight = slot.weight
  BY DEF Slot
<1> QED
  BY <1>1, <1>2, <1>3, <1>4, <1>5

LEMMA SlotHas ==
  ASSUME NEW slot \in Slot
  PROVE  /\ slot.live \in BOOLEAN /\ slot.queue \in Seq(Numbered)
         /\ slot.weight \in 0 .. MaxWeight /\ slot.credits \in 0 .. MaxWeight
BY DEF Slot

LEMMA FreeIs ==
  /\ FQ!Free \in Slot /\ ~ FQ!Free.live /\ FQ!Free.queue = << >>
  /\ FQ!Free.weight = 0 /\ FQ!Free.credits = 0
BY FairInboundAssumption, EmptySeq DEF FQ!Free, Slot

LEMMA NewSlotIs ==
  LET slot == FQ!NewSlot(FQ!DefaultWeight)
  IN  slot \in Slot /\ slot.live /\ slot.queue = << >> /\ slot.weight = 1 /\ slot.credits = 0
BY FairInboundAssumption, EmptySeq DEF FQ!NewSlot, FQ!DefaultWeight, Slot

LEMMA PassedIs ==
  ASSUME NEW slot \in Slot, slot.weight = 0 => FQ!IsFree(slot), slot.queue = << >>
  PROVE  /\ FQ!Passed(slot) \in Slot /\ FQ!Passed(slot).queue = << >>
         /\ FQ!Passed(slot).credits = 0
         /\ slot.live => FQ!Passed(slot).live
         /\ FQ!Passed(slot).weight = 0 => FQ!IsFree(FQ!Passed(slot))
<1>1. CASE ~ FQ!IsFree(slot) /\ slot.live
  <2>1. FQ!Passed(slot) = [slot EXCEPT !.credits = 0]
    BY <1>1 DEF FQ!Passed
  <2>2. 0 \in 0 .. MaxWeight
    BY FairInboundAssumption
  <2> QED
    BY <1>1, <2>1, <2>2, CreditsChange
<1>2. CASE FQ!IsFree(slot) \/ ~ slot.live
  <2>1. FQ!Passed(slot) = FQ!Free
    BY <1>2 DEF FQ!Passed
  <2>2. slot.live => FALSE
    BY <1>2, FreeIs DEF FQ!IsFree
  <2> QED
    BY <2>1, <2>2, FreeIs DEF FQ!IsFree
<1> QED
  BY <1>1, <1>2

LEMMA ServedIs ==
  ASSUME NEW slot \in Slot, slot.weight = 0 => FQ!IsFree(slot), slot.queue # << >>
  PROVE  /\ FQ!Refilled(slot) \in 1 .. MaxWeight
         /\ FQ!Served(slot) \in Slot /\ FQ!Served(slot).queue = Tail(slot.queue)
         /\ FQ!Served(slot).credits = FQ!Refilled(slot) - 1
         /\ FQ!Served(slot).live = slot.live
         /\ FQ!Served(slot).weight # 0
<1>1. slot.weight # 0 /\ slot.weight \in 0 .. MaxWeight /\ slot.credits \in 0 .. MaxWeight
      /\ slot.queue \in Seq(Numbered) /\ MaxWeight \in Nat
  BY FreeIs, SlotHas, FairInboundAssumption DEF FQ!IsFree
<1>2. FQ!Refilled(slot) \in 1 .. MaxWeight
  BY <1>1 DEF FQ!Refilled
<1> DEFINE q == Tail(slot.queue)
           left == FQ!Refilled(slot) - 1
           shorter == [slot EXCEPT !.queue = q]
<1>3. q \in Seq(Numbered) /\ left \in 0 .. MaxWeight
  BY <1>1, <1>2, RangeParts
<1>4. FQ!Served(slot) = [shorter EXCEPT !.credits = left]
  BY DEF FQ!Served
<1> HIDE DEF q, left
<1>5. shorter \in Slot /\ shorter.queue = q /\ shorter.live = slot.live
      /\ shorter.weight = slot.weight
  BY <1>3, QueueChange
<1> HIDE DEF shorter
<1>6. /\ FQ!Served(slot) \in Slot /\ FQ!Served(slot).queue = q /\ FQ!Served(slot).credits = left
      /\ FQ!Served(slot).live = shorter.live /\ FQ!Served(slot).weight = shorter.weight
  BY <1>3, <1>4, <1>5, CreditsChange
<1> QED
  BY <1>1, <1>2, <1>5, <1>6 DEF q, left

LEMMA TakeOneTakes ==
  ASSUME NEW table \in Seq(Slot), table # << >>, Weighted(table),
         NEW k \in 0 .. Len(table), Spent(table, k)
  PROVE  LET take == FQ!TakeOne(table, k)
         IN  /\ take.slots \in Seq(Slot) /\ Len(take.slots) = Len(table)
             /\ Weighted(take.slots) /\ StillLive(table, take.slots)
             /\ take.cursor \in 0 .. Len(table) /\ Spent(take.slots, take.cursor)
             /\ \/ /\ take.item = << >> /\ take.cursor = k /\ SameQueues(table, take.slots)
                   /\ \A i \in DOMAIN table : table[i].queue = << >>
                \/ \E i \in DOMAIN table :
                     /\ take.item = << Head(table[i].queue) >>
                     /\ TakesAt(table, k, take.slots, take.cursor, i)
<1> DEFINE n == Len(table)
           take == FQ!TakeOne(table, k)
           hits == FQ!Hits(table, k)
<1>1. /\ n \in Nat /\ n # 0 /\ DOMAIN table = 1 .. n
      /\ \A i \in 1 .. n : table[i] \in Slot /\ (table[i].weight = 0 => FQ!IsFree(table[i]))
  BY LenProperties, ElementOfSeq, EmptySeq DEF Weighted
<1>2. /\ \A s \in 0 .. n - 1 :
           FQ!Place(table, k, s) \in 1 .. n /\ Dist(n, k, FQ!Place(table, k, s)) = s
      /\ \A i \in 1 .. n :
           Dist(n, k, i) \in 0 .. n - 1 /\ FQ!Place(table, k, Dist(n, k, i)) = i
  BY <1>1, PlaceAt
<1>3. ASSUME NEW i \in 1 .. n, Dist(n, k, i) \notin hits PROVE table[i].queue = << >>
  <2>1. Dist(n, k, i) \in 0 .. n - 1 /\ FQ!Place(table, k, Dist(n, k, i)) = i
    BY <1>2
  <2>2. ~ FQ!Backlogged(table[i])
    BY <1>3, <2>1 DEF FQ!Hits, FQ!Steps
  <2> QED
    BY <1>1, <2>2, FreeIs DEF FQ!Backlogged, FQ!IsFree
<1>4. ASSUME NEW new, new \in [1 .. n -> Slot] PROVE new \in Seq(Slot) /\ Len(new) = n
  BY <1>1, <1>4, SeqDef, LenProperties
<1>5. CASE hits = {}
  <2>1. take = [item   |-> << >>,
                slots  |-> [i \in DOMAIN table |-> FQ!Passed(table[i])],
                cursor |-> k]
    BY <1>5 DEF FQ!TakeOne
  <2> DEFINE new == take.slots
  <2>2. take.item = << >> /\ take.cursor = k /\ new = [i \in 1 .. n |-> FQ!Passed(table[i])]
    BY <1>1, <2>1
  <2>3. \A i \in 1 .. n :
          /\ table[i].queue = << >>
          /\ FQ!Passed(table[i]) \in Slot /\ FQ!Passed(table[i]).queue = << >>
          /\ FQ!Passed(table[i]).credits = 0
          /\ table[i].live => FQ!Passed(table[i]).live
          /\ FQ!Passed(table[i]).weight = 0 => FQ!IsFree(FQ!Passed(table[i]))
    BY <1>1, <1>3, <1>5, PassedIs
  <2> HIDE DEF take, n
  <2>4. new \in [1 .. n -> Slot] /\ \A i \in 1 .. n : new[i] = FQ!Passed(table[i])
    BY <2>2, <2>3
  <2>5. new \in Seq(Slot) /\ Len(new) = n /\ DOMAIN new = 1 .. n
    BY <1>4, <2>4
  <2> HIDE DEF new
  <2>6. Weighted(new) /\ StillLive(table, new) /\ Spent(new, k) /\ SameQueues(table, new)
    BY <1>1, <2>3, <2>4, <2>5 DEF Weighted, StillLive, Spent, SameQueues
  <2> QED
    BY <1>1, <2>2, <2>3, <2>5, <2>6 DEF take, n, new
<1>6. CASE hits # {}
  <2> DEFINE reach == FQ!Reach(table, k)
             hit == FQ!HitPlace(table, k)
             new == take.slots
             r == FQ!Refilled(table[hit])
  <2>1. hits \subseteq 0 .. n - 1 /\ hits \subseteq Nat
    BY <1>1 DEF FQ!Hits, FQ!Steps
  <2>2. reach = FQ!Min(hits)
    BY <1>6 DEF FQ!Reach
  <2>3. reach \in hits /\ \A y \in hits : reach <= y
    BY <1>6, <2>1, <2>2, LeastOfNaturals
  <2>4. /\ hit \in 1 .. n /\ Dist(n, k, hit) = reach /\ FQ!Backlogged(table[hit])
        /\ table[hit].queue # << >>
    BY <1>2, <2>1, <2>3 DEF FQ!HitPlace, FQ!Hits, FQ!Backlogged
  <2>5. \A j \in 1 .. n : Dist(n, k, j) < reach => table[j].queue = << >>
    <3> SUFFICES ASSUME NEW j \in 1 .. n, Dist(n, k, j) < reach PROVE table[j].queue = << >>
      OBVIOUS
    <3>1. Dist(n, k, j) \in 0 .. n - 1 /\ reach \in 0 .. n - 1
      BY <1>2, <2>1, <2>3
    <3>2. Dist(n, k, j) \notin hits
      BY <1>1, <2>3, <3>1
    <3> QED
      BY <1>3, <3>2
  <2>6. FQ!Scanned(table, k) = {j \in 1 .. n : Dist(n, k, j) < reach}
    <3>1. \A s \in 0 .. reach - 1 : s \in 0 .. n - 1 /\ s < reach
      BY <1>1, <2>1, <2>3
    <3>2. \A j \in 1 .. n : Dist(n, k, j) < reach => Dist(n, k, j) \in 0 .. reach - 1
      BY <1>1, <1>2, <2>1, <2>3
    <3> HIDE DEF reach, n
    <3>3. FQ!Scanned(table, k) = {FQ!Place(table, k, s) : s \in 0 .. reach - 1}
      BY DEF FQ!Scanned, reach
    <3> DEFINE near == {j \in 1 .. n : Dist(n, k, j) < reach}
    <3>4. FQ!Scanned(table, k) \subseteq near
      BY <1>2, <3>1, <3>3
    <3>5. near \subseteq FQ!Scanned(table, k)
      BY <1>2, <3>2, <3>3
    <3> QED
      BY <3>4, <3>5
  <2>7. take = [item   |-> << Head(table[hit].queue) >>,
                slots  |-> [i \in DOMAIN table |->
                              IF i = hit THEN FQ!Served(table[i])
                              ELSE IF i \in FQ!Scanned(table, k) THEN FQ!Passed(table[i])
                              ELSE table[i]],
                cursor |-> FQ!NextCursor(table, k)]
    BY <1>6 DEF FQ!TakeOne
  <2>8. take.cursor = IF r = 1 THEN hit ELSE hit - 1
    BY <2>7 DEF FQ!NextCursor
  <2>9. /\ take.item = << Head(table[hit].queue) >>
        /\ new = [i \in 1 .. n |->
                    IF i = hit THEN FQ!Served(table[i])
                    ELSE IF i \in FQ!Scanned(table, k) THEN FQ!Passed(table[i])
                    ELSE table[i]]
    BY <1>1, <2>7
  <2>10. \A i \in 1 .. n : Dist(n, k, i) < reach =>
           /\ FQ!Passed(table[i]) \in Slot /\ FQ!Passed(table[i]).queue = table[i].queue
           /\ FQ!Passed(table[i]).credits = 0
           /\ table[i].live => FQ!Passed(table[i]).live
           /\ FQ!Passed(table[i]).weight = 0 => FQ!IsFree(FQ!Passed(table[i]))
    BY <1>1, <2>5, PassedIs
  <2>11. /\ r \in 1 .. MaxWeight
         /\ FQ!Served(table[hit]) \in Slot /\ FQ!Served(table[hit]).queue = Tail(table[hit].queue)
         /\ FQ!Served(table[hit]).credits = r - 1
         /\ FQ!Served(table[hit]).live = table[hit].live
         /\ FQ!Served(table[hit]).weight # 0
    BY <1>1, <2>4, ServedIs
  <2>12. \A i \in 1 .. n : Dist(n, k, i) = 0 \/ table[i].credits = 0
    BY <1>1 DEF Spent, Dist
  <2>13. \A i \in 1 .. n : i # hit /\ Dist(n, k, i) >= reach => table[i].credits = 0
    <3> SUFFICES ASSUME NEW i \in 1 .. n, i # hit, Dist(n, k, i) >= reach
                 PROVE  table[i].credits = 0
      OBVIOUS
    <3>1. Dist(n, k, i) # reach
      BY <1>2, <2>4
    <3>2. Dist(n, k, i) # 0
      BY <1>1, <1>2, <2>1, <2>3, <3>1
    <3> QED
      BY <2>12, <3>2
  <2>14. \A i \in 1 .. n : Dist(n, k, i) \in Nat /\ reach \in Nat
    BY <1>2, <2>1, <2>3
  <2> HIDE DEF take, n, hits, reach, hit, new, r
  <2>15. /\ new[hit] = FQ!Served(table[hit])
         /\ \A i \in 1 .. n : i # hit =>
              new[i] = IF Dist(n, k, i) < reach THEN FQ!Passed(table[i]) ELSE table[i]
    BY <2>4, <2>6, <2>9
  <2>16. \A i \in 1 .. n : new[i] \in Slot
    BY <1>1, <2>10, <2>11, <2>15
  <2>17. new \in [1 .. n -> Slot]
    BY <2>9, <2>16
  <2>18. new \in Seq(Slot) /\ Len(new) = n /\ DOMAIN new = 1 .. n
    BY <1>4, <2>17
  <2>19. Weighted(new)
    BY <1>1, <2>10, <2>11, <2>15, <2>18 DEF Weighted
  <2>20. StillLive(table, new) /\ HeadTaken(table, new, hit)
    BY <1>1, <2>10, <2>11, <2>15 DEF StillLive, HeadTaken
  <2>21. \A i \in 1 .. n : i # hit => new[i].credits = 0
    BY <2>10, <2>13, <2>14, <2>15
  <2>22. take.cursor \in 0 .. n /\ Spent(new, take.cursor)
    <3>1. take.cursor \in 0 .. n
      BY <1>1, <2>4, <2>8
    <3>2. CASE r = 1
      <4>1. new[hit].credits = 0
        BY <2>11, <2>15, <3>2
      <4> QED
        BY <2>18, <2>21, <3>1, <4>1 DEF Spent
    <3>3. CASE r # 1
      <4>1. take.cursor + 1 = hit
        BY <1>1, <2>4, <2>8, <3>3
      <4> QED
        BY <2>18, <2>21, <3>1, <4>1 DEF Spent
    <3> QED
      BY <3>2, <3>3
  <2>23. TakesAt(table, k, new, take.cursor, hit)
    BY <1>1, <2>4, <2>5, <2>8, <2>11, <2>15, <2>20 DEF TakesAt, n, r
  <2> QED
    BY <1>1, <2>4, <2>9, <2>18, <2>19, <2>20, <2>22, <2>23 DEF take, n, new
<1> QED
  BY <1>5, <1>6

-----------------------------------------------------------------------------
(***************************************************************************)
(* What can still go before a waiting slot.                                *)
(***************************************************************************)
LEMMA Products ==
  ASSUME NEW a \in Nat, NEW b \in Nat, NEW m \in Nat, a <= b
  PROVE  a * m \in Nat /\ b * m \in Nat /\ a * m <= b * m /\ (a + 1) * m = a * m + m
<1>1. PICK e \in Nat : b = a + e
  <2>1. b - a \in Nat /\ b = a + (b - a)
    OBVIOUS
  <2> QED
    BY <2>1
<1>2. b * m = a * m + e * m /\ e * m \in Nat /\ a * m \in Nat
  BY <1>1
<1> QED
  BY <1>1, <1>2

LEMMA LeftIs ==
  ASSUME NEW table \in Seq(Slot), NEW k \in 0 .. Len(table)
  PROVE  Left(table, k) \in 1 .. MaxWeight
<1>1. MaxWeight \in Nat /\ MaxWeight # 0
  BY FairInboundAssumption
<1>2. CASE k + 1 \in DOMAIN table /\ table[k + 1].credits # 0
  <2>1. table[k + 1] \in Slot
    BY <1>2, LenProperties, ElementOfSeq
  <2>2. table[k + 1].credits \in 0 .. MaxWeight
    BY <2>1, SlotHas
  <2> QED
    BY <1>1, <1>2, <2>2 DEF Left
<1>3. CASE ~ (k + 1 \in DOMAIN table /\ table[k + 1].credits # 0)
  BY <1>1, <1>3 DEF Left
<1> QED
  BY <1>2, <1>3

LEMMA AheadBound ==
  ASSUME NEW table \in Seq(Slot), NEW k \in 0 .. Len(table), NEW i \in DOMAIN table
  PROVE  /\ Ahead(table, k, i) \in Nat
         /\ (Len(table) - 1) * MaxWeight \in Nat
         /\ Ahead(table, k, i) <= (Len(table) - 1) * MaxWeight
<1> DEFINE n == Len(table)
           d == Dist(n, k, i)
           a == d - 1
           b == n - 2
           left == Left(table, k)
           pa == a * MaxWeight
           pb == (n - 1) * MaxWeight
<1>1. n \in Nat /\ DOMAIN table = 1 .. n /\ n # 0 /\ MaxWeight \in Nat
  BY LenProperties, FairInboundAssumption
<1>2. table # << >>
  BY <1>1, EmptySeq
<1>3. d \in 0 .. n - 1
  BY <1>2, PlaceAt
<1>4. left \in 1 .. MaxWeight
  BY LeftIs
<1>5. Ahead(table, k, i) = IF d = 0 THEN 0 ELSE pa + left
  BY DEF Ahead
<1>6. pb \in Nat
  BY <1>1
<1>7. ASSUME d # 0 PROVE pa \in Nat /\ pa + MaxWeight <= pb
  <2>1. a \in Nat /\ b \in Nat /\ a <= b /\ b + 1 = n - 1
    BY <1>1, <1>3, <1>7
  <2> HIDE DEF a, b
  <2>2. a * MaxWeight \in Nat /\ a * MaxWeight <= b * MaxWeight
        /\ b * MaxWeight \in Nat
    BY <1>1, <2>1, Products
  <2>3. (b + 1) * MaxWeight = b * MaxWeight + MaxWeight
    BY <1>1, <2>1, Products
  <2>4. pb = b * MaxWeight + MaxWeight
    BY <2>1, <2>3
  <2> DEFINE z == b * MaxWeight
  <2> HIDE DEF z, pb
  <2>5. z \in Nat /\ pa <= z /\ pb = z + MaxWeight /\ pa \in Nat
    BY <2>2, <2>4 DEF z
  <2> HIDE DEF pa
  <2> QED
    BY <1>1, <2>5
<1> HIDE DEF pa, pb, left, d
<1>8. Ahead(table, k, i) \in Nat /\ pb \in Nat /\ Ahead(table, k, i) <= pb
  BY <1>1, <1>4, <1>5, <1>6, <1>7
<1> QED
  BY <1>8 DEF pb

\* Ahead looks at the length of the table and at its credits.
LEMMA AheadSame ==
  ASSUME NEW old \in Seq(Slot), NEW new \in Seq(Slot), Len(new) = Len(old),
         \A j \in DOMAIN old : new[j].credits = old[j].credits, NEW k, NEW i
  PROVE  Ahead(new, k, i) = Ahead(old, k, i)
<1>1. DOMAIN new = DOMAIN old
  BY LenProperties
<1>2. Left(new, k) = Left(old, k)
  BY <1>1 DEF Left
<1> QED
  BY <1>2 DEF Ahead

\* A place more at the end: at most one visit more.
LEMMA AheadGrows ==
  ASSUME NEW old \in Seq(Slot), NEW new \in Seq(Slot), Len(new) = Len(old) + 1,
         \A j \in DOMAIN old : new[j].credits = old[j].credits,
         new[Len(old) + 1].credits = 0,
         NEW k \in 0 .. Len(old), Spent(old, k), NEW i \in DOMAIN old
  PROVE  /\ Ahead(new, k, i) <= Ahead(old, k, i) + MaxWeight
         /\ (Len(new) - 1) * MaxWeight = (Len(old) - 1) * MaxWeight + MaxWeight
<1> DEFINE n == Len(old)
           d == Dist(n, k, i)
           e == Dist(n + 1, k, i)
           left == Left(old, k)
<1>1. n \in Nat /\ DOMAIN old = 1 .. n /\ n # 0 /\ MaxWeight \in Nat /\ DOMAIN new = 1 .. n + 1
      /\ k \in 0 .. n /\ Len(new) = n + 1 /\ i \in 1 .. n
  BY LenProperties, FairInboundAssumption
<1>2. n - 1 \in Nat /\ n = (n - 1) + 1
  BY <1>1
<1>3. n * MaxWeight = (n - 1) * MaxWeight + MaxWeight
  <2> DEFINE a == n - 1
  <2>1. a \in Nat /\ a <= a /\ n = a + 1
    BY <1>2
  <2> HIDE DEF a
  <2>2. (a + 1) * MaxWeight = a * MaxWeight + MaxWeight
    BY <1>1, <2>1, Products
  <2>3. n * MaxWeight = a * MaxWeight + MaxWeight
    BY <2>1, <2>2
  <2> QED
    BY <2>3 DEF a
<1>4. Left(new, k) = left
  <2>1. CASE k = n
    <3>1. left = MaxWeight /\ Left(new, k) = MaxWeight
      BY <1>1, <2>1 DEF Left
    <3> QED
      BY <3>1
  <2>2. CASE k # n
    <3>1. k + 1 \in 1 .. n /\ k + 1 \in 1 .. n + 1
      <4> HIDE DEF n
      <4> QED
        BY <1>1, <2>2
    <3> QED
      BY <1>1, <3>1 DEF Left
  <2> QED
    BY <2>1, <2>2
<1>5. d \in Nat /\ (e = d \/ e = d + 1)
  BY <1>1 DEF Dist
<1>6. e = 1 /\ d = 0 => left = MaxWeight
  <2>1. e = 1 /\ d = 0 => k = n
    BY <1>1 DEF Dist
  <2> QED
    BY <1>1, <2>1 DEF Left
<1>7. left \in Nat /\ left <= MaxWeight
  BY <1>1, LeftIs
<1>8. /\ Ahead(old, k, i) = IF d = 0 THEN 0 ELSE (d - 1) * MaxWeight + left
      /\ Ahead(new, k, i) = IF e = 0 THEN 0 ELSE (e - 1) * MaxWeight + left
  BY <1>1, <1>4 DEF Ahead
<1> HIDE DEF n, d, e, left
<1>9. Ahead(new, k, i) <= Ahead(old, k, i) + MaxWeight
  <2>1. CASE e = d /\ d = 0
    BY <1>1, <1>8, <2>1
  <2>2. CASE e = d /\ d # 0
    <3> DEFINE p == (d - 1) * MaxWeight
    <3>1. p \in Int
      BY <1>1, <1>5
    <3>2. Ahead(old, k, i) = p + left /\ Ahead(new, k, i) = p + left
      BY <1>8, <2>2
    <3> HIDE DEF p
    <3> QED
      BY <1>1, <1>7, <3>1, <3>2
  <2>3. CASE e = d + 1 /\ d = 0
    BY <1>1, <1>6, <1>7, <1>8, <2>3
  <2>4. CASE e = d + 1 /\ d # 0
    <3> DEFINE c == d - 1
               p == c * MaxWeight
    <3>1. c \in Nat /\ c <= c /\ d = c + 1 /\ e - 1 = c + 1 /\ e # 0
      BY <1>5, <2>4
    <3>2. Ahead(old, k, i) = p + left /\ Ahead(new, k, i) = (c + 1) * MaxWeight + left
      BY <1>8, <2>4, <3>1
    <3> HIDE DEF c
    <3>3. (c + 1) * MaxWeight = c * MaxWeight + MaxWeight /\ c * MaxWeight \in Nat
      BY <1>1, <3>1, Products
    <3>4. p \in Nat /\ Ahead(new, k, i) = p + MaxWeight + left
      BY <3>2, <3>3
    <3> HIDE DEF p
    <3> QED
      BY <1>1, <1>7, <3>2, <3>4
  <2> QED
    BY <1>5, <2>1, <2>2, <2>3, <2>4
<1>10. Len(new) - 1 = n
  BY <1>1
<1> QED
  BY <1>3, <1>9, <1>10 DEF n

\* How far a place is when the cursor comes to one it met before, or goes past it.
LEMMA DistMoves ==
  ASSUME NEW n \in Nat, NEW k \in 0 .. n, NEW hit \in 1 .. n, NEW i \in 1 .. n,
         Dist(n, k, hit) < Dist(n, k, i)
  PROVE  /\ Dist(n, hit, i) = Dist(n, k, i) - Dist(n, k, hit) - 1
         /\ Dist(n, hit - 1, i) = Dist(n, k, i) - Dist(n, k, hit)
<1>1. CASE k < hit /\ k < i
  BY <1>1 DEF Dist
<1>2. CASE k < hit /\ ~ k < i
  BY <1>2 DEF Dist
<1>3. CASE ~ k < hit /\ k < i
  BY <1>3 DEF Dist
<1>4. CASE ~ k < hit /\ ~ k < i
  BY <1>4 DEF Dist
<1> QED
  BY <1>1, <1>2, <1>3, <1>4

\* A packet taken at another place is one packet fewer ahead.
LEMMA AheadTakes ==
  ASSUME NEW old \in Seq(Slot), NEW new \in Seq(Slot), Len(new) = Len(old),
         NEW k \in 0 .. Len(old), NEW at \in 0 .. Len(old), NEW hit \in DOMAIN old,
         TakesAt(old, k, new, at, hit),
         NEW i \in DOMAIN old, i # hit, old[i].queue # << >>
  PROVE  Ahead(new, at, i) + 1 <= Ahead(old, k, i)
<1> DEFINE n == Len(old)
           d == Dist(n, k, i)
           h == Dist(n, k, hit)
           left == Left(old, k)
           r == FQ!Refilled(old[hit])
           e == Dist(n, at, i)
           rest == Left(new, at)
<1>1. n \in Nat /\ DOMAIN old = 1 .. n /\ n # 0 /\ MaxWeight \in Nat /\ DOMAIN new = 1 .. n
      /\ k \in 0 .. n /\ Len(new) = n /\ i \in 1 .. n /\ hit \in 1 .. n /\ at \in 0 .. n
  BY LenProperties, FairInboundAssumption
<1>2. old # << >>
  BY <1>1, EmptySeq
<1>3. d \in 0 .. n - 1 /\ h \in 0 .. n - 1 /\ d # h
  BY <1>1, <1>2, PlaceAt
<1>4. h < d
  BY <1>3 DEF TakesAt
<1>5. left \in 1 .. MaxWeight /\ rest \in 1 .. MaxWeight
  BY <1>1, LeftIs
<1>6. /\ r \in 1 .. MaxWeight /\ new[hit].credits = r - 1
      /\ at = IF r = 1 THEN hit ELSE hit - 1
  BY DEF TakesAt
<1>7. h = 0 => r <= left
  <2>1. CASE k = n
    BY <1>1, <1>6, <2>1 DEF Left
  <2>2. CASE h = 0 /\ k # n
    <3>1. hit = k + 1
      <4>1. h = IF k < hit THEN hit - 1 - k ELSE hit - 1 - k + n
        BY DEF Dist
      <4> HIDE DEF n, h
      <4> QED
        BY <1>1, <2>2, <4>1
    <3>2. left = IF old[hit].credits # 0 THEN old[hit].credits ELSE MaxWeight
      BY <1>1, <3>1 DEF Left
    <3> QED
      BY <1>6, <3>2 DEF FQ!Refilled
  <2> QED
    BY <2>1, <2>2
<1>8. e = IF r = 1 THEN d - h - 1 ELSE d - h
  <2>1. Dist(n, hit, i) = d - h - 1 /\ Dist(n, hit - 1, i) = d - h
    BY <1>1, <1>4, DistMoves
  <2> QED
    BY <1>6, <2>1
<1>9. r # 1 => rest = r - 1
  <2> SUFFICES ASSUME r # 1 PROVE rest = r - 1
    OBVIOUS
  <2>1. at + 1 = hit /\ r - 1 # 0
    BY <1>1, <1>6
  <2> QED
    BY <1>1, <1>6, <2>1 DEF Left
<1>10. /\ Ahead(old, k, i) = (d - 1) * MaxWeight + left
       /\ Ahead(new, at, i) = IF e = 0 THEN 0 ELSE (e - 1) * MaxWeight + rest
  BY <1>1, <1>3, <1>4 DEF Ahead
<1> DEFINE a == d - 1
           p == a * MaxWeight
<1>11. a \in Nat /\ h \in Nat /\ h <= a
  BY <1>3, <1>4
<1> HIDE DEF n, d, h, left, r, e, rest, a
<1>12. p \in Nat
  BY <1>1, <1>11
<1>13. CASE e = 0
  BY <1>5, <1>10, <1>12, <1>13 DEF a
<1>14. CASE e # 0 /\ h = 0 /\ r # 1
  <2>1. Ahead(new, at, i) = p + rest /\ Ahead(old, k, i) = p + left
    BY <1>3, <1>8, <1>10, <1>14 DEF a
  <2> HIDE DEF p
  <2> QED
    BY <1>1, <1>5, <1>6, <1>7, <1>9, <1>12, <1>14, <2>1
<1>15. CASE e # 0 /\ (h # 0 \/ r = 1)
  <2> DEFINE b == e - 1
             z == b * MaxWeight
  <2>1. b \in Nat /\ b + 1 <= a
    BY <1>3, <1>4, <1>8, <1>15 DEF a
  <2>2. Ahead(new, at, i) = z + rest /\ Ahead(old, k, i) = p + left
    BY <1>10, <1>15 DEF a
  <2> HIDE DEF b
  <2>3. (b + 1) * MaxWeight <= a * MaxWeight
    BY <1>1, <1>11, <2>1, Products
  <2>4. (b + 1) * MaxWeight = b * MaxWeight + MaxWeight /\ b * MaxWeight \in Nat
    BY <1>1, <2>1, Products
  <2>5. z \in Nat /\ z + MaxWeight <= p
    BY <2>3, <2>4
  <2> HIDE DEF z, p
  <2> QED
    BY <1>1, <1>5, <1>12, <2>2, <2>5
<1> QED
  BY <1>13, <1>14, <1>15

-----------------------------------------------------------------------------
(***************************************************************************)
(* The other changes of the table.                                         *)
(***************************************************************************)
SameCredits(old, new) == \A i \in DOMAIN old : new[i].credits = old[i].credits

LEMMA GreaterOfTwo ==
  ASSUME NEW u \in Nat PROVE FQ!Max({1, u}) \in {1, u} /\ FQ!Max({1, u}) >= 1
<1>1. \E x \in {1, u} : \A y \in {1, u} : x >= y
  <2>1. CASE u >= 1
    <3>1. \A y \in {1, u} : u >= y
      BY <2>1
    <3> QED
      BY <3>1
  <2>2. CASE ~ u >= 1
    <3>1. \A y \in {1, u} : 1 >= y
      BY <2>2
    <3> QED
      BY <3>1
  <2> QED
    BY <2>1, <2>2
<1> QED
  BY <1>1 DEF FQ!Max

\* No success rate gives more than the greatest weight.
LEMMA WeightsFit == \A h \in Health : FQ!WeightOf(h) \in 1 .. MaxWeight
<1> SUFFICES ASSUME NEW h \in Health PROVE FQ!WeightOf(h) \in 1 .. MaxWeight
  OBVIOUS
<1> DEFINE ok == h.ok
           total == h.ok + h.fail
           m == MaxWeight
           units == (2 * m * ok + total) \div (2 * total)
<1>1. ok \in Nat /\ total \in Nat /\ ok <= total /\ m \in Nat /\ m # 0
  BY FairInboundAssumption
<1>2. FQ!WeightOf(h) = IF total = 0 THEN 1 ELSE FQ!Max({1, units})
  BY DEF FQ!WeightOf, FQ!DefaultWeight
<1> HIDE DEF ok, total, m, units
<1>3. ASSUME total # 0 PROVE units \in Nat /\ units <= m
  <2> DEFINE a == ok * m
             b == total * m
             c == 2 * total
             d == 2 * m * ok + total
             p == units * c
             s == m + 1
  <2>1. a \in Nat /\ b \in Nat /\ a <= b
    BY <1>1, Products
  <2>2. d = a + a + total /\ c \in Nat /\ c # 0 /\ d \in Nat /\ c = total + total
    BY <1>1, <1>3, <2>1
  <2>3. (m + 1) * c = b + b + c
    <3>1. (m + 1) * c = m * c + c
      BY <1>1, <2>2
    <3>2. m * c = b + b
      BY <1>1, <2>2
    <3> QED
      BY <3>1, <3>2
  <2>4. units = d \div c
    BY DEF units
  <2> HIDE DEF a, b, c, d, s
  <2>5. units \in Nat /\ p <= d
    BY <2>2, <2>4
  <2>6. s \in Nat /\ s * c = b + b + c
    BY <1>1, <2>3 DEF s
  <2>7. units >= s => s * c <= p
    BY <2>2, <2>5, <2>6, Products
  <2> HIDE DEF p
  <2>8. s * c > d
    BY <1>1, <2>1, <2>2, <2>6, <1>3
  <2>9. ~ units >= s
    <3> DEFINE z == s * c
    <3>1. z \in Nat /\ z > d /\ (units >= s => z <= p)
      BY <2>1, <2>2, <2>6, <2>7, <2>8
    <3>2. p \in Int
      BY <2>2, <2>5 DEF p
    <3> HIDE DEF z
    <3> QED
      BY <2>2, <2>5, <3>1, <3>2
  <2> QED
    BY <1>1, <2>5, <2>9 DEF s
<1>4. CASE total = 0
  BY <1>1, <1>2, <1>4 DEF m
<1>5. CASE total # 0
  <2>1. FQ!Max({1, units}) \in {1, units} /\ FQ!Max({1, units}) >= 1
    BY <1>3, <1>5, GreaterOfTwo
  <2> QED
    BY <1>1, <1>2, <1>3, <1>5, <2>1 DEF m
<1> QED
  BY <1>4, <1>5

\* A new value at one place, of the same kind.
LEMMA OneSlotChanges ==
  ASSUME NEW table \in Seq(Slot), NEW i \in DOMAIN table, NEW slot \in Slot
  PROVE  LET new == [table EXCEPT ![i] = slot]
         IN  /\ new \in Seq(Slot) /\ Len(new) = Len(table) /\ DOMAIN new = DOMAIN table
             /\ new[i] = slot /\ \A j \in DOMAIN table : j # i => new[j] = table[j]
             /\ \A j \in DOMAIN table : table[j] \in Slot
<1> DEFINE new == [table EXCEPT ![i] = slot]
<1>1. DOMAIN table = 1 .. Len(table) /\ Len(table) \in Nat /\ table \in [1 .. Len(table) -> Slot]
      /\ \A j \in DOMAIN table : table[j] \in Slot
  BY LenProperties, ElementOfSeq
<1>2. new \in [1 .. Len(table) -> Slot]
  BY <1>1
<1>3. new \in Seq(Slot)
  BY <1>1, <1>2, SeqDef
<1>4. Len(new) = Len(table)
  BY <1>1, <1>2, <1>3, LenProperties
<1> QED
  BY <1>1, <1>2, <1>3, <1>4

LEMMA SetWeightKeeps ==
  ASSUME NEW table \in Seq(Slot), Weighted(table), NEW i \in DOMAIN table,
         NEW w \in 1 .. MaxWeight
  PROVE  LET new == FQ!SetWeight(table, i, w)
         IN  /\ new \in Seq(Slot) /\ Len(new) = Len(table) /\ Weighted(new)
             /\ SameQueues(table, new) /\ SameCredits(table, new) /\ StillLive(table, new)
<1>1. CASE FQ!IsFree(table[i])
  BY <1>1 DEF FQ!SetWeight, SameQueues, SameCredits, StillLive
<1>2. CASE ~ FQ!IsFree(table[i])
  <2> DEFINE slot == [table[i] EXCEPT !.weight = w]
             new == [table EXCEPT ![i] = slot]
  <2>1. FQ!SetWeight(table, i, w) = new
    BY <1>2 DEF FQ!SetWeight
  <2>2. table[i] \in Slot /\ w \in 0 .. MaxWeight /\ w # 0
    BY LenProperties, ElementOfSeq
  <2>3. /\ slot \in Slot /\ slot.queue = table[i].queue /\ slot.credits = table[i].credits
        /\ slot.live = table[i].live /\ slot.weight = w
    BY <2>2, WeightChange
  <2> HIDE DEF slot
  <2>4. /\ new \in Seq(Slot) /\ Len(new) = Len(table) /\ DOMAIN new = DOMAIN table
        /\ new[i] = slot /\ \A j \in DOMAIN table : j # i => new[j] = table[j]
    BY <2>3, OneSlotChanges
  <2> HIDE DEF new
  <2>5. Weighted(new) /\ SameQueues(table, new) /\ SameCredits(table, new) /\ StillLive(table, new)
    BY <2>2, <2>3, <2>4 DEF Weighted, SameQueues, SameCredits, StillLive
  <2> QED
    BY <2>1, <2>4, <2>5
<1> QED
  BY <1>1, <1>2

LEMMA HangKeeps ==
  ASSUME NEW table \in Seq(Slot), Weighted(table), NEW i \in DOMAIN table, table[i].live
  PROVE  LET new == FQ!Hang(table, i)
         IN  /\ new \in Seq(Slot) /\ Len(new) = Len(table) /\ Weighted(new)
             /\ SameQueues(table, new) /\ SameCredits(table, new)
             /\ \A j \in DOMAIN table : j # i /\ table[j].live => new[j].live
<1> DEFINE slot == [table[i] EXCEPT !.live = FALSE]
           new == [table EXCEPT ![i] = slot]
<1>1. FQ!Hang(table, i) = new
  BY DEF FQ!Hang
<1>2. table[i] \in Slot
  BY LenProperties, ElementOfSeq
<1>3. table[i].weight # 0
  BY FreeIs DEF Weighted, FQ!IsFree
<1>4. /\ slot \in Slot /\ slot.queue = table[i].queue /\ slot.credits = table[i].credits
      /\ slot.weight = table[i].weight
  BY <1>2, Hanging
<1> HIDE DEF slot
<1>5. /\ new \in Seq(Slot) /\ Len(new) = Len(table) /\ DOMAIN new = DOMAIN table
      /\ new[i] = slot /\ \A j \in DOMAIN table : j # i => new[j] = table[j]
  BY <1>4, OneSlotChanges
<1> HIDE DEF new
<1>6. Weighted(new) /\ SameQueues(table, new) /\ SameCredits(table, new)
  BY <1>3, <1>4, <1>5 DEF Weighted, SameQueues, SameCredits
<1> QED
  BY <1>1, <1>5, <1>6

LEMMA PutAdds ==
  ASSUME NEW table \in Seq(Slot), Weighted(table), NEW i \in DOMAIN table, table[i].live,
         NEW x \in Numbered
  PROVE  LET new == FQ!Put(table, i, x)
         IN  /\ new \in Seq(Slot) /\ Len(new) = Len(table) /\ Weighted(new)
             /\ SameCredits(table, new) /\ StillLive(table, new)
             /\ table[i].queue \in Seq(Numbered)
             /\ \A j \in DOMAIN table :
                  new[j].queue = IF j = i THEN Append(table[i].queue, x) ELSE table[j].queue
<1> DEFINE more == Append(table[i].queue, x)
           slot == [table[i] EXCEPT !.queue = more]
           new == [table EXCEPT ![i] = slot]
<1>1. FQ!Put(table, i, x) = new
  BY DEF FQ!Put
<1>2. table[i] \in Slot /\ table[i].queue \in Seq(Numbered)
  BY LenProperties, ElementOfSeq, SlotHas
<1>3. more \in Seq(Numbered) /\ table[i].weight # 0
  BY <1>2, FreeIs, RangeParts DEF Weighted, FQ!IsFree
<1> HIDE DEF more
<1>4. /\ slot \in Slot /\ slot.queue = more /\ slot.credits = table[i].credits
      /\ slot.weight = table[i].weight /\ slot.live = table[i].live
  BY <1>2, <1>3, QueueChange
<1> HIDE DEF slot
<1>5. /\ new \in Seq(Slot) /\ Len(new) = Len(table) /\ DOMAIN new = DOMAIN table
      /\ new[i] = slot /\ \A j \in DOMAIN table : j # i => new[j] = table[j]
  BY <1>4, OneSlotChanges
<1> HIDE DEF new
<1>6. Weighted(new) /\ SameCredits(table, new) /\ StillLive(table, new)
  BY <1>3, <1>4, <1>5 DEF Weighted, SameCredits, StillLive
<1>7. \A j \in DOMAIN table : new[j].queue = IF j = i THEN more ELSE table[j].queue
  BY <1>4, <1>5
<1> QED
  BY <1>1, <1>2, <1>5, <1>6, <1>7 DEF more

\* Registration takes a freed place, or one more at the end.
LEMMA RegisterAdds ==
  ASSUME NEW table \in Seq(Slot), Weighted(table)
  PROVE  LET i == FQ!PlaceFor(table)
             new == FQ!Register(table, FQ!DefaultWeight)
         IN  /\ new \in Seq(Slot) /\ Weighted(new) /\ i \in DOMAIN new
             /\ \/ i \in DOMAIN table /\ FQ!IsFree(table[i]) /\ Len(new) = Len(table)
                \/ i = Len(table) + 1 /\ Len(new) = Len(table) + 1
             /\ new[i] = FQ!NewSlot(FQ!DefaultWeight)
             /\ \A j \in DOMAIN table : j # i => new[j] = table[j]
<1> DEFINE n == Len(table)
           i == FQ!PlaceFor(table)
           new == FQ!Register(table, FQ!DefaultWeight)
           free == {j \in DOMAIN table : FQ!IsFree(table[j])}
           slot == FQ!NewSlot(FQ!DefaultWeight)
           size == FQ!Max({n, i})
<1>1. n \in Nat /\ DOMAIN table = 1 .. n /\ \A j \in 1 .. n : table[j] \in Slot
  BY LenProperties, ElementOfSeq
<1>2. \/ i \in DOMAIN table /\ FQ!IsFree(table[i])
      \/ i = n + 1
  <2>1. CASE free = {}
    BY <2>1 DEF FQ!PlaceFor
  <2>2. CASE free # {}
    <3>1. i = FQ!Min(free) /\ free \subseteq Nat
      BY <1>1, <2>2 DEF FQ!PlaceFor
    <3>2. i \in free
      BY <2>2, <3>1, LeastOfNaturals
    <3> QED
      BY <3>2
  <2> QED
    BY <2>1, <2>2
<1>3. size = IF i = n + 1 THEN n + 1 ELSE n
  <2> DEFINE top == IF i = n + 1 THEN n + 1 ELSE n
  <2> HIDE DEF n, i
  <2>1. top \in {n, i} /\ \A y \in {n, i} : top >= y
    BY <1>1, <1>2
  <2> HIDE DEF top
  <2>2. \A x, y \in {n, i} : x >= y /\ y >= x => x = y
    BY <1>1, <1>2
  <2>3. FQ!Max({n, i}) = top
    BY <2>1, <2>2 DEF FQ!Max
  <2> QED
    BY <2>3 DEF top
<1>4. new = [j \in 1 .. size |-> IF j = i THEN slot ELSE table[j]]
  BY DEF FQ!Register
<1>5. slot \in Slot /\ slot.weight # 0
  BY NewSlotIs
<1> HIDE DEF n, i, new, slot, size
<1>6. size \in Nat /\ i \in 1 .. size /\ \A j \in 1 .. size : j = i \/ j \in 1 .. n
  BY <1>1, <1>2, <1>3
<1>7. new \in [1 .. size -> Slot]
  BY <1>1, <1>4, <1>5, <1>6
<1>8. new \in Seq(Slot) /\ Len(new) = size /\ DOMAIN new = 1 .. size
  BY <1>6, <1>7, SeqDef, LenProperties
<1>9. new[i] = slot /\ \A j \in 1 .. n : j # i => new[j] = table[j]
  <2>1. \A j \in 1 .. n : j \in 1 .. size
    BY <1>1, <1>3
  <2> QED
    BY <1>4, <1>6, <2>1
<1>10. Weighted(new)
  BY <1>1, <1>5, <1>6, <1>8, <1>9 DEF Weighted
<1>11. \/ i \in DOMAIN table /\ FQ!IsFree(table[i]) /\ Len(new) = n
       \/ i = n + 1 /\ Len(new) = n + 1
  BY <1>1, <1>2, <1>3, <1>8
<1> QED
  BY <1>1, <1>6, <1>8, <1>9, <1>10, <1>11 DEF n, i, new, slot

-----------------------------------------------------------------------------
LEMMA HubInvInit == Init => HubInv
<1> SUFFICES ASSUME Init PROVE HubInv
  OBVIOUS
<1>1. slots \in Seq(Slot) /\ Len(slots) = 0 /\ DOMAIN slots = {} /\ slots = << >>
  BY EmptySeq DEF Init
<1>2. InboundType
  BY <1>1, EmptySeq DEF Init, InboundType
<1>3. HoldsOne /\ Weighted(slots) /\ Spent(slots, cursor) /\ Owned
  BY <1>1 DEF Init, HoldsOne, Weighted, Spent, Owned, Active
<1>4. ASSUME NEW c \in Conn PROVE InOrder(c)
  <2>1. QueueOf(c) = << >> /\ shared = << >> /\ holding = << >> /\ got[c] = 0 /\ sent[c] = 0
    BY DEF Init, QueueOf
  <2>2. Rising(c, << >>)
    BY DEF Rising
  <2> QED
    BY <2>1, <2>2, RangeOfNone DEF InOrder, Before
<1>5. ASSUME NEW c \in Conn PROVE Round(c)
  <2>1. bypass[c] = 0
    BY DEF Init
  <2>2. ~ WaitingIn(slots, c)
    BY <1>1 DEF WaitingIn
  <2> QED
    BY <2>1, <2>2 DEF Round, RoundIn
<1> QED
  BY <1>2, <1>3, <1>4, <1>5 DEF HubInv

-----------------------------------------------------------------------------
(***************************************************************************)
(* The steps that move no packet.                                          *)
(***************************************************************************)
LEMMA TableIs ==
  ASSUME InboundType
  PROVE  /\ DOMAIN slots = 1 .. Len(slots) /\ Len(slots) \in Nat
         /\ \A i \in DOMAIN slots : slots[i] \in Slot /\ slots[i].queue \in Seq(Numbered)
                                    /\ Range(slots[i].queue) \subseteq Numbered
         /\ \A c \in Conn : /\ place[c] = 0 \/ place[c] \in DOMAIN slots
                            /\ QueueOf(c) \in Seq(Numbered)
                            /\ Range(QueueOf(c)) \subseteq Numbered
<1>1. DOMAIN slots = 1 .. Len(slots) /\ Len(slots) \in Nat
      /\ \A i \in 1 .. Len(slots) : slots[i] \in Slot
  BY LenProperties, ElementOfSeq DEF InboundType
<1>2. \A i \in DOMAIN slots : slots[i].queue \in Seq(Numbered)
  BY <1>1, SlotHas
<1>3. \A i \in DOMAIN slots : Range(slots[i].queue) \subseteq Numbered
  BY <1>2, RangeParts
<1>4. \A c \in Conn : place[c] = 0 \/ place[c] \in DOMAIN slots
  BY <1>1 DEF InboundType
<1>5. << >> \in Seq(Numbered) /\ Range(<< >>) \subseteq Numbered
  BY EmptySeq, RangeOfNone
<1> QED
  BY <1>1, <1>2, <1>3, <1>4, <1>5 DEF QueueOf

\* The table has the same queues and the same credits.
LEMMA SameRound ==
  ASSUME NEW old \in Seq(Slot), NEW new \in Seq(Slot), Len(new) = Len(old),
         SameQueues(old, new), SameCredits(old, new),
         NEW k, NEW i, NEW c, NEW b, RoundIn(old, k, i, c, b)
  PROVE  RoundIn(new, k, i, c, b)
<1>1. DOMAIN new = DOMAIN old
  BY LenProperties
<1>2. WaitingIn(new, c) <=> WaitingIn(old, c)
  BY <1>1 DEF WaitingIn, SameQueues
<1>3. Ahead(new, k, i) = Ahead(old, k, i)
  BY AheadSame DEF SameCredits
<1> QED
  BY <1>2, <1>3 DEF RoundIn

LEMMA TableKeeps ==
  ASSUME HubInv, slots' \in Seq(Slot), Len(slots') = Len(slots), Weighted(slots)',
         SameQueues(slots, slots'), SameCredits(slots, slots'), HoldsOne',
         UNCHANGED << cursor, place, sent, got, bypass, shared, holding >>,
         conn' \in [Conn -> {"new", "accepted", "registered", "ready", "notifying",
                             "closed", "rejected"}],
         \A c \in Conn : Active(c)' => Active(c) /\ slots'[place[c]].live,
         \A c \in Conn : conn'[c] \in {"new", "accepted"} => conn[c] \in {"new", "accepted"}
  PROVE  HubInv'
<1>1. DOMAIN slots' = DOMAIN slots
  BY LenProperties DEF HubInv, InboundType
<1>2. InboundType'
  BY DEF HubInv, InboundType
<1>3. Spent(slots, cursor)'
  BY <1>1 DEF HubInv, Spent, SameCredits
<1>4. ASSUME NEW c \in Conn PROVE QueueOf(c)' = QueueOf(c)
  <2>1. place[c] = 0 \/ place[c] \in DOMAIN slots
    BY TableIs DEF HubInv
  <2> QED
    BY <2>1 DEF QueueOf, SameQueues
<1>5. Owned'
  <2>1. ASSUME NEW c \in Conn, Active(c)'
        PROVE  /\ place'[c] \in DOMAIN slots' /\ slots'[place'[c]].live
               /\ \A x \in Range(QueueOf(c)') : x.from = c
               /\ \A d \in Conn : Active(d)' /\ place'[d] = place'[c] => d = c
    BY <1>1, <1>4, <2>1 DEF HubInv, Owned
  <2>2. \A c \in Conn : conn'[c] \in {"new", "accepted"} => place'[c] = 0
    BY DEF HubInv, Owned
  <2>3. \A i \in DOMAIN slots' : \A x, y \in Range(slots'[i].queue) :
          x.from = y.from /\ place'[x.from] = i
    BY <1>1 DEF HubInv, Owned, SameQueues
  <2> QED
    BY <2>1, <2>2, <2>3 DEF Owned
<1>6. ASSUME NEW c \in Conn PROVE InOrder(c)'
  <2>1. InOrder(c)
    BY DEF HubInv
  <2> QED
    BY <1>4, <2>1 DEF InOrder, Rising, Before
<1>7. ASSUME NEW c \in Conn PROVE Round(c)'
  <2> DEFINE p == place[c]
             b == bypass[c]
  <2>1. RoundIn(slots, cursor, p, c, b)
    BY DEF HubInv, Round
  <2>2. slots \in Seq(Slot)
    BY DEF HubInv, InboundType
  <2> HIDE DEF p, b
  <2>3. RoundIn(slots', cursor, p, c, b)
    BY <2>1, <2>2, SameRound
  <2> QED
    BY <2>3 DEF Round, p, b
<1> QED
  BY <1>2, <1>3, <1>5, <1>6, <1>7 DEF HubInv

LEMMA DrainWaits ==
  ASSUME HubInv,
         \/ SeesNoSlot \/ Poll \/ Wake \/ FiveMillisecondsPass \/ UNCHANGED vars
         \/ \E c \in Conn : Accept(c) \/ Reject(c) \/ Notify(c)
  PROVE  HubInv'
<1>1. /\ UNCHANGED << slots, cursor, place, sent, got, bypass, shared, holding >>
      /\ drain' = drain \/ (drain # "deliver" /\ drain' # "deliver")
  BY DEF SeesNoSlot, Poll, Wake, FiveMillisecondsPass, vars, Accept, Reject, Notify,
         connVars, drainVars, relayVars
<1>2. HoldsOne'
  BY <1>1 DEF HubInv, HoldsOne, Numbered
<1>3. /\ slots' \in Seq(Slot) /\ Len(slots') = Len(slots) /\ Weighted(slots)'
      /\ SameQueues(slots, slots') /\ SameCredits(slots, slots')
  BY <1>1 DEF HubInv, InboundType, SameQueues, SameCredits
<1>4. CASE \E c \in Conn : Accept(c) \/ Reject(c) \/ Notify(c)
  <2>1. PICK c \in Conn : Accept(c) \/ Reject(c) \/ Notify(c)
    BY <1>4
  <2>2. PICK s \in {"accepted", "rejected", "ready"} :
          /\ conn' = [conn EXCEPT ![c] = s]
          /\ s = "ready" => conn[c] = "notifying"
          /\ s = "accepted" => conn[c] = "new"
    BY <2>1 DEF Accept, Reject, Notify
  <2>3. conn \in [Conn -> {"new", "accepted", "registered", "ready", "notifying",
                           "closed", "rejected"}]
    BY DEF HubInv, InboundType
  <2>4. conn' \in [Conn -> {"new", "accepted", "registered", "ready", "notifying",
                            "closed", "rejected"}]
    BY <2>2, <2>3
  <2>5. \A d \in Conn : Active(d)' => Active(d) /\ slots'[place[d]].live
    BY <1>1, <2>2, <2>3 DEF HubInv, Owned, Active
  <2>6. \A d \in Conn : conn'[d] \in {"new", "accepted"} => conn[d] \in {"new", "accepted"}
    BY <2>2, <2>3
  <2> QED
    BY <1>1, <1>2, <1>3, <2>4, <2>5, <2>6, TableKeeps
<1>5. CASE UNCHANGED conn
  <2>1. conn' \in [Conn -> {"new", "accepted", "registered", "ready", "notifying",
                            "closed", "rejected"}]
    BY <1>5 DEF HubInv, InboundType
  <2>2. \A d \in Conn : Active(d)' => Active(d) /\ slots'[place[d]].live
    BY <1>1, <1>5 DEF HubInv, Owned, Active
  <2> QED
    BY <1>1, <1>2, <1>3, <1>5, <2>1, <2>2, TableKeeps
<1>6. UNCHANGED conn \/ \E c \in Conn : Accept(c) \/ Reject(c) \/ Notify(c)
  BY DEF SeesNoSlot, Poll, Wake, FiveMillisecondsPass, vars, connVars
<1> QED
  BY <1>4, <1>5, <1>6

LEMMA ReadyKeeps ==
  ASSUME HubInv, NEW c \in Conn, Ready(c)
  PROVE  HubInv'
<1>1. /\ conn[c] = "registered" /\ conn' = [conn EXCEPT ![c] = "ready"]
      /\ UNCHANGED << cursor, place, sent, got, bypass, shared, holding, drain >>
  BY DEF Ready, drainVars, relayVars
<1>2. slots \in Seq(Slot) /\ Weighted(slots) /\ place[c] \in DOMAIN slots
  BY <1>1 DEF HubInv, InboundType, Owned, Active
<1>3. PICK w \in 1 .. MaxWeight : slots' = FQ!SetWeight(slots, place[c], w)
  BY WeightsFit DEF Ready
<1> DEFINE i == place[c]
<1> HIDE DEF i
<1>4. /\ slots' \in Seq(Slot) /\ Len(slots') = Len(slots) /\ Weighted(slots')
      /\ SameQueues(slots, slots') /\ SameCredits(slots, slots') /\ StillLive(slots, slots')
  <2>1. i \in DOMAIN slots /\ slots' = FQ!SetWeight(slots, i, w)
    BY <1>2, <1>3 DEF i
  <2> QED
    BY <1>2, <2>1, SetWeightKeeps
<1>5. HoldsOne' /\ Weighted(slots)'
  BY <1>1, <1>4 DEF HubInv, HoldsOne, Numbered
<1>6. conn \in [Conn -> {"new", "accepted", "registered", "ready", "notifying",
                         "closed", "rejected"}]
  BY DEF HubInv, InboundType
<1>7. conn' \in [Conn -> {"new", "accepted", "registered", "ready", "notifying",
                          "closed", "rejected"}]
  BY <1>1, <1>6
<1>8. \A d \in Conn : Active(d)' => Active(d) /\ slots'[place[d]].live
  BY <1>1, <1>4, <1>6 DEF HubInv, Owned, Active, StillLive
<1>9. \A d \in Conn : conn'[d] \in {"new", "accepted"} => conn[d] \in {"new", "accepted"}
  BY <1>1, <1>6
<1> QED
  BY <1>1, <1>4, <1>5, <1>7, <1>8, <1>9, TableKeeps

LEMMA CloseKeeps ==
  ASSUME HubInv, NEW c \in Conn, Close(c)
  PROVE  HubInv'
<1>1. /\ Active(c) /\ conn' = [conn EXCEPT ![c] = "closed"]
      /\ slots' = FQ!Hang(slots, place[c])
      /\ UNCHANGED << cursor, place, sent, got, bypass, shared, holding, drain >>
  BY DEF Close, drainVars, relayVars, Active
<1>2. slots \in Seq(Slot) /\ Weighted(slots) /\ place[c] \in DOMAIN slots
      /\ slots[place[c]].live
  BY <1>1 DEF HubInv, InboundType, Owned
<1> DEFINE i == place[c]
<1> HIDE DEF i
<1>3. /\ slots' \in Seq(Slot) /\ Len(slots') = Len(slots) /\ Weighted(slots')
      /\ SameQueues(slots, slots') /\ SameCredits(slots, slots')
      /\ \A j \in DOMAIN slots : j # i /\ slots[j].live => slots'[j].live
  <2>1. i \in DOMAIN slots /\ slots[i].live /\ slots' = FQ!Hang(slots, i)
    BY <1>1, <1>2 DEF i
  <2> QED
    BY <1>2, <2>1, HangKeeps
<1>4. HoldsOne' /\ Weighted(slots)'
  BY <1>1, <1>3 DEF HubInv, HoldsOne, Numbered
<1>5. conn \in [Conn -> {"new", "accepted", "registered", "ready", "notifying",
                         "closed", "rejected"}]
  BY DEF HubInv, InboundType
<1>6. conn' \in [Conn -> {"new", "accepted", "registered", "ready", "notifying",
                          "closed", "rejected"}]
  BY <1>1, <1>5
<1>7. \A d \in Conn : Active(d)' => Active(d) /\ d # c
  BY <1>1, <1>5 DEF Active
<1>8. \A d \in Conn : Active(d)' => slots'[place[d]].live
  BY <1>1, <1>3, <1>7 DEF HubInv, Owned, i
<1>9. \A d \in Conn : conn'[d] \in {"new", "accepted"} => conn[d] \in {"new", "accepted"}
  BY <1>1, <1>5
<1> QED
  BY <1>1, <1>3, <1>4, <1>6, <1>7, <1>8, <1>9, TableKeeps

-----------------------------------------------------------------------------
(***************************************************************************)
(* A connection is registered: it waits for nothing yet, and others wait   *)
(* for at most one visit more.                                             *)
(***************************************************************************)
LEMMA RoundGrows ==
  ASSUME NEW old \in Seq(Slot), NEW new \in Seq(Slot), NEW at \in DOMAIN new,
         \/ at \in DOMAIN old /\ Len(new) = Len(old) /\ old[at].queue = << >>
            /\ old[at].credits = 0
         \/ at = Len(old) + 1 /\ Len(new) = Len(old) + 1,
         new[at].queue = << >>, new[at].credits = 0,
         \A j \in DOMAIN old : j # at => new[j] = old[j],
         NEW k \in 0 .. Len(old), Spent(old, k), NEW c, NEW i \in 0 .. Len(old),
         WaitingIn(old, c) => i \in DOMAIN old,
         NEW b \in Nat, RoundIn(old, k, i, c, b)
  PROVE  RoundIn(new, k, i, c, b) /\ Spent(new, k) /\ (WaitingIn(new, c) <=> WaitingIn(old, c))
<1>1. /\ DOMAIN old = 1 .. Len(old) /\ DOMAIN new = 1 .. Len(new) /\ Len(old) \in Nat
      /\ MaxWeight \in Nat
  BY LenProperties, FairInboundAssumption
<1> DEFINE n == Len(old)
           m == Len(new)
<1>0. /\ \A j \in DOMAIN new : j # at => j \in DOMAIN old
      /\ \A j \in DOMAIN old : j \in DOMAIN new
  <2>1. n \in Nat /\ DOMAIN old = 1 .. n /\ DOMAIN new = 1 .. m
    BY <1>1
  <2>2. m = n \/ (at = n + 1 /\ m = n + 1)
    OBVIOUS
  <2> HIDE DEF n, m
  <2> QED
    BY <2>1, <2>2
<1> HIDE DEF n, m
<1>2. \A j \in DOMAIN new : j # at => j \in DOMAIN old /\ new[j] = old[j]
  BY <1>0
<1>3. \A j \in DOMAIN old : j \in DOMAIN new /\ new[j].queue = old[j].queue
                            /\ new[j].credits = old[j].credits
  <2> SUFFICES ASSUME NEW j \in DOMAIN old
               PROVE  new[j].queue = old[j].queue /\ new[j].credits = old[j].credits
    BY <1>0
  <2>1. CASE j # at
    BY <2>1
  <2>2. CASE j = at
    <3>1. at \in DOMAIN old
      BY <2>2
    <3>2. at # n + 1
      <4>1. n \in Nat /\ at \in 1 .. n
        BY <1>1, <3>1 DEF n
      <4> QED
        BY <4>1
    <3>3. old[at].queue = << >> /\ old[at].credits = 0
      BY <3>2 DEF n
    <3> QED
      BY <2>2, <3>3
  <2> QED
    BY <2>1, <2>2
<1>4. Len(<< >>) = 0
  OBVIOUS
<1>5. WaitingIn(new, c) <=> WaitingIn(old, c)
  <2>1. ASSUME NEW j \in DOMAIN new, NEW s \in 1 .. QueueCap, s <= Len(new[j].queue),
               new[j].queue[s].from = c
        PROVE  WaitingIn(old, c)
    <3>1. j # at
      BY <1>4, <2>1, FairInboundAssumption
    <3> QED
      BY <1>2, <2>1, <3>1 DEF WaitingIn
  <2>2. WaitingIn(old, c) => WaitingIn(new, c)
    BY <1>3 DEF WaitingIn
  <2> QED
    BY <2>1, <2>2 DEF WaitingIn
<1>6. Spent(new, k)
  BY <1>2 DEF Spent
<1>7. CASE ~ WaitingIn(old, c)
  BY <1>5, <1>6, <1>7 DEF RoundIn
<1>8. CASE WaitingIn(old, c) /\ Len(new) = Len(old)
  <2>1. Ahead(new, k, i) = Ahead(old, k, i)
    BY <1>3, <1>8, AheadSame
  <2> QED
    BY <1>5, <1>6, <1>8, <2>1 DEF RoundIn
<1>9. CASE WaitingIn(old, c) /\ at = Len(old) + 1 /\ Len(new) = Len(old) + 1
  <2>1. i \in DOMAIN old
    BY <1>9
  <2> DEFINE p == Ahead(new, k, i)
             q == Ahead(old, k, i)
             u == (Len(new) - 1) * MaxWeight
             v == (Len(old) - 1) * MaxWeight
  <2>2. p <= q + MaxWeight /\ u = v + MaxWeight
    BY <1>3, <1>9, <2>1, AheadGrows
  <2>3. q \in Nat /\ v \in Nat
    BY <2>1, AheadBound
  <2>4. p \in Nat
    <3>1. k \in 0 .. Len(new) /\ i \in DOMAIN new
      BY <1>1, <1>3, <1>9, <2>1
    <3> QED
      BY <3>1, AheadBound
  <2>5. b + q <= v
    BY <1>9 DEF RoundIn
  <2>7. MaxWeight \in Nat
    BY <1>1
  <2> HIDE DEF p, q, u, v
  <2>6. b + p <= u
    BY <2>2, <2>3, <2>4, <2>5, <2>7
  <2> QED
    BY <1>5, <1>6, <1>9, <2>6 DEF RoundIn, p, u
<1> QED
  BY <1>7, <1>8, <1>9

LEMMA RegisterKeeps ==
  ASSUME HubInv, NEW c \in Conn, RegisterConn(c)
  PROVE  HubInv'
<1> DEFINE i == FQ!PlaceFor(slots)
           fresh == FQ!NewSlot(FQ!DefaultWeight)
<1>1. /\ conn[c] = "accepted" /\ conn' = [conn EXCEPT ![c] = "registered"]
      /\ place' = [place EXCEPT ![c] = i]
      /\ slots' = FQ!Register(slots, FQ!DefaultWeight)
      /\ UNCHANGED << cursor, sent, got, bypass, shared, holding, drain >>
  BY DEF RegisterConn, drainVars, relayVars
<1>2. /\ slots \in Seq(Slot) /\ Weighted(slots) /\ Spent(slots, cursor)
      /\ cursor \in 0 .. Len(slots)
      /\ place \in [Conn -> 0 .. Len(slots)] /\ place[c] = 0
      /\ DOMAIN slots = 1 .. Len(slots) /\ Len(slots) \in Nat
      /\ conn \in [Conn -> {"new", "accepted", "registered", "ready", "notifying",
                            "closed", "rejected"}]
  BY <1>1, TableIs DEF HubInv, InboundType, Owned
<1>3. /\ slots' \in Seq(Slot) /\ Weighted(slots') /\ i \in DOMAIN slots'
      /\ \/ i \in DOMAIN slots /\ FQ!IsFree(slots[i]) /\ Len(slots') = Len(slots)
         \/ i = Len(slots) + 1 /\ Len(slots') = Len(slots) + 1
      /\ slots'[i] = fresh
      /\ \A j \in DOMAIN slots : j # i => slots'[j] = slots[j]
  BY <1>1, <1>2, RegisterAdds
<1>4. fresh.live /\ fresh.queue = << >> /\ fresh.credits = 0
  BY NewSlotIs
<1>5. i \in DOMAIN slots => ~ slots[i].live /\ slots[i].queue = << >> /\ slots[i].credits = 0
  BY <1>2, <1>3, FreeIs DEF FQ!IsFree
<1> HIDE DEF i, fresh
<1>6. DOMAIN slots' = 1 .. Len(slots')
  BY <1>3, LenProperties
<1> DEFINE n == Len(slots)
           m == Len(slots')
<1>0. /\ n \in Nat /\ DOMAIN slots = 1 .. n /\ DOMAIN slots' = 1 .. m
      /\ ((i \in 1 .. n /\ m = n) \/ (i = n + 1 /\ m = n + 1)) /\ cursor \in 0 .. n
      /\ \A d \in Conn : place[d] \in 0 .. n
  BY <1>2, <1>3, <1>6
<1> HIDE DEF n, m
<1>19. /\ i \in 1 .. m /\ i # 0 /\ m \in Nat /\ n <= m /\ DOMAIN slots \subseteq DOMAIN slots'
       /\ \A j \in 1 .. m : j # i => j \in 1 .. n
  BY <1>0
<1>7. \A j \in DOMAIN slots' : j # i => j \in DOMAIN slots /\ slots'[j] = slots[j]
  BY <1>0, <1>3, <1>19
<1>8. \A d \in Conn : place'[d] = IF d = c THEN i ELSE place[d]
  BY <1>1, <1>2
<1>9. InboundType'
  <2>1. place' \in [Conn -> 0 .. Len(slots')]
    <3>1. \A d \in Conn : place'[d] \in 0 .. m
      BY <1>0, <1>8, <1>19
    <3> QED
      BY <1>1, <1>2, <3>1 DEF m
  <2>2. conn' \in [Conn -> {"new", "accepted", "registered", "ready", "notifying",
                            "closed", "rejected"}]
    BY <1>1, <1>2
  <2>3. cursor' \in 0 .. Len(slots')
    <3>1. cursor \in 0 .. m
      BY <1>0, <1>19
    <3> QED
      BY <1>1, <3>1 DEF m
  <2> QED
    BY <1>1, <1>3, <2>1, <2>2, <2>3 DEF HubInv, InboundType
<1>10. HoldsOne' /\ Weighted(slots)'
  BY <1>1, <1>3 DEF HubInv, HoldsOne, Numbered
<1>11. \A j \in DOMAIN slots : \A x \in Range(slots[j].queue) : x.from # c
  BY <1>2 DEF HubInv, Owned
<1>12. QueueOf(c)' = << >>
  <2>1. place'[c] = i /\ slots'[i].queue = << >> /\ i # 0
    BY <1>3, <1>4, <1>8, <1>19
  <2> QED
    BY <2>1 DEF QueueOf
<1>13. \A d \in Conn : d # c => QueueOf(d)' = QueueOf(d)
  <2> SUFFICES ASSUME NEW d \in Conn, d # c PROVE QueueOf(d)' = QueueOf(d)
    OBVIOUS
  <2>1. place'[d] = place[d] /\ (place[d] = 0 \/ place[d] \in DOMAIN slots)
    BY <1>8, TableIs DEF HubInv
  <2>2. CASE place[d] = i /\ place[d] # 0
    BY <1>3, <1>4, <1>5, <2>1, <2>2 DEF QueueOf
  <2>3. CASE place[d] # i \/ place[d] = 0
    BY <1>3, <2>1, <2>3 DEF QueueOf
  <2> QED
    BY <2>2, <2>3
<1>14. \A d \in Conn : Active(d)' <=> d = c \/ Active(d)
  BY <1>1, <1>2 DEF Active
<1>15. Owned'
  <2>1. ASSUME NEW d \in Conn, Active(d), d # c
        PROVE  place[d] \in DOMAIN slots /\ slots[place[d]].live /\ place[d] # i
    BY <1>5, <2>1 DEF HubInv, Owned
  <2>2. ASSUME NEW d \in Conn, Active(d)'
        PROVE  /\ place'[d] \in DOMAIN slots' /\ slots'[place'[d]].live
               /\ \A x \in Range(QueueOf(d)') : x.from = d
               /\ \A e \in Conn : Active(e)' /\ place'[e] = place'[d] => e = d
    <3>1. CASE d = c
      BY <1>3, <1>4, <1>8, <1>12, <1>14, <2>1, <3>1, RangeOfNone
    <3>2. CASE d # c
      <4>1. place'[d] = place[d] /\ place[d] \in DOMAIN slots /\ place[d] # i /\ Active(d)
        BY <1>8, <1>14, <2>1, <2>2, <3>2
      <4>2. place[d] \in DOMAIN slots' /\ slots'[place[d]] = slots[place[d]]
        BY <1>3, <1>19, <4>1
      <4>3. \A e \in Conn : Active(e)' /\ place'[e] = place'[d] => e = d
        BY <1>8, <1>14, <2>1, <4>1 DEF HubInv, Owned
      <4>4. \A x \in Range(QueueOf(d)') : x.from = d
        BY <1>13, <3>2, <4>1 DEF HubInv, Owned
      <4>5. slots[place[d]].live
        BY <4>1 DEF HubInv, Owned
      <4> QED
        BY <4>1, <4>2, <4>3, <4>4, <4>5
    <3> QED
      BY <3>1, <3>2
  <2>3. \A d \in Conn : conn'[d] \in {"new", "accepted"} => place'[d] = 0
    BY <1>1, <1>2, <1>8 DEF HubInv, Owned
  <2>4. \A j \in DOMAIN slots' : \A x, y \in Range(slots'[j].queue) :
          x.from = y.from /\ place'[x.from] = j
    <3> SUFFICES ASSUME NEW j \in DOMAIN slots', NEW x \in Range(slots'[j].queue),
                        NEW y \in Range(slots'[j].queue)
                 PROVE  x.from = y.from /\ place'[x.from] = j
      OBVIOUS
    <3>1. j # i
      BY <1>3, <1>4, RangeOfNone
    <3>2. j \in DOMAIN slots /\ x \in Range(slots[j].queue) /\ y \in Range(slots[j].queue)
      BY <1>7, <3>1
    <3>3. x.from \in Conn /\ x.from # c
      BY <1>11, <3>2, TableIs DEF HubInv, Numbered
    <3> QED
      BY <1>8, <3>2, <3>3 DEF HubInv, Owned
  <2> QED
    BY <2>2, <2>3, <2>4 DEF Owned
<1>16. ASSUME NEW d \in Conn PROVE InOrder(d)'
  <2>1. InOrder(d)
    BY DEF HubInv
  <2>2. CASE d # c
    BY <1>1, <1>13, <2>1, <2>2 DEF InOrder, Rising, Before
  <2>3. CASE d = c
    <3>1. Rising(d, << >>) /\ Range(QueueOf(d)') = {}
      BY <1>12, <2>3, RangeOfNone DEF Rising
    <3> QED
      BY <1>1, <1>12, <2>1, <2>3, <3>1 DEF InOrder, Before
  <2> QED
    BY <2>2, <2>3
<1>17. ASSUME NEW d \in Conn PROVE Round(d)' /\ Spent(slots, cursor)'
  <2> DEFINE p == place[d]
             b == bypass[d]
  <2>1. RoundIn(slots, cursor, p, d, b) /\ b \in Nat /\ p \in 0 .. Len(slots)
    BY <1>2 DEF HubInv, Round, InboundType
  <2>2. WaitingIn(slots, d) => p \in DOMAIN slots /\ d # c
    <3> SUFFICES ASSUME NEW j \in DOMAIN slots, NEW s \in 1 .. QueueCap,
                        s <= Len(slots[j].queue), slots[j].queue[s].from = d
                 PROVE  p \in DOMAIN slots /\ d # c
      BY DEF WaitingIn
    <3>1. slots[j].queue \in Seq(Numbered)
      BY TableIs DEF HubInv
    <3>2. slots[j].queue[s] \in Range(slots[j].queue)
      BY <3>1, LenProperties DEF Range
    <3> QED
      BY <1>11, <3>2 DEF HubInv, Owned
  <2> HIDE DEF p, b
  <2>3. /\ RoundIn(slots', cursor, p, d, b) /\ Spent(slots', cursor)
        /\ (WaitingIn(slots', d) <=> WaitingIn(slots, d))
    <3>1. slots'[i].queue = << >> /\ slots'[i].credits = 0
      BY <1>3, <1>4
    <3> DEFINE new == slots'
    <3>2. /\ new \in Seq(Slot) /\ i \in DOMAIN new
          /\ new[i].queue = << >> /\ new[i].credits = 0
          /\ \/ i \in DOMAIN slots /\ Len(new) = Len(slots) /\ slots[i].queue = << >>
                /\ slots[i].credits = 0
             \/ i = Len(slots) + 1 /\ Len(new) = Len(slots) + 1
          /\ \A j \in DOMAIN slots : j # i => new[j] = slots[j]
      BY <1>3, <1>5, <3>1
    <3> HIDE DEF new
    <3>3. /\ RoundIn(new, cursor, p, d, b) /\ Spent(new, cursor)
          /\ (WaitingIn(new, d) <=> WaitingIn(slots, d))
      <4>1. /\ slots \in Seq(Slot) /\ cursor \in 0 .. Len(slots) /\ Spent(slots, cursor)
            /\ p \in 0 .. Len(slots) /\ b \in Nat /\ RoundIn(slots, cursor, p, d, b)
            /\ WaitingIn(slots, d) => p \in DOMAIN slots
        BY <1>2, <2>1, <2>2
      <4> HIDE DEF i
      <4> QED
        BY <3>2, <4>1, RoundGrows
    <3> QED
      BY <3>3 DEF new
  <2>4. Spent(slots, cursor)'
    BY <1>1, <2>3
  <2>5. CASE d # c
    <3>1. place'[d] = p /\ bypass'[d] = b /\ cursor' = cursor
      BY <1>1, <1>8, <2>5 DEF p, b
    <3> QED
      BY <2>3, <2>4, <3>1 DEF Round
  <2>6. CASE d = c
    <3>1. ~ WaitingIn(slots', d) /\ b = 0 /\ bypass'[d] = 0
      BY <1>1, <2>1, <2>2, <2>3, <2>6 DEF RoundIn, b
    <3> QED
      BY <2>4, <3>1 DEF Round, RoundIn
  <2> QED
    BY <2>5, <2>6
<1>18. Spent(slots, cursor)'
  BY <1>17
<1> QED
  BY <1>9, <1>10, <1>15, <1>16, <1>17, <1>18 DEF HubInv

-----------------------------------------------------------------------------
(***************************************************************************)
(* A connection puts a packet, or drops it at a full queue.                *)
(***************************************************************************)
LEMMA EnqueueKeeps ==
  ASSUME HubInv, NEW c \in Conn, Enqueue(c)
  PROVE  HubInv'
<1> DEFINE i == place[c]
           x == [from |-> c, number |-> sent[c] + 1]
<1>1. /\ conn[c] = "ready" /\ conn' = [conn EXCEPT ![c] = "notifying"]
      /\ sent' = [sent EXCEPT ![c] = sent[c] + 1]
      /\ UNCHANGED << cursor, place, got, bypass, shared, holding, drain >>
      /\ slots' = slots \/ slots' = FQ!Put(slots, i, x)
  BY DEF Enqueue, drainVars, relayVars
<1>2. /\ slots \in Seq(Slot) /\ Weighted(slots) /\ i \in DOMAIN slots /\ slots[i].live
      /\ sent \in [Conn -> Nat] /\ got \in [Conn -> Nat]
      /\ cursor \in 0 .. Len(slots) /\ place \in [Conn -> 0 .. Len(slots)]
      /\ conn \in [Conn -> {"new", "accepted", "registered", "ready", "notifying",
                            "closed", "rejected"}]
      /\ \A y \in Range(QueueOf(c)) : y.from = c
  BY <1>1 DEF HubInv, InboundType, Owned, Active
<1>3. x \in Numbered /\ x.from = c /\ x.number = sent[c] + 1
  BY <1>2 DEF Numbered
<1>4. \A d \in Conn : sent'[d] \in Nat /\ sent[d] \in Nat /\ got[d] \in Nat
                      /\ sent'[d] = IF d = c THEN sent[d] + 1 ELSE sent[d]
  BY <1>1, <1>2
<1>5. i # 0 /\ QueueOf(c) = slots[i].queue
  BY <1>2, TableIs DEF HubInv, QueueOf
<1> HIDE DEF i, x
<1>6. \A d \in Conn : /\ InOrder(d)
                      /\ \A y \in Range(shared) \cup Range(holding) \cup Range(QueueOf(d)) :
                           /\ y.number \in Nat
                           /\ y.from = d => y.number <= sent[d]
  <2>1. Range(shared) \subseteq Numbered /\ Range(holding) \subseteq Numbered
    BY RangeParts, RangeOfOne, RangeOfNone DEF HubInv, InboundType, HoldsOne
  <2>2. \A d \in Conn : Range(QueueOf(d)) \subseteq Numbered
    BY TableIs DEF HubInv
  <2> QED
    BY <2>1, <2>2 DEF HubInv, InOrder, Numbered
<1>7. sent' \in [Conn -> Nat] /\ conn' \in [Conn -> {"new", "accepted", "registered", "ready",
                                                    "notifying", "closed", "rejected"}]
  BY <1>1, <1>2
<1>8. \A d \in Conn : Active(d)' <=> Active(d)
  BY <1>1, <1>2 DEF Active
<1>9. \A d \in Conn : conn'[d] \in {"new", "accepted"} => conn[d] \in {"new", "accepted"}
  BY <1>1, <1>2
<1>10. CASE slots' = slots
  <2>1. InboundType' /\ HoldsOne' /\ Weighted(slots)' /\ Spent(slots, cursor)'
    BY <1>1, <1>7, <1>10 DEF HubInv, InboundType, HoldsOne, Numbered
  <2>2. Owned'
    BY <1>1, <1>8, <1>9, <1>10 DEF HubInv, Owned, QueueOf
  <2>3. ASSUME NEW d \in Conn PROVE InOrder(d)'
    <3>1. QueueOf(d)' = QueueOf(d)
      BY <1>1, <1>10 DEF QueueOf
    <3>2. InOrder(d) /\ sent[d] <= sent'[d]
      BY <1>4, <1>6
    <3>3. \A y \in Range(shared) \cup Range(holding) \cup Range(QueueOf(d)) :
            y.from = d => y.number <= sent'[d]
      BY <1>4, <1>6
    <3> QED
      BY <1>1, <1>4, <3>1, <3>2, <3>3 DEF InOrder, Rising, Before
  <2>4. ASSUME NEW d \in Conn PROVE Round(d)'
    BY <1>1, <1>10 DEF HubInv, Round
  <2> QED
    BY <2>1, <2>2, <2>3, <2>4 DEF HubInv
<1>11. CASE slots' = FQ!Put(slots, i, x)
  <2> DEFINE q == slots[i].queue
             more == Append(q, x)
  <2>1. /\ slots' \in Seq(Slot) /\ Len(slots') = Len(slots) /\ Weighted(slots')
        /\ SameCredits(slots, slots') /\ StillLive(slots, slots')
        /\ q \in Seq(Numbered)
        /\ \A j \in DOMAIN slots : slots'[j].queue = IF j = i THEN more ELSE slots[j].queue
    BY <1>2, <1>3, <1>11, PutAdds
  <2>2. DOMAIN slots' = DOMAIN slots
    BY <1>2, <2>1, LenProperties
  <2>3. more \in Seq(Numbered) /\ Range(more) = Range(q) \cup {x}
    BY <1>3, <2>1, RangeParts
  <2> HIDE DEF more
  <2>4. QueueOf(c)' = more
    BY <1>1, <1>2, <1>5, <2>1 DEF QueueOf, i
  <2>5. \A d \in Conn : place[d] # i => QueueOf(d)' = QueueOf(d)
    <3> SUFFICES ASSUME NEW d \in Conn, place[d] # i PROVE QueueOf(d)' = QueueOf(d)
      OBVIOUS
    <3>1. place[d] = 0 \/ place[d] \in DOMAIN slots
      BY TableIs DEF HubInv
    <3> QED
      BY <1>1, <2>1, <3>1 DEF QueueOf
  <2>6. \A d \in Conn : place[d] = i => QueueOf(d) = q /\ QueueOf(d)' = more
    BY <1>1, <1>2, <1>5, <2>1 DEF QueueOf
  <2>7. InboundType' /\ HoldsOne' /\ Weighted(slots)' /\ Spent(slots, cursor)'
    <3>1. Spent(slots, cursor)'
      BY <1>1, <2>1, <2>2 DEF HubInv, Spent, SameCredits
    <3>2. HoldsOne'
      BY <1>1 DEF HubInv, HoldsOne, Numbered
    <3> QED
      BY <1>1, <1>7, <2>1, <3>1, <3>2 DEF HubInv, InboundType
  <2>8. \A y \in Range(more) : y.from = c
    BY <1>2, <1>3, <1>5, <2>3
  <2>9. Owned'
    <3>1. ASSUME NEW d \in Conn, Active(d)'
          PROVE  /\ place'[d] \in DOMAIN slots' /\ slots'[place'[d]].live
                 /\ \A y \in Range(QueueOf(d)') : y.from = d
                 /\ \A e \in Conn : Active(e)' /\ place'[e] = place'[d] => e = d
      <4>1. Active(d) /\ Active(c)
        BY <1>1, <1>8, <3>1 DEF Active
      <4>2. place[d] \in DOMAIN slots /\ slots'[place[d]].live
        BY <2>1, <4>1 DEF HubInv, Owned, StillLive
      <4>3. place[d] = i => d = c
        BY <4>1 DEF HubInv, Owned, i
      <4>4. \A y \in Range(QueueOf(d)') : y.from = d
        BY <2>4, <2>5, <2>8, <4>1, <4>3 DEF HubInv, Owned
      <4>5. \A e \in Conn : Active(e)' /\ place'[e] = place'[d] => e = d
        BY <1>1, <1>8, <4>1 DEF HubInv, Owned
      <4> QED
        BY <1>1, <2>2, <4>2, <4>4, <4>5
    <3>2. \A d \in Conn : conn'[d] \in {"new", "accepted"} => place'[d] = 0
      BY <1>1, <1>9 DEF HubInv, Owned
    <3>3. \A j \in DOMAIN slots' : \A y, z \in Range(slots'[j].queue) :
            y.from = z.from /\ place'[y.from] = j
      <4> SUFFICES ASSUME NEW j \in DOMAIN slots, NEW y \in Range(slots'[j].queue),
                          NEW z \in Range(slots'[j].queue)
                   PROVE  y.from = z.from /\ place'[y.from] = j
        BY <2>2
      <4>1. CASE j = i
        BY <1>1, <2>1, <2>8, <4>1 DEF i
      <4>2. CASE j # i
        BY <1>1, <2>1, <4>2 DEF HubInv, Owned
      <4> QED
        BY <4>1, <4>2
    <3> QED
      BY <3>1, <3>2, <3>3 DEF Owned
  <2>10. ASSUME NEW d \in Conn PROVE InOrder(d)'
    <3>1. InOrder(d) /\ sent[d] <= sent'[d]
      BY <1>4, <1>6
    <3>2. \A y \in Range(shared) \cup Range(holding) \cup Range(QueueOf(d)) :
            y.from = d => y.number <= sent'[d]
      BY <1>4, <1>6
    <3>3. CASE place[d] # i
      <4>1. QueueOf(d)' = QueueOf(d)
        BY <2>5, <3>3
      <4> QED
        BY <1>1, <1>4, <3>1, <3>2, <4>1 DEF InOrder, Rising, Before
    <3>4. CASE place[d] = i
      <4>1. QueueOf(d) = q /\ QueueOf(d)' = more
        BY <2>6, <3>4
      <4>2. x.from = d => \A y \in Range(shared) \cup Range(holding) \cup Range(q) :
              y.from = d => y.number < x.number
        BY <1>3, <1>4, <1>6, <4>1
      <4>3. Before(d, Range(q), {x}) /\ Rising(d, q)
        BY <3>1, <4>1, <4>2 DEF Before, InOrder
      <4>4. Rising(d, more)
        <5> HIDE DEF q
        <5>1. q \in Seq(Numbered) /\ Rising(d, q) /\ Before(d, Range(q), {x})
          BY <2>1, <4>3
        <5>2. Rising(d, Append(q, x))
          BY <1>3, <5>1, RisingParts
        <5> QED
          BY <5>2 DEF more
      <4>5. x.from = d => got[d] < x.number /\ x.number <= sent'[d]
        BY <1>3, <1>4, <3>1 DEF InOrder
      <4> HIDE DEF q
      <4> QED
        BY <1>1, <1>4, <2>3, <3>1, <3>2, <4>1, <4>2, <4>4, <4>5 DEF InOrder, Before
    <3> QED
      BY <3>3, <3>4
  <2>11. ASSUME NEW d \in Conn PROVE Round(d)'
    <3> DEFINE p == place[d]
               b == bypass[d]
    <3>1. RoundIn(slots, cursor, p, d, b) /\ b \in Nat
      BY DEF HubInv, Round, InboundType
    <3>2. place' = place /\ bypass' = bypass /\ cursor' = cursor
      BY <1>1
    <3>3. \A k, j : Ahead(slots', k, j) = Ahead(slots, k, j)
      <4> DEFINE new == slots'
      <4>1. new \in Seq(Slot) /\ Len(new) = Len(slots) /\ SameCredits(slots, new)
        BY <2>1
      <4> HIDE DEF new
      <4>2. \A k, j : Ahead(new, k, j) = Ahead(slots, k, j)
        BY <1>2, <4>1, AheadSame DEF SameCredits
      <4> QED
        BY <4>2 DEF new
    <3>4. CASE d # c
      <4>1. WaitingIn(slots', d) <=> WaitingIn(slots, d)
        <5>1. ASSUME NEW j \in DOMAIN slots, NEW s \in 1 .. QueueCap
              PROVE  s <= Len(slots'[j].queue) /\ slots'[j].queue[s].from = d
                     <=> s <= Len(slots[j].queue) /\ slots[j].queue[s].from = d
          <6>1. CASE j # i
            BY <2>1, <6>1
          <6>2. CASE j = i
            <7>1. slots'[j].queue = more /\ slots[j].queue = q
              BY <2>1, <6>2
            <7>2. \A y \in Range(more) : y.from # d
              BY <2>8, <3>4
            <7>3. s <= Len(more) => more[s] \in Range(more)
              BY <2>3, LenProperties, FairInboundAssumption DEF Range
            <7>4. s <= Len(q) => q[s] \in Range(q)
              BY <2>1, LenProperties, FairInboundAssumption DEF Range
            <7> QED
              BY <2>3, <7>1, <7>2, <7>3, <7>4
          <6> QED
            BY <6>1, <6>2
        <5> QED
          BY <2>2, <5>1 DEF WaitingIn
      <4> QED
        BY <2>1, <3>1, <3>2, <3>3, <4>1 DEF Round, RoundIn
    <3>5. CASE d = c /\ WaitingIn(slots, d)
      <4>1. WaitingIn(slots', d)
        <5>1. PICK j \in DOMAIN slots, s \in 1 .. QueueCap :
                s <= Len(slots[j].queue) /\ slots[j].queue[s].from = d
          BY <3>5 DEF WaitingIn
        <5>2. CASE j # i
          BY <2>1, <2>2, <5>1, <5>2 DEF WaitingIn
        <5>3. CASE j = i
          <6>1. slots'[j].queue = more /\ slots[j].queue = q
            BY <2>1, <5>3
          <6>2. s <= Len(more) /\ more[s] = q[s]
            BY <1>3, <2>1, <5>1, <6>1, AppendProperties, LenProperties, FairInboundAssumption DEF more
          <6> QED
            BY <2>2, <5>1, <6>1, <6>2 DEF WaitingIn
        <5> QED
          BY <5>2, <5>3
      <4> QED
        BY <2>1, <3>1, <3>2, <3>3, <3>5, <4>1 DEF Round, RoundIn
    <3>6. CASE d = c /\ ~ WaitingIn(slots, d)
      <4>1. b = 0
        BY <3>1, <3>6 DEF RoundIn
      <4>2. /\ Ahead(slots, cursor, p) \in Nat
            /\ Ahead(slots, cursor, p) <= (Len(slots) - 1) * MaxWeight
        BY <1>2, <3>6, AheadBound DEF i
      <4> HIDE DEF p
      <4>3. Ahead(slots', cursor, p) = Ahead(slots, cursor, p) /\ Len(slots') = Len(slots)
        BY <2>1, <3>3
      <4>4. 0 + Ahead(slots', cursor, p) <= (Len(slots') - 1) * MaxWeight
        BY <4>2, <4>3
      <4> QED
        BY <3>2, <4>1, <4>4 DEF Round, RoundIn, p, b
    <3> QED
      BY <3>4, <3>5, <3>6
  <2> QED
    BY <2>7, <2>9, <2>10, <2>11 DEF HubInv
<1> QED
  BY <1>1, <1>10, <1>11

-----------------------------------------------------------------------------
(***************************************************************************)
(* The relay's channel, at both its ends.                                  *)
(***************************************************************************)
LEMMA TableStays ==
  ASSUME HubInv, UNCHANGED << slots, cursor, place, conn, bypass >>
  PROVE  /\ Weighted(slots)' /\ Spent(slots, cursor)' /\ Owned'
         /\ \A c \in Conn : Round(c)' /\ QueueOf(c)' = QueueOf(c)
<1>1. \A c \in Conn : Round(c)' /\ QueueOf(c)' = QueueOf(c)
  BY DEF HubInv, Round, QueueOf
<1>2. Weighted(slots)' /\ Spent(slots, cursor)'
  BY DEF HubInv, Weighted, Spent
<1>3. Owned'
  BY DEF HubInv, Owned, Active, QueueOf
<1> QED
  BY <1>1, <1>2, <1>3

LEMMA DeliverKeeps ==
  ASSUME HubInv, Deliver
  PROVE  HubInv'
<1>1. /\ holding' = << >> /\ drain' # "deliver"
      /\ shared' = shared \/ shared' = shared \o holding
      /\ UNCHANGED << slots, cursor, place, conn, bypass, sent, got >>
  BY DEF Deliver, connVars
<1>2. PICK x \in Numbered : holding = << x >>
  BY DEF HubInv, HoldsOne, Deliver
<1>3. /\ << x >> \in Seq(Numbered) /\ Range(holding) = {x} /\ Range(holding') = {}
      /\ shared \in Seq(Numbered)
  BY <1>1, <1>2, RangeOfOne, RangeOfNone DEF HubInv, InboundType
<1>4. \A c \in Conn : /\ InOrder(c) /\ Rising(c, << x >>)
                      /\ Before(c, Range(shared), Range(<< x >>))
  BY <1>2, <1>3 DEF HubInv, InOrder, Rising, Before
<1>5. /\ shared' \in Seq(Numbered)
      /\ Range(shared') = Range(shared) \/ Range(shared') = Range(shared) \cup {x}
      /\ \A c \in Conn : Rising(c, shared')
  <2>1. CASE shared' = shared
    BY <1>3, <1>4, <2>1 DEF InOrder
  <2>2. CASE shared' = shared \o << x >>
    <3>1. \A c \in Conn : /\ shared \o << x >> \in Seq(Numbered)
                          /\ Rising(c, shared \o << x >>)
                          /\ Range(shared \o << x >>) = Range(shared) \cup Range(<< x >>)
      BY <1>3, <1>4, RisingConcat DEF InOrder
    <3>2. shared \o << x >> \in Seq(Numbered)
      BY <1>3, ConcatProperties
    <3>3. Range(shared \o << x >>) = Range(shared) \cup {x}
      <4>1. x.from \in Conn
        BY DEF Numbered
      <4> QED
        BY <1>2, <1>3, <3>1, <4>1
    <3> QED
      BY <2>2, <3>1, <3>2, <3>3
  <2> QED
    BY <1>1, <1>2, <2>1, <2>2
<1>6. InboundType' /\ HoldsOne'
  BY <1>1, <1>5 DEF HubInv, InboundType, HoldsOne
<1>7. \A c \in Conn : Round(c)' /\ QueueOf(c)' = QueueOf(c)
  BY <1>1, TableStays
<1>8. ASSUME NEW c \in Conn PROVE InOrder(c)'
  BY <1>1, <1>3, <1>4, <1>5, <1>7 DEF InOrder, Before
<1> QED
  BY <1>1, <1>6, <1>7, <1>8, TableStays DEF HubInv

LEMMA RelayKeeps ==
  ASSUME HubInv, RelayTakes \/ RelayStops
  PROVE  HubInv'
<1>1. UNCHANGED << slots, cursor, place, conn, bypass, sent, holding, drain >>
  BY DEF RelayTakes, RelayStops, connVars, drainVars
<1>2. HoldsOne'
  BY <1>1 DEF HubInv, HoldsOne, Numbered
<1>3. \A c \in Conn : Round(c)' /\ QueueOf(c)' = QueueOf(c)
  BY <1>1, TableStays
<1>4. CASE RelayStops
  <2>1. shared' = << >> /\ Range(shared') = {} /\ got' = got
    BY <1>4, RangeOfNone DEF RelayStops
  <2>2. InboundType'
    BY <1>1, <2>1, EmptySeq DEF HubInv, InboundType
  <2>3. ASSUME NEW c \in Conn PROVE InOrder(c)'
    <3>1. Rising(c, << >>)
      BY DEF Rising
    <3> QED
      BY <1>1, <1>3, <2>1, <3>1 DEF HubInv, InOrder, Before
  <2> QED
    BY <1>1, <1>2, <1>3, <2>2, <2>3, TableStays DEF HubInv
<1>5. CASE RelayTakes
  <2> DEFINE x == Head(shared)
  <2>1. /\ shared # << >> /\ shared \in Seq(Numbered) /\ shared' = Tail(shared)
        /\ got' = [got EXCEPT ![x.from] = x.number]
    BY <1>5 DEF RelayTakes, HubInv, InboundType
  <2>2. /\ x \in Numbered /\ shared' \in Seq(Numbered)
        /\ Range(shared) = {x} \cup Range(shared')
    BY <2>1, RangeParts
  <2>3. \A c \in Conn : InOrder(c) /\ Rising(c, shared') /\ Before(c, {x}, Range(shared'))
    <3> SUFFICES ASSUME NEW c \in Conn
                 PROVE  InOrder(c) /\ Rising(c, shared') /\ Before(c, {x}, Range(shared'))
      OBVIOUS
    <3>1. InOrder(c)
      BY DEF HubInv
    <3> QED
      BY <2>1, <3>1, RisingParts DEF InOrder
  <2> HIDE DEF x
  <2>4. got \in [Conn -> Nat] /\ x.from \in Conn /\ x.number \in Nat
    BY <2>2 DEF HubInv, InboundType, Numbered
  <2>5. got' \in [Conn -> Nat]
    BY <2>1, <2>4
  <2>6. \A c \in Conn : got'[c] = IF x.from = c THEN x.number ELSE got[c]
    BY <2>1, <2>4
  <2>7. InboundType'
    BY <1>1, <2>2, <2>5 DEF HubInv, InboundType
  <2>8. ASSUME NEW c \in Conn PROVE InOrder(c)'
    <3>1. InOrder(c) /\ Rising(c, shared') /\ Before(c, {x}, Range(shared'))
      BY <2>3
    <3> QED
      BY <1>1, <1>3, <2>2, <2>6, <3>1 DEF InOrder, Before
  <2> QED
    BY <1>1, <1>2, <1>3, <2>7, <2>8, TableStays DEF HubInv
<1> QED
  BY <1>4, <1>5

-----------------------------------------------------------------------------
(***************************************************************************)
(* The drain takes the head of a queue.                                    *)
(***************************************************************************)
\* Who waits before and after a packet of another is taken.
LEMMA WaitingTakes ==
  ASSUME InboundType, Owned, NEW new \in Seq(Slot), Len(new) = Len(slots),
         NEW hit \in DOMAIN slots, slots[hit].queue # << >>, HeadTaken(slots, new, hit),
         NEW c \in Conn
  PROVE  /\ c # Head(slots[hit].queue).from => (WaitingIn(new, c) <=> WaitingIn(slots, c))
         /\ c = Head(slots[hit].queue).from => place[c] = hit
         /\ WaitingIn(slots, c) => /\ place[c] \in DOMAIN slots
                                   /\ slots[place[c]].queue # << >>
                                   /\ c # Head(slots[hit].queue).from => place[c] # hit
<1> DEFINE q == slots[hit].queue
           who == Head(q).from
<1>1. /\ slots \in Seq(Slot) /\ DOMAIN new = DOMAIN slots
      /\ \A i \in DOMAIN slots : slots[i].queue \in Seq(Numbered)
  BY TableIs, LenProperties DEF InboundType
<1>2. /\ q \in Seq(Numbered) /\ Head(q) \in Range(q) /\ Tail(q) \in Seq(Numbered)
      /\ Range(Tail(q)) \subseteq Range(q)
  BY <1>1, RangeParts
<1>3. \A x \in Range(q) : x.from = who /\ place[who] = hit
  BY <1>2 DEF Owned
<1>4. \A i \in DOMAIN slots : \A k \in 1 .. QueueCap :
        k <= Len(slots[i].queue) => slots[i].queue[k] \in Range(slots[i].queue)
  BY <1>1, LenProperties, FairInboundAssumption DEF Range
<1>5. /\ new[hit].queue = Tail(q)
      /\ \A i \in DOMAIN slots : i # hit => new[i].queue = slots[i].queue
  BY DEF HeadTaken
<1>6. \A k \in 1 .. QueueCap : k <= Len(Tail(q)) => Tail(q)[k] \in Range(q)
  <2> DEFINE rest == Tail(q)
  <2> HIDE DEF rest
  <2>0. rest \in Seq(Numbered)
    BY <1>2 DEF rest
  <2>2. DOMAIN rest = 1 .. Len(rest) /\ Len(rest) \in Nat
    BY <2>0, LenProperties
  <2>3. \A k \in 1 .. QueueCap : k <= Len(rest) => rest[k] \in Range(rest)
    BY <2>2, FairInboundAssumption DEF Range
  <2>1. \A k \in 1 .. QueueCap : k <= Len(Tail(q)) => Tail(q)[k] \in Range(Tail(q))
    BY <2>3 DEF rest
  <2> QED
    BY <1>2, <2>1
<1> HIDE DEF q, who
<1>7. ASSUME c # who PROVE WaitingIn(new, c) <=> WaitingIn(slots, c)
  <2>1. ASSUME NEW i \in DOMAIN slots, NEW k \in 1 .. QueueCap
        PROVE  k <= Len(new[i].queue) /\ new[i].queue[k].from = c
               <=> k <= Len(slots[i].queue) /\ slots[i].queue[k].from = c
    <3>1. CASE i # hit
      BY <1>5, <3>1
    <3>2. CASE i = hit
      <4>1. slots[i].queue = q
        BY <3>2 DEF q
      <4>2. k <= Len(q) => q[k].from = who
        BY <1>3, <1>4, <4>1
      <4>3. k <= Len(Tail(q)) => Tail(q)[k].from = who
        BY <1>3, <1>6
      <4> QED
        BY <1>5, <1>7, <3>2, <4>1, <4>2, <4>3
    <3> QED
      BY <3>1, <3>2
  <2> QED
    BY <1>1, <2>1 DEF WaitingIn
<1>8. ASSUME WaitingIn(slots, c)
      PROVE  place[c] \in DOMAIN slots /\ slots[place[c]].queue # << >>
             /\ (c # who => place[c] # hit)
  <2>1. PICK i \in DOMAIN slots, k \in 1 .. QueueCap :
          k <= Len(slots[i].queue) /\ slots[i].queue[k].from = c
    BY <1>8 DEF WaitingIn
  <2>2. place[c] = i /\ slots[i].queue # << >>
    BY <1>4, <2>1, RangeOfNone DEF Owned
  <2>3. i = hit => c = who
    BY <1>3, <1>4, <2>1 DEF q
  <2> QED
    BY <2>2, <2>3
<1>9. c = who => place[c] = hit
  BY <1>2, <1>3
<1> QED
  BY <1>7, <1>8, <1>9 DEF q, who

LEMMA ScanKeeps ==
  ASSUME HubInv, Scan
  PROVE  HubInv'
<1> DEFINE take == FQ!TakeOne(slots, cursor)
<1>1. /\ drain = "scan" /\ holding = << >> /\ slots # << >>
      /\ slots' = take.slots /\ cursor' = take.cursor /\ holding' = take.item
      /\ \/ take.item # << >> /\ drain' = "deliver" /\ CountBypass(take.item[1].from)
         \/ take.item = << >> /\ drain' = "miss" /\ UNCHANGED bypass
      /\ UNCHANGED << place, conn, sent, got, shared >>
  BY DEF Scan, HubInv, HoldsOne, connVars, relayVars
<1>2. /\ slots \in Seq(Slot) /\ Weighted(slots) /\ Spent(slots, cursor)
      /\ cursor \in 0 .. Len(slots)
      /\ DOMAIN slots = 1 .. Len(slots) /\ Len(slots) \in Nat
      /\ \A i \in DOMAIN slots : slots[i].queue \in Seq(Numbered)
  BY TableIs DEF HubInv, InboundType
<1>3. /\ slots' \in Seq(Slot) /\ Len(slots') = Len(slots)
      /\ Weighted(slots') /\ StillLive(slots, slots')
      /\ cursor' \in 0 .. Len(slots) /\ Spent(slots', cursor')
      /\ \/ /\ take.item = << >> /\ cursor' = cursor /\ SameQueues(slots, slots')
            /\ \A i \in DOMAIN slots : slots[i].queue = << >>
         \/ \E i \in DOMAIN slots :
              /\ take.item = << Head(slots[i].queue) >>
              /\ TakesAt(slots, cursor, slots', cursor', i)
  BY <1>1, <1>2, TakeOneTakes
<1> HIDE DEF take
<1>4. DOMAIN slots' = DOMAIN slots
  BY <1>2, <1>3, LenProperties
<1>5. ASSUME \A i \in DOMAIN slots : Range(slots'[i].queue) \subseteq Range(slots[i].queue)
      PROVE  Owned'
  <2>1. \A c \in Conn : Range(QueueOf(c)') \subseteq Range(QueueOf(c))
    <3> SUFFICES ASSUME NEW c \in Conn PROVE Range(QueueOf(c)') \subseteq Range(QueueOf(c))
      OBVIOUS
    <3>1. place[c] = 0 \/ place[c] \in DOMAIN slots
      BY TableIs DEF HubInv
    <3> QED
      BY <1>1, <1>5, <3>1 DEF QueueOf
  <2>2. \A c \in Conn : Active(c)' <=> Active(c)
    BY <1>1 DEF Active
  <2>3. ASSUME NEW c \in Conn, Active(c)'
        PROVE  /\ place'[c] \in DOMAIN slots' /\ slots'[place'[c]].live
               /\ \A x \in Range(QueueOf(c)') : x.from = c
               /\ \A d \in Conn : Active(d)' /\ place'[d] = place'[c] => d = c
    <3>1. place[c] \in DOMAIN slots /\ slots[place[c]].live
      BY <2>2, <2>3 DEF HubInv, Owned
    <3>2. slots'[place[c]].live
      BY <1>3, <3>1 DEF StillLive
    <3>3. \A x \in Range(QueueOf(c)') : x.from = c
      BY <2>1, <2>2, <2>3 DEF HubInv, Owned
    <3>4. \A d \in Conn : Active(d)' /\ place'[d] = place'[c] => d = c
      BY <1>1, <2>2, <2>3 DEF HubInv, Owned
    <3> QED
      BY <1>1, <1>4, <3>1, <3>2, <3>3, <3>4
  <2>4. \A c \in Conn : conn'[c] \in {"new", "accepted"} => place'[c] = 0
    BY <1>1 DEF HubInv, Owned
  <2>5. \A i \in DOMAIN slots' : \A x, y \in Range(slots'[i].queue) :
          x.from = y.from /\ place'[x.from] = i
    BY <1>1, <1>4, <1>5 DEF HubInv, Owned
  <2> QED
    BY <2>3, <2>4, <2>5 DEF Owned
<1>6. CASE /\ take.item = << >> /\ cursor' = cursor /\ SameQueues(slots, slots')
           /\ \A i \in DOMAIN slots : slots[i].queue = << >>
  <2>1. holding' = << >> /\ drain' = "miss" /\ bypass' = bypass
    BY <1>1, <1>6
  <2>2. InboundType' /\ HoldsOne'
    BY <1>1, <1>3, <2>1 DEF HubInv, InboundType, HoldsOne
  <2>3. Owned'
    BY <1>5, <1>6 DEF SameQueues
  <2>4. ASSUME NEW c \in Conn PROVE InOrder(c)'
    <3>1. place[c] = 0 \/ place[c] \in DOMAIN slots
      BY TableIs DEF HubInv
    <3>2. QueueOf(c)' = QueueOf(c)
      BY <1>1, <1>6, <3>1 DEF QueueOf, SameQueues
    <3> QED
      BY <1>1, <2>1, <3>2 DEF HubInv, InOrder, Rising, Before
  <2>5. ASSUME NEW c \in Conn PROVE Round(c)'
    <3>1. ~ WaitingIn(slots, c)
      BY <1>6, FairInboundAssumption DEF WaitingIn
    <3>2. ~ WaitingIn(slots', c)
      BY <1>4, <1>6, FairInboundAssumption DEF WaitingIn, SameQueues
    <3>3. bypass[c] = 0
      BY <3>1 DEF HubInv, Round, RoundIn
    <3> QED
      BY <2>1, <3>2, <3>3 DEF Round, RoundIn
  <2> QED
    BY <1>3, <2>2, <2>3, <2>4, <2>5 DEF HubInv
<1>7. ASSUME NEW hit \in DOMAIN slots, take.item = << Head(slots[hit].queue) >>,
             TakesAt(slots, cursor, slots', cursor', hit)
      PROVE  HubInv'
  <2> DEFINE q == slots[hit].queue
             x == Head(q)
             rest == Tail(q)
  <2>1. q # << >> /\ HeadTaken(slots, slots', hit)
    BY <1>7 DEF TakesAt
  <2>2. /\ q \in Seq(Numbered) /\ x \in Numbered /\ rest \in Seq(Numbered)
        /\ Range(q) = {x} \cup Range(rest)
    BY <1>2, <2>1, RangeParts
  <2>3. \A j \in DOMAIN slots : slots'[j].queue = IF j = hit THEN rest ELSE slots[j].queue
    BY <2>1 DEF HeadTaken
  <2>4. /\ holding' = << x >> /\ Range(holding') = {x} /\ Range(holding) = {}
        /\ drain' = "deliver" /\ CountBypass(x.from)
    BY <1>1, <1>7, RangeOfOne, RangeOfNone
  <2>5. \A c : Rising(c, q) => Rising(c, rest) /\ Before(c, {x}, Range(rest))
    BY <2>1, <2>2, RisingParts
  <2>6. x.from \in Conn /\ place[x.from] = hit
    BY <2>2 DEF HubInv, Owned, Numbered
  <2>7. \A c \in Conn : /\ c # x.from => (WaitingIn(slots', c) <=> WaitingIn(slots, c))
                        /\ WaitingIn(slots, c) => /\ place[c] \in DOMAIN slots
                                                  /\ slots[place[c]].queue # << >>
                                                  /\ c # x.from => place[c] # hit
    <3> DEFINE new == slots'
    <3>1. new \in Seq(Slot) /\ Len(new) = Len(slots) /\ HeadTaken(slots, new, hit)
      BY <1>3, <2>1
    <3> HIDE DEF new
    <3>2. \A c \in Conn : /\ c # x.from => (WaitingIn(new, c) <=> WaitingIn(slots, c))
                          /\ WaitingIn(slots, c) => /\ place[c] \in DOMAIN slots
                                                    /\ slots[place[c]].queue # << >>
                                                    /\ c # x.from => place[c] # hit
      BY <2>1, <3>1, WaitingTakes DEF HubInv
    <3> QED
      BY <3>2 DEF new
  <2>8. \A c \in Conn : bypass'[c] = IF c # x.from /\ WaitingIn(slots, c)
                                     THEN bypass[c] + 1 ELSE 0
    BY <2>4 DEF CountBypass, Waiting, WaitingIn
  <2>9. bypass \in [Conn -> Nat] /\ bypass' \in [Conn -> Nat]
    <3>1. bypass \in [Conn -> Nat]
      BY DEF HubInv, InboundType
    <3>2. \A c \in Conn : bypass'[c] \in Nat
      BY <2>8, <3>1
    <3> QED
      BY <2>4, <3>1, <3>2 DEF CountBypass
  <2> HIDE DEF x, rest
  <2>10. InboundType' /\ HoldsOne'
    BY <1>1, <1>3, <2>2, <2>4, <2>9 DEF HubInv, InboundType, HoldsOne
  <2>11. Owned'
    <3>1. \A i \in DOMAIN slots : Range(slots'[i].queue) \subseteq Range(slots[i].queue)
      BY <2>2, <2>3
    <3> QED
      BY <1>5, <3>1
  <2>12. ASSUME NEW c \in Conn PROVE InOrder(c)'
    <3>1. InOrder(c) /\ (place[c] = 0 \/ place[c] \in DOMAIN slots)
      BY TableIs DEF HubInv
    <3>2. CASE place[c] # hit
      <4>1. QueueOf(c)' = QueueOf(c) /\ x.from # c
        BY <1>1, <2>3, <2>6, <3>1, <3>2 DEF QueueOf
      <4> QED
        BY <1>1, <2>4, <3>1, <4>1 DEF InOrder, Before
    <3>3. CASE place[c] = hit
      <4>1. hit # 0
        BY <1>2
      <4>2. QueueOf(c) = q /\ QueueOf(c)' = rest
        BY <1>1, <2>3, <3>3, <4>1 DEF QueueOf
      <4>3. Rising(c, rest) /\ Before(c, {x}, Range(rest))
        BY <2>5, <3>1, <4>2 DEF InOrder
      <4> HIDE DEF q
      <4> QED
        BY <1>1, <2>2, <2>4, <3>1, <4>2, <4>3 DEF InOrder, Before
    <3> QED
      BY <3>2, <3>3
  <2>13. ASSUME NEW c \in Conn PROVE Round(c)'
    <3> DEFINE p == place[c]
               b == bypass[c]
               new == slots'
               at == cursor'
    <3>1. RoundIn(slots, cursor, p, c, b) /\ b \in Nat /\ place'[c] = p
      BY <1>1, <2>9 DEF HubInv, Round
    <3>2. /\ new \in Seq(Slot) /\ Len(new) = Len(slots) /\ DOMAIN new = DOMAIN slots
          /\ at \in 0 .. Len(slots)
          /\ TakesAt(slots, cursor, new, at, hit)
      BY <1>3, <1>4, <1>7
    <3>3. /\ p \in DOMAIN slots => /\ Ahead(new, at, p) \in Nat
                                   /\ Ahead(new, at, p) <= (Len(new) - 1) * MaxWeight
          /\ p \in DOMAIN slots => Ahead(slots, cursor, p) \in Nat
          /\ (Len(slots) - 1) * MaxWeight \in Int
      <4> HIDE DEF new, at, p
      <4>1. at \in 0 .. Len(new) /\ MaxWeight \in Nat
        BY <3>2, FairInboundAssumption
      <4>2. p \in DOMAIN slots => /\ Ahead(new, at, p) \in Nat
                                  /\ Ahead(new, at, p) <= (Len(new) - 1) * MaxWeight
        BY <3>2, <4>1, AheadBound
      <4>3. p \in DOMAIN slots => Ahead(slots, cursor, p) \in Nat
        BY <1>2, AheadBound
      <4>4. (Len(slots) - 1) * MaxWeight \in Int
        BY <1>2, <4>1
      <4> QED
        BY <4>2, <4>3, <4>4
    <3>4. CASE c = x.from
      <4>1. p \in DOMAIN slots /\ bypass'[c] = 0
        BY <2>6, <2>8, <3>4
      <4> HIDE DEF p
      <4>2. 0 + Ahead(new, at, p) <= (Len(new) - 1) * MaxWeight
        BY <3>3, <4>1
      <4> QED
        BY <3>1, <4>1, <4>2 DEF Round, RoundIn, new, at
    <3>5. CASE c # x.from /\ WaitingIn(slots, c)
      <4>1. /\ p \in DOMAIN slots /\ p # hit /\ slots[p].queue # << >>
            /\ bypass'[c] = b + 1 /\ WaitingIn(new, c)
        BY <2>7, <2>8, <3>5
      <4> HIDE DEF p, new, at, b
      <4>2. Ahead(new, at, p) + 1 <= Ahead(slots, cursor, p)
        BY <1>2, <3>2, <4>1, AheadTakes
      <4>3. b + Ahead(slots, cursor, p) <= (Len(slots) - 1) * MaxWeight
        BY <3>1, <3>5 DEF RoundIn
      <4> DEFINE u == (Len(slots) - 1) * MaxWeight
                 v == Ahead(new, at, p)
                 w == Ahead(slots, cursor, p)
      <4>4. u \in Int /\ v \in Nat /\ w \in Nat /\ v + 1 <= w /\ b + w <= u
        BY <3>3, <4>1, <4>2, <4>3
      <4> HIDE DEF u, v, w
      <4>5. b + 1 + v <= u
        BY <3>1, <4>4
      <4>6. (b + 1) + Ahead(new, at, p) <= (Len(new) - 1) * MaxWeight
        BY <3>2, <4>5 DEF u, v
      <4> QED
        BY <3>1, <4>1, <4>6 DEF Round, RoundIn, new, at
    <3>6. CASE c # x.from /\ ~ WaitingIn(slots, c)
      <4>1. ~ WaitingIn(slots', c) /\ bypass'[c] = 0
        BY <2>7, <2>8, <3>6
      <4> QED
        BY <4>1 DEF Round, RoundIn
    <3> QED
      BY <3>4, <3>5, <3>6
  <2> QED
    BY <1>3, <2>10, <2>11, <2>12, <2>13 DEF HubInv
<1> QED
  BY <1>3, <1>6, <1>7

-----------------------------------------------------------------------------
LEMMA HubInvNext == HubInv /\ [Next]_vars => HubInv'
<1> SUFFICES ASSUME HubInv, [Next]_vars PROVE HubInv'
  OBVIOUS
<1>1. CASE \E c \in Conn : ConnStep(c)
  <2>1. PICK c \in Conn : ConnStep(c)
    BY <1>1
  <2>2. CASE Accept(c) \/ Reject(c) \/ Notify(c)
    BY <2>2, DrainWaits
  <2>3. CASE RegisterConn(c)
    BY <2>3, RegisterKeeps
  <2>4. CASE Ready(c)
    BY <2>4, ReadyKeeps
  <2>5. CASE Enqueue(c)
    BY <2>5, EnqueueKeeps
  <2>6. CASE Close(c)
    BY <2>6, CloseKeeps
  <2> QED
    BY <2>1, <2>2, <2>3, <2>4, <2>5, <2>6 DEF ConnStep
<1>2. CASE SeesNoSlot \/ Poll \/ Wake \/ FiveMillisecondsPass \/ UNCHANGED vars
  BY <1>2, DrainWaits
<1>3. CASE Scan
  BY <1>3, ScanKeeps
<1>4. CASE Deliver
  BY <1>4, DeliverKeeps
<1>5. CASE RelayTakes \/ RelayStops
  BY <1>5, RelayKeeps
<1> QED
  BY <1>1, <1>2, <1>3, <1>4, <1>5 DEF Next, DrainStep

LEMMA HubInvFifo == HubInv => PeerFifo
<1> SUFFICES ASSUME HubInv, NEW c \in Conn
             PROVE  LET line == << [from |-> c, number |-> got[c]] >> \o shared \o holding
                                \o (IF place[c] = 0 THEN << >> ELSE slots[place[c]].queue)
                        mine == {k \in DOMAIN line : line[k].from = c}
                    IN  \A j, k \in mine : j < k => line[j].number < line[k].number
  BY DEF PeerFifo
<1> DEFINE first == [from |-> c, number |-> got[c]]
           queue == QueueOf(c)
<1>1. /\ InOrder(c) /\ first \in Numbered /\ first.number = got[c]
      /\ shared \in Seq(Numbered) /\ queue \in Seq(Numbered) /\ got[c] \in Nat
  BY TableIs DEF HubInv, InboundType, Numbered
<1> HIDE DEF first, queue
<1>2. << first >> \in Seq(Numbered) /\ Range(<< first >>) = {first} /\ Rising(c, << first >>)
  BY <1>1, RangeOfOne DEF Rising
<1>3. /\ << >> \in Seq(Numbered) /\ Rising(c, << >>)
      /\ \A x \in Numbered : << x >> \in Seq(Numbered) /\ Rising(c, << x >>)
  BY DEF Rising
<1>4. holding \in Seq(Numbered) /\ Rising(c, holding)
  BY <1>3 DEF HubInv, HoldsOne
<1>5. /\ Rising(c, queue) /\ Rising(c, shared)
      /\ Before(c, {first}, Range(shared) \cup Range(holding) \cup Range(queue))
      /\ Before(c, Range(shared), Range(holding) \cup Range(queue))
      /\ Before(c, Range(holding), Range(queue))
  BY <1>1 DEF InOrder, Before, queue
<1> DEFINE two == << first >> \o shared
           three == two \o holding
           line == three \o queue
<1>6. two \in Seq(Numbered) /\ Rising(c, two) /\ Range(two) = {first} \cup Range(shared)
  <2>1. Before(c, Range(<< first >>), Range(shared))
    BY <1>2, <1>5 DEF Before
  <2> QED
    BY <1>1, <1>2, <1>5, <2>1, RisingConcat
<1> HIDE DEF two
<1>7. three \in Seq(Numbered) /\ Rising(c, three) /\ Range(three) = Range(two) \cup Range(holding)
  <2>1. Before(c, Range(two), Range(holding))
    BY <1>5, <1>6 DEF Before
  <2> QED
    BY <1>4, <1>6, <2>1, RisingConcat
<1> HIDE DEF three
<1>8. Rising(c, line)
  <2>1. Before(c, Range(three), Range(queue))
    BY <1>5, <1>6, <1>7 DEF Before
  <2> QED
    BY <1>1, <1>5, <1>7, <2>1, RisingConcat
<1>9. line = << [from |-> c, number |-> got[c]] >> \o shared \o holding
             \o (IF place[c] = 0 THEN << >> ELSE slots[place[c]].queue)
  BY DEF three, two, first, queue, QueueOf
<1> HIDE DEF line
<1> QED
  BY <1>8, <1>9 DEF Rising

LEMMA HubInvBypass == HubInv => BoundedBypass
<1> SUFFICES ASSUME HubInv, NEW c \in Conn
             PROVE  bypass[c] <= (Len(slots) - 1) * MaxWeight \/ bypass[c] = 0
  BY DEF BoundedBypass
<1>1. Round(c) /\ bypass[c] \in Nat
  BY DEF HubInv, InboundType
<1>2. CASE ~ WaitingIn(slots, c)
  BY <1>1, <1>2 DEF Round, RoundIn
<1>3. CASE WaitingIn(slots, c)
  <2>1. PICK i \in DOMAIN slots, k \in 1 .. QueueCap :
          k <= Len(slots[i].queue) /\ slots[i].queue[k].from = c
    BY <1>3 DEF WaitingIn
  <2>2. slots[i].queue[k] \in Range(slots[i].queue)
    <3>1. slots[i].queue \in Seq(Numbered)
      BY TableIs DEF HubInv
    <3> QED
      BY <2>1, <3>1, LenProperties, FairInboundAssumption DEF Range
  <2>3. place[c] = i
    BY <2>1, <2>2 DEF HubInv, Owned
  <2> DEFINE a == Ahead(slots, cursor, i)
             u == (Len(slots) - 1) * MaxWeight
  <2>4. a \in Nat /\ u \in Nat
    BY AheadBound DEF HubInv, InboundType
  <2>5. bypass[c] + a <= u
    BY <1>1, <1>3, <2>3 DEF Round, RoundIn
  <2> HIDE DEF a, u
  <2>6. bypass[c] <= u
    BY <1>1, <2>4, <2>5
  <2> QED
    BY <2>6 DEF u
<1> QED
  BY <1>2, <1>3

\* A connection's packets reach the relay in the order it reassembled them
\* (FairInboundHub, spawn_fair_inbound_drain), though a slot changes hands when its
\* connection is gone and drained: what one left behind never mixes with the next one's.
THEOREM PacketsReachRelayInOrder == Spec => []PeerFifo
<1> QED
  BY HubInvInit, HubInvNext, HubInvFifo, PTL DEF Spec

\* While a connection has packets queued, the drain takes at most MaxWeight of every other
\* slot's before it comes to it (fair_wfq_take_one), however the table grows, slots are
\* freed and taken again, and weights change between two visits.
THEOREM NobodyPassedOverForLong == Spec => []BoundedBypass
<1> QED
  BY HubInvInit, HubInvNext, HubInvBypass, PTL DEF Spec
=============================================================================
