------------------------------ MODULE LinkProofs ------------------------------
(***************************************************************************)
(* Theorems about the link bridge and about the tasks beside it: inbound   *)
(* links (for every host, caller, burst, rate and number of connections),  *)
(* the gossip and cover dispatchers (for every peer table and burst        *)
(* length) and the exit sink (for every quantum, rate and capacity),       *)
(* without a bound on what is sent or on how often peers hang up, stall    *)
(* and come back.                                                          *)
(***************************************************************************)
EXTENDS HopLink, Dispatchers, ExitSink, FunctionTheorems, FiniteSetTheorems,
        SequenceTheorems, TLAPS

-----------------------------------------------------------------------------
\* The dispatchers.

Target  == Addressed \cup {"none"}
Writing == {"writing", "rewriting"}
Place   == {"recv", "opening", "reopening"} \cup Writing
Item    == [at : Place, to : {"none"} \cup Tabled, sent : Nat, here : Nat]

LaneTypeOK ==
  /\ lane \in [Lane -> Item]
  /\ inbox \in [Lane -> Seq(Target)]
  /\ health \in [Lane -> [ok : Nat, fail : Nat]]
  /\ offered \in [Lane -> Nat] /\ skipped \in [Lane -> Nat] /\ covered \in Nat

\* What the loop has written of a burst is what went over the connection in use:
\* an attempt that begins again begins at the first cell.
OverOneLink == \A l \in Lane : lane[l].at \in Writing => lane[l].sent = lane[l].here

Waiting(l) == Len(inbox[l])
AtWork(l) == IF lane[l].at = "recv" THEN 0 ELSE 1

EveryItemCounted ==
  \A l \in Lane : offered[l] = health[l].ok + health[l].fail + skipped[l] + Waiting(l) + AtWork(l)

DispInv ==
  /\ LaneTypeOK /\ OverOneLink
  /\ covered = BurstLen * health["cover"].ok /\ EveryItemCounted

\* A change of one field of one lane's item, as a new item.
LEMMA ItemChanged ==
  ASSUME NEW f \in [Lane -> Item], NEW l \in Lane, NEW at
  PROVE  [f EXCEPT ![l].at = at] =
           [f EXCEPT ![l] = [at |-> at, to |-> f[l].to, sent |-> f[l].sent, here |-> f[l].here]]
<1>1. f[l] = [at |-> f[l].at, to |-> f[l].to, sent |-> f[l].sent, here |-> f[l].here]
  BY DEF Item
<1>2. [f[l] EXCEPT !.at = at] =
        [at |-> at, to |-> f[l].to, sent |-> f[l].sent, here |-> f[l].here]
  BY <1>1
<1> QED
  BY <1>2

LEMMA DispInvEnough == DispInv => BurstsWhole
BY DEF DispInv, EveryItemCounted, Waiting, AtWork, BurstsWhole

LEMMA DispInvInit == DispInit => DispInv
<1> SUFFICES ASSUME DispInit PROVE DispInv
  OBVIOUS
<1>1. /\ lane = [l \in Lane |-> Resting] /\ inbox = [l \in Lane |-> << >>]
      /\ health = [l \in Lane |-> [ok |-> 0, fail |-> 0]]
      /\ offered = [l \in Lane |-> 0] /\ skipped = [l \in Lane |-> 0] /\ covered = 0
  BY DEF DispInit
<1>2. LaneTypeOK
  BY <1>1, EmptySeq DEF LaneTypeOK, Resting, Place, Item
<1>3. OverOneLink
  BY <1>1 DEF OverOneLink, Resting
<1>4. covered = BurstLen * health["cover"].ok
  BY <1>1, DispatchersAssumption DEF Lane
<1>5. EveryItemCounted
  BY <1>1, EmptySeq DEF EveryItemCounted, Waiting, AtWork, Resting
<1> QED
  BY <1>2, <1>3, <1>4, <1>5 DEF DispInv

-----------------------------------------------------------------------------
\* A step that moves one lane between places of its item, and counts nothing.
LEMMA MovesOn ==
  ASSUME DispInv, NEW l \in Lane, lane[l].at # "recv",
         NEW at \in Place \ {"recv"}, NEW sent \in Nat, NEW here \in Nat,
         at \in Writing => sent = here,
         lane' = [lane EXCEPT ![l] = [at |-> at, to |-> lane[l].to, sent |-> sent, here |-> here]],
         UNCHANGED <<table, inbox, health, offered, skipped, covered>>
  PROVE  DispInv'
<1>1. lane[l] \in Item
  BY DEF DispInv, LaneTypeOK
<1>2. /\ lane' \in [Lane -> Item]
      /\ lane'[l] = [at |-> at, to |-> lane[l].to, sent |-> sent, here |-> here]
      /\ \A o \in Lane : o # l => lane'[o] = lane[o]
  <2>1. [at |-> at, to |-> lane[l].to, sent |-> sent, here |-> here] \in Item
    BY <1>1 DEF Item
  <2> QED
    BY <2>1 DEF DispInv, LaneTypeOK
<1>3. Item' = Item
  BY DEF Item, Tabled
<1>4. LaneTypeOK'
  BY <1>2, <1>3 DEF DispInv, LaneTypeOK
<1>5. OverOneLink'
  BY <1>2 DEF DispInv, OverOneLink
<1>6. \A o \in Lane : AtWork(o)' = AtWork(o) /\ Waiting(o)' = Waiting(o)
  BY <1>2 DEF AtWork, Waiting
<1>7. EveryItemCounted'
  BY <1>6 DEF DispInv, EveryItemCounted
<1> QED
  BY <1>4, <1>5, <1>7 DEF DispInv

\* The end of an item: one outcome for it, and for a whole burst its cells.
LEMMA SettleKeeps ==
  ASSUME DispInv, NEW l \in Lane, lane[l].at # "recv", NEW outcome \in {"ok", "fail"},
         Settle(l, outcome),
         UNCHANGED <<table, inbox, offered, skipped>>,
         covered' = IF outcome = "ok" /\ l = "cover" THEN covered + BurstLen ELSE covered
  PROVE  DispInv'
<1>1. /\ lane' = [lane EXCEPT ![l] = Resting]
      /\ health' = [health EXCEPT ![l][outcome] = @ + 1]
  BY DEF Settle
<1>2. /\ lane \in [Lane -> Item]
      /\ health \in [Lane -> [ok : Nat, fail : Nat]] /\ BurstLen \in Nat
      /\ health[l] \in [ok : Nat, fail : Nat]
  BY DispatchersAssumption DEF DispInv, LaneTypeOK
<1>3. /\ lane'[l] = Resting /\ \A o \in Lane : o # l => lane'[o] = lane[o]
      /\ lane' \in [Lane -> Item]
  <2>1. Resting \in Item
    BY DEF Resting, Place, Item
  <2> HIDE DEF Resting
  <2> QED
    BY <1>1, <1>2, <2>1
<1>4. /\ health'[l].ok = IF outcome = "ok" THEN health[l].ok + 1 ELSE health[l].ok
      /\ health'[l].fail = IF outcome = "fail" THEN health[l].fail + 1 ELSE health[l].fail
      /\ \A o \in Lane : o # l => health'[o] = health[o]
      /\ health' \in [Lane -> [ok : Nat, fail : Nat]]
  <2>1. CASE outcome = "ok"
    BY <1>1, <1>2, <2>1
  <2>2. CASE outcome = "fail"
    BY <1>1, <1>2, <2>2
  <2> QED
    BY <2>1, <2>2
<1>5. covered' \in Nat /\ covered' = BurstLen * health'["cover"].ok
  <2>1. /\ covered = BurstLen * health["cover"].ok /\ covered \in Nat
        /\ health["cover"].ok \in Nat /\ "cover" \in Lane
    BY <1>2 DEF DispInv, LaneTypeOK, Lane
  <2>2. CASE outcome = "ok" /\ l = "cover"
    <3>1. health'["cover"].ok = health["cover"].ok + 1 /\ covered' = covered + BurstLen
      BY <1>4, <2>2
    <3>2. BurstLen * (health["cover"].ok + 1) = BurstLen * health["cover"].ok + BurstLen
      BY <1>2, <2>1
    <3> QED
      BY <1>2, <2>1, <3>1, <3>2
  <2>3. CASE ~(outcome = "ok" /\ l = "cover")
    BY <1>4, <2>1, <2>3
  <2> QED
    BY <2>2, <2>3
<1>6. LaneTypeOK'
  <2>1. Item' = Item
    BY DEF Item, Tabled
  <2> QED
    BY <1>3, <1>4, <1>5, <2>1 DEF DispInv, LaneTypeOK
<1>7. OverOneLink'
  BY <1>3 DEF DispInv, OverOneLink, Resting, Writing
<1>8. ASSUME NEW o \in Lane
      PROVE  offered'[o] = health'[o].ok + health'[o].fail + skipped'[o] + Waiting(o)' + AtWork(o)'
  <2>1. offered[o] = health[o].ok + health[o].fail + skipped[o] + Waiting(o) + AtWork(o)
    BY DEF DispInv, EveryItemCounted
  <2>2. CASE o # l
    <3>1. AtWork(o)' = AtWork(o) /\ Waiting(o)' = Waiting(o)
      BY <1>3, <2>2 DEF AtWork, Waiting
    <3> QED
      BY <1>4, <2>1, <2>2, <3>1
  <2>3. CASE o = l
    <3>1. AtWork(o) = 1 /\ AtWork(o)' = 0
      BY <1>3, <2>3 DEF AtWork, Resting
    <3>2. health'[o].ok + health'[o].fail = health[o].ok + health[o].fail + 1
      BY <1>2, <1>4, <2>3
    <3>3. /\ offered[o] \in Nat /\ skipped[o] \in Nat /\ Waiting(o) \in Nat /\ Waiting(o)' = Waiting(o)
          /\ health[o].ok \in Nat /\ health[o].fail \in Nat
          /\ health'[o].ok \in Nat /\ health'[o].fail \in Nat
      BY <1>2, <1>4, LenProperties DEF DispInv, LaneTypeOK, Waiting
    <3> QED
      BY <2>1, <3>1, <3>2, <3>3
  <2> QED
    BY <2>2, <2>3
<1> QED
  BY <1>5, <1>6, <1>7, <1>8 DEF DispInv, EveryItemCounted

\* A new item waits in its channel.
LEMMA OfferKeeps ==
  ASSUME DispInv, NEW l \in Lane, NEW to \in Target, Offer(l, to)
  PROVE  DispInv'
<1>1. /\ offered' = [offered EXCEPT ![l] = @ + 1]
      /\ inbox' = [inbox EXCEPT ![l] = Append(@, to)]
      /\ UNCHANGED <<table, lane, health, covered, skipped>>
  BY DEF Offer
<1>2. inbox \in [Lane -> Seq(Target)] /\ offered \in [Lane -> Nat] /\ inbox[l] \in Seq(Target)
  BY DEF DispInv, LaneTypeOK
<1>3. Append(inbox[l], to) \in Seq(Target) /\ Len(Append(inbox[l], to)) = Len(inbox[l]) + 1
  BY <1>2, AppendProperties
<1>4. LaneTypeOK'
  <2>1. Item' = Item
    BY <1>1 DEF Item, Tabled
  <2>2. offered' \in [Lane -> Nat] /\ inbox' \in [Lane -> Seq(Target)]
    BY <1>1, <1>2, <1>3
  <2> QED
    BY <1>1, <2>1, <2>2 DEF DispInv, LaneTypeOK
<1>5. OverOneLink' /\ covered' = BurstLen * health'["cover"].ok
  BY <1>1 DEF DispInv, OverOneLink
<1>6. ASSUME NEW o \in Lane
      PROVE  offered'[o] = health'[o].ok + health'[o].fail + skipped'[o] + Waiting(o)' + AtWork(o)'
  <2>1. /\ offered[o] = health[o].ok + health[o].fail + skipped[o] + Waiting(o) + AtWork(o)
        /\ AtWork(o)' = AtWork(o) /\ AtWork(o) \in Nat
    BY <1>1 DEF DispInv, EveryItemCounted, AtWork
  <2>2. /\ offered[o] \in Nat /\ skipped[o] \in Nat /\ Waiting(o) \in Nat
        /\ health[o].ok \in Nat /\ health[o].fail \in Nat
    BY LenProperties DEF DispInv, LaneTypeOK, Waiting
  <2>3. health' = health /\ skipped' = skipped
    BY <1>1
  <2>4. CASE o = l
    <3>1. offered'[o] = offered[o] + 1 /\ Waiting(o)' = Waiting(o) + 1
      BY <1>1, <1>2, <1>3, <2>4 DEF Waiting
    <3>2. offered[o] + 1 = health[o].ok + health[o].fail + skipped[o] + (Waiting(o) + 1) + AtWork(o)
      BY <2>1, <2>2
    <3> QED
      BY <2>1, <2>3, <3>1, <3>2, Zenon
  <2>5. CASE o # l
    <3>1. offered'[o] = offered[o] /\ Waiting(o)' = Waiting(o)
      BY <1>1, <1>2, <2>5 DEF Waiting
    <3> QED
      BY <2>1, <2>3, <3>1
  <2> QED
    BY <2>4, <2>5
<1> QED
  BY <1>4, <1>5, <1>6 DEF DispInv, EveryItemCounted

\* An item is taken from the channel: it has a peer, or it is skipped.
LEMMA TakeKeeps ==
  ASSUME DispInv, NEW l \in Lane, TakeItem(l)
  PROVE  DispInv'
<1>1. /\ lane[l].at = "recv" /\ inbox[l] # << >>
      /\ inbox' = [inbox EXCEPT ![l] = Tail(@)]
      /\ UNCHANGED <<table, health, covered, offered>>
  BY DEF TakeItem
<1>2. /\ inbox \in [Lane -> Seq(Target)] /\ inbox[l] \in Seq(Target)
      /\ lane \in [Lane -> Item]
      /\ skipped \in [Lane -> Nat]
  BY DEF DispInv, LaneTypeOK
<1>3. Tail(inbox[l]) \in Seq(Target) /\ Len(Tail(inbox[l])) = Len(inbox[l]) - 1
  BY <1>1, <1>2, HeadTailProperties
<1>4. \A o \in Lane : /\ Waiting(o)' = Waiting(o) - (IF o = l THEN 1 ELSE 0)
                      /\ Waiting(o) \in Nat
                      /\ inbox' \in [Lane -> Seq(Target)]
  <2>1. ASSUME NEW o \in Lane PROVE Waiting(o) \in Nat
    BY <1>2, LenProperties DEF Waiting
  <2>2. ASSUME NEW o \in Lane PROVE Waiting(o)' = Waiting(o) - (IF o = l THEN 1 ELSE 0)
    <3>1. CASE o = l
      BY <1>1, <1>2, <1>3, <3>1 DEF Waiting
    <3>2. CASE o # l
      <4>1. inbox'[o] = inbox[o]
        BY <1>1, <1>2, <3>2
      <4>2. Waiting(o)' = Waiting(o)
        BY <4>1 DEF Waiting
      <4> QED
        BY <2>1, <3>2, <4>2
    <3> QED
      BY <3>1, <3>2
  <2>3. inbox' \in [Lane -> Seq(Target)]
    BY <1>1, <1>2, <1>3
  <2> QED
    BY <2>1, <2>2, <2>3
<1>5. \A o \in Lane : /\ offered[o] = health[o].ok + health[o].fail + skipped[o] + Waiting(o) + AtWork(o)
                      /\ offered[o] \in Nat /\ skipped[o] \in Nat
                      /\ health[o].ok \in Nat /\ health[o].fail \in Nat
                      /\ AtWork(o) \in Nat
  BY DEF DispInv, LaneTypeOK, EveryItemCounted, AtWork
<1>6. AtWork(l) = 0
  BY <1>1 DEF AtWork
<1>7. CASE PeerFor(l) \in Tabled
  <2> DEFINE next == [at |-> "opening", to |-> PeerFor(l), sent |-> 0, here |-> 0]
  <2>1. lane' = [lane EXCEPT ![l] = next] /\ skipped' = skipped
    BY <1>7 DEF TakeItem, Resting
  <2>2. next \in Item
    BY <1>7 DEF Place, Item
  <2>3. /\ lane'[l].at = "opening" /\ \A o \in Lane : o # l => lane'[o] = lane[o]
        /\ lane' \in [Lane -> Item]
    <3>1. next.at = "opening"
      OBVIOUS
    <3> HIDE DEF next
    <3> QED
      BY <1>2, <2>1, <2>2, <3>1
  <2>4. LaneTypeOK'
    <3>1. Item' = Item
      BY <1>1 DEF Item, Tabled
    <3> QED
      BY <1>1, <1>4, <2>1, <2>3, <3>1 DEF DispInv, LaneTypeOK, Lane
  <2>5. OverOneLink' /\ covered' = BurstLen * health'["cover"].ok
    BY <1>1, <2>3 DEF DispInv, OverOneLink, Writing
  <2>6. \A o \in Lane : AtWork(o)' = AtWork(o) + (IF o = l THEN 1 ELSE 0)
    BY <1>6, <2>3, <1>5 DEF AtWork
  <2>7. EveryItemCounted'
    <3> SUFFICES ASSUME NEW o \in Lane
                 PROVE  offered'[o] = health'[o].ok + health'[o].fail + skipped'[o]
                                      + Waiting(o)' + AtWork(o)'
      BY DEF EveryItemCounted
    <3>1. /\ offered'[o] = offered[o]
          /\ health'[o].ok = health[o].ok /\ health'[o].fail = health[o].fail
          /\ Waiting(o)' = Waiting(o) - (IF o = l THEN 1 ELSE 0)
          /\ Waiting(o) \in Nat
      BY <1>1, <1>4
    <3>2. /\ skipped'[o] = skipped[o]
          /\ AtWork(o)' = AtWork(o) + (IF o = l THEN 1 ELSE 0)
      BY <2>1, <2>6
    <3>3. /\ offered[o] = health[o].ok + health[o].fail + skipped[o] + Waiting(o) + AtWork(o)
          /\ offered[o] \in Nat /\ skipped[o] \in Nat
          /\ health[o].ok \in Nat /\ health[o].fail \in Nat
          /\ AtWork(o) \in Nat
      BY <1>5
    <3> QED
      BY <3>1, <3>2, <3>3
  <2> QED
    BY <2>4, <2>5, <2>7 DEF DispInv
<1>8. CASE PeerFor(l) \notin Tabled
  <2>1. skipped' = [skipped EXCEPT ![l] = @ + 1] /\ lane' = lane
    BY <1>8 DEF TakeItem
  <2>2. /\ skipped' \in [Lane -> Nat]
        /\ \A o \in Lane : skipped'[o] = skipped[o] + (IF o = l THEN 1 ELSE 0)
    BY <1>2, <1>5, <2>1
  <2>3. LaneTypeOK'
    <3>1. Item' = Item
      BY <1>1 DEF Item, Tabled
    <3> QED
      BY <1>1, <1>4, <2>1, <2>2, <3>1 DEF DispInv, LaneTypeOK, Lane
  <2>4. OverOneLink' /\ covered' = BurstLen * health'["cover"].ok
    BY <1>1, <2>1 DEF DispInv, OverOneLink
  <2>5. \A o \in Lane : AtWork(o)' = AtWork(o)
    BY <2>1 DEF AtWork
  <2>6. EveryItemCounted'
    <3> SUFFICES ASSUME NEW o \in Lane
                 PROVE  offered'[o] = health'[o].ok + health'[o].fail + skipped'[o]
                                      + Waiting(o)' + AtWork(o)'
      BY DEF EveryItemCounted
    <3>1. /\ offered'[o] = offered[o]
          /\ health'[o].ok = health[o].ok /\ health'[o].fail = health[o].fail
          /\ Waiting(o)' = Waiting(o) - (IF o = l THEN 1 ELSE 0)
          /\ Waiting(o) \in Nat
      BY <1>1, <1>4
    <3>2. /\ skipped'[o] = skipped[o] + (IF o = l THEN 1 ELSE 0)
          /\ AtWork(o)' = AtWork(o)
      BY <2>1, <2>2, <2>5
    <3>3. /\ offered[o] = health[o].ok + health[o].fail + skipped[o] + Waiting(o) + AtWork(o)
          /\ offered[o] \in Nat /\ skipped[o] \in Nat
          /\ health[o].ok \in Nat /\ health[o].fail \in Nat
          /\ AtWork(o) \in Nat
      BY <1>5
    <3> QED
      BY <3>1, <3>2, <3>3
  <2> QED
    BY <2>3, <2>4, <2>6 DEF DispInv
<1> QED
  BY <1>7, <1>8

-----------------------------------------------------------------------------
\* One step of a dispatcher's task, a seal that fails among them.
LEMMA LaneStepKeeps ==
  ASSUME DispInv, NEW l \in Lane, LaneStep(l) \/ SealFails(l)
  PROVE  DispInv'
<1>1. /\ lane[l] \in Item
      /\ lane \in [Lane -> Item]
  BY DEF DispInv, LaneTypeOK
<1>2. ASSUME TakeItem(l) PROVE DispInv'
  BY <1>2, TakeKeeps
\* An attempt begins at the first cell of the item.
<1>3. ASSUME NEW at \in Writing, Writes(l, at), lane[l].at # "recv",
             UNCHANGED <<table, inbox, health, offered, skipped, covered>>
      PROVE  DispInv'
  <2>1. lane' = [lane EXCEPT ![l] = [at |-> at, to |-> lane[l].to, sent |-> 0, here |-> 0]]
    BY <1>3 DEF Writes
  <2>2. at \in Place \ {"recv"}
    BY DEF Place, Writing
  <2> QED
    BY <1>3, <2>1, <2>2, MovesOn
<1>4. ASSUME Settle(l, "fail"), lane[l].at # "recv",
             UNCHANGED <<table, inbox, offered, skipped, covered>>
      PROVE  DispInv'
  BY <1>4, SettleKeeps
<1>5. ASSUME OpenLink(l) PROVE DispInv'
  <2>1. /\ lane[l].at # "recv" /\ UNCHANGED <<table, inbox, covered, offered, skipped>>
        /\ \/ Writes(l, "writing") /\ UNCHANGED health
           \/ Settle(l, "fail")
    BY <1>5 DEF OpenLink
  <2> QED
    BY <2>1, <1>3, <1>4 DEF Writing
<1>6. ASSUME Reconnect(l) PROVE DispInv'
  <2>1. /\ lane[l].at # "recv" /\ UNCHANGED <<table, inbox, covered, offered, skipped>>
        /\ \/ Writes(l, "rewriting") /\ UNCHANGED health
           \/ Settle(l, "fail")
    BY <1>6 DEF Reconnect
  <2> QED
    BY <2>1, <1>3, <1>4 DEF Writing
<1>7. ASSUME WriteCell(l) PROVE DispInv'
  <2>1. /\ lane[l].at \in Writing /\ lane[l].sent = lane[l].here
        /\ UNCHANGED <<table, inbox, health, covered, offered, skipped>>
    BY <1>7 DEF WriteCell, Writing, DispInv, OverOneLink
  <2>2. lane' = [lane EXCEPT ![l] = [at |-> lane[l].at, to |-> lane[l].to,
                                     sent |-> lane[l].sent + 1, here |-> lane[l].here + 1]]
    BY <1>1, <1>7 DEF WriteCell, Item
  <2>3. lane[l].at \in Place \ {"recv"} /\ lane[l].at # "recv"
        /\ lane[l].sent + 1 \in Nat /\ lane[l].here + 1 \in Nat
    BY <1>1, <2>1 DEF Place, Writing, Item
  <2> QED
    BY <2>1, <2>2, <2>3, MovesOn
<1>8. ASSUME WriteDone(l) PROVE DispInv'
  <2>1. /\ lane[l].at \in Writing /\ lane[l].sent = Whole(l) /\ lane[l].sent = lane[l].here
        /\ Settle(l, "ok") /\ UNCHANGED <<table, inbox, offered, skipped>>
        /\ covered' = IF l = "cover" THEN covered + lane[l].here ELSE covered
    BY <1>8 DEF WriteDone, Writing, DispInv, OverOneLink
  <2>2. covered' = IF "ok" = "ok" /\ l = "cover" THEN covered + BurstLen ELSE covered
    BY <2>1 DEF Whole
  <2>3. lane[l].at # "recv"
    BY <2>1 DEF Writing
  <2> QED
    BY <2>1, <2>2, <2>3, SettleKeeps
<1>9. ASSUME WriteFails(l) \/ SealFails(l) PROVE DispInv'
  <2>1. /\ lane[l].at \in Writing /\ UNCHANGED <<table, inbox, covered, offered, skipped>>
        /\ \/ lane' = [lane EXCEPT ![l].at = "reopening"] /\ UNCHANGED health
           \/ Settle(l, "fail")
    BY <1>9 DEF WriteFails, SealFails, Writing
  <2>2. lane[l].at # "recv"
    BY <2>1 DEF Writing
  <2>3. CASE lane' = [lane EXCEPT ![l].at = "reopening"] /\ UNCHANGED health
    <3>1. lane' = [lane EXCEPT ![l] = [at |-> "reopening", to |-> lane[l].to,
                                       sent |-> lane[l].sent, here |-> lane[l].here]]
      <4>1. [lane EXCEPT ![l].at = "reopening"] =
              [lane EXCEPT ![l] = [at |-> "reopening", to |-> lane[l].to,
                                   sent |-> lane[l].sent, here |-> lane[l].here]]
        <5>1. lane \in [Lane -> Item] /\ l \in Lane
          BY <1>1
        <5>2. \A f \in [Lane -> Item], k \in Lane :
                [f EXCEPT ![k].at = "reopening"] =
                  [f EXCEPT ![k] = [at |-> "reopening", to |-> f[k].to,
                                    sent |-> f[k].sent, here |-> f[k].here]]
          BY ItemChanged, Zenon
        <5> QED
          BY <5>1, <5>2, Zenon
      <4> QED
        BY <2>3, <4>1, Zenon
    <3>2. /\ "reopening" \in Place \ {"recv"} /\ "reopening" \notin Writing
          /\ lane[l].sent \in Nat /\ lane[l].here \in Nat
      BY <1>1 DEF Place, Writing, Item
    <3> QED
      BY <2>1, <2>2, <2>3, <3>1, <3>2, MovesOn
  <2> QED
    BY <2>1, <2>2, <2>3, <1>4
<1> QED
  BY <1>2, <1>5, <1>6, <1>7, <1>8, <1>9 DEF LaneStep

LEMMA DispInvNext == DispInv /\ [DispNext]_dispVars => DispInv'
<1> SUFFICES ASSUME DispInv, [DispNext]_dispVars PROVE DispInv'
  OBVIOUS
<1>1. ASSUME NEW l \in Lane, NEW to \in Target, Offer(l, to) PROVE DispInv'
  BY <1>1, OfferKeeps
<1>2. ASSUME NEW l \in Lane, LaneStep(l) \/ SealFails(l) PROVE DispInv'
  BY <1>2, LaneStepKeeps
<1>3. ASSUME UNCHANGED <<table, inbox, lane, health, covered, offered, skipped>> PROVE DispInv'
  BY <1>3 DEF DispInv, LaneTypeOK, OverOneLink, EveryItemCounted, Waiting, AtWork, Item, Tabled
<1>4. \/ DrainAsks \/ DrainReleases
      \/ \E p \in Tabled : PeerHangsUp(p) \/ PeerStallsOrReads(p)
      \/ UNCHANGED dispVars
      => UNCHANGED <<table, inbox, lane, health, covered, offered, skipped>>
  BY DEF DrainAsks, DrainReleases, PeerHangsUp, PeerStallsOrReads, dispVars
<1>5. "gossip" \in Lane /\ "cover" \in Lane /\ Addressed \subseteq Target /\ "none" \in Target
  BY DEF Lane, Target
<1> QED
  BY <1>1, <1>2, <1>3, <1>4, <1>5 DEF DispNext

\* A burst the trace counts went over one connection whole, and every item has one
\* outcome (write_cover_cells, spawn_gossip_dispatcher, spawn_cover_dispatcher),
\* however often connections break and peers stall.
THEOREM BurstsAlwaysWhole == DispSpec => []BurstsWhole
<1> QED
  BY DispInvInit, DispInvNext, DispInvEnough, PTL DEF DispSpec

-----------------------------------------------------------------------------
\* The exit sink.

\* What EpochsMatched says of one epoch that ended.
Matched(e) ==
  LET all == e.lines + e.failed
  IN  IF e.real = 0 THEN all \in {0, pad.q}
      ELSE all >= pad.q /\ all >= e.real /\ all \in {pad.q, e.real}

SinkTypeOK ==
  /\ pad \in [enabled : BOOLEAN, deliver : BOOLEAN, log : BOOLEAN, q : Nat, rate : 0 .. 100]
  /\ peels \in Nat /\ sender \in BOOLEAN /\ sinkUp \in BOOLEAN /\ realNow \in Nat
  /\ pads \in [real : Nat, decoy : Nat, epochs : Nat, idle : Nat]
  /\ lines \in Nat /\ failed \in Nat /\ before \in Nat /\ fromPeers \in Nat
  /\ ended \subseteq [real : Nat, lines : Nat, failed : Nat]

\* The counter of the code and the lines, written or not, are those of the packets
\* since the epoch began.  Without this the counter that decides about decoys and the packets
\* that are outside to be seen would be two unrelated numbers.
CountsTheEpoch ==
  /\ before <= pads.real
  /\ pad.enabled => realNow = pads.real - before
  /\ lines + failed = Lines(pads.real - before)

SinkInv ==
  /\ SinkTypeOK /\ CountsTheEpoch
  /\ fromPeers = pads.real + peels
  /\ sinkUp \/ peels = 0
  /\ sinkUp \/ ~sender
  /\ pad.deliver => \A e \in ended : Matched(e)

\* The invariant says what EpochsMatched says.
LEMMA SinkInvEnough == SinkInv => EpochsMatched
BY DEF SinkInv, EpochsMatched, Matched

LEMMA SinkInvInit == SinkInit => SinkInv
<1> SUFFICES ASSUME SinkInit PROVE SinkInv
  OBVIOUS
<1>1. pad \in [enabled : BOOLEAN, deliver : BOOLEAN, log : BOOLEAN, q : Nat, rate : 0 .. 100]
  BY ExitSinkAssumption DEF SinkInit
<1>2. SinkTypeOK
  BY <1>1 DEF SinkInit, SinkTypeOK
<1>3. CountsTheEpoch
  BY DEF SinkInit, CountsTheEpoch, Lines
<1>4. QED
  BY <1>2, <1>3 DEF SinkInit, SinkInv

\* A decision of presence_pad_epoch fills an epoch of `real` packets up as it should,
\* however the lines divide into written ones and failed ones.
LEMMA PadFills ==
  ASSUME SinkTypeOK, NEW real \in Nat, NEW roll \in 0 .. 99
  PROVE  LET d == PresencePadEpoch(real, roll)
         IN  /\ d.decoys \in Nat /\ d.idle \in BOOLEAN
             /\ \A a, b \in Nat : a + b = real + d.decoys =>
                  Matched([real |-> real, lines |-> a, failed |-> b])
<1> DEFINE d == PresencePadEpoch(real, roll)
<1> SUFFICES /\ d.decoys \in Nat /\ d.idle \in BOOLEAN
             /\ \A a, b \in Nat : a + b = real + d.decoys =>
                  Matched([real |-> real, lines |-> a, failed |-> b])
  OBVIOUS
<1>1. pad.q \in Nat /\ pad.rate \in Nat
  BY DEF SinkTypeOK
<1>2. /\ real > 0 => d.decoys = (IF pad.q > real THEN pad.q - real ELSE 0)
      /\ real = 0 => d.decoys \in {0, pad.q}
  BY <1>1 DEF PresencePadEpoch
<1>3. d.idle \in BOOLEAN
  BY Zenon DEF PresencePadEpoch
<1> HIDE DEF d
<1>4. d.decoys \in Nat
  BY <1>1, <1>2
<1>5. ASSUME NEW a \in Nat, NEW b \in Nat, a + b = real + d.decoys
      PROVE  Matched([real |-> real, lines |-> a, failed |-> b])
  <2>1. pad.q \in Nat /\ real \in Nat /\ d.decoys \in Nat /\ a + b = real + d.decoys
    BY <1>1, <1>4, <1>5
  <2>2. CASE real > 0
    <3>1. d.decoys = (IF pad.q > real THEN pad.q - real ELSE 0)
      BY <1>2, <2>2
    <3>2. a + b >= pad.q /\ a + b >= real /\ a + b \in {pad.q, real}
      BY <2>1, <3>1
    <3> QED
      BY <2>2, <3>2 DEF Matched
  <2>3. CASE real = 0
    <3>1. a + b \in {0, pad.q}
      BY <1>2, <2>1, <2>3
    <3> QED
      BY <2>3, <3>1 DEF Matched
  <2>4. QED
    BY <2>1, <2>2, <2>3
<1>6. QED
  BY <1>3, <1>4, <1>5

LEMMA CountersStay ==
  ASSUME NEW c \in [real : Nat, decoy : Nat, epochs : Nat, idle : Nat],
         NEW a \in Nat, NEW b \in Nat, NEW n,
         n = [c EXCEPT !.epochs = @ + 1, !.decoy = @ + a, !.idle = @ + b]
  PROVE  n \in [real : Nat, decoy : Nat, epochs : Nat, idle : Nat] /\ n.real = c.real
<1>1. /\ c.epochs + 1 \in Nat /\ c.decoy + a \in Nat /\ c.idle + b \in Nat /\ c.real \in Nat
  OBVIOUS
<1>2. n = [real |-> c.real, decoy |-> c.decoy + a, epochs |-> c.epochs + 1, idle |-> c.idle + b]
  OBVIOUS
<1>3. QED
  BY <1>1, <1>2

LEMMA SinkInvNext == SinkInv /\ [SinkNext]_sinkVars => SinkInv'
<1> SUFFICES ASSUME SinkInv, [SinkNext]_sinkVars PROVE SinkInv'
  OBVIOUS
<1> USE DEF SinkInv, SinkTypeOK, CountsTheEpoch
<1>1. CASE PeelArrives
  BY <1>1 DEF PeelArrives, Lines, Matched
<1>2. CASE BridgeGone
  BY <1>2 DEF BridgeGone, Lines, Matched
<1>3. CASE HandleRealPeel
  <2>1. PICK k \in 0 .. Lines(1) : lines' = lines + k /\ failed' = failed + (Lines(1) - k)
    BY <1>3 DEF HandleRealPeel
  <2>2. /\ pads' = [pads EXCEPT !.real = @ + 1] /\ peels > 0 /\ peels' = peels - 1 /\ sinkUp
        /\ realNow' = IF pad.enabled THEN realNow + 1 ELSE realNow
        /\ UNCHANGED <<pad, sender, sinkUp, before, fromPeers, ended>>
    BY <1>3 DEF HandleRealPeel
  <2>3. /\ pads' \in [real : Nat, decoy : Nat, epochs : Nat, idle : Nat]
        /\ pads'.real = pads.real + 1
    BY <2>2
  <2>4. /\ lines' \in Nat /\ failed' \in Nat
        /\ lines' + failed' = Lines(pads.real - before) + Lines(1)
    BY <2>1 DEF Lines
  <2>5. lines' + failed' = Lines(pads.real - before)'
    BY <2>2, <2>3, <2>4 DEF Lines
  <2>6. QED
    BY <2>2, <2>3, <2>4, <2>5 DEF Matched
<1>4. CASE FinishEpoch
  <2>1. PICK roll \in Rolls :
          LET decision == PresencePadEpoch(realNow, roll)
              decoys   == Lines(decision.decoys)
          IN  /\ pads' = [pads EXCEPT !.epochs = @ + 1, !.decoy = @ + decision.decoys,
                                      !.idle = @ + (IF decision.idle THEN 1 ELSE 0)]
              /\ \E k \in 0 .. decoys :
                   ended' = ended \cup {[real |-> pads.real - before, lines |-> lines + k,
                                         failed |-> failed + (decoys - k)]}
    BY <1>4 DEF FinishEpoch
  <2> DEFINE d == PresencePadEpoch(realNow, roll)
  <2>k. PICK k \in 0 .. Lines(d.decoys) :
          ended' = ended \cup {[real |-> pads.real - before, lines |-> lines + k,
                                failed |-> failed + (Lines(d.decoys) - k)]}
    BY <2>1
  <2> DEFINE a == lines + k
             b == failed + (Lines(d.decoys) - k)
             e == [real |-> pads.real - before, lines |-> a, failed |-> b]
  <2>2. realNow = pads.real - before /\ roll \in 0 .. 99
    BY <1>4, ExitSinkAssumption DEF FinishEpoch
  <2>3. d.decoys \in Nat /\ d.idle \in BOOLEAN
        /\ \A x, y \in Nat : x + y = realNow + d.decoys =>
             Matched([real |-> realNow, lines |-> x, failed |-> y])
    BY <2>2, PadFills
  <2> HIDE DEF d
  <2> DEFINE i == IF d.idle THEN 1 ELSE 0
  <2>i. i \in Nat
    OBVIOUS
  <2>p. pads' = [pads EXCEPT !.epochs = @ + 1, !.decoy = @ + d.decoys, !.idle = @ + i]
    BY <2>1 DEF d
  <2> HIDE DEF i
  <2>4. pads' \in [real : Nat, decoy : Nat, epochs : Nat, idle : Nat] /\ pads'.real = pads.real
    BY <2>3, <2>i, <2>p, CountersStay
  <2>l. a \in Nat /\ b \in Nat /\ (pad.deliver => a + b = realNow + d.decoys)
    BY <2>2, <2>3, <2>k DEF Lines
  <2> HIDE DEF a, b
  <2>5. ended' = ended \cup {e} /\ e \in [real : Nat, lines : Nat, failed : Nat]
    BY <2>2, <2>k, <2>l DEF a, b
  <2>6. pad.deliver => Matched(e)
    BY <2>2, <2>3, <2>l
  <2> HIDE DEF e
  <2>7. UNCHANGED <<pad, peels, sender, sinkUp, fromPeers>>
        /\ lines' = 0 /\ failed' = 0 /\ before' = pads.real /\ realNow' = 0
    BY <1>4 DEF FinishEpoch
  <2>8. pad.deliver => \A x \in ended' : Matched(x)
    BY <2>5, <2>6
  <2>9. QED
    BY <2>4, <2>5, <2>7, <2>8 DEF Lines, Matched
<1>5. CASE SinkEnds
  BY <1>5 DEF SinkEnds, Lines, Matched
<1>6. CASE UNCHANGED sinkVars
  BY <1>6 DEF sinkVars, Lines, Matched
<1>7. QED
  BY <1>1, <1>2, <1>3, <1>4, <1>5, <1>6 DEF SinkNext

\* Every epoch of the presence pad that ended shows pad_q lines or as many as it had
\* packets, less those whose write failed, and no packet the bridge handed over is lost
\* in the sink (finish_epoch, handle_real_peel), whatever the settings.
THEOREM EpochsAlwaysMatched == SinkSpec => []EpochsMatched
BY SinkInvInit, SinkInvNext, SinkInvEnough, PTL DEF SinkSpec
-----------------------------------------------------------------------------
\* The inbound link.

Early == {"start", "init", "msg1"}

\* The first message of a caller under its configuration, and its confirm MAC.
Hello(c) == Wire(InitMsg(c))
First(c) == Msg1(c, ini[c].cfg.secret, ini[c].cfg.known)
Confirm(c) == ConfirmMac(ini[c].cfg.psk, ini[c].tr, CallerBinding(ini[c].cfg))

\* The last message of the responder, and the key it took with it.
Finished(c) ==
  \E psk : LET tr == rsp[c].key
           IN  down[c] = Wire(FinishMac(psk, tr, Binding(host, host.id, host.kem)))
Answered(c) ==
  /\ down[c] = Wire(Msg2(c, First(c))) /\ rsp[c].key = NoiseKey(Msg2(c, First(c)))
  /\ ini[c].cfg.known = host.secret

CallerPcs == {"idle", "start", "resp", "finish", "msg2", "up", "closed"}
TaskPcs   == Early \cup {"idle", "confirm", "data", "closed"}

\* Which side is where, and what is in the stream, until frames are.
Handshake(c) ==
  LET k == ini[c].cfg
      i == ini[c].pc
      r == rsp[c].pc
  IN  /\ i \in CallerPcs /\ r \in TaskPcs /\ (i = "idle" <=> r = "idle")
      /\ i # "idle" => k \in scene.callers[c]
      /\ i \in {"resp", "finish"} => ~InitiatorSelectsNoise(k)
      /\ i = "msg2" => InitiatorSelectsNoise(k)
      /\ r \in {"idle", "closed"} => up[c] = <<>>
      /\ r \in {"idle"} \cup Early => down[c] = <<>>
      /\ i = "start" => r \in Early \cup {"closed"} /\ up[c] = <<>> /\ down[c] = <<>>
      /\ i = "resp" => /\ r \in Early \cup {"confirm", "closed"}
                       /\ r \in Early => up[c] = Hello(c)
                       /\ r = "confirm" => up[c] = <<>>
                       /\ down[c] \in {<<>>, Wire(RespMsg(c))}
      /\ i = "finish" => /\ r \in {"confirm", "data", "closed"}
                         /\ r = "confirm" => up[c] = Wire(Confirm(c)) /\ down[c] = <<>>
                         /\ r = "data" => up[c] = <<>>
                         /\ down[c] = <<>> \/ Finished(c)
      /\ i = "msg2" => /\ r \in Early \cup {"confirm", "data", "closed"}
                       /\ r \in Early => up[c] = Wire(First(c))
                       /\ r = "confirm" => up[c] = SubSeq(Wire(First(c)), 4, 6)
                       /\ r = "data" => up[c] = <<>>
                       /\ down[c] \in {<<>>, Wire(RespMsg(c))} \/ Answered(c)
      /\ i = "up" => r \in {"data", "closed"}
      /\ r \in Early => up[c] \in {<<>>, Hello(c), Wire(First(c))}
      /\ r = "confirm" => up[c] \in {<<>>, SubSeq(Wire(First(c)), 4, 6), Wire(Confirm(c))}
      /\ (r = "confirm" /\ i \notin {"finish", "closed"}) => down[c] = Wire(RespMsg(c))

-----------------------------------------------------------------------------
\* Fragments come in the order of their packets and indices.
Behind(p, i, q, j) == p < q \/ (p = q /\ i < j)

Frag(u) == u.cell.kind = "fragment"

AsmOK(a) ==
  /\ DOMAIN a.buf = 0 .. Fragments - 1 /\ a.next \in 0 .. Fragments - 1
  /\ \/ a.id = None /\ a.next = 0
     \/ a.id \in Nat /\ a.next > 0 /\ \A i \in 0 .. a.next - 1 : a.buf[i] = a.id

\* A packet number that every fragment still to be seen is above.
Above(c, p) ==
  /\ p < ini[c].packet
  /\ \A n \in 1 .. Len(up[c]) : Frag(up[c][n]) => p < up[c][n].cell.packet
  /\ rsp[c].asm.id # None => p < rsp[c].asm.id

\* A fragment on its way is one the caller has passed, and is still to come here.
Between(c, f) ==
  /\ f.packet \in Nat /\ f.index \in 0 .. Fragments - 1
  /\ Behind(f.packet, f.index, ini[c].packet, ini[c].index)
  /\ rsp[c].asm.id # None => Behind(rsp[c].asm.id, rsp[c].asm.next - 1, f.packet, f.index)

InOrder(c) ==
  /\ \A n \in 1 .. Len(up[c]) : Frag(up[c][n]) => Between(c, up[c][n].cell)
  /\ \A m, n \in 1 .. Len(up[c]) : (m < n /\ Frag(up[c][m]) /\ Frag(up[c][n])) =>
       Behind(up[c][m].cell.packet, up[c][m].cell.index, up[c][n].cell.packet, up[c][n].cell.index)
  /\ rsp[c].asm.id # None =>
       Behind(rsp[c].asm.id, rsp[c].asm.next - 1, ini[c].packet, ini[c].index)

Packets(c) ==
  /\ ini[c].packet \in Nat /\ ini[c].index \in 0 .. Fragments - 1
  /\ \A n \in 1 .. Len(delivered[c]) :
       /\ delivered[c][n][0] \in Nat
       /\ delivered[c][n] = [i \in 0 .. Fragments - 1 |-> delivered[c][n][0]]
  /\ \A m, n \in 1 .. Len(delivered[c]) : m < n => delivered[c][m][0] < delivered[c][n][0]
  /\ rsp[c].pc \in {"idle", "confirm"} \cup Early => delivered[c] = <<>> /\ rsp[c].asm = NewAssembly
  /\ rsp[c].pc = "data" =>
       /\ AsmOK(rsp[c].asm) /\ InOrder(c)
       /\ \A n \in 1 .. Len(delivered[c]) : Above(c, delivered[c][n][0])

\* The frames let through on some connections at a time or later.
Since(conns, t) ==
  UNION {{c} \X {i \in 1 .. Len(passed[c]) : t <= passed[c][i]} : c \in conns}

Burst == NewBucket(host.burst, 0).tokens

\* A bucket holds no more than a burst, and what has been let through since a time
\* with what it holds now is a burst and what came back; nothing has been since it
\* was last asked.
Pays(b, rate, conns) ==
  /\ b.tokens \in 0 .. Burst /\ b.last \in 0 .. now
  /\ \A t \in Nat : IF t <= b.last
                    THEN Cardinality(Since(conns, t)) + b.tokens <= Burst + (b.last - t) * rate
                    ELSE Since(conns, t) = {}

OwnBucket(c) ==
  /\ rsp[c].pc \notin {"data", "closed"} => passed[c] = <<>>
  /\ (rsp[c].pc = "data" \/ passed[c] # <<>>) => Pays(rsp[c].local, host.rate, {c})

Buckets ==
  /\ IsFiniteSet(Since(Conn, 0))
  /\ host.rate > 0 => \A c \in Conn : OwnBucket(c)
  /\ host.globalRate > 0 => Pays(global, host.globalRate, Conn)


-----------------------------------------------------------------------------
\* Streams: sequences of units of any kind.

IsSeq(s) == \E S : s \in Seq(S)

LEMMA SeqFacts ==
  ASSUME NEW s, IsSeq(s)
  PROVE  Len(s) \in Nat /\ DOMAIN s = 1 .. Len(s) /\ (s = <<>> <=> Len(s) = 0)
<1>1. PICK S : s \in Seq(S)
  BY DEF IsSeq
<1> QED BY <1>1, LenProperties, EmptySeq

LEMMA NoneIsSeq == IsSeq(<<>>) /\ Len(<<>>) = 0
<1>1. <<>> \in Seq({})
  BY EmptySeq
<1> QED BY <1>1 DEF IsSeq

LEMMA OneIsSeq ==
  ASSUME NEW x
  PROVE  IsSeq(<<x>>) /\ Len(<<x>>) = 1 /\ <<x>>[1] = x
<1>1. <<x>> \in Seq({x})
  OBVIOUS
<1> QED BY <1>1 DEF IsSeq

LEMMA CatSeq ==
  ASSUME NEW s, NEW t, IsSeq(s), IsSeq(t)
  PROVE  /\ IsSeq(s \o t) /\ Len(s \o t) = Len(s) + Len(t)
         /\ \A i \in 1 .. Len(s) : (s \o t)[i] = s[i]
         /\ \A i \in 1 .. Len(t) : (s \o t)[Len(s) + i] = t[i]
         /\ s = <<>> => s \o t = t
<1>1. PICK S : s \in Seq(S)
  BY DEF IsSeq
<1>2. PICK T : t \in Seq(T)
  BY DEF IsSeq
<1>3. s \in Seq(S \cup T) /\ t \in Seq(S \cup T)
  BY <1>1, <1>2, SeqMonotonic
<1>4. /\ s \o t \in Seq(S \cup T) /\ Len(s \o t) = Len(s) + Len(t)
      /\ \A i \in 1 .. Len(s) + Len(t) : (s \o t)[i] = IF i <= Len(s) THEN s[i] ELSE t[i - Len(s)]
  BY <1>3, ConcatProperties
<1>5. Len(s) \in Nat /\ Len(t) \in Nat
  BY <1>3, LenProperties
<1>6. s = <<>> => s \o t = t
  BY <1>3, ConcatEmptySeq
<1> QED BY <1>4, <1>5, <1>6 DEF IsSeq

\* A reader takes n units off the front.
LEMMA DropSeq ==
  ASSUME NEW s, IsSeq(s), NEW n \in Nat, n <= Len(s)
  PROVE  /\ IsSeq(SubSeq(s, n + 1, Len(s))) /\ Len(SubSeq(s, n + 1, Len(s))) = Len(s) - n
         /\ \A i \in 1 .. Len(s) - n : SubSeq(s, n + 1, Len(s))[i] = s[n + i]
         /\ n = Len(s) => SubSeq(s, n + 1, Len(s)) = <<>>
         /\ n = 0 => SubSeq(s, n + 1, Len(s)) = s
<1>1. PICK S : s \in Seq(S)
  BY DEF IsSeq
<1>2. Len(s) \in Nat /\ \A i \in n + 1 .. Len(s) : s[i] \in S
  BY <1>1, LenProperties, ElementOfSeq
<1>3. /\ SubSeq(s, n + 1, Len(s)) \in Seq(S)
      /\ Len(SubSeq(s, n + 1, Len(s))) = IF n + 1 <= Len(s) THEN Len(s) - (n + 1) + 1 ELSE 0
      /\ \A i \in 1 .. Len(s) - (n + 1) + 1 : SubSeq(s, n + 1, Len(s))[i] = s[n + 1 + i - 1]
  BY <1>2, SubSeqProperties
<1>4. n = 0 => SubSeq(s, n + 1, Len(s)) = s
  BY <1>1, SubSeqFull
<1>5. Len(SubSeq(s, n + 1, Len(s))) = Len(s) - n
  BY <1>2, <1>3
<1>6. n = Len(s) => SubSeq(s, n + 1, Len(s)) = <<>>
  BY <1>2, SubSeqEmpty
<1>7. \A i \in 1 .. Len(s) - n : SubSeq(s, n + 1, Len(s))[i] = s[n + i]
  BY <1>2, <1>3
<1> QED BY <1>3, <1>4, <1>5, <1>6, <1>7 DEF IsSeq

LEMMA TakeSeq ==
  ASSUME NEW s, IsSeq(s), NEW n \in Nat, n <= Len(s), n > 0
  PROVE  SubSeq(s, 1, n)[1] = s[1] /\ (n = Len(s) => SubSeq(s, 1, n) = s)
<1>1. PICK S : s \in Seq(S)
  BY DEF IsSeq
<1>2. Len(s) \in Nat /\ \A i \in 1 .. n : s[i] \in S
  BY <1>1, LenProperties, ElementOfSeq
<1>3. \A i \in 1 .. n - 1 + 1 : SubSeq(s, 1, n)[i] = s[1 + i - 1]
  BY <1>2, SubSeqProperties
<1> QED BY <1>1, <1>3, SubSeqFull

LEMMA WireSeq ==
  ASSUME NEW m, m.type \in DOMAIN Units
  PROVE  /\ IsSeq(Wire(m)) /\ Len(Wire(m)) = Units[m.type] /\ Len(Wire(m)) \in Nat \ {0}
         /\ \A i \in 1 .. Len(Wire(m)) : Wire(m)[i] = [of |-> m, at |-> i]
         /\ Wire(m)[1].of = m /\ Wire(m) # <<>>
<1> DEFINE n == Units[m.type]
           S == {[of |-> m, at |-> i] : i \in 1 .. n}
<1>1. n \in Nat \ {0}
  BY DEF Units
<1>2. Wire(m) = [i \in 1 .. n |-> [of |-> m, at |-> i]]
  BY DEF Wire
<1>3. Units[m.type] = n
  OBVIOUS
<1> HIDE DEF n
<1>4. Wire(m) \in [1 .. n -> S]
  BY <1>2
<1>5. Wire(m) \in Seq(S)
  BY <1>1, <1>4, SeqDef
<1>6. DOMAIN Wire(m) = 1 .. Len(Wire(m)) /\ Len(Wire(m)) \in Nat
  BY <1>5, LenProperties
<1>7. Len(Wire(m)) = n
  BY <1>1, <1>2, <1>6
<1>8. \A i \in 1 .. Len(Wire(m)) : Wire(m)[i] = [of |-> m, at |-> i]
  BY <1>2, <1>7
<1>9. Wire(m)[1] = [of |-> m, at |-> 1]
  BY <1>1, <1>7, <1>8
<1>10. Wire(m) # <<>>
  BY <1>1, <1>5, <1>7, EmptySeq
<1>11. IsSeq(Wire(m))
  BY <1>5 DEF IsSeq
<1> QED BY <1>1, <1>3, <1>7, <1>8, <1>9, <1>10, <1>11

\* The messages of the protocol and how many units they are.
LEMMA Messages ==
  ASSUME NEW c, NEW x, NEW y, NEW z
  PROVE  /\ InitMsg(c).type = "init" /\ RespMsg(c).type = "resp"
         /\ ConfirmMac(x, y, z).type = "confirm" /\ FinishMac(x, y, z).type = "finish"
         /\ Msg1(c, x, y).type = "msg1" /\ Msg2(c, x).type = "msg2"
         /\ DOMAIN Units = {"init", "resp", "confirm", "finish", "msg1", "msg2"}
         /\ Units.init = 3 /\ Units.resp = 3 /\ Units.confirm = 2 /\ Units.finish = 2
         /\ Units.msg1 = 6 /\ Units.msg2 = 3
BY DEF InitMsg, RespMsg, ConfirmMac, FinishMac, Mac, Msg1, Msg2, Units

LEMMA Hellos ==
  ASSUME NEW c
  PROVE  /\ IsSeq(Wire(InitMsg(c))) /\ Len(Wire(InitMsg(c))) = 3
         /\ IsSeq(Wire(RespMsg(c))) /\ Len(Wire(RespMsg(c))) = 3
         /\ Wire(InitMsg(c))[1].of = InitMsg(c) /\ Wire(RespMsg(c))[1].of = RespMsg(c)
         /\ Units.init = 3 /\ Units.resp = 3 /\ 3 \in Nat
<1>1. /\ InitMsg(c).type \in DOMAIN Units /\ Units[InitMsg(c).type] = 3
      /\ RespMsg(c).type \in DOMAIN Units /\ Units[RespMsg(c).type] = 3
  BY DEF InitMsg, RespMsg, Units
<1>2. Units.init = 3 /\ Units.resp = 3
  BY DEF Units
<1>3. IsSeq(Wire(InitMsg(c))) /\ Len(Wire(InitMsg(c))) = 3 /\ Wire(InitMsg(c))[1].of = InitMsg(c)
  BY <1>1, WireSeq
<1>4. IsSeq(Wire(RespMsg(c))) /\ Len(Wire(RespMsg(c))) = 3 /\ Wire(RespMsg(c))[1].of = RespMsg(c)
  BY <1>1, WireSeq
<1> QED BY <1>2, <1>3, <1>4

-----------------------------------------------------------------------------
\* What the parts of the state are, and that a step of one connection leaves the
\* others alone.

\* What a task and a caller keep of a connection, and its two streams.
ShapeOf(c) ==
  /\ DOMAIN ini[c] = {"cfg", "pc", "key", "tr", "sent", "packet", "index"}
  /\ DOMAIN rsp[c] = {"pc", "init", "key", "peer", "local", "asm", "why"}
  /\ IsSeq(up[c]) /\ IsSeq(down[c]) /\ IsSeq(delivered[c])

LinkShape ==
  /\ scene \in Scenes /\ now \in Nat
  /\ DOMAIN ini = Conn /\ DOMAIN rsp = Conn /\ DOMAIN up = Conn /\ DOMAIN down = Conn
  /\ DOMAIN open = Conn /\ DOMAIN delivered = Conn /\ passed \in [Conn -> Seq(Nat)]
  /\ \A c \in Conn : ShapeOf(c) /\ (ini[c].pc = "idle" => ~open[c])

Same(c) ==
  /\ ini'[c] = ini[c] /\ rsp'[c] = rsp[c] /\ up'[c] = up[c] /\ down'[c] = down[c]
  /\ open'[c] = open[c] /\ passed'[c] = passed[c] /\ delivered'[c] = delivered[c]

LEMMA CallerFrame ==
  ASSUME LinkShape, NEW c \in Conn, Caller(c)
  PROVE  /\ scene' = scene /\ now' = now /\ DOMAIN ini' = Conn /\ DOMAIN rsp' = Conn
         /\ DOMAIN up' = Conn /\ DOMAIN down' = Conn
         /\ DOMAIN open' = Conn /\ passed' = passed /\ delivered' = delivered /\ global' = global
         /\ ini[c].pc # "up" => ini'[c].packet = ini[c].packet /\ ini'[c].index = ini[c].index
         /\ \A d \in Conn \ {c} : Same(d)
<1>1. CASE \E k \in scene.callers[c] : Connect(c, k)
  BY <1>1 DEF Connect, LinkShape, ShapeOf, Same
<1>2. CASE InitiatorStart(c)
  BY <1>2 DEF InitiatorStart, InitiatorLeft, Write, LinkShape, ShapeOf, Same
<1>3. CASE InitiatorReadResp(c)
  BY <1>3 DEF InitiatorReadResp, InitiatorLeft, Write, LinkShape, ShapeOf, Same
<1>4. CASE InitiatorReadFinish(c) \/ InitiatorReadMsg2(c)
  BY <1>4 DEF InitiatorReadFinish, InitiatorReadMsg2, InitiatorReadLast, InitiatorLeft, LinkShape, ShapeOf, Same
<1>5. CASE CallerCloses(c)
  BY <1>5 DEF CallerCloses, InitiatorLeft, LinkShape, ShapeOf, Same
<1>6. CASE SendFragment(c)
  BY <1>6 DEF SendFragment, InitiatorLeft, Write, LinkShape, ShapeOf, Same
<1>7. CASE \E kind \in Control : SendControl(c, kind)
  BY <1>7 DEF SendControl, InitiatorLeft, Write, LinkShape, ShapeOf, Same
<1> QED BY <1>1, <1>2, <1>3, <1>4, <1>5, <1>6, <1>7 DEF Caller

LEMMA ResponderFrame ==
  ASSUME LinkShape, NEW c \in Conn, Responder(c)
  PROVE  /\ scene' = scene /\ now' = now /\ ini' = ini /\ open' = open /\ DOMAIN rsp' = Conn
         /\ DOMAIN up' = Conn /\ DOMAIN down' = Conn /\ DOMAIN passed' = Conn
         /\ DOMAIN delivered' = Conn
         /\ \A d \in Conn \ {c} : Same(d)
         /\ rsp[c].pc \in TaskPcs \ {"idle", "closed"}
         /\ rsp[c].pc # "data" => passed' = passed /\ delivered' = delivered /\ global' = global
<1>1. CASE ResponderStart(c)
  BY <1>1 DEF ResponderStart, Take, KeepsData, ResponderLeft, LinkShape, Same, TaskPcs, Early, ShapeOf
<1>2. CASE ResponderReadInit(c)
  BY <1>2 DEF ResponderReadInit, Take, KeepsData, ResponderLeft, LinkShape, Same, TaskPcs, Early, ShapeOf
<1>3. CASE ResponderReadConfirm(c)
  BY <1>3 DEF ResponderReadConfirm, Unidentified, Established, Take, KeepsData, ResponderLeft, LinkShape, Same, TaskPcs, Early, ShapeOf
<1>4. CASE ResponderReadMsg1(c)
  BY <1>4 DEF ResponderReadMsg1, Unidentified, Established, Take, KeepsData, ResponderLeft, LinkShape, Same, TaskPcs, Early, ShapeOf
<1>5. CASE ResponderGivesUp(c)
  BY <1>5 DEF ResponderGivesUp, Awaits, Take, KeepsData, ResponderLeft, LinkShape, Same, TaskPcs, Early, ShapeOf
<1>6. CASE ReadFrame(c)
  <2>1. /\ rsp[c].pc = "data" /\ scene' = scene /\ now' = now /\ ini' = ini /\ down' = down /\ open' = open
        /\ DOMAIN up' = Conn /\ \A d \in Conn \ {c} : up'[d] = up[d]
    BY <1>6 DEF ReadFrame, Take, ResponderLeft, LinkShape, ShapeOf
  <2>2. DOMAIN passed' = Conn /\ \A d \in Conn \ {c} : passed'[d] = passed[d]
    BY <1>6 DEF ReadFrame, LinkShape, ShapeOf
  <2>3. /\ DOMAIN rsp' = Conn /\ DOMAIN delivered' = Conn
        /\ \A d \in Conn \ {c} : rsp'[d] = rsp[d] /\ delivered'[d] = delivered[d]
    BY <1>6 DEF ReadFrame, LinkShape, ShapeOf
  <2> QED BY <2>1, <2>2, <2>3 DEF Same, TaskPcs, LinkShape, ShapeOf
<1> QED BY <1>1, <1>2, <1>3, <1>4, <1>5, <1>6 DEF Responder

\* A caller that is up has the key of its peer, and the peer it meant.
Bound(c) ==
  ini[c].pc = "up" =>
    LET k == ini[c].cfg IN
    /\ rsp[c].key = ini[c].key
    /\ InitiatorSelectsNoise(k) => k.known = host.secret
    /\ (~InitiatorSelectsNoise(k) /\ k.binding) => (k.peer = host.id /\ k.kem = host.kem)

\* The connection itself, apart from the packets.
Link(c) == ShapeOf(c) /\ Handshake(c) /\ Bound(c)

LEMMA ConnectLink ==
  ASSUME LinkShape, NEW c \in Conn, Link(c), NEW k \in scene.callers[c], Connect(c, k)
  PROVE  Link(c)'
<1>1. /\ ini'[c].cfg = k /\ ini'[c].pc = "start" /\ DOMAIN ini'[c] = DOMAIN ini[c]
      /\ rsp'[c].pc \in {"start", "closed"} /\ DOMAIN rsp'[c] = DOMAIN rsp[c]
      /\ UNCHANGED <<scene, up, down, delivered>>
  BY DEF Connect, LinkShape, ShapeOf
<1>2. up[c] = <<>> /\ down[c] = <<>>
  BY DEF Connect, Link, Handshake
<1> QED BY <1>1, <1>2 DEF Link, ShapeOf, Handshake, Bound, CallerPcs, TaskPcs, Early, Connect

\* What the caller writes goes at the end, unless nobody will read it.
LEMMA Written ==
  ASSUME LinkShape, NEW c \in Conn, NEW s, IsSeq(s), Write(c, s)
  PROVE  /\ DOMAIN up' = Conn /\ IsSeq(up'[c])
         /\ rsp[c].pc = "closed" => up'[c] = up[c]
         /\ rsp[c].pc # "closed" => up'[c] = up[c] \o s
         /\ (rsp[c].pc # "closed" /\ up[c] = <<>>) => up'[c] = s
BY CatSeq DEF Write, LinkShape, ShapeOf

LEMMA StartLink ==
  ASSUME LinkShape, NEW c \in Conn, Link(c), InitiatorStart(c)
  PROVE  Link(c)'
<1> DEFINE k == ini[c].cfg
<1>1. /\ ini[c].pc = "start" /\ UNCHANGED <<scene, rsp, down, delivered>>
      /\ up[c] = <<>> /\ down[c] = <<>> /\ rsp[c].pc \in Early \cup {"closed"}
      /\ k \in scene.callers[c]
  BY DEF InitiatorStart, InitiatorLeft, Link, Handshake
<1>2. CASE ~InitiatorSelectsNoise(k)
  <2>1. Write(c, Wire(InitMsg(c))) /\ ini' = [ini EXCEPT ![c].pc = "resp"]
    BY <1>2 DEF InitiatorStart
  <2>2. IsSeq(Wire(InitMsg(c)))
    BY Hellos
  <2>3. /\ IsSeq(up'[c])
        /\ rsp[c].pc = "closed" => up'[c] = <<>>
        /\ rsp[c].pc # "closed" => up'[c] = Wire(InitMsg(c))
    BY <1>1, <2>1, <2>2, Written
  <2>4. ini'[c].pc = "resp" /\ ini'[c].cfg = k /\ DOMAIN ini'[c] = DOMAIN ini[c]
    BY <2>1 DEF LinkShape, ShapeOf
  <2> QED BY <1>1, <1>2, <2>3, <2>4 DEF Link, ShapeOf, Handshake, Bound, CallerPcs, TaskPcs, Early, Hello
<1>3. CASE InitiatorSelectsNoise(k) /\ None \in {k.secret, k.known}
  <2>1. UNCHANGED up /\ ini' = [ini EXCEPT ![c].pc = "closed"]
    BY <1>3 DEF InitiatorStart
  <2>2. ini'[c].pc = "closed" /\ ini'[c].cfg = k /\ DOMAIN ini'[c] = DOMAIN ini[c]
    BY <2>1 DEF LinkShape, ShapeOf
  <2> QED BY <1>1, <2>1, <2>2 DEF Link, ShapeOf, Handshake, Bound, CallerPcs, TaskPcs, Early
<1>4. CASE InitiatorSelectsNoise(k) /\ None \notin {k.secret, k.known}
  <2>1. Write(c, Wire(First(c))) /\ ini' = [ini EXCEPT ![c].pc = "msg2"]
    BY <1>4 DEF InitiatorStart, First
  <2>2. IsSeq(Wire(First(c)))
    BY Messages, WireSeq DEF First
  <2>3. /\ IsSeq(up'[c])
        /\ rsp[c].pc = "closed" => up'[c] = <<>>
        /\ rsp[c].pc # "closed" => up'[c] = Wire(First(c))
    BY <1>1, <2>1, <2>2, Written
  <2>4. /\ ini'[c].pc = "msg2" /\ ini'[c].cfg = k /\ DOMAIN ini'[c] = DOMAIN ini[c]
        /\ First(c)' = First(c)
    BY <2>1 DEF LinkShape, First, ShapeOf
  <2> QED BY <1>1, <1>4, <2>3, <2>4 DEF Link, ShapeOf, Handshake, Bound, CallerPcs, TaskPcs, Early
<1> QED BY <1>2, <1>3, <1>4

LEMMA ReadRespLink ==
  ASSUME LinkShape, NEW c \in Conn, Link(c), InitiatorReadResp(c)
  PROVE  Link(c)'
<1> DEFINE tr == Transcript(Wire(InitMsg(c)), SubSeq(down[c], 1, Units.resp))
<1>1. /\ ini[c].pc = "resp" /\ UNCHANGED <<scene, rsp, delivered>> /\ Len(down[c]) >= Units.resp
      /\ ~InitiatorSelectsNoise(ini[c].cfg) /\ rsp[c].pc \in Early \cup {"confirm", "closed"}
      /\ down[c] \in {<<>>, Wire(RespMsg(c))} /\ ini[c].cfg \in scene.callers[c]
      /\ rsp[c].pc \in Early => down[c] = <<>>
      /\ rsp[c].pc \in {"confirm", "closed"} => up[c] = <<>>
  BY DEF InitiatorReadResp, InitiatorLeft, Link, Handshake
<1>2. down[c] = Wire(RespMsg(c)) /\ Len(down[c]) = Units.resp /\ rsp[c].pc \in {"confirm", "closed"}
  <2>1. Len(<<>>) = 0 /\ Len(Wire(RespMsg(c))) = 3 /\ Units.resp = 3
    BY Hellos, NoneIsSeq
  <2>2. down[c] # <<>>
    BY <1>1, <2>1
  <2> QED BY <1>1, <2>1, <2>2 DEF Early
<1>3. ini' = [ini EXCEPT ![c].pc = "finish", ![c].tr = tr]
  BY DEF InitiatorReadResp
<1>4. ini'[c].pc = "finish" /\ ini'[c].cfg = ini[c].cfg /\ DOMAIN ini'[c] = DOMAIN ini[c] /\ ini'[c].tr = tr
  BY <1>3 DEF LinkShape, ShapeOf
<1>5. Write(c, Wire(Confirm(c)'))
  BY <1>4 DEF InitiatorReadResp, Confirm
<1>6. IsSeq(Wire(Confirm(c)'))
  BY Messages, WireSeq DEF Confirm
<1>7. /\ IsSeq(up'[c])
      /\ rsp[c].pc = "closed" => up'[c] = <<>>
      /\ rsp[c].pc # "closed" => up'[c] = Wire(Confirm(c)')
  BY <1>1, <1>2, <1>5, <1>6, Written
<1>8. down'[c] = <<>> /\ IsSeq(down'[c])
  <2>1. down'[c] = SubSeq(down[c], Units.resp + 1, Len(down[c]))
    BY DEF InitiatorReadResp, LinkShape, ShapeOf
  <2>2. SubSeq(Wire(RespMsg(c)), 3 + 1, 3) = <<>>
    BY SubSeqEmpty
  <2>3. down'[c] = SubSeq(Wire(RespMsg(c)), 3 + 1, 3)
    BY <1>2, <2>1, Hellos
  <2> QED BY <2>2, <2>3, NoneIsSeq
<1> QED BY <1>1, <1>2, <1>4, <1>7, <1>8 DEF Link, ShapeOf, Handshake, Bound, CallerPcs, TaskPcs, Early

LEMMA LastLink ==
  ASSUME LinkShape, NEW c \in Conn, Link(c), NEW pc, NEW n, NEW good \in BOOLEAN, NEW key,
         InitiatorReadLast(c, pc, n, good, key), pc \in {"finish", "msg2"}, n \in Nat,
         rsp[c].pc \notin Early, good => rsp[c].pc \in {"data", "closed"},
         good => LET k == ini[c].cfg IN
                 /\ rsp[c].key = key
                 /\ InitiatorSelectsNoise(k) => k.known = host.secret
                 /\ (~InitiatorSelectsNoise(k) /\ k.binding) => (k.peer = host.id /\ k.kem = host.kem)
  PROVE  Link(c)'
<1> DEFINE pc2  == IF good THEN "up" ELSE "closed"
           key2 == IF good THEN key ELSE None
<1>1. ini' = [ini EXCEPT ![c].pc = pc2, ![c].key = key2]
  BY DEF InitiatorReadLast
<1>2. /\ ini'[c].pc = pc2 /\ ini'[c].key = key2 /\ ini'[c].cfg = ini[c].cfg
      /\ ini'[c].tr = ini[c].tr /\ DOMAIN ini'[c] = DOMAIN ini[c]
  BY <1>1 DEF LinkShape, ShapeOf
<1>3. UNCHANGED <<scene, rsp, up, delivered>> /\ ini[c].pc = pc /\ n <= Len(down[c])
  BY SeqFacts DEF InitiatorReadLast, InitiatorLeft, LinkShape, ShapeOf
<1>4. down'[c] = SubSeq(down[c], n + 1, Len(down[c]))
  BY DEF InitiatorReadLast, LinkShape, ShapeOf
<1>5. IsSeq(down'[c])
  BY <1>3, <1>4, DropSeq DEF LinkShape, ShapeOf
<1>6. First(c)' = First(c) /\ Confirm(c)' = Confirm(c) /\ Hello(c)' = Hello(c)
  BY <1>2 DEF First, Confirm, Hello
<1>7. Bound(c)'
  BY <1>2, <1>3 DEF Bound, host
<1>8. ShapeOf(c)'
  BY <1>2, <1>3, <1>5 DEF ShapeOf, Link
<1>9. Handshake(c)'
  BY <1>2, <1>3, <1>6 DEF Handshake, Link, CallerPcs, TaskPcs, Early
<1> QED BY <1>7, <1>8, <1>9 DEF Link

LEMMA ReadFinishLink ==
  ASSUME LinkShape, NEW c \in Conn, Link(c), InitiatorReadFinish(c)
  PROVE  Link(c)'
<1> DEFINE k    == ini[c].cfg
           mac  == FinishMac(k.psk, ini[c].tr, CallerBinding(k))
           good == VerifyMac(SubSeq(down[c], 1, Units.finish), mac)
<1>1. Units.finish = 2 /\ mac.type \in DOMAIN Units
  BY DEF Units, FinishMac, Mac
<1>2. InitiatorReadLast(c, "finish", 2, good, ini[c].tr)
  BY <1>1 DEF InitiatorReadFinish, SessionKey
<1>3. /\ ini[c].pc = "finish" /\ Len(down[c]) >= 2 /\ ~InitiatorSelectsNoise(k)
      /\ rsp[c].pc \in {"confirm", "data", "closed"}
      /\ down[c] = <<>> \/ Finished(c)
      /\ rsp[c].pc = "confirm" => down[c] = <<>>
  BY <1>2 DEF InitiatorReadLast, Link, Handshake
<1>4. down[c] # <<>>
  <2>1. Len(<<>>) = 0
    BY NoneIsSeq
  <2> QED BY <1>3, <2>1
<1>5. PICK psk : down[c] = Wire(FinishMac(psk, rsp[c].key, Binding(host, host.id, host.kem)))
  BY <1>3, <1>4 DEF Finished
<1> DEFINE sent == FinishMac(psk, rsp[c].key, Binding(host, host.id, host.kem))
<1>6. sent.type \in DOMAIN Units /\ Units[sent.type] = 2
  BY DEF Units, FinishMac, Mac
<1>7. Len(down[c]) = 2 /\ IsSeq(down[c]) /\ down[c][1].of = sent
  <2> HIDE DEF sent
  <2>1. IsSeq(Wire(sent)) /\ Len(Wire(sent)) = 2 /\ Wire(sent)[1].of = sent
    BY <1>6, WireSeq
  <2> QED BY <1>5, <2>1 DEF sent
<1>8. SubSeq(down[c], 1, 2) = down[c]
  BY <1>7, TakeSeq
<1>9. good => rsp[c].key = ini[c].tr /\ Binding(host, host.id, host.kem) = CallerBinding(k)
  <2>1. good => sent = mac
    BY <1>1, <1>7, <1>8, WireSeq DEF VerifyMac
  <2> QED BY <2>1 DEF FinishMac, Mac
<1>10. ASSUME good, k.binding
       PROVE  k.peer = host.id /\ k.kem = host.kem
  <2>1. k \in scene.callers[c] /\ scene \in Scenes
    BY <1>3 DEF Link, Handshake, LinkShape, ShapeOf
  <2>2. CallerBinding(k) = [id |-> k.peer, kem |-> k.kem] /\ CallerBinding(k) # None
    BY <1>10, <2>1, HopLinkAssumption DEF CallerBinding, Binding
  <2>3. Binding(host, host.id, host.kem) = [id |-> host.id, kem |-> host.kem]
    BY <1>9, <1>10, <2>2 DEF Binding
  <2>4. CallerBinding(k).id = k.peer /\ CallerBinding(k).kem = k.kem
    BY <2>2
  <2> QED BY <1>9, <1>10, <2>3, <2>4
<1>11. good \in BOOLEAN
  BY DEF VerifyMac
<1> HIDE DEF good
<1>12. rsp[c].pc \notin Early /\ (good => rsp[c].pc \in {"data", "closed"})
  BY <1>3, <1>4 DEF Early
<1> QED BY <1>2, <1>3, <1>4, <1>9, <1>10, <1>11, <1>12, LastLink DEF Early

LEMMA ReadMsg2Link ==
  ASSUME LinkShape, NEW c \in Conn, Link(c), InitiatorReadMsg2(c)
  PROVE  Link(c)'
<1> DEFINE k    == ini[c].cfg
           m1   == First(c)
           m2   == Msg2(c, m1)
           good == ReadsMsg2(SubSeq(down[c], 1, Units.msg2), m1)
<1>1. Units.msg2 = 3 /\ m2.type \in DOMAIN Units /\ Units[m2.type] = 3 /\ m2.type = "msg2"
  BY DEF Units, Msg2
<1>2. InitiatorReadLast(c, "msg2", 3, good, m2)
  BY <1>1 DEF InitiatorReadMsg2, NoiseKey, First
<1>3. /\ ini[c].pc = "msg2" /\ Len(down[c]) >= 3 /\ InitiatorSelectsNoise(k)
      /\ rsp[c].pc \in Early \cup {"confirm", "data", "closed"}
      /\ down[c] \in {<<>>, Wire(RespMsg(c))} \/ Answered(c)
      /\ rsp[c].pc \in Early => down[c] = <<>>
      /\ rsp[c].pc = "confirm" => down[c] = Wire(RespMsg(c))
  BY <1>2 DEF InitiatorReadLast, Link, Handshake
<1>4. down[c] # <<>>
  <2>1. Len(<<>>) = 0
    BY NoneIsSeq
  <2> QED BY <1>3, <2>1
<1>5. IsSeq(Wire(m2)) /\ Len(Wire(m2)) = 3 /\ Wire(m2)[1].of = m2
  BY <1>1, WireSeq
<1>6. ASSUME down[c] = Wire(RespMsg(c))
      PROVE  ~good
  <2>1. SubSeq(down[c], 1, 3)[1].of = RespMsg(c)
    BY <1>6, Hellos, TakeSeq
  <2>2. RespMsg(c).type # "msg2"
    BY DEF RespMsg
  <2> QED BY <1>1, <2>1, <2>2 DEF ReadsMsg2
<1>7. good \in BOOLEAN
  BY DEF ReadsMsg2
<1>8. good => Answered(c) /\ rsp[c].pc # "confirm"
  BY <1>3, <1>4, <1>6
<1>9. good => rsp[c].key = m2 /\ k.known = host.secret
  BY <1>8 DEF Answered, NoiseKey
<1> HIDE DEF good, m2
<1>10. rsp[c].pc \notin Early /\ (good => rsp[c].pc \in {"data", "closed"})
  BY <1>3, <1>4, <1>8 DEF Early
<1> QED BY <1>2, <1>3, <1>4, <1>7, <1>8, <1>9, <1>10, LastLink DEF Early

LEMMA ClosesLink ==
  ASSUME LinkShape, NEW c \in Conn, Link(c), CallerCloses(c), ini[c].pc # "idle"
  PROVE  Link(c)'
<1>1. /\ ini'[c].pc = "closed" /\ ini'[c].cfg = ini[c].cfg /\ ini'[c].tr = ini[c].tr
      /\ DOMAIN ini'[c] = DOMAIN ini[c] /\ UNCHANGED <<scene, rsp, up, down, delivered>>
  BY DEF CallerCloses, InitiatorLeft, LinkShape, ShapeOf
<1>2. First(c)' = First(c) /\ Confirm(c)' = Confirm(c) /\ Hello(c)' = Hello(c)
  BY <1>1 DEF First, Confirm, Hello
<1> QED BY <1>1, <1>2 DEF Link, ShapeOf, Handshake, Bound, CallerPcs, TaskPcs, Early

\* Frames of a session: the handshake is over on both sides.
LEMMA SendLink ==
  ASSUME LinkShape, NEW c \in Conn, Link(c), NEW u, Write(c, <<u>>), ini[c].pc = "up",
         ini'[c].pc = "up", ini'[c].cfg = ini[c].cfg, ini'[c].key = ini[c].key,
         DOMAIN ini'[c] = DOMAIN ini[c], UNCHANGED <<scene, rsp, down, delivered>>
  PROVE  Link(c)'
<1>1. IsSeq(up'[c]) /\ (rsp[c].pc = "closed" => up'[c] = up[c])
  BY OneIsSeq, Written
<1>2. rsp'[c] = rsp[c] /\ down'[c] = down[c] /\ delivered'[c] = delivered[c] /\ scene' = scene
  OBVIOUS
<1>3. ShapeOf(c)'
  BY <1>1, <1>2 DEF Link, ShapeOf
<1>4. Bound(c)'
  BY <1>2 DEF Link, Bound, host
<1>5. Handshake(c)'
  BY <1>1, <1>2 DEF Link, Handshake, CallerPcs, TaskPcs, Early
<1> QED BY <1>3, <1>4, <1>5 DEF Link

\* A task that ends leaves its streams as the caller saw them.
LEMMA ClosedLink ==
  ASSUME LinkShape, NEW c \in Conn, Link(c), rsp[c].pc # "idle", NEW why,
         rsp'[c] = Closed(rsp[c], why), up'[c] = <<>>, down'[c] = down[c],
         ini' = ini, scene' = scene, IsSeq(delivered'[c])
  PROVE  Link(c)'
<1>1. rsp'[c].pc = "closed" /\ rsp'[c].key = rsp[c].key /\ DOMAIN rsp'[c] = DOMAIN rsp[c]
  BY DEF Closed, LinkShape, ShapeOf
<1>2. ShapeOf(c)'
  BY <1>1, NoneIsSeq DEF Link, ShapeOf
<1>3. Bound(c)'
  BY <1>1 DEF Link, Bound, host
<1>4. (Finished(c) => Finished(c)') /\ (Answered(c) => Answered(c)')
  BY <1>1 DEF Finished, Answered, First, host
<1>5. Handshake(c)'
  BY <1>1, <1>4 DEF Link, Handshake, CallerPcs, TaskPcs, Early
<1> QED BY <1>2, <1>3, <1>5 DEF Link

LEMMA TakenOff ==
  ASSUME LinkShape, NEW c \in Conn, NEW n \in Nat, n <= Len(up[c]), Take(c, n)
  PROVE  /\ rsp'[c].pc = "closed" => up'[c] = <<>>
         /\ rsp'[c].pc # "closed" => up'[c] = SubSeq(up[c], n + 1, Len(up[c]))
         /\ IsSeq(up'[c])
<1>1. /\ rsp'[c].pc = "closed" => up'[c] = <<>>
      /\ rsp'[c].pc # "closed" => up'[c] = SubSeq(up[c], n + 1, Len(up[c]))
  BY DEF Take, LinkShape, ShapeOf
<1>2. IsSeq(SubSeq(up[c], n + 1, Len(up[c])))
  <2>1. IsSeq(up[c])
    BY DEF LinkShape, ShapeOf
  <2> QED BY <2>1, DropSeq
<1>3. IsSeq(<<>>)
  BY NoneIsSeq
<1> QED BY <1>1, <1>2, <1>3

LEMMA TaskStartLink ==
  ASSUME LinkShape, NEW c \in Conn, Link(c), ResponderStart(c)
  PROVE  Link(c)'
<1>1. /\ rsp[c].pc = "start" /\ UNCHANGED <<scene, ini, down, delivered>> /\ Take(c, 0)
  BY DEF ResponderStart, ResponderLeft, KeepsData
<1>2. 0 <= Len(up[c]) /\ IsSeq(up[c]) /\ SubSeq(up[c], 1, Len(up[c])) = up[c]
  BY SeqFacts, DropSeq DEF LinkShape, ShapeOf
<1>3. CASE rsp'[c] = Closed(rsp[c], "config")
  <2>1. rsp'[c].pc = "closed"
    BY <1>3 DEF Closed, LinkShape, ShapeOf
  <2> QED BY <1>1, <1>2, <1>3, <2>1, TakenOff, ClosedLink DEF LinkShape, ShapeOf
<1>4. CASE rsp'[c] = [rsp[c] EXCEPT !.pc = "msg1"] \/ rsp'[c] = [rsp[c] EXCEPT !.pc = "init"]
  <2>1. rsp'[c].pc \in {"msg1", "init"} /\ rsp'[c].key = rsp[c].key /\ DOMAIN rsp'[c] = DOMAIN rsp[c]
    BY <1>4 DEF LinkShape, ShapeOf
  <2>2. up'[c] = up[c]
    <3>1. rsp'[c].pc # "closed" /\ 0 \in Nat /\ 0 + 1 = 1
      BY <2>1
    <3>2. up'[c] = SubSeq(up[c], 0 + 1, Len(up[c]))
      BY <1>1, <1>2, <3>1, TakenOff
    <3> QED BY <1>2, <3>1, <3>2
  <2>3. ShapeOf(c)'
    BY <1>1, <1>2, <2>1, <2>2 DEF Link, ShapeOf
  <2>4. Bound(c)'
    BY <1>1, <2>1 DEF Link, Bound, host
  <2>5. First(c)' = First(c) /\ Hello(c)' = Hello(c)
    BY <1>1 DEF First, Hello
  <2>6. Answered(c) => Answered(c)'
    BY <1>1, <2>1, <2>5 DEF Answered, host
  <2>7. Handshake(c)'
    BY <1>1, <2>1, <2>2, <2>5, <2>6 DEF Link, Handshake, CallerPcs, TaskPcs, Early
  <2> QED BY <2>3, <2>4, <2>7 DEF Link
<1> QED BY <1>3, <1>4 DEF ResponderStart, LinkShape, ShapeOf

LEMMA GivesUpLink ==
  ASSUME LinkShape, NEW c \in Conn, Link(c), ResponderGivesUp(c)
  PROVE  Link(c)'
<1>1. /\ rsp[c].pc # "idle" /\ UNCHANGED <<scene, ini, down, delivered>> /\ Take(c, 0)
      /\ rsp'[c] = Closed(rsp[c], "read")
  BY DEF ResponderGivesUp, Awaits, ResponderLeft, KeepsData, LinkShape, ShapeOf
<1>2. rsp'[c].pc = "closed" /\ 0 <= Len(up[c])
  BY <1>1, SeqFacts DEF Closed, LinkShape, ShapeOf
<1> QED BY <1>1, <1>2, TakenOff, ClosedLink DEF LinkShape, ShapeOf

LEMMA ReadInitLink ==
  ASSUME LinkShape, NEW c \in Conn, Link(c), ResponderReadInit(c)
  PROVE  Link(c)'
<1>1. /\ rsp[c].pc = "init" /\ UNCHANGED <<scene, ini, delivered>> /\ Take(c, 3) /\ Len(up[c]) >= 3
      /\ up[c] \in {<<>>, Hello(c), Wire(First(c))} /\ down[c] = <<>> /\ ini[c].pc # "finish"
      /\ ini[c].pc \notin {"idle", "start", "up"}
      /\ ini[c].pc = "resp" => up[c] = Hello(c)
      /\ ini[c].pc = "msg2" => up[c] = Wire(First(c))
  <2>1. Units.init = 3
    BY Hellos
  <2>2. /\ rsp[c].pc = "init" /\ UNCHANGED <<scene, ini, delivered>> /\ Take(c, 3) /\ Len(up[c]) >= 3
    BY <2>1 DEF ResponderReadInit, ResponderLeft, KeepsData
  <2>3. up[c] # <<>>
    <3>1. Len(<<>>) = 0
      BY NoneIsSeq
    <3> QED BY <2>2, <3>1
  <2> QED BY <2>2, <2>3 DEF Link, Handshake, Early
<1>2. CASE rsp'[c] = Closed(rsp[c], "write") /\ down' = down
  <2>1. rsp'[c].pc = "closed"
    BY <1>2 DEF Closed, LinkShape, ShapeOf
  <2> QED BY <1>1, <1>2, <2>1, TakenOff, ClosedLink DEF LinkShape, ShapeOf
<1>3. CASE \E x : rsp'[c] = [rsp[c] EXCEPT !.pc = "confirm", !.init = x] /\ down'[c] = down[c] \o Wire(RespMsg(c))
  <2>1. rsp'[c].pc = "confirm" /\ rsp'[c].key = rsp[c].key /\ DOMAIN rsp'[c] = DOMAIN rsp[c]
    BY <1>3 DEF LinkShape, ShapeOf
  <2>2. up'[c] = SubSeq(up[c], 4, Len(up[c])) /\ IsSeq(up'[c])
    <3>1. rsp'[c].pc # "closed" /\ 3 \in Nat /\ 3 + 1 = 4 /\ 3 <= Len(up[c])
      BY <1>1, <2>1, SeqFacts DEF LinkShape, ShapeOf
    <3>2. up'[c] = SubSeq(up[c], 3 + 1, Len(up[c])) /\ IsSeq(up'[c])
      BY <1>1, <3>1, TakenOff
    <3> QED BY <3>1, <3>2
  <2>3. down'[c] = Wire(RespMsg(c)) /\ IsSeq(down'[c])
    BY <1>1, <1>3, NoneIsSeq, Hellos, CatSeq
  <2>4. up[c] = Hello(c) => up'[c] = <<>>
    <3>1. SubSeq(Wire(InitMsg(c)), 4, 3) = <<>>
      BY SubSeqEmpty
    <3> QED BY <2>2, <3>1, Hellos DEF Hello
  <2>5. up[c] = Wire(First(c)) => up'[c] = SubSeq(Wire(First(c)), 4, 6)
    <3>1. First(c).type \in DOMAIN Units /\ Units[First(c).type] = 6
      BY DEF First, Msg1, Units
    <3>2. Len(Wire(First(c))) = 6
      BY <3>1, WireSeq
    <3> QED BY <2>2, <3>2
  <2>6. up[c] # <<>>
    <3>1. Len(<<>>) = 0
      BY NoneIsSeq
    <3> QED BY <1>1, <3>1
  <2>7. ShapeOf(c)'
    BY <1>1, <2>1, <2>2, <2>3 DEF Link, ShapeOf
  <2>8. Bound(c)'
    BY <1>1, <2>1 DEF Link, Bound, host
  <2>9. First(c)' = First(c) /\ Hello(c)' = Hello(c)
    BY <1>1 DEF First, Hello
  <2>10. Handshake(c)'
    BY <1>1, <2>1, <2>3, <2>4, <2>5, <2>6, <2>9 DEF Link, Handshake, CallerPcs, TaskPcs, Early
  <2> QED BY <2>7, <2>8, <2>10 DEF Link
<1> QED BY <1>2, <1>3 DEF ResponderReadInit, LinkShape, ShapeOf

\* What a task does to a connection that reads the last message of its caller: it
\* is unidentified, or the last message of the task goes out, or is not written.
LEMMA UnidentifiedLink ==
  ASSUME LinkShape, NEW c \in Conn, Link(c), rsp[c].pc # "idle", Unidentified(c),
         NEW n \in Nat, n <= Len(up[c]), Take(c, n), ini' = ini, scene' = scene, delivered' = delivered
  PROVE  Link(c)' /\ (rsp'[c].pc = "data" => up'[c] = <<>>)
<1>1. rsp'[c] = Closed(rsp[c], "unidentified") /\ rsp'[c].pc = "closed" /\ down' = down
  BY DEF Unidentified, Closed, LinkShape, ShapeOf
<1> QED BY <1>1, TakenOff, ClosedLink DEF LinkShape, ShapeOf

\* A task that has read its last handshake message and sends its own.
LEMMA EstablishedLink ==
  ASSUME LinkShape, NEW c \in Conn, Link(c), rsp[c].pc \in {"confirm", "msg1"},
         NEW peer, NEW key, NEW msg, Established(c, peer, key, msg),
         IsSeq(Wire(msg)), down[c] = <<>> \/ ini[c].pc = "closed",
         ini[c].pc \notin {"idle", "start", "resp"},
         ini[c].pc = "finish" => \E psk : msg = FinishMac(psk, key, Binding(host, host.id, host.kem)),
         ini[c].pc = "msg2" => msg = Msg2(c, First(c)) /\ key = NoiseKey(Msg2(c, First(c)))
                               /\ ini[c].cfg.known = host.secret,
         Take(c, Len(up[c])), ini' = ini, scene' = scene, delivered' = delivered
  PROVE  Link(c)' /\ (rsp'[c].pc = "data" => up'[c] = <<>>)
<1>1. IsSeq(up[c]) /\ Len(up[c]) \in Nat /\ Len(up[c]) <= Len(up[c])
  BY SeqFacts DEF LinkShape, ShapeOf
<1>2. CASE rsp'[c] = Closed(rsp[c], "write") /\ down' = down
  <2>1. rsp'[c].pc = "closed"
    BY <1>2 DEF Closed, LinkShape, ShapeOf
  <2> QED BY <1>1, <1>2, <2>1, TakenOff, ClosedLink DEF LinkShape, ShapeOf
<1>3. CASE /\ rsp'[c] = [rsp[c] EXCEPT !.pc = "data", !.key = key, !.peer = peer, !.local = NewBucket(host.burst, now)]
           /\ down'[c] = down[c] \o Wire(msg)
  <2>1. rsp'[c].pc = "data" /\ rsp'[c].key = key /\ DOMAIN rsp'[c] = DOMAIN rsp[c]
    BY <1>3 DEF LinkShape, ShapeOf
  <2>2. up'[c] = <<>>
    <3>1. SubSeq(up[c], Len(up[c]) + 1, Len(up[c])) = <<>>
      BY <1>1, DropSeq
    <3> QED BY <1>1, <2>1, <3>1, TakenOff
  <2>3. IsSeq(down'[c]) /\ (down[c] = <<>> => down'[c] = Wire(msg))
    BY <1>3, CatSeq, NoneIsSeq DEF LinkShape, ShapeOf
  <2>4. ShapeOf(c)'
    BY <2>1, <2>2, <2>3, NoneIsSeq DEF Link, ShapeOf
  <2>5. ini[c].pc # "up"
    BY DEF Link, Handshake
  <2>6. Bound(c)'
    BY <2>5 DEF Bound
  <2>7. ini[c].pc = "finish" => Finished(c)'
    BY <2>1, <2>3 DEF Finished, host
  <2>8. ini[c].pc = "msg2" => Answered(c)'
    BY <2>1, <2>3 DEF Answered, First, host
  <2>9. Handshake(c)'
    BY <2>1, <2>2, <2>5, <2>7, <2>8 DEF Link, Handshake, CallerPcs, TaskPcs, Early
  <2> QED BY <2>2, <2>4, <2>6, <2>9 DEF Link
<1> QED BY <1>2, <1>3 DEF Established, LinkShape, ShapeOf

LEMMA ReadConfirmLink ==
  ASSUME LinkShape, NEW c \in Conn, Link(c), ResponderReadConfirm(c)
  PROVE  Link(c)' /\ (rsp'[c].pc = "data" => up'[c] = <<>>)
<1> DEFINE tr == Transcript(rsp[c].init, Wire(RespMsg(c)))
           ms == LegacyMatches(host, SubSeq(up[c], 1, 2), tr)
           b  == Binding(host, host.id, host.kem)
<1>1. Units.confirm = 2
  BY DEF Units
<1>2. /\ rsp[c].pc = "confirm" /\ Len(up[c]) >= 2 /\ Take(c, 2)
      /\ ini' = ini /\ scene' = scene /\ delivered' = delivered
      /\ \/ Unidentified(c)
         \/ \E m \in ms : Established(c, m.peer, tr, FinishMac(m.psk, tr, b))
  BY <1>1 DEF ResponderReadConfirm, ResponderLeft, KeepsData, SessionKey
<1>3. CASE Unidentified(c)
  BY <1>2, <1>3, UnidentifiedLink, SeqFacts DEF LinkShape, ShapeOf
<1>4. ASSUME NEW m \in ms, Established(c, m.peer, tr, FinishMac(m.psk, tr, b))
      PROVE  Link(c)' /\ (rsp'[c].pc = "data" => up'[c] = <<>>)
  <2>1. PICK psk : SubSeq(up[c], 1, 2) = Wire(ConfirmMac(psk, tr, b))
    BY <1>4 DEF LegacyMatches, VerifyMac
  <2>2. ConfirmMac(psk, tr, b).type \in DOMAIN Units /\ Units[ConfirmMac(psk, tr, b).type] = 2
    BY DEF ConfirmMac, Mac, Units
  <2>3. up[c][1].at = 1
    <3>1. Wire(ConfirmMac(psk, tr, b))[1] = [of |-> ConfirmMac(psk, tr, b), at |-> 1]
      BY <2>2, WireSeq
    <3>2. SubSeq(up[c], 1, 2)[1] = up[c][1]
      BY <1>2, TakeSeq, SeqFacts DEF LinkShape, ShapeOf
    <3> QED BY <2>1, <3>1, <3>2
  <2>4. up[c] # <<>>
    <3>1. Len(<<>>) = 0
      BY NoneIsSeq
    <3> QED BY <1>2, <3>1
  <2>5. up[c] # SubSeq(Wire(First(c)), 4, 6)
    <3>1. First(c).type \in DOMAIN Units /\ Units[First(c).type] = 6
      BY DEF First, Msg1, Units
    <3>2. IsSeq(Wire(First(c))) /\ Len(Wire(First(c))) = 6
      BY <3>1, WireSeq
    <3>4. \A i \in 1 .. 6 : Wire(First(c))[i] = [of |-> First(c), at |-> i]
      BY <3>1, <3>2, WireSeq
    <3>5. Wire(First(c))[4].at = 4
      BY <3>4
    <3>3. SubSeq(Wire(First(c)), 4, 6)[1] = Wire(First(c))[4]
      <4>1. SubSeq(Wire(First(c)), 3 + 1, Len(Wire(First(c))))[1] = Wire(First(c))[3 + 1]
        BY <3>2, DropSeq
      <4> QED BY <3>2, <4>1
    <3> QED BY <2>3, <3>5, <3>3
  <2>6. /\ up[c] = Wire(Confirm(c)) /\ ini[c].pc \in {"finish", "closed"}
        /\ ini[c].pc = "finish" => down[c] = <<>>
    BY <1>2, <2>4, <2>5 DEF Link, Handshake, CallerPcs
  <2>7. Len(up[c]) = 2
    <3>1. Confirm(c).type \in DOMAIN Units /\ Units[Confirm(c).type] = 2
      BY DEF Confirm, ConfirmMac, Mac, Units
    <3> QED BY <2>6, <3>1, WireSeq
  <2>8. IsSeq(Wire(FinishMac(m.psk, tr, b)))
    <3>1. FinishMac(m.psk, tr, b).type \in DOMAIN Units
      BY DEF FinishMac, Mac, Units
    <3> QED BY <3>1, WireSeq
  <2> DEFINE msg == FinishMac(m.psk, tr, b)
  <2>9. \E x : msg = FinishMac(x, tr, b)
    OBVIOUS
  <2> HIDE DEF msg, tr, ms
  <2> QED BY <1>2, <1>4, <2>6, <2>7, <2>8, <2>9, EstablishedLink DEF msg
<1> QED BY <1>2, <1>3, <1>4

LEMMA ReadMsg1Link ==
  ASSUME LinkShape, NEW c \in Conn, Link(c), ResponderReadMsg1(c)
  PROVE  Link(c)' /\ (rsp'[c].pc = "data" => up'[c] = <<>>)
<1> DEFINE m1 == First(c)
           m2 == Msg2(c, m1)
<1>1. Units.msg1 = 6 /\ m1.type \in DOMAIN Units /\ Units[m1.type] = 6
  BY DEF Units, First, Msg1
<1>2. IsSeq(Wire(m1)) /\ Len(Wire(m1)) = 6 /\ Wire(m1)[1].of = m1
  BY <1>1, WireSeq
<1>3. /\ rsp[c].pc = "msg1" /\ Len(up[c]) >= 6 /\ Take(c, 6)
      /\ ini' = ini /\ scene' = scene /\ delivered' = delivered
  BY <1>1 DEF ResponderReadMsg1, ResponderLeft, KeepsData
<1>4. up[c] # <<>> /\ up[c] # Hello(c)
  <2>1. Len(<<>>) = 0
    BY NoneIsSeq
  <2>2. Len(Hello(c)) = 3
    BY Hellos DEF Hello
  <2>3. up[c] # <<>>
    BY <1>3, <2>1
  <2>4. up[c] # Hello(c)
    <3>1. SUFFICES ASSUME up[c] = Hello(c)
                   PROVE  FALSE
      OBVIOUS
    <3>2. Len(up[c]) = 3
      BY <2>2, <3>1
    <3>3. 3 >= 6
      BY <1>3, <3>2
    <3> QED BY <3>3
  <2> QED BY <2>3, <2>4
<1>5. /\ up[c] = Wire(m1) /\ down[c] = <<>> /\ ini[c].pc \in {"msg2", "closed"}
  BY <1>3, <1>4 DEF Link, Handshake, CallerPcs, Early
<1>6. up[c][1].of = m1 /\ Len(up[c]) = 6
  BY <1>2, <1>5
<1>7. \/ Unidentified(c)
      \/ \E p : Established(c, p, NoiseKey(m2), m2) /\ m1.to = host.secret
  <2>1. ReadsMsg1(SubSeq(up[c], 1, 6), host.secret) => m1.to = host.secret
    <3>1. SubSeq(up[c], 1, 6)[1] = up[c][1]
      BY <1>2, <1>5, TakeSeq
    <3> QED BY <1>6, <3>1 DEF ReadsMsg1
  <2> QED BY <1>1, <1>6, <2>1 DEF ResponderReadMsg1
<1>8. CASE Unidentified(c)
  BY <1>3, <1>8, UnidentifiedLink, SeqFacts DEF LinkShape, ShapeOf
<1>9. ASSUME NEW p, Established(c, p, NoiseKey(m2), m2), m1.to = host.secret
      PROVE  Link(c)' /\ (rsp'[c].pc = "data" => up'[c] = <<>>)
  <2>1. m1.to = ini[c].cfg.known
    BY DEF First, Msg1
  <2>2. IsSeq(Wire(m2))
    <3>1. m2.type \in DOMAIN Units
      BY DEF Msg2, Units
    <3> QED BY <3>1, WireSeq
  <2>3. ini[c].pc = "msg2" => m2 = Msg2(c, First(c)) /\ NoiseKey(m2) = NoiseKey(Msg2(c, First(c)))
                               /\ ini[c].cfg.known = host.secret
    BY <1>9, <2>1
  <2> HIDE DEF m1, m2
  <2> QED BY <1>3, <1>5, <1>6, <1>9, <2>2, <2>3, EstablishedLink
<1> QED BY <1>7, <1>8, <1>9

\* What a turn of the read loop leaves of the task.
LEMMA FrameTask ==
  ASSUME LinkShape, NEW c \in Conn, ReadFrame(c)
  PROVE  /\ rsp[c].pc = "data" /\ rsp'[c].pc \in {"data", "closed"} /\ rsp'[c].key = rsp[c].key
         /\ DOMAIN rsp'[c] = DOMAIN rsp[c] /\ up[c] # <<>> /\ IsSeq(delivered'[c])
         /\ ini' = ini /\ down' = down /\ scene' = scene /\ Take(c, 1) /\ 1 <= Len(up[c])
<1> DEFINE task == rsp[c]
           v    == AllowFrame(task.local, global, now)
           kept == [task EXCEPT !.local = v.local]
           cell == Head(up[c]).cell
           asm  == Pushed(task.asm, cell)
<1>1. /\ rsp[c].pc = "data" /\ up[c] # <<>> /\ ini' = ini /\ down' = down /\ scene' = scene /\ Take(c, 1)
  BY DEF ReadFrame, ResponderLeft
<1>2. 1 <= Len(up[c])
  BY <1>1, SeqFacts DEF LinkShape, ShapeOf
<1>3. kept.pc = "data" /\ kept.key = task.key /\ DOMAIN kept = DOMAIN task
  BY <1>1 DEF LinkShape, ShapeOf
<1>4. IsSeq(delivered'[c])
  <2>1. delivered' = delivered \/ \E p : delivered' = [delivered EXCEPT ![c] = Append(@, p)]
    BY DEF ReadFrame
  <2>2. CASE delivered' = delivered
    BY <2>2 DEF LinkShape, ShapeOf
  <2>3. ASSUME NEW p, delivered' = [delivered EXCEPT ![c] = Append(@, p)]
        PROVE  IsSeq(delivered'[c])
    <3>1. delivered'[c] = Append(delivered[c], p)
      BY <2>3 DEF LinkShape
    <3>2. PICK S : delivered[c] \in Seq(S)
      BY DEF LinkShape, ShapeOf, IsSeq
    <3>3. delivered[c] \in Seq(S \cup {p})
      BY <3>2, SeqMonotonic
    <3>4. Append(delivered[c], p) \in Seq(S \cup {p})
      BY <3>3, AppendProperties
    <3> QED BY <3>1, <3>4 DEF IsSeq
  <2> QED BY <2>1, <2>2, <2>3
<1>5. \/ rsp'[c] = kept
      \/ \E why : rsp'[c] = Closed(kept, why)
      \/ \E a : rsp'[c] = [kept EXCEPT !.asm = a]
  <2>1. \/ rsp' = [rsp EXCEPT ![c] = kept]
        \/ \E why : rsp' = [rsp EXCEPT ![c] = Closed(kept, why)]
        \/ \E a : rsp' = [rsp EXCEPT ![c] = [kept EXCEPT !.asm = a]]
    BY DEF ReadFrame
  <2> HIDE DEF kept
  <2> QED BY <2>1 DEF LinkShape
<1> HIDE DEF kept
<1>6. rsp'[c].pc \in {"data", "closed"} /\ rsp'[c].key = rsp[c].key /\ DOMAIN rsp'[c] = DOMAIN rsp[c]
  BY <1>3, <1>5 DEF Closed, LinkShape, ShapeOf
<1> QED BY <1>1, <1>2, <1>4, <1>6

LEMMA FrameLink ==
  ASSUME LinkShape, NEW c \in Conn, Link(c), ReadFrame(c)
  PROVE  Link(c)'
<1>1. /\ rsp[c].pc = "data" /\ rsp'[c].pc \in {"data", "closed"} /\ rsp'[c].key = rsp[c].key
      /\ DOMAIN rsp'[c] = DOMAIN rsp[c] /\ up[c] # <<>> /\ IsSeq(delivered'[c])
      /\ ini' = ini /\ down' = down /\ scene' = scene /\ Take(c, 1) /\ 1 <= Len(up[c])
  BY FrameTask
<1>2. IsSeq(up'[c]) /\ (rsp'[c].pc = "closed" => up'[c] = <<>>)
  BY <1>1, TakenOff
<1>3. ini[c].pc \in {"up", "closed"}
  BY <1>1 DEF Link, Handshake, CallerPcs, Early
<1>4. ShapeOf(c)'
  BY <1>1, <1>2 DEF Link, ShapeOf
<1>5. Bound(c)'
  BY <1>1 DEF Link, Bound, host
<1>6. Handshake(c)'
  BY <1>1, <1>2, <1>3 DEF Link, Handshake, CallerPcs, TaskPcs, Early
<1> QED BY <1>4, <1>5, <1>6 DEF Link

LEMMA IdleNotOpen ==
  ASSUME LinkShape, NEW c \in Conn, Caller(c)
  PROVE  ini'[c].pc # "idle"
<1>1. CASE \E k \in scene.callers[c] : Connect(c, k)
  BY <1>1 DEF Connect, LinkShape, ShapeOf
<1>2. CASE InitiatorStart(c)
  BY <1>2 DEF InitiatorStart, LinkShape, ShapeOf
<1>3. CASE InitiatorReadResp(c)
  <2> DEFINE tr == Transcript(Wire(InitMsg(c)), SubSeq(down[c], 1, Units.resp))
  <2>1. ini' = [ini EXCEPT ![c].pc = "finish", ![c].tr = tr]
    BY <1>3 DEF InitiatorReadResp
  <2> QED BY <2>1 DEF LinkShape, ShapeOf
<1>4. CASE InitiatorReadFinish(c) \/ InitiatorReadMsg2(c)
  <2>1. \E good, key : ini' = [ini EXCEPT ![c].pc = IF good THEN "up" ELSE "closed",
                                          ![c].key = IF good THEN key ELSE None]
    BY <1>4 DEF InitiatorReadFinish, InitiatorReadMsg2, InitiatorReadLast
  <2> QED BY <2>1 DEF LinkShape, ShapeOf
<1>5. CASE CallerCloses(c)
  BY <1>5 DEF CallerCloses, LinkShape, ShapeOf
<1>6. CASE SendFragment(c)
  <2>1. PICK s, i, p : ini' = [ini EXCEPT ![c].sent = s, ![c].index = i, ![c].packet = p]
    BY <1>6 DEF SendFragment
  <2>2. ini[c].pc = "up"
    BY <1>6 DEF SendFragment
  <2> QED BY <2>1, <2>2 DEF LinkShape, ShapeOf
<1>7. CASE \E kind \in Control : SendControl(c, kind)
  BY <1>7 DEF SendControl, LinkShape, ShapeOf
<1> QED BY <1>1, <1>2, <1>3, <1>4, <1>5, <1>6, <1>7 DEF Caller

-----------------------------------------------------------------------------
\* Whoever is up talks to the relay it meant.

LinkInv == LinkShape /\ \A c \in Conn : Link(c)

LEMMA CallerLink ==
  ASSUME LinkInv, NEW c \in Conn, Caller(c)
  PROVE  Link(c)'
<1> USE DEF LinkInv
<1>1. CASE \E k \in scene.callers[c] : Connect(c, k)
  BY <1>1, ConnectLink
<1>2. CASE InitiatorStart(c)
  BY <1>2, StartLink
<1>3. CASE InitiatorReadResp(c)
  BY <1>3, ReadRespLink
<1>4. CASE InitiatorReadFinish(c)
  BY <1>4, ReadFinishLink
<1>5. CASE InitiatorReadMsg2(c)
  BY <1>5, ReadMsg2Link
<1>6. CASE CallerCloses(c)
  BY <1>6, ClosesLink DEF CallerCloses, LinkShape
<1>7. CASE SendFragment(c)
  <2>1. PICK s, i, p : ini' = [ini EXCEPT ![c].sent = s, ![c].index = i, ![c].packet = p]
    BY <1>7 DEF SendFragment
  <2>2. PICK u : Write(c, <<u>>)
    BY <1>7 DEF SendFragment
  <2>3. ini[c].pc = "up" /\ UNCHANGED <<scene, rsp, down, delivered>>
    BY <1>7 DEF SendFragment, InitiatorLeft
  <2>4. /\ ini'[c].pc = ini[c].pc /\ ini'[c].cfg = ini[c].cfg /\ ini'[c].key = ini[c].key
        /\ DOMAIN ini'[c] = DOMAIN ini[c]
    BY <2>1 DEF LinkShape, ShapeOf
  <2> QED BY <2>2, <2>3, <2>4, SendLink
<1>8. CASE \E kind \in Control : SendControl(c, kind)
  <2>1. PICK u : Write(c, <<u>>)
    BY <1>8 DEF SendControl
  <2>2. /\ ini[c].pc = "up" /\ UNCHANGED <<scene, rsp, down, delivered>>
        /\ ini' = [ini EXCEPT ![c].sent = @ + 1]
    BY <1>8 DEF SendControl, InitiatorLeft
  <2>3. /\ ini'[c].pc = ini[c].pc /\ ini'[c].cfg = ini[c].cfg /\ ini'[c].key = ini[c].key
        /\ DOMAIN ini'[c] = DOMAIN ini[c]
    BY <2>2 DEF LinkShape, ShapeOf
  <2> QED BY <2>1, <2>2, <2>3, SendLink
<1> QED BY <1>1, <1>2, <1>3, <1>4, <1>5, <1>6, <1>7, <1>8 DEF Caller

LEMMA ResponderLink ==
  ASSUME LinkInv, NEW c \in Conn, Responder(c)
  PROVE  Link(c)'
BY TaskStartLink, ReadInitLink, ReadConfirmLink, ReadMsg1Link, GivesUpLink, FrameLink
   DEF Responder, LinkInv

LEMMA SameLink ==
  ASSUME NEW c, Link(c), Same(c), scene' = scene
  PROVE  Link(c)'
<1>1. ShapeOf(c)'
  BY DEF Link, ShapeOf, Same
<1>2. Bound(c)'
  BY DEF Link, Bound, Same, host
<1>3. /\ First(c)' = First(c) /\ Confirm(c)' = Confirm(c) /\ Hello(c)' = Hello(c)
      /\ (Finished(c) => Finished(c)') /\ (Answered(c) => Answered(c)')
  BY DEF Same, First, Confirm, Hello, Finished, Answered, host
<1>4. Handshake(c)'
  BY <1>3 DEF Link, Handshake, Same
<1> QED BY <1>1, <1>2, <1>4 DEF Link

LEMMA PassedSeq ==
  ASSUME LinkShape, NEW c \in Conn, ReadFrame(c)
  PROVE  passed' \in [Conn -> Seq(Nat)]
<1>1. passed' = passed \/ passed' = [passed EXCEPT ![c] = Append(@, now)]
  BY DEF ReadFrame
<1>2. Append(passed[c], now) \in Seq(Nat)
  BY AppendProperties DEF LinkShape
<1> QED BY <1>1, <1>2 DEF LinkShape

LEMMA LinkInvInit == Init => LinkInv
<1> SUFFICES ASSUME Init
             PROVE  LinkInv
  OBVIOUS
<1> USE DEF Init
<1>1. ASSUME NEW c \in Conn
      PROVE  Link(c) /\ ~open[c]
  <2>1. /\ ini[c] = IdleCaller /\ rsp[c] = IdleTask /\ up[c] = <<>> /\ down[c] = <<>>
        /\ delivered[c] = <<>> /\ ~open[c]
    OBVIOUS
  <2>2. ini[c].pc = "idle" /\ rsp[c].pc = "idle"
    BY <2>1 DEF IdleCaller, IdleTask
  <2>3. ShapeOf(c)
    BY <2>1, NoneIsSeq DEF ShapeOf, IdleCaller, IdleTask
  <2> QED BY <2>1, <2>2, <2>3 DEF Link, Bound, Handshake, CallerPcs, TaskPcs, Early
<1>2. passed \in [Conn -> Seq(Nat)]
  <2>1. <<>> \in Seq(Nat)
    BY EmptySeq
  <2> QED BY <2>1
<1>3. LinkShape
  BY <1>1, <1>2 DEF LinkShape, Link
<1> QED BY <1>1, <1>3 DEF LinkInv

LEMMA LinkInvNext == LinkInv /\ [Next]_vars => LinkInv'
<1> SUFFICES ASSUME LinkInv, [Next]_vars
             PROVE  LinkInv'
  OBVIOUS
<1>0. LinkShape /\ \A c \in Conn : Link(c)
  BY DEF LinkInv
<1>1. ASSUME NEW c \in Conn, Caller(c)
      PROVE  LinkInv'
  <2>1. Link(c)'
    BY <1>1, CallerLink
  <2>2. /\ scene' = scene /\ now' = now /\ DOMAIN ini' = Conn /\ DOMAIN rsp' = Conn
        /\ DOMAIN up' = Conn /\ DOMAIN down' = Conn /\ DOMAIN open' = Conn
        /\ passed' = passed /\ delivered' = delivered /\ \A d \in Conn \ {c} : Same(d)
    BY <1>0, <1>1, CallerFrame
  <2>3. ini'[c].pc # "idle"
    BY <1>0, <1>1, IdleNotOpen
  <2>4. \A d \in Conn : Link(d)'
    BY <1>0, <2>1, <2>2, SameLink
  <2>5. \A d \in Conn : ini'[d].pc = "idle" => ~open'[d]
    BY <1>0, <2>2, <2>3 DEF Same, LinkShape
  <2> QED BY <1>0, <2>2, <2>4, <2>5 DEF LinkInv, LinkShape, Link
<1>2. ASSUME NEW c \in Conn, Responder(c)
      PROVE  LinkInv'
  <2>1. Link(c)'
    BY <1>2, ResponderLink
  <2>2. /\ scene' = scene /\ now' = now /\ ini' = ini /\ open' = open /\ DOMAIN rsp' = Conn
        /\ DOMAIN up' = Conn /\ DOMAIN down' = Conn /\ DOMAIN delivered' = Conn
        /\ rsp[c].pc # "data" => passed' = passed
        /\ \A d \in Conn \ {c} : Same(d)
    BY <1>0, <1>2, ResponderFrame
  <2>3. passed' \in [Conn -> Seq(Nat)]
    <3>1. CASE ReadFrame(c)
      BY <1>0, <3>1, PassedSeq
    <3>2. CASE ~ReadFrame(c)
      BY <1>0, <1>2, <3>2 DEF Responder, LinkShape, ResponderStart, ResponderReadInit, ResponderReadConfirm,
           ResponderReadMsg1, ResponderGivesUp, KeepsData
    <3> QED BY <3>1, <3>2
  <2>4. \A d \in Conn : Link(d)'
    BY <1>0, <2>1, <2>2, SameLink
  <2> QED BY <1>0, <2>2, <2>3, <2>4 DEF LinkInv, LinkShape, Link
<1>3. CASE Tick \/ UNCHANGED vars
  <2>1. now' \in Nat /\ UNCHANGED <<scene, ini, rsp, up, down, open, passed, delivered>>
    BY <1>0, <1>3 DEF Tick, vars, LinkShape
  <2>2. \A d \in Conn : Link(d)'
    BY <1>0, <2>1, SameLink DEF Same
  <2> QED BY <1>0, <2>1, <2>2 DEF LinkInv, LinkShape, Link
<1> QED BY <1>1, <1>2, <1>3 DEF Next

\* A caller that believes its session is up talks to the relay it meant and both
\* ends have the same key, for every set of hosts and callers, with any number of
\* connections at once and whatever the other side reads as a message of the other
\* handshake (run_initiator_handshake, run_responder_handshake).
THEOREM CallersBoundToPeer == Spec => []BoundToPeer
<1>1. LinkInv => BoundToPeer
  BY DEF LinkInv, Link, Bound, BoundToPeer
<1> QED BY <1>1, LinkInvInit, LinkInvNext, PTL DEF Spec

-----------------------------------------------------------------------------
\* Only whole packets reach the hub.

LEMMA NewAsmOK == AsmOK(NewAssembly) /\ NewAssembly.id = None
<1>1. 0 \in 0 .. Fragments - 1
  BY HopLinkAssumption
<1> QED BY <1>1 DEF AsmOK, NewAssembly

\* A step that adds no frame and takes none.
LEMMA QuietPackets ==
  ASSUME NEW c, Packets(c), delivered'[c] = delivered[c], rsp'[c].asm = rsp[c].asm,
         ini'[c].packet = ini[c].packet, ini'[c].index = ini[c].index,
         rsp'[c].pc \in {"idle", "confirm"} \cup Early => rsp[c].pc \in {"idle", "confirm"} \cup Early,
         rsp'[c].pc = "data" => \/ rsp[c].pc = "data" /\ up'[c] = up[c]
                                \/ rsp[c].pc \in {"confirm"} \cup Early /\ up'[c] = <<>>
  PROVE  Packets(c)'
<1>0. /\ ini'[c].packet \in Nat /\ ini'[c].index \in 0 .. Fragments - 1
      /\ \A n \in 1 .. Len(delivered'[c]) :
           /\ delivered'[c][n][0] \in Nat
           /\ delivered'[c][n] = [i \in 0 .. Fragments - 1 |-> delivered'[c][n][0]]
      /\ \A m, n \in 1 .. Len(delivered'[c]) : m < n => delivered'[c][m][0] < delivered'[c][n][0]
      /\ rsp[c].pc \in {"idle", "confirm"} \cup Early => delivered[c] = <<>> /\ rsp[c].asm = NewAssembly
  BY DEF Packets
<1>1. CASE rsp'[c].pc # "data"
  BY <1>0, <1>1 DEF Packets
<1>2. CASE rsp'[c].pc = "data" /\ rsp[c].pc = "data" /\ up'[c] = up[c]
  <2>1. InOrder(c)'
    BY <1>2 DEF Packets, InOrder, Between
  <2>2. \A n \in 1 .. Len(delivered[c]) : Above(c, delivered[c][n][0])'
    BY <1>2 DEF Packets, Above
  <2>3. AsmOK(rsp'[c].asm)
    BY <1>2 DEF Packets
  <2> QED BY <1>0, <1>2, <2>1, <2>2, <2>3 DEF Packets, Early
<1>3. CASE rsp'[c].pc = "data" /\ rsp[c].pc \in {"confirm"} \cup Early /\ up'[c] = <<>>
  <2>1. delivered[c] = <<>> /\ rsp[c].asm = NewAssembly
    BY <1>3 DEF Packets
  <2>2. Len(<<>>) = 0
    BY NoneIsSeq
  <2>3. InOrder(c)'
    BY <1>3, <2>1, <2>2, NewAsmOK DEF InOrder, Between
  <2> QED BY <1>3, <2>1, <2>2, <2>3, NewAsmOK DEF Packets, Early
<1> QED BY <1>1, <1>2, <1>3

\* A frame is written to a task that reads it.
LEMMA SentControl ==
  ASSUME LinkShape, NEW c \in Conn, Packets(c), NEW u, ~Frag(u), Write(c, <<u>>),
         rsp' = rsp, delivered' = delivered, ini'[c].packet = ini[c].packet,
         ini'[c].index = ini[c].index
  PROVE  Packets(c)'
<1>1. CASE rsp[c].pc # "data"
  BY <1>1, QuietPackets
<1>2. CASE rsp[c].pc = "data"
  <2>1. IsSeq(up[c]) /\ IsSeq(<<u>>) /\ Len(<<u>>) = 1 /\ <<u>>[1] = u
    BY OneIsSeq DEF LinkShape, ShapeOf
  <2>2. up'[c] = up[c] \o <<u>> /\ Len(up[c]) \in Nat
    BY <1>2, <2>1, Written, SeqFacts
  <2>3. /\ Len(up'[c]) = Len(up[c]) + 1 /\ up'[c][Len(up[c]) + 1] = u
        /\ \A n \in 1 .. Len(up[c]) : up'[c][n] = up[c][n]
    BY <2>1, <2>2, CatSeq
  <2>4. \A n \in 1 .. Len(up'[c]) : Frag(up'[c][n]) => n \in 1 .. Len(up[c]) /\ up'[c][n] = up[c][n]
    BY <2>2, <2>3
  <2>5. InOrder(c)'
    BY <1>2, <2>2, <2>3, <2>4 DEF Packets, InOrder, Between
  <2>6. \A n \in 1 .. Len(delivered[c]) : Above(c, delivered[c][n][0])'
    BY <1>2, <2>2, <2>3, <2>4 DEF Packets, Above
  <2> QED BY <1>2, <2>5, <2>6 DEF Packets, Early
<1> QED BY <1>1, <1>2

\* The next fragment is written: it is behind whatever the caller will send.
LEMMA SentFragment ==
  ASSUME LinkShape, NEW c \in Conn, Packets(c), NEW u, Write(c, <<u>>),
         Frag(u), u.cell.packet = ini[c].packet, u.cell.index = ini[c].index,
         rsp' = rsp, delivered' = delivered,
         IF ini[c].index = Fragments - 1
         THEN ini'[c].index = 0 /\ ini'[c].packet = ini[c].packet + 1
         ELSE ini'[c].index = ini[c].index + 1 /\ ini'[c].packet = ini[c].packet
  PROVE  Packets(c)'
<1> DEFINE p0 == ini[c].packet  i0 == ini[c].index  p1 == ini'[c].packet  i1 == ini'[c].index
<1>1. p0 \in Nat /\ i0 \in 0 .. Fragments - 1
  BY DEF Packets
<1>2. p1 \in Nat /\ i1 \in 0 .. Fragments - 1 /\ Behind(p0, i0, p1, i1) /\ p0 <= p1
  BY <1>1, HopLinkAssumption DEF Behind
<1>3. CASE rsp[c].pc # "data"
  BY <1>1, <1>2, <1>3 DEF Packets, Early
<1>4. CASE rsp[c].pc = "data"
  <2>1. IsSeq(up[c]) /\ IsSeq(<<u>>) /\ Len(<<u>>) = 1 /\ <<u>>[1] = u
    BY OneIsSeq DEF LinkShape, ShapeOf
  <2>2. up'[c] = up[c] \o <<u>> /\ Len(up[c]) \in Nat
    BY <1>4, <2>1, Written, SeqFacts
  <2>3. /\ Len(up'[c]) = Len(up[c]) + 1 /\ up'[c][Len(up[c]) + 1] = u
        /\ \A n \in 1 .. Len(up[c]) : up'[c][n] = up[c][n]
    BY <2>1, <2>2, CatSeq
  <2>4. \A n \in 1 .. Len(up'[c]) : (n \in 1 .. Len(up[c]) /\ up'[c][n] = up[c][n])
                                    \/ (n = Len(up[c]) + 1 /\ up'[c][n] = u)
    BY <2>2, <2>3
  <2>5. InOrder(c) /\ AsmOK(rsp[c].asm) /\ \A n \in 1 .. Len(delivered[c]) : Above(c, delivered[c][n][0])
    BY <1>4 DEF Packets
  <2>6. \A n \in 1 .. Len(up'[c]) : Frag(up'[c][n]) =>
          LET f == up'[c][n].cell
          IN  /\ f.packet \in Nat /\ f.index \in 0 .. Fragments - 1 /\ Behind(f.packet, f.index, p1, i1)
              /\ rsp[c].asm.id # None => Behind(rsp[c].asm.id, rsp[c].asm.next - 1, f.packet, f.index)
    <3> SUFFICES ASSUME NEW n \in 1 .. Len(up'[c]), Frag(up'[c][n])
                 PROVE  LET f == up'[c][n].cell
                        IN  /\ f.packet \in Nat /\ f.index \in 0 .. Fragments - 1 /\ Behind(f.packet, f.index, p1, i1)
                            /\ rsp[c].asm.id # None =>
                                 Behind(rsp[c].asm.id, rsp[c].asm.next - 1, f.packet, f.index)
      OBVIOUS
    <3>1. CASE n \in 1 .. Len(up[c]) /\ up'[c][n] = up[c][n]
      <4> DEFINE f == up[c][n].cell
      <4>1. /\ f.packet \in Nat /\ f.index \in 0 .. Fragments - 1 /\ Behind(f.packet, f.index, p0, i0)
            /\ rsp[c].asm.id # None => Behind(rsp[c].asm.id, rsp[c].asm.next - 1, f.packet, f.index)
        BY <2>5, <3>1 DEF InOrder, Between
      <4>2. Behind(f.packet, f.index, p1, i1)
        BY <1>1, <1>2, <4>1 DEF Behind
      <4> QED BY <3>1, <4>1, <4>2
    <3>2. CASE up'[c][n] = u
      <4>1. rsp[c].asm.id # None => Behind(rsp[c].asm.id, rsp[c].asm.next - 1, p0, i0)
        BY <2>5 DEF InOrder, Between
      <4> QED BY <1>1, <1>2, <3>2, <4>1
    <3> QED BY <2>4, <3>1, <3>2
  <2>7. \A m, n \in 1 .. Len(up'[c]) : (m < n /\ Frag(up'[c][m]) /\ Frag(up'[c][n])) =>
          Behind(up'[c][m].cell.packet, up'[c][m].cell.index, up'[c][n].cell.packet, up'[c][n].cell.index)
    BY <1>1, <2>2, <2>4, <2>5 DEF InOrder, Between
  <2>8. rsp[c].asm.id # None => Behind(rsp[c].asm.id, rsp[c].asm.next - 1, p1, i1)
    BY <1>1, <1>2, <2>5 DEF InOrder, Between, Behind, AsmOK
  <2>9. InOrder(c)'
    BY <2>6, <2>7, <2>8 DEF InOrder, Between
  <2>10. \A n \in 1 .. Len(delivered[c]) : delivered[c][n][0] \in Nat
    BY DEF Packets
  <2>11. \A n \in 1 .. Len(delivered[c]) : Above(c, delivered[c][n][0])'
    <3> SUFFICES ASSUME NEW n \in 1 .. Len(delivered[c])
                 PROVE  Above(c, delivered[c][n][0])'
      OBVIOUS
    <3> DEFINE p == delivered[c][n][0]
    <3>1. p \in Nat /\ Above(c, p)
      BY <2>5, <2>10
    <3> HIDE DEF p
    <3>2. p < p1
      BY <1>1, <1>2, <3>1 DEF Above
    <3>3. \A m \in 1 .. Len(up'[c]) : Frag(up'[c][m]) => p < up'[c][m].cell.packet
      BY <2>4, <3>1 DEF Above
    <3>4. delivered'[c][n][0] = p
      BY DEF p
    <3> QED BY <3>1, <3>2, <3>3, <3>4 DEF Above
  <2> QED BY <1>1, <1>2, <1>4, <2>5, <2>9, <2>11 DEF Packets, Early
<1> QED BY <1>3, <1>4

\* What a turn of the read loop does with the reassembler and the hub.
LEMMA FrameCases ==
  ASSUME LinkShape, NEW c \in Conn, ReadFrame(c)
  PROVE  LET u   == Head(up[c])
             asm == Pushed(rsp[c].asm, u.cell)
             ok  == Frag(u) /\ ~PushFails(rsp[c].asm, u.cell)
         IN  \/ rsp'[c].pc = "closed" /\ delivered' = delivered
             \/ rsp'[c].pc = "data" /\ rsp'[c].asm = rsp[c].asm /\ delivered' = delivered
             \/ ok /\ ~Complete(asm) /\ rsp'[c].pc = "data" /\ rsp'[c].asm = asm /\ delivered' = delivered
             \/ ok /\ Complete(asm) /\ rsp'[c].pc = "data" /\ rsp'[c].asm = NewAssembly
                /\ delivered'[c] = Append(delivered[c], asm.buf)
<1> DEFINE task == rsp[c]
           u    == Head(up[c])
           v    == AllowFrame(task.local, global, now)
           kept == [task EXCEPT !.local = v.local]
           asm  == Pushed(task.asm, u.cell)
           ok   == Frag(u) /\ ~PushFails(task.asm, u.cell)
<1>1. kept.pc = "data" /\ kept.asm = task.asm /\ DOMAIN kept = DOMAIN task /\ {"pc", "asm", "why"} \subseteq DOMAIN task
  BY DEF ReadFrame, LinkShape, ShapeOf
<1>2. \/ rsp'[c] = kept /\ delivered' = delivered
      \/ (\E why : rsp'[c] = Closed(kept, why)) /\ delivered' = delivered
      \/ ok /\ ~Complete(asm) /\ rsp'[c] = [kept EXCEPT !.asm = asm] /\ delivered' = delivered
      \/ ok /\ Complete(asm) /\ rsp'[c] = [kept EXCEPT !.asm = NewAssembly]
         /\ delivered'[c] = Append(delivered[c], asm.buf)
  BY DEF ReadFrame, LinkShape, ShapeOf, Frag
<1> HIDE DEF kept, asm, ok
<1>3. CASE rsp'[c] = kept /\ delivered' = delivered
  BY <1>1, <1>3
<1>4. CASE (\E why : rsp'[c] = Closed(kept, why)) /\ delivered' = delivered
  BY <1>1, <1>4 DEF Closed
<1>5. CASE ok /\ ~Complete(asm) /\ rsp'[c] = [kept EXCEPT !.asm = asm] /\ delivered' = delivered
  BY <1>1, <1>5 DEF asm, ok
<1>6. CASE ok /\ Complete(asm) /\ rsp'[c] = [kept EXCEPT !.asm = NewAssembly]
           /\ delivered'[c] = Append(delivered[c], asm.buf)
  BY <1>1, <1>6 DEF asm, ok
<1> QED BY <1>2, <1>3, <1>4, <1>5, <1>6

\* The stream without its first frame.
LEMMA Popped ==
  ASSUME LinkShape, NEW c \in Conn, up[c] # <<>>, Take(c, 1), rsp'[c].pc # "closed"
  PROVE  /\ Len(up[c]) \in Nat \ {0} /\ Len(up'[c]) = Len(up[c]) - 1 /\ Head(up[c]) = up[c][1]
         /\ \A n \in 1 .. Len(up'[c]) : n + 1 \in 1 .. Len(up[c]) /\ up'[c][n] = up[c][n + 1]
<1>1. PICK S : up[c] \in Seq(S)
  BY DEF LinkShape, ShapeOf, IsSeq
<1>2. Len(up[c]) \in Nat \ {0} /\ IsSeq(up[c])
  BY <1>1, LenProperties, EmptySeq DEF IsSeq
<1>3. Head(up[c]) = up[c][1]
  BY <1>1, HeadTailProperties
<1>4. up'[c] = SubSeq(up[c], 1 + 1, Len(up[c]))
  BY DEF Take, LinkShape
<1>5. /\ Len(up'[c]) = Len(up[c]) - 1
      /\ \A n \in 1 .. Len(up[c]) - 1 : up'[c][n] = up[c][1 + n]
  BY <1>2, <1>4, DropSeq
<1> QED BY <1>2, <1>3, <1>5

\* The rest of a stream stays in order when its first frame is taken.
LEMMA RestInOrder ==
  ASSUME NEW c, InOrder(c), ini' = ini, Len(up[c]) \in Nat \ {0},
         \A n \in 1 .. Len(up'[c]) : n + 1 \in 1 .. Len(up[c]) /\ up'[c][n] = up[c][n + 1]
  PROVE  /\ \A n \in 1 .. Len(up'[c]) : Frag(up'[c][n]) =>
              /\ Between(c, up'[c][n].cell)
              /\ Frag(up[c][1]) => Behind(up[c][1].cell.packet, up[c][1].cell.index,
                                          up'[c][n].cell.packet, up'[c][n].cell.index)
         /\ \A m, n \in 1 .. Len(up'[c]) : (m < n /\ Frag(up'[c][m]) /\ Frag(up'[c][n])) =>
              Behind(up'[c][m].cell.packet, up'[c][m].cell.index, up'[c][n].cell.packet, up'[c][n].cell.index)
<1>1. ASSUME NEW n \in 1 .. Len(up'[c]), Frag(up'[c][n])
      PROVE  /\ Between(c, up'[c][n].cell)
             /\ Frag(up[c][1]) => Behind(up[c][1].cell.packet, up[c][1].cell.index,
                                         up'[c][n].cell.packet, up'[c][n].cell.index)
  <2>1. n + 1 \in 1 .. Len(up[c]) /\ 1 \in 1 .. Len(up[c]) /\ 1 < n + 1 /\ up'[c][n] = up[c][n + 1]
    OBVIOUS
  <2> QED BY <1>1, <2>1 DEF InOrder
<1>2. ASSUME NEW m \in 1 .. Len(up'[c]), NEW n \in 1 .. Len(up'[c]), m < n, Frag(up'[c][m]), Frag(up'[c][n])
      PROVE  Behind(up'[c][m].cell.packet, up'[c][m].cell.index, up'[c][n].cell.packet, up'[c][n].cell.index)
  <2>1. /\ n + 1 \in 1 .. Len(up[c]) /\ m + 1 \in 1 .. Len(up[c])
        /\ up'[c][n] = up[c][n + 1] /\ up'[c][m] = up[c][m + 1]
    OBVIOUS
  <2>2. m + 1 < n + 1
    BY <1>2, <2>1
  <2> QED BY <1>2, <2>1, <2>2 DEF InOrder
<1> QED BY <1>1, <1>2

\* The reassembler with the next fragment of its packet.
LEMMA PushedAsm ==
  ASSUME NEW a, AsmOK(a), NEW f, f.packet \in Nat, ~PushFails(a, f)
  PROVE  /\ f.index = a.next /\ a.id \in {None, f.packet} /\ Pushed(a, f).id = f.packet
         /\ Pushed(a, f).next = a.next + 1 /\ a.next \in 0 .. Fragments - 1
         /\ ~Complete(Pushed(a, f)) => AsmOK(Pushed(a, f))
         /\ Complete(Pushed(a, f)) => /\ Pushed(a, f).buf = [i \in 0 .. Fragments - 1 |-> f.packet]
                                      /\ a.next = Fragments - 1
<1> DEFINE asm == Pushed(a, f)
<1>1. f.index = a.next /\ a.id \in {None, f.packet}
  BY DEF PushFails
<1>2. asm.buf = [a.buf EXCEPT ![a.next] = f.packet] /\ asm.next = a.next + 1 /\ asm.id = f.packet
  BY <1>1 DEF Pushed
<1> HIDE DEF asm
<1>3. DOMAIN a.buf = 0 .. Fragments - 1 /\ a.next \in 0 .. Fragments - 1 /\ Fragments \in Nat \ {0}
  BY HopLinkAssumption DEF AsmOK
<1>4. \A i \in 0 .. a.next : asm.buf[i] = f.packet
  <2> SUFFICES ASSUME NEW i \in 0 .. a.next
               PROVE  asm.buf[i] = f.packet
    OBVIOUS
  <2>1. CASE i = a.next
    BY <1>2, <1>3, <2>1
  <2>2. CASE i # a.next
    <3>1. i \in 0 .. a.next - 1 /\ i \in 0 .. Fragments - 1 /\ a.next # 0
      BY <1>3, <2>2
    <3>2. a.buf[i] = a.id /\ a.id \in Nat
      BY <3>1 DEF AsmOK
    <3>3. a.id = f.packet
      BY <1>1, <3>2, HopLinkAssumption
    <3>4. asm.buf[i] = a.buf[i]
      BY <1>2, <1>3, <2>2, <3>1
    <3> QED BY <3>2, <3>3, <3>4
  <2> QED BY <2>1, <2>2
<1>5. DOMAIN asm.buf = 0 .. Fragments - 1
  BY <1>2, <1>3
<1>6. ASSUME ~Complete(asm)
      PROVE  AsmOK(asm)
  <2>1. asm.next \in 0 .. Fragments - 1 /\ asm.next > 0 /\ asm.next - 1 = a.next
    BY <1>2, <1>3, <1>6 DEF Complete
  <2> QED BY <1>2, <1>4, <1>5, <2>1 DEF AsmOK
<1>7. ASSUME Complete(asm)
      PROVE  asm.buf = [i \in 0 .. Fragments - 1 |-> f.packet] /\ a.next = Fragments - 1
  <2>1. a.next = Fragments - 1
    BY <1>2, <1>3, <1>7 DEF Complete
  <2>2. asm.buf = [i \in DOMAIN asm.buf |-> asm.buf[i]]
    BY <1>2
  <2>3. asm.buf = [i \in 0 .. Fragments - 1 |-> asm.buf[i]]
    BY <1>5, <2>2
  <2> QED BY <1>4, <2>1, <2>3
<1> QED BY <1>1, <1>2, <1>3, <1>6, <1>7 DEF asm

LEMMA FramePackets ==
  ASSUME LinkShape, NEW c \in Conn, Packets(c), ReadFrame(c)
  PROVE  Packets(c)'
<1> DEFINE u   == Head(up[c])
           f   == u.cell
           a   == rsp[c].asm
           asm == Pushed(a, f)
           ok  == Frag(u) /\ ~PushFails(a, f)
           p(n) == delivered[c][n][0]
           q(n) == delivered'[c][n][0]
           N    == Len(delivered[c])
<1>1. /\ rsp[c].pc = "data" /\ up[c] # <<>> /\ ini' = ini /\ Take(c, 1)
  BY FrameTask
<1>2. CASE rsp'[c].pc = "closed" /\ delivered' = delivered
  BY <1>1, <1>2 DEF Packets, Early
<1>3. /\ AsmOK(a) /\ InOrder(c) /\ ini[c].packet \in Nat /\ ini[c].index \in 0 .. Fragments - 1
      /\ \A n \in 1 .. N : Above(c, p(n))
      /\ \A n \in 1 .. N : p(n) \in Nat /\ delivered[c][n] = [i \in 0 .. Fragments - 1 |-> p(n)]
      /\ \A m, n \in 1 .. N : m < n => p(m) < p(n)
  BY <1>1 DEF Packets
<1> SUFFICES ASSUME rsp'[c].pc = "data"
             PROVE  Packets(c)'
  BY <1>2, FrameCases
<1>4. /\ Len(up[c]) \in Nat \ {0} /\ u = up[c][1] /\ 1 \in 1 .. Len(up[c])
      /\ \A n \in 1 .. Len(up'[c]) : n + 1 \in 1 .. Len(up[c]) /\ up'[c][n] = up[c][n + 1]
  BY <1>1, Popped
<1>5. /\ \A n \in 1 .. Len(up'[c]) : Frag(up'[c][n]) =>
           /\ Between(c, up'[c][n].cell)
           /\ Frag(u) => Behind(f.packet, f.index, up'[c][n].cell.packet, up'[c][n].cell.index)
      /\ \A m, n \in 1 .. Len(up'[c]) : (m < n /\ Frag(up'[c][m]) /\ Frag(up'[c][n])) =>
           Behind(up'[c][m].cell.packet, up'[c][m].cell.index, up'[c][n].cell.packet, up'[c][n].cell.index)
  BY <1>1, <1>3, <1>4, RestInOrder
<1>6. \A n \in 1 .. N : \A m \in 1 .. Len(up'[c]) : Frag(up'[c][m]) => p(n) < up'[c][m].cell.packet
  BY <1>3, <1>4 DEF Above
<1>7. CASE rsp'[c].asm = a /\ delivered' = delivered
  <2>1. InOrder(c)'
    BY <1>1, <1>3, <1>5, <1>7 DEF InOrder, Between
  <2>2. \A n \in 1 .. N : Above(c, p(n))'
    BY <1>1, <1>3, <1>6, <1>7 DEF Above
  <2> QED BY <1>1, <1>3, <1>7, <2>1, <2>2 DEF Packets, Early
<1> SUFFICES ASSUME ok
             PROVE  Packets(c)'
  BY <1>7, FrameCases
<1>8. Between(c, f)
  BY <1>3, <1>4 DEF InOrder
<1>9. /\ f.packet \in Nat /\ f.index = a.next /\ a.id \in {None, f.packet} /\ asm.id = f.packet
      /\ asm.next = a.next + 1 /\ a.next \in 0 .. Fragments - 1
      /\ ~Complete(asm) => AsmOK(asm)
      /\ Complete(asm) => asm.buf = [i \in 0 .. Fragments - 1 |-> f.packet] /\ a.next = Fragments - 1
      /\ Behind(f.packet, f.index, ini[c].packet, ini[c].index)
  <2>1. f.packet \in Nat /\ Behind(f.packet, f.index, ini[c].packet, ini[c].index)
    BY <1>8 DEF Between
  <2>2. AsmOK(a) /\ ~PushFails(a, f)
    BY <1>3
  <2> HIDE DEF f, a, u
  <2> QED BY <2>1, <2>2, PushedAsm
<1>10. \A n \in 1 .. N : p(n) < f.packet
  BY <1>3, <1>4 DEF Above
<1>11. \A n \in 1 .. Len(up'[c]) : Frag(up'[c][n]) =>
           LET g == up'[c][n].cell
           IN  /\ g.packet \in Nat /\ g.index \in 0 .. Fragments - 1
               /\ Behind(g.packet, g.index, ini[c].packet, ini[c].index)
               /\ Behind(f.packet, f.index, g.packet, g.index)
  BY <1>5 DEF Between
<1>12. \/ ~Complete(asm) /\ rsp'[c].asm = asm /\ delivered' = delivered
       \/ Complete(asm) /\ rsp'[c].asm = NewAssembly /\ delivered'[c] = Append(delivered[c], asm.buf)
       \/ rsp'[c].asm = a /\ delivered' = delivered
  BY FrameCases
<1> HIDE DEF ok, asm, f, u
<1>13. CASE ~Complete(asm) /\ rsp'[c].asm = asm /\ delivered' = delivered
  <2>1. asm.id # None /\ asm.next - 1 = f.index
    BY <1>9, HopLinkAssumption
  <2>2. InOrder(c)'
    <3>1. \A n \in 1 .. Len(up'[c]) : Frag(up'[c][n]) =>
             Behind(asm.id, asm.next - 1, up'[c][n].cell.packet, up'[c][n].cell.index)
      BY <1>9, <1>11, <2>1
    <3>2. Behind(asm.id, asm.next - 1, ini[c].packet, ini[c].index)
      BY <1>9, <2>1
    <3>3. \A n \in 1 .. Len(up'[c]) : Frag(up'[c][n]) => Between(c, up[c][n].cell)'
      BY <1>1, <1>11, <1>13, <3>1 DEF Between
    <3> QED BY <1>1, <1>5, <1>13, <3>2, <3>3 DEF InOrder
  <2>3. \A n \in 1 .. N : Above(c, p(n))'
    BY <1>1, <1>3, <1>6, <1>9, <1>10, <1>13 DEF Above
  <2> QED BY <1>1, <1>3, <1>9, <1>13, <2>2, <2>3 DEF Packets, Early
<1>14. CASE Complete(asm) /\ rsp'[c].asm = NewAssembly /\ delivered'[c] = Append(delivered[c], asm.buf)
  <2>1. asm.buf = [i \in 0 .. Fragments - 1 |-> f.packet] /\ f.index = Fragments - 1
    BY <1>9, <1>14
  <2>2. asm.buf[0] = f.packet
    BY <2>1, HopLinkAssumption
  <2>3. PICK S : delivered[c] \in Seq(S)
    BY DEF LinkShape, ShapeOf, IsSeq
  <2>4. delivered[c] \in Seq(S \cup {asm.buf})
    BY <2>3, SeqMonotonic
  <2>5. N \in Nat
    BY <2>3, LenProperties
  <2>6. /\ Len(delivered'[c]) = N + 1
        /\ \A n \in 1 .. N : delivered'[c][n] = delivered[c][n]
        /\ delivered'[c][N + 1] = asm.buf
    BY <1>14, <2>4, AppendProperties
  <2>7. \A n \in 1 .. Len(delivered'[c]) : (n \in 1 .. N /\ delivered'[c][n] = delivered[c][n] /\ q(n) = p(n))
                                           \/ (n = N + 1 /\ delivered'[c][n] = asm.buf /\ q(n) = f.packet)
    BY <2>2, <2>5, <2>6
  <2>8. \A n \in 1 .. Len(delivered'[c]) :
           q(n) \in Nat /\ delivered'[c][n] = [i \in 0 .. Fragments - 1 |-> q(n)]
    <3> SUFFICES ASSUME NEW n \in 1 .. Len(delivered'[c])
                 PROVE  q(n) \in Nat /\ delivered'[c][n] = [i \in 0 .. Fragments - 1 |-> q(n)]
      OBVIOUS
    <3> HIDE DEF p, q
    <3>1. CASE n \in 1 .. N /\ delivered'[c][n] = delivered[c][n] /\ q(n) = p(n)
      BY <1>3, <3>1
    <3>2. CASE delivered'[c][n] = asm.buf /\ q(n) = f.packet
      BY <1>9, <2>1, <3>2
    <3> QED BY <2>7, <3>1, <3>2
  <2>9. \A m, n \in 1 .. Len(delivered'[c]) : m < n => q(m) < q(n)
    <3> SUFFICES ASSUME NEW m \in 1 .. Len(delivered'[c]), NEW n \in 1 .. Len(delivered'[c]), m < n
                 PROVE  q(m) < q(n)
      OBVIOUS
    <3>1. m \in 1 .. N /\ q(m) = p(m)
      BY <2>5, <2>6, <2>7
    <3> HIDE DEF p, q
    <3> QED BY <1>3, <1>10, <2>7, <3>1
  <2>10. InOrder(c)'
    BY <1>1, <1>5, <1>11, <1>14, NewAsmOK DEF InOrder, Between
  <2>11. f.packet < ini[c].packet
    BY <1>3, <1>9, <2>1 DEF Behind
  <2>12. \A m \in 1 .. Len(up'[c]) : Frag(up'[c][m]) => f.packet < up'[c][m].cell.packet
    BY <1>9, <1>11, <2>1 DEF Behind
  <2>13. \A n \in 1 .. N : p(n) < ini[c].packet
    BY <1>3 DEF Above
  <2>14. \A n \in 1 .. Len(delivered'[c]) : Above(c, delivered[c][n][0])'
    <3> SUFFICES ASSUME NEW n \in 1 .. Len(delivered'[c])
                 PROVE  /\ q(n) < ini[c].packet
                        /\ \A m \in 1 .. Len(up'[c]) : Frag(up'[c][m]) => q(n) < up'[c][m].cell.packet
      BY <1>1, <1>14, NewAsmOK DEF Above
    <3> HIDE DEF p, q
    <3> QED BY <1>6, <2>7, <2>11, <2>12, <2>13
  <2> QED BY <1>1, <1>3, <1>14, <2>8, <2>9, <2>10, <2>14, NewAsmOK DEF Packets, Early
<1> QED BY <1>7, <1>12, <1>13, <1>14

LEMMA CallerPackets ==
  ASSUME LinkInv, NEW c \in Conn, Packets(c), Caller(c)
  PROVE  Packets(c)'
<1>1. LinkShape /\ Link(c) /\ delivered' = delivered
  BY CallerFrame DEF LinkInv
<1>2. CASE \E k \in scene.callers[c] : Connect(c, k)
  <2>1. PICK k : Connect(c, k)
    BY <1>2
  <2>2. /\ ini[c].pc = "idle" /\ ini' = [ini EXCEPT ![c].cfg = k, ![c].pc = "start"]
        /\ \E x \in {"start", "closed"} : rsp' = [rsp EXCEPT ![c].pc = x]
    BY <2>1 DEF Connect
  <2>3. rsp[c].pc = "idle"
    BY <1>1, <2>2 DEF Link, Handshake
  <2>4. rsp'[c].pc \in {"start", "closed"} /\ rsp'[c].asm = rsp[c].asm
    BY <1>1, <2>2 DEF LinkShape, ShapeOf
  <2>5. ini'[c].packet = ini[c].packet /\ ini'[c].index = ini[c].index
    BY <1>1, <2>2 DEF LinkShape, ShapeOf
  <2> QED BY <1>1, <2>3, <2>4, <2>5, QuietPackets
<1>3. CASE \/ InitiatorStart(c) \/ InitiatorReadResp(c) \/ InitiatorReadFinish(c)
           \/ InitiatorReadMsg2(c) \/ CallerCloses(c)
  <2>1. rsp' = rsp
    BY <1>3 DEF InitiatorStart, InitiatorReadResp, InitiatorReadFinish, InitiatorReadMsg2,
                InitiatorReadLast, CallerCloses, InitiatorLeft
  <2>2. ini'[c].packet = ini[c].packet /\ ini'[c].index = ini[c].index
    <3>1. CASE CallerCloses(c)
      BY <1>1, <3>1 DEF CallerCloses, LinkShape, ShapeOf
    <3>2. CASE ~CallerCloses(c)
      BY <1>1, <1>3, <3>2, CallerFrame DEF Caller, InitiatorStart, InitiatorReadResp,
         InitiatorReadFinish, InitiatorReadMsg2, InitiatorReadLast
    <3> QED BY <3>1, <3>2
  <2>3. rsp[c].pc = "data" => up'[c] = up[c]
    BY <1>1, <1>3 DEF InitiatorStart, InitiatorReadResp, InitiatorReadFinish, InitiatorReadMsg2,
                InitiatorReadLast, CallerCloses, Link, Handshake, Early
  <2> QED BY <1>1, <2>1, <2>2, <2>3, QuietPackets
<1>4. CASE SendFragment(c)
  <2> DEFINE i    == ini[c]
             u    == [key |-> i.key, cell |-> [kind |-> "fragment", packet |-> i.packet, index |-> i.index]]
             last == i.index = Fragments - 1
             ix   == IF last THEN 0 ELSE i.index + 1
             pk   == IF last THEN i.packet + 1 ELSE i.packet
             sn   == i.sent + 1
  <2>1. Write(c, <<u>>) /\ rsp' = rsp
    BY <1>4 DEF SendFragment, InitiatorLeft
  <2>2. ini' = [ini EXCEPT ![c].sent = @ + 1, ![c].index = IF last THEN 0 ELSE @ + 1,
                           ![c].packet = IF last THEN @ + 1 ELSE @]
    BY <1>4 DEF SendFragment
  <2>3. ini'[c].index = ix /\ ini'[c].packet = pk
    BY <1>1, <2>2 DEF LinkShape, ShapeOf
  <2>4. Frag(u) /\ u.cell.packet = i.packet /\ u.cell.index = i.index
    BY DEF Frag
  <2> HIDE DEF u
  <2> QED BY <1>1, <2>1, <2>3, <2>4, SentFragment
<1>5. CASE \E kind \in Control : SendControl(c, kind)
  <2>1. PICK kind \in Control : SendControl(c, kind)
    BY <1>5
  <2> DEFINE u == [key |-> ini[c].key, cell |-> [kind |-> kind]]
  <2>2. Write(c, <<u>>) /\ rsp' = rsp /\ ini' = [ini EXCEPT ![c].sent = @ + 1]
    BY <2>1 DEF SendControl, InitiatorLeft
  <2>3. ini'[c].index = ini[c].index /\ ini'[c].packet = ini[c].packet
    BY <1>1, <2>2 DEF LinkShape, ShapeOf
  <2>4. ~Frag(u)
    BY HopLinkAssumption DEF Frag
  <2> HIDE DEF u
  <2> QED BY <1>1, <2>2, <2>3, <2>4, SentControl
<1> QED BY <1>2, <1>3, <1>4, <1>5 DEF Caller

LEMMA TaskPackets ==
  ASSUME LinkInv, NEW c \in Conn, Packets(c), Responder(c)
  PROVE  Packets(c)'
<1>1. LinkShape /\ Link(c) /\ ini' = ini
  BY ResponderFrame DEF LinkInv
<1>2. CASE ReadFrame(c)
  BY <1>1, <1>2, FramePackets
<1>3. CASE ResponderStart(c) \/ ResponderReadInit(c) \/ ResponderGivesUp(c)
  <2>1. delivered' = delivered
    BY <1>3 DEF ResponderStart, ResponderReadInit, ResponderGivesUp, KeepsData
  <2>2. \/ \E why : rsp'[c] = Closed(rsp[c], why)
        \/ rsp[c].pc \in Early /\ \E pc \in {"msg1", "init"} : rsp'[c] = [rsp[c] EXCEPT !.pc = pc]
        \/ rsp[c].pc \in Early /\ \E x : rsp'[c] = [rsp[c] EXCEPT !.pc = "confirm", !.init = x]
    BY <1>1, <1>3 DEF ResponderStart, ResponderReadInit, ResponderGivesUp, LinkShape, Early
  <2>3. /\ rsp'[c].pc \in {"closed", "msg1", "init", "confirm"} /\ rsp'[c].asm = rsp[c].asm
        /\ rsp'[c].pc # "closed" => rsp[c].pc \in Early
    BY <1>1, <2>2 DEF Closed, LinkShape, ShapeOf
  <2> QED BY <1>1, <2>1, <2>3, QuietPackets DEF Early
<1>4. CASE ResponderReadConfirm(c) \/ ResponderReadMsg1(c)
  <2>1. delivered' = delivered /\ rsp[c].pc \in {"confirm", "msg1"}
    BY <1>4 DEF ResponderReadConfirm, ResponderReadMsg1, KeepsData
  <2>2. Unidentified(c) \/ \E peer, key, msg : Established(c, peer, key, msg)
    BY <1>4 DEF ResponderReadConfirm, ResponderReadMsg1
  <2>3. rsp'[c].pc \in {"closed", "data"} /\ rsp'[c].asm = rsp[c].asm
    <3>1. CASE Unidentified(c)
      BY <1>1, <3>1 DEF Unidentified, Closed, LinkShape, ShapeOf
    <3>2. ASSUME NEW peer, NEW key, NEW msg, Established(c, peer, key, msg)
          PROVE  rsp'[c].pc \in {"closed", "data"} /\ rsp'[c].asm = rsp[c].asm
      <4>1. \/ rsp'[c] = Closed(rsp[c], "write")
            \/ rsp'[c] = [rsp[c] EXCEPT !.pc = "data", !.key = key, !.peer = peer,
                                        !.local = NewBucket(host.burst, now)]
        BY <1>1, <3>2 DEF Established, LinkShape
      <4> QED BY <1>1, <4>1 DEF Closed, LinkShape, ShapeOf
    <3> QED BY <2>2, <3>1, <3>2
  <2>4. rsp'[c].pc = "data" => up'[c] = <<>>
    BY <1>1, <1>4, ReadConfirmLink, ReadMsg1Link
  <2> QED BY <1>1, <2>1, <2>3, <2>4, QuietPackets DEF Early
<1> QED BY <1>2, <1>3, <1>4 DEF Responder

PackInv == LinkInv /\ \A c \in Conn : Packets(c)

LEMMA PackInvInit == Init => PackInv
<1> SUFFICES ASSUME Init
             PROVE  PackInv
  OBVIOUS
<1>1. LinkInv
  BY LinkInvInit
<1>2. ASSUME NEW c \in Conn
      PROVE  Packets(c)
  <2>1. ini[c] = IdleCaller /\ rsp[c] = IdleTask /\ delivered[c] = <<>>
    BY DEF Init
  <2>2. /\ ini[c].packet = 1 /\ ini[c].index = 0 /\ rsp[c].pc = "idle"
        /\ rsp[c].asm = NewAssembly
    BY <2>1 DEF IdleCaller, IdleTask
  <2>3. Len(delivered[c]) = 0
    BY <2>1, NoneIsSeq
  <2> QED BY <2>1, <2>2, <2>3, HopLinkAssumption DEF Packets
<1> QED BY <1>1, <1>2 DEF PackInv

LEMMA SamePackets ==
  ASSUME NEW c, Packets(c), Same(c)
  PROVE  Packets(c)'
<1>1. InOrder(c) => InOrder(c)'
  BY DEF InOrder, Between, Same
<1>2. \A n \in 1 .. Len(delivered[c]) : Above(c, delivered[c][n][0]) => Above(c, delivered[c][n][0])'
  BY DEF Above, Same
<1> QED BY <1>1, <1>2 DEF Packets, Same

LEMMA PackInvNext == PackInv /\ [Next]_vars => PackInv'
<1> SUFFICES ASSUME PackInv, [Next]_vars
             PROVE  PackInv'
  OBVIOUS
<1>0. LinkInv /\ LinkShape /\ \A c \in Conn : Packets(c)
  BY DEF PackInv, LinkInv
<1>1. LinkInv'
  BY <1>0, LinkInvNext
<1>2. ASSUME NEW c \in Conn, Caller(c) \/ Responder(c)
      PROVE  PackInv'
  <2>1. Packets(c)'
    BY <1>0, <1>2, CallerPackets, TaskPackets
  <2>2. \A d \in Conn \ {c} : Same(d)
    BY <1>0, <1>2, CallerFrame, ResponderFrame
  <2> QED BY <1>0, <1>1, <2>1, <2>2, SamePackets DEF PackInv
<1>3. CASE Tick \/ UNCHANGED vars
  <2>1. \A d \in Conn : Same(d)
    BY <1>3 DEF Tick, vars, Same
  <2> QED BY <1>0, <1>1, <2>1, SamePackets DEF PackInv
<1> QED BY <1>2, <1>3 DEF Next

\* What reaches the fair hub is a whole packet, in the order of sending, for every
\* number of fragments per packet, every rate limit and any cells in between
\* (SphinxReassembler::push, the read loop).
THEOREM OnlyWholePackets == Spec => []WholePackets
<1>1. PackInv => WholePackets
  <2> SUFFICES ASSUME PackInv, NEW c \in Conn
               PROVE  /\ \A i \in 1 .. Len(delivered[c]) : Cardinality(Range(delivered[c][i])) = 1
                      /\ \A i, j \in 1 .. Len(delivered[c]) : i < j => delivered[c][i][0] < delivered[c][j][0]
    BY DEF WholePackets
  <2>1. Packets(c)
    BY DEF PackInv
  <2>2. ASSUME NEW i \in 1 .. Len(delivered[c])
        PROVE  Cardinality(Range(delivered[c][i])) = 1
    <3> DEFINE p == delivered[c][i][0]
               f == delivered[c][i]
    <3>1. f = [n \in 0 .. Fragments - 1 |-> p]
      BY <2>1 DEF Packets
    <3> HIDE DEF p, f
    <3>2. 0 \in 0 .. Fragments - 1
      BY HopLinkAssumption
    <3>3. Range(f) = {p}
      BY <3>1, <3>2 DEF Range
    <3> QED BY <3>3, FS_Singleton DEF f
  <2> QED BY <2>1, <2>2 DEF Packets
<1> QED BY <1>1, PackInvInit, PackInvNext, PTL DEF Spec

-----------------------------------------------------------------------------
\* No more than a burst and what came back.

LEMMA Lesser ==
  ASSUME NEW a \in Int, NEW b \in Int
  PROVE  Min({a, b}) \in {a, b} /\ Min({a, b}) <= a /\ Min({a, b}) <= b
<1> DEFINE S == {a, b}
<1>1. \E x \in S : \A y \in S : x <= y
  <2>1. CASE a <= b
    BY <2>1
  <2>2. CASE b <= a
    BY <2>2
  <2> QED BY <2>1, <2>2
<1>2. Min(S) \in S /\ \A y \in S : Min(S) <= y
  BY <1>1 DEF Min
<1> QED BY <1>2

LEMMA Products ==
  ASSUME NEW a \in Nat, NEW b \in Nat, NEW d \in Nat, NEW r \in Nat, a <= b, b <= d
  PROVE  /\ (d - a) * r = (b - a) * r + (d - b) * r
         /\ (b - a) * r \in Nat /\ (d - b) * r \in Nat /\ (d - a) * r \in Nat
<1>1. PICK x \in Nat : b = a + x
  <2>1. b - a \in Nat /\ b = a + (b - a)
    OBVIOUS
  <2> QED BY <2>1
<1>2. PICK y \in Nat : d = b + y
  <2>1. d - b \in Nat /\ d = b + (d - b)
    OBVIOUS
  <2> QED BY <2>1
<1>3. b - a = x /\ d - b = y /\ d - a = x + y
  BY <1>1, <1>2
<1>4. (x + y) * r = x * r + y * r /\ x * r \in Nat /\ y * r \in Nat
  OBVIOUS
<1> QED BY <1>3, <1>4

LEMMA SinceIn ==
  ASSUME NEW conns, NEW t
  PROVE  \A x : x \in Since(conns, t) <=>
           \E d \in conns : \E i \in 1 .. Len(passed[d]) : t <= passed[d][i] /\ x = <<d, i>>
BY DEF Since

LEMMA PassedIn ==
  ASSUME NEW conns, NEW t1, NEW t2
  PROVE  \A x : x \in PassedOn(conns, t1, t2) <=>
           \E d \in conns : \E i \in 1 .. Len(passed[d]) : passed[d][i] \in t1 .. t2 /\ x = <<d, i>>
BY DEF PassedOn

\* A frame is let through on c now.
LetThrough(c) == passed' = [passed EXCEPT ![c] = Append(@, now)]

LEMMA LetThroughAt ==
  ASSUME LinkShape, NEW c \in Conn, LetThrough(c)
  PROVE  /\ Len(passed[c]) \in Nat /\ Len(passed'[c]) = Len(passed[c]) + 1
         /\ \A i \in 1 .. Len(passed[c]) : passed'[c][i] = passed[c][i]
         /\ passed'[c][Len(passed[c]) + 1] = now
         /\ \A d \in Conn \ {c} : passed'[d] = passed[d]
<1>1. passed[c] \in Seq(Nat) /\ now \in Nat /\ passed'[c] = Append(passed[c], now)
  BY DEF LinkShape, LetThrough
<1>2. \A d \in Conn \ {c} : passed'[d] = passed[d]
  BY DEF LinkShape, LetThrough
<1> QED BY <1>1, <1>2, AppendProperties, LenProperties

LEMMA SinceStep ==
  ASSUME LinkShape, NEW c \in Conn, LetThrough(c), NEW conns, conns \subseteq Conn, NEW t \in Nat
  PROVE  /\ (c \notin conns \/ now < t) => Since(conns, t)' = Since(conns, t)
         /\ (c \in conns /\ t <= now) =>
              /\ Since(conns, t)' = Since(conns, t) \cup {<<c, Len(passed[c]) + 1>>}
              /\ <<c, Len(passed[c]) + 1>> \notin Since(conns, t)
<1> DEFINE n == Len(passed[c])
<1>1. /\ n \in Nat /\ Len(passed'[c]) = n + 1
      /\ \A i \in 1 .. n : passed'[c][i] = passed[c][i]
      /\ passed'[c][n + 1] = now /\ now \in Nat
      /\ \A d \in Conn \ {c} : passed'[d] = passed[d]
  BY LetThroughAt DEF LinkShape
<1>2. \A x : x \in Since(conns, t) <=>
           \E d \in conns : \E i \in 1 .. Len(passed[d]) : t <= passed[d][i] /\ x = <<d, i>>
  BY SinceIn
<1>3. \A x : x \in Since(conns, t)' <=>
           \E d \in conns : \E i \in 1 .. Len(passed'[d]) : t <= passed'[d][i] /\ x = <<d, i>>
  BY DEF Since
<1> HIDE DEF n
<1>4. CASE c \notin conns
  BY <1>1, <1>2, <1>3, <1>4
<1>5. \A i \in 1 .. Len(passed'[c]) : (i \in 1 .. n /\ passed'[c][i] = passed[c][i]) \/ (i = n + 1 /\ passed'[c][i] = now)
  BY <1>1
<1>6. \A i \in 1 .. n : i \in 1 .. Len(passed'[c])
  BY <1>1
<1>7. CASE now < t /\ c \in conns
  <2>1. \A i \in 1 .. Len(passed'[c]) : t <= passed'[c][i] <=> i \in 1 .. n /\ t <= passed[c][i]
    BY <1>1, <1>5, <1>7
  <2>2. \A x : x \in Since(conns, t)' <=> x \in Since(conns, t)
    <3> TAKE x
    <3>1. ASSUME x \in Since(conns, t)'
          PROVE  x \in Since(conns, t)
      <4>1. PICK d \in conns : \E i \in 1 .. Len(passed'[d]) : t <= passed'[d][i] /\ x = <<d, i>>
        BY <1>3, <3>1
      <4>2. PICK i \in 1 .. Len(passed'[d]) : t <= passed'[d][i] /\ x = <<d, i>>
        BY <4>1
      <4>3. CASE d = c
        BY <1>2, <2>1, <4>2, <4>3 DEF n
      <4>4. CASE d # c
        BY <1>1, <1>2, <4>2, <4>4
      <4> QED BY <4>3, <4>4
    <3>2. ASSUME x \in Since(conns, t)
          PROVE  x \in Since(conns, t)'
      <4>1. PICK d \in conns : \E i \in 1 .. Len(passed[d]) : t <= passed[d][i] /\ x = <<d, i>>
        BY <1>2, <3>2
      <4>2. PICK i \in 1 .. Len(passed[d]) : t <= passed[d][i] /\ x = <<d, i>>
        BY <4>1
      <4>3. CASE d = c
        BY <1>1, <1>3, <1>6, <4>2, <4>3 DEF n
      <4>4. CASE d # c
        BY <1>1, <1>3, <4>2, <4>4
      <4> QED BY <4>3, <4>4
    <3> QED BY <3>1, <3>2
  <2> DEFINE A == Since(conns, t)'
             B == Since(conns, t)
  <2>3. \A x : x \in A <=> x \in B
    BY <2>2
  <2> HIDE DEF A, B
  <2>4. A = B
    BY <2>3
  <2>5. Since(conns, t)' = Since(conns, t)
    BY <2>4 DEF A, B
  <2> QED BY <1>1, <1>7, <2>5 DEF LinkShape
<1>8. CASE t <= now /\ c \in conns
  <2>1. ASSUME NEW x \in Since(conns, t)'
        PROVE  x \in Since(conns, t) \cup {<<c, n + 1>>}
    <3>1. PICK d \in conns : \E i \in 1 .. Len(passed'[d]) : t <= passed'[d][i] /\ x = <<d, i>>
      BY <1>3, <2>1
    <3>2. PICK i \in 1 .. Len(passed'[d]) : t <= passed'[d][i] /\ x = <<d, i>>
      BY <3>1
    <3>3. CASE d = c
      BY <1>2, <1>5, <3>2, <3>3 DEF n
    <3>4. CASE d # c
      BY <1>1, <1>2, <3>2, <3>4
    <3> QED BY <3>3, <3>4
  <2>2. ASSUME NEW x \in Since(conns, t)
        PROVE  x \in Since(conns, t)'
    <3>1. PICK d \in conns : \E i \in 1 .. Len(passed[d]) : t <= passed[d][i] /\ x = <<d, i>>
      BY <1>2, <2>2
    <3>2. PICK i \in 1 .. Len(passed[d]) : t <= passed[d][i] /\ x = <<d, i>>
      BY <3>1
    <3>3. CASE d = c
      BY <1>1, <1>3, <1>6, <3>2, <3>3 DEF n
    <3>4. CASE d # c
      BY <1>1, <1>3, <3>2, <3>4
    <3> QED BY <3>3, <3>4
  <2>3. <<c, n + 1>> \in Since(conns, t)'
    <3>1. n + 1 \in 1 .. Len(passed'[c]) /\ t <= passed'[c][n + 1]
      BY <1>1, <1>8
    <3> QED BY <1>3, <1>8, <3>1
  <2>4. <<c, n + 1>> \notin Since(conns, t)
    BY <1>1, <1>2 DEF n
  <2> DEFINE A == Since(conns, t)'
             B == Since(conns, t)
             z == <<c, n + 1>>
  <2>5. A \subseteq B \cup {z} /\ B \subseteq A /\ z \in A
    BY <2>1, <2>2, <2>3
  <2> HIDE DEF A, B, z
  <2>6. A = B \cup {z}
    BY <2>5
  <2>7. Since(conns, t)' = Since(conns, t) \cup {<<c, Len(passed[c]) + 1>>}
    BY <2>6 DEF A, B, z, n
  <2>8. <<c, Len(passed[c]) + 1>> \notin Since(conns, t)
    BY <2>4 DEF n
  <2> QED BY <1>1, <1>8, <2>7, <2>8
<1> QED BY <1>4, <1>7, <1>8, <1>1

LEMMA Rates ==
  ASSUME LinkShape
  PROVE  /\ Burst \in Nat \ {0} /\ host.rate \in Nat /\ host.globalRate \in Nat /\ now \in Nat
         /\ \A t : NewBucket(host.burst, t).tokens = Burst /\ NewBucket(host.burst, t).last = t
BY HopLinkAssumption DEF LinkShape, host, Burst, NewBucket

LEMMA SinceFinite ==
  ASSUME IsFiniteSet(Since(Conn, 0)), NEW conns, conns \subseteq Conn, NEW t \in Nat,
         passed \in [Conn -> Seq(Nat)]
  PROVE  IsFiniteSet(Since(conns, t)) /\ Cardinality(Since(conns, t)) \in Nat
<1>1. Since(conns, t) \subseteq Since(Conn, 0)
  <2>1. ASSUME NEW d \in Conn, NEW i \in 1 .. Len(passed[d])
        PROVE  0 <= passed[d][i]
    <3>1. passed[d] \in Seq(Nat)
      OBVIOUS
    <3>2. passed[d][i] \in Nat
      BY <3>1, ElementOfSeq
    <3> QED BY <3>2
  <2> QED BY <2>1, SinceIn
<1> QED BY <1>1, FS_Subset, FS_CardinalityType

\* A bucket that has a place for one more frame now.
Room(b, rate, conns) ==
  /\ b.tokens \in 0 .. Burst /\ b.last = now
  /\ \A t \in Nat : IF t <= now
                    THEN Cardinality(Since(conns, t)) + 1 + b.tokens <= Burst + (now - t) * rate
                    ELSE Since(conns, t) = {}

LEMMA Refilled ==
  ASSUME LinkShape, NEW rate \in Nat, NEW conns, conns \subseteq Conn, IsFiniteSet(Since(Conn, 0)),
         NEW b, Pays(b, rate, conns)
  PROVE  /\ Pays(Refill(b, rate, host.burst, now), rate, conns)
         /\ Refill(b, rate, host.burst, now).last = now
<1> DEFINE l == Refill(b, rate, host.burst, now)
           back == (now - b.last) * rate
<1>1. /\ Burst \in Nat \ {0} /\ now \in Nat /\ NewBucket(host.burst, now).tokens = Burst
      /\ b.tokens \in 0 .. Burst /\ b.last \in 0 .. now
  BY Rates DEF Pays
<1>2. back \in Nat
  BY <1>1, Products
<1>3. l.tokens = Min({b.tokens + back, Burst}) /\ l.last = now
  BY <1>1 DEF Refill
<1> HIDE DEF l, back
<1>4. l.tokens \in 0 .. Burst /\ l.tokens <= b.tokens + back
  <2> DEFINE a == b.tokens + back
             m == Min({a, Burst})
  <2>1. a \in Nat /\ Burst \in Nat
    BY <1>1, <1>2
  <2> HIDE DEF a
  <2>2. m \in {a, Burst} /\ m <= a /\ m <= Burst
    BY <2>1, Lesser
  <2>3. l.tokens = m
    BY <1>3 DEF a
  <2> HIDE DEF m
  <2>4. l.tokens \in 0 .. Burst /\ l.tokens <= a
    BY <2>1, <2>2, <2>3
  <2> QED BY <2>4 DEF a
<1>5. ASSUME NEW t \in Nat
      PROVE  IF t <= now THEN Cardinality(Since(conns, t)) + l.tokens <= Burst + (now - t) * rate
             ELSE Since(conns, t) = {}
  <2> DEFINE n == Cardinality(Since(conns, t))
  <2>1. n \in Nat
    BY SinceFinite DEF LinkShape
  <2> HIDE DEF n
  <2>2. CASE t <= b.last
    <3> DEFINE x == (b.last - t) * rate
               y == (now - t) * rate
    <3>1. y = x + back /\ x \in Nat
      BY <1>1, <2>2, Products DEF back
    <3>2. n + b.tokens <= Burst + x
      BY <2>2 DEF Pays, n
    <3> HIDE DEF x, y
    <3>3. n + l.tokens <= Burst + y
      BY <1>1, <1>2, <1>4, <2>1, <3>1, <3>2
    <3> QED BY <1>1, <2>2, <3>3 DEF y, n
  <2>3. CASE b.last < t
    <3>1. Since(conns, t) = {}
      BY <1>1, <2>3 DEF Pays
    <3>2. n = 0
      BY <3>1, FS_EmptySet DEF n
    <3>3. t <= now => (now - t) * rate \in Nat
      BY <1>1, Products
    <3> QED BY <1>1, <1>4, <3>1, <3>2, <3>3 DEF n
  <2> QED BY <1>1, <2>2, <2>3
<1>6. \A t \in Nat : IF t <= l.last
                       THEN Cardinality(Since(conns, t)) + l.tokens <= Burst + (l.last - t) * rate
                       ELSE Since(conns, t) = {}
  BY <1>3, <1>5
<1>7. l.last \in 0 .. now
  BY <1>1, <1>3
<1>8. Pays(l, rate, conns)
  BY <1>4, <1>6, <1>7 DEF Pays
<1> QED BY <1>3, <1>8 DEF l

LEMMA TakesToken ==
  ASSUME LinkShape, NEW rate \in Nat, NEW conns, conns \subseteq Conn, IsFiniteSet(Since(Conn, 0)),
         NEW l, Pays(l, rate, conns), l.last = now, NEW r, r.last = now, r.tokens = l.tokens - 1,
         l.tokens >= 1
  PROVE  Room(r, rate, conns) /\ Pays(r, rate, conns)
<1>1. Burst \in Nat \ {0} /\ now \in Nat /\ l.tokens \in 0 .. Burst
  BY Rates DEF Pays
<1>2. r.tokens \in 0 .. Burst
  BY <1>1
<1>3. ASSUME NEW t \in Nat
      PROVE  IF t <= now THEN Cardinality(Since(conns, t)) + 1 + r.tokens <= Burst + (now - t) * rate
             ELSE Since(conns, t) = {}
  <2> DEFINE n == Cardinality(Since(conns, t))
             y == (now - t) * rate
  <2>1. n \in Nat
    BY SinceFinite DEF LinkShape
  <2>2. IF t <= now THEN n + l.tokens <= Burst + y ELSE Since(conns, t) = {}
    BY DEF Pays
  <2>3. t <= now => y \in Nat
    BY <1>1, Products
  <2> HIDE DEF n, y
  <2>4. t <= now => n + 1 + r.tokens <= Burst + y
    BY <1>1, <2>1, <2>2, <2>3
  <2> QED BY <2>2, <2>4 DEF n, y
<1>4. Room(r, rate, conns)
  BY <1>2, <1>3 DEF Room
<1>5. ASSUME NEW t \in Nat
      PROVE  IF t <= r.last THEN Cardinality(Since(conns, t)) + r.tokens <= Burst + (r.last - t) * rate
             ELSE Since(conns, t) = {}
  <2> DEFINE n == Cardinality(Since(conns, t))
             y == (now - t) * rate
  <2>1. n \in Nat
    BY SinceFinite DEF LinkShape
  <2>2. IF t <= now THEN n + 1 + r.tokens <= Burst + y ELSE Since(conns, t) = {}
    BY <1>3
  <2>3. t <= now => y \in Nat
    BY <1>1, Products
  <2> HIDE DEF n, y
  <2>4. t <= now => n + r.tokens <= Burst + y
    BY <1>1, <2>1, <2>2, <2>3
  <2> QED BY <2>2, <2>4 DEF n, y
<1>6. Pays(r, rate, conns)
  BY <1>1, <1>2, <1>5 DEF Pays
<1> QED BY <1>4, <1>6

\* allow_frame lets a frame through only with room in both buckets.
LEMMA Allowed ==
  ASSUME LinkShape, NEW c \in Conn, IsFiniteSet(Since(Conn, 0)), NEW local, NEW shared,
         host.rate > 0 => Pays(local, host.rate, {c}),
         host.globalRate > 0 => Pays(shared, host.globalRate, Conn),
         NEW v, v = AllowFrame(local, shared, now)
  PROVE  /\ host.rate > 0 => /\ v.ok => Room(v.local, host.rate, {c})
                             /\ ~v.ok => Pays(v.local, host.rate, {c})
         /\ host.globalRate > 0 => /\ v.ok => Room(v.global, host.globalRate, Conn)
                                   /\ ~v.ok => Pays(v.global, host.globalRate, Conn)
<1> DEFINE l == Refill(local, host.rate, host.burst, now)
           g == Refill(shared, host.globalRate, host.burst, now)
           l1 == [l EXCEPT !.tokens = @ - 1]
           g1 == [g EXCEPT !.tokens = @ - 1]
           askedLocal == host.rate > 0
           askedGlobal == host.globalRate > 0
           okLocal == ~askedLocal \/ l.tokens >= 1
           okGlobal == ~askedGlobal \/ g.tokens >= 1
<1>1. /\ v.ok = (okLocal /\ okGlobal)
      /\ v.local = IF ~askedLocal THEN local ELSE IF okLocal THEN l1 ELSE l
      /\ v.global = IF ~askedGlobal \/ ~okLocal THEN shared ELSE IF okGlobal THEN g1 ELSE g
  BY DEF AllowFrame
<1>2. host.rate \in Nat /\ host.globalRate \in Nat /\ {c} \subseteq Conn /\ Conn \subseteq Conn
  BY Rates
<1>3. l1.tokens = l.tokens - 1 /\ l1.last = l.last /\ g1.tokens = g.tokens - 1 /\ g1.last = g.last
  BY DEF Refill
<1> HIDE DEF l, g, l1, g1
<1>4. askedLocal => Pays(l, host.rate, {c}) /\ l.last = now
  BY <1>2, Refilled DEF l
<1>5. askedGlobal => Pays(g, host.globalRate, Conn) /\ g.last = now
  BY <1>2, Refilled DEF g
<1>6. askedLocal /\ okLocal => Room(l1, host.rate, {c}) /\ Pays(l1, host.rate, {c})
  BY <1>2, <1>3, <1>4, TakesToken
<1>7. askedGlobal /\ okGlobal => Room(g1, host.globalRate, Conn) /\ Pays(g1, host.globalRate, Conn)
  BY <1>2, <1>3, <1>5, TakesToken
<1> QED BY <1>1, <1>4, <1>5, <1>6, <1>7

\* A frame let through uses the room up.
LEMMA PaidFor ==
  ASSUME LinkShape, NEW c \in Conn, LetThrough(c), IsFiniteSet(Since(Conn, 0)), NEW rate \in Nat,
         NEW conns, conns \subseteq Conn, c \in conns, NEW b, Room(b, rate, conns),
         scene' = scene, now' = now
  PROVE  Pays(b, rate, conns)'
<1>1. Burst' = Burst /\ Burst \in Nat \ {0} /\ now \in Nat /\ b.tokens \in 0 .. Burst /\ b.last = now
  BY Rates DEF Burst, host, Room
<1>2. ASSUME NEW t \in Nat
      PROVE  IF t <= b.last THEN Cardinality(Since(conns, t)') + b.tokens <= Burst + (b.last - t) * rate
             ELSE Since(conns, t)' = {}
  <2> DEFINE n == Cardinality(Since(conns, t))
             y == (now - t) * rate
  <2>1. IsFiniteSet(Since(conns, t)) /\ n \in Nat
    BY SinceFinite DEF LinkShape
  <2>2. IF t <= now THEN n + 1 + b.tokens <= Burst + y ELSE Since(conns, t) = {}
    BY DEF Room
  <2>3. CASE t <= now
    <3>1. Cardinality(Since(conns, t)') = n + 1
      <4> DEFINE A == Since(conns, t)
                 B == Since(conns, t)'
                 z == <<c, Len(passed[c]) + 1>>
      <4>1. B = A \cup {z} /\ z \notin A
        BY <2>3, SinceStep
      <4> HIDE DEF A, B, z
      <4>2. IsFiniteSet(A)
        BY <2>1 DEF A
      <4>3. Cardinality(B) = Cardinality(A) + 1
        BY <4>1, <4>2, FS_AddElement
      <4> QED BY <4>3 DEF A, B
    <3> HIDE DEF n, y
    <3>2. n + 1 + b.tokens <= Burst + y
      BY <2>2, <2>3
    <3> QED BY <1>1, <2>3, <3>1, <3>2 DEF y
  <2>4. CASE now < t
    <3>1. Since(conns, t)' = Since(conns, t)
      BY <2>4, SinceStep
    <3>2. Since(conns, t) = {}
      BY <1>1, <2>2, <2>4
    <3> QED BY <1>1, <2>4, <3>1, <3>2
  <2> QED BY <1>1, <2>3, <2>4
<1> QED BY <1>1, <1>2 DEF Pays

\* Nothing of the buckets changes but the clock.
LEMMA PaysLater ==
  ASSUME NEW b, NEW rate, NEW conns, Pays(b, rate, conns), scene' = scene, passed' = passed,
         now \in Nat, now' \in {now, now + 1}
  PROVE  Pays(b, rate, conns)'
<1>1. Burst' = Burst /\ \A t : Since(conns, t)' = Since(conns, t)
  BY DEF Burst, host, Since
<1>2. b.last \in 0 .. now'
  BY DEF Pays
<1> QED BY <1>1, <1>2 DEF Pays

LEMMA OwnSame ==
  ASSUME LinkShape, NEW c, OwnBucket(c), rsp'[c] = rsp[c], scene' = scene, passed' = passed,
         now' \in {now, now + 1}
  PROVE  OwnBucket(c)'
<1>1. now \in Nat
  BY DEF LinkShape
<1>2. Pays(rsp[c].local, host.rate, {c}) => Pays(rsp[c].local, host.rate, {c})'
  <2>1. ASSUME NEW b, NEW rate, b = rsp[c].local, rate = host.rate, Pays(b, rate, {c})
        PROVE  Pays(b, rate, {c})'
    BY <1>1, <2>1, PaysLater
  <2>2. rsp'[c].local = rsp[c].local /\ host' = host
    BY DEF host
  <2> QED BY <2>1, <2>2 DEF Pays
<1> QED BY <1>2 DEF OwnBucket

\* What happens to the local bucket of a connection outside the read loop.
LEMMA TaskKeepsBucket ==
  ASSUME LinkInv, NEW c \in Conn, Responder(c), ~ReadFrame(c)
  PROVE  /\ passed' = passed /\ global' = global
         /\ \/ rsp'[c].pc = "closed" /\ rsp'[c].local = rsp[c].local
            \/ rsp[c].pc \notin {"data", "closed"} /\ rsp'[c].pc \notin {"data", "closed"}
            \/ /\ rsp[c].pc \notin {"data", "closed"} /\ rsp'[c].pc = "data"
               /\ rsp'[c].local = NewBucket(host.burst, now)
<1>1. LinkShape /\ Link(c)
  BY DEF LinkInv
<1>2. CASE ResponderStart(c) \/ ResponderReadInit(c) \/ ResponderGivesUp(c)
  <2>1. passed' = passed /\ global' = global
    BY <1>2 DEF ResponderStart, ResponderReadInit, ResponderGivesUp, KeepsData
  <2>2. \/ \E why : rsp'[c] = Closed(rsp[c], why)
        \/ rsp[c].pc \in Early /\ \E pc \in {"msg1", "init"} : rsp'[c] = [rsp[c] EXCEPT !.pc = pc]
        \/ rsp[c].pc \in Early /\ \E x : rsp'[c] = [rsp[c] EXCEPT !.pc = "confirm", !.init = x]
    BY <1>1, <1>2 DEF ResponderStart, ResponderReadInit, ResponderGivesUp, LinkShape, Early
  <2> QED BY <1>1, <2>1, <2>2 DEF Closed, LinkShape, ShapeOf, Early
<1>3. CASE ResponderReadConfirm(c) \/ ResponderReadMsg1(c)
  <2>1. passed' = passed /\ global' = global /\ rsp[c].pc \in {"confirm", "msg1"}
    BY <1>3 DEF ResponderReadConfirm, ResponderReadMsg1, KeepsData
  <2>2. Unidentified(c) \/ \E peer, key, msg : Established(c, peer, key, msg)
    BY <1>3 DEF ResponderReadConfirm, ResponderReadMsg1
  <2>3. CASE Unidentified(c)
    BY <1>1, <2>1, <2>3 DEF Unidentified, Closed, LinkShape, ShapeOf
  <2>4. ASSUME NEW peer, NEW key, NEW msg, Established(c, peer, key, msg)
        PROVE  \/ rsp'[c].pc = "closed" /\ rsp'[c].local = rsp[c].local
               \/ rsp'[c].pc = "data" /\ rsp'[c].local = NewBucket(host.burst, now)
    <3>1. \/ rsp'[c] = Closed(rsp[c], "write")
          \/ rsp'[c] = [rsp[c] EXCEPT !.pc = "data", !.key = key, !.peer = peer,
                                      !.local = NewBucket(host.burst, now)]
      BY <1>1, <2>4 DEF Established, LinkShape
    <3> QED BY <1>1, <3>1 DEF Closed, LinkShape, ShapeOf
  <2> QED BY <2>1, <2>2, <2>3, <2>4
<1> QED BY <1>2, <1>3 DEF Responder

\* A task that starts its read loop has a full bucket and nothing to answer for.
LEMMA FullBucket ==
  ASSUME LinkShape, NEW c \in Conn, passed[c] = <<>>, NEW rate \in Nat
  PROVE  Pays(NewBucket(host.burst, now), rate, {c})
<1>1. /\ Burst \in Nat \ {0} /\ now \in Nat
      /\ NewBucket(host.burst, now).tokens = Burst /\ NewBucket(host.burst, now).last = now
  BY Rates
<1>2. \A t : Since({c}, t) = {}
  <2>1. Len(passed[c]) = 0
    BY NoneIsSeq
  <2> QED BY <2>1, SinceIn
<1>3. ASSUME NEW t \in Nat, t <= now
      PROVE  Cardinality(Since({c}, t)) + Burst <= Burst + (now - t) * rate
  <2>1. Cardinality(Since({c}, t)) = 0
    BY <1>2, FS_EmptySet
  <2>2. (now - t) * rate \in Nat
    BY <1>1, <1>3, Products
  <2> QED BY <1>1, <2>1, <2>2
<1> DEFINE l == NewBucket(host.burst, now)
<1> HIDE DEF l
<1>4. l.tokens = Burst /\ l.last = now
  BY <1>1 DEF l
<1>5. \A t \in Nat : IF t <= l.last
                      THEN Cardinality(Since({c}, t)) + l.tokens <= Burst + (l.last - t) * rate
                      ELSE Since({c}, t) = {}
  BY <1>2, <1>3, <1>4
<1>6. Pays(l, rate, {c})
  <2>1. l.tokens \in 0 .. Burst /\ l.last \in 0 .. now
    BY <1>1, <1>4
  <2> QED BY <1>5, <2>1 DEF Pays
<1> QED BY <1>6 DEF l

LEMMA CallerBuckets ==
  ASSUME LinkInv, Buckets, NEW c \in Conn, Caller(c)
  PROVE  Buckets'
<1>1. LinkShape /\ Link(c)
  BY DEF LinkInv
<1>2. /\ scene' = scene /\ now' = now /\ passed' = passed /\ global' = global
      /\ \A d \in Conn \ {c} : Same(d)
  BY <1>1, CallerFrame
<1>3. \/ rsp' = rsp
      \/ rsp[c].pc = "idle" /\ rsp'[c].pc \in {"start", "closed"}
  <2>1. CASE \E k \in scene.callers[c] : Connect(c, k)
    <3>1. ini[c].pc = "idle" /\ \E x \in {"start", "closed"} : rsp' = [rsp EXCEPT ![c].pc = x]
      BY <2>1 DEF Connect
    <3> QED BY <1>1, <3>1 DEF LinkShape, ShapeOf, Link, Handshake
  <2>2. CASE ~\E k \in scene.callers[c] : Connect(c, k)
    BY <2>2 DEF Caller, InitiatorStart, InitiatorReadResp, InitiatorReadFinish, InitiatorReadMsg2,
                InitiatorReadLast, CallerCloses, SendFragment, SendControl, InitiatorLeft
  <2> QED BY <2>1, <2>2
<1>4. IsFiniteSet(Since(Conn, 0)')
  BY <1>2 DEF Buckets, Since
<1>5. ASSUME host.rate > 0, NEW d \in Conn
      PROVE  OwnBucket(d)'
  <2>1. OwnBucket(d)
    BY <1>5 DEF Buckets
  <2>2. CASE rsp'[d] = rsp[d]
    BY <1>1, <1>2, <2>1, <2>2, OwnSame
  <2>3. CASE d = c /\ rsp[c].pc = "idle" /\ rsp'[c].pc \in {"start", "closed"}
    BY <1>2, <2>1, <2>3 DEF OwnBucket
  <2> QED BY <1>2, <1>3, <2>2, <2>3 DEF Same
<1>6. ASSUME host.globalRate > 0
      PROVE  Pays(global, host.globalRate, Conn)'
  <2>1. Pays(global, host.globalRate, Conn) /\ now \in Nat
    BY <1>1, <1>6 DEF Buckets, LinkShape
  <2>2. ASSUME NEW b, NEW rate, b = global, rate = host.globalRate
        PROVE  Pays(b, rate, Conn)'
    BY <1>2, <2>1, <2>2, PaysLater
  <2> QED BY <1>2, <2>2 DEF Pays, host
<1> QED BY <1>2, <1>4, <1>5, <1>6 DEF Buckets, host

LEMMA TickBuckets ==
  ASSUME LinkInv, Buckets, Tick \/ UNCHANGED vars
  PROVE  Buckets'
<1>1. /\ now \in Nat /\ now' \in {now, now + 1} /\ UNCHANGED <<scene, rsp, passed, global>>
  BY DEF LinkInv, LinkShape, Tick, vars
<1>2. \A d \in Conn : OwnBucket(d) => OwnBucket(d)'
  BY <1>1, OwnSame DEF LinkInv
<1>3. IsFiniteSet(Since(Conn, 0)')
  BY <1>1 DEF Buckets, Since
<1>4. ASSUME host.globalRate > 0
      PROVE  Pays(global, host.globalRate, Conn)'
  <2>1. Pays(global, host.globalRate, Conn)
    BY <1>4 DEF Buckets
  <2>2. ASSUME NEW b, NEW rate, b = global, rate = host.globalRate
        PROVE  Pays(b, rate, Conn)'
    BY <1>1, <2>1, <2>2, PaysLater
  <2> QED BY <1>1, <2>2 DEF Pays, host
<1> QED BY <1>1, <1>2, <1>3, <1>4 DEF Buckets, host

LEMMA TaskBuckets ==
  ASSUME LinkInv, Buckets, NEW c \in Conn, Responder(c), ~ReadFrame(c)
  PROVE  Buckets'
<1>1. LinkShape /\ Link(c)
  BY DEF LinkInv
<1>2. /\ scene' = scene /\ now' = now /\ passed' = passed /\ global' = global
      /\ \A d \in Conn \ {c} : Same(d)
  BY <1>1, ResponderFrame, TaskKeepsBucket
<1>3. IsFiniteSet(Since(Conn, 0)')
  BY <1>2 DEF Buckets, Since
<1>4. ASSUME host.rate > 0, NEW d \in Conn
      PROVE  OwnBucket(d)'
  <2>1. OwnBucket(d) /\ host.rate \in Nat /\ now \in Nat
    BY <1>1, <1>4, Rates DEF Buckets
  <2>2. CASE d # c
    BY <1>1, <1>2, <2>1, <2>2, OwnSame DEF Same
  <2>3. CASE d = c
    <3>1. CASE rsp'[c].pc = "closed" /\ rsp'[c].local = rsp[c].local
      <4>1. ASSUME NEW b, NEW rate, b = rsp[c].local, rate = host.rate, passed[c] # <<>>
            PROVE  Pays(b, rate, {c})'
        BY <1>2, <2>1, <2>3, <4>1, PaysLater DEF OwnBucket
      <4>2. passed[c] # <<>> => Pays(rsp[c].local, host.rate, {c})'
        BY <1>2, <3>1, <4>1 DEF Pays, host
      <4> QED BY <1>2, <2>3, <3>1, <4>2 DEF OwnBucket
    <3>2. CASE rsp[c].pc \notin {"data", "closed"} /\ rsp'[c].pc \notin {"data", "closed"}
      BY <1>2, <2>1, <2>3, <3>2 DEF OwnBucket
    <3>3. CASE /\ rsp[c].pc \notin {"data", "closed"} /\ rsp'[c].pc = "data"
               /\ rsp'[c].local = NewBucket(host.burst, now)
      <4>1. passed[c] = <<>>
        BY <2>1, <2>3, <3>3 DEF OwnBucket
      <4>2. Pays(NewBucket(host.burst, now), host.rate, {c})
        BY <1>1, <2>1, <4>1, FullBucket
      <4>3. ASSUME NEW b, NEW rate, b = NewBucket(host.burst, now), rate = host.rate
            PROVE  Pays(b, rate, {c})'
        BY <1>2, <2>1, <4>2, <4>3, PaysLater
      <4>4. Pays(rsp[c].local, host.rate, {c})'
        BY <1>2, <3>3, <4>3 DEF Pays, host
      <4> QED BY <1>2, <2>3, <3>3, <4>4 DEF OwnBucket
    <3> QED BY <3>1, <3>2, <3>3, TaskKeepsBucket
  <2> QED BY <2>2, <2>3
<1>5. ASSUME host.globalRate > 0
      PROVE  Pays(global, host.globalRate, Conn)'
  <2>1. Pays(global, host.globalRate, Conn) /\ now \in Nat
    BY <1>1, <1>5 DEF Buckets, LinkShape
  <2>2. ASSUME NEW b, NEW rate, b = global, rate = host.globalRate
        PROVE  Pays(b, rate, Conn)'
    BY <1>2, <2>1, <2>2, PaysLater
  <2> QED BY <1>2, <2>2 DEF Pays, host
<1> QED BY <1>2, <1>3, <1>4, <1>5 DEF Buckets, host

\* What a turn of the read loop does with the buckets.
LEMMA FrameAsks ==
  ASSUME LinkShape, NEW c \in Conn, ReadFrame(c)
  PROVE  LET v == AllowFrame(rsp[c].local, global, now)
         IN  /\ rsp'[c].local = v.local /\ global' = v.global
             /\ v.ok => LetThrough(c)
             /\ ~v.ok => passed' = passed
<1> DEFINE task == rsp[c]
           v    == AllowFrame(task.local, global, now)
           kept == [task EXCEPT !.local = v.local]
<1>1. global' = v.global /\ passed' = IF v.ok THEN [passed EXCEPT ![c] = Append(@, now)] ELSE passed
  BY DEF ReadFrame
<1>2. kept.local = v.local /\ DOMAIN kept = DOMAIN task /\ "local" \in DOMAIN task
  BY DEF LinkShape, ShapeOf
<1>3. \/ rsp'[c] = kept
      \/ \E why : rsp'[c] = Closed(kept, why)
      \/ \E a : rsp'[c] = [kept EXCEPT !.asm = a]
  <2>1. \/ rsp' = [rsp EXCEPT ![c] = kept]
        \/ \E why : rsp' = [rsp EXCEPT ![c] = Closed(kept, why)]
        \/ \E a : rsp' = [rsp EXCEPT ![c] = [kept EXCEPT !.asm = a]]
    BY DEF ReadFrame
  <2> HIDE DEF kept
  <2> QED BY <2>1 DEF LinkShape
<1> HIDE DEF kept, v
<1>4. rsp'[c].local = v.local
  BY <1>2, <1>3 DEF Closed
<1> QED BY <1>1, <1>4 DEF LetThrough, v

LEMMA FrameBuckets ==
  ASSUME LinkInv, Buckets, NEW c \in Conn, ReadFrame(c)
  PROVE  Buckets'
<1>1. LinkShape /\ Link(c) /\ Responder(c)
  BY DEF LinkInv, Responder
<1>2. /\ scene' = scene /\ now' = now /\ \A d \in Conn \ {c} : Same(d)
      /\ rsp[c].pc = "data" /\ rsp'[c].pc \in {"data", "closed"}
  BY <1>1, ResponderFrame, FrameTask
<1>3. /\ host.rate \in Nat /\ host.globalRate \in Nat /\ now \in Nat /\ host' = host
      /\ IsFiniteSet(Since(Conn, 0)) /\ 0 \in Nat
  BY <1>1, <1>2, Rates DEF Buckets, host
<1>4. PICK v : v = AllowFrame(rsp[c].local, global, now)
  OBVIOUS
<1>5. /\ rsp'[c].local = v.local /\ global' = v.global
      /\ v.ok => LetThrough(c)
      /\ ~v.ok => passed' = passed
  BY <1>1, <1>4, FrameAsks
<1>6. /\ host.rate > 0 => Pays(rsp[c].local, host.rate, {c})
      /\ host.globalRate > 0 => Pays(global, host.globalRate, Conn)
  BY <1>2 DEF Buckets, OwnBucket
<1>7. /\ host.rate > 0 => /\ v.ok => Room(v.local, host.rate, {c})
                          /\ ~v.ok => Pays(v.local, host.rate, {c})
      /\ host.globalRate > 0 => /\ v.ok => Room(v.global, host.globalRate, Conn)
                                /\ ~v.ok => Pays(v.global, host.globalRate, Conn)
  BY <1>1, <1>3, <1>4, <1>6, Allowed
<1>8. ASSUME NEW b, NEW rate \in Nat, NEW conns, conns \subseteq Conn, c \in conns,
             v.ok => Room(b, rate, conns), ~v.ok => Pays(b, rate, conns)
      PROVE  Pays(b, rate, conns)'
  <2>1. CASE v.ok
    BY <1>1, <1>2, <1>3, <1>5, <1>8, <2>1, PaidFor
  <2>2. CASE ~v.ok
    BY <1>1, <1>2, <1>3, <1>5, <1>8, <2>2, PaysLater
  <2> QED BY <2>1, <2>2
<1>9. ASSUME host.rate > 0, NEW d \in Conn
      PROVE  OwnBucket(d)'
  <2>1. OwnBucket(d)
    BY <1>9 DEF Buckets
  <2>2. CASE d = c
    <3>1. ASSUME NEW b, NEW rate, b = v.local, rate = host.rate
          PROVE  Pays(b, rate, {c})'
      BY <1>3, <1>7, <1>8, <1>9, <3>1
    <3>2. Pays(rsp[c].local, host.rate, {c})'
      BY <1>3, <1>5, <3>1 DEF Pays
    <3> QED BY <1>2, <2>2, <3>2 DEF OwnBucket
  <2>3. CASE d # c
    <3>1. rsp'[d] = rsp[d] /\ passed'[d] = passed[d]
      BY <1>2, <2>3 DEF Same
    <3>2. Burst' = Burst /\ \A t : Since({d}, t)' = Since({d}, t)
      BY <1>3, <3>1 DEF Burst, Since
    <3>3. Pays(rsp[d].local, host.rate, {d}) => Pays(rsp[d].local, host.rate, {d})'
      BY <1>2, <1>3, <3>1, <3>2 DEF Pays
    <3> QED BY <2>1, <3>1, <3>3 DEF OwnBucket
  <2> QED BY <2>2, <2>3
<1>10. ASSUME host.globalRate > 0
       PROVE  Pays(global, host.globalRate, Conn)'
  <2>1. ASSUME NEW b, NEW rate, b = v.global, rate = host.globalRate
        PROVE  Pays(b, rate, Conn)'
    BY <1>3, <1>7, <1>8, <1>10, <2>1
  <2> QED BY <1>3, <1>5, <2>1 DEF Pays
<1>11. IsFiniteSet(Since(Conn, 0)')
  <2>1. CASE v.ok
    <3> DEFINE A == Since(Conn, 0)
               B == Since(Conn, 0)'
               z == <<c, Len(passed[c]) + 1>>
    <3>1. B = A \cup {z}
      <4>1. LetThrough(c) /\ 0 <= now /\ Conn \subseteq Conn
        BY <1>3, <1>5, <2>1
      <4> QED BY <1>1, <1>3, <4>1, SinceStep
    <3> HIDE DEF A, B, z
    <3>2. IsFiniteSet(A)
      BY <1>3 DEF A
    <3>3. IsFiniteSet(B)
      BY <3>1, <3>2, FS_AddElement
    <3> QED BY <3>3 DEF B
  <2>2. CASE ~v.ok
    <3>1. Since(Conn, 0)' = Since(Conn, 0)
      BY <1>5, <2>2 DEF Since
    <3> QED BY <1>3, <3>1
  <2> QED BY <2>1, <2>2
<1> QED BY <1>3, <1>9, <1>10, <1>11 DEF Buckets

Most(rate, t1, t2) == Burst + (t2 - t1) * rate

\* A bucket that pays bounds every stretch that reaches up to when it was asked.
LEMMA PaysBound ==
  ASSUME LinkShape, IsFiniteSet(Since(Conn, 0)), NEW rate \in Nat, NEW conns, conns \subseteq Conn,
         NEW b, Pays(b, rate, conns), NEW t1 \in Nat, NEW t2 \in Nat, t1 <= t2, b.last <= t2
  PROVE  /\ IsFiniteSet(PassedOn(conns, t1, t2))
         /\ Cardinality(PassedOn(conns, t1, t2)) <= Most(rate, t1, t2)
<1> DEFINE A == PassedOn(conns, t1, t2)
           B == Since(conns, t1)
           x == (b.last - t1) * rate
           y == (t2 - t1) * rate
<1>1. Burst \in Nat \ {0} /\ b.tokens \in 0 .. Burst /\ b.last \in Nat
  BY Rates DEF Pays
<1>2. A \subseteq B
  BY SinceIn, PassedIn
<1>3. IsFiniteSet(B) /\ Cardinality(B) \in Nat
  BY SinceFinite DEF LinkShape
<1>4. IsFiniteSet(A) /\ Cardinality(A) \in Nat /\ Cardinality(A) <= Cardinality(B)
  <2> HIDE DEF A, B
  <2> QED BY <1>2, <1>3, FS_Subset, FS_CardinalityType
<1>5. y \in Nat /\ (t1 <= b.last => x \in Nat /\ x <= y)
  BY <1>1, Products
<1>6. IF t1 <= b.last THEN Cardinality(B) + b.tokens <= Burst + x ELSE B = {}
  BY DEF Pays
<1>7. B = {} => Cardinality(B) = 0
  BY FS_EmptySet
<1> HIDE DEF A, B, x, y
<1>8. Cardinality(A) <= Burst + y
  BY <1>1, <1>3, <1>4, <1>5, <1>6, <1>7
<1> QED BY <1>4, <1>8 DEF A, y, Most

LEMMA RateBoundIs ==
  RateBound <=>
    \A t1, t2 \in 0 .. now : t1 <= t2 =>
      /\ host.rate > 0 =>
           \A c \in Conn : Cardinality(PassedOn({c}, t1, t2)) <= Most(host.rate, t1, t2)
      /\ host.globalRate > 0 => Cardinality(PassedOn(Conn, t1, t2)) <= Most(host.globalRate, t1, t2)
BY DEF RateBound, Most, Burst

\* A stretch that is over has what it had.
LEMMA PastStays ==
  ASSUME LinkShape, NEW c \in Conn, LetThrough(c), NEW conns, conns \subseteq Conn,
         NEW t1 \in Nat, NEW t2 \in Nat, t2 < now
  PROVE  PassedOn(conns, t1, t2)' = PassedOn(conns, t1, t2)
<1> DEFINE n == Len(passed[c])
           A == PassedOn(conns, t1, t2)'
           B == PassedOn(conns, t1, t2)
<1>1. /\ n \in Nat /\ Len(passed'[c]) = n + 1
      /\ \A i \in 1 .. n : passed'[c][i] = passed[c][i]
      /\ passed'[c][n + 1] = now /\ now \in Nat
      /\ \A d \in Conn \ {c} : passed'[d] = passed[d]
  BY LetThroughAt DEF LinkShape
<1>2. \A x : x \in B <=>
           \E d \in conns : \E i \in 1 .. Len(passed[d]) : passed[d][i] \in t1 .. t2 /\ x = <<d, i>>
  BY PassedIn
<1>3. \A x : x \in A <=>
           \E d \in conns : \E i \in 1 .. Len(passed'[d]) : passed'[d][i] \in t1 .. t2 /\ x = <<d, i>>
  BY DEF PassedOn
<1> HIDE DEF A, B
<1>4. \A i \in 1 .. Len(passed'[c]) : passed'[c][i] \in t1 .. t2 =>
         i \in 1 .. Len(passed[c]) /\ passed'[c][i] = passed[c][i]
  BY <1>1
<1>5. \A i \in 1 .. Len(passed[c]) : i \in 1 .. Len(passed'[c]) /\ passed'[c][i] = passed[c][i]
  BY <1>1
<1> HIDE DEF n
<1>6. ASSUME NEW x \in A
      PROVE  x \in B
  <2>1. PICK d \in conns : \E i \in 1 .. Len(passed'[d]) : passed'[d][i] \in t1 .. t2 /\ x = <<d, i>>
    BY <1>3, <1>6
  <2>2. PICK i \in 1 .. Len(passed'[d]) : passed'[d][i] \in t1 .. t2 /\ x = <<d, i>>
    BY <2>1
  <2>3. CASE d = c
    BY <1>2, <1>4, <2>2, <2>3
  <2>4. CASE d # c
    BY <1>1, <1>2, <2>2, <2>4
  <2> QED BY <2>3, <2>4
<1>7. ASSUME NEW x \in B
      PROVE  x \in A
  <2>1. PICK d \in conns : \E i \in 1 .. Len(passed[d]) : passed[d][i] \in t1 .. t2 /\ x = <<d, i>>
    BY <1>2, <1>7
  <2>2. PICK i \in 1 .. Len(passed[d]) : passed[d][i] \in t1 .. t2 /\ x = <<d, i>>
    BY <2>1
  <2>3. CASE d = c
    BY <1>3, <1>5, <2>2, <2>3
  <2>4. CASE d # c
    BY <1>1, <1>3, <2>2, <2>4
  <2> QED BY <2>3, <2>4
<1>8. A = B
  BY <1>6, <1>7
<1> QED BY <1>8 DEF A, B

\* Stretches up to a time keep to the bound.
BoundAt(t1, t2) ==
  /\ host.rate > 0 => \A c \in Conn : Cardinality(PassedOn({c}, t1, t2)) <= Most(host.rate, t1, t2)
  /\ host.globalRate > 0 => Cardinality(PassedOn(Conn, t1, t2)) <= Most(host.globalRate, t1, t2)

PastBound == \A t1, t2 \in Nat : (t1 <= t2 /\ t2 < now) => BoundAt(t1, t2)

RateInv == LinkInv /\ Buckets /\ PastBound

LEMMA NowBound ==
  ASSUME LinkShape, Buckets, NEW t1 \in Nat, t1 <= now
  PROVE  BoundAt(t1, now)
<1>1. /\ now \in Nat /\ host.rate \in Nat /\ host.globalRate \in Nat /\ Burst \in Nat
      /\ IsFiniteSet(Since(Conn, 0))
  BY Rates DEF Buckets
<1>2. ASSUME host.rate > 0, NEW c \in Conn
      PROVE  Cardinality(PassedOn({c}, t1, now)) <= Most(host.rate, t1, now)
  <2>1. CASE passed[c] = <<>>
    <3>1. Len(passed[c]) = 0
      BY <2>1, NoneIsSeq
    <3>2. PassedOn({c}, t1, now) = {}
      BY <3>1, PassedIn
    <3>3. (now - t1) * host.rate \in Nat
      BY <1>1, Products
    <3>4. Cardinality(PassedOn({c}, t1, now)) = 0
      BY <3>2, FS_EmptySet
    <3> QED BY <1>1, <3>3, <3>4 DEF Most
  <2>2. CASE passed[c] # <<>>
    <3>1. Pays(rsp[c].local, host.rate, {c})
      BY <1>2, <2>2 DEF Buckets, OwnBucket
    <3>2. rsp[c].local.last <= now /\ {c} \subseteq Conn
      BY <1>1, <3>1 DEF Pays
    <3> QED BY <1>1, <3>1, <3>2, PaysBound
  <2> QED BY <2>1, <2>2
<1>3. ASSUME host.globalRate > 0
      PROVE  Cardinality(PassedOn(Conn, t1, now)) <= Most(host.globalRate, t1, now)
  <2>1. Pays(global, host.globalRate, Conn)
    BY <1>3 DEF Buckets
  <2>2. global.last <= now
    BY <1>1, <2>1 DEF Pays
  <2> QED BY <1>1, <2>1, <2>2, PaysBound
<1> QED BY <1>2, <1>3 DEF BoundAt

LEMMA RateInvInit == Init => RateInv
<1> SUFFICES ASSUME Init
             PROVE  RateInv
  OBVIOUS
<1>1. LinkInv /\ LinkShape
  BY LinkInvInit DEF LinkInv
<1>2. /\ now = 0 /\ \A c \in Conn : passed[c] = <<>> /\ rsp[c].pc = "idle"
      /\ global = NewBucket(host.burst, now)
  BY DEF Init, IdleTask
<1>3. \A conns, t : conns \subseteq Conn => Since(conns, t) = {}
  <2>1. \A c \in Conn : Len(passed[c]) = 0
    BY <1>2, NoneIsSeq
  <2> QED BY <2>1, SinceIn
<1>4. Pays(global, host.globalRate, Conn)
  <2> DEFINE g == NewBucket(host.burst, now)
  <2>1. /\ g.tokens = Burst /\ g.last = 0 /\ Burst \in Nat \ {0} /\ host.globalRate \in Nat
    BY <1>1, <1>2, Rates
  <2> HIDE DEF g
  <2>2. \A t \in Nat : IF t <= g.last
                       THEN Cardinality(Since(Conn, t)) + g.tokens <= Burst + (g.last - t) * host.globalRate
                       ELSE Since(Conn, t) = {}
    <3>1. \A t : Since(Conn, t) = {} /\ Cardinality(Since(Conn, t)) = 0
      BY <1>3, FS_EmptySet
    <3>2. (0 - 0) * host.globalRate = 0
      BY <2>1
    <3> QED BY <2>1, <3>1, <3>2
  <2>3. Pays(g, host.globalRate, Conn)
    BY <1>2, <2>1, <2>2 DEF Pays
  <2> QED BY <1>2, <2>3 DEF g
<1>5. \A c \in Conn : OwnBucket(c)
  BY <1>2 DEF OwnBucket
<1>6. IsFiniteSet(Since(Conn, 0))
  BY <1>3, FS_EmptySet
<1>7. PastBound
  BY <1>2 DEF PastBound
<1> QED BY <1>1, <1>4, <1>5, <1>6, <1>7 DEF RateInv, Buckets

LEMMA RateInvNext == RateInv /\ [Next]_vars => RateInv'
<1> SUFFICES ASSUME RateInv, [Next]_vars
             PROVE  RateInv'
  OBVIOUS
<1>1. /\ LinkInv /\ LinkShape /\ Buckets /\ PastBound /\ LinkInv'
      /\ now \in Nat
  BY LinkInvNext DEF RateInv, LinkInv, LinkShape
<1>2. ASSUME passed' = passed, host' = host, Buckets', now' \in {now, now + 1}
      PROVE  RateInv'
  <2>1. \A t1, t2 \in Nat : (t1 <= t2 /\ t2 < now') => BoundAt(t1, t2)
    <3>1. \A t1, t2 \in Nat : t2 < now' => t2 < now \/ t2 = now
      BY <1>1, <1>2
    <3> QED BY <1>1, <3>1, NowBound DEF PastBound
  <2>2. \A t1, t2 : BoundAt(t1, t2)' <=> BoundAt(t1, t2)
    BY <1>2 DEF BoundAt, PassedOn, Most, Burst
  <2> QED BY <1>1, <1>2, <2>1, <2>2 DEF RateInv, PastBound
<1>3. ASSUME NEW c \in Conn, Caller(c)
      PROVE  RateInv'
  <2>1. passed' = passed /\ host' = host /\ now' = now
    BY <1>1, <1>3, CallerFrame DEF host
  <2>2. Buckets'
    BY <1>1, <1>3, CallerBuckets
  <2> QED BY <1>2, <2>1, <2>2
<1>4. ASSUME NEW c \in Conn, Responder(c)
      PROVE  RateInv'
  <2>1. host' = host /\ now' = now
    BY <1>1, <1>4, ResponderFrame DEF host
  <2>2. CASE ~ReadFrame(c)
    BY <1>1, <1>2, <1>4, <2>1, <2>2, TaskBuckets, TaskKeepsBucket
  <2>3. CASE ReadFrame(c) /\ passed' = passed
    BY <1>1, <1>2, <2>1, <2>3, FrameBuckets
  <2>4. CASE ReadFrame(c) /\ LetThrough(c)
    <3>1. Buckets'
      BY <1>1, <2>4, FrameBuckets
    <3>2. ASSUME NEW t1 \in Nat, NEW t2 \in Nat, t2 < now
          PROVE  /\ PassedOn(Conn, t1, t2)' = PassedOn(Conn, t1, t2)
                 /\ \A d \in Conn : PassedOn({d}, t1, t2)' = PassedOn({d}, t1, t2)
      <4>1. PassedOn(Conn, t1, t2)' = PassedOn(Conn, t1, t2)
        BY <1>1, <2>4, <3>2, PastStays
      <4>2. ASSUME NEW d \in Conn
            PROVE  PassedOn({d}, t1, t2)' = PassedOn({d}, t1, t2)
        <5>1. {d} \subseteq Conn
          OBVIOUS
        <5> QED BY <1>1, <2>4, <3>2, <5>1, PastStays
      <4> QED BY <4>1, <4>2
    <3>3. \A t1, t2 \in Nat : t2 < now => (BoundAt(t1, t2)' <=> BoundAt(t1, t2))
      BY <2>1, <3>2 DEF BoundAt, Most, Burst
    <3> QED BY <1>1, <2>1, <3>1, <3>3 DEF RateInv, PastBound
  <2>5. ReadFrame(c) => passed' = passed \/ LetThrough(c)
    BY <1>1, FrameAsks
  <2> QED BY <2>2, <2>3, <2>4, <2>5
<1>5. CASE Tick \/ UNCHANGED vars
  <2>1. passed' = passed /\ host' = host /\ now' \in {now, now + 1}
    BY <1>5 DEF Tick, vars, host
  <2>2. Buckets'
    BY <1>1, <1>5, TickBuckets
  <2> QED BY <1>2, <2>1, <2>2
<1> QED BY <1>3, <1>4, <1>5 DEF Next

\* In no stretch of time are more frames let through than a burst and what came
\* back, on one connection and on all together, for every burst, every pair of
\* rates and every number of connections (TokenBucket, allow_frame).
THEOREM FramesKeepToRate == Spec => []RateBound
<1>1. RateInv => RateBound
  <2> SUFFICES ASSUME RateInv
               PROVE  RateBound
    OBVIOUS
  <2>1. LinkShape /\ Buckets /\ PastBound /\ now \in Nat
    BY DEF RateInv, LinkInv, LinkShape
  <2>2. \A t1, t2 \in 0 .. now : t1 <= t2 => BoundAt(t1, t2)
    <3> SUFFICES ASSUME NEW t1 \in 0 .. now, NEW t2 \in 0 .. now, t1 <= t2
                 PROVE  BoundAt(t1, t2)
      OBVIOUS
    <3>1. CASE t2 < now
      BY <2>1, <3>1 DEF PastBound
    <3>2. CASE t2 = now
      BY <2>1, <3>2, NowBound
    <3> QED BY <2>1, <3>1, <3>2
  <2> QED BY <2>2, RateBoundIs DEF BoundAt
<1> QED BY <1>1, RateInvInit, RateInvNext, PTL DEF Spec
=============================================================================
