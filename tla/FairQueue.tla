------------------------------ MODULE FairQueue -----------------------------
(***************************************************************************)
(* The weighted deficit round-robin both fair hubs of the link bridge      *)
(* share (aegis-relay/src/net.rs), as operators on its data.               *)
(*                                                                         *)
(* A slot table is a sequence, Vec<Option<FairPeerSlot>> in the code: it   *)
(* grows when no freed place can be reused and never shrinks.  A slot is   *)
(* the receiving half of one bounded queue; `live' says whether the        *)
(* sending half still exists.  The cursor counts from 0 and may stand one  *)
(* past the end of the table.                                              *)
(***************************************************************************)
EXTENDS Integers, Sequences, FiniteSetsExt

CONSTANTS
  QueueCap,    (* PER_PEER_INBOUND_CAPACITY, PER_PEER_OUTBOUND_CAPACITY: 16 *)
  MaxWeight    (* MAX_PEER_QUEUE_WEIGHT, 8                                  *)

DefaultWeight == 1
Weights == DefaultWeight .. MaxWeight

(* A slot is a record of live, queue, weight and credits.                  *)

(* A place of the table that holds no slot, None in the code.              *)
Free == [live |-> FALSE, queue |-> << >>, weight |-> 0, credits |-> 0]
IsFree(slot) == slot = Free

NewSlot(weight) ==
  [live |-> TRUE, queue |-> << >>, weight |-> weight, credits |-> 0]

(* The outcome counts of a peer give the weight of its queue: the success  *)
(* rate in units of 1/MaxWeight, rounded half up, at least the default.    *)
WeightOf(health) ==
  LET total == health.ok + health.fail
      units == (2 * MaxWeight * health.ok + total) \div (2 * total)
  IN  IF total = 0 THEN DefaultWeight
      ELSE Max({DefaultWeight, units})

(* Registration takes the first freed place, or a new one.                 *)
PlaceFor(slots) ==
  LET free == {i \in DOMAIN slots : IsFree(slots[i])}
  IN  IF free = {} THEN Len(slots) + 1 ELSE Min(free)

Register(slots, weight) ==
  [i \in 1 .. Max({Len(slots), PlaceFor(slots)}) |->
     IF i = PlaceFor(slots) THEN NewSlot(weight) ELSE slots[i]]

SetWeight(slots, i, weight) ==
  IF i \in DOMAIN slots /\ ~ IsFree(slots[i])
  THEN [slots EXCEPT ![i].weight = weight]
  ELSE slots

(* try_send_drop_newest on the queue of a slot.                            *)
HasRoom(slots, i) == Len(slots[i].queue) < QueueCap

\* Mutant of Put: a stack.
PutFront(slots, i, item) ==
  [slots EXCEPT ![i].queue = << item >> \o @]

Put(slots, i, item) == [slots EXCEPT ![i].queue = Append(@, item)]

(* The sending half is dropped: what was queued stays for the drain.       *)
Hang(slots, i) == [slots EXCEPT ![i].live = FALSE]

-----------------------------------------------------------------------------
(* fair_wfq_take_one: scan the table once from the cursor; serve the first *)
(* slot with an item.  A slot scanned without an item loses its credits if *)
(* its sender lives, and is freed if not.                                  *)
Place(slots, cursor, step) == ((cursor + step) % Len(slots)) + 1

Backlogged(slot) == ~ IsFree(slot) /\ slot.queue # << >>

Passed(slot) ==
  IF ~ IsFree(slot) /\ slot.live THEN [slot EXCEPT !.credits = 0] ELSE Free

Refilled(slot) == IF slot.credits = 0 THEN slot.weight ELSE slot.credits

Served(slot) ==
  [slot EXCEPT !.queue = Tail(@), !.credits = Refilled(slot) - 1]

Steps(slots) == 0 .. Len(slots) - 1

Hits(slots, cursor) ==
  {step \in Steps(slots) : Backlogged(slots[Place(slots, cursor, step)])}

Reach(slots, cursor) ==
  LET hits == Hits(slots, cursor)
  IN  IF hits = {} THEN Len(slots) ELSE Min(hits)

HitPlace(slots, cursor) == Place(slots, cursor, Reach(slots, cursor))

Scanned(slots, cursor) ==
  {Place(slots, cursor, step) : step \in 0 .. Reach(slots, cursor) - 1}

\* Mutant of NextCursor: it stays when the credits are used up.
NextCursorStays(slots, cursor) ==
  HitPlace(slots, cursor) - 1

NextCursor(slots, cursor) ==
  LET i == HitPlace(slots, cursor)
  IN  IF Refilled(slots[i]) = 1 THEN i ELSE i - 1

(* item is << >> when nothing was found, and the cursor stays.             *)
TakeOne(slots, cursor) ==
  IF Hits(slots, cursor) = {}
  THEN [item   |-> << >>,
        slots  |-> [i \in DOMAIN slots |-> Passed(slots[i])],
        cursor |-> cursor]
  ELSE LET hit == HitPlace(slots, cursor)
       IN  [item   |-> << Head(slots[hit].queue) >>,
            slots  |-> [i \in DOMAIN slots |->
                          IF i = hit THEN Served(slots[i])
                          ELSE IF i \in Scanned(slots, cursor) THEN Passed(slots[i])
                          ELSE slots[i]],
            cursor |-> NextCursor(slots, cursor)]

=============================================================================
