----------------------------- MODULE FairInbound ----------------------------
(***************************************************************************)
(* The fair inbound hub of the link bridge (aegis-relay/src/net.rs): the   *)
(* listener's connections each put packets in a queue of their own, and    *)
(* one drain task moves them to the channel the relay reads.               *)
(*                                                                         *)
(* Concurrent actors: the listener (Accept, Reject), one task for each     *)
(* connection (Register, Ready, Enqueue, Notify, Close), the drain, the    *)
(* relay at the far end.  The slot table is behind a lock; the queues      *)
(* themselves are not, so connections put packets while the drain holds    *)
(* it.  Each queue operation is linearizable, and a scan of the table is   *)
(* taken as one step: a packet put during a scan counts as put before it   *)
(* or after it.                                                            *)
(*                                                                         *)
(* A connection is one TCP connection and never comes back.  Its packets   *)
(* are numbered in the order it reassembled them.                          *)
(***************************************************************************)
EXTENDS Integers, Sequences, FiniteSets, Functions

CONSTANTS
  Conn,            (* the TCP connections of this instance                  *)
  MaxConnections,  (* max_inbound_connections, 256                          *)
  QueueCap,        (* PER_PEER_INBOUND_CAPACITY, 16                         *)
  SharedCap,       (* RELAY_CHANNEL_CAPACITY, 64                            *)
  MaxWeight,       (* MAX_PEER_QUEUE_WEIGHT, 8                              *)
  Health,          (* outcome counts a peer may have after its handshake    *)
  RelayMayStop,    (* the relay's receiver may be dropped in this instance  *)
  MaxPackets       (* bound of the model: packets of all connections        *)

ASSUME FairInboundAssumption ==
  /\ IsFiniteSet(Conn)
  /\ {MaxConnections, QueueCap, SharedCap, MaxWeight, MaxPackets} \subseteq Nat \ {0}
  /\ Health \subseteq [ok : Nat, fail : Nat]
  /\ RelayMayStop \in BOOLEAN

Packet == [from : Conn, number : 1 .. MaxPackets]

FQ == INSTANCE FairQueue

VARIABLES
  slots,     (* the slot table, behind its lock                             *)
  permit,    (* a stored wake-up of hub.notify                              *)
  conn,      (* connection -> how far its task has come                     *)
  place,     (* connection -> the slot it was registered at, 0 for none     *)
  sent,      (* connection -> packets it has reassembled                    *)
  drain,     (* the drain task: where it is                                 *)
  cursor,    (* its place in the round                                      *)
  holding,   (* the packet it took and has not passed on: at most one       *)
  shared,    (* the relay's inbound channel                                 *)
  relayUp,   (* the relay holds the receiver of that channel                *)
  dropped,   (* QueueDropStats                                              *)
  got,       (* connection -> number of its last packet the relay got       *)
  gone,      (* history: packets the relay got, or that the drain dropped   *)
  bypass     (* history: connection -> packets of others the drain took     *)
             (*          since this one became backlogged or was served     *)

connVars  == << conn, place, sent >>
drainVars == << drain, cursor, holding >>
relayVars == << shared, relayUp, got >>
vars == << slots, permit, connVars, drainVars, relayVars, dropped, gone, bypass >>

(* conn: new, accepted, registered, ready, notifying, closed, rejected.    *)
(*                                                                         *)
(* drain: scan, about to lock the table; deliver, holds a packet; empty,   *)
(* miss, saw no slot, or no packet, and has not yet polled its             *)
(* notification; parked, waits for it alone; dozing, waits for it or for   *)
(* 5 ms; stopped.                                                          *)

Live == {c \in Conn : conn[c] \in {"accepted", "registered", "ready", "notifying"}}

Init ==
  /\ slots = << >>
  /\ permit = FALSE
  /\ conn = [c \in Conn |-> "new"]
  /\ place = [c \in Conn |-> 0]
  /\ sent = [c \in Conn |-> 0]
  /\ drain = "scan"
  /\ cursor = 0
  /\ holding = << >>
  /\ shared = << >>
  /\ relayUp = TRUE
  /\ dropped = 0
  /\ got = [c \in Conn |-> 0]
  /\ gone = 0
  /\ bypass = [c \in Conn |-> 0]

-----------------------------------------------------------------------------
(* notify_one wakes the drain if it waits, and is stored if it does not.   *)
\* Mutant of NotifyOne: it wakes a drain that waits and is not stored.
NotifyOneUnstored == permit' = (permit \/ drain \in {"parked", "dozing"})

NotifyOne == permit' = TRUE

(* The listener takes a connection if a permit of the semaphore is left.   *)
Accept(c) ==
  /\ conn[c] = "new"
  /\ Cardinality(Live) < MaxConnections
  /\ conn' = [conn EXCEPT ![c] = "accepted"]
  /\ UNCHANGED << slots, permit, place, sent, drainVars, relayVars, dropped, gone, bypass >>

Reject(c) ==
  /\ conn[c] = "new"
  /\ Cardinality(Live) >= MaxConnections
  /\ conn' = [conn EXCEPT ![c] = "rejected"]
  /\ UNCHANGED << slots, permit, place, sent, drainVars, relayVars, dropped, gone, bypass >>

RegisterConn(c) ==
  /\ conn[c] = "accepted"
  /\ conn' = [conn EXCEPT ![c] = "registered"]
  /\ place' = [place EXCEPT ![c] = FQ!PlaceFor(slots)]
  /\ slots' = FQ!Register(slots, FQ!DefaultWeight)
  /\ NotifyOne
  /\ UNCHANGED << sent, drainVars, relayVars, dropped, gone, bypass >>

(* The handshake ended well: the peer's health gives its weight.           *)
Ready(c) ==
  /\ conn[c] = "registered"
  /\ conn' = [conn EXCEPT ![c] = "ready"]
  /\ \E h \in Health : slots' = FQ!SetWeight(slots, place[c], FQ!WeightOf(h))
  /\ UNCHANGED << permit, place, sent, drainVars, relayVars, dropped, gone, bypass >>

SumSent == SumFunction(sent)

(* try_enqueue, first half: put the packet or drop it.                     *)
Enqueue(c) ==
  LET packet == [from |-> c, number |-> sent[c] + 1]
  IN  /\ conn[c] = "ready"
      /\ SumSent < MaxPackets
      /\ sent' = [sent EXCEPT ![c] = @ + 1]
      /\ conn' = [conn EXCEPT ![c] = "notifying"]
      /\ \/ /\ FQ!HasRoom(slots, place[c])
            /\ slots' = FQ!Put(slots, place[c], packet)
            /\ UNCHANGED dropped
         \/ /\ ~ FQ!HasRoom(slots, place[c])
            /\ dropped' = dropped + 1
            /\ UNCHANGED slots
      /\ UNCHANGED << permit, place, drainVars, relayVars, gone, bypass >>

(* try_enqueue, second half: wake the drain, whatever came of the packet.  *)
Notify(c) ==
  /\ conn[c] = "notifying"
  /\ conn' = [conn EXCEPT ![c] = "ready"]
  /\ NotifyOne
  /\ UNCHANGED << slots, place, sent, drainVars, relayVars, dropped, gone, bypass >>

(* The connection's task ends: a failed handshake, a timeout, a bad frame, *)
(* or the peer hung up.  Its sender is dropped, then its permit; nobody is *)
(* notified.                                                               *)
Close(c) ==
  /\ conn[c] \in {"registered", "ready"}
  /\ conn' = [conn EXCEPT ![c] = "closed"]
  /\ slots' = FQ!Hang(slots, place[c])
  /\ UNCHANGED << permit, place, sent, drainVars, relayVars, dropped, gone, bypass >>

-----------------------------------------------------------------------------
(* The drain task.                                                         *)
SeesNoSlot ==
  /\ drain = "scan"
  /\ slots = << >>
  /\ drain' = "empty"
  /\ UNCHANGED << slots, permit, connVars, cursor, holding, relayVars, dropped, gone, bypass >>

(* What the scan does to the count of packets that went before a queue.    *)
Waiting(c) ==
  \E i \in DOMAIN slots, k \in 1 .. QueueCap :
    k <= Len(slots[i].queue) /\ slots[i].queue[k].from = c

CountBypass(from) ==
  bypass' = [c \in Conn |-> IF c # from /\ Waiting(c) THEN bypass[c] + 1 ELSE 0]

Scan ==
  LET take == FQ!TakeOne(slots, cursor)
  IN  /\ drain = "scan"
      /\ slots # << >>
      /\ slots' = take.slots
      /\ cursor' = take.cursor
      /\ holding' = take.item
      /\ \/ /\ take.item # << >>
            /\ drain' = "deliver"
            /\ CountBypass(take.item[1].from)
         \/ /\ take.item = << >>
            /\ drain' = "miss"
            /\ UNCHANGED bypass
      /\ UNCHANGED << permit, connVars, relayVars, dropped, gone >>

(* try_send_drop_newest on the relay's channel; if it is closed, the task  *)
(* returns and the packet goes with it.                                    *)
Deliver ==
  /\ drain = "deliver"
  /\ holding' = << >>
  /\ \/ /\ ~ relayUp
        /\ drain' = "stopped"
        /\ gone' = gone + 1
        /\ UNCHANGED << shared, dropped >>
     \/ /\ relayUp
        /\ Len(shared) < SharedCap
        /\ drain' = "scan"
        /\ shared' = shared \o holding
        /\ UNCHANGED << dropped, gone >>
     \/ /\ relayUp
        /\ Len(shared) >= SharedCap
        /\ drain' = "scan"
        /\ dropped' = dropped + 1
        /\ UNCHANGED << shared, gone >>
  /\ UNCHANGED << slots, permit, connVars, cursor, relayUp, got, bypass >>

(* First poll of the notification: a stored wake-up is taken at once.      *)
Poll ==
  /\ drain \in {"empty", "miss"}
  /\ drain' = IF permit THEN "scan" ELSE IF drain = "empty" THEN "parked" ELSE "dozing"
  /\ permit' = FALSE
  /\ UNCHANGED << slots, connVars, cursor, holding, relayVars, dropped, gone, bypass >>

Wake ==
  /\ drain \in {"parked", "dozing"}
  /\ permit
  /\ drain' = "scan"
  /\ permit' = FALSE
  /\ UNCHANGED << slots, connVars, cursor, holding, relayVars, dropped, gone, bypass >>

\* Mutant of FiveMillisecondsPass: the drain waits without a timeout.
NoTimeout == FALSE /\ UNCHANGED vars

FiveMillisecondsPass ==
  /\ drain = "dozing"
  /\ drain' = "scan"
  /\ UNCHANGED << slots, permit, connVars, cursor, holding, relayVars, dropped, gone, bypass >>

-----------------------------------------------------------------------------
(* The relay at the far end.                                               *)
RelayTakes ==
  /\ relayUp
  /\ shared # << >>
  /\ got' = [got EXCEPT ![Head(shared).from] = Head(shared).number]
  /\ shared' = Tail(shared)
  /\ gone' = gone + 1
  /\ UNCHANGED << slots, permit, connVars, drainVars, relayUp, dropped, bypass >>

RelayStops ==
  /\ RelayMayStop
  /\ relayUp
  /\ relayUp' = FALSE
  /\ gone' = gone + Len(shared)
  /\ shared' = << >>
  /\ UNCHANGED << slots, permit, connVars, drainVars, got, dropped, bypass >>

-----------------------------------------------------------------------------
ConnStep(c) ==
  \/ Accept(c) \/ Reject(c) \/ RegisterConn(c) \/ Ready(c)
  \/ Enqueue(c) \/ Notify(c) \/ Close(c)

DrainStep ==
  \/ SeesNoSlot \/ Scan \/ Deliver \/ Poll \/ Wake \/ FiveMillisecondsPass

Next ==
  \/ \E c \in Conn : ConnStep(c)
  \/ DrainStep
  \/ RelayTakes \/ RelayStops

Spec == Init /\ [][Next]_vars

(* Tasks that can run do run: the drain, and a connection between its      *)
(* permit and its registration or inside try_enqueue.  Peers owe nothing:  *)
(* no handshake need end, no packet need come, no connection need close.   *)
Fairness ==
  /\ WF_vars(DrainStep)
  /\ \A c \in Conn : WF_vars(RegisterConn(c)) /\ WF_vars(Notify(c))

FairSpec == Spec /\ Fairness

-----------------------------------------------------------------------------
(* Each connection's packets stay in the order it reassembled them, all    *)
(* the way to the relay.                                                   *)
PeerFifo ==
  \A c \in Conn :
    LET line == << [from |-> c, number |-> got[c]] >> \o shared \o holding
                  \o (IF place[c] = 0 THEN << >> ELSE slots[place[c]].queue)
        mine == {k \in DOMAIN line : line[k].from = c}
    IN  \A j, k \in mine : j < k => line[j].number < line[k].number

(* However others register, close, send and change weight, the drain takes *)
(* at most one full visit's worth of each other slot's packets between two *)
(* looks at a connection with packets queued.                              *)
BoundedBypass ==
  \A c \in Conn : bypass[c] <= (Len(slots) - 1) * MaxWeight \/ bypass[c] = 0

Queued(packet) ==
  \E i \in DOMAIN slots : \E k \in DOMAIN slots[i].queue : slots[i].queue[k] = packet

(* A queued packet is eventually taken by the drain, even if its           *)
(* connection has closed since, unless the relay is gone and the drain     *)
(* with it.                                                                *)
EveryPacketDrained ==
  \A packet \in Packet :
    Queued(packet) ~> (~ Queued(packet) \/ drain = "stopped")

Hung(i) == i \in DOMAIN slots /\ ~ FQ!IsFree(slots[i]) /\ ~ slots[i].live

(* The slot of a connection that closed is freed in the end, although      *)
(* closing wakes nobody: the drain must look again by itself.              *)
SlotsReclaimed ==
  \A i \in 1 .. Cardinality(Conn) : Hung(i) ~> (~ Hung(i) \/ drain = "stopped")

=============================================================================
