------------------------------- MODULE Egress -------------------------------
(***************************************************************************)
(* The outbound half of the link bridge (aegis-relay/src/net.rs):          *)
(* spawn_outbound_dispatcher routes what the relay sends into one queue    *)
(* for each next hop, and its drain task forwards one packet at a time     *)
(* over pooled connections, with one retry over a fresh connection.        *)
(*                                                                         *)
(*   relay --outbound--> router --slots--> drain --pool--> next hops       *)
(*                         \--exits--> exit sink                           *)
(*                                                                         *)
(* The drain holds the bridge's random generator, a mutex shared with the  *)
(* gossip and cover dispatchers, for as long as a forward lasts.           *)
(*                                                                         *)
(* A write is 18 frames.  It ends well when the kernel took them all, and  *)
(* badly, with an I/O error or a timeout, somewhere before that.           *)
(***************************************************************************)
EXTENDS Integers, Sequences, FiniteSets, Functions

CONSTANTS
  Hop,          (* next hops a peeled packet may name                       *)
  Settings,     (* peer tables, with or without an exit sink, to choose from *)
  OutboundCap,  (* RELAY_CHANNEL_CAPACITY, 64                               *)
  ExitCap,      (* the exit sink's channel, RELAY_CHANNEL_CAPACITY          *)
  QueueCap,     (* PER_PEER_OUTBOUND_CAPACITY, 16                           *)
  MaxWeight,    (* MAX_PEER_QUEUE_WEIGHT, 8                                 *)
  MaxPackets    (* bound of the model: packets the relay sends              *)

ASSUME EgressAssumption ==
  /\ IsFiniteSet(Hop)
  /\ Settings \subseteq [peers : SUBSET Hop, exitSink : BOOLEAN]
  /\ {OutboundCap, ExitCap, QueueCap, MaxWeight, MaxPackets} \subseteq Nat \ {0}

\* A packet is [hop, number]; number: how many packets for this hop the relay had sent,
\* with this one.
FQ == INSTANCE FairQueue

VARIABLES
  peers,     (* the peer table                                              *)
  place,     (* peer -> its slot: the order in which a hash map lists them  *)
  exitSink,  (* an exit sink is configured                                  *)
  outbound,  (* the channel from the relay                                  *)
  relayUp,   (* the relay holds the sender of that channel                  *)
  router,    (* where the routing task is                                   *)
  routing,   (* the packet it holds: at most one                            *)
  exits,     (* packets in the channel to the exit sink                     *)
  slots,     (* the slot table of the fair hub                              *)
  permit,    (* a stored wake-up of the hub                                 *)
  drain,     (* where the drain task is                                     *)
  cursor,    (* its place in the round                                      *)
  holding,   (* the packet it forwards: at most one                         *)
  rng,       (* who holds the random generator                              *)
  pool,      (* peer -> what its pooled connection is worth                 *)
  tally,     (* peer -> outcomes this dispatcher recorded in peer health    *)
  sent,      (* history: hop -> packets the relay sent                      *)
  arrived,   (* history: peer -> number of its last packet that arrived     *)
  counts     (* history: packets that ended at the router, by how           *)

configVars == << peers, place, exitSink >>
relayVars  == << relayUp, sent >>
routerVars == << outbound, router, routing, exits, counts >>
hubVars    == << slots, permit >>
drainVars  == << drain, cursor, holding >>
linkVars   == << rng, pool, tally, arrived >>
vars == << configVars, relayVars, routerVars, hubVars, drainVars, linkVars >>

(* router: recv, exiting, putting, notifying, flagged, joining, ended.     *)
(*                                                                         *)
(* drain: scan, then empty, miss, polling (found nothing, and has not yet  *)
(* polled its notification), parked (waits for it alone), dozing (for 5 ms *)
(* at most); locking, opening, writing, reopening, rewriting: forwards the *)
(* packet it holds; stopped.                                               *)
(*                                                                         *)
(* pool: none, no entry; clean, nothing but whole packets went over it;    *)
(* stale, it is dead and nobody here knows; torn, it lives, and what was   *)
(* written last ends inside a packet.                                      *)

\* Slots are registered in the order the hash map lists the peers.
SlotOrder(table) ==
  CHOOSE f \in [table -> 1 .. Cardinality(table)] : IsInjective(f)

Init ==
  /\ \E setting \in Settings :
       peers = setting.peers /\ exitSink = setting.exitSink
  /\ place = SlotOrder(peers)
  /\ outbound = << >> /\ relayUp = TRUE
  /\ router = "recv" /\ routing = << >>
  /\ exits = 0
  /\ slots = [i \in 1 .. Cardinality(peers) |-> FQ!NewSlot(FQ!DefaultWeight)]
  /\ permit = (peers # {})
  /\ drain = "scan" /\ cursor = 0 /\ holding = << >>
  /\ rng = "free"
  /\ pool = [p \in peers |-> "none"]
  /\ tally = [p \in peers |-> [ok |-> 0, fail |-> 0]]
  /\ sent = [h \in Hop |-> 0]
  /\ arrived = [p \in peers |-> 0]
  /\ counts = [exited |-> 0, unrouted |-> 0, dropped |-> 0]

-----------------------------------------------------------------------------
(* The relay, and the exit sink.                                           *)
SumSent == SumFunction(sent)

RelaySends(h) ==
  /\ relayUp
  /\ Len(outbound) < OutboundCap
  /\ SumSent < MaxPackets
  /\ sent' = [sent EXCEPT ![h] = @ + 1]
  /\ outbound' = Append(outbound, [hop |-> h, number |-> sent[h] + 1])
  /\ UNCHANGED << configVars, relayUp, router, routing, exits, counts,
                  hubVars, drainVars, linkVars >>

RelayStops ==
  /\ relayUp
  /\ relayUp' = FALSE
  /\ UNCHANGED << configVars, sent, routerVars, hubVars, drainVars, linkVars >>

ExitTakes ==
  /\ exits > 0
  /\ exits' = exits - 1
  /\ UNCHANGED << configVars, relayVars, outbound, router, routing, counts,
                  hubVars, drainVars, linkVars >>

-----------------------------------------------------------------------------
(* The router: the loop of spawn_outbound_dispatcher.                      *)
Count(what) == counts' = [counts EXCEPT ![what] = @ + 1]

NotifyOne == permit' = TRUE

RouteExit ==
  /\ router = "recv"
  /\ outbound # << >>
  /\ Head(outbound).hop \notin peers
  /\ outbound' = Tail(outbound)
  /\ \/ /\ exitSink
        /\ router' = "exiting"
        /\ routing' = << Head(outbound) >>
        /\ UNCHANGED counts
     \/ /\ ~ exitSink
        /\ Count("unrouted")
        /\ UNCHANGED << router, routing >>
  /\ UNCHANGED << configVars, relayVars, exits, hubVars, drainVars, linkVars >>

(* tx.send(..).await waits for room.                                       *)
ExitSend ==
  /\ router = "exiting"
  /\ exits < ExitCap
  /\ exits' = exits + 1
  /\ router' = "recv"
  /\ routing' = << >>
  /\ Count("exited")
  /\ UNCHANGED << configVars, relayVars, outbound, hubVars, drainVars, linkVars >>

(* The next hop's queue gets the weight its health has now; other tasks    *)
(* record outcomes of the same peer, so any weight may come of it.         *)
RoutePeer ==
  /\ router = "recv"
  /\ outbound # << >>
  /\ Head(outbound).hop \in peers
  /\ outbound' = Tail(outbound)
  /\ routing' = << Head(outbound) >>
  /\ router' = "putting"
  /\ \E w \in FQ!Weights : slots' = FQ!SetWeight(slots, place[Head(outbound).hop], w)
  /\ UNCHANGED << configVars, relayVars, exits, counts, permit, drainVars, linkVars >>

RouterPuts ==
  LET i == place[routing[1].hop]
  IN  /\ router = "putting"
      /\ router' = "notifying"
      /\ routing' = << >>
      /\ \/ /\ FQ!HasRoom(slots, i)
            /\ slots' = FQ!Put(slots, i, routing[1])
            /\ UNCHANGED counts
         \/ /\ ~ FQ!HasRoom(slots, i)
            /\ Count("dropped")
            /\ UNCHANGED slots
      /\ UNCHANGED << configVars, relayVars, outbound, exits, permit, drainVars, linkVars >>

\* Mutant of RouterNotifies: nobody is woken at the end.
RouterEndsQuietly ==
  /\ router \in {"notifying", "flagged"}
  /\ router' = IF router = "notifying" THEN "recv" ELSE "joining"
  /\ IF router = "notifying" THEN NotifyOne ELSE UNCHANGED permit
  /\ UNCHANGED << configVars, relayVars, outbound, routing, exits, counts,
                  slots, drainVars, linkVars >>

RouterNotifies ==
  /\ router \in {"notifying", "flagged"}
  /\ router' = IF router = "notifying" THEN "recv" ELSE "joining"
  /\ NotifyOne
  /\ UNCHANGED << configVars, relayVars, outbound, routing, exits, counts,
                  slots, drainVars, linkVars >>

(* The relay is gone and its channel is empty: router_done is set, then    *)
(* the drain is woken and awaited.                                         *)
RouterEnds ==
  /\ router = "recv"
  /\ ~ relayUp /\ outbound = << >>
  /\ router' = "flagged"
  /\ UNCHANGED << configVars, relayVars, outbound, routing, exits, counts,
                  hubVars, drainVars, linkVars >>

RouterJoins ==
  /\ router = "joining"
  /\ drain = "stopped"
  /\ router' = "ended"
  /\ UNCHANGED << configVars, relayVars, outbound, routing, exits, counts,
                  hubVars, drainVars, linkVars >>

RouterDone == router \in {"flagged", "joining", "ended"}

-----------------------------------------------------------------------------
(* The drain: what to forward next.                                        *)
AllSlotsEmpty == \A i \in DOMAIN slots : slots[i].queue = << >>

MayStop == RouterDone /\ AllSlotsEmpty

DrainStops ==
  /\ drain \in {"scan", "miss"}
  /\ MayStop
  /\ drain' = "stopped"
  /\ UNCHANGED << configVars, relayVars, routerVars, hubVars, cursor, holding, linkVars >>

DrainScans ==
  LET take == FQ!TakeOne(slots, cursor)
  IN  /\ drain = "scan"
      /\ ~ MayStop
      /\ \/ /\ slots = << >>
            /\ drain' = "empty"
            /\ UNCHANGED << slots, cursor, holding >>
         \/ /\ slots # << >>
            /\ slots' = take.slots
            /\ cursor' = take.cursor
            /\ holding' = take.item
            /\ drain' = IF take.item = << >> THEN "miss" ELSE "locking"
      /\ UNCHANGED << configVars, relayVars, routerVars, permit, linkVars >>

DrainLooksAgain ==
  /\ drain = "miss"
  /\ ~ MayStop
  /\ drain' = "polling"
  /\ UNCHANGED << configVars, relayVars, routerVars, hubVars, cursor, holding, linkVars >>

DrainPolls ==
  /\ drain \in {"empty", "polling"}
  /\ drain' = IF permit THEN "scan" ELSE IF drain = "empty" THEN "parked" ELSE "dozing"
  /\ permit' = FALSE
  /\ UNCHANGED << configVars, relayVars, routerVars, slots, cursor, holding, linkVars >>

DrainWakes ==
  /\ \/ drain \in {"parked", "dozing"} /\ permit /\ permit' = FALSE
     \/ drain = "dozing" /\ UNCHANGED permit          \* 5 ms have passed
  /\ drain' = "scan"
  /\ UNCHANGED << configVars, relayVars, routerVars, slots, cursor, holding, linkVars >>

-----------------------------------------------------------------------------
(* The drain: forward_to_peer, under the lock of the random generator.     *)
Peer == holding[1].hop

DrainLocks ==
  /\ drain = "locking"
  /\ rng = "free"
  /\ rng' = "drain"
  /\ drain' = "opening"
  /\ UNCHANGED << configVars, relayVars, routerVars, hubVars, cursor, holding,
                  pool, tally, arrived >>

(* The forward is over, one way or the other: one outcome is recorded.     *)
Record(outcome) == tally' = [tally EXCEPT ![Peer][outcome] = @ + 1]

Finish(outcome) ==
  /\ Record(outcome)
  /\ rng' = "free"
  /\ holding' = << >>
  /\ drain' = "scan"

(* get_or_handshake: a pooled connection is used as it is; if there is     *)
(* none, connecting and the handshake may fail.                            *)
DrainOpens ==
  /\ drain = "opening"
  /\ \/ /\ pool[Peer] # "none"
        /\ drain' = "writing"
        /\ UNCHANGED << pool, tally, rng, holding >>
     \/ /\ pool[Peer] = "none"
        /\ pool' = [pool EXCEPT ![Peer] = "clean"]
        /\ drain' = "writing"
        /\ UNCHANGED << tally, rng, holding >>
     \/ /\ pool[Peer] = "none"
        /\ Finish("fail")
        /\ UNCHANGED pool
  /\ UNCHANGED << configVars, relayVars, routerVars, hubVars, cursor, arrived >>

(* All frames were taken.  They make a packet for the peer only if it      *)
(* still reads and they start where a packet may start; a peer that cannot *)
(* read a frame closes the connection.                                     *)
WriteWhole ==
  /\ drain \in {"writing", "rewriting"}
  /\ arrived' = [arrived EXCEPT ![Peer] =
                   IF pool[Peer] = "clean" THEN holding[1].number ELSE @]
  /\ pool' = [pool EXCEPT ![Peer] = IF @ = "torn" THEN "stale" ELSE @]
  /\ Finish("ok")
  /\ UNCHANGED << configVars, relayVars, routerVars, hubVars, cursor >>

(* An I/O error leaves the connection dead; a timeout leaves it as it was, *)
(* or with part of the packet on it.                                       *)
Broken == {pool[Peer], "stale", "torn"}

\* Mutant of WriteBreaks: the first failure is recorded already.
WriteBreaksRecorded ==
  /\ drain = "writing"
  /\ \E c \in Broken : pool' = [pool EXCEPT ![Peer] = c]
  /\ Record("fail")
  /\ drain' = "reopening"
  /\ UNCHANGED << configVars, relayVars, routerVars, hubVars, cursor, holding,
                  rng, arrived >>

WriteBreaks ==
  /\ drain = "writing"
  /\ \E c \in Broken : pool' = [pool EXCEPT ![Peer] = c]
  /\ drain' = "reopening"
  /\ UNCHANGED << configVars, relayVars, routerVars, hubVars, cursor, holding,
                  rng, tally, arrived >>

(* A frame that cannot be sealed ends the forward at once: nothing but an   *)
(* I/O error or a timeout is retried.  Frames before it are on the line.   *)
SealFails ==
  /\ drain = "writing"
  /\ \E c \in {pool[Peer], "torn"} : pool' = [pool EXCEPT ![Peer] = c]
  /\ Finish("fail")
  /\ UNCHANGED << configVars, relayVars, routerVars, hubVars, cursor, arrived >>

(* reconnect: the entry is removed first, so a failure leaves none.        *)
Reopen ==
  /\ drain = "reopening"
  /\ \/ /\ pool' = [pool EXCEPT ![Peer] = "clean"]
        /\ drain' = "rewriting"
        /\ UNCHANGED << tally, rng, holding >>
     \/ /\ pool' = [pool EXCEPT ![Peer] = "none"]
        /\ Finish("fail")
  /\ UNCHANGED << configVars, relayVars, routerVars, hubVars, cursor, arrived >>

(* The second failure ends the forward; its connection stays in the pool.  *)
RewriteBreaks ==
  /\ drain = "rewriting"
  /\ \E c \in Broken : pool' = [pool EXCEPT ![Peer] = c]
  /\ Finish("fail")
  /\ UNCHANGED << configVars, relayVars, routerVars, hubVars, cursor, arrived >>

-----------------------------------------------------------------------------
(* The peer restarts, times out or hangs up.                               *)
PeerCloses(p) ==
  /\ pool[p] \in {"clean", "torn"}
  /\ pool' = [pool EXCEPT ![p] = "stale"]
  /\ UNCHANGED << configVars, relayVars, routerVars, hubVars, drainVars,
                  rng, tally, arrived >>

(* The gossip and cover dispatchers take turns with the generator.         *)
OthersLock ==
  /\ rng = "free"
  /\ rng' = "others"
  /\ UNCHANGED << configVars, relayVars, routerVars, hubVars, drainVars,
                  pool, tally, arrived >>

OthersUnlock ==
  /\ rng = "others"
  /\ rng' = "free"
  /\ UNCHANGED << configVars, relayVars, routerVars, hubVars, drainVars,
                  pool, tally, arrived >>

-----------------------------------------------------------------------------
RouterStep ==
  \/ RouteExit \/ ExitSend \/ RoutePeer \/ RouterPuts \/ RouterNotifies
  \/ RouterEnds \/ RouterJoins

ForwardStep ==
  DrainOpens \/ WriteWhole \/ WriteBreaks \/ SealFails \/ Reopen \/ RewriteBreaks

DrainStep ==
  \/ DrainStops \/ DrainScans \/ DrainLooksAgain \/ DrainPolls \/ DrainWakes
  \/ ForwardStep

Next ==
  \/ \E h \in Hop : RelaySends(h)
  \/ RelayStops \/ ExitTakes
  \/ RouterStep
  \/ DrainStep \/ DrainLocks
  \/ \E p \in peers : PeerCloses(p)
  \/ OthersLock \/ OthersUnlock

Spec == Init /\ [][Next]_vars

(* Runnable tasks run, and every connect, handshake and write ends: each   *)
(* has a timeout or an operating system's error.  The mutex hands over in  *)
(* the order of asking, so a task that waits for it gets it although       *)
(* others come and go.  The relay need not stop.                           *)
Fairness ==
  /\ WF_vars(RouterStep)
  /\ WF_vars(DrainStep)
  /\ SF_vars(DrainLocks)
  /\ WF_vars(OthersUnlock)
  /\ WF_vars(ExitTakes)

FairSpec == Spec /\ Fairness

-----------------------------------------------------------------------------
(* Every packet the relay sent is on its way, or left for the exit, or was *)
(* dropped for want of a route or of room, or ended in exactly one outcome *)
(* recorded for its next hop, whatever failed and was retried.             *)
Accounted ==
  SumSent = Len(outbound) + Len(routing) + Len(holding) + SumFunction(counts)
            + SumFunction([i \in DOMAIN slots |-> Len(slots[i].queue)])
            + SumFunction([p \in peers |-> tally[p].ok + tally[p].fail])

(* A peer's packets arrive in the order the relay sent them, none twice:   *)
(* a packet that is written again has not arrived before.                  *)
PeerOrder ==
  \A p \in peers :
    LET line == << [hop |-> p, number |-> arrived[p]] >> \o holding
                  \o slots[place[p]].queue \o routing \o outbound
        mine == {k \in DOMAIN line : line[k].hop = p}
    IN  \A j, k \in mine : j < k => line[j].number < line[k].number

(* When the relay goes away, the dispatcher ends, and not before it has    *)
(* finished with every packet in the channel and in the queues.            *)
EndsAfterRelay == ~ relayUp ~> router = "ended" /\ outbound = << >> /\ AllSlotsEmpty

(* What the peer health tracker calls a successful send was written where  *)
(* the peer can read it.  The code writes the next packet on a connection  *)
(* a failed retry left in the middle of a frame, and records a success.    *)
SuccessIsReadable ==
  [][\A p \in peers : tally'[p].ok > tally[p].ok => pool[p] # "torn"]_vars
=============================================================================
