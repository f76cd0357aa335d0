---------------------------- MODULE Dispatchers -----------------------------
(***************************************************************************)
(* The gossip and cover dispatchers of the link bridge                     *)
(* (aegis-relay/src/net.rs).  Each is a task with a queue and a connection *)
(* pool of its own; both, and the drain of the outbound dispatcher, take   *)
(* turns with the one random generator of the bridge and keep it while     *)
(* they connect, shake hands, write and write again.  What the drain does  *)
(* in its turn is the subject of Egress.                                   *)
(*                                                                         *)
(* A mutex of tokio is handed over in the order of asking: turns lists who *)
(* asked, and the first of them has it.                                    *)
(***************************************************************************)
EXTENDS Integers, Sequences

CONSTANTS
  PeerTables, (* peer tables considered: relays by address                *)
  Addressed,  (* relays a gossip cell may be addressed to                 *)
  BurstLen,   (* cells of a cover burst                                   *)
  MaxItems    (* bound of the model: items that are sent to a dispatcher  *)

ASSUME DispatchersAssumption == BurstLen \in Nat

VARIABLES
  table,   (* the peer table                                              *)
  inbox,   (* lane -> targets of the items in its channel                 *)
  lane,    (* lane -> what its task does                                  *)
  turns,   (* who asked for the generator, the holder first               *)
  links,   (* lane -> peer -> its pooled connection: none, live, torn     *)
           (* behind half a frame, dead                                   *)
  stalled, (* peers that stopped reading, their buffers full              *)
  health,  (* lane -> outcomes it recorded                                *)
  covered, (* cells the trace counts as cover                             *)
  offered, (* history: lane -> items sent to it                           *)
  skipped  (* history: lane -> items without a peer to write to           *)

dispVars == <<table, inbox, lane, turns, links, stalled, health, covered, offered, skipped>>

Lane == {"gossip", "cover"}
Tabled == {table[i] : i \in DOMAIN table}
Whole(l) == IF l = "cover" THEN BurstLen ELSE 1

\* sent: cells of the item the loop has written; here: those of them that went
\* over the connection in use.
Resting == [at |-> "recv", to |-> "none", sent |-> 0, here |-> 0]

DispInit ==
  /\ table \in PeerTables
  /\ inbox = [l \in Lane |-> <<>>]
  /\ lane = [l \in Lane |-> Resting]
  /\ turns = <<>>
  /\ links = [l \in Lane |-> [p \in Tabled |-> "none"]]
  /\ stalled = {}
  /\ health = [l \in Lane |-> [ok |-> 0, fail |-> 0]]
  /\ covered = 0
  /\ offered = [l \in Lane |-> 0] /\ skipped = [l \in Lane |-> 0]

-----------------------------------------------------------------------------
\* The relay emits a cover burst, the health loop an advert for one peer.
Offer(l, to) ==
  /\ offered[l] < MaxItems
  /\ offered' = [offered EXCEPT ![l] = @ + 1]
  /\ inbox' = [inbox EXCEPT ![l] = Append(@, to)]
  /\ UNCHANGED <<table, lane, turns, links, stalled, health, covered, skipped>>

\* Cover goes to the peer with the lowest address.
PickCoverEgress == IF table = <<>> THEN "none" ELSE table[1]

PeerFor(l) == IF l = "cover" THEN PickCoverEgress ELSE Head(inbox[l])

\* An item without a peer is skipped; for another one the generator is asked for.
TakeItem(l) ==
  /\ lane[l].at = "recv" /\ inbox[l] # <<>>
  /\ inbox' = [inbox EXCEPT ![l] = Tail(@)]
  /\ IF PeerFor(l) \in Tabled
     THEN /\ lane' = [lane EXCEPT ![l] = [Resting EXCEPT !.at = "opening", !.to = PeerFor(l)]]
          /\ turns' = Append(turns, l)
          /\ UNCHANGED skipped
     ELSE /\ skipped' = [skipped EXCEPT ![l] = @ + 1]
          /\ UNCHANGED <<lane, turns>>
  /\ UNCHANGED <<table, links, stalled, health, covered, offered>>

Holds(l) == turns # <<>> /\ Head(turns) = l

\* One outcome is recorded, and the generator is handed on.
Settle(l, outcome) ==
  /\ health' = [health EXCEPT ![l][outcome] = @ + 1]
  /\ lane' = [lane EXCEPT ![l] = Resting]
  /\ turns' = Tail(turns)

Writes(l, at) ==
  lane' = [lane EXCEPT ![l] = [at |-> at, to |-> lane[l].to, sent |-> 0, here |-> 0]]

\* get_or_handshake: a pooled connection is not looked at; a connect or a handshake
\* that fails, or that times out with a peer that does not read, ends the item.
OpenLink(l) ==
  LET to == lane[l].to
  IN  /\ Holds(l) /\ lane[l].at = "opening"
      /\ \/ /\ links[l][to] # "none" \/ to \notin stalled
            /\ links' = [links EXCEPT ![l][to] = IF @ = "none" THEN "live" ELSE @]
            /\ Writes(l, "writing")
            /\ UNCHANGED <<turns, health>>
         \/ /\ links[l][to] = "none"
            /\ Settle(l, "fail")
            /\ UNCHANGED links
      /\ UNCHANGED <<table, inbox, stalled, covered, offered, skipped>>

\* Mutant of Reconnect: the burst goes on where the old connection broke.
ReconnectResumes(l) ==
  LET to == lane[l].to
  IN  /\ Holds(l) /\ lane[l].at = "reopening"
      /\ \/ /\ to \notin stalled
            /\ links' = [links EXCEPT ![l][to] = "live"]
            /\ lane' = [lane EXCEPT ![l].at = "rewriting", ![l].here = 0]
            /\ UNCHANGED <<turns, health>>
         \/ /\ links' = [links EXCEPT ![l][to] = "none"]
            /\ Settle(l, "fail")
      /\ UNCHANGED <<table, inbox, stalled, covered, offered, skipped>>

\* reconnect: the entry goes first, so a failure leaves none.
Reconnect(l) ==
  LET to == lane[l].to
  IN  /\ Holds(l) /\ lane[l].at = "reopening"
      /\ \/ /\ to \notin stalled
            /\ links' = [links EXCEPT ![l][to] = "live"]
            /\ Writes(l, "rewriting")
            /\ UNCHANGED <<turns, health>>
         \/ /\ links' = [links EXCEPT ![l][to] = "none"]
            /\ Settle(l, "fail")
      /\ UNCHANGED <<table, inbox, stalled, covered, offered, skipped>>

\* write_cells_on_stream, one cell, then the flush behind the last one.  The
\* kernel takes cells for a dead connection too.
WriteCell(l) ==
  /\ Holds(l) /\ lane[l].at \in {"writing", "rewriting"}
  /\ lane[l].sent < Whole(l)
  /\ lane[l].to \notin stalled
  /\ lane' = [lane EXCEPT ![l].sent = @ + 1, ![l].here = @ + 1]
  /\ UNCHANGED <<table, inbox, turns, links, stalled, health, covered, offered, skipped>>

WriteDone(l) ==
  /\ Holds(l) /\ lane[l].at \in {"writing", "rewriting"}
  /\ lane[l].sent = Whole(l)
  /\ Settle(l, "ok")
  /\ covered' = IF l = "cover" THEN covered + lane[l].here ELSE covered
  /\ UNCHANGED <<table, inbox, links, stalled, offered, skipped>>

\* Mutant of CanBreak: a write has no timeout, only a dead connection ends it.
CanBreakWhenDead(l) == links[l][lane[l].to] = "dead"

\* Part of a frame went over a connection that holds.
Tears(l) ==
  LET to == lane[l].to
  IN  links[l][to] = "live" /\ links' = [links EXCEPT ![l][to] = "torn"]

\* A dead connection fails a write, and a peer that does not read makes it time out.
CanBreak(l) == links[l][lane[l].to] = "dead" \/ lane[l].to \in stalled

\* The first failed write is followed by one more attempt, the second is the end and
\* leaves the connection in the pool, behind part of a frame or none.
WriteFails(l) ==
  /\ Holds(l) /\ lane[l].at \in {"writing", "rewriting"}
  /\ lane[l].sent < Whole(l)
  /\ CanBreak(l)
  /\ IF lane[l].at = "writing"
     THEN lane' = [lane EXCEPT ![l].at = "reopening"] /\ UNCHANGED <<turns, links, health>>
     ELSE Settle(l, "fail") /\ (UNCHANGED links \/ Tears(l))
  /\ UNCHANGED <<table, inbox, stalled, covered, offered, skipped>>

\* An error of the seal is no error of the connection: no second attempt.
SealFails(l) ==
  /\ Holds(l) /\ lane[l].at \in {"writing", "rewriting"}
  /\ lane[l].sent < Whole(l)
  /\ Settle(l, "fail")
  /\ UNCHANGED <<table, inbox, links, stalled, covered, offered, skipped>>

-----------------------------------------------------------------------------
\* The drain of the outbound dispatcher asks, forwards a packet and is done.
DrainAsks ==
  /\ \A i \in DOMAIN turns : turns[i] # "drain"
  /\ turns' = Append(turns, "drain")
  /\ UNCHANGED <<table, inbox, lane, links, stalled, health, covered, offered, skipped>>

DrainReleases ==
  /\ Holds("drain") /\ turns' = Tail(turns)
  /\ UNCHANGED <<table, inbox, lane, links, stalled, health, covered, offered, skipped>>

PeerHangsUp(p) ==
  /\ \E l \in Lane : links[l][p] \in {"live", "torn"}
  /\ links' = [l \in Lane |-> [links[l] EXCEPT ![p] = IF @ = "none" THEN @ ELSE "dead"]]
  /\ UNCHANGED <<table, inbox, lane, turns, stalled, health, covered, offered, skipped>>

PeerStallsOrReads(p) ==
  /\ stalled' = IF p \in stalled THEN stalled \ {p} ELSE stalled \cup {p}
  /\ UNCHANGED <<table, inbox, lane, turns, links, health, covered, offered, skipped>>

LaneStep(l) ==
  \/ TakeItem(l) \/ OpenLink(l) \/ Reconnect(l)
  \/ WriteCell(l) \/ WriteDone(l) \/ WriteFails(l)

DispNext ==
  \/ \E to \in Addressed : Offer("gossip", to)
  \/ Offer("cover", "none")
  \/ \E l \in Lane : LaneStep(l) \/ SealFails(l)
  \/ DrainAsks \/ DrainReleases
  \/ \E p \in Tabled : PeerHangsUp(p) \/ PeerStallsOrReads(p)

DispSpec == DispInit /\ [][DispNext]_dispVars

\* The tasks run, every attempt to connect and every write ends, and the drain's
\* turn does (Egress).  No seal has to fail: nothing rests on SealFails.
DispFairness ==
  /\ \A l \in Lane : WF_dispVars(LaneStep(l))
  /\ WF_dispVars(DrainReleases)

-----------------------------------------------------------------------------
\* A burst the trace counts went over one connection from its first cell to its
\* last, also when the first attempt broke halfway (write_cover_cells): half a burst
\* is no cover for anybody.  Every item with a peer has one outcome in peer health.
BurstsWhole ==
  /\ covered = BurstLen * health["cover"].ok
  /\ \A l \in Lane : offered[l] = health[l].ok + health[l].fail + skipped[l] + Len(inbox[l])
                                  + (IF lane[l].at = "recv" THEN 0 ELSE 1)

\* The drain of the outbound dispatcher gets the generator it waits for, whatever the
\* peers of the other two do (rng.lock in spawn_gossip_dispatcher and
\* spawn_cover_dispatcher): a peer that stops reading holds up the relay's own packets
\* for two write timeouts, and no longer.
GeneratorComesBack == (\E i \in DOMAIN turns : turns[i] = "drain") ~> Holds("drain")
=============================================================================
