---------------------------- MODULE ClientSession ---------------------------
(***************************************************************************)
(* A paced client session (aegis-client/src): the session object its owner *)
(* calls (session.rs), the driver task (driver.rs) and the constant-rate   *)
(* emitter the driver owns (emitter.rs), over one TCP link.                *)
(*                                                                         *)
(*   owner --channel--> driver [emitter backlog] --one cell a tick--> wire *)
(*   owner <--coverDone, pending-- driver          owner --shutdown-->     *)
(*                                                                         *)
(* Owner and driver run on different threads: the owner's loop over the    *)
(* fragments of a packet interleaves with the driver cell by cell.  The    *)
(* watch channels hold their last value; a waiter that is woken looks at   *)
(* the value that is there when it runs.                                   *)
(***************************************************************************)
EXTENDS Integers, Sequences

CONSTANTS
  Fragments,    (* SPHINX_FRAGMENT_COUNT, 18                                *)
  MaxBacklog,   (* max_backlog of the channel and of the emitter, 256       *)
  CoverZero,    (* the values of cover_after_send.is_zero() configured      *)
  LinkMayFail,  (* a write may fail in this instance                        *)
  MaxSends      (* bound of the model: packets the owner sends              *)

ASSUME ClientSessionAssumption ==
  /\ {Fragments, MaxBacklog, MaxSends} \subseteq Nat \ {0}
  /\ CoverZero \subseteq BOOLEAN
  /\ LinkMayFail \in BOOLEAN

\* One fragment of one packet; dummy cells are not told apart.
Cell == [packet : 1 .. MaxSends, fragment : 1 .. Fragments]

VARIABLES
  owner,      (* where the caller of the session is                         *)
  sends,      (* packets begun                                              *)
  fragment,   (* fragments of the last one put on the channel               *)
  accepted,   (* history: cells put on the channel, over all packets        *)
  channel,    (* enqueue_tx -> enqueue_rx                                   *)
  coverDone,  (* the cover_done watch, written by both sides                *)
  pending,    (* the pending watch                                          *)
  shutdown,   (* the shutdown watch                                         *)
  driver,     (* where the driver task is                                   *)
  backlog,    (* the emitter's cell_queue                                   *)
  writing,    (* the real cell being written: at most one                   *)
  deadline,   (* cover_deadline: not set, running, passed                   *)
  sawReal,    (* saw_real_since_cover                                       *)
  coverZero,  (* cover_after_send is zero                                   *)
  wire,       (* history: the real cells written                            *)
  dropped     (* dropped_enqueue_count                                      *)

ownerVars   == << owner, sends, fragment, accepted, shutdown >>
emitterVars == << backlog, writing, wire, dropped >>
coverVars   == << deadline, sawReal, coverZero >>
vars == << ownerVars, channel, coverDone, pending, driver, emitterVars, coverVars >>

(* owner: idle, sending, waiting, draining, emptying, closing, closed,     *)
(* gone.  driver: running, ticking, flushing, done, failed.                *)

DriverGone == driver \in {"done", "failed"}

Init ==
  /\ owner = "idle" /\ sends = 0 /\ fragment = Fragments /\ accepted = 0
  /\ shutdown = FALSE
  /\ channel = << >> /\ coverDone = FALSE /\ pending = 0
  /\ driver = "running" /\ backlog = << >> /\ writing = << >>
  /\ deadline = "none" /\ sawReal = FALSE /\ coverZero \in CoverZero
  /\ wire = << >> /\ dropped = 0

-----------------------------------------------------------------------------
(* The owner: enqueue_packet, which is enqueue_fragments.                  *)
BeginSend ==
  /\ owner = "idle" /\ sends < MaxSends
  /\ owner' = "sending" /\ sends' = sends + 1 /\ fragment' = 0
  /\ coverDone' = FALSE
  /\ UNCHANGED << accepted, shutdown, channel, pending, driver, emitterVars, coverVars >>

ChannelHasRoom == Len(channel) < MaxBacklog

OnChannel(cell) == Append(channel, cell)

EnqueueCell ==
  /\ owner = "sending" /\ ~ DriverGone
  /\ ChannelHasRoom
  /\ channel' = OnChannel([packet |-> sends, fragment |-> fragment + 1])
  /\ fragment' = fragment + 1 /\ accepted' = accepted + 1
  /\ owner' = IF fragment' = Fragments THEN "idle" ELSE "sending"
  /\ UNCHANGED << sends, shutdown, coverDone, pending, driver, emitterVars, coverVars >>

(* Full, or closed: the call returns its error in the middle of a packet.  *)
SendFails ==
  /\ owner = "sending"
  /\ DriverGone \/ ~ ChannelHasRoom
  /\ owner' = "idle"
  /\ UNCHANGED << sends, fragment, accepted, shutdown, channel, coverDone, pending, driver,
                  emitterVars, coverVars >>

(* wait_idle_cover: the session holds a sender of this watch itself, so    *)
(* the end of the driver does not end the wait.  Nothing asks whether      *)
(* anything was sent.                                                      *)
BeginWait ==
  /\ owner = "idle"
  /\ owner' = "waiting"
  /\ UNCHANGED << sends, fragment, accepted, shutdown, channel, coverDone, pending, driver,
                  emitterVars, coverVars >>

WaitEnds ==
  /\ owner = "waiting" /\ coverDone
  /\ owner' = "idle"
  /\ UNCHANGED << sends, fragment, accepted, shutdown, channel, coverDone, pending, driver,
                  emitterVars, coverVars >>

(* wait_queue_drained: first until a cell is pending, then until none is.  *)
BeginDrain ==
  /\ owner = "idle"
  /\ owner' = "draining"
  /\ UNCHANGED << sends, fragment, accepted, shutdown, channel, coverDone, pending, driver,
                  emitterVars, coverVars >>

DrainProceeds ==
  /\ \/ owner = "draining" /\ pending > 0 /\ owner' = "emptying"
     \/ owner = "draining" /\ pending = 0 /\ (coverDone \/ DriverGone) /\ owner' = "idle"
     \/ owner = "emptying" /\ (pending = 0 \/ DriverGone) /\ owner' = "idle"
  /\ UNCHANGED << sends, fragment, accepted, shutdown, channel, coverDone, pending, driver,
                  emitterVars, coverVars >>

Shutdown ==
  /\ owner = "idle"
  /\ owner' = "closing" /\ shutdown' = TRUE
  /\ UNCHANGED << sends, fragment, accepted, channel, coverDone, pending, driver,
                  emitterVars, coverVars >>

ShutdownReturns ==
  /\ owner = "closing" /\ DriverGone
  /\ owner' = "closed"
  /\ UNCHANGED << sends, fragment, accepted, shutdown, channel, coverDone, pending, driver,
                  emitterVars, coverVars >>

(* The session is dropped without a shutdown.                              *)
DropSession ==
  /\ owner = "idle"
  /\ owner' = "gone"
  /\ UNCHANGED << sends, fragment, accepted, shutdown, channel, coverDone, pending, driver,
                  emitterVars, coverVars >>

-----------------------------------------------------------------------------
(* The driver's loop: a select over the channel, the interval, shutdown.   *)

\* Mutant of RestartWindow: it is not remembered that a real cell came.
RestartWindowForgets == deadline' = "none" /\ UNCHANGED sawReal

RestartWindow == deadline' = "none" /\ sawReal' = TRUE

\* Mutant of Refuse: the cell is not counted.
RefuseUncounted == UNCHANGED dropped

Refuse == dropped' = dropped + 1

\* try_push_real.
EmitterHasRoom == Len(backlog) < MaxBacklog

\* enqueue_cell.
Enqueued(cell) == Append(backlog, cell)

ReceiveCell ==
  /\ driver = "running" /\ channel # << >>
  /\ channel' = Tail(channel)
  /\ \/ /\ EmitterHasRoom
        /\ backlog' = Enqueued(Head(channel))
        /\ UNCHANGED dropped
     \/ /\ ~ EmitterHasRoom
        /\ Refuse
        /\ UNCHANGED backlog
  /\ RestartWindow
  /\ coverDone' = FALSE /\ pending' = Len(backlog')
  /\ UNCHANGED << ownerVars, driver, writing, coverZero, wire >>

\* Mutant of TakeCell: the cell taken is not the one written.
TakeCellLoses ==
  /\ writing' = << >>
  /\ backlog' = IF backlog = << >> THEN << >> ELSE Tail(backlog)

(* next_cell: the oldest real cell, or else a dummy.                       *)
TakeCell ==
  \/ backlog # << >> /\ writing' = << Head(backlog) >> /\ backlog' = Tail(backlog)
  \/ backlog = << >> /\ writing' = << >> /\ UNCHANGED backlog

TickBegins ==
  /\ driver = "running"
  /\ driver' = "ticking"
  /\ TakeCell
  /\ UNCHANGED << ownerVars, channel, coverDone, pending, wire, dropped, coverVars >>

(* The cell is written; then the cover window after the last real cell is  *)
(* opened, or found to be over.                                            *)
CoverWindow ==
  \/ /\ backlog = << >> /\ sawReal /\ coverZero
     /\ coverDone' = TRUE /\ sawReal' = FALSE /\ UNCHANGED deadline
  \/ /\ backlog = << >> /\ sawReal /\ ~ coverZero /\ deadline = "none"
     /\ deadline' = "running" /\ UNCHANGED << coverDone, sawReal >>
  \/ /\ deadline = "passed"
     /\ coverDone' = TRUE /\ deadline' = "none" /\ sawReal' = FALSE
  \/ /\ deadline # "passed" /\ ~ (backlog = << >> /\ sawReal /\ (coverZero \/ deadline = "none"))
     /\ UNCHANGED << coverDone, deadline, sawReal >>

TickEnds ==
  /\ driver = "ticking"
  /\ driver' = "running"
  /\ wire' = wire \o writing /\ writing' = << >>
  /\ pending' = Len(backlog)
  /\ CoverWindow
  /\ UNCHANGED << ownerVars, channel, backlog, dropped, coverZero >>

TickFails ==
  /\ LinkMayFail /\ driver = "ticking"
  /\ driver' = "failed"
  /\ UNCHANGED << ownerVars, channel, coverDone, pending, emitterVars, coverVars >>

CoverTimePasses ==
  /\ deadline = "running" /\ ~ DriverGone
  /\ deadline' = "passed"
  /\ UNCHANGED << ownerVars, channel, coverDone, pending, driver, emitterVars,
                  sawReal, coverZero >>

(* A shutdown, or the end of the channel, ends the loop with whatever is   *)
(* still queued.                                                           *)
DriverBreaks ==
  /\ driver = "running"
  /\ shutdown \/ (owner = "gone" /\ channel = << >>)
  /\ driver' = "flushing"
  /\ UNCHANGED << ownerVars, channel, coverDone, pending, emitterVars, coverVars >>

DriverFlushes ==
  /\ driver = "flushing"
  /\ driver' \in IF LinkMayFail THEN {"done", "failed"} ELSE {"done"}
  /\ UNCHANGED << ownerVars, channel, coverDone, pending, emitterVars, coverVars >>

-----------------------------------------------------------------------------
OwnerCalls == BeginSend \/ BeginWait \/ BeginDrain \/ Shutdown \/ DropSession
OwnerStep == EnqueueCell \/ SendFails \/ WaitEnds \/ DrainProceeds \/ ShutdownReturns
DriverStep ==
  \/ ReceiveCell \/ TickBegins \/ TickEnds \/ TickFails \/ DriverBreaks \/ DriverFlushes

Next == OwnerCalls \/ OwnerStep \/ DriverStep \/ CoverTimePasses

Spec == Init /\ [][Next]_vars

(* A call in progress runs on, a write ends, time passes.  The select      *)
(* picks at random among what is ready, so a branch that is ready again    *)
(* and again is taken.  The owner need not make another call.              *)
Fairness ==
  /\ WF_vars(OwnerStep)
  /\ SF_vars(ReceiveCell) /\ SF_vars(TickBegins) /\ SF_vars(DriverBreaks)
  /\ WF_vars(TickEnds \/ TickFails) /\ WF_vars(DriverFlushes)
  /\ WF_vars(CoverTimePasses)

FairSpec == Spec /\ Fairness

-----------------------------------------------------------------------------
(* The cells on their way, oldest first.                                   *)
Line == wire \o writing \o backlog \o channel

(* Every cell the session accepted is on its way, on the wire, or counted  *)
(* as refused by the emitter.                                              *)
CellsAccounted == accepted = Len(Line) + dropped

(* A wait of a session that has taken a cell ends (wait_idle_cover,        *)
(* wait_queue_drained).  Before the first cell neither wait ends while the *)
(* driver runs: no cell is pending and no cover window opens.  And a       *)
(* caller of wait_idle_cover may wait for a dead driver for ever, for the  *)
(* session holds a sender of the watch itself and never sees it closed;    *)
(* wait_queue_drained returns even then.                                   *)
WaitsEnd ==
  LET drains == owner \in {"draining", "emptying"}
  IN  /\ owner = "waiting" /\ accepted > 0 ~> owner # "waiting" \/ DriverGone
      /\ drains /\ (accepted > 0 \/ DriverGone) ~> ~ drains

(* What wait_idle_cover is for, as its comment has it: "so we never shut   *)
(* down before fragments hit the wire".  When it returns, every cell the   *)
(* session took is on the wire or was refused by the emitter.              *)
WaitMeansWritten ==
  [][owner = "waiting" /\ owner' = "idle" => accepted = Len(wire) + dropped]_vars

(* If nobody shuts the session down and the link holds, every cell the     *)
(* session takes is written by the driver in the end, or refused by its    *)
(* emitter (run_session_emitter_loop).  Cells are taken and written in one *)
(* order, so they can be counted.                                          *)
AcceptedIsWritten ==
  LET Over == owner \in {"closing", "closed", "gone"} \/ DriverGone
  IN  \A k \in 1 .. MaxSends * Fragments :
        accepted >= k ~> Len(wire) + dropped >= k \/ Over
=============================================================================
