------------------------------ MODULE RelayNode -----------------------------
(***************************************************************************)
(* One mix relay: the task RelayNode::spawn starts                         *)
(* (aegis-relay/src/node.rs) with everything it talks to.                  *)
(*                                                                         *)
(* The relay task is one loop over tokio::select!: it takes either a round *)
(* command or an inbound packet, and finishes it before it looks again.    *)
(* Finishing may take several steps: the mixing delay of a forwarded       *)
(* packet is slept inside the loop, and the cover flows of a closed round  *)
(* are sent one by one on a bounded channel.                               *)
(*                                                                         *)
(*   link bridge --inbound--> relay loop --outbound--> egress dispatcher   *)
(*   start_bulk_cover <--command, ack--> relay loop --cover--> dispatcher  *)
(*                                                                         *)
(* A packet stands for one Sphinx packet as this relay sees it; offering   *)
(* the same packet again is a duplicate or a replay.                       *)
(***************************************************************************)
EXTENDS ReplayCacheOps

CONSTANTS
  Real,        (* peel to a next hop                                        *)
  CoverOnion,  (* peel to COVER_SINK_HOP_ID                                 *)
  Forged,      (* fail the MAC                                              *)
  Malformed,   (* fail header extraction or decapsulation                   *)
  BadPeel      (* pass the MAC and the replay check, then fail to peel      *)

CONSTANTS
  InboundCap, OutboundCap, CoverCap,  (* RELAY_CHANNEL_CAPACITY, 64         *)
  CoverPlans,    (* multihop_defense: the values configured here            *)
  FixedFlows,    (* matched_cover_flows or cover_onion_flows                *)
  IsL2,          (* the round's dial is L2UniformBatched                    *)
  Target,        (* target_flow_count of the round's CoverRequirement       *)
  HasCoverTx,    (* spawn was given a cover channel                         *)
  Closable,      (* ends of channels that may go away in this instance      *)
  MaxOffers,     (* bound of the model: packets offered                     *)
  MaxRounds      (* bound of the model: bulk rounds begun                   *)

CONSTANT ReplayCapacity  (* DEFAULT_REPLAY_CACHE_CAPACITY, 1_000_000 *)

MixPacket == Real \cup CoverOnion \cup Forged \cup Malformed \cup BadPeel

Plans == {"baseline", "matched", "cover_onions", "scaffold"}
\* A terminal peer matters to the cover onions alone.
Defenses == {d \in [plan : CoverPlans, terminal : BOOLEAN] :
               d.terminal => d.plan = "cover_onions"}

Ends  == {"inbound", "outbound", "cover", "handle"}

ASSUME RelayNodeAssumption ==
  /\ \A A, B \in {Real, CoverOnion, Forged, Malformed, BadPeel} :
       A = B \/ A \cap B = {}
  /\ {InboundCap, OutboundCap, CoverCap} \subseteq Nat \ {0}
  /\ {FixedFlows, Target, MaxOffers, MaxRounds} \subseteq Nat
  /\ {IsL2, HasCoverTx} \subseteq BOOLEAN
  /\ CoverPlans \subseteq Plans
  /\ Closable \subseteq Ends

\* A packet goes by its replay tag.  The counter of generations, 2^32, is wider than
\* the cache is deep.
ASSUME ReplayAssumption ==
  MixPacket \subseteq Tag /\ ReplayCapacity \in Capacities /\ ReplayCapacity < GenModulus

VARIABLES
  defense,    (* BulkCoverConfig: multihop_defense, cover_onion_terminal      *)
  inbound,    (* the inbound channel: offered packets with their number     *)
  outbound,   (* the outbound channel                                       *)
  cover,      (* number of cover flows in the cover channel                 *)
  open,       (* channel ends that still exist                              *)
  at,         (* where the relay loop is                                    *)
  mixing,     (* the packet whose delay the loop is sleeping, if any        *)
  coverLeft,  (* cover flows of the closed round not yet sent               *)
  replay,     (* the replay cache                                           *)
  round,      (* BulkRoundTracker: active, real_flow_count                  *)
  stats,      (* RelayStats                                                 *)
  control,    (* where the round controller (start_bulk_cover) is           *)
  command,    (* its command in the round channel, if any                   *)
  ack         (* the oneshot answer to it                                   *)

\* History: what the environment and an egress observer have seen.
VARIABLES
  offers,     (* packets offered so far                                     *)
  taken,      (* packets the inbound channel took                           *)
  consumed,   (* packets the loop took from it                              *)
  fresh,      (* packets that passed the replay check                       *)
  delivered,  (* packets the egress dispatcher has taken, in order          *)
  coverTaken, (* cover flows the cover dispatcher has taken                 *)
  rounds,     (* rounds begun by the controller                             *)
  egress      (* of the current round: real and cover flows put on their    *)
              (* channels, and counted real flows the full queue dropped    *)

chanVars  == <<defense, inbound, outbound, cover, open>>
loopVars  == <<at, mixing, coverLeft, replay, round, stats>>
ctlVars   == <<control, command, ack>>
histVars  == <<offers, taken, consumed, fresh, delivered, coverTaken,
               rounds, egress>>
mixVars == <<chanVars, loopVars, ctlVars, histVars>>

\* BulkRoundTracker::new.
NoRound == [active |-> FALSE, real |-> 0]

Counters == {"forwarded", "cover_onion_sink", "integrity", "replay", "other",
             "queue_dropped", "cover_flow"}

Bump(s, counter, n) == [s EXCEPT ![counter] = @ + n]

\* RelayCoarseStats.  loop_return and dropped are never bumped: peel returns
\* no other Processed than Forward.
ProcessedOk(s)   == s["forwarded"] + s["cover_onion_sink"]
ProcessedFail(s) == s["integrity"] + s["replay"] + s["other"]

MixInit ==
  /\ defense \in Defenses
  /\ inbound = << >> /\ outbound = << >> /\ cover = 0
  /\ open = IF HasCoverTx THEN Ends ELSE Ends \ {"cover"}
  /\ at = "select" /\ mixing = << >> /\ coverLeft = 0
  /\ replay = NewReplayCache(ReplayCapacity)
  /\ round = NoRound
  /\ stats = [c \in Counters |-> 0]
  /\ control = "closed" /\ command = "none" /\ ack = FALSE
  /\ offers = 0 /\ taken = 0 /\ consumed = 0 /\ fresh = 0
  /\ delivered = << >> /\ coverTaken = 0 /\ rounds = 0
  /\ egress = [real |-> 0, cover |-> 0, lost |-> 0]

-----------------------------------------------------------------------------
(* The link bridge and the dispatchers at the far ends of the channels.    *)

TrySent(q, x) == Append(q, x)

\* The coarse counter of try_send_drop_newest.
CountDrop(s) == Bump(s, "queue_dropped", 1)

\* The bridge's try_send_drop_newest: a full inbound queue drops the packet.
Offer(p) ==
  /\ "inbound" \in open /\ at # "stopped" /\ offers < MaxOffers
  /\ offers' = offers + 1
  /\ IF Len(inbound) < InboundCap
     THEN /\ inbound' = TrySent(inbound, [packet |-> p, n |-> offers + 1])
          /\ taken' = taken + 1
     ELSE UNCHANGED <<inbound, taken>>
  /\ UNCHANGED <<defense, outbound, cover, open, loopVars, ctlVars, consumed, fresh,
                 delivered, coverTaken, rounds, egress>>

TakeOutbound ==
  /\ "outbound" \in open /\ outbound # << >>
  /\ delivered' = Append(delivered, Head(outbound))
  /\ outbound' = Tail(outbound)
  /\ UNCHANGED <<defense, inbound, cover, open, loopVars, ctlVars, offers, taken,
                 consumed, fresh, coverTaken, rounds, egress>>

TakeCover ==
  /\ "cover" \in open /\ cover > 0
  /\ cover' = cover - 1
  /\ coverTaken' = coverTaken + 1
  /\ UNCHANGED <<defense, inbound, outbound, open, loopVars, ctlVars, offers, taken,
                 consumed, fresh, delivered, rounds, egress>>

\* A sender or receiver is dropped.  What a dropped receiver had queued is gone.
CloseEnd(e) ==
  /\ e \in Closable \cap open
  /\ e = "handle" => command = "none" /\ control \in {"open", "closed"}
  /\ open' = open \ {e}
  /\ outbound' = IF e = "outbound" THEN << >> ELSE outbound
  /\ cover' = IF e = "cover" THEN 0 ELSE cover
  /\ UNCHANGED <<defense, inbound, loopVars, ctlVars, histVars>>

-----------------------------------------------------------------------------
(* start_bulk_cover: begin a round, then for ever end it and begin the     *)
(* next.  Each call sends one command and awaits its ack; a relay that has *)
(* stopped answers with RelayStoppedError.                                 *)

\* Mutant of CallBegin: the call returns once the command is queued.
CallBeginUnacked ==
  /\ control = "closed" /\ "handle" \in open /\ rounds < MaxRounds
  /\ at # "stopped"
  /\ control' = "beginning" /\ command' = "begin" /\ rounds' = rounds + 1
  /\ ack' = TRUE
  /\ UNCHANGED <<chanVars, loopVars, offers, taken, consumed, fresh,
                 delivered, coverTaken, egress>>

CallBegin ==
  /\ control = "closed" /\ "handle" \in open /\ rounds < MaxRounds
  /\ IF at = "stopped"
     THEN control' = "failed" /\ UNCHANGED <<command, rounds>>
     ELSE control' = "beginning" /\ command' = "begin" /\ rounds' = rounds + 1
  /\ ack' = FALSE
  /\ UNCHANGED <<chanVars, loopVars, offers, taken, consumed, fresh,
                 delivered, coverTaken, egress>>

CallEnd ==
  /\ control = "open" /\ "handle" \in open
  /\ IF at = "stopped"
     THEN control' = "failed" /\ UNCHANGED command
     ELSE control' = "ending" /\ command' = "end"
  /\ ack' = FALSE
  /\ UNCHANGED <<chanVars, loopVars, histVars>>

\* The oneshot resolves: with the ack, or with an error once the loop is gone.
CallReturns ==
  /\ control \in {"beginning", "ending"}
  /\ \/ ack /\ control' = IF control = "beginning" THEN "open" ELSE "closed"
     \/ ~ack /\ at = "stopped" /\ control' = "failed"
  /\ ack' = FALSE
  /\ UNCHANGED <<chanVars, loopVars, command, histVars>>

-----------------------------------------------------------------------------
(* BulkRoundTracker and the cover plan.                                    *)

BeginRound == [active |-> TRUE, real |-> 0]

ObserveRealFlow(r) == IF r.active THEN [r EXCEPT !.real = @ + 1] ELSE r

CloseRound == NoRound

\* Mutant of RequiredCoverFlowCount: one flow short of the target.
RequiredCoverFlowCountShort(real) ==
  IF real + 1 >= Target THEN 0 ELSE Target - real - 1

\* required_cover_flow_count: saturating subtraction.
RequiredCoverFlowCount(real) == IF real >= Target THEN 0 ELSE Target - real

\* plan_cover_emit: flows the next hop discards, tagged as cover or as scaffold,
\* and onions it peels.
PlanCoverEmit(real) ==
  LET pad == RequiredCoverFlowCount(real)
  IN  IF ~IsL2 THEN [discard |-> 0, peelable |-> 0]
      ELSE CASE defense.plan = "baseline"     -> [discard |-> pad, peelable |-> 0]
             [] defense.plan = "matched"      -> [discard |-> FixedFlows, peelable |-> 0]
             [] defense.plan = "cover_onions" -> [discard |-> pad, peelable |-> FixedFlows]
             [] defense.plan = "scaffold"     -> [discard |-> pad + FixedFlows, peelable |-> 0]

\* generate_plan: peelable onions are built for a terminal peer, or left out.
GeneratePlan(plan) == plan.discard + (IF defense.terminal THEN plan.peelable ELSE 0)

\* close_and_emit: the number of flows.
CloseAndEmit(r) == IF r.active THEN GeneratePlan(PlanCoverEmit(r.real)) ELSE 0

-----------------------------------------------------------------------------
(* The relay loop.                                                         *)

HandleBegin ==
  /\ at = "select" /\ command = "begin"
  /\ round' = BeginRound
  /\ command' = "none" /\ ack' = TRUE
  /\ egress' = [real |-> 0, cover |-> 0, lost |-> 0]
  /\ UNCHANGED <<chanVars, at, mixing, coverLeft, replay, stats, control,
                 offers, taken, consumed, fresh, delivered, coverTaken, rounds>>

\* Mutant of HandleEnd: a round that needs no cover is not answered.
HandleEndUnanswered ==
  LET flows == CloseAndEmit(round)
  IN  /\ at = "select" /\ command = "end"
      /\ round' = CloseRound
      /\ stats' = Bump(stats, "cover_flow", flows)
      /\ command' = "none"
      /\ IF flows > 0 /\ "cover" \in open
         THEN at' = "emitting" /\ coverLeft' = flows
         ELSE UNCHANGED <<at, coverLeft>>
      /\ UNCHANGED <<chanVars, mixing, replay, control, ack, histVars>>

\* EndRound: the counters move first; the ack waits for the last cover flow.
HandleEnd ==
  LET flows == CloseAndEmit(round)
  IN  /\ at = "select" /\ command = "end"
      /\ round' = CloseRound
      /\ stats' = Bump(stats, "cover_flow", flows)
      /\ command' = "none"
      /\ IF flows > 0 /\ "cover" \in open
         THEN at' = "emitting" /\ coverLeft' = flows /\ UNCHANGED ack
         ELSE ack' = TRUE /\ UNCHANGED <<at, coverLeft>>
      /\ UNCHANGED <<chanVars, mixing, replay, control, histVars>>

\* cover_tx.send(flow).await: waits while the cover channel is full.
EmitCover ==
  /\ at = "emitting" /\ "cover" \in open /\ cover < CoverCap
  /\ cover' = cover + 1
  /\ coverLeft' = coverLeft - 1
  /\ IF coverLeft = 1 THEN at' = "select" /\ ack' = TRUE ELSE UNCHANGED <<at, ack>>
  /\ egress' = [egress EXCEPT !.cover = @ + 1]
  /\ UNCHANGED <<defense, inbound, outbound, open, mixing, replay, round, stats, control,
                 command, offers, taken, consumed, fresh, delivered,
                 coverTaken, rounds>>

\* Mutant of EmitFails: a failed send is tried again.
EmitFailsRetries ==
  at = "emitting" /\ "cover" \notin open /\ UNCHANGED mixVars

\* The receiver is gone: the remaining flows are given up.
EmitFails ==
  /\ at = "emitting" /\ "cover" \notin open
  /\ coverLeft' = 0 /\ at' = "select" /\ ack' = TRUE
  /\ UNCHANGED <<chanVars, mixing, replay, round, stats, control, command,
                 histVars>>

TakeInbound ==
  /\ at = "select" /\ inbound # << >>
  /\ inbound' = Tail(inbound)
  /\ consumed' = consumed + 1
  /\ UNCHANGED <<defense, outbound, cover, open, coverLeft, ctlVars, offers, taken,
                 delivered, coverTaken, rounds, egress>>

\* sphinx::process fails before the replay check.
RejectPacket ==
  /\ TakeInbound
  /\ \/ Head(inbound).packet \in Forged
        /\ stats' = Bump(stats, "integrity", 1)
     \/ Head(inbound).packet \in Malformed
        /\ stats' = Bump(stats, "other", 1)
  /\ UNCHANGED <<at, mixing, replay, round, fresh>>

\* The packets that reach the replay check.
Authentic == Real \cup CoverOnion \cup BadPeel

RejectReplay ==
  LET p == Head(inbound).packet
  IN  /\ TakeInbound
      /\ p \in Authentic /\ ~IsFresh(replay, p)
      /\ stats' = Bump(stats, "replay", 1)
      /\ UNCHANGED <<at, mixing, replay, round, fresh>>

\* Mutant of RecordTag: the packet is processed but not remembered.
RecordTagNot(cache, p) == cache

RecordTag(cache, p) == CheckAndInsert(cache, p)

\* A fresh packet is recorded before it is peeled, whatever the peel yields.
\* A real flow is observed and its delay begins, inside the loop.
PeelPacket ==
  LET p == Head(inbound).packet
  IN  /\ TakeInbound
      /\ p \in Authentic /\ IsFresh(replay, p)
      /\ replay' = RecordTag(replay, p)
      /\ fresh' = fresh + 1
      /\ \/ /\ p \in Real
            /\ round' = ObserveRealFlow(round)
            /\ at' = "mixing"
            /\ mixing' = <<[packet |-> p, n |-> Head(inbound).n,
                            nth |-> fresh + 1, gen |-> replay'.generation]>>
            /\ UNCHANGED stats
         \/ /\ p \in CoverOnion
            /\ stats' = Bump(stats, "cover_onion_sink", 1)
            /\ UNCHANGED <<at, mixing, round>>
         \/ /\ p \in BadPeel
            /\ stats' = Bump(stats, "other", 1)
            /\ UNCHANGED <<at, mixing, round>>

\* The delay has elapsed: try_send_drop_newest on the outbound channel.  A
\* closed channel ends the loop, after the packet was counted as forwarded.
Forward ==
  LET sent == Bump(stats, "forwarded", 1)
  IN  /\ at = "mixing"
      /\ mixing' = << >>
      /\ \/ /\ "outbound" \in open /\ Len(outbound) < OutboundCap
            /\ outbound' = TrySent(outbound, mixing[1])
            /\ stats' = sent /\ at' = "select"
            /\ egress' = [egress EXCEPT !.real = @ + (IF round.active THEN 1 ELSE 0)]
         \/ /\ "outbound" \in open /\ Len(outbound) = OutboundCap
            /\ stats' = CountDrop(sent) /\ at' = "select"
            /\ egress' = [egress EXCEPT !.lost = @ + (IF round.active THEN 1 ELSE 0)]
            /\ UNCHANGED outbound
         \/ /\ "outbound" \notin open
            /\ stats' = sent /\ at' = "stopped"
            /\ UNCHANGED <<outbound, egress>>
      /\ UNCHANGED <<defense, inbound, cover, open, coverLeft, replay, round, ctlVars,
                     offers, taken, consumed, fresh, delivered, coverTaken,
                     rounds>>

\* recv() returns None: every inbound sender is gone and the queue is empty, or
\* every RelayHandle is gone, whatever the inbound queue still holds.
LoopEnds ==
  /\ at = "select"
  /\ \/ "inbound" \notin open /\ inbound = << >>
     \/ "handle" \notin open /\ command = "none"
  /\ at' = "stopped"
  /\ UNCHANGED <<chanVars, mixing, coverLeft, replay, round, stats, ctlVars,
                 histVars>>

RelayStep ==
  \/ HandleBegin \/ HandleEnd \/ EmitCover \/ EmitFails
  \/ RejectPacket \/ RejectReplay \/ PeelPacket \/ Forward \/ LoopEnds

\* start_bulk_cover and the task it spawns.
ControllerStep == CallBegin \/ CallEnd \/ CallReturns

MixNext ==
  \/ \E p \in MixPacket : Offer(p)
  \/ TakeOutbound \/ TakeCover
  \/ \E e \in Ends : CloseEnd(e)
  \/ ControllerStep
  \/ RelayStep

(***************************************************************************)
(* Fairness.  The runtime keeps polling every task: the loop finishes what *)
(* it started, the dispatchers take what is queued, a resolved oneshot is  *)
(* noticed.  tokio::select! polls its branches in a random order, so a     *)
(* branch that is ready again and again is taken: strong fairness.         *)
(***************************************************************************)
MixFairness ==
  /\ WF_mixVars(Forward) /\ WF_mixVars(EmitCover) /\ WF_mixVars(EmitFails)
  /\ WF_mixVars(TakeOutbound) /\ WF_mixVars(TakeCover) /\ WF_mixVars(CallReturns)
  /\ SF_mixVars(HandleBegin) /\ SF_mixVars(HandleEnd)
  /\ SF_mixVars(RejectPacket \/ RejectReplay \/ PeelPacket)

MixSpec == MixInit /\ [][MixNext]_mixVars
MixFairSpec == MixSpec /\ MixFairness

-----------------------------------------------------------------------------
\* The relay sends a packet on again only if its replay cache had to forget it:
\* more than ReplayCapacity packets were accepted since, or the cache had
\* dropped its generation.
ForwardedOnceWhileRemembered ==
  LET line == delivered \o outbound \o mixing
  IN  \A i, j \in 1 .. Len(line) :
        /\ i < j
        /\ line[i].packet = line[j].packet
        => \/ line[j].nth - line[i].nth > ReplayCapacity
           \/ line[j].gen # line[i].gen

\* begin_bulk_round and end_bulk_round do not return before the loop has applied
\* the command (node.rs:182-190): between them the round is open, so a packet sent
\* after the begin cannot be peeled before it; after the end the round is
\* closed and all its cover has been handed over.
AckMeansApplied ==
  /\ control = "open" => round.active
  /\ control = "closed" => ~round.active /\ coverLeft = 0
  /\ control \in {"open", "closed"} => command = "none"

\* What a finished L2 round amounts to: cover pads the flows the relay counted,
\* sent or dropped, up to the target; the matched plan sends its fixed number.
RoundPadded ==
  /\ control = "closed" /\ rounds > 0 /\ IsL2 /\ "cover" \in open
  => IF defense.plan = "matched" THEN egress.cover = FixedFlows
     ELSE egress.real + egress.lost + egress.cover >= Target

\* Both calls of the round controller return.
CallsReturn ==
  /\ (control = "beginning") ~> (control \in {"open", "failed"})
  /\ (control = "ending") ~> (control \in {"closed", "failed"})

\* Every packet the inbound channel took is processed, unless the loop stops.
EveryPacketProcessed ==
  \A k \in 1 .. MaxOffers :
    (taken >= k) ~> (ProcessedOk(stats) + ProcessedFail(stats) >= k
                        \/ at = "stopped")
=============================================================================
