------------------------------ MODULE ExitSink ------------------------------
(***************************************************************************)
(* The exit sink of a node (aegis-node/src/exit_sink.rs): one task that    *)
(* writes a line for every packet peeled here and, when the presence pad   *)
(* is on, fills up every epoch with decoy lines.  A line that cannot be    *)
(* written is forgotten; the counters count it all the same.               *)
(***************************************************************************)
EXTENDS Integers, Sequences

CONSTANTS
  PadSettings, (* [enabled, deliver, log, q, rate] that are considered    *)
  Rolls,       (* draws of next_u32() % 100 considered                    *)
  SinkCap,     (* RELAY_CHANNEL_CAPACITY, 64                              *)
  MaxPeels, MaxTicks (* bounds of the model                               *)

ASSUME ExitSinkAssumption ==
  /\ PadSettings \subseteq [enabled : BOOLEAN, deliver : BOOLEAN, log : BOOLEAN,
                            q : Nat, rate : 0 .. 100]
  /\ Rolls \subseteq 0 .. 99
  /\ {SinkCap, MaxPeels, MaxTicks} \subseteq Nat

VARIABLES
  pad,      (* the settings                                               *)
  peels,    (* packets in the channel                                     *)
  sender,   (* the bridge holds the sending end                           *)
  sinkUp,   (* the task runs                                              *)
  realNow,  (* real_this_epoch                                            *)
  pads,     (* the counters: real_cells, decoy_cells, epochs, idle        *)
  lines,    (* history: lines written since the epoch began               *)
  before,   (* history: packets written before the epoch began            *)
  fromPeers,(* history: packets put into the channel                      *)
  failed,   (* history: lines of the epoch that could not be written      *)
  ended     (* history: [real, lines, failed] of the epochs that ended    *)

sinkVars == <<pad, peels, sender, sinkUp, realNow, pads, lines, failed, before,
              fromPeers, ended>>

\* ExitSinkSettings::enabled: without a log, a target or the pad there is no sink.
SinkEnabled(s) == s.log \/ s.deliver \/ s.enabled

\* The first tick of the interval is taken before the loop: epochs are whole.
SinkInit ==
  /\ pad \in {s \in PadSettings : SinkEnabled(s)}
  /\ peels = 0 /\ sender = TRUE /\ sinkUp = TRUE
  /\ realNow = 0
  /\ pads = [real |-> 0, decoy |-> 0, epochs |-> 0, idle |-> 0]
  /\ lines = 0 /\ failed = 0 /\ before = 0 /\ fromPeers = 0 /\ ended = {}

-----------------------------------------------------------------------------
PeelArrives ==
  /\ sender /\ peels < SinkCap /\ fromPeers < MaxPeels
  /\ peels' = peels + 1 /\ fromPeers' = fromPeers + 1
  /\ UNCHANGED <<pad, sender, sinkUp, realNow, pads, lines, failed, before, ended>>

BridgeGone ==
  /\ sender /\ sender' = FALSE
  /\ UNCHANGED <<pad, peels, sinkUp, realNow, pads, lines, failed, before, fromPeers,
                 ended>>

\* deliver_line, when there is a target: an error of the write is dropped.
Lines(n) == IF pad.deliver THEN n ELSE 0

\* handle_real_peel; only the padded loop counts the epoch.
HandleRealPeel ==
  /\ sinkUp /\ peels > 0
  /\ peels' = peels - 1
  /\ pads' = [pads EXCEPT !.real = @ + 1]
  /\ \E k \in 0 .. Lines(1) : lines' = lines + k /\ failed' = failed + (Lines(1) - k)
  /\ realNow' = IF pad.enabled THEN realNow + 1 ELSE realNow
  /\ UNCHANGED <<pad, sender, sinkUp, before, fromPeers, ended>>

\* presence_pad_epoch: an active epoch is filled up to q, an idle one becomes q
\* decoys or nothing.
PresencePadEpoch(real, roll) ==
  IF real > 0
  THEN [decoys |-> IF pad.q > real THEN pad.q - real ELSE 0, idle |-> FALSE]
  ELSE LET inject == pad.q > 0 /\ roll < pad.rate
       IN  [decoys |-> IF inject THEN pad.q ELSE 0, idle |-> inject]

\* Mutant of FinishEpoch: the packets of the epoch stay counted.
FinishEpochKeepsCount ==
  /\ sinkUp /\ pad.enabled /\ pads.epochs < MaxTicks
  /\ \E roll \in Rolls :
       LET decision == PresencePadEpoch(realNow, roll)
           decoys   == Lines(decision.decoys)
       IN  /\ pads' = [pads EXCEPT !.epochs = @ + 1, !.decoy = @ + decision.decoys,
                                   !.idle = @ + (IF decision.idle THEN 1 ELSE 0)]
           /\ \E k \in 0 .. decoys :
                ended' = ended \cup {[real |-> pads.real - before, lines |-> lines + k,
                                      failed |-> failed + (decoys - k)]}
  /\ lines' = 0 /\ failed' = 0 /\ before' = pads.real
  /\ UNCHANGED <<pad, peels, sender, sinkUp, realNow, fromPeers>>

\* finish_epoch on a tick of the interval.
FinishEpoch ==
  /\ sinkUp /\ pad.enabled /\ pads.epochs < MaxTicks
  /\ \E roll \in Rolls :
       LET decision == PresencePadEpoch(realNow, roll)
           decoys   == Lines(decision.decoys)
       IN  /\ pads' = [pads EXCEPT !.epochs = @ + 1, !.decoy = @ + decision.decoys,
                                   !.idle = @ + (IF decision.idle THEN 1 ELSE 0)]
           /\ \E k \in 0 .. decoys :
                ended' = ended \cup {[real |-> pads.real - before, lines |-> lines + k,
                                      failed |-> failed + (decoys - k)]}
  /\ lines' = 0 /\ failed' = 0 /\ before' = pads.real /\ realNow' = 0
  /\ UNCHANGED <<pad, peels, sender, sinkUp, fromPeers>>

\* recv yields nothing once the sender is gone and the channel is empty.
SinkEnds ==
  /\ sinkUp /\ ~sender /\ peels = 0
  /\ sinkUp' = FALSE
  /\ UNCHANGED <<pad, peels, sender, realNow, pads, lines, failed, before, fromPeers,
                 ended>>

SinkNext ==
  PeelArrives \/ BridgeGone \/ HandleRealPeel \/ FinishEpoch \/ SinkEnds

SinkSpec == SinkInit /\ [][SinkNext]_sinkVars

-----------------------------------------------------------------------------
\* With the pad on and a target to write to, an epoch shows pad_q lines, or as many
\* as it had packets when those are more, less the lines whose write failed; without
\* packets, pad_q lines or none (finish_epoch).  Every packet the bridge handed over
\* is in the channel or was taken out: the sink ends only over an empty one.
EpochsMatched ==
  /\ pad.deliver => \A e \in ended :
       LET all == e.lines + e.failed
       IN  IF e.real = 0 THEN all \in {0, pad.q}
           ELSE all >= pad.q /\ all >= e.real /\ all \in {pad.q, e.real}
  /\ fromPeers = pads.real + peels
  /\ sinkUp \/ peels = 0
=============================================================================
