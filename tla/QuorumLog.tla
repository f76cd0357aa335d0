------------------------------ MODULE QuorumLog -----------------------------
(***************************************************************************)
(* HealthQuorumLog of aegis-relay/src/health_quorum_log.rs as operators on *)
(* its state and on the file behind it:                                    *)
(*                                                                         *)
(*   seen     the reports taken, one payload for an epoch, reporter and    *)
(*            subject                                                      *)
(*   pending  epoch, subject -> observations waiting for a quorum          *)
(*   applied  the epochs and subjects that are decided                     *)
(*   medians  epoch, subject -> accepted median, NoMedian without one      *)
(*                                                                         *)
(* The file is bytes, read in frames of one record's size.  A write that   *)
(* stopped half-way leaves a record that is not whole, and every frame     *)
(* behind it lies over the bytes of two records that were written one      *)
(* after the other: the reader decodes it all the same.  A record of the   *)
(* model therefore carries the report that was written and what the reader *)
(* decodes where its bytes end.                                            *)
(***************************************************************************)
EXTENDS PeerHealth, Sequences, SequencesExt

CONSTANTS
  Epoch,     (* gossip epochs                                             *)
  Authority, (* authority_set: reporters with a verifying key             *)
  NoMedian,
  Misread(_, _) (* what a frame over two neighbouring records may decode  *)
                (* to; a report, if the frames happen to fit again        *)

Report  == [epoch : Epoch, reporter : Relay, subject : Relay, ok : Count, fail : Count]
Place   == Epoch \X Relay

\* A record on the file; reads has what is decoded where its bytes end, one report or
\* none.
Record  == [whole : BOOLEAN, report : Report, reads : {{r} : r \in Report} \cup {{}}]

ASSUME QuorumLogAssumption ==
  Authority \subseteq Relay /\ NoMedian \notin Window

LogType == [seen : SUBSET Report, pending : [Place -> SUBSET Observation],
            applied : SUBSET Place, medians : [Place -> Window \cup {NoMedian}]]

NewLog == [seen    |-> {},
           pending |-> [p \in Place |-> {}],
           applied |-> {},
           medians |-> [p \in Place |-> NoMedian]]

SameKey(a, b) == a.epoch = b.epoch /\ a.reporter = b.reporter /\ a.subject = b.subject

\* Mutant of Equivocates: a second payload for a key is not compared with the first.
EquivocatesNever(log, report) == FALSE

Equivocates(log, report) ==
  \E r \in log.seen : SameKey(r, report) /\ r # report

ObservationOf(report, org) ==
  [reporter |-> report.reporter, ok |-> report.ok, fail |-> report.fail, org |-> org]

-----------------------------------------------------------------------------
\* What append_verified does in memory before it writes: the report counts as
\* seen, whatever becomes of the write.
NoteSeen(log, report) == [log EXCEPT !.seen = @ \cup {report}]

\* Mutant of Decide: a quarantined quorum leaves its median as well.
DecideWithMedian(log, place, obs, outcome) ==
  IF outcome = "WaitingDiversity" THEN [log EXCEPT !.pending[place] = obs]
  ELSE [log EXCEPT !.pending[place] = {},
                   !.applied = @ \cup {place},
                   !.medians[place] = IF HasMedian(obs) THEN MedianOutcomeCounts(obs) ELSE @]

\* The epoch and subject are decided unless the quorum waits for diversity.
Decide(log, place, obs, outcome) ==
  IF outcome = "WaitingDiversity" THEN [log EXCEPT !.pending[place] = obs]
  ELSE [log EXCEPT !.pending[place] = {},
                   !.applied = @ \cup {place},
                   !.medians[place] = IF outcome = "Applied" /\ HasMedian(obs)
                                      THEN MedianOutcomeCounts(obs) ELSE @]

\* append_verified after the write: [log, tracker, outcome, by], where by names
\* the reporters of a merge.
CountReport(log, tracker, report) ==
  LET place  == <<report.epoch, report.subject>>
      obs    == Buffered(log.pending[place],
                         ObservationOf(report, OrgOf[report.reporter]))
      merge  == ApplyQuorumMedian(tracker, report.subject, obs)
      answer(l, t, outcome, by) ==
        [log |-> l, tracker |-> t, outcome |-> outcome, by |-> by]
  IN  IF place \in log.applied THEN answer(log, tracker, "Duplicate", {})
      ELSE IF Cardinality(obs) < MajorityK
      THEN answer([log EXCEPT !.pending[place] = obs], tracker, "Buffered", {})
      ELSE answer(Decide(log, place, obs, merge.outcome), merge.tracker, merge.outcome,
                  {o.reporter : o \in obs})

-----------------------------------------------------------------------------
\* The file, as replay_from_disk reads it.
Torn(file) == \E i \in 1 .. Len(file) : ~file[i].whole

\* Bytes stand behind a torn record.
TornInside(file) == \E i \in 1 .. Len(file) - 1 : ~file[i].whole

\* What a record can be read as when it is written behind the file: itself, on an
\* untorn file; behind a torn record its bytes complete a frame of the bytes before.
ReadsAs(file, whole, report) ==
  IF ~Torn(file) THEN IF whole THEN {{report}} ELSE {{}}
  ELSE {{r} : r \in Misread([whole  |-> Last(file).whole, report |-> Last(file).report],
                            report) \cap Report}
       \cup (IF whole THEN {} ELSE {{}})

\* persist_entry, with all bytes of the record or a part of them.
Persisted(file, whole, report) ==
  {Append(file, [whole |-> whole, report |-> report, reads |-> reads]) :
     reads \in ReadsAs(file, whole, report)}

ReadBack(file) == UNION {file[i].reads : i \in 1 .. Len(file)}

\* replay_entry compares the payloads of a key before anything else: neither the
\* signature nor the authority of what was read is looked at.
ReplayFails(file) ==
  \E a, b \in ReadBack(file) : SameKey(a, b) /\ a # b

\* replay_entry files every report of an authority under its reporter's own
\* diversity key; finalize_replayed_quorums decides what has enough reporters.
ReplayedPending(file, place) ==
  {ObservationOf(r, r.reporter) :
     r \in {q \in ReadBack(file) : /\ <<q.epoch, q.subject>> = place
                                   /\ Authority = {} \/ q.reporter \in Authority}}

\* Mutant of ReplayedQuorum: one reporter more is asked for than live.
ReplayedQuorumLate(file, place) ==
  Cardinality(ReplayedPending(file, place)) > MajorityK

ReplayedQuorum(file, place) ==
  Cardinality(ReplayedPending(file, place)) >= MajorityK

Replay(file) ==
  [seen    |-> ReadBack(file),
   pending |-> [p \in Place |-> IF ReplayedQuorum(file, p) THEN {}
                                ELSE ReplayedPending(file, p)],
   applied |-> {p \in Place : ReplayedQuorum(file, p)},
   medians |-> [p \in Place |->
                  IF ReplayedQuorum(file, p) /\ HasMedian(ReplayedPending(file, p))
                  THEN MedianOutcomeCounts(ReplayedPending(file, p)) ELSE NoMedian]]

=============================================================================
