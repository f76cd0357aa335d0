-------------------------- MODULE NodeTrustProofs ---------------------------
(***************************************************************************)
(* Theorems about NodeTrust, over crashes, torn writes and restarts and    *)
(* for whatever the frames behind a torn record decode to: until something *)
(* stands behind one the log can be replayed and an epoch and subject are  *)
(* merged once; every merge has the quorum behind it, every median a merge *)
(* or the file; and every outcome put into a window is fed to the policy   *)
(* once.                                                                   *)
(***************************************************************************)
EXTENDS NodeTrust, FunctionTheorems, FiniteSetTheorems, SequenceTheorems,
        WellFoundedInduction, TLAPS

\* One observation for a reporter, every reporter an authority.
OnePerReporter(obs) == \A o, p \in obs : o.reporter = p.reporter => o = p

Buffer(obs) ==
  /\ obs \subseteq Observation /\ IsFiniteSet(obs) /\ OnePerReporter(obs)
  /\ \A o \in obs : o.reporter \in Authority

\* No observation of the buffer came back from the file.
Labelled(obs) == \A o \in obs : o.org = OrgOf[o.reporter]

\* The shapes of the tracker and of the log in memory.
TrackerShape(t) == DOMAIN t = {"windows", "pending"} /\ t.pending \in [Relay -> SUBSET Observation]

LogShape(l) ==
  /\ DOMAIN l = {"seen", "pending", "applied", "medians"}
  /\ l.seen \subseteq Report /\ l.applied \subseteq Place
  /\ l.pending \in [Place -> SUBSET Observation]

Shape ==
  /\ mode \in {"disk", "memory", "none"} /\ up \in BOOLEAN /\ boot \in Nat \ {0}
  /\ TrackerShape(tracker) /\ LogShape(log) /\ file \in Seq(Record)
  /\ merges \subseteq Merge /\ IsFiniteSet(merges)

\* What waits for a quorum is one observation for each authority that spoke.
Buffers ==
  /\ \A s \in Relay : Buffer(tracker.pending[s]) /\ Labelled(tracker.pending[s])
  /\ \A p \in Place : /\ Buffer(log.pending[p])
                      /\ (boot = 1 \/ mode # "disk") => Labelled(log.pending[p])

\* What is taken never equivocates.
Distinct(reports) == \A a, b \in reports : SameKey(a, b) => a = b

\* The file holds reports of authorities.  With nothing behind a torn record, what it
\* reads back does not equivocate and is among what the log has seen.
FileKnown ==
  /\ mode # "disk" => file = <<>>
  /\ \A i \in 1 .. Len(file) : file[i].report.reporter \in Authority
  /\ ~TornInside(file) => /\ Distinct(ReadBack(file))
                          /\ up => ReadBack(file) \subseteq log.seen
  /\ Distinct(log.seen)

\* A place on the file: what waits for it would come back.
OnFile(p, reporter) ==
  \E r \in ReadBack(file) : <<r.epoch, r.subject>> = p /\ r.reporter = reporter

PendingOnFile ==
  (up /\ mode = "disk" /\ ~TornInside(file)) =>
    \A p \in Place : \A o \in log.pending[p] : OnFile(p, o.reporter)

\* A merged place is decided for the rest of the process, and over restarts while
\* nothing stands behind a torn record.
MergesDecided ==
  \A m \in merges :
    /\ m.boot <= boot
    /\ (up /\ mode # "none" /\ m.boot = boot) => m.place \in log.applied
    /\ (mode = "disk" /\ ~TornInside(file)) => /\ ReplayedQuorum(file, m.place)
                                               /\ up => m.place \in log.applied

TrustInv ==
  /\ Shape /\ Buffers /\ FileKnown /\ PendingOnFile /\ MergesDecided
  /\ MergedOnce /\ QuorumBehindMerge

-----------------------------------------------------------------------------
\* A set of reports and the observations made of them.

LEMMA ImageFinite ==
  ASSUME NEW S, NEW T, NEW f \in [S -> T], IsFiniteSet(S)
  PROVE  IsFiniteSet({f[x] : x \in S})
<1> DEFINE R == {f[x] : x \in S}
<1>1. f \in Surjection(S, R)
  BY DEF Surjection
<1> QED BY <1>1, FS_Surjection

LEMMA AdvertFields ==
  ASSUME NEW a \in Advert
  PROVE  /\ ReportOf(a) \in Report
         /\ ReportOf(a).reporter = a.reporter
         /\ ReportOf(a).subject = a.subject /\ a.subject \in Relay
         /\ OrgOf[a.reporter] \in Org \cup Relay
         /\ ObservationOf(ReportOf(a), OrgOf[a.reporter]) \in Observation
         /\ ObservationOf(ReportOf(a), OrgOf[a.reporter]).reporter = a.reporter
         /\ ObservationOf(ReportOf(a), OrgOf[a.reporter]).org = OrgOf[a.reporter]
         /\ <<ReportOf(a).epoch, ReportOf(a).subject>> \in Place
         /\ <<AdvertEpoch(a.ts), a.subject>> = <<ReportOf(a).epoch, ReportOf(a).subject>>
<1>1. a \in AdvertType /\ a.ts \div EpochSecs \in Epoch
  BY NodeTrustAssumption
<1>2. a.reporter \in Relay /\ a.subject \in Relay /\ a.ok \in Count /\ a.fail \in Count
  BY <1>1 DEF AdvertType
<1>3. OrgOf[a.reporter] \in Org \cup Relay
  BY <1>2, PeerHealthAssumption
<1> QED BY <1>1, <1>2, <1>3
        DEF ReportOf, AdvertEpoch, Report, ObservationOf, Observation, Place

\* append_verified counts each reporter once: a buffer has as many observations as
\* it has reporters.
LEMMA ReportersCounted ==
  ASSUME NEW obs, Buffer(obs)
  PROVE  Cardinality({o.reporter : o \in obs}) = Cardinality(obs)
<1> DEFINE by == {o.reporter : o \in obs}
           f == [o \in obs |-> o.reporter]
<1>1. f \in Bijection(obs, by)
  BY DEF Buffer, OnePerReporter, Bijection, Injection, Surjection, IsInjective
<1> QED BY <1>1, FS_Bijection DEF Buffer, ExistsBijection

LEMMA BufferedIsBuffer ==
  ASSUME NEW obs, Buffer(obs), NEW o \in Observation, o.reporter \in Authority
  PROVE  Buffer(Buffered(obs, o))
<1>1. IsFiniteSet({p \in obs : p.reporter # o.reporter})
  BY FS_Subset DEF Buffer
<1>2. IsFiniteSet(Buffered(obs, o))
  BY <1>1, FS_AddElement DEF Buffered
<1> QED BY <1>2 DEF Buffer, Buffered, OnePerReporter

LEMMA BufferedLabelled ==
  ASSUME NEW obs, Labelled(obs), NEW o, o.org = OrgOf[o.reporter]
  PROVE  Labelled(Buffered(obs, o))
BY DEF Labelled, Buffered

LEMMA EmptyIsBuffer == Buffer({}) /\ Labelled({})
BY FS_EmptySet DEF Buffer, Labelled, OnePerReporter

\* The labels behind a merge are those of its reporters.
LEMMA LabelsOfReporters ==
  ASSUME NEW obs, Labelled(obs)
  PROVE  Orgs(obs) = {OrgOf[r] : r \in {o.reporter : o \in obs}}
BY DEF Labelled, Orgs

-----------------------------------------------------------------------------
\* The file.

LEMMA Appended ==
  ASSUME NEW f \in Seq(Record), NEW rec \in Record
  PROVE  /\ Append(f, rec) \in Seq(Record) /\ Len(f) \in Nat
         /\ Len(Append(f, rec)) = Len(f) + 1
         /\ \A i \in 1 .. Len(f) : Append(f, rec)[i] = f[i]
         /\ Append(f, rec)[Len(f) + 1] = rec
BY AppendProperties, LenProperties

LEMMA ReadBackAppend ==
  ASSUME NEW f \in Seq(Record), NEW rec \in Record
  PROVE  /\ ReadBack(Append(f, rec)) = ReadBack(f) \cup rec.reads
         /\ TornInside(Append(f, rec)) <=> Torn(f)
         /\ TornInside(f) => Torn(f)
<1> DEFINE g == Append(f, rec)
<1>1. /\ Len(g) = Len(f) + 1 /\ Len(f) \in Nat
      /\ \A i \in 1 .. Len(f) : g[i] = f[i]
      /\ g[Len(f) + 1] = rec
  BY Appended
<1> HIDE DEF g
<1>2. ReadBack(g) = ReadBack(f) \cup rec.reads
  <2>1. \A i \in 1 .. Len(g) : i \in 1 .. Len(f) \/ i = Len(f) + 1
    BY <1>1
  <2>2. \A i \in 1 .. Len(f) : i \in 1 .. Len(g)
    BY <1>1
  <2>3. Len(f) + 1 \in 1 .. Len(g)
    BY <1>1
  <2> QED BY <1>1, <2>1, <2>2, <2>3 DEF ReadBack
<1>3. TornInside(g) <=> Torn(f)
  BY <1>1 DEF TornInside, Torn
<1>4. TornInside(f) => Torn(f)
  BY <1>1 DEF TornInside, Torn
<1> QED BY <1>2, <1>3, <1>4 DEF g

\* A record that was written (persist_entry).
Persists(f, w, report, g) ==
  \E rec \in Record :
    /\ g = Append(f, rec) /\ rec.report = report
    /\ ~Torn(f) => rec.reads = IF w THEN {report} ELSE {}

LEMMA PersistedIs ==
  ASSUME NEW f, NEW w \in BOOLEAN, NEW report \in Report, NEW g \in Persisted(f, w, report)
  PROVE  Persists(f, w, report, g)
<1>1. PICK reads \in ReadsAs(f, w, report) :
         g = Append(f, [whole |-> w, report |-> report, reads |-> reads])
  BY DEF Persisted
<1>2. reads \in {{r} : r \in Report} \cup {{}}
  BY DEF ReadsAs
<1>3. ~Torn(f) => reads = IF w THEN {report} ELSE {}
  BY DEF ReadsAs
<1>4. [whole |-> w, report |-> report, reads |-> reads] \in Record
  BY <1>2 DEF Record
<1> QED BY <1>1, <1>3, <1>4 DEF Persists

LEMMA ReadBackFinite ==
  ASSUME NEW f \in Seq(Record)
  PROVE  IsFiniteSet(ReadBack(f)) /\ ReadBack(f) \subseteq Report
<1> DEFINE D == 1 .. Len(f)
           h == [i \in D |-> f[i].reads]
<1>1. IsFiniteSet(D)
  BY FS_Interval, LenProperties
<1>2. \A i \in D : f[i] \in Record
  BY ElementOfSeq
<1>3. \A i \in D : h[i] \subseteq Report /\ IsFiniteSet(h[i])
  <2> SUFFICES ASSUME NEW i \in D PROVE h[i] \subseteq Report /\ IsFiniteSet(h[i])
    OBVIOUS
  <2>1. h[i] = {} \/ \E r \in Report : h[i] = {r}
    BY <1>2 DEF Record
  <2>2. CASE h[i] = {}
    BY <2>2, FS_EmptySet
  <2>3. CASE \E r \in Report : h[i] = {r}
    <3>1. PICK r \in Report : h[i] = {r}
      BY <2>3
    <3>2. IsFiniteSet({r})
      BY FS_Singleton
    <3> QED BY <3>1, <3>2
  <2> QED BY <2>1, <2>2, <2>3
<1>4. ReadBack(f) = UNION {h[i] : i \in D}
  BY DEF ReadBack
<1>5. h \in [D -> SUBSET Report]
  BY <1>3
<1> HIDE DEF h, D
<1>6. IsFiniteSet({h[i] : i \in D})
  BY <1>1, <1>5, ImageFinite
<1>7. IsFiniteSet(UNION {h[i] : i \in D})
  <2>1. \A T \in {h[i] : i \in D} : IsFiniteSet(T)
    BY <1>3
  <2> QED BY <1>6, <2>1, FS_UNION
<1> QED BY <1>3, <1>4, <1>7

LEMMA ReplayedFinite ==
  ASSUME NEW f \in Seq(Record), NEW p
  PROVE  /\ IsFiniteSet(ReplayedPending(f, p))
         /\ ReplayedPending(f, p) \subseteq Observation
<1> DEFINE Q == {q \in ReadBack(f) : /\ <<q.epoch, q.subject>> = p
                                     /\ Authority = {} \/ q.reporter \in Authority}
           h == [r \in Q |-> ObservationOf(r, r.reporter)]
<1>1. IsFiniteSet(Q) /\ Q \subseteq Report
  BY ReadBackFinite, FS_Subset
<1>2. \A r \in Q : ObservationOf(r, r.reporter) \in Observation
  BY <1>1 DEF Report, ObservationOf, Observation
<1>3. h \in [Q -> Observation]
  BY <1>2
<1>4. ReplayedPending(f, p) = {h[r] : r \in Q}
  BY DEF ReplayedPending
<1> HIDE DEF h, Q
<1>5. IsFiniteSet({h[r] : r \in Q})
  BY <1>1, <1>3, ImageFinite
<1> QED BY <1>3, <1>4, <1>5

LEMMA ReplayedIsBuffer ==
  ASSUME NEW f \in Seq(Record), NEW p, Distinct(ReadBack(f)),
         Authority = {} => Len(f) = 0
  PROVE  Buffer(ReplayedPending(f, p))
<1>1. Authority = {} => ReadBack(f) = {}
  BY DEF ReadBack
<1>2. \A o \in ReplayedPending(f, p) :
         \E r \in ReadBack(f) : /\ o = ObservationOf(r, r.reporter) /\ <<r.epoch, r.subject>> = p
                                /\ Authority = {} \/ r.reporter \in Authority
  BY DEF ReplayedPending
<1>3. \A o \in ReplayedPending(f, p) : o.reporter \in Authority
  BY <1>1, <1>2 DEF ObservationOf
<1>4. OnePerReporter(ReplayedPending(f, p))
  <2> SUFFICES ASSUME NEW o \in ReplayedPending(f, p), NEW q \in ReplayedPending(f, p),
                      o.reporter = q.reporter
               PROVE  o = q
    BY DEF OnePerReporter
  <2>1. PICK r \in ReadBack(f) : o = ObservationOf(r, r.reporter) /\ <<r.epoch, r.subject>> = p
    BY <1>2
  <2>2. PICK s \in ReadBack(f) : q = ObservationOf(s, s.reporter) /\ <<s.epoch, s.subject>> = p
    BY <1>2
  <2>3. SameKey(r, s)
    BY <2>1, <2>2 DEF SameKey, ObservationOf
  <2> QED BY <2>1, <2>2, <2>3 DEF Distinct
<1> QED BY <1>3, <1>4, ReplayedFinite DEF Buffer

\* What is on the file stays there: a quorum that would be replayed once is replayed
\* at every later start.
LEMMA QuorumStays ==
  ASSUME NEW f \in Seq(Record), NEW g \in Seq(Record), NEW p, ReadBack(f) \subseteq ReadBack(g),
         ReplayedQuorum(f, p)
  PROVE  ReplayedQuorum(g, p)
<1>1. ReplayedPending(f, p) \subseteq ReplayedPending(g, p)
  BY DEF ReplayedPending
<1>2. /\ Cardinality(ReplayedPending(f, p)) <= Cardinality(ReplayedPending(g, p))
      /\ Cardinality(ReplayedPending(f, p)) \in Nat
      /\ Cardinality(ReplayedPending(g, p)) \in Nat
  BY <1>1, ReplayedFinite, FS_Subset, FS_CardinalityType
<1> QED BY <1>2, PeerHealthAssumption DEF ReplayedQuorum

\* A quorum in memory whose reporters are on the file is a quorum at the next start
\* (replay_from_disk, finalize_replayed_quorums).
LEMMA QuorumReplays ==
  ASSUME NEW f \in Seq(Record), NEW p, NEW obs, Buffer(obs), Cardinality(obs) >= MajorityK,
         \A o \in obs : \E r \in ReadBack(f) : <<r.epoch, r.subject>> = p /\ r.reporter = o.reporter
  PROVE  ReplayedQuorum(f, p)
<1> DEFINE RP == ReplayedPending(f, p)
           h == [o \in obs |-> CHOOSE q \in RP : q.reporter = o.reporter]
<1>1. ASSUME NEW o \in obs PROVE \E q \in RP : q.reporter = o.reporter
  <2>1. PICK r \in ReadBack(f) : <<r.epoch, r.subject>> = p /\ r.reporter = o.reporter
    OBVIOUS
  <2>2. r.reporter \in Authority
    BY <2>1 DEF Buffer
  <2>3. ObservationOf(r, r.reporter) \in RP
    BY <2>1, <2>2 DEF ReplayedPending
  <2> QED BY <2>1, <2>3 DEF ObservationOf
<1>2. \A o \in obs : h[o] \in RP /\ h[o].reporter = o.reporter
  BY <1>1
<1> HIDE DEF h, RP
<1>3. h \in [obs -> RP]
  BY <1>2 DEF h
<1>4. h \in Injection(obs, RP)
  BY <1>2, <1>3 DEF Injection, IsInjective, Buffer, OnePerReporter
<1>5. Cardinality(obs) <= Cardinality(RP) /\ Cardinality(obs) \in Nat /\ Cardinality(RP) \in Nat
  BY <1>4, FS_Injection, ReplayedFinite, FS_CardinalityType DEF RP, Buffer
<1> QED BY <1>5, PeerHealthAssumption DEF ReplayedQuorum, RP

-----------------------------------------------------------------------------
\* The tracker.

LEMMA RecordOutcomeKeeps ==
  ASSUME NEW t, TrackerShape(t), NEW peer, NEW good
  PROVE  /\ TrackerShape(RecordOutcome(t, peer, good))
         /\ RecordOutcome(t, peer, good).pending = t.pending
BY DEF RecordOutcome, TrackerShape

LEMMA FinishKeeps ==
  ASSUME NEW t, TrackerShape(t), NEW subject, NEW obs
  PROVE  /\ TrackerShape(FinishMedianMerge(t, subject, obs).tracker)
         /\ FinishMedianMerge(t, subject, obs).tracker.pending = t.pending
         /\ FinishMedianMerge(t, subject, obs).outcome \in {"Applied", "Quarantined"}
<1> DEFINE M == FinishMedianMerge(t, subject, obs)
           A(ok, fail) == ApplyGossipOutcomes(t, subject, ok, fail)
<1>1. \A ok, fail : TrackerShape(A(ok, fail)) /\ A(ok, fail).pending = t.pending
  BY DEF ApplyGossipOutcomes, TrackerShape
<1>2. \/ M = [tracker |-> t, outcome |-> "Applied"]
      \/ M = [tracker |-> t, outcome |-> "Quarantined"]
      \/ \E ok, fail : M = [tracker |-> A(ok, fail), outcome |-> "Applied"]
  BY DEF FinishMedianMerge
<1> HIDE DEF M, A
<1> QED BY <1>1, <1>2 DEF M

LEMMA ApplyKeeps ==
  ASSUME NEW t, TrackerShape(t), NEW subject, NEW obs
  PROVE  LET M == ApplyQuorumMedian(t, subject, obs)
         IN  /\ TrackerShape(M.tracker) /\ M.tracker.pending = t.pending
             /\ M.outcome \in {"WaitingDiversity", "Applied", "Quarantined"}
             /\ M.outcome = "Applied" => ~(Cardinality(Orgs(obs)) < MinOrgs)
<1> DEFINE M == ApplyQuorumMedian(t, subject, obs)
<1>1. \/ /\ Cardinality(Orgs(obs)) < MinOrgs
         /\ M = [tracker |-> t, outcome |-> "WaitingDiversity"]
      \/ /\ ~(Cardinality(Orgs(obs)) < MinOrgs)
         /\ M = FinishMedianMerge(t, subject, obs)
  BY DEF ApplyQuorumMedian
<1> HIDE DEF M
<1>2. /\ TrackerShape(M.tracker) /\ M.tracker.pending = t.pending
      /\ M.outcome \in {"WaitingDiversity", "Applied", "Quarantined"}
      /\ M.outcome = "Applied" => ~(Cardinality(Orgs(obs)) < MinOrgs)
  BY <1>1, FinishKeeps
<1> QED BY <1>2 DEF M

\* ingest_gossip_observation: what waits for the subject is the buffer with the new
\* observation or, after a merge or a quarantine, nothing.
LEMMA IngestKeeps ==
  ASSUME NEW t, TrackerShape(t), NEW subject \in Relay, NEW o \in Observation
  PROVE  LET M   == IngestObservation(t, subject, o)
             obs == Buffered(t.pending[subject], o)
         IN  /\ TrackerShape(M.tracker)
             /\ \E X \in {obs, {}} : M.tracker.pending = [t.pending EXCEPT ![subject] = X]
             /\ M.outcome = "Applied" =>
                  /\ ~(Cardinality(obs) < MajorityK)
                  /\ ~(Cardinality(Orgs(obs)) < MinOrgs)
<1> DEFINE M    == IngestObservation(t, subject, o)
           obs  == Buffered(t.pending[subject], o)
           kept == [t EXCEPT !.pending[subject] = obs]
           none == [t EXCEPT !.pending[subject] = {}]
<1>1. obs \subseteq Observation
  BY DEF TrackerShape, Buffered
<1>2. /\ TrackerShape(kept) /\ kept.pending = [t.pending EXCEPT ![subject] = obs]
      /\ TrackerShape(none) /\ none.pending = [t.pending EXCEPT ![subject] = {}]
  BY <1>1 DEF TrackerShape
<1>3. \/ M = [tracker |-> kept, outcome |-> "Buffered"]
      \/ M = [tracker |-> kept, outcome |-> "WaitingDiversity"]
      \/ /\ ~(Cardinality(obs) < MajorityK)
         /\ ~(Cardinality(Orgs(obs)) < MinOrgs)
         /\ M = FinishMedianMerge(none, subject, obs)
  BY DEF IngestObservation
<1> HIDE DEF M, obs, kept, none
<1>4. /\ TrackerShape(M.tracker)
      /\ M.tracker.pending = kept.pending \/ M.tracker.pending = none.pending
      /\ M.outcome = "Applied" =>
           /\ ~(Cardinality(obs) < MajorityK)
           /\ ~(Cardinality(Orgs(obs)) < MinOrgs)
  BY <1>2, <1>3, FinishKeeps
<1> QED BY <1>2, <1>4 DEF M, obs

-----------------------------------------------------------------------------
\* The log in memory.

LEMMA NoteSeenKeeps ==
  ASSUME NEW l, LogShape(l), NEW report \in Report
  PROVE  /\ LogShape(NoteSeen(l, report))
         /\ NoteSeen(l, report).seen = l.seen \cup {report}
         /\ NoteSeen(l, report).pending = l.pending
         /\ NoteSeen(l, report).applied = l.applied
BY DEF NoteSeen, LogShape

LEMMA NewLogShape ==
  /\ LogShape(NewLog) /\ NewLog.seen = {} /\ NewLog.applied = {}
  /\ \A p \in Place : NewLog.pending[p] = {}
BY DEF NewLog, LogShape

\* append_verified after the write: what waits for the place is what waited, the
\* buffer with the new observation, or nothing; a place is merged when it was not
\* decided, and is decided by it.
CountEffect(l, t, A, place, obs) ==
  /\ LogShape(A.log) /\ A.log.seen = l.seen
  /\ \E X \in {l.pending[place], obs, {}} :
       A.log.pending = [l.pending EXCEPT ![place] = X]
  /\ l.applied \subseteq A.log.applied
  /\ TrackerShape(A.tracker) /\ A.tracker.pending = t.pending
  /\ A.outcome = "Applied" =>
       /\ place \notin l.applied /\ place \in A.log.applied
       /\ ~(Cardinality(obs) < MajorityK)
       /\ ~(Cardinality(Orgs(obs)) < MinOrgs)
       /\ A.by = {o.reporter : o \in obs}

LEMMA CountReportKeeps ==
  ASSUME NEW l, LogShape(l), NEW t, TrackerShape(t), NEW report \in Report,
         OrgOf[report.reporter] \in Org \cup Relay
  PROVE  CountEffect(l, t, CountReport(l, t, report), <<report.epoch, report.subject>>,
                     Buffered(l.pending[<<report.epoch, report.subject>>],
                              ObservationOf(report, OrgOf[report.reporter])))
<1> DEFINE A     == CountReport(l, t, report)
           place == <<report.epoch, report.subject>>
           obs   == Buffered(l.pending[place], ObservationOf(report, OrgOf[report.reporter]))
           new   == ObservationOf(report, OrgOf[report.reporter])
           M     == ApplyQuorumMedian(t, report.subject, obs)
           wait  == [l EXCEPT !.pending[place] = obs]
           D     == Decide(l, place, obs, M.outcome)
           by    == {o.reporter : o \in obs}
           A1    == [log |-> l, tracker |-> t, outcome |-> "Duplicate", by |-> {}]
           A2    == [log |-> wait, tracker |-> t, outcome |-> "Buffered", by |-> {}]
           A3    == [log |-> D, tracker |-> M.tracker, outcome |-> M.outcome, by |-> by]
<1>1. place \in Place /\ new \in Observation
  BY DEF Report, Place, ObservationOf, Observation
<1>2. obs \subseteq Observation
  BY <1>1 DEF LogShape, Buffered
<1>3. LogShape(wait) /\ wait.seen = l.seen /\ wait.applied = l.applied
      /\ wait.pending = [l.pending EXCEPT ![place] = obs]
  BY <1>1, <1>2 DEF LogShape
<1>4. \/ place \in l.applied /\ A = A1
      \/ place \notin l.applied /\ A = A2
      \/ place \notin l.applied /\ ~(Cardinality(obs) < MajorityK) /\ A = A3
  BY DEF CountReport
<1>5. /\ TrackerShape(M.tracker) /\ M.tracker.pending = t.pending
      /\ M.outcome \in {"WaitingDiversity", "Applied", "Quarantined"}
      /\ M.outcome = "Applied" => ~(Cardinality(Orgs(obs)) < MinOrgs)
  BY ApplyKeeps
<1>6. \/ M.outcome = "WaitingDiversity" /\ D = wait
      \/ /\ M.outcome # "WaitingDiversity"
         /\ LogShape(D) /\ D.seen = l.seen
         /\ D.pending = [l.pending EXCEPT ![place] = {}]
         /\ D.applied = l.applied \cup {place}
  BY <1>1, <1>5 DEF Decide, LogShape
<1>7. l.pending = [l.pending EXCEPT ![place] = l.pending[place]]
  BY <1>1 DEF LogShape
<1>8. CountEffect(l, t, A, place, obs)
  <2> HIDE DEF A, obs, M, wait, D, new, by, place
  <2>1. CASE A = A1 /\ place \in l.applied
    BY <1>7, <2>1 DEF CountEffect
  <2>2. CASE A = A2 /\ place \notin l.applied
    BY <1>3, <2>2 DEF CountEffect
  <2>3. CASE A = A3 /\ place \notin l.applied /\ ~(Cardinality(obs) < MajorityK)
    BY <1>3, <1>5, <1>6, <2>3 DEF by, CountEffect
  <2> QED BY <1>4, <2>1, <2>2, <2>3
<1> QED BY <1>8

\* A log that was just replayed.
LEMMA ReplayShape ==
  ASSUME NEW f \in Seq(Record)
  PROVE  /\ LogShape(Replay(f)) /\ Replay(f).seen = ReadBack(f)
         /\ Replay(f).applied = {p \in Place : ReplayedQuorum(f, p)}
         /\ \A p \in Place : Replay(f).pending[p] \in {{}, ReplayedPending(f, p)}
<1>1. \A p \in Place : ReplayedPending(f, p) \subseteq Observation
  BY ReplayedFinite
<1>2. ReadBack(f) \subseteq Report
  BY ReadBackFinite
<1> QED BY <1>1, <1>2 DEF Replay, LogShape

-----------------------------------------------------------------------------
\* The steps.

LEMMA TrustInit == Init => TrustInv
<1> SUFFICES ASSUME Init PROVE TrustInv
  OBVIOUS
<1>1. mode \in {"disk", "memory", "none"}
  BY NodeTrustAssumption DEF Init
<1>2. file \in Seq(Record) /\ Len(file) = 0
  BY DEF Init
<1>3. TrackerShape(tracker) /\ \A s \in Relay : tracker.pending[s] = {}
  BY DEF Init, NewTracker, TrackerShape
<1>4. LogShape(log) /\ log.seen = {} /\ \A p \in Place : log.pending[p] = {}
  BY NewLogShape DEF Init
<1>5. ReadBack(file) = {}
  BY <1>2 DEF ReadBack
<1>6. Shape
  BY <1>1, <1>2, <1>3, <1>4, FS_EmptySet DEF Shape, Init
<1>7. Buffers
  BY <1>3, <1>4, EmptyIsBuffer DEF Buffers
<1>8. FileKnown
  BY <1>2, <1>4, <1>5 DEF FileKnown, Distinct, Init
<1>9. PendingOnFile
  BY <1>4 DEF PendingOnFile
<1> QED BY <1>6, <1>7, <1>8, <1>9
        DEF TrustInv, MergesDecided, MergedOnce, QuorumBehindMerge, Init

\* A step that leaves the quorum log, its file and the gossip buffers alone.
LEMMA TrustSame ==
  ASSUME TrustInv, TrackerShape(tracker'), tracker'.pending = tracker.pending,
         UNCHANGED <<mode, up, log, file, boot, merges>>
  PROVE  TrustInv'
<1>1. Shape'
  BY DEF TrustInv, Shape
<1>2. Buffers'
  BY DEF TrustInv, Buffers
<1>3. FileKnown'
  BY DEF TrustInv, FileKnown
<1>4. PendingOnFile'
  BY DEF TrustInv, PendingOnFile, OnFile
<1>5. MergesDecided'
  BY DEF TrustInv, MergesDecided
<1>6. MergedOnce' /\ QuorumBehindMerge'
  BY DEF TrustInv, MergedOnce, QuorumBehindMerge
<1> QED BY <1>1, <1>2, <1>3, <1>4, <1>5, <1>6 DEF TrustInv

\* What a step may do to the file: it grows, and can still be replayed.
FileGrows ==
  /\ file' \in Seq(Record) /\ ReadBack(file) \subseteq ReadBack(file')
  /\ ~TornInside(file') => Distinct(ReadBack(file'))
  /\ \A i \in 1 .. Len(file') : file'[i].report.reporter \in Authority
  /\ TornInside(file) => TornInside(file')
  /\ mode # "disk" => file' = <<>>

LEMMA FileSame ==
  ASSUME TrustInv, file' = file
  PROVE  FileGrows
BY DEF TrustInv, Shape, FileKnown, FileGrows

\* A report that is neither refused nor known does not equivocate with what the log
\* has seen, nor with what is on the file.
LEMMA NewIsDistinct ==
  ASSUME TrustInv, NEW a \in Advert, New(a)
  PROVE  /\ ReportOf(a) \in Report /\ a.reporter \in Authority
         /\ Distinct(log.seen \cup {ReportOf(a)})
         /\ ~TornInside(file) => ReadBack(file) \subseteq log.seen
<1>1. ReportOf(a) \in Report
  BY AdvertFields
<1>2. ~ \E r \in log.seen : SameKey(r, ReportOf(a)) /\ r # ReportOf(a)
  BY DEF New, Equivocates
<1>3. \A x, y : SameKey(x, y) => SameKey(y, x)
  BY DEF SameKey
<1>4. Distinct(log.seen)
  BY DEF TrustInv, FileKnown
<1>5. Distinct(log.seen \cup {ReportOf(a)})
  BY <1>2, <1>3, <1>4 DEF Distinct
<1> QED BY <1>1, <1>5 DEF New, Accepts, TrustInv, FileKnown

LEMMA FileAppended ==
  ASSUME TrustInv, NEW a \in Advert, New(a), mode = "disk",
         NEW w \in BOOLEAN, file' \in Persisted(file, w, ReportOf(a))
  PROVE  /\ FileGrows
         /\ ~TornInside(file') => ReadBack(file') \subseteq log.seen \cup {ReportOf(a)}
         /\ (w /\ ~TornInside(file')) => ReportOf(a) \in ReadBack(file')
<1>1. /\ ReportOf(a) \in Report /\ a.reporter \in Authority
      /\ Distinct(log.seen \cup {ReportOf(a)})
      /\ ~TornInside(file) => ReadBack(file) \subseteq log.seen
      /\ ReportOf(a).reporter = a.reporter
  BY NewIsDistinct, AdvertFields
<1>2. PICK rec \in Record : /\ file' = Append(file, rec) /\ rec.report = ReportOf(a)
                            /\ ~Torn(file) => rec.reads = IF w THEN {ReportOf(a)} ELSE {}
  <2>1. Persists(file, w, ReportOf(a), file')
    BY <1>1, PersistedIs
  <2> QED BY <2>1 DEF Persists
<1>3. file \in Seq(Record)
  BY DEF TrustInv, Shape
<1>4. /\ file' \in Seq(Record) /\ ReadBack(file') = ReadBack(file) \cup rec.reads
      /\ TornInside(file') <=> Torn(file)
      /\ TornInside(file) => Torn(file)
  BY <1>2, <1>3, Appended, ReadBackAppend
<1>5. ~TornInside(file') => ReadBack(file') \subseteq log.seen \cup {ReportOf(a)}
  BY <1>1, <1>2, <1>4
<1>6. ~TornInside(file') => Distinct(ReadBack(file'))
  BY <1>1, <1>5 DEF Distinct
<1>7. (w /\ ~TornInside(file')) => ReportOf(a) \in ReadBack(file')
  BY <1>2, <1>4
<1>8. \A i \in 1 .. Len(file') : file'[i].report.reporter \in Authority
  <2>1. /\ Len(file) \in Nat /\ Len(file') = Len(file) + 1
        /\ \A i \in 1 .. Len(file) : file'[i] = file[i]
        /\ file'[Len(file) + 1] = rec
    BY <1>2, <1>3, Appended
  <2>2. \A i \in 1 .. Len(file) : file[i].report.reporter \in Authority
    BY DEF TrustInv, FileKnown
  <2> QED BY <2>1, <2>2, <1>1, <1>2
<1> QED BY <1>4, <1>5, <1>6, <1>7, <1>8 DEF FileGrows

\* A merge made before a step that forgets no decided place.
LEMMA OldMerge ==
  ASSUME TrustInv, FileGrows, UNCHANGED <<mode, boot>>,
         up' => up /\ log.applied \subseteq log'.applied, NEW m \in merges
  PROVE  /\ m.boot <= boot
         /\ (up' /\ mode # "none" /\ m.boot = boot) => m.place \in log'.applied
         /\ (mode = "disk" /\ ~TornInside(file')) => /\ ReplayedQuorum(file', m.place)
                                                     /\ up' => m.place \in log'.applied
<1>1. /\ m.boot <= boot
      /\ (up /\ mode # "none" /\ m.boot = boot) => m.place \in log.applied
      /\ (mode = "disk" /\ ~TornInside(file)) => /\ ReplayedQuorum(file, m.place)
                                                 /\ up => m.place \in log.applied
  BY DEF TrustInv, MergesDecided
<1>2. ReplayedQuorum(file, m.place) => ReplayedQuorum(file', m.place)
  BY QuorumStays DEF FileGrows, TrustInv, Shape
<1> QED BY <1>1, <1>2 DEF FileGrows

LEMMA MergesKept ==
  ASSUME TrustInv, FileGrows, UNCHANGED <<mode, boot, merges>>,
         up' => up /\ log.applied \subseteq log'.applied
  PROVE  MergesDecided' /\ MergedOnce' /\ QuorumBehindMerge'
<1>1. MergesDecided'
  BY OldMerge DEF MergesDecided
<1>2. MergedOnce'
  BY DEF TrustInv, MergedOnce, FileGrows
<1>3. QuorumBehindMerge'
  BY DEF TrustInv, QuorumBehindMerge
<1> QED BY <1>1, <1>2, <1>3

\* The end of the process, with what became of a record that was being written.
LEMMA TrustLost ==
  ASSUME TrustInv, MemoryLost, FileGrows, UNCHANGED <<mode, boot, merges>>
  PROVE  TrustInv'
<1>1. TrackerShape(tracker') /\ \A s \in Relay : tracker'.pending[s] = {}
  BY DEF MemoryLost, NewTracker, TrackerShape
<1>2. LogShape(log') /\ log'.seen = {} /\ \A p \in Place : log'.pending[p] = {}
  BY NewLogShape DEF MemoryLost
<1>3. up' = FALSE
  BY DEF MemoryLost
<1>4. Shape'
  BY <1>1, <1>2, <1>3 DEF TrustInv, Shape, FileGrows
<1>5. Buffers'
  BY <1>1, <1>2, EmptyIsBuffer DEF Buffers
<1>6. FileKnown'
  BY <1>2, <1>3 DEF FileKnown, FileGrows, Distinct
<1>7. PendingOnFile'
  BY <1>3 DEF PendingOnFile
<1> QED BY <1>3, <1>4, <1>5, <1>6, <1>7, MergesKept DEF TrustInv

LEMMA TrustAppendFails ==
  ASSUME TrustInv, NEW a \in Advert, AppendFails(a)
  PROVE  TrustInv'
<1> DEFINE report == ReportOf(a)
<1>1. /\ New(a) /\ mode = "disk" /\ up
      /\ log' = NoteSeen(log, report)
      /\ file' \in {file} \cup Persisted(file, FALSE, report)
      /\ UNCHANGED <<mode, up, tracker, boot, merges>>
  BY DEF AppendFails, New
<1>2. FileGrows /\ (~TornInside(file') => ReadBack(file') \subseteq log.seen \cup {report})
  <2>1. CASE file' = file
    BY <1>1, <2>1, FileSame, NewIsDistinct
  <2>2. CASE file' \in Persisted(file, FALSE, report)
    BY <1>1, <2>2, FileAppended
  <2> QED BY <1>1, <2>1, <2>2
<1>3. /\ LogShape(log') /\ log'.seen = log.seen \cup {report}
      /\ log'.pending = log.pending /\ log'.applied = log.applied
  BY <1>1, NoteSeenKeeps, AdvertFields DEF TrustInv, Shape
<1>4. Shape'
  BY <1>1, <1>2, <1>3 DEF TrustInv, Shape, FileGrows
<1>5. Buffers'
  BY <1>1, <1>3 DEF TrustInv, Buffers
<1>6. FileKnown'
  BY <1>1, <1>2, <1>3, NewIsDistinct DEF FileKnown, FileGrows
<1>7. PendingOnFile'
  BY <1>1, <1>2, <1>3 DEF TrustInv, PendingOnFile, OnFile, FileGrows
<1>8. MergesDecided' /\ MergedOnce' /\ QuorumBehindMerge'
  BY <1>1, <1>2, <1>3, MergesKept
<1> QED BY <1>4, <1>5, <1>6, <1>7, <1>8 DEF TrustInv

LEMMA TrustCrashInAppend ==
  ASSUME TrustInv, NEW a \in Advert, CrashInAppend(a)
  PROVE  TrustInv'
<1>1. /\ New(a) /\ mode = "disk" /\ MemoryLost /\ UNCHANGED <<mode, boot, merges>>
  BY DEF CrashInAppend
<1>2. \E w \in BOOLEAN : file' \in Persisted(file, w, ReportOf(a))
  BY DEF CrashInAppend
<1>3. FileGrows
  BY <1>1, <1>2, FileAppended
<1> QED BY <1>1, <1>3, TrustLost

\* A start of the process: what the log knows is what is on the file.
LEMMA TrustRestart ==
  ASSUME TrustInv, Restart
  PROVE  TrustInv'
<1>1. /\ ~up /\ up' = TRUE /\ boot' = boot + 1 /\ boot \in Nat \ {0}
      /\ log' = IF mode = "disk" THEN Replay(file) ELSE NewLog
      /\ UNCHANGED <<mode, tracker, file, merges>>
      /\ file \in Seq(Record) /\ TrackerShape(tracker)
      /\ mode = "disk" => Distinct(ReadBack(file))
  BY DEF Restart, TrustInv, Shape, ReplayFails, Distinct
<1>2. LogShape(log')
  BY <1>1, ReplayShape, NewLogShape
<1>3. Shape'
  BY <1>1, <1>2 DEF TrustInv, Shape
<1>4. FileGrows
  BY <1>1, FileSame
<1>5. Buffers'
  <2>1. \A s \in Relay : Buffer(tracker'.pending[s]) /\ Labelled(tracker'.pending[s])
    BY <1>1 DEF TrustInv, Buffers
  <2>2. ASSUME NEW p \in Place
        PROVE  Buffer(log'.pending[p]) /\ (mode # "disk" => Labelled(log'.pending[p]))
    <3>1. CASE mode = "disk"
      <4>1. log'.pending[p] \in {{}, ReplayedPending(file, p)}
        BY <1>1, <3>1, ReplayShape
      <4>2. Buffer(ReplayedPending(file, p))
        <5>1. Authority = {} => Len(file) = 0
          <6>1. Len(file) \in Nat /\ \A i \in 1 .. Len(file) : file[i].report.reporter \in Authority
            BY <1>1, LenProperties DEF TrustInv, FileKnown
          <6> QED BY <6>1
        <5> QED BY <1>1, <3>1, <5>1, ReplayedIsBuffer
      <4> QED BY <3>1, <4>1, <4>2, EmptyIsBuffer
    <3>2. CASE mode # "disk"
      BY <1>1, <3>2, NewLogShape, EmptyIsBuffer
    <3> QED BY <3>1, <3>2
  <2> QED BY <1>1, <2>1, <2>2 DEF Buffers
<1>6. FileKnown'
  <2>1. CASE mode = "disk"
    BY <1>1, <2>1, ReplayShape DEF TrustInv, FileKnown
  <2>2. CASE mode # "disk"
    <3>1. file = <<>> /\ ReadBack(file) = {}
      BY <2>2 DEF TrustInv, FileKnown, ReadBack
    <3>2. log'.seen = {}
      BY <1>1, <2>2, NewLogShape
    <3> QED BY <1>1, <3>1, <3>2, <2>2 DEF TrustInv, FileKnown, Distinct
  <2> QED BY <2>1, <2>2
<1>7. PendingOnFile'
  <2> SUFFICES ASSUME mode = "disk", NEW p \in Place, NEW o \in log'.pending[p]
               PROVE  OnFile(p, o.reporter)'
    BY <1>1 DEF PendingOnFile
  <2>1. o \in ReplayedPending(file, p)
    BY <1>1, ReplayShape
  <2>2. PICK r \in ReadBack(file) : o = ObservationOf(r, r.reporter) /\ <<r.epoch, r.subject>> = p
    BY <2>1 DEF ReplayedPending
  <2>3. r.reporter = o.reporter
    BY <2>2 DEF ObservationOf
  <2> QED BY <1>1, <2>2, <2>3 DEF OnFile
<1>8. MergesDecided'
  <2> SUFFICES ASSUME NEW m \in merges
               PROVE  /\ m.boot < boot + 1
                      /\ (mode = "disk" /\ ~TornInside(file)) =>
                           /\ ReplayedQuorum(file, m.place)
                           /\ m.place \in log'.applied
    BY <1>1 DEF MergesDecided, TrustInv, Shape, Merge
  <2>1. /\ m.boot <= boot /\ m.boot \in Nat /\ m.place \in Place
        /\ (mode = "disk" /\ ~TornInside(file)) => ReplayedQuorum(file, m.place)
    BY DEF TrustInv, MergesDecided, Shape, Merge
  <2> QED BY <1>1, <2>1, ReplayShape
<1>9. MergedOnce'
  BY <1>1 DEF TrustInv, MergedOnce
<1>10. QuorumBehindMerge'
  BY <1>1 DEF TrustInv, QuorumBehindMerge
<1> QED BY <1>3, <1>5, <1>6, <1>7, <1>8, <1>9, <1>10 DEF TrustInv

LEMMA OrgsFinite ==
  ASSUME NEW obs, IsFiniteSet(obs)
  PROVE  IsFiniteSet(Orgs(obs))
<1> DEFINE h == [o \in obs |-> o.org]
           T == {o.org : o \in obs}
<1>1. h \in [obs -> T]
  OBVIOUS
<1>2. Orgs(obs) = {h[o] : o \in obs}
  BY DEF Orgs
<1> HIDE DEF h, T
<1>3. IsFiniteSet({h[o] : o \in obs})
  BY <1>1, ImageFinite
<1> QED BY <1>2, <1>3

\* A quorum of a buffer is a quorum of authorities, with the labels it was counted by.
LEMMA QuorumOfBuffer ==
  ASSUME NEW obs, Buffer(obs), ~(Cardinality(obs) < MajorityK),
         ~(Cardinality(Orgs(obs)) < MinOrgs), NEW by, by = {o.reporter : o \in obs}
  PROVE  /\ Cardinality(obs) >= MajorityK
         /\ Cardinality(by) >= MajorityK /\ by \subseteq Authority
         /\ Labelled(obs) => Cardinality({OrgOf[r] : r \in by}) >= MinOrgs
<1>1. Cardinality(obs) \in Nat /\ Cardinality(by) = Cardinality(obs)
  BY ReportersCounted, FS_CardinalityType DEF Buffer
<1>2. IsFiniteSet(Orgs(obs))
  BY OrgsFinite DEF Buffer
<1>3. Cardinality(Orgs(obs)) \in Nat
  BY <1>2, FS_CardinalityType
<1>4. by \subseteq Authority
  BY DEF Buffer
<1>5. Labelled(obs) => Cardinality({OrgOf[r] : r \in by}) = Cardinality(Orgs(obs))
  BY LabelsOfReporters
<1> QED BY <1>1, <1>3, <1>4, <1>5, PeerHealthAssumption

\* A merge added to those there are.
LEMMA MergeAdded ==
  ASSUME TrustInv, NEW p \in Place, NEW outcome, NEW by \in SUBSET Relay,
         merges' = Merged(p, outcome, by)
  PROVE  /\ merges' \subseteq Merge /\ IsFiniteSet(merges') /\ merges \subseteq merges'
         /\ outcome # "Applied" => merges' = merges
         /\ \A m \in merges' \ merges :
              m \in Merge /\ m.place = p /\ m.by = by /\ m.boot = boot
         /\ \A m, n \in merges' : (m \notin merges /\ n \notin merges) => m = n
<1> DEFINE new == [place |-> p, by |-> by, seq |-> Cardinality(merges), boot |-> boot]
<1>1. new \in Merge /\ new.place = p /\ new.by = by /\ new.boot = boot
  BY FS_CardinalityType DEF TrustInv, Shape, Merge
<1>2. merges' = merges \/ merges' = merges \cup {new}
  BY DEF Merged
<1>3. outcome # "Applied" => merges' = merges
  BY DEF Merged
<1> HIDE DEF new
<1>4. IsFiniteSet(merges')
  BY <1>2, FS_AddElement DEF TrustInv, Shape
<1> QED BY <1>1, <1>2, <1>3, <1>4 DEF TrustInv, Shape

LEMMA TrustIngest ==
  ASSUME TrustInv, NEW a \in Advert, IngestAdvert(a)
  PROVE  TrustInv'
<1> DEFINE s     == a.subject
           o     == ObservationOf(ReportOf(a), OrgOf[a.reporter])
           M     == IngestObservation(tracker, s, o)
           obs   == Buffered(tracker.pending[s], o)
           by    == {q.reporter : q \in tracker.pending[s]} \cup {a.reporter}
           place == <<AdvertEpoch(a.ts), s>>
<1>1. /\ up /\ mode = "none" /\ Accepts(a)
      /\ tracker' = M.tracker
      /\ merges' = Merged(place, M.outcome, by)
      /\ UNCHANGED <<mode, up, log, file, boot>>
  BY DEF IngestAdvert
<1>2. /\ o \in Observation /\ o.reporter = a.reporter /\ o.org = OrgOf[a.reporter]
      /\ s \in Relay /\ place \in Place /\ a.reporter \in Authority
  BY <1>1, AdvertFields DEF Accepts
<1>3. /\ TrackerShape(tracker) /\ Buffer(tracker.pending[s]) /\ Labelled(tracker.pending[s])
  BY <1>2 DEF TrustInv, Shape, Buffers
<1>4. by = {q.reporter : q \in obs}
  BY <1>2 DEF Buffered
<1>5. by \subseteq Relay
  BY <1>2, <1>3, QuorumLogAssumption DEF Buffer
<1>6. /\ TrackerShape(M.tracker)
      /\ \E X \in {obs, {}} : M.tracker.pending = [tracker.pending EXCEPT ![s] = X]
      /\ M.outcome = "Applied" =>
           /\ ~(Cardinality(obs) < MajorityK)
           /\ ~(Cardinality(Orgs(obs)) < MinOrgs)
  BY <1>2, <1>3, IngestKeeps
<1>7. Buffer(obs) /\ Labelled(obs)
  BY <1>2, <1>3, BufferedIsBuffer, BufferedLabelled
<1> HIDE DEF s, o, M, obs, by, place
<1>8. /\ merges' \subseteq Merge /\ IsFiniteSet(merges') /\ merges \subseteq merges'
      /\ M.outcome # "Applied" => merges' = merges
      /\ \A m \in merges' \ merges :
           m \in Merge /\ m.place = place /\ m.by = by /\ m.boot = boot
  BY <1>1, <1>2, <1>5, MergeAdded
<1>9. Shape'
  BY <1>1, <1>6, <1>8 DEF TrustInv, Shape
<1>10. Buffers'
  <2>1. PICK X \in {obs, {}} : tracker'.pending = [tracker.pending EXCEPT ![s] = X]
    BY <1>1, <1>6
  <2>2. Buffer(X) /\ Labelled(X)
    BY <1>7, EmptyIsBuffer
  <2>3. \A r \in Relay : tracker'.pending[r] = tracker.pending[r] \/ tracker'.pending[r] = X
    BY <2>1, <1>3 DEF TrackerShape
  <2> QED BY <1>1, <2>2, <2>3 DEF TrustInv, Buffers
<1>11. FileKnown' /\ PendingOnFile'
  BY <1>1 DEF TrustInv, FileKnown, PendingOnFile
<1>12. MergesDecided' /\ MergedOnce'
  BY <1>1, <1>8 DEF TrustInv, Shape, MergesDecided, MergedOnce
<1>13. QuorumBehindMerge'
  <2> SUFFICES ASSUME NEW m \in merges', m \notin merges
               PROVE  /\ Cardinality(m.by) >= MajorityK /\ m.by \subseteq Authority
                      /\ Cardinality({OrgOf[r] : r \in m.by}) >= MinOrgs
    BY <1>1 DEF TrustInv, QuorumBehindMerge
  <2>1. M.outcome = "Applied" /\ m.by = by
    BY <1>8
  <2> QED BY <2>1, <1>4, <1>6, <1>7, QuorumOfBuffer
<1> QED BY <1>9, <1>10, <1>11, <1>12, <1>13 DEF TrustInv

LEMMA TrustAppend ==
  ASSUME TrustInv, NEW a \in Advert, AppendAdvert(a)
  PROVE  TrustInv'
<1> DEFINE report == ReportOf(a)
           noted  == NoteSeen(log, report)
           A      == CountReport(noted, tracker, report)
           place  == <<report.epoch, report.subject>>
           o      == ObservationOf(report, OrgOf[report.reporter])
           obs    == Buffered(log.pending[place], o)
<1>1. /\ New(a) /\ up /\ mode # "none" /\ Accepts(a)
      /\ log' = A.log /\ tracker' = A.tracker
      /\ file' \in IF mode = "disk" THEN Persisted(file, TRUE, report) ELSE {file}
      /\ merges' = Merged(place, A.outcome, A.by)
      /\ UNCHANGED <<mode, up, boot>>
  BY DEF AppendAdvert, New
<1>2. /\ report \in Report /\ place \in Place /\ report.reporter = a.reporter
      /\ o \in Observation /\ o.reporter = a.reporter /\ o.org = OrgOf[o.reporter]
      /\ a.reporter \in Authority /\ OrgOf[report.reporter] \in Org \cup Relay
  BY <1>1, AdvertFields DEF Accepts
<1>3. /\ TrackerShape(tracker) /\ LogShape(log)
      /\ Buffer(log.pending[place])
      /\ (boot = 1 \/ mode # "disk") => Labelled(log.pending[place])
  BY <1>2 DEF TrustInv, Shape, Buffers
<1>4. /\ LogShape(noted) /\ noted.seen = log.seen \cup {report}
      /\ noted.pending = log.pending /\ noted.applied = log.applied
  BY <1>2, <1>3, NoteSeenKeeps
<1>5. CountEffect(noted, tracker, A, place, obs)
  <2>1. obs = Buffered(noted.pending[place], o)
    BY <1>4
  <2>2. CountEffect(noted, tracker, A, place, Buffered(noted.pending[place], o))
    <3> HIDE DEF noted, report
    <3> QED BY <1>2, <1>3, <1>4, CountReportKeeps
  <2> QED BY <2>1, <2>2
<1>6. Buffer(obs) /\ ((boot = 1 \/ mode # "disk") => Labelled(obs))
  BY <1>2, <1>3, BufferedIsBuffer, BufferedLabelled
<1>7. /\ FileGrows
      /\ (mode = "disk" /\ ~TornInside(file')) =>
           ReadBack(file') \subseteq log.seen \cup {report} /\ report \in ReadBack(file')
  <2>1. CASE mode = "disk"
    <3>1. file' \in Persisted(file, TRUE, report)
      BY <1>1, <2>1
    <3> QED BY <1>1, <2>1, <3>1, FileAppended
  <2>2. CASE mode # "disk"
    BY <1>1, <2>2, FileSame
  <2> QED BY <2>1, <2>2
<1>8. place = <<report.epoch, report.subject>>
  OBVIOUS
<1> HIDE DEF report, noted, A, place, o, obs
<1>9. /\ LogShape(log') /\ log'.seen = log.seen \cup {report}
      /\ log.applied \subseteq log'.applied
      /\ TrackerShape(tracker') /\ tracker'.pending = tracker.pending
      /\ \E X \in {log.pending[place], obs, {}} :
           log'.pending = [log.pending EXCEPT ![place] = X]
  BY <1>1, <1>4, <1>5 DEF CountEffect
<1>10. /\ A.outcome # "Applied" => merges' = merges
       /\ A.outcome = "Applied" =>
            /\ merges' \subseteq Merge /\ IsFiniteSet(merges') /\ merges \subseteq merges'
            /\ \A m \in merges' \ merges :
                 m.place = place /\ m.by = A.by /\ m.boot = boot
            /\ \A m, n \in merges' : (m \notin merges /\ n \notin merges) => m = n
  <2>1. A.outcome = "Applied" => A.by \subseteq Relay
    BY <1>5, <1>6 DEF CountEffect, Buffer, Observation
  <2>2. A.outcome # "Applied" => merges' = merges
    BY <1>1 DEF Merged
  <2>3. CASE A.outcome = "Applied"
    <3>1. A.by \in SUBSET Relay
      BY <2>1, <2>3
    <3> QED BY <1>1, <1>2, <2>3, <3>1, MergeAdded
  <2> QED BY <2>2, <2>3
<1>11. Shape'
  BY <1>1, <1>7, <1>9, <1>10 DEF TrustInv, Shape, FileGrows
<1>12. Buffers'
  <2>1. PICK X \in {log.pending[place], obs, {}} :
           log'.pending = [log.pending EXCEPT ![place] = X]
    BY <1>9
  <2>2. Buffer(X) /\ ((boot = 1 \/ mode # "disk") => Labelled(X))
    BY <1>3, <1>6, EmptyIsBuffer
  <2>3. \A p \in Place : log'.pending[p] = log.pending[p] \/ log'.pending[p] = X
    BY <2>1, <1>3 DEF LogShape
  <2> QED BY <1>1, <1>9, <2>2, <2>3 DEF TrustInv, Buffers
<1>13. FileKnown'
  <2>1. /\ Distinct(log'.seen)
        /\ ~TornInside(file) => ReadBack(file) \subseteq log.seen
    BY <1>1, <1>9, NewIsDistinct DEF report
  <2>2. ~TornInside(file') => ReadBack(file') \subseteq log'.seen
    <3>1. CASE mode = "disk"
      BY <1>7, <1>9, <3>1
    <3>2. CASE mode # "disk"
      BY <1>1, <1>9, <2>1, <3>2
    <3> QED BY <3>1, <3>2
  <2> QED BY <1>1, <1>7, <2>1, <2>2 DEF FileKnown, FileGrows
\* Every reporter of the buffer is on the file.
<1>14. ASSUME mode = "disk", ~TornInside(file'), NEW q \in obs
       PROVE  \E r \in ReadBack(file') : <<r.epoch, r.subject>> = place /\ r.reporter = q.reporter
  <2>1. CASE q \in log.pending[place]
    <3>1. OnFile(place, q.reporter)
      BY <1>1, <1>2, <1>7, <1>14, <2>1 DEF TrustInv, PendingOnFile, FileGrows
    <3> QED BY <1>7, <3>1 DEF OnFile, FileGrows
  <2>2. CASE q = o
    BY <1>2, <1>7, <1>8, <1>14, <2>2
  <2> QED BY <2>1, <2>2 DEF obs, Buffered
<1>15. PendingOnFile'
  <2> SUFFICES ASSUME mode = "disk", ~TornInside(file'), NEW p \in Place, NEW q \in log'.pending[p]
               PROVE  \E r \in ReadBack(file') : /\ <<r.epoch, r.subject>> = p
                                                /\ r.reporter = q.reporter
    BY <1>1 DEF PendingOnFile, OnFile
  <2>1. CASE q \in log.pending[p]
    <3>1. OnFile(p, q.reporter)
      BY <1>1, <1>7, <2>1 DEF TrustInv, PendingOnFile, FileGrows
    <3> QED BY <1>7, <3>1 DEF OnFile, FileGrows
  <2>2. CASE p = place /\ q \in obs
    BY <1>14, <2>2
  <2> QED BY <1>2, <1>3, <1>9, <2>1, <2>2 DEF LogShape
<1>16. \A m \in merges :
         /\ m.boot <= boot
         /\ (up' /\ mode # "none" /\ m.boot = boot) => m.place \in log'.applied
         /\ (mode = "disk" /\ ~TornInside(file')) => /\ ReplayedQuorum(file', m.place)
                                                     /\ up' => m.place \in log'.applied
  BY <1>1, <1>7, <1>9, OldMerge
<1>17. CASE A.outcome # "Applied"
  BY <1>1, <1>7, <1>9, <1>10, <1>11, <1>12, <1>13, <1>15, <1>17, MergesKept DEF TrustInv
<1>18. CASE A.outcome = "Applied"
  <2>1. /\ place \notin log.applied /\ place \in log'.applied
        /\ ~(Cardinality(obs) < MajorityK) /\ ~(Cardinality(Orgs(obs)) < MinOrgs)
        /\ A.by = {q.reporter : q \in obs}
    BY <1>1, <1>4, <1>5, <1>18 DEF CountEffect
  <2>2. /\ Cardinality(obs) >= MajorityK
        /\ Cardinality(A.by) >= MajorityK /\ A.by \subseteq Authority
        /\ Labelled(obs) => Cardinality({OrgOf[r] : r \in A.by}) >= MinOrgs
    BY <1>6, <2>1, QuorumOfBuffer
  <2>3. /\ merges \subseteq merges'
        /\ \A m \in merges' : m \in merges \/ (m.place = place /\ m.by = A.by /\ m.boot = boot)
    BY <1>10, <1>18
  <2>4. (mode = "disk" /\ ~TornInside(file')) => ReplayedQuorum(file', place)
    BY <1>6, <1>7, <1>14, <2>2, QuorumReplays DEF FileGrows
  <2>5. MergesDecided'
    BY <1>1, <1>16, <2>1, <2>3, <2>4 DEF MergesDecided, TrustInv, Shape
  <2>6. \A n \in merges : (n.place = place) =>
           n.boot # boot /\ (mode = "memory" \/ TornInside(file'))
    BY <1>1, <1>7, <2>1 DEF TrustInv, MergesDecided, Shape, FileGrows
  <2>7. MergedOnce'
    <3> SUFFICES ASSUME NEW m \in merges', NEW n \in merges', m # n, m.place = n.place,
                        mode # "none"
                 PROVE  m.boot # n.boot /\ (mode = "memory" \/ TornInside(file'))
      BY <1>1 DEF MergedOnce
    <3>1. CASE m \in merges /\ n \in merges
      BY <3>1, <1>7 DEF TrustInv, MergedOnce, FileGrows
    <3>2. CASE m \in merges /\ n \notin merges
      BY <3>2, <2>3, <2>6
    <3>3. CASE m \notin merges /\ n \in merges
      BY <3>3, <2>3, <2>6
    <3>4. CASE m \notin merges /\ n \notin merges
      BY <3>4, <1>10, <1>18
    <3> QED BY <3>1, <3>2, <3>3, <3>4
  <2>8. QuorumBehindMerge'
    <3> SUFFICES ASSUME NEW m \in merges'
                 PROVE  /\ Cardinality(m.by) >= MajorityK /\ m.by \subseteq Authority
                        /\ (m.boot = 1 \/ mode # "disk") =>
                              Cardinality({OrgOf[r] : r \in m.by}) >= MinOrgs
      BY <1>1 DEF QuorumBehindMerge
    <3>1. CASE m \in merges
      BY <3>1 DEF TrustInv, QuorumBehindMerge
    <3>2. CASE m.by = A.by /\ m.boot = boot
      BY <3>2, <1>6, <2>2
    <3> QED BY <2>3, <3>1, <3>2
  <2> QED BY <1>11, <1>12, <1>13, <1>15, <2>5, <2>7, <2>8 DEF TrustInv
<1> QED BY <1>17, <1>18

LEMMA TrustNext == TrustInv /\ [Next]_vars => TrustInv'
<1> SUFFICES ASSUME TrustInv, [Next]_vars PROVE TrustInv'
  OBVIOUS
<1>1. TrackerShape(tracker)
  BY DEF TrustInv, Shape
<1>2. ASSUME NEW peer \in Subject, NEW good \in BOOLEAN, RecordLocal(peer, good)
      PROVE  TrustInv'
  BY <1>1, <1>2, RecordOutcomeKeeps, TrustSame DEF RecordLocal
<1>3. ASSUME NEW a \in Advert, IngestAdvert(a) PROVE TrustInv'
  BY <1>3, TrustIngest
<1>4. ASSUME NEW a \in Advert, AppendAdvert(a) PROVE TrustInv'
  BY <1>4, TrustAppend
<1>5. ASSUME NEW a \in Advert, AppendFails(a) PROVE TrustInv'
  BY <1>5, TrustAppendFails
<1>6. ASSUME NEW a \in Advert, CrashInAppend(a) PROVE TrustInv'
  BY <1>6, TrustCrashInAppend
<1>7. ASSUME NEW k, EditKeys(k) PROVE TrustInv'
  BY <1>1, <1>7, TrustSame DEF EditKeys
<1>8. CASE LoseKeyFile
  BY <1>1, <1>8, TrustSame DEF LoseKeyFile
<1>9. CASE DrainTick
  <2>1. TrackerShape(ResetDrained(tracker)) /\ ResetDrained(tracker).pending = tracker.pending
    BY <1>1 DEF ResetDrained, TrackerShape
  <2> QED BY <1>9, <2>1, TrustSame DEF DrainTick
<1>10. CASE Shutdown \/ Crash
  BY <1>10, FileSame, TrustLost DEF Shutdown, Crash
<1>11. CASE Restart
  BY <1>11, TrustRestart
<1>12. CASE AdvanceClock
  BY <1>1, <1>12, TrustSame DEF AdvanceClock
<1>13. CASE UNCHANGED vars
  BY <1>1, <1>13, TrustSame DEF vars
<1> QED BY <1>2, <1>3, <1>4, <1>5, <1>6, <1>7, <1>8, <1>9, <1>10, <1>11, <1>12, <1>13
        DEF Next

LEMMA TrustInvariant == Spec => []TrustInv
BY TrustInit, TrustNext, PTL DEF Spec

-----------------------------------------------------------------------------
\* For every set of relays, authorities and labels and every majority: an epoch and
\* subject are merged once in the life of a process and, while nothing on the log stands
\* behind a torn record, once over all crashes and restarts (append_verified,
\* finalize_replayed_quorums).
THEOREM EpochsMergedOnce == Spec => []MergedOnce
<1>1. TrustInv => MergedOnce
  BY DEF TrustInv
<1> QED BY <1>1, TrustInvariant, PTL

\* Every merge has majority_k authorities behind it, each counted once whatever it
\* sent, and before a restart labels of min_orgs organisations (accept_advert,
\* append_verified, finish_median_merge).
THEOREM MergesHaveQuorums == Spec => []QuorumBehindMerge
<1>1. TrustInv => QuorumBehindMerge
  BY DEF TrustInv
<1> QED BY <1>1, TrustInvariant, PTL

\* Over restarts and failed writes append_verified lets no two payloads for an epoch,
\* reporter and subject into the file, and a record torn at its end is not read: until
\* something is written behind a torn record replay_from_disk does not fail, whatever
\* frames behind one would decode to.
THEOREM LogReplaysUntilTorn == Spec => []LogReplays
<1>1. TrustInv => LogReplays
  BY DEF TrustInv, FileKnown, Distinct, LogReplays, ReplayFails
<1> QED BY <1>1, TrustInvariant, PTL

-----------------------------------------------------------------------------
\* The shapes of the state: the median of a gossip quorum is a window, and a score
\* stays a score.

\* Numbers have a least, and so what 0 has and the next of each has, all have.
LEMMA HasLeast ==
  ASSUME NEW U \in SUBSET Nat, U # {}
  PROVE  \E x \in U : \A y \in U : x <= y
<1>1. PICK x \in U : \A y \in U : ~ << y, x >> \in OpToRel(<, Nat)
  BY NatLessThanWellFounded, WFMin
<1>2. ASSUME NEW y \in U PROVE x <= y
  <2>1. << y, x >> \in Nat \X Nat /\ << y, x >>[1] = y /\ << y, x >>[2] = x
    OBVIOUS
  <2>2. << y, x >> \in OpToRel(<, Nat)
        <=> << y, x >> \in Nat \X Nat /\ << y, x >>[1] < << y, x >>[2]
    BY Zenon DEF OpToRel
  <2>3. ~ (y < x)
    BY <1>1, <2>1, <2>2, Zenon
  <2> QED
    BY <2>3
<1> QED
  BY <1>2

LEMMA FromZeroUp ==
  ASSUME NEW T \in SUBSET Nat, 0 \in T, \A n \in T : n + 1 \in T
  PROVE  T = Nat
<1> SUFFICES ASSUME Nat \ T # {} PROVE FALSE
  OBVIOUS
<1>1. PICK x \in Nat \ T : \A y \in Nat \ T : x <= y
  BY HasLeast
<1>2. x # 0 /\ x - 1 \in Nat /\ ~ (x <= x - 1) /\ (x - 1) + 1 = x
  OBVIOUS
<1>3. x - 1 \in T
  BY <1>1, <1>2
<1> QED
  BY <1>2, <1>3

\* The observation a sum takes next.
NextOf(s) == CHOOSE o \in s : TRUE

SumStep(g, s) == IF s = {} THEN 0 ELSE Samples(NextOf(s)) + g[s \ {NextOf(s)}]

LEMMA SumIsFold ==
  ASSUME NEW S
  PROVE  LET g == CHOOSE g : g = [s \in SUBSET S |-> SumStep(g, s)]
         IN  MapThenSumSet(LAMBDA o : Samples(o), S) = g[S]
BY Zenon DEF MapThenSumSet, MapThenFoldSet, SumStep, NextOf

Parts(S, n) == {s \in SUBSET S : Cardinality(s) <= n}

LEMMA Smaller ==
  ASSUME NEW S, IsFiniteSet(S), NEW s \in SUBSET S, s # {}
  PROVE  /\ NextOf(s) \in s /\ s \ {NextOf(s)} \in SUBSET S
         /\ Cardinality(s) \in Nat \ {0}
         /\ Cardinality(s \ {NextOf(s)}) = Cardinality(s) - 1
<1>1. NextOf(s) \in s
  BY DEF NextOf
<1>2. IsFiniteSet(s)
  BY FS_Subset
<1>3. Cardinality(s) \in Nat /\ Cardinality(s) # 0
  BY <1>2, FS_CardinalityType, FS_EmptySet
<1> QED
  BY <1>1, <1>2, <1>3, FS_RemoveElement

LEMMA NoPartsButEmpty ==
  ASSUME NEW S, IsFiniteSet(S)
  PROVE  Parts(S, 0) = {{}}
<1>1. ASSUME NEW s \in SUBSET S, s # {} PROVE ~ Cardinality(s) <= 0
  <2>1. Cardinality(s) \in Nat \ {0}
    BY <1>1, Smaller
  <2> QED
    BY <2>1
<1> QED
  BY <1>1, FS_EmptySet DEF Parts

\* A sum of samples up to parts of n observations.
SumsUpTo(S, n) == \E g \in [Parts(S, n) -> Int] : \A s \in Parts(S, n) : g[s] = SumStep(g, s)

LEMMA SumsExist ==
  ASSUME NEW S, IsFiniteSet(S), \A o \in S : Samples(o) \in Int
  PROVE  \A n \in Nat : SumsUpTo(S, n)
<1> DEFINE T == {n \in Nat : SumsUpTo(S, n)}
<1>1. 0 \in T
  <2>1. \A s \in Parts(S, 0) : s = {}
    BY NoPartsButEmpty
  <2> DEFINE g == [s \in Parts(S, 0) |-> 0]
  <2>2. g \in [Parts(S, 0) -> Int] /\ \A s \in Parts(S, 0) : g[s] = SumStep(g, s)
    BY <2>1 DEF SumStep
  <2> QED
    BY <2>2 DEF SumsUpTo
<1>2. ASSUME NEW n \in T
      PROVE  n + 1 \in T
  <2> DEFINE A == Parts(S, n)
             B == Parts(S, n + 1)
  <2>1. PICK g \in [A -> Int] : \A s \in A : g[s] = SumStep(g, s)
    BY DEF SumsUpTo
  <2>2. \A s \in SUBSET S : Cardinality(s) \in Nat
    BY FS_Subset, FS_CardinalityType
  <2>3. A \subseteq B
    BY <2>2 DEF Parts
  <2>4. \A s \in B : s # {} => NextOf(s) \in S /\ s \ {NextOf(s)} \in A
    BY Smaller DEF Parts
  <2> HIDE DEF A, B
  <2> DEFINE h == [s \in B |-> SumStep(g, s)]
  <2>5. \A s \in B : SumStep(g, s) \in Int
    BY <2>1, <2>4 DEF SumStep
  <2>6. h \in [B -> Int]
    BY <2>5
  <2>7. \A s \in A : h[s] = g[s]
    BY <2>1, <2>3
  <2>8. ASSUME NEW s \in B
        PROVE  h[s] = SumStep(h, s)
    <3>1. h[s] = SumStep(g, s)
      OBVIOUS
    <3> HIDE DEF h
    <3>2. s # {} => h[s \ {NextOf(s)}] = g[s \ {NextOf(s)}]
      BY <2>4, <2>7
    <3> QED
      BY <3>1, <3>2 DEF SumStep
  <2> HIDE DEF h
  <2>9. SumsUpTo(S, n + 1)
    BY <2>6, <2>8 DEF SumsUpTo, B
  <2> QED
    BY <2>9
<1> HIDE DEF T
<1>3. T = Nat
  <2>1. T \subseteq Nat
    BY DEF T
  <2> QED
    BY <1>1, <1>2, <2>1, FromZeroUp
<1> QED
  BY <1>3 DEF T

\* The sum of samples is between the least and the most its observations can have.
LEMMA SumBounded ==
  ASSUME NEW S, IsFiniteSet(S), \A o \in S : Samples(o) \in 1 .. MaxCount
  PROVE  LET sum == MapThenSumSet(LAMBDA o : Samples(o), S)
             n   == Cardinality(S)
         IN  sum \in Nat /\ n \in Nat /\ n <= sum /\ sum <= MaxCount * n
<1>1. PICK n \in Nat : n = Cardinality(S)
  BY FS_CardinalityType
<1>2. Parts(S, n) = SUBSET S
  BY <1>1, FS_Subset DEF Parts
<1>3. PICK g \in [SUBSET S -> Int] : \A s \in SUBSET S : g[s] = SumStep(g, s)
  <2>1. SumsUpTo(S, n)
    BY SumsExist
  <2> QED
    BY <1>2, <2>1 DEF SumsUpTo
<1>4. g = [s \in SUBSET S |-> SumStep(g, s)]
  BY <1>3
<1> DEFINE h == CHOOSE h : h = [s \in SUBSET S |-> SumStep(h, s)]
<1>5. h = [s \in SUBSET S |-> SumStep(h, s)]
  BY <1>4
<1>6. MapThenSumSet(LAMBDA o : Samples(o), S) = h[S]
  BY SumIsFold
<1> HIDE DEF h
<1>7. \A s \in SUBSET S : h[s] = SumStep(h, s)
  BY <1>5
<1>8. MaxCount \in Nat
  BY PeerHealthAssumption
<1> DEFINE Fits(s) == h[s] \in Nat /\ Cardinality(s) <= h[s] /\ h[s] <= MaxCount * Cardinality(s)
           T == {k \in Nat : \A s \in Parts(S, k) : Fits(s)}
<1>9. h[{}] = 0 /\ Cardinality({}) = 0
  BY <1>7, FS_EmptySet DEF SumStep
<1>10. 0 \in T
  <2>1. \A s \in Parts(S, 0) : s = {}
    BY NoPartsButEmpty
  <2>2. Fits({})
    BY <1>8, <1>9
  <2> HIDE DEF Fits
  <2> QED
    BY <2>1, <2>2
<1>11. ASSUME NEW k \in T PROVE k + 1 \in T
  <2>0. k \in Nat /\ k + 1 \in Nat
    OBVIOUS
  <2> SUFFICES ASSUME NEW s \in Parts(S, k + 1) PROVE Fits(s)
    BY <2>0
  <2>1. CASE s = {}
    BY <1>8, <1>9, <2>1
  <2>2. CASE s # {}
    <3> DEFINE r == s \ {NextOf(s)}
               c == Cardinality(r)
               x == Samples(NextOf(s))
    <3>1. /\ NextOf(s) \in S /\ r \in Parts(S, k)
          /\ Cardinality(s) = c + 1 /\ c \in Nat /\ s \in SUBSET S
      BY <2>0, <2>2, Smaller DEF Parts
    <3>2. Fits(r) /\ x \in 1 .. MaxCount
      BY <3>1
    <3>3. h[s] = x + h[r]
      BY <1>7, <2>2, <3>1 DEF SumStep
    <3>4. h[r] \in Nat /\ c <= h[r] /\ h[r] <= MaxCount * c
      BY <3>2
    <3> HIDE DEF r, x, c
    <3>5. MaxCount * (c + 1) = MaxCount * c + MaxCount
      BY <1>8, <3>1
    <3> DEFINE p == MaxCount * c
    <3>6. p \in Nat
      BY <1>8, <3>1
    <3> HIDE DEF p
    <3>7. h[s] \in Nat /\ c + 1 <= h[s] /\ h[s] <= p + MaxCount
      BY <1>8, <3>1, <3>2, <3>3, <3>4, <3>6 DEF p
    <3> QED
      BY <3>1, <3>5, <3>7 DEF p
  <2> QED
    BY <2>1, <2>2
<1> HIDE DEF T, Fits
<1>12. T = Nat
  <2>1. T \subseteq Nat
    BY DEF T
  <2> QED
    BY <1>10, <1>11, <2>1, FromZeroUp
<1>13. S \in Parts(S, n) /\ n \in T
  BY <1>2, <1>12
<1>14. Fits(S)
  BY <1>13 DEF T
<1> QED
  BY <1>1, <1>6, <1>14 DEF Fits

-----------------------------------------------------------------------------
\* An observation that has samples, as the median takes them.
Taken(o) == o.fail \in Nat /\ Samples(o) \in Nat \ {0} /\ o.fail <= Samples(o)

LEMMA RatesAreOrdered ==
  /\ \A a, b : Taken(a) /\ Taken(b) => (RateBelow(a, b) <=> ~ RateAtMost(b, a))
  /\ \A a : Taken(a) => RateAtMost(a, a)
  /\ \A a, b, c : (Taken(a) /\ Taken(b) /\ Taken(c) /\ RateAtMost(a, b) /\ RateAtMost(b, c))
                     => RateAtMost(a, c)
<1>0. \A x, y \in Nat : x * y \in Nat
  OBVIOUS
<1>1. ASSUME NEW a, NEW b, Taken(a), Taken(b)
      PROVE  RateBelow(a, b) <=> ~ RateAtMost(b, a)
  <2>1. a.fail * Samples(b) \in Nat /\ b.fail * Samples(a) \in Nat
    BY <1>1, <1>0 DEF Taken
  <2> DEFINE x == a.fail * Samples(b)
             y == b.fail * Samples(a)
  <2>2. (RateBelow(a, b) <=> x < y) /\ (RateAtMost(b, a) <=> y <= x)
    BY DEF RateBelow, RateAtMost
  <2> HIDE DEF x, y
  <2>3. x \in Nat /\ y \in Nat
    BY <2>1 DEF x, y
  <2> QED
    BY <2>2, <2>3
<1>2. ASSUME NEW a, Taken(a) PROVE RateAtMost(a, a)
  <2>1. a.fail * Samples(a) \in Nat
    BY <1>0, <1>2 DEF Taken
  <2> QED
    BY <2>1 DEF RateAtMost
<1>3. ASSUME NEW x \in Nat, NEW y \in Nat, NEW z \in Nat,
             NEW u \in Nat \ {0}, NEW v \in Nat \ {0}, NEW w \in Nat \ {0},
             x * v <= y * u, y * w <= z * v
      PROVE  x * w <= z * u
  <2>1. (x * v) * w <= (y * u) * w
    BY <1>3
  <2>2. (y * w) * u <= (z * v) * u
    BY <1>3
  <2>3. (x * v) * w = (x * w) * v /\ (y * u) * w = (y * w) * u /\ (z * v) * u = (z * u) * v
    OBVIOUS
  <2>4. (x * w) * v <= (z * u) * v
    BY <2>1, <2>2, <2>3
  <2> DEFINE p == x * w
             q == z * u
  <2>5. p \in Nat /\ q \in Nat
    OBVIOUS
  <2> HIDE DEF p, q
  <2>6. p * v <= q * v
    BY <2>4 DEF p, q
  <2>7. p <= q
    BY <2>5, <2>6
  <2> QED
    BY <2>7 DEF p, q
<1>4. ASSUME NEW a, NEW b, NEW c, Taken(a), Taken(b), Taken(c),
             RateAtMost(a, b), RateAtMost(b, c)
      PROVE  RateAtMost(a, c)
  BY <1>3, <1>4 DEF RateAtMost, Taken
<1> QED
  BY <1>1, <1>2, <1>4

\* The observations up to the rate of one of them, and how many they are.
UpTo(obs, o) == {p \in obs : RateAtMost(p, o)}

LEMMA UpToGrows ==
  ASSUME NEW obs, IsFiniteSet(obs), \A o \in obs : Taken(o)
  PROVE  /\ \A o \in obs : Cardinality(UpTo(obs, o)) \in 1 .. Cardinality(obs)
         /\ Cardinality(obs) \in Nat
         /\ \A o, p \in obs : RateBelow(p, o) =>
              Cardinality(UpTo(obs, p)) < Cardinality(UpTo(obs, o))
<1>1. \A s \in SUBSET obs : /\ IsFiniteSet(s) /\ Cardinality(s) \in Nat
                            /\ Cardinality(s) <= Cardinality(obs)
  BY FS_Subset, FS_CardinalityType
<1>2. \A o \in obs : UpTo(obs, o) \in SUBSET obs /\ o \in UpTo(obs, o)
  BY RatesAreOrdered DEF UpTo
<1>3. ASSUME NEW o \in obs PROVE Cardinality(UpTo(obs, o)) \in 1 .. Cardinality(obs)
  <2>1. Cardinality(UpTo(obs, o)) # 0
    BY <1>1, <1>2, FS_EmptySet
  <2> QED
    BY <1>1, <1>2, <2>1
<1>4. ASSUME NEW o \in obs, NEW p \in obs, RateBelow(p, o)
      PROVE  Cardinality(UpTo(obs, p)) < Cardinality(UpTo(obs, o))
  <2>1. RateAtMost(p, o) /\ ~ RateAtMost(o, p)
    <3>1. RateAtMost(p, o) \/ RateBelow(o, p)
      BY RatesAreOrdered
    <3>2. ~ RateAtMost(o, p)
      BY <1>4, RatesAreOrdered
    <3>3. RateBelow(o, p) => ~ RateAtMost(p, o)
      BY RatesAreOrdered
    <3>4. Taken(o) /\ Taken(p)
      OBVIOUS
    <3>5. RateAtMost(o, p) \/ RateAtMost(p, o)
      <4>1. o.fail * Samples(p) \in Int /\ p.fail * Samples(o) \in Int
        BY <3>4 DEF Taken
      <4> QED
        BY <4>1 DEF RateAtMost
    <3> QED
      BY <3>2, <3>5
  <2>2. UpTo(obs, p) \subseteq UpTo(obs, o)
    BY <2>1, RatesAreOrdered DEF UpTo
  <2>3. o \in UpTo(obs, o) /\ o \notin UpTo(obs, p)
    BY <1>2, <2>1 DEF UpTo
  <2>4. UpTo(obs, p) # UpTo(obs, o) /\ IsFiniteSet(UpTo(obs, o))
    BY <1>1, <1>2, <2>3
  <2>5. /\ Cardinality(UpTo(obs, p)) <= Cardinality(UpTo(obs, o))
        /\ Cardinality(UpTo(obs, p)) # Cardinality(UpTo(obs, o))
    BY <2>2, <2>4, FS_Subset
  <2>6. Cardinality(UpTo(obs, p)) \in Nat /\ Cardinality(UpTo(obs, o)) \in Nat
    BY <1>1, <1>2
  <2> QED
    BY <2>5, <2>6
<1>5. Cardinality(obs) \in Nat
  BY <1>1
<1> QED
  BY <1>3, <1>4, <1>5

\* Some observations have one of the highest rate.
LEMMA HighestRate ==
  ASSUME NEW obs, IsFiniteSet(obs), \A o \in obs : Taken(o), NEW s \in SUBSET obs, s # {}
  PROVE  \E p \in s : \A q \in s : RateAtMost(q, p)
<1> DEFINE n == Cardinality(obs)
           c(o) == Cardinality(UpTo(obs, o))
           U == {n - c(o) : o \in s}
<1>1. n \in Nat /\ \A o \in s : c(o) \in 1 .. n
  BY UpToGrows
<1>2. \A o, p \in s : RateBelow(p, o) => c(p) < c(o)
  BY UpToGrows
<1> HIDE DEF n, c
<1>3. U \in SUBSET Nat /\ U # {}
  BY <1>1
<1>4. PICK x \in U : \A y \in U : x <= y
  BY <1>3, HasLeast
<1>5. PICK p \in s : x = n - c(p)
  OBVIOUS
<1>6. ASSUME NEW q \in s PROVE RateAtMost(q, p)
  <2>1. n - c(p) <= n - c(q)
    BY <1>4, <1>5
  <2>2. ~ (c(p) < c(q))
    BY <1>1, <2>1
  <2>3. ~ RateBelow(p, q)
    BY <1>2, <2>2
  <2> QED
    BY <2>3, RatesAreOrdered
<1> QED
  BY <1>6

\* At every place of the order by failure rate an observation stands.
LEMMA PlaceIsTaken ==
  ASSUME NEW obs, IsFiniteSet(obs), \A o \in obs : Taken(o), NEW k \in 1 .. Cardinality(obs)
  PROVE  AtPlace(obs, k) \in obs
<1> DEFINE n == Cardinality(obs)
           c(o) == Cardinality(UpTo(obs, o))
           below(o) == {p \in obs : RateBelow(p, o)}
           E == {o \in obs : c(o) >= k}
           U == {c(o) : o \in E}
<1>1. n \in Nat /\ \A o \in obs : c(o) \in 1 .. n
  BY UpToGrows
<1>2. \A o, p \in obs : RateBelow(p, o) => c(p) < c(o)
  BY UpToGrows
<1>3. \A s \in SUBSET obs : IsFiniteSet(s) /\ Cardinality(s) \in Nat
  BY FS_Subset, FS_CardinalityType
<1>4. E # {}
  <2>1. obs # {}
    <3>1. obs = {} => n = 0
      BY FS_EmptySet
    <3> QED
      BY <3>1
  <2>2. PICK p \in obs : \A q \in obs : RateAtMost(q, p)
    BY <2>1, HighestRate
  <2>3. UpTo(obs, p) = obs
    BY <2>2 DEF UpTo
  <2>4. c(p) = n
    BY <2>3
  <2> QED
    BY <1>1, <2>4
<1> HIDE DEF c
<1>5. U \in SUBSET Nat /\ U # {}
  BY <1>1, <1>4
<1>6. PICK x \in U : \A y \in U : x <= y
  BY <1>5, HasLeast
<1>7. PICK o \in E : x = c(o)
  OBVIOUS
<1>8. Cardinality(below(o)) < k
  <2> SUFFICES ASSUME ~ (Cardinality(below(o)) < k) PROVE FALSE
    OBVIOUS
  <2>1. below(o) \in SUBSET obs /\ Cardinality(below(o)) \in Nat /\ Cardinality(below(o)) >= k
    BY <1>3
  <2>2. below(o) # {}
    BY <2>1, FS_EmptySet
  <2>3. PICK p \in below(o) : \A q \in below(o) : RateAtMost(q, p)
    BY <2>1, <2>2, HighestRate
  <2>4. below(o) \subseteq UpTo(obs, p) /\ UpTo(obs, p) \in SUBSET obs
    BY <2>3 DEF UpTo
  <2>5. Cardinality(below(o)) <= c(p)
    BY <1>3, <2>4, FS_Subset DEF c
  <2>6. p \in obs /\ c(p) \in Nat
    BY <1>1
  <2>7. p \in E
    BY <2>1, <2>5, <2>6
  <2>8. c(p) < c(o)
    BY <1>2
  <2>9. c(o) <= c(p)
    BY <1>6, <1>7, <2>7
  <2> QED
    BY <1>1, <2>6, <2>8, <2>9
<1>9. /\ Cardinality({p \in obs : RateBelow(p, o)}) < k
      /\ Cardinality({p \in obs : RateAtMost(p, o)}) >= k
  BY <1>7, <1>8 DEF c, UpTo
<1>10. \E z \in obs : /\ Cardinality({p \in obs : RateBelow(p, z)}) < k
                      /\ Cardinality({p \in obs : RateAtMost(p, z)}) >= k
  BY <1>9
<1> QED
  BY <1>10 DEF AtPlace

LEMMA RoundedIs ==
  ASSUME NEW num \in Nat, NEW den \in Nat \ {0}, NEW m \in Nat, num <= m * den
  PROVE  Rounded(num, den) \in 0 .. m
<1> DEFINE q == (2 * num + den) \div (2 * den)
           x == 2 * den
<1>1. x \in Nat \ {0} /\ 2 * num + den \in Nat
  OBVIOUS
<1>2. q \in Int /\ x * q <= 2 * num + den /\ 2 * num + den < x * (q + 1)
  BY <1>1
<1> HIDE DEF q
<1>3. 2 * num + den <= 2 * (m * den) + den
  OBVIOUS
<1>4. 2 * (m * den) + den < x * (m + 1)
  OBVIOUS
<1>5. x * q < x * (m + 1)
  BY <1>1, <1>2, <1>3, <1>4
<1> HIDE DEF x
<1>6. q < m + 1
  BY <1>1, <1>2, <1>5
<1>7. x * (q + 1) > 0
  BY <1>1, <1>2
<1>8. q + 1 > 0
  BY <1>1, <1>2, <1>7
<1> QED
  BY <1>2, <1>6, <1>8 DEF Rounded, q, x

-----------------------------------------------------------------------------
LEMMA SamplesAre ==
  ASSUME NEW w, w.ok \in Count, w.fail \in Count
  PROVE  /\ Samples(w) \in Count /\ w.ok <= Samples(w) /\ w.fail <= Samples(w)
         /\ Samples(w) = IF w.ok + w.fail > MaxCount THEN MaxCount ELSE w.ok + w.fail
BY PeerHealthAssumption DEF Samples, SaturatingAdd, Count

\* The median of observations is a rate of at most one and a total that fits the
\* counters, so what is merged is a window (median_outcome_counts).
LEMMA MedianIsWindow ==
  ASSUME NEW obs \in SUBSET Observation, IsFiniteSet(obs), HasMedian(obs)
  PROVE  MedianOutcomeCounts(obs) \in Window
<1> DEFINE s     == Sampled(obs)
           n     == Cardinality(s)
           sum   == MapThenSumSet(LAMBDA o : Samples(o), s)
           total == Rounded(sum, n)
           rate  == MedianRate(s)
           fail  == Rounded(rate.num * total, rate.den)
<1>1. MaxCount \in Nat
  BY PeerHealthAssumption
<1>2. s \in SUBSET obs /\ IsFiniteSet(s) /\ s # {}
  BY FS_Subset DEF Sampled, HasMedian
<1>3. \A o \in s : Taken(o) /\ Samples(o) \in 1 .. MaxCount
  <2> SUFFICES ASSUME NEW o \in s PROVE Taken(o) /\ Samples(o) \in 1 .. MaxCount
    OBVIOUS
  <2>1. o \in Observation /\ Samples(o) > 0
    BY DEF Sampled
  <2>2. o.ok \in Count /\ o.fail \in Count
    BY <2>1 DEF Observation
  <2> QED
    BY <1>1, <2>1, <2>2, SamplesAre DEF Taken, Count
<1> HIDE DEF s
<1>4. n \in Nat \ {0} /\ sum \in Nat /\ sum <= MaxCount * n
  <2>1. n \in Nat /\ sum \in Nat /\ sum <= MaxCount * n
    BY <1>2, <1>3, SumBounded
  <2>2. n # 0
    BY <1>2, FS_EmptySet
  <2> QED
    BY <2>1, <2>2
<1>5. rate.num \in Nat /\ rate.den \in Nat \ {0} /\ rate.num <= rate.den
  <2> DEFINE high == AtPlace(s, (n \div 2) + 1)
             low  == AtPlace(s, n \div 2)
  <2>1. (n \div 2) + 1 \in 1 .. n /\ (n % 2 # 1 => n \div 2 \in 1 .. n)
    BY <1>4
  <2>2. Taken(high) /\ (n % 2 # 1 => Taken(low))
    BY <1>2, <1>3, <2>1, PlaceIsTaken
  <2>3. rate = IF n % 2 = 1 THEN [num |-> high.fail, den |-> Samples(high)]
               ELSE [num |-> low.fail * Samples(high) + high.fail * Samples(low),
                     den |-> 2 * Samples(low) * Samples(high)]
    BY DEF MedianRate
  <2> HIDE DEF high, low, rate, n
  <2>4. CASE n % 2 = 1
    BY <2>2, <2>3, <2>4 DEF Taken
  <2>5. CASE n % 2 # 1
    <3>1. ASSUME NEW x \in Nat, NEW y \in Nat, NEW u \in Nat \ {0}, NEW v \in Nat \ {0},
                 x <= u, y <= v
          PROVE  /\ x * v + y * u \in Nat /\ 2 * u * v \in Nat \ {0}
                 /\ x * v + y * u <= 2 * u * v
      <4>1. x * v <= u * v /\ y * u <= v * u
        BY <3>1
      <4>2. u * v \in Nat \ {0} /\ u * v = v * u /\ 2 * u * v = u * v + u * v
        OBVIOUS
      <4>3. x * v \in Nat /\ y * u \in Nat
        OBVIOUS
      <4> QED
        BY <4>1, <4>2, <4>3
    <3> QED
      BY <2>2, <2>3, <2>5, <3>1 DEF Taken
  <2> QED
    BY <2>4, <2>5
<1>6. MedianOutcomeCounts(obs) = [ok |-> total - fail, fail |-> fail]
  BY Zenon DEF MedianOutcomeCounts, s, n, sum, total, rate, fail
<1> HIDE DEF n, sum, rate
<1>7. total \in 0 .. MaxCount
  BY <1>1, <1>4, RoundedIs
<1> HIDE DEF total
<1>8. fail \in 0 .. total
  <2>1. total \in Nat /\ rate.num * total \in Nat /\ rate.num * total <= total * rate.den
    BY <1>1, <1>5, <1>7
  <2> QED
    BY <1>5, <2>1, RoundedIs
<1> HIDE DEF fail
<1>9. fail \in Count /\ total - fail \in Count
  BY <1>1, <1>7, <1>8 DEF Count
<1> QED
  BY <1>6, <1>9 DEF Window

-----------------------------------------------------------------------------
\* Outcomes put into a window: it is one after, and has no fewer samples.
Grows(t, u, subject) ==
  /\ u \in TrackerType
  /\ \A r \in Relay \ {subject} : u.windows[r] = t.windows[r]
  /\ Samples(t.windows[subject]) \in Count /\ Samples(u.windows[subject]) \in Count
  /\ Samples(t.windows[subject]) <= Samples(u.windows[subject])

LEMMA AddsUp ==
  ASSUME NEW x \in Count, NEW y \in Nat
  PROVE  /\ SaturatingAdd(x, y) \in Count /\ x <= SaturatingAdd(x, y)
BY PeerHealthAssumption DEF SaturatingAdd, Count

LEMMA SamplesGrow ==
  ASSUME NEW w \in Window, NEW v \in Window, w.ok <= v.ok, w.fail <= v.fail
  PROVE  Samples(w) \in Count /\ Samples(v) \in Count /\ Samples(w) <= Samples(v)
<1>1. /\ w.ok \in Count /\ w.fail \in Count /\ v.ok \in Count /\ v.fail \in Count
      /\ MaxCount \in Nat
  BY PeerHealthAssumption DEF Window
<1>2. w.ok + w.fail <= v.ok + v.fail /\ w.ok + w.fail \in Nat /\ v.ok + v.fail \in Nat
  BY <1>1 DEF Count
<1> QED
  BY <1>1, <1>2, SamplesAre DEF Count

LEMMA WindowSet ==
  ASSUME NEW t \in TrackerType, NEW s \in Relay, NEW v \in Window,
         t.windows[s].ok <= v.ok, t.windows[s].fail <= v.fail,
         NEW u, u = [t EXCEPT !.windows[s] = v]
  PROVE  Grows(t, u, s)
<1>1. t.windows \in [Relay -> Window] /\ t.windows[s] \in Window
  BY DEF TrackerType
<1>2. u = [windows |-> [t.windows EXCEPT ![s] = v], pending |-> t.pending]
  BY DEF TrackerType
<1>3. u \in TrackerType
  BY <1>1, <1>2 DEF TrackerType
<1>4. u.windows[s] = v /\ \A r \in Relay \ {s} : u.windows[r] = t.windows[r]
  BY <1>1, <1>2
<1> QED
  BY <1>1, <1>3, <1>4, SamplesGrow DEF Grows

LEMMA GrowsNot ==
  ASSUME NEW t \in TrackerType, NEW s \in Relay
  PROVE  Grows(t, t, s)
<1>1. t.windows[s] \in Window
  BY DEF TrackerType
<1>2. t.windows[s].ok \in Int /\ t.windows[s].fail \in Int
  BY <1>1 DEF Window, Count
<1>3. t.windows[s].ok <= t.windows[s].ok /\ t.windows[s].fail <= t.windows[s].fail
  BY <1>2
<1>4. Samples(t.windows[s]) \in Count /\ Samples(t.windows[s]) <= Samples(t.windows[s])
  BY <1>1, <1>3, SamplesGrow
<1> QED
  BY <1>4 DEF Grows

LEMMA FinishGrows ==
  ASSUME NEW t \in TrackerType, NEW s \in Relay, NEW obs \in SUBSET Observation, IsFiniteSet(obs)
  PROVE  Grows(t, FinishMedianMerge(t, s, obs).tracker, s)
<1> DEFINE M == FinishMedianMerge(t, s, obs)
           m == MedianOutcomeCounts(obs)
<1>1. \/ M.tracker = t
      \/ HasMedian(obs) /\ M.tracker = ApplyGossipOutcomes(t, s, m.ok, m.fail)
  BY DEF FinishMedianMerge
<1> HIDE DEF M, m
<1>2. CASE M.tracker = t
  BY <1>2, GrowsNot DEF M
<1>3. CASE HasMedian(obs) /\ M.tracker = ApplyGossipOutcomes(t, s, m.ok, m.fail)
  <2>1. m \in Window
    BY <1>3, MedianIsWindow DEF m
  <2>2. m.ok \div 2 \in Nat /\ m.fail \div 2 \in Nat
    <3>1. m.ok \in Nat /\ m.fail \in Nat
      BY <2>1 DEF Window, Count
    <3> QED
      BY <3>1
  <2> DEFINE w == t.windows[s]
             v == [ok |-> SaturatingAdd(w.ok, m.ok \div 2),
                   fail |-> SaturatingAdd(w.fail, m.fail \div 2)]
  <2>3. w.ok \in Count /\ w.fail \in Count
    BY DEF TrackerType, Window
  <2>4. v \in Window /\ w.ok <= v.ok /\ w.fail <= v.fail
    <3> HIDE DEF w
    <3> QED
      BY <2>2, <2>3, AddsUp DEF Window
  <2>5. M.tracker = [t EXCEPT !.windows[s] = v]
    BY <1>3 DEF ApplyGossipOutcomes, TrackerType
  <2> HIDE DEF v
  <2> QED
    BY <2>4, <2>5, WindowSet DEF M
<1> QED
  BY <1>1, <1>2, <1>3

LEMMA ApplyGrows ==
  ASSUME NEW t \in TrackerType, NEW s \in Relay, NEW obs \in SUBSET Observation, IsFiniteSet(obs)
  PROVE  Grows(t, ApplyQuorumMedian(t, s, obs).tracker, s)
<1>1. \/ ApplyQuorumMedian(t, s, obs).tracker = t
      \/ ApplyQuorumMedian(t, s, obs).tracker = FinishMedianMerge(t, s, obs).tracker
  BY DEF ApplyQuorumMedian
<1> QED
  BY <1>1, GrowsNot, FinishGrows

LEMMA RecordGrows ==
  ASSUME NEW t \in TrackerType, NEW s \in Relay, NEW good \in BOOLEAN
  PROVE  LET u == RecordOutcome(t, s, good)
         IN  /\ Grows(t, u, s)
             /\ Samples(t.windows[s]) < MaxCount =>
                  Samples(u.windows[s]) = Samples(t.windows[s]) + 1
<1> DEFINE w == t.windows[s]
           v == IF good THEN [ok |-> SaturatingAdd(w.ok, 1), fail |-> w.fail]
                ELSE [ok |-> w.ok, fail |-> SaturatingAdd(w.fail, 1)]
           u == RecordOutcome(t, s, good)
<1>1. w \in Window /\ w = [ok |-> w.ok, fail |-> w.fail] /\ w.ok \in Count /\ w.fail \in Count
  BY DEF TrackerType, Window
<1>2. u = [t EXCEPT !.windows[s] = v]
  <2>1. CASE good
    <3>1. u = [t EXCEPT !.windows[s].ok = SaturatingAdd(@, 1)]
      BY <2>1 DEF RecordOutcome
    <3>2. [t EXCEPT !.windows[s].ok = SaturatingAdd(@, 1)]
            = [t EXCEPT !.windows[s] = [w EXCEPT !.ok = SaturatingAdd(w.ok, 1)]]
      BY DEF TrackerType
    <3>3. [w EXCEPT !.ok = SaturatingAdd(w.ok, 1)] = v
      BY <1>1, <2>1
    <3> QED
      BY <3>1, <3>2, <3>3
  <2>2. CASE ~good
    <3>1. u = [t EXCEPT !.windows[s].fail = SaturatingAdd(@, 1)]
      BY <2>2 DEF RecordOutcome
    <3>2. [t EXCEPT !.windows[s].fail = SaturatingAdd(@, 1)]
            = [t EXCEPT !.windows[s] = [w EXCEPT !.fail = SaturatingAdd(w.fail, 1)]]
      BY DEF TrackerType
    <3>3. [w EXCEPT !.fail = SaturatingAdd(w.fail, 1)] = v
      BY <1>1, <2>2
    <3> QED
      BY <3>1, <3>2, <3>3
  <2> QED
    BY <2>1, <2>2
<1>3. w.ok <= w.ok /\ w.fail <= w.fail
  BY <1>1 DEF Count
<1>4. v \in Window /\ w.ok <= v.ok /\ w.fail <= v.fail
  <2> HIDE DEF w
  <2> QED
    BY <1>1, <1>3, AddsUp DEF Window
<1>5. Grows(t, u, s)
  BY <1>2, <1>4, WindowSet
<1>6. u.windows[s] = v
  BY <1>2 DEF TrackerType
<1>7. ASSUME Samples(w) < MaxCount PROVE Samples(v) = Samples(w) + 1
  <2>1. MaxCount \in Nat
    BY PeerHealthAssumption
  <2>2. Samples(w) = w.ok + w.fail /\ w.ok + w.fail < MaxCount
    <3> HIDE DEF w
    <3> QED
      BY <1>1, <1>7, <2>1, SamplesAre DEF Count
  <2>3. v.ok + v.fail = w.ok + w.fail + 1
    <3> HIDE DEF w
    <3> QED
      BY <1>1, <2>1, <2>2 DEF SaturatingAdd, Count
  <2> HIDE DEF v, w
  <2>4. v.ok \in Count /\ v.fail \in Count
    BY <1>4 DEF Window
  <2> QED
    BY <1>1, <2>1, <2>2, <2>3, <2>4, SamplesAre DEF Count
<1> HIDE DEF u, v
<1> QED
  BY <1>5, <1>6, <1>7 DEF u

-----------------------------------------------------------------------------
\* The gossip buffers and the quorum log.

LEMMA PendingSet ==
  ASSUME NEW t \in TrackerType, NEW s \in Relay, NEW obs \in SUBSET Observation
  PROVE  LET u == [t EXCEPT !.pending[s] = obs]
         IN  u \in TrackerType /\ u.windows = t.windows /\ u.pending[s] = obs
<1>1. [t EXCEPT !.pending[s] = obs]
        = [windows |-> t.windows, pending |-> [t.pending EXCEPT ![s] = obs]]
  BY DEF TrackerType
<1>2. t.pending \in [Relay -> SUBSET Observation] /\ t.windows \in [Relay -> Window]
  BY DEF TrackerType
<1> QED
  BY <1>1, <1>2 DEF TrackerType

LEMMA GrowsAfter ==
  ASSUME NEW t \in TrackerType, NEW u \in TrackerType, u.windows = t.windows, NEW s \in Relay,
         NEW v, Grows(u, v, s)
  PROVE  Grows(t, v, s)
BY DEF Grows

LEMMA IngestGrows ==
  ASSUME NEW t \in TrackerType, NEW s \in Relay, NEW o,
         Buffered(t.pending[s], o) \in SUBSET Observation,
         IsFiniteSet(Buffered(t.pending[s], o))
  PROVE  Grows(t, IngestObservation(t, s, o).tracker, s)
<1> DEFINE obs   == Buffered(t.pending[s], o)
           kept  == [t EXCEPT !.pending[s] = obs]
           empty == [t EXCEPT !.pending[s] = {}]
<1>1. \/ IngestObservation(t, s, o).tracker = kept
      \/ IngestObservation(t, s, o).tracker = FinishMedianMerge(empty, s, obs).tracker
  BY DEF IngestObservation
<1>2. kept \in TrackerType /\ kept.windows = t.windows
  BY PendingSet
<1>3. empty \in TrackerType /\ empty.windows = t.windows
  BY PendingSet
<1> HIDE DEF obs, kept, empty
<1>4. Grows(t, kept, s)
  BY <1>2, GrowsNot, GrowsAfter
<1>5. Grows(t, FinishMedianMerge(empty, s, obs).tracker, s)
  <2>1. Grows(empty, FinishMedianMerge(empty, s, obs).tracker, s)
    BY <1>3, FinishGrows DEF obs
  <2> QED
    BY <1>3, <2>1, GrowsAfter
<1> QED
  BY <1>1, <1>4, <1>5

LEMMA PendingKept ==
  ASSUME NEW l \in LogType, NEW p \in Place, NEW obs \in SUBSET Observation
  PROVE  [l EXCEPT !.pending[p] = obs] \in LogType
<1>1. [l EXCEPT !.pending[p] = obs]
        = [seen |-> l.seen, pending |-> [l.pending EXCEPT ![p] = obs],
           applied |-> l.applied, medians |-> l.medians]
  BY DEF LogType
<1>2. [l.pending EXCEPT ![p] = obs] \in [Place -> SUBSET Observation]
  BY DEF LogType
<1> QED
  BY <1>1, <1>2 DEF LogType

LEMMA DecideTyped ==
  ASSUME NEW l \in LogType, NEW p \in Place, NEW obs \in SUBSET Observation, IsFiniteSet(obs),
         NEW outcome
  PROVE  Decide(l, p, obs, outcome) \in LogType
<1> DEFINE m == IF outcome = "Applied" /\ HasMedian(obs) THEN MedianOutcomeCounts(obs)
                ELSE l.medians[p]
<1>1. CASE outcome = "WaitingDiversity"
  BY <1>1, PendingKept DEF Decide
<1>2. CASE outcome # "WaitingDiversity"
  <2>1. m \in Window \cup {NoMedian}
    BY MedianIsWindow DEF LogType
  <2>2. Decide(l, p, obs, outcome)
          = [seen |-> l.seen, pending |-> [l.pending EXCEPT ![p] = {}],
             applied |-> l.applied \cup {p}, medians |-> [l.medians EXCEPT ![p] = m]]
    BY <1>2 DEF Decide, LogType
  <2> HIDE DEF m
  <2>3. [l.pending EXCEPT ![p] = {}] \in [Place -> SUBSET Observation]
    BY DEF LogType
  <2>4. [l.medians EXCEPT ![p] = m] \in [Place -> Window \cup {NoMedian}]
    BY <2>1 DEF LogType
  <2> QED
    BY <2>2, <2>3, <2>4 DEF LogType
<1> QED
  BY <1>1, <1>2

\* append_verified of a report: the log stays one, and the tracker grows at the subject.
LEMMA CountGrows ==
  ASSUME NEW l \in LogType, NEW t \in TrackerType, NEW report \in Report,
         NEW obs, obs = Buffered(l.pending[<<report.epoch, report.subject>>],
                                 ObservationOf(report, OrgOf[report.reporter])),
         obs \in SUBSET Observation, IsFiniteSet(obs)
  PROVE  /\ CountReport(l, t, report).log \in LogType
         /\ Grows(t, CountReport(l, t, report).tracker, report.subject)
<1> DEFINE p     == <<report.epoch, report.subject>>
           merge == ApplyQuorumMedian(t, report.subject, obs)
           C     == CountReport(l, t, report)
<1>1. \/ C.log = l /\ C.tracker = t
      \/ C.log = [l EXCEPT !.pending[p] = obs] /\ C.tracker = t
      \/ C.log = Decide(l, p, obs, merge.outcome) /\ C.tracker = merge.tracker
  BY DEF CountReport
<1>2. p \in Place /\ report.subject \in Relay
  BY DEF Report, Place
<1> HIDE DEF p, C
<1>3. Grows(t, merge.tracker, report.subject)
  BY <1>2, ApplyGrows
<1>4. Decide(l, p, obs, merge.outcome) \in LogType
  BY <1>2, DecideTyped
<1>5. [l EXCEPT !.pending[p] = obs] \in LogType
  BY <1>2, PendingKept
<1>6. Grows(t, t, report.subject)
  BY <1>2, GrowsNot
<1> HIDE DEF merge
<1> QED
  BY <1>1, <1>3, <1>4, <1>5, <1>6 DEF C

LEMMA NoteSeenTyped ==
  ASSUME NEW l \in LogType, NEW report \in Report
  PROVE  NoteSeen(l, report) \in LogType /\ NoteSeen(l, report).pending = l.pending
BY DEF NoteSeen, LogType

LEMMA NewLogTyped == NewLog \in LogType
BY DEF NewLog, LogType

LEMMA NewTrackerTyped ==
  /\ NewTracker \in TrackerType
  /\ \A r \in Relay : Samples(NewTracker.windows[r]) = 0
<1>1. MaxCount \in Nat
  BY PeerHealthAssumption
<1>2. EmptyWindow \in Window
  BY <1>1 DEF EmptyWindow, Window, Count
<1>3. Samples(EmptyWindow) = 0
  BY <1>1 DEF EmptyWindow, Samples, SaturatingAdd
<1> QED
  BY <1>2, <1>3 DEF NewTracker, TrackerType

LEMMA ReplayTyped ==
  ASSUME NEW f \in Seq(Record)
  PROVE  Replay(f) \in LogType
<1>1. ReadBack(f) \subseteq Report
  BY ReadBackFinite
<1>2. ASSUME NEW p \in Place
      PROVE  ReplayedPending(f, p) \in SUBSET Observation /\ IsFiniteSet(ReplayedPending(f, p))
  BY ReplayedFinite
<1>3. ASSUME NEW p \in Place, HasMedian(ReplayedPending(f, p))
      PROVE  MedianOutcomeCounts(ReplayedPending(f, p)) \in Window
  BY <1>2, <1>3, MedianIsWindow
<1> DEFINE pending == [p \in Place |-> IF ReplayedQuorum(f, p) THEN {}
                                       ELSE ReplayedPending(f, p)]
           medians == [p \in Place |->
                  IF ReplayedQuorum(f, p) /\ HasMedian(ReplayedPending(f, p))
                  THEN MedianOutcomeCounts(ReplayedPending(f, p)) ELSE NoMedian]
<1>4. pending \in [Place -> SUBSET Observation]
  BY <1>2
<1>5. medians \in [Place -> Window \cup {NoMedian}]
  BY <1>3
<1>6. Replay(f) = [seen |-> ReadBack(f), pending |-> pending,
                      applied |-> {p \in Place : ReplayedQuorum(f, p)}, medians |-> medians]
  BY DEF Replay
<1> HIDE DEF pending, medians
<1> QED
  BY <1>1, <1>4, <1>5, <1>6 DEF LogType

-----------------------------------------------------------------------------
\* Scores, rates and detectors.

LEMMA QuotientWithin ==
  ASSUME NEW a \in Int, NEW b \in Nat \ {0}, NEW lo \in Int, NEW hi \in Int,
         b * lo <= a, a <= b * hi
  PROVE  a \div b \in lo .. hi
<1> DEFINE q == a \div b
<1>1. q \in Int /\ b * q <= a /\ a < b * (q + 1)
  OBVIOUS
<1> HIDE DEF q
<1>2. b * q <= b * hi
  BY <1>1
<1>3. b * lo < b * (q + 1)
  BY <1>1
<1>4. q <= hi
  <2>1. ASSUME q >= hi + 1 PROVE FALSE
    <3>1. b * q >= b * (hi + 1)
      BY <1>1, <2>1
    <3>2. b * (hi + 1) = b * hi + b
      OBVIOUS
    <3> QED
      BY <1>1, <1>2, <3>1, <3>2
  <2> QED
    BY <1>1, <2>1
<1>5. lo <= q
  <2>1. ASSUME lo >= q + 1 PROVE FALSE
    <3>1. b * lo >= b * (q + 1)
      BY <1>1, <2>1
    <3> QED
      BY <1>1, <1>3, <3>1
  <2> QED
    BY <1>1, <2>1
<1> QED
  BY <1>1, <1>4, <1>5 DEF q

LEMMA EwmaIs ==
  ASSUME NEW score \in 0 .. One, NEW outcome \in 0 .. One
  PROVE  Ewma(score, outcome) \in 0 .. One
<1>1. One \in Nat \ {0} /\ Decay \in Nat /\ One - Decay \in Nat
  BY ReputationAssumption
<1> DEFINE x == Decay * score
           y == (One - Decay) * outcome
<1>2. x \in Nat /\ x <= Decay * One
  BY <1>1
<1>3. y \in Nat /\ y <= (One - Decay) * One
  BY <1>1
<1>4. Decay * One + (One - Decay) * One = One * One /\ One * 0 = 0
  BY <1>1
<1>5. Ewma(score, outcome) = (x + y) \div One
  BY DEF Ewma
<1>6. Decay * One \in Nat /\ (One - Decay) * One \in Nat /\ One * One \in Nat
  BY <1>1
<1> HIDE DEF x, y
<1>7. x + y \in Int /\ One * 0 <= x + y /\ x + y <= One * One
  BY <1>2, <1>3, <1>4, <1>6
<1> QED
  BY <1>1, <1>5, <1>7, QuotientWithin

LEMMA RateIs ==
  ASSUME NEW x \in Nat, NEW y \in Nat \ {0}, x <= y
  PROVE  (x * One) \div y \in 0 .. One
<1>1. One \in Nat
  BY ReputationAssumption
<1>2. x * One \in Nat /\ x * One <= y * One /\ y * 0 = 0
  BY <1>1
<1> QED
  BY <1>1, <1>2, QuotientWithin

\* A score is one of 0 .. One.
LEMMA ScoreIs ==
  ASSUME NEW l \in LedgerType, NEW r \in Relay
  PROVE  Score(l, r) \in 0 .. One
<1>1. One \in Nat \ {0} /\ l[r] \in -1 .. One
  BY ReputationAssumption DEF LedgerType
<1>2. One \div 2 \in 0 .. One
  BY <1>1
<1> QED
  BY <1>1, <1>2 DEF Score, Neutral, Unscored

Strike(x, floor) == IF x < floor THEN x ELSE Ewma(x, 0)

LEMMA StrikesExist ==
  ASSUME NEW score \in 0 .. One, NEW floor \in Nat
  PROVE  \A n \in Nat : \E f \in [0 .. n -> 0 .. One] :
           f[0] = score /\ \A k \in 1 .. n : f[k] = Strike(f[k - 1], floor)
<1> DEFINE Goes(f, n) == /\ f \in [0 .. n -> 0 .. One]
                         /\ f[0] = score /\ \A k \in 1 .. n : f[k] = Strike(f[k - 1], floor)
           T == {n \in Nat : \E f : Goes(f, n)}
<1>0. \A x \in 0 .. One : Strike(x, floor) \in 0 .. One
  <2>1. 0 \in 0 .. One
    BY ReputationAssumption
  <2> QED
    BY <2>1, EwmaIs DEF Strike
<1>1. 0 \in T
  <2> DEFINE f == [k \in 0 .. 0 |-> score]
  <2>1. Goes(f, 0)
    OBVIOUS
  <2> QED
    BY <2>1
<1>2. ASSUME NEW n \in T PROVE n + 1 \in T
  <2>1. n \in Nat /\ n + 1 \in Nat
    OBVIOUS
  <2>2. PICK f : Goes(f, n)
    OBVIOUS
  <2> DEFINE last == Strike(f[n], floor)
             g    == [k \in 0 .. n + 1 |-> IF k = n + 1 THEN last ELSE f[k]]
  <2>3. last \in 0 .. One
    BY <1>0, <2>1, <2>2
  <2>4. g \in [0 .. n + 1 -> 0 .. One]
    <3> HIDE DEF last
    <3> QED
      BY <2>1, <2>2, <2>3
  <2>5. g[0] = score
    BY <2>1, <2>2
  <2>6. ASSUME NEW k \in 1 .. n + 1 PROVE g[k] = Strike(g[k - 1], floor)
    <3>1. k - 1 \in 0 .. n /\ g[k - 1] = f[k - 1]
      BY <2>1
    <3>2. CASE k = n + 1
      <4>1. k - 1 = n /\ g[k] = last
        BY <2>1, <3>2
      <4> HIDE DEF g
      <4> QED
        BY <3>1, <4>1
    <3>3. CASE k # n + 1
      <4>1. k \in 1 .. n /\ g[k] = f[k]
        BY <2>1, <3>3
      <4> HIDE DEF g
      <4> QED
        BY <2>2, <3>1, <4>1
    <3> QED
      BY <3>2, <3>3
  <2> HIDE DEF g
  <2>7. Goes(g, n + 1)
    BY <2>4, <2>5, <2>6
  <2> QED
    BY <2>1, <2>7
<1> HIDE DEF T
<1>3. T = Nat
  <2>1. T \subseteq Nat
    BY DEF T
  <2> QED
    BY <1>1, <1>2, <2>1, FromZeroUp
<1> QED
  BY <1>3 DEF T

\* Strikes leave a score a score (demote_relay).
LEMMA StruckIs ==
  ASSUME NEW score \in 0 .. One, NEW floor \in Nat, NEW n \in Nat
  PROVE  Struck(score, floor, n) \in 0 .. One
<1> DEFINE F(f) == [k \in 0 .. n |-> IF k = 0 THEN score ELSE Strike(f[k - 1], floor)]
           g == CHOOSE f : f = F(f)
<1>1. Struck(score, floor, n) = g[n]
  BY Zenon DEF Struck, Strike
<1>2. \E f : f = F(f)
  <2>1. PICK f \in [0 .. n -> 0 .. One] :
           f[0] = score /\ \A k \in 1 .. n : f[k] = Strike(f[k - 1], floor)
    BY StrikesExist
  <2>2. \A k \in 0 .. n : f[k] = F(f)[k]
    BY <2>1
  <2>3. f = F(f)
    BY <2>1, <2>2
  <2> QED
    BY <2>3
<1>3. g = F(g)
  BY <1>2
<1> HIDE DEF g
<1>4. g[0] = score /\ \A k \in 1 .. n : g[k] = Strike(g[k - 1], floor)
  BY <1>3
<1> DEFINE T == {m \in Nat : m <= n => g[m] \in 0 .. One}
<1>5. 0 \in T
  BY <1>4
<1>6. ASSUME NEW m \in T PROVE m + 1 \in T
  <2>1. m \in Nat /\ m + 1 \in Nat /\ (m + 1) - 1 = m
    OBVIOUS
  <2> SUFFICES ASSUME m + 1 <= n PROVE g[m + 1] \in 0 .. One
    BY <2>1
  <2>2. m + 1 \in 1 .. n /\ g[m] \in 0 .. One
    BY <2>1
  <2>3. g[m + 1] = Strike(g[m], floor)
    BY <1>4, <2>1, <2>2
  <2>4. 0 \in 0 .. One
    BY ReputationAssumption
  <2> QED
    BY <2>2, <2>3, <2>4, EwmaIs DEF Strike
<1> HIDE DEF T
<1>7. T = Nat
  <2>1. T \subseteq Nat
    BY DEF T
  <2> QED
    BY <1>5, <1>6, <2>1, FromZeroUp
<1> QED
  BY <1>1, <1>7 DEF T

LEMMA DemoteTyped ==
  ASSUME NEW l \in LedgerType, NEW r \in Relay, NEW floor \in Nat
  PROVE  DemoteRelay(l, r, floor) \in LedgerType
<1>1. Struck(Score(l, r), floor, MaxStrikes) \in 0 .. One
  BY ScoreIs, StruckIs, ReputationAssumption
<1>2. One \in Nat
  BY ReputationAssumption
<1> QED
  BY <1>1, <1>2 DEF DemoteRelay, LedgerType

LEMMA AggregateTyped ==
  ASSUME NEW l \in LedgerType, NEW r \in Relay, NEW s \in Nat, NEW f \in Nat
  PROVE  RecordAggregate(l, r, s, f) \in LedgerType
<1>1. CASE s + f = 0
  BY <1>1 DEF RecordAggregate
<1>2. CASE s + f # 0
  <2>1. (s * One) \div (s + f) \in 0 .. One
    BY <1>2, RateIs
  <2>2. Ewma(Score(l, r), (s * One) \div (s + f)) \in 0 .. One
    BY <2>1, ScoreIs, EwmaIs
  <2>3. RecordAggregate(l, r, s, f)
          = [l EXCEPT ![r] = Ewma(Score(l, r), (s * One) \div (s + f))]
    BY <1>2 DEF RecordAggregate, UpdateScore
  <2>4. One \in Nat
    BY ReputationAssumption
  <2> HIDE DEF UpdateScore
  <2> DEFINE e == Ewma(Score(l, r), (s * One) \div (s + f))
  <2>5. e \in -1 .. One
    BY <2>2, <2>4
  <2> HIDE DEF e
  <2>6. [l EXCEPT ![r] = e] \in LedgerType
    BY <2>5 DEF LedgerType
  <2> QED
    BY <2>3, <2>6 DEF e
<1> QED
  BY <1>1, <1>2

LEMMA FailRateIs ==
  ASSUME NEW s \in Nat, NEW f \in Nat
  PROVE  FailRate(s, f) \in 0 .. One
<1>1. One \in Nat
  BY ReputationAssumption
<1>2. CASE s + f = 0
  BY <1>1, <1>2 DEF FailRate
<1>3. CASE s + f # 0
  BY <1>3, RateIs DEF FailRate
<1> QED
  BY <1>2, <1>3

\* The mean moves towards what is observed and not past it, and the variance of
\* rates stays below one (AnomalyDetector::observe).
LEMMA MeanIs ==
  ASSUME NEW mean \in 0 .. One, NEW x \in 0 .. One
  PROVE  mean + (Alpha * (x - mean)) \div One \in 0 .. One
<1>1. One \in Nat \ {0} /\ Alpha \in Nat /\ Alpha <= One
  BY ReputationAssumption
<1> DEFINE d == x - mean
           a == Alpha * d
<1>2. d \in Int
  BY <1>1
<1>3. CASE d >= 0
  <2>1. a <= One * d /\ One * 0 <= a /\ a \in Int
    BY <1>1, <1>2, <1>3
  <2> HIDE DEF a
  <2>2. a \div One \in 0 .. d
    BY <1>1, <1>2, <2>1, QuotientWithin
  <2> QED
    BY <1>1, <2>2 DEF a
<1>4. CASE d < 0
  <2> DEFINE e == 0 - d
  <2>1. e \in Nat /\ d = 0 - e
    BY <1>2, <1>4
  <2>2. Alpha * e <= One * e /\ Alpha * e >= 0 /\ Alpha * e \in Int /\ One * e \in Int
    BY <1>1, <2>1
  <2>3. a = 0 - Alpha * e /\ One * d = 0 - One * e
    BY <1>1, <2>1
  <2>4. One * d <= a /\ a <= One * 0 /\ a \in Int
    BY <1>1, <2>2, <2>3
  <2> HIDE DEF a
  <2>5. a \div One \in d .. 0
    BY <1>1, <1>2, <2>4, QuotientWithin
  <2> QED
    BY <1>1, <2>5 DEF a
<1> QED
  BY <1>2, <1>3, <1>4

LEMMA VarianceIs ==
  ASSUME NEW var \in 0 .. One * One, NEW d \in - One .. One
  PROVE  ((One - Alpha) * (var + (Alpha * d * d) \div One)) \div One \in 0 .. One * One
<1>1. One \in Nat \ {0} /\ Alpha \in Nat /\ Alpha <= One /\ One - Alpha \in Nat
  BY ReputationAssumption
<1> DEFINE dd == d * d
           oo == One * One
           q  == (Alpha * dd) \div One
           v  == var + q
           w  == One - Alpha
<1>2. dd \in Nat /\ dd <= oo
  <2>1. CASE d >= 0
    <3>1. d \in Nat /\ d <= One
      BY <1>1, <2>1
    <3>2. d * d <= One * d /\ d * One <= One * One /\ d * d \in Nat
      BY <1>1, <3>1
    <3> QED
      BY <1>1, <3>1, <3>2
  <2>2. CASE d < 0
    <3> DEFINE e == 0 - d
    <3>1. e \in Nat /\ e <= One /\ d = 0 - e
      BY <1>1, <2>2
    <3>2. e * e <= One * e /\ e * One <= One * One /\ e * e \in Nat
      BY <1>1, <3>1
    <3>3. d * d = e * e
      BY <3>1
    <3> QED
      BY <1>1, <3>1, <3>2, <3>3
  <2> QED
    BY <1>1, <2>1, <2>2
<1>3. oo \in Nat
  BY <1>1
<1>4. Alpha * d * d = Alpha * dd
  BY <1>1
<1> HIDE DEF dd
<1>5. q \in 0 .. Alpha * One
  <2>1. Alpha * dd \in Nat /\ Alpha * dd <= Alpha * oo /\ One * 0 = 0
    BY <1>1, <1>2, <1>3
  <2>2. Alpha * oo = One * (Alpha * One) /\ Alpha * One \in Int
    BY <1>1
  <2> QED
    BY <1>1, <2>1, <2>2, QuotientWithin
<1> HIDE DEF q
<1>6. v \in Nat /\ v <= oo + Alpha * One
  BY <1>1, <1>3, <1>5 DEF oo
<1> HIDE DEF v
<1>7. w * v \in Nat /\ w * v <= w * (oo + Alpha * One)
  BY <1>1, <1>3, <1>6
<1>8. w * (oo + Alpha * One) <= One * oo
  <2>1. oo + Alpha * One = One * (One + Alpha)
    BY <1>1
  <2>2. w * (One + Alpha) = oo - Alpha * Alpha
    BY <1>1
  <2>3. w * (One * (One + Alpha)) = One * (w * (One + Alpha))
    BY <1>1
  <2>4. Alpha * Alpha \in Nat
    BY <1>1
  <2> HIDE DEF w, oo
  <2>5. One * (oo - Alpha * Alpha) <= One * oo
    BY <1>1, <1>3, <2>4
  <2> QED
    BY <2>1, <2>2, <2>3, <2>5
<1>9. w * v \in Int /\ One * 0 <= w * v /\ w * v <= One * oo
  <2> HIDE DEF w, oo
  <2>1. One * 0 = 0 /\ One * oo \in Int /\ Alpha * One \in Int
    BY <1>1, <1>3
  <2> QED
    BY <1>1, <1>3, <1>7, <1>8, <2>1 DEF w
<1> HIDE DEF oo
<1>10. (w * v) \div One \in 0 .. oo
  BY <1>1, <1>3, <1>9, QuotientWithin
<1> QED
  BY <1>4, <1>10 DEF w, v, q, oo

LEMMA ObserveTyped ==
  ASSUME NEW d \in DetectorType, NEW x \in 0 .. One
  PROVE  Observe(d, x) \in DetectorType
<1>1. One \in Nat
  BY ReputationAssumption
<1>2. d.n \in 0 .. 2 /\ d.mean \in 0 .. One /\ d.var \in 0 .. One * One
  BY DEF DetectorType
<1> DEFINE n == IF d.n < 2 THEN d.n + 1 ELSE 2
           m == d.mean + (Alpha * (x - d.mean)) \div One
           v == ((One - Alpha) * (d.var + (Alpha * (x - d.mean) * (x - d.mean)) \div One)) \div One
<1>3. n \in 0 .. 2
  BY <1>2
<1>4. m \in 0 .. One
  BY <1>2, MeanIs
<1>5. v \in 0 .. One * One
  <2>1. x - d.mean \in - One .. One
    BY <1>1, <1>2
  <2> QED
    BY <1>2, <2>1, VarianceIs
<1>6. Observe(d, x) = [n |-> n, mean |-> m, var |-> v]
  BY DEF Observe
<1> HIDE DEF n, m, v
<1> QED
  BY <1>3, <1>4, <1>5, <1>6 DEF DetectorType

LEMMA FloorIs == Floor \in Nat
<1>1. One \in Nat
  BY ReputationAssumption
<1> QED
  BY <1>1 DEF Floor

LEMMA FeedTyped ==
  ASSUME NEW p \in PolicyType, NEW r \in Relay, NEW s \in Nat, NEW f \in Nat
  PROVE  /\ FeedPeerOutcomes(p, r, s, f).ledger \in LedgerType
         /\ FeedPeerOutcomes(p, r, s, f).detectors[r] \in DetectorType
<1> DEFINE x == FailRate(s, f)
           l == IF IsAnomalous(p.detectors[r], x) THEN DemoteRelay(p.ledger, r, Floor) ELSE p.ledger
           O == ObserveMetric(p, r, x)
<1>1. x \in 0 .. One
  BY FailRateIs
<1> HIDE DEF x
<1>2. p.ledger \in LedgerType /\ p.detectors \in [Relay -> DetectorType]
  BY DEF PolicyType
<1>3. l \in LedgerType
  BY <1>2, DemoteTyped, FloorIs
<1>4. O = [ledger |-> l, detectors |-> [p.detectors EXCEPT ![r] = Observe(@, x)]]
  BY DEF ObserveMetric
<1> HIDE DEF l, O
<1>5. O.detectors[r] = Observe(p.detectors[r], x)
  BY <1>2, <1>4
<1>6. O.detectors[r] \in DetectorType
  BY <1>1, <1>2, <1>5, ObserveTyped
<1>7. FeedPeerOutcomes(p, r, s, f) = [O EXCEPT !.ledger = RecordAggregate(@, r, s, f)]
  BY DEF FeedPeerOutcomes, O, x
<1>8. /\ FeedPeerOutcomes(p, r, s, f).ledger = RecordAggregate(l, r, s, f)
      /\ FeedPeerOutcomes(p, r, s, f).detectors = O.detectors
  BY <1>4, <1>7
<1> QED
  BY <1>3, <1>6, <1>8, AggregateTyped

\* Every score stays one in 0 .. One and every detector one, whatever the windows
\* held (feed_peer_outcomes).
LEMMA FeedDrainedTyped ==
  ASSUME NEW p \in PolicyType, NEW t \in TrackerType
  PROVE  FeedDrained(p, t) \in PolicyType
<1> DEFINE after(r) == FeedPeerOutcomes(p, r, t.windows[r].ok, t.windows[r].fail)
           l == [r \in Relay |-> IF r \in Drained(t) THEN after(r).ledger[r] ELSE p.ledger[r]]
           d == [r \in Relay |-> IF r \in Drained(t) THEN after(r).detectors[r] ELSE p.detectors[r]]
<1>1. ASSUME NEW r \in Relay
      PROVE  after(r).ledger \in LedgerType /\ after(r).detectors[r] \in DetectorType
  <2>1. t.windows[r].ok \in Nat /\ t.windows[r].fail \in Nat
    BY DEF TrackerType, Window, Count
  <2> QED
    BY <2>1, FeedTyped
<1>2. FeedDrained(p, t) = [ledger |-> l, detectors |-> d]
  BY DEF FeedDrained
<1> HIDE DEF after
<1>3. p.ledger \in LedgerType /\ p.detectors \in [Relay -> DetectorType]
  BY DEF PolicyType
<1>4. l \in LedgerType
  BY <1>1, <1>3 DEF LedgerType
<1>5. d \in [Relay -> DetectorType]
  BY <1>1, <1>3
<1> QED
  BY <1>2, <1>4, <1>5 DEF PolicyType

LEMMA WithLedgerTyped ==
  ASSUME NEW l \in LedgerType
  PROVE  WithLedger(l) \in PolicyType
<1>1. One \in Nat /\ 0 \in 0 .. One /\ 0 \in 0 .. One * One
  BY ReputationAssumption
<1>2. FreshDetector \in DetectorType
  BY <1>1 DEF FreshDetector, DetectorType
<1> QED
  BY <1>2 DEF WithLedger, PolicyType

LEMMA FreshPolicyTyped == FreshPolicy \in PolicyType /\ FreshPolicy.ledger = EmptyLedger
<1>1. EmptyLedger \in LedgerType
  BY ReputationAssumption DEF EmptyLedger, LedgerType, Unscored
<1> QED
  BY <1>1, WithLedgerTyped DEF FreshPolicy, WithLedger

LEMMA ResetIs ==
  ASSUME NEW t \in TrackerType
  PROVE  /\ ResetDrained(t) \in TrackerType
         /\ \A r \in Relay : ResetDrained(t).windows[r]
                               = IF r \in Drained(t) THEN EmptyWindow ELSE t.windows[r]
<1>1. EmptyWindow \in Window
  BY PeerHealthAssumption DEF EmptyWindow, Window, Count
<1> DEFINE w == [r \in Relay |-> IF r \in Drained(t) THEN EmptyWindow ELSE t.windows[r]]
<1>2. w \in [Relay -> Window]
  BY <1>1 DEF TrackerType
<1>3. ResetDrained(t) = [windows |-> w, pending |-> t.pending]
  BY DEF ResetDrained, TrackerType
<1> HIDE DEF w
<1> QED
  BY <1>2, <1>3 DEF TrackerType, w

\* What was put into the windows is fed or waits in them, up or down.
Account ==
  \A r \in Relay : put[r] < MaxCount => put[r] = fed[r] + Samples(tracker.windows[r])

TypedInv == TypeOK /\ Account

LEMMA SamplesIn ==
  ASSUME NEW t \in TrackerType, NEW r \in Relay
  PROVE  Samples(t.windows[r]) \in Count /\ Samples(t.windows[r]) \in Nat
<1>1. t.windows[r].ok \in Count /\ t.windows[r].fail \in Count
  BY DEF TrackerType, Window
<1>2. Samples(t.windows[r]) \in Count
  BY <1>1, SamplesAre
<1> QED
  BY <1>2 DEF Count

\* Outcomes that went into the window of a subject are put, all of them.
LEMMA PutGained ==
  ASSUME TypeOK, Account, NEW s \in Relay, Grows(tracker, tracker', s), fed' = fed,
         put' = [put EXCEPT ![s] = @ + Gained(tracker', s)]
  PROVE  tracker' \in TrackerType /\ put' \in [Relay -> Nat] /\ Account'
<1> DEFINE old == Samples(tracker.windows[s])
           new == Samples(tracker'.windows[s])
<1>1. put \in [Relay -> Nat] /\ fed \in [Relay -> Nat] /\ MaxCount \in Nat
  BY PeerHealthAssumption DEF TypeOK
<1>2. old \in Nat /\ new \in Nat /\ old <= new
  BY DEF Grows, Count
<1>3. put'[s] = put[s] + (new - old)
  BY <1>1 DEF Gained
<1> HIDE DEF old, new
<1>4. put' \in [Relay -> Nat]
  BY <1>1, <1>2, <1>3
<1>5. ASSUME NEW r \in Relay, put'[r] < MaxCount
      PROVE  put'[r] = fed[r] + Samples(tracker'.windows[r])
  <2>1. CASE r = s
    <3>1. put[s] < MaxCount
      BY <1>1, <1>2, <1>3, <1>5, <2>1
    <3>2. put[s] = fed[s] + old
      BY <3>1 DEF Account, old
    <3>3. put'[s] = fed[s] + new
      BY <1>1, <1>2, <1>3, <3>2
    <3> QED
      BY <2>1, <3>3 DEF new
  <2>2. CASE r # s
    <3>1. put'[r] = put[r] /\ tracker'.windows[r] = tracker.windows[r]
      BY <1>1, <2>2 DEF Grows
    <3> QED
      BY <1>5, <3>1 DEF Account
  <2> QED
    BY <2>1, <2>2
<1> QED
  BY <1>4, <1>5 DEF Account, Grows

LEMMA TypedRecord ==
  ASSUME TypedInv, NEW peer \in Subject, NEW good \in BOOLEAN, RecordLocal(peer, good)
  PROVE  TypedInv'
<1> USE DEF RecordLocal
<1>1. peer \in Relay /\ MaxCount \in Nat
  BY NodeTrustAssumption, PeerHealthAssumption
<1>2. tracker \in TrackerType /\ put \in [Relay -> Nat] /\ fed \in [Relay -> Nat]
  BY DEF TypedInv, TypeOK
<1>3. /\ Grows(tracker, tracker', peer)
      /\ Samples(tracker.windows[peer]) < MaxCount =>
           Samples(tracker'.windows[peer]) = Samples(tracker.windows[peer]) + 1
  BY <1>1, <1>2, RecordGrows
<1>4. put' \in [Relay -> Nat] /\ put'[peer] = put[peer] + 1
  BY <1>1, <1>2
<1>5. ASSUME NEW r \in Relay, put'[r] < MaxCount
      PROVE  put'[r] = fed[r] + Samples(tracker'.windows[r])
  <2>1. CASE r = peer
    <3>1. put[peer] < MaxCount
      BY <1>1, <1>2, <1>4, <1>5, <2>1
    <3>2. put[peer] = fed[peer] + Samples(tracker.windows[peer])
      BY <1>1, <3>1 DEF TypedInv, Account
    <3> DEFINE x == Samples(tracker.windows[peer])
    <3>3. x \in Nat
      BY <1>1, <1>2, SamplesIn
    <3>4. Samples(tracker'.windows[peer]) = x + 1
      <4> HIDE DEF x
      <4>1. x < MaxCount
        BY <1>1, <1>2, <3>1, <3>2, <3>3 DEF x
      <4> QED
        BY <1>3, <4>1 DEF x
    <3> HIDE DEF x
    <3>5. put'[peer] = fed[peer] + (x + 1)
      BY <1>1, <1>2, <1>4, <3>2, <3>3 DEF x
    <3> QED
      BY <2>1, <3>4, <3>5
  <2>2. CASE r # peer
    <3>1. put'[r] = put[r] /\ tracker'.windows[r] = tracker.windows[r]
      BY <1>2, <1>3, <2>2 DEF Grows
    <3> QED
      BY <1>5, <3>1 DEF TypedInv, Account
  <2> QED
    BY <2>1, <2>2
<1> QED
  BY <1>3, <1>4, <1>5 DEF TypedInv, TypeOK, Account, Grows

LEMMA MergedTyped ==
  ASSUME TypeOK, NEW p \in Place, NEW by \in SUBSET Relay, NEW outcome, IsFiniteSet(merges)
  PROVE  Merged(p, outcome, by) \subseteq Merge
<1>1. Cardinality(merges) \in Nat /\ merges \subseteq Merge /\ boot \in Nat
  BY FS_CardinalityType DEF TypeOK
<1> QED
  BY <1>1 DEF Merged, Merge

LEMMA TypedIngest ==
  ASSUME TypedInv, TrustInv, NEW a \in Advert, IngestAdvert(a)
  PROVE  TypedInv'
<1> DEFINE s      == a.subject
           o      == ObservationOf(ReportOf(a), OrgOf[a.reporter])
           answer == IngestObservation(tracker, s, o)
           by     == {q.reporter : q \in tracker.pending[s]} \cup {a.reporter}
           place  == <<AdvertEpoch(a.ts), a.subject>>
<1>1. /\ tracker' = answer.tracker /\ put' = [put EXCEPT ![s] = @ + Gained(answer.tracker, s)]
      /\ merges' = Merged(place, answer.outcome, by) /\ a.reporter \in Authority
      /\ UNCHANGED <<mode, keys, up, now, log, policy, file, saved, boot, faults, fed>>
  BY DEF IngestAdvert, Accepts
<1>2. /\ s \in Relay /\ o \in Observation /\ o.reporter = a.reporter /\ place \in Place
      /\ a.reporter \in Relay
  BY AdvertFields, QuorumLogAssumption, <1>1
<1>3. Buffer(tracker.pending[s]) /\ IsFiniteSet(merges)
  BY <1>2 DEF TrustInv, Buffers, Shape
<1>4. /\ Buffered(tracker.pending[s], o) \in SUBSET Observation
      /\ IsFiniteSet(Buffered(tracker.pending[s], o))
  <2> HIDE DEF s, o
  <2> QED
    BY <1>1, <1>2, <1>3, BufferedIsBuffer DEF Buffer
<1>5. tracker \in TrackerType
  BY DEF TypedInv, TypeOK
<1>6. by \in SUBSET Relay
  BY <1>2, <1>5 DEF TrackerType, Observation
<1> HIDE DEF s, o, by, place
<1>7. Grows(tracker, tracker', s)
  BY <1>1, <1>2, <1>4, <1>5, IngestGrows
<1> HIDE DEF answer
<1>8. tracker' \in TrackerType /\ put' \in [Relay -> Nat] /\ Account'
  BY <1>1, <1>2, <1>7, PutGained DEF TypedInv
<1>9. merges' \subseteq Merge
  BY <1>1, <1>2, <1>3, <1>6, MergedTyped DEF TypedInv
<1> QED
  BY <1>1, <1>8, <1>9 DEF TypedInv, TypeOK

LEMMA AppendedTyped ==
  ASSUME file \in Seq(Record), NEW w \in BOOLEAN, NEW report \in Report,
         NEW g \in Persisted(file, w, report)
  PROVE  g \in Seq(Record)
<1>1. Persists(file, w, report, g)
  BY PersistedIs
<1>2. PICK rec \in Record : g = Append(file, rec)
  BY <1>1 DEF Persists
<1> QED BY <1>2, Appended

LEMMA TypedAppend ==
  ASSUME TypedInv, TrustInv, NEW a \in Advert, AppendAdvert(a)
  PROVE  TypedInv'
<1> DEFINE report == ReportOf(a)
           seen   == NoteSeen(log, report)
           place  == <<report.epoch, report.subject>>
           obs    == Buffered(seen.pending[place], ObservationOf(report, OrgOf[report.reporter]))
           answer == CountReport(seen, tracker, report)
<1>1. /\ log' = answer.log /\ tracker' = answer.tracker
      /\ file' \in IF mode = "disk" THEN Persisted(file, TRUE, report) ELSE {file}
      /\ put' = [put EXCEPT ![a.subject] = @ + Gained(answer.tracker, a.subject)]
      /\ merges' = Merged(place, answer.outcome, answer.by)
      /\ a.reporter \in Authority
      /\ UNCHANGED <<mode, keys, up, now, policy, saved, boot, faults, fed>>
  BY DEF AppendAdvert, New, Accepts
<1>2. /\ report \in Report /\ report.reporter = a.reporter /\ report.subject = a.subject
      /\ a.subject \in Relay /\ place \in Place
      /\ ObservationOf(report, OrgOf[report.reporter]) \in Observation
      /\ ObservationOf(report, OrgOf[report.reporter]).reporter = a.reporter
  BY AdvertFields
<1>3. tracker \in TrackerType /\ log \in LogType /\ file \in Seq(Record)
  BY DEF TypedInv, TypeOK
<1> HIDE DEF report
<1>4. seen \in LogType /\ seen.pending = log.pending
  BY <1>2, <1>3, NoteSeenTyped
<1>5. Buffer(log.pending[place]) /\ IsFiniteSet(merges)
  BY <1>2 DEF TrustInv, Buffers, Shape
<1>6. obs \in SUBSET Observation /\ IsFiniteSet(obs)
  <2> HIDE DEF seen, place
  <2> QED
    BY <1>1, <1>2, <1>4, <1>5, BufferedIsBuffer DEF Buffer
<1>7. log' \in LogType /\ Grows(tracker, tracker', a.subject)
  <2> HIDE DEF seen
  <2> QED
    BY <1>1, <1>2, <1>3, <1>4, <1>6, CountGrows DEF seen
<1>8. answer.by \in SUBSET Relay
  <2>1. answer.by = {} \/ answer.by = {o.reporter : o \in obs}
    BY DEF CountReport
  <2> HIDE DEF answer, obs
  <2> QED
    BY <1>6, <2>1 DEF Observation
<1> HIDE DEF answer, obs, seen, place
<1>9. tracker' \in TrackerType /\ put' \in [Relay -> Nat] /\ Account'
  BY <1>1, <1>2, <1>7, PutGained DEF TypedInv
<1>10. merges' \subseteq Merge
  BY <1>1, <1>2, <1>5, <1>8, MergedTyped DEF TypedInv
<1>11. file' \in Seq(Record)
  BY <1>1, <1>2, <1>3, AppendedTyped
<1> QED
  BY <1>1, <1>7, <1>9, <1>10, <1>11 DEF TypedInv, TypeOK

LEMMA TypedAppendFails ==
  ASSUME TypedInv, NEW a \in Advert, AppendFails(a)
  PROVE  TypedInv'
<1> USE DEF AppendFails
<1>1. file \in Seq(Record) /\ log \in LogType /\ faults \in Nat /\ MaxFaults \in Nat
  BY NodeTrustAssumption DEF TypedInv, TypeOK
<1>2. file' \in Seq(Record)
  BY <1>1, AdvertFields, AppendedTyped
<1>3. log' \in LogType
  BY <1>1, AdvertFields, NoteSeenTyped
<1>4. faults' \in 0 .. MaxFaults
  BY <1>1
<1> QED
  BY <1>2, <1>3, <1>4 DEF TypedInv, TypeOK, Account

LEMMA TypedLost ==
  ASSUME TypedInv, MemoryLost
  PROVE  /\ up' \in BOOLEAN /\ tracker' \in TrackerType /\ log' \in LogType
         /\ policy' \in PolicyType /\ put' \in [Relay -> Nat] /\ fed' \in [Relay -> Nat] /\ Account'
<1>1. 0 = 0 + 0
  OBVIOUS
<1> QED
  BY <1>1, NewTrackerTyped, NewLogTyped, FreshPolicyTyped DEF MemoryLost, Account

LEMMA TypedCrashInAppend ==
  ASSUME TypedInv, NEW a \in Advert, CrashInAppend(a)
  PROVE  TypedInv'
<1> USE DEF CrashInAppend
<1>1. file \in Seq(Record) /\ faults \in Nat /\ MaxFaults \in Nat
  BY NodeTrustAssumption DEF TypedInv, TypeOK
<1>2. file' \in Seq(Record)
  BY <1>1, AdvertFields, AppendedTyped
<1>3. faults' \in 0 .. MaxFaults
  BY <1>1
<1> QED
  BY <1>2, <1>3, TypedLost DEF TypedInv, TypeOK

-----------------------------------------------------------------------------
\* The ledger on disk.
LEMMA SavedTyped ==
  ASSUME TypeOK, NEW l \in LedgerType, SaveLedger(l)
  PROVE  saved' \in LedgerFile \cup {Absent, Cut}
<1>1. CASE KeysResolve
  <2>1. SigningKey \in OpKey \cup {NoKey}
    BY <1>1 DEF SigningKey, KeysResolve, TypeOK, KeysType
  <2> QED
    BY <1>1, <2>1 DEF SaveLedger, WriteFile, LedgerFile
<1>2. CASE ~KeysResolve
  BY <1>2 DEF SaveLedger, TypeOK
<1> QED
  BY <1>1, <1>2

LEMMA TypedDrain ==
  ASSUME TypedInv, DrainTick
  PROVE  TypedInv'
<1>1. tracker \in TrackerType /\ policy \in PolicyType /\ put \in [Relay -> Nat] /\ fed \in [Relay -> Nat]
  BY DEF TypedInv, TypeOK
<1>2. policy' \in PolicyType
  BY <1>1, FeedDrainedTyped DEF DrainTick
<1>3. /\ tracker' \in TrackerType
      /\ \A r \in Relay : tracker'.windows[r]
                            = IF r \in Drained(tracker) THEN EmptyWindow ELSE tracker.windows[r]
  BY <1>1, ResetIs DEF DrainTick
<1>4. /\ fed' = [r \in Relay |-> IF r \in Drained(tracker)
                                 THEN fed[r] + Samples(tracker.windows[r]) ELSE fed[r]]
      /\ put' = put
  BY DEF DrainTick
<1>5. fed' \in [Relay -> Nat]
  BY <1>1, <1>4, SamplesIn
<1>6. Account'
  <2> SUFFICES ASSUME NEW r \in Relay, put[r] < MaxCount
               PROVE  put[r] = fed'[r] + Samples(tracker'.windows[r])
    BY <1>4 DEF Account
  <2>1. put[r] = fed[r] + Samples(tracker.windows[r])
    BY DEF TypedInv, Account
  <2>2. CASE r \in Drained(tracker)
    <3>1. Samples(tracker'.windows[r]) = 0
      <4>1. EmptyWindow = NewTracker.windows[r]
        BY DEF NewTracker
      <4> QED
        BY <1>3, <2>2, <4>1, NewTrackerTyped
    <3>2. fed'[r] = put[r]
      BY <1>4, <2>1, <2>2
    <3> QED
      BY <1>1, <3>1, <3>2
  <2>3. CASE r \notin Drained(tracker)
    BY <1>3, <1>4, <2>1, <2>3
  <2> QED
    BY <2>2, <2>3
<1>7. saved' \in LedgerFile \cup {Absent, Cut} /\ faults' \in 0 .. MaxFaults
  <2>1. policy'.ledger \in LedgerType
    BY <1>2 DEF PolicyType
  <2>2. CASE SaveLedger(policy'.ledger) /\ UNCHANGED faults
    BY <2>1, <2>2, SavedTyped DEF TypedInv, TypeOK
  <2>3. CASE faults < MaxFaults /\ faults' = faults + 1 /\ saved' \in {saved, Cut}
    BY <2>3, NodeTrustAssumption DEF TypedInv, TypeOK
  <2> QED
    BY <2>2, <2>3 DEF DrainTick
<1> QED
  BY <1>2, <1>3, <1>5, <1>6, <1>7 DEF TypedInv, TypeOK, DrainTick

LEMMA TypedShutdown ==
  ASSUME TypedInv, Shutdown
  PROVE  TypedInv'
<1>1. saved' \in LedgerFile \cup {Absent, Cut}
  BY SavedTyped DEF TypedInv, TypeOK, PolicyType, Shutdown
<1> QED
  BY <1>1, TypedLost DEF TypedInv, TypeOK, Shutdown

LEMMA TypedCrash ==
  ASSUME TypedInv, Crash
  PROVE  TypedInv'
<1>1. faults' \in 0 .. MaxFaults
  BY NodeTrustAssumption DEF TypedInv, TypeOK, Crash
<1> QED
  BY <1>1, TypedLost DEF TypedInv, TypeOK, Crash

LEMMA LoadedTyped ==
  ASSUME TypeOK
  PROVE  LoadPruningPolicy \in PolicyType
<1>1. CASE LoadsFromFile(saved)
  <2>1. saved.scores \in LedgerType
    BY <1>1 DEF LoadsFromFile, TypeOK, LedgerFile
  <2> QED
    BY <1>1, <2>1, WithLedgerTyped DEF LoadPruningPolicy
<1>2. CASE ~LoadsFromFile(saved)
  BY <1>2, FreshPolicyTyped DEF LoadPruningPolicy
<1> QED
  BY <1>1, <1>2

LEMMA TypedRestart ==
  ASSUME TypedInv, Restart
  PROVE  TypedInv'
<1>1. log' \in LogType
  BY NewLogTyped, ReplayTyped DEF Restart, TypedInv, TypeOK
<1>2. policy' \in PolicyType
  BY LoadedTyped DEF Restart, TypedInv
<1> QED
  BY <1>1, <1>2 DEF TypedInv, TypeOK, Account, Restart

LEMMA TypedNext ==
  ASSUME TypedInv, TrustInv, [Next]_vars
  PROVE  TypedInv'
<1>1. CASE \E peer \in Subject, good \in BOOLEAN : RecordLocal(peer, good)
  BY <1>1, TypedRecord
<1>2. ASSUME NEW a \in Advert,
             IngestAdvert(a) \/ AppendAdvert(a) \/ AppendFails(a) \/ CrashInAppend(a)
      PROVE  TypedInv'
  BY <1>2, TypedIngest, TypedAppend, TypedAppendFails, TypedCrashInAppend
<1>3. ASSUME NEW s \in Settings, EditKeys(s.keys)
      PROVE  TypedInv'
  <2>1. s.keys \in KeysType
    BY NodeTrustAssumption
  <2> QED
    BY <1>3, <2>1 DEF EditKeys, TypedInv, TypeOK, Account
<1>4. CASE LoseKeyFile
  <2>1. keys' \in KeysType
    BY <1>4 DEF LoseKeyFile, TypedInv, TypeOK, KeysType
  <2>2. faults' \in 0 .. MaxFaults
    BY <1>4, NodeTrustAssumption DEF LoseKeyFile, TypedInv, TypeOK
  <2> QED
    BY <1>4, <2>1, <2>2 DEF LoseKeyFile, TypedInv, TypeOK, Account
<1>5. CASE DrainTick
  BY <1>5, TypedDrain
<1>6. CASE Shutdown
  BY <1>6, TypedShutdown
<1>7. CASE Crash
  BY <1>7, TypedCrash
<1>8. CASE Restart
  BY <1>8, TypedRestart
<1>9. CASE AdvanceClock
  BY <1>9, NodeTrustAssumption DEF AdvanceClock, TypedInv, TypeOK, Account
<1>10. CASE UNCHANGED vars
  BY <1>10 DEF vars, TypedInv, TypeOK, Account
<1> QED
  BY <1>1, <1>2, <1>3, <1>4, <1>5, <1>6, <1>7, <1>8, <1>9, <1>10 DEF Next

LEMMA TypedInit ==
  ASSUME Init
  PROVE  TypedInv
<1>1. mode \in {"disk", "memory", "none"} /\ keys \in KeysType
  BY NodeTrustAssumption DEF Init
<1>2. tracker \in TrackerType /\ \A r \in Relay : Samples(tracker.windows[r]) = 0
  BY NewTrackerTyped DEF Init
<1>3. log \in LogType /\ policy \in PolicyType
  BY NewLogTyped, FreshPolicyTyped DEF Init
<1>4. Account
  BY <1>2 DEF Init, Account
<1>5. now \in 0 .. MaxNow /\ faults \in 0 .. MaxFaults
  BY NodeTrustAssumption DEF Init
<1>6. file \in Seq(Record)
  BY DEF Init
<1> QED
  BY <1>1, <1>2, <1>3, <1>4, <1>5, <1>6 DEF Init, TypedInv, TypeOK

LEMMA TypedInvariant == Spec => []TypedInv
<1>1. Init => TypedInv
  BY TypedInit
<1>2. TypedInv /\ TrustInv /\ [Next]_vars => TypedInv'
  BY TypedNext
<1> QED
  BY <1>1, <1>2, TrustInvariant, PTL DEF Spec

\* Whatever reports, outcomes, crashes and restarts come, the windows stay within the
\* counters, the median of a quorum is a window, a score stays between 0 and 1 and a
\* detector's mean and variance with it (median_outcome_counts, apply_gossip_outcomes,
\* update, demote_relay, observe).
THEOREM TrustTypeCorrect == Spec => []TypeOK
<1>1. TypedInv => TypeOK
  BY DEF TypedInv
<1> QED
  BY <1>1, TypedInvariant, PTL

\* Every outcome the dispatchers recorded or a quorum merged is fed to the policy by
\* one tick or still waits in its window, while the counters cannot have saturated
\* (record_success, record_failure, apply_gossip_outcomes, drain_into_policy).
THEOREM OutcomesFedOnce == Spec => []FedOnce
<1>1. TypedInv => FedOnce
  BY DEF TypedInv, Account, FedOnce
<1> QED
  BY <1>1, TypedInvariant, PTL

-----------------------------------------------------------------------------
\* The medians a checkpoint may sign.

\* append_verified gives a place a median only by merging it.
LEMMA CountMedians ==
  ASSUME NEW l \in LogType, NEW t, NEW report \in Report, NEW q \in Place,
         CountReport(l, t, report).log.medians[q] # NoMedian
  PROVE  \/ l.medians[q] # NoMedian
         \/ q = <<report.epoch, report.subject>> /\ CountReport(l, t, report).outcome = "Applied"
<1> DEFINE p     == <<report.epoch, report.subject>>
           obs   == Buffered(l.pending[p], ObservationOf(report, OrgOf[report.reporter]))
           merge == ApplyQuorumMedian(t, report.subject, obs)
           C     == CountReport(l, t, report)
           D     == Decide(l, p, obs, merge.outcome)
<1>1. \/ C.log = l
      \/ C.log = [l EXCEPT !.pending[p] = obs]
      \/ C.log = D /\ C.outcome = merge.outcome
  BY DEF CountReport
<1>2. l.medians \in [Place -> Window \cup {NoMedian}]
  BY DEF LogType
<1>3. [l EXCEPT !.pending[p] = obs].medians = l.medians
  BY DEF LogType
<1>4. D.medians[q] = l.medians[q] \/ (q = p /\ merge.outcome = "Applied")
  <2> HIDE DEF p, obs, merge
  <2>1. CASE merge.outcome = "WaitingDiversity"
    BY <2>1 DEF Decide, LogType
  <2>2. CASE merge.outcome # "WaitingDiversity"
    <3>1. \E m : /\ D.medians = [l.medians EXCEPT ![p] = m]
                 /\ merge.outcome # "Applied" => m = l.medians[p]
      BY <2>2 DEF Decide, LogType
    <3> QED BY <1>2, <3>1
  <2> QED BY <2>1, <2>2
<1> HIDE DEF C, D, obs, merge
<1> QED BY <1>1, <1>3, <1>4 DEF C

\* A step that adds no median, with a file that only grows.
LEMMA MediansKept ==
  ASSUME TrustInv, MedianBacked, FileGrows, UNCHANGED <<mode, boot>>, merges \subseteq merges',
         NEW p \in Place, log.medians[p] # NoMedian
  PROVE  \/ \E m \in merges' : m.place = p /\ m.boot = boot'
         \/ mode' = "disk" /\ boot' > 1 /\ ReplayedQuorum(file', p)
<1>1. ReplayedQuorum(file, p) => ReplayedQuorum(file', p)
  BY QuorumStays DEF FileGrows, TrustInv, Shape
<1> QED BY <1>1 DEF MedianBacked

LEMMA MedianAppend ==
  ASSUME TypedInv, TrustInv, MedianBacked, NEW a \in Advert, AppendAdvert(a)
  PROVE  MedianBacked'
<1> DEFINE report == ReportOf(a)
           noted  == NoteSeen(log, report)
           place  == <<report.epoch, report.subject>>
           A      == CountReport(noted, tracker, report)
<1>1. /\ New(a) /\ log' = A.log /\ merges' = Merged(place, A.outcome, A.by)
      /\ file' \in IF mode = "disk" THEN Persisted(file, TRUE, report) ELSE {file}
      /\ UNCHANGED <<mode, boot>>
  BY DEF AppendAdvert
<1>2. FileGrows
  BY <1>1, FileAppended, FileSame
<1>3. report \in Report /\ noted \in LogType /\ noted.medians = log.medians
  BY AdvertFields, NoteSeenTyped DEF NoteSeen, TypedInv, TypeOK, LogType
<1> HIDE DEF report, noted, A
<1>4. /\ merges \subseteq merges'
      /\ A.outcome = "Applied" => \E m \in merges' : m.place = place /\ m.boot = boot
  <2>1. CASE A.outcome = "Applied"
    <3> DEFINE m == [place |-> place, by |-> A.by, seq |-> Cardinality(merges), boot |-> boot]
    <3>1. merges' = merges \cup {m} /\ m.place = place /\ m.boot = boot
      BY <1>1, <2>1 DEF Merged
    <3> QED BY <3>1
  <2>2. CASE A.outcome # "Applied"
    BY <1>1, <2>2 DEF Merged
  <2> QED BY <2>1, <2>2
<1> SUFFICES ASSUME NEW p \in Place, log'.medians[p] # NoMedian
             PROVE  \/ \E m \in merges' : m.place = p /\ m.boot = boot'
                    \/ mode' = "disk" /\ boot' > 1 /\ ReplayedQuorum(file', p)
  BY DEF MedianBacked
<1>5. log.medians[p] # NoMedian \/ (p = place /\ A.outcome = "Applied")
  BY <1>1, <1>3, CountMedians DEF A
<1> QED BY <1>1, <1>2, <1>4, <1>5, MediansKept

LEMMA MedianRestart ==
  ASSUME TrustInv, Restart
  PROVE  MedianBacked'
<1>1. /\ boot' = boot + 1 /\ boot \in Nat \ {0} /\ mode' = mode /\ file' = file
      /\ log' = IF mode = "disk" THEN Replay(file) ELSE NewLog
  BY DEF Restart, TrustInv, Shape
<1>2. \A p \in Place : Replay(file).medians[p] # NoMedian => ReplayedQuorum(file, p)
  BY DEF Replay
<1>3. \A p \in Place : NewLog.medians[p] = NoMedian
  BY DEF NewLog
<1> QED BY <1>1, <1>2, <1>3 DEF MedianBacked

LEMMA MedianNext ==
  ASSUME TypedInv, TrustInv, MedianBacked, [Next]_vars
  PROVE  MedianBacked'
<1>1. ASSUME FileGrows, log'.medians = log.medians, merges \subseteq merges', UNCHANGED <<mode, boot>>
      PROVE  MedianBacked'
  BY <1>1, MediansKept DEF MedianBacked
<1>2. ASSUME log' = NewLog PROVE MedianBacked'
  BY <1>2 DEF MedianBacked, NewLog
<1>3. ASSUME NEW a \in Advert, IngestAdvert(a) PROVE MedianBacked'
  <2>1. merges \subseteq merges'
    BY <1>3 DEF IngestAdvert, Merged
  <2> QED BY <1>1, <1>3, <2>1, FileSame DEF IngestAdvert
<1>4. ASSUME NEW a \in Advert, AppendFails(a) PROVE MedianBacked'
  <2>1. FileGrows
    BY <1>4, FileSame, FileAppended DEF AppendFails
  <2>2. log'.medians = log.medians
    BY <1>4 DEF AppendFails, NoteSeen, TypedInv, TypeOK, LogType
  <2> QED BY <1>1, <1>4, <2>1, <2>2 DEF AppendFails
<1>5. CASE Restart
  BY <1>5, MedianRestart
<1>6. ASSUME NEW a \in Advert, AppendAdvert(a) PROVE MedianBacked'
  BY <1>6, MedianAppend
<1>7. CASE Shutdown \/ Crash \/ \E a \in Advert : CrashInAppend(a)
  BY <1>2, <1>7 DEF Shutdown, Crash, CrashInAppend, MemoryLost
<1>8. CASE UNCHANGED <<mode, log, file, boot, merges>>
  BY <1>1, <1>8, FileSame
<1> QED
  BY <1>3, <1>4, <1>5, <1>6, <1>7, <1>8
     DEF Next, vars, RecordLocal, EditKeys, LoseKeyFile, DrainTick, AdvanceClock

\* Whatever reports, crashes, torn records and restarts come, a median that a checkpoint
\* may sign is of a quorum this process merged or of one the file brought back: never of
\* one that was quarantined or waits for diversity in this process (append_verified,
\* finalize_replayed_quorums, sign_epoch_checkpoint).
THEOREM MediansHaveMerges == Spec => []MedianBacked
<1>1. Init => MedianBacked
  BY DEF Init, NewLog, MedianBacked
<1>2. TypedInv /\ TrustInv /\ MedianBacked /\ [Next]_vars => MedianBacked'
  BY MedianNext
<1> QED
  BY <1>1, <1>2, TypedInvariant, TrustInvariant, PTL DEF Spec
=============================================================================
