----------------------------- MODULE NodeTrust ------------------------------
(***************************************************************************)
(* What a node believes of its peers, over crashes and restarts: the       *)
(* health tracker fed by the dispatchers and by gossip (health_gossip.rs), *)
(* the quorum log behind the gossip, and the 30 second loop of             *)
(* aegis-node/src/main.rs that feeds the pruning policy and writes the     *)
(* ledger.  The log and the ledger are files; everything else is lost with *)
(* the process.                                                            *)
(*                                                                         *)
(*   mode   "disk": gossip with quorum_log_path; "memory": gossip without; *)
(*          "none": a link bridge with a tracker and no quorum log         *)
(*   file   the quorum log, a sequence of records                          *)
(*   saved  the ledger file: scores and who signed them, Absent, or Cut (a *)
(*          write that stopped)                                            *)
(*   keys   the operator's keys in the TOML: the signing seed, in place or *)
(*          in a file of its own, and the key to verify with               *)
(***************************************************************************)
EXTENDS QuorumLog

CONSTANTS
  Settings,  (* [mode, keys] of the configurations considered             *)
  Advert,    (* adverts that may arrive, see AdvertType                   *)
  EpochSecs, (* gossip_epoch_secs                                         *)
  MaxAge,    (* DEFAULT_MAX_ADVERT_AGE_SECS                               *)
  MaxSkew,   (* 120 seconds into the future                               *)
  Subject,   (* peers the node itself talks to                            *)
  MaxNow, MaxLocal, MaxFaults, (* bounds of the model                     *)
  Absent, Cut,
  OpKey, NoKey, Unreadable (* operator keys; none is set; a key file that is gone *)

KeysType == [seed : OpKey \cup {NoKey}, file : OpKey \cup {NoKey, Unreadable},
             verify : OpKey \cup {NoKey}]
LedgerFile == [scores : LedgerType, signer : OpKey \cup {NoKey}]

\* An advert as it comes off an authenticated link.
AdvertType == [link : Relay, reporter : Relay, subject : Relay, ok : Count,
               fail : Count, ts : Nat, signed : BOOLEAN]

ASSUME NodeTrustAssumption ==
  /\ Settings \subseteq [mode : {"disk", "memory", "none"}, keys : KeysType]
  /\ Advert \subseteq AdvertType /\ Subject \subseteq Relay
  /\ EpochSecs \in Nat \ {0} /\ MaxAge \in Nat /\ MaxSkew \in Nat
  /\ \A a \in Advert : a.ts \div EpochSecs \in Epoch
  /\ MaxNow \in Nat /\ MaxLocal \in Nat /\ MaxFaults \in Nat
  /\ NoKey \notin OpKey /\ Unreadable \notin OpKey
  /\ Absent \notin LedgerFile /\ Cut \notin LedgerFile /\ Absent # Cut

VARIABLES
  mode, keys, up, now,
  tracker, log, policy, (* memory of the process                          *)
  file, saved,          (* on disk                                        *)
  boot, faults,         (* starts so far, crashes and failed writes       *)
  put, fed,             (* outcomes put into the windows, and fed         *)
  merges                (* [place, by, seq, boot] of every merge     *)

vars == <<mode, keys, up, now, tracker, log, policy, file, saved, boot, faults, put, fed,
          merges>>

Merge == [place : Place, by : SUBSET Relay, seq : Nat, boot : Nat]

TypeOK ==
  /\ mode \in {"disk", "memory", "none"} /\ keys \in KeysType /\ up \in BOOLEAN /\ now \in 0 .. MaxNow
  /\ tracker \in TrackerType /\ log \in LogType /\ policy \in PolicyType
  /\ file \in Seq(Record)
  /\ saved \in LedgerFile \cup {Absent, Cut}
  /\ boot \in Nat /\ faults \in 0 .. MaxFaults
  /\ put \in [Relay -> Nat] /\ fed \in [Relay -> Nat]
  /\ merges \subseteq Merge

FreshPolicy == WithLedger(EmptyLedger)

\* resolve_operator_keys: the seed in the TOML comes before the file, and without a
\* key to verify with it is the signing key's own.
SigningKey   == IF keys.seed # NoKey THEN keys.seed ELSE keys.file
VerifyingKey == IF keys.verify # NoKey THEN keys.verify ELSE SigningKey

\* A key file that cannot be read: nothing is saved, and the node does not start.
KeysResolve == SigningKey # Unreadable

Init ==
  /\ \E s \in Settings : mode = s.mode /\ keys = s.keys
  /\ KeysResolve
  /\ up = TRUE /\ now = 0
  /\ tracker = NewTracker /\ log = NewLog /\ policy = FreshPolicy
  /\ file = <<>> /\ saved = Absent /\ boot = 1 /\ faults = 0
  /\ put = [r \in Relay |-> 0] /\ fed = [r \in Relay |-> 0]
  /\ merges = {}

\* What the end of the process takes with it.
MemoryLost ==
  /\ up' = FALSE
  /\ tracker' = NewTracker /\ log' = NewLog /\ policy' = FreshPolicy
  /\ put' = [r \in Relay |-> 0] /\ fed' = [r \in Relay |-> 0]

-----------------------------------------------------------------------------
\* record_success and record_failure, called by the dispatchers.
RecordLocal(peer, good) ==
  /\ up /\ put[peer] < MaxLocal
  /\ tracker' = RecordOutcome(tracker, peer, good)
  /\ put' = [put EXCEPT ![peer] = @ + 1]
  /\ UNCHANGED <<mode, keys, up, now, log, policy, file, saved, boot, faults, fed, merges>>

SkewOk(a) == IF now >= a.ts THEN now - a.ts <= MaxAge ELSE a.ts - now <= MaxSkew

\* The checks of accept_advert and accept_advert_quorum; a refused advert leaves
\* no trace.
Accepts(a) ==
  /\ a.link = a.reporter
  /\ a.reporter \in Authority
  /\ SkewOk(a)
  /\ a.signed

AdvertEpoch(ts) == ts \div EpochSecs

ReportOf(a) == [epoch |-> AdvertEpoch(a.ts), reporter |-> a.reporter,
                subject |-> a.subject, ok |-> a.ok, fail |-> a.fail]

\* A merge adds to the window of the subject what the tracker gained.
Gained(t, subject) == Samples(t.windows[subject]) - Samples(tracker.windows[subject])

Merged(place, outcome, by) ==
  IF outcome = "Applied"
  THEN merges \cup {[place |-> place, by |-> by, seq |-> Cardinality(merges),
                     boot |-> boot]}
  ELSE merges

\* accept_advert, for a bridge without a quorum log.
IngestAdvert(a) ==
  LET place  == <<AdvertEpoch(a.ts), a.subject>>
      answer == IngestObservation(tracker, a.subject,
                  ObservationOf(ReportOf(a), OrgOf[a.reporter]))
      by     == {o.reporter : o \in tracker.pending[a.subject]} \cup {a.reporter}
  IN  /\ up /\ mode = "none" /\ Accepts(a)
      /\ Cardinality(merges) < MaxLocal
      /\ tracker' = answer.tracker
      /\ put' = [put EXCEPT ![a.subject] = @ + Gained(answer.tracker, a.subject)]
      /\ merges' = Merged(place, answer.outcome, by)
      /\ UNCHANGED <<mode, keys, up, now, log, policy, file, saved, boot, faults, fed>>

\* append_verified of a report that is neither refused nor known.
New(a) ==
  /\ up /\ mode # "none" /\ Accepts(a)
  /\ ReportOf(a) \notin log.seen
  /\ ~Equivocates(log, ReportOf(a))

AppendAdvert(a) ==
  LET report == ReportOf(a)
      answer == CountReport(NoteSeen(log, report), tracker, report)
  IN  /\ New(a)
      /\ log' = answer.log
      /\ tracker' = answer.tracker
      /\ file' \in IF mode = "disk" THEN Persisted(file, TRUE, report) ELSE {file}
      /\ put' = [put EXCEPT ![a.subject] = @ + Gained(answer.tracker, a.subject)]
      /\ merges' = Merged(<<report.epoch, report.subject>>, answer.outcome, answer.by)
      /\ UNCHANGED <<mode, keys, up, now, policy, saved, boot, faults, fed>>

\* The write fails, before or after some of its bytes: the report is in seen and
\* goes no further.
AppendFails(a) ==
  /\ New(a) /\ mode = "disk" /\ faults < MaxFaults
  /\ log' = NoteSeen(log, ReportOf(a))
  /\ file' \in {file} \cup Persisted(file, FALSE, ReportOf(a))
  /\ faults' = faults + 1
  /\ UNCHANGED <<mode, keys, up, now, tracker, policy, saved, boot, put, fed, merges>>

\* The process dies inside the write.
CrashInAppend(a) ==
  /\ New(a) /\ mode = "disk" /\ faults < MaxFaults
  /\ \E whole \in BOOLEAN : file' \in Persisted(file, whole, ReportOf(a))
  /\ MemoryLost /\ faults' = faults + 1
  /\ UNCHANGED <<mode, keys, now, saved, boot, merges>>

-----------------------------------------------------------------------------
\* write_file, signed when there is a signing key.
WriteFile(ledger) == [scores |-> ledger, signer |-> SigningKey]

\* Mutant of VerifyLedgerFile: a file without a signature is let through.
VerifyLedgerFileIfSigned(ledgerFile) == ledgerFile.signer \in {NoKey, VerifyingKey}

\* verify_ledger_file: a signature, and by the key expected.
VerifyLedgerFile(ledgerFile) == ledgerFile.signer = VerifyingKey

\* load_from_file_with_verify.
LoadsFromFile(ledgerFile) ==
  /\ ledgerFile \notin {Absent, Cut}
  /\ VerifyingKey = NoKey \/ VerifyLedgerFile(ledgerFile)

\* save_ledger: a failure is a warning.
SaveLedger(ledger) == saved' = IF KeysResolve THEN WriteFile(ledger) ELSE saved

\* The operator sets, changes or removes keys while the node is down.
EditKeys(k) ==
  /\ ~up /\ boot <= MaxFaults /\ k # keys /\ [mode |-> mode, keys |-> k] \in Settings
  /\ keys' = k
  /\ UNCHANGED <<mode, up, now, tracker, log, policy, file, saved, boot, faults, put, fed, merges>>

\* The key file goes away under a running node, which reads it at every save.
LoseKeyFile ==
  /\ up /\ keys.file \in OpKey /\ faults < MaxFaults /\ faults' = faults + 1
  /\ keys' = [keys EXCEPT !.file = Unreadable]
  /\ UNCHANGED <<mode, up, now, tracker, log, policy, file, saved, boot, put, fed, merges>>

\* One tick of the 30 second loop: drain_into_policy, then save_ledger.  The
\* ledger is written in place; a failure is a warning.
DrainTick ==
  /\ up
  /\ policy' = FeedDrained(policy, tracker)
  /\ tracker' = ResetDrained(tracker)
  /\ fed' = [r \in Relay |-> IF r \in Drained(tracker)
                             THEN fed[r] + Samples(tracker.windows[r]) ELSE fed[r]]
  /\ \/ SaveLedger(policy'.ledger) /\ UNCHANGED faults
     \/ faults < MaxFaults /\ faults' = faults + 1 /\ saved' \in {saved, Cut}
  /\ UNCHANGED <<mode, keys, up, now, log, file, boot, put, merges>>

\* The process dies inside save_ledger, or anywhere else.
Crash ==
  /\ up /\ faults < MaxFaults /\ faults' = faults + 1
  /\ MemoryLost
  /\ saved' \in {saved, Cut}
  /\ UNCHANGED <<mode, keys, now, file, boot, merges>>

\* ctrl-c: the ledger is saved once more, without a drain.
Shutdown ==
  /\ up /\ MemoryLost
  /\ SaveLedger(policy.ledger)
  /\ UNCHANGED <<mode, keys, now, file, boot, faults, merges>>

\* load_pruning_policy: a ledger that does not load is a warning, and every score
\* is Neutral again.
LoadPruningPolicy == IF LoadsFromFile(saved) THEN WithLedger(saved.scores) ELSE FreshPolicy

\* run_relay; a log that does not replay is an error, and the node stays down.
Restart ==
  /\ ~up /\ boot <= MaxFaults
  /\ KeysResolve
  /\ mode = "disk" => ~ReplayFails(file)
  /\ up' = TRUE /\ boot' = boot + 1
  /\ log' = IF mode = "disk" THEN Replay(file) ELSE NewLog
  /\ policy' = LoadPruningPolicy
  /\ UNCHANGED <<mode, keys, now, tracker, file, saved, faults, put, fed, merges>>

AdvanceClock ==
  /\ now < MaxNow /\ now' = now + 1
  /\ UNCHANGED <<mode, keys, up, tracker, log, policy, file, saved, boot, faults, put, fed, merges>>

Next ==
  \/ \E peer \in Subject, good \in BOOLEAN : RecordLocal(peer, good)
  \/ \E a \in Advert : IngestAdvert(a) \/ AppendAdvert(a) \/ AppendFails(a) \/ CrashInAppend(a)
  \/ \E s \in Settings : EditKeys(s.keys)
  \/ LoseKeyFile
  \/ DrainTick \/ Shutdown \/ Crash \/ Restart \/ AdvanceClock

Spec == Init /\ [][Next]_vars

-----------------------------------------------------------------------------
\* With a quorum log on disk an epoch and subject are merged once, over crashes
\* and restarts (append_verified, finalize_replayed_quorums), unless bytes stand
\* behind a torn record; with a log in memory, once in the life of a process.
MergedOnce ==
  \A m, n \in merges : (m # n /\ m.place = n.place /\ mode # "none") =>
    m.boot # n.boot /\ (mode = "memory" \/ TornInside(file))

\* Every merge has majority_k reporters behind it, and labels of min_orgs orgs
\* among them unless observations came back from the file, which has no labels
\* (append_verified, finalize_replayed_quorums).
QuorumBehindMerge ==
  \A m \in merges :
    /\ Cardinality(m.by) >= MajorityK /\ m.by \subseteq Authority
    /\ (m.boot = 1 \/ mode # "disk") => Cardinality({OrgOf[r] : r \in m.by}) >= MinOrgs

\* The log on disk can be replayed (replay_entry) unless bytes stand behind a torn
\* record: append_verified lets no second payload for an epoch, reporter and subject
\* into the file, over restarts, and a crash inside the last write stops no start.
LogReplays == ~TornInside(file) => ~ReplayFails(file)

\* A start fails only over two payloads that were reported for one epoch, reporter and
\* subject (replay_entry, QuorumLogError::Equivocation).
FailsOnEquivocationOnly ==
  ReplayFails(file) =>
    \E i, j \in 1 .. Len(file) : /\ SameKey(file[i].report, file[j].report)
                                /\ file[i].report # file[j].report

\* A median that a checkpoint may sign (sign_epoch_checkpoint) is of a quorum this
\* process merged, never of one it quarantined or that waits for diversity, or of a
\* quorum the file brought back (finalize_replayed_quorums).
MedianBacked ==
  \A p \in Place : log.medians[p] # NoMedian =>
    \/ \E m \in merges : m.place = p /\ m.boot = boot
    \/ mode = "disk" /\ boot > 1 /\ ReplayedQuorum(file, p)

\* Every outcome put into a window since the start is fed to the policy once or
\* still waits there (record_success, record_failure, apply_gossip_outcomes,
\* drain_into_policy), while the counters cannot have saturated.
FedOnce ==
  up => \A r \in Relay :
          put[r] < MaxCount => put[r] = fed[r] + Samples(tracker.windows[r])
=============================================================================
