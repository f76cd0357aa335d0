------------------------------- MODULE Roster -------------------------------
(***************************************************************************)
(* The admission roster of aegis-topology (roster.rs, pruning.rs, the      *)
(* records of types.rs) with the ledger that admission seeds, kept by a    *)
(* process that may restart:                                               *)
(*                                                                         *)
(*   relays      id -> [record, admission], NoEntry when not admitted      *)
(*   rules       RosterAdmissionPolicy: [max, window, derived]             *)
(*   stamps      admission_timestamps, never saved: [at, no], no for those *)
(*               of one second                                             *)
(*   consortium  the M-of-N authorities the process is configured with     *)
(*   rosterFile  entries, NoRosterFile, or CutRoster when a write stopped  *)
(*               half-way                                                  *)
(*                                                                         *)
(* A KEM commitment is named by the relay id it derives.  A signature is   *)
(* its authority and whether it verifies over the record it comes with.    *)
(* The legacy form of an admission is a threshold admission of one.        *)
(***************************************************************************)
EXTENDS Reputation, FiniteSets, Sequences, SequencesExt

CONSTANTS
  Authorities, Jurisdiction,
  Consortia, (* configurations [m, n]: threshold and sequence of keys     *)
  Rules,     (* admission policies                                        *)
  DefaultRules, (* RosterAdmissionPolicy::default, what a load starts with *)
  Offers,    (* signed records that may be submitted, see SignedRecord    *)
  Files,     (* rosters an operator may put in place of the file          *)
  MaxClock, MaxNew, MaxUpdates, MaxRosterFaults, (* bounds of the model   *)
  NoEntry, NoAdmission, NoRosterFile, CutRoster

RelayRecord  == [id : Relay, kem : Relay, jur : Jurisdiction]
Signature    == [by : Authorities, good : BOOLEAN]
SignedRecord == [record : RelayRecord, sigs : Seq(Signature)]
Stamp        == [at : 0 .. MaxClock, no : Nat]
Entry        == [record : RelayRecord, admission : SignedRecord \cup {NoAdmission}]

ASSUME RosterAssumption ==
  /\ \A c \in Consortia : c.n \in Seq(Authorities) /\ c.m \in Nat
  /\ Rules \subseteq [max : Nat, window : Nat, derived : BOOLEAN]
  /\ DefaultRules \in Rules /\ MaxClock \in Nat
  /\ Offers \subseteq SignedRecord /\ NoAdmission \notin SignedRecord
  /\ \A f \in Files : f \subseteq Entry

-----------------------------------------------------------------------------
\* ThresholdConsortium::new: refuses no keys, a threshold out of 1 .. n, and a key
\* given twice.
ConsortiumOk(c) == c.m \in 1 .. Len(c.n) /\ IsInjective(c.n)

\* Of the signatures of one authority verify_threshold looks at the first only.
Counted(sigs) ==
  {i \in 1 .. Len(sigs) : \A j \in 1 .. i - 1 : sigs[j].by # sigs[i].by}

\* Mutant of VerifyThreshold: an authority that signs twice counts twice.
VerifyEachSignature(signed, c) ==
  /\ \A i \in 1 .. Len(signed.sigs) :
       signed.sigs[i].by \in Range(c.n) /\ signed.sigs[i].good
  /\ Len(signed.sigs) >= c.m

\* One unknown authority or bad signature refuses the record, however many good
\* ones there are.
VerifyThreshold(signed, c) ==
  /\ \A i \in Counted(signed.sigs) :
       signed.sigs[i].by \in Range(c.n) /\ signed.sigs[i].good
  /\ Cardinality(Counted(signed.sigs)) >= c.m

\* ThresholdConsortium::single.
Single(authority) == [m |-> 1, n |-> <<authority>>]

\* id_matches_kem_commitment.
IdMatchesKem(record) == record.id = record.kem

\* relay_admission_satisfies_pruning_policy at the floor.
MayEnter(ledger, id) == Score(ledger, id) >= Floor

-----------------------------------------------------------------------------
VARIABLES
  relays, rules, stamps, ledger, consortium, rosterFile, clock,
  admitted, (* times of new admissions since start, reset or new rules    *)
  lab,      (* ids that came in by one key or without verification        *)
  updates, rosterFaults

rosterVars == <<relays, rules, stamps, ledger, consortium, rosterFile, clock, admitted, lab,
          updates, rosterFaults>>

NoRelays == [r \in Relay |-> NoEntry]
Admitted == {r \in Relay : relays[r] # NoEntry}

RosterTypeOK ==
  /\ relays \in [Relay -> Entry \cup {NoEntry}] /\ rules \in Rules
  /\ stamps \subseteq Stamp /\ ledger \in LedgerType
  /\ consortium \in Consortia /\ rosterFile \in SUBSET Entry \cup {NoRosterFile, CutRoster}
  /\ clock \in 0 .. MaxClock /\ admitted \subseteq Stamp /\ lab \subseteq Relay
  /\ updates \in 0 .. MaxUpdates /\ rosterFaults \in 0 .. MaxRosterFaults

RosterInit ==
  /\ relays = NoRelays /\ rules \in Rules /\ stamps = {} /\ ledger = EmptyLedger
  /\ consortium \in {c \in Consortia : ConsortiumOk(c)}
  /\ rosterFile = NoRosterFile /\ clock = 0 /\ admitted = {} /\ lab = {}
  /\ updates = 0 /\ rosterFaults = 0

\* now.saturating_sub(window).
Cutoff(t) == IF t < rules.window THEN 0 ELSE t - rules.window

\* Mutant of Recent: the stamp at the edge of the window is not counted.
RecentOpen(t) == {s \in stamps : s.at > Cutoff(t)}

Recent(t) == {s \in stamps : s.at >= Cutoff(t)}

\* What record_admission pushes: one more of this second.
NewStamp == [at |-> clock, no |-> Cardinality({s \in stamps : s.at = clock})]

\* admit_verified_inner: a new id takes a place in the window and a first score;
\* for a known id only the entry changes.
AdmitVerified(signed) ==
  LET id    == signed.record.id
      isNew == id \notin Admitted
  IN  /\ rules.derived => IdMatchesKem(signed.record)
      /\ isNew => Cardinality(Recent(clock)) < rules.max /\ Cardinality(admitted) < MaxNew
      /\ IF isNew
         THEN /\ ledger' = AdmitNewRelay(ledger, id)
              /\ stamps' = Recent(clock) \cup {NewStamp}
              /\ admitted' = admitted \cup {NewStamp}
         ELSE UNCHANGED <<ledger, stamps, admitted>>
      /\ relays' = [relays EXCEPT ![id] = [record |-> signed.record, admission |-> signed]]

\* admit_threshold_signed.
AdmitThresholdSigned(signed) ==
  /\ VerifyThreshold(signed, consortium)
  /\ AdmitVerified(signed)
  /\ lab' = lab \ {signed.record.id}
  /\ UNCHANGED <<rules, consortium, rosterFile, clock, updates, rosterFaults>>

\* admit_threshold_signed_pruned, the gate is for new ids only.
AdmitPruned(signed) ==
  /\ signed.record.id \in Admitted \/ MayEnter(ledger, signed.record.id)
  /\ AdmitThresholdSigned(signed)

\* admit_signed and admit_signed_pruned: one key the caller names, whatever the
\* consortium is.
AdmitSigned(signed, authority) ==
  /\ Len(signed.sigs) = 1
  /\ VerifyThreshold(signed, Single(authority))
  /\ AdmitVerified(signed)
  /\ lab' = lab \cup {signed.record.id}
  /\ UNCHANGED <<rules, consortium, rosterFile, clock, updates, rosterFaults>>

RemoveRelay(id) ==
  /\ id \in Admitted
  /\ relays' = [relays EXCEPT ![id] = NoEntry] /\ lab' = lab \ {id}
  /\ UNCHANGED <<rules, stamps, ledger, consortium, rosterFile, clock, admitted, updates,
                 rosterFaults>>

\* set_admission_policy and reset_admission_rate_limit.
SetRules(p) ==
  /\ rules' = p /\ p # rules /\ admitted' = {}
  /\ UNCHANGED <<relays, stamps, ledger, consortium, rosterFile, clock, lab, updates,
                 rosterFaults>>

ResetRateLimit ==
  /\ stamps' = {} /\ stamps # {} /\ admitted' = {}
  /\ UNCHANGED <<relays, rules, ledger, consortium, rosterFile, clock, lab, updates,
                 rosterFaults>>

\* record_success and record_failure of the ledger.
RecordRelayOutcome(id, good) ==
  /\ updates < MaxUpdates /\ updates' = updates + 1
  /\ ledger' = UpdateScore(ledger, id, IF good THEN One ELSE 0)
  /\ UNCHANGED <<relays, rules, stamps, consortium, rosterFile, clock, admitted, lab,
                 rosterFaults>>

-----------------------------------------------------------------------------
\* save_to_file writes in place; a fault leaves what was there or a part.
SaveToFile ==
  /\ \/ rosterFile' = {relays[r] : r \in Admitted} /\ UNCHANGED rosterFaults
     \/ /\ rosterFaults < MaxRosterFaults /\ rosterFaults' = rosterFaults + 1
        /\ rosterFile' \in {rosterFile, CutRoster}
  /\ UNCHANGED <<relays, rules, stamps, ledger, consortium, clock, admitted, lab, updates>>

\* An operator replaces the file.
PlaceFile(f) ==
  /\ rosterFaults < MaxRosterFaults /\ rosterFaults' = rosterFaults + 1 /\ rosterFile' = f
  /\ UNCHANGED <<relays, rules, stamps, ledger, consortium, clock, admitted, lab, updates>>

EntryVerifies(e, c) ==
  e.admission # NoAdmission /\ VerifyThreshold(e.admission, c)

\* A later entry of an id takes the place of an earlier one; entries are saved
\* sorted, so in a file of the program there is one for each id.
Inserted(entries) ==
  [r \in Relay |-> IF \E e \in entries : e.record.id = r
                   THEN CHOOSE e \in entries : e.record.id = r ELSE NoEntry]

\* load_persisted in a new process with consortium c: default rules, no stamps.
\* The ledger is a file of its own and is read back.
Load(c, verify) ==
  /\ rosterFile \notin {NoRosterFile, CutRoster}
  /\ verify => \A e \in rosterFile : EntryVerifies(e, c)
  /\ relays' = Inserted(rosterFile)
  /\ lab' = IF verify THEN {} ELSE {e.record.id : e \in rosterFile}
  /\ consortium' = c /\ stamps' = {} /\ admitted' = {}
  /\ rules' = DefaultRules
  /\ UNCHANGED <<ledger, rosterFile, clock, updates, rosterFaults>>

\* load_from_file_with_policy: with a consortium always verified; without one
\* only where the configuration allows it.
LoadWithPolicy(c) == ConsortiumOk(c) /\ Load(c, TRUE)

LoadUnverified == Load(consortium, FALSE)

ClockTicks ==
  /\ clock < MaxClock /\ clock' = clock + 1
  /\ UNCHANGED <<relays, rules, stamps, ledger, consortium, rosterFile, admitted, lab,
                 updates, rosterFaults>>

RosterNext ==
  \/ \E s \in Offers : AdmitThresholdSigned(s) \/ AdmitPruned(s)
  \/ \E s \in Offers, a \in Authorities : AdmitSigned(s, a)
  \/ \E id \in Relay : RemoveRelay(id)
  \/ \E id \in Relay, good \in BOOLEAN : RecordRelayOutcome(id, good)
  \/ \E p \in Rules : SetRules(p)
  \/ \E f \in Files : PlaceFile(f)
  \/ \E c \in Consortia : LoadWithPolicy(c)
  \/ ResetRateLimit \/ SaveToFile \/ LoadUnverified \/ ClockTicks

RosterSpec == RosterInit /\ [][RosterNext]_rosterVars

-----------------------------------------------------------------------------
Signers(signed) == {signed.sigs[i].by : i \in {j \in 1 .. Len(signed.sigs) : signed.sigs[j].good}}

Backed(e, c) == Cardinality(Signers(e.admission) \cap Range(c.n)) >= c.m

\* The record of every entry in the roster has m different authorities of the
\* consortium behind it, after any order of admissions, removals, saves and restarts
\* with other authorities (verify_threshold, admit_verified_inner, load_persisted),
\* except the ids taken in by one key or by an unverified load.  An entry that came in
\* with a file from elsewhere has them behind its admission, which may be of another
\* record.
ThresholdBehindEntry ==
  \A r \in Admitted \ lab : LET e == relays[r] IN
    /\ Backed(e, consortium)
    /\ e.record = e.admission.record \/ \E f \in Files : e \in f

\* The record of an entry is the one its authorities signed, whatever file it came
\* from (load_from_file_with_consortium).
RecordSigned ==
  \A r \in Admitted \ lab : LET e == relays[r] IN
    Backed(e, consortium) /\ e.record = e.admission.record

\* Between a start, a reset or a change of rules and the next, no stretch of
\* `window` seconds sees more than `max` new relays (check_admission_rate_limit,
\* record_admission).
RateLimited ==
  \A t \in 0 .. MaxClock :
    Cardinality({s \in admitted : s.at \in t .. t + rules.window}) <= rules.max

\* Admission and re-admission never touch a score that is there
\* (admit_new_relay): only an outcome moves it.
ScoreEarned ==
  [][\A r \in Relay : (ledger[r] # Unscored /\ ledger'[r] # ledger[r]) =>
       updates' = updates + 1]_rosterVars
=============================================================================
