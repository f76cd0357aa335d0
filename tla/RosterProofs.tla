----------------------------- MODULE RosterProofs -----------------------------
(***************************************************************************)
(* Proofs that no relay is in the roster without the threshold of          *)
(* authorities behind its admission, that its record is the one they       *)
(* signed unless it came in with a file from elsewhere, that no more come  *)
(* in than the rules allow in their window and that a score moves only by  *)
(* an outcome, for every set of relays and authorities, every rules and    *)
(* consortium a process may be given and every file it may find.           *)
(***************************************************************************)
EXTENDS Roster, FiniteSetTheorems, SequenceTheorems, TLAPS

\* What the roster and its file hold are entries, whoever wrote them.
HoldsEntries ==
  /\ relays \in [Relay -> Entry \cup {NoEntry}]
  /\ rosterFile \in {NoRosterFile, CutRoster} \/ rosterFile \subseteq Entry

\* The entries of the other doors aside, each one still verifies under the
\* consortium of this process, not only under the one that let it in.
StillVerifies ==
  \A r \in Admitted \ lab :
    /\ relays[r].admission \in SignedRecord
    /\ VerifyThreshold(relays[r].admission, consortium)

\* The program writes no entry whose record is not the one its admission signs; an
\* operator may.
OwnRecord(e) ==
  e.admission = NoAdmission \/ e.record = e.admission.record \/ \E f \in Files : e \in f

RecordsKept ==
  /\ \A r \in Admitted : OwnRecord(relays[r])
  /\ rosterFile \notin {NoRosterFile, CutRoster} => \A e \in rosterFile : OwnRecord(e)

RosterInv == HoldsEntries /\ consortium \in Consortia /\ StillVerifies

-----------------------------------------------------------------------------
\* A set with an injection into a finite set is no larger.
LEMMA RangeIsFinite ==
  ASSUME NEW S, NEW q \in Seq(S)
  PROVE  IsFiniteSet(Range(q))
<1>1. Len(q) \in Nat /\ q \in [1 .. Len(q) -> S] /\ DOMAIN q = 1 .. Len(q)
  BY LenProperties
<1>2. q \in Surjection(1 .. Len(q), Range(q))
  BY <1>1 DEF Surjection, Range
<1>3. IsFiniteSet(1 .. Len(q))
  BY <1>1, FS_Interval
<1> QED
  BY <1>2, <1>3, FS_Surjection

\* verify_threshold counts authorities, not signatures: m signatures that pass it
\* have m different signers among the authorities.
LEMMA VerifiedHasSigners ==
  ASSUME NEW offer \in SignedRecord, NEW c \in Consortia, VerifyThreshold(offer, c)
  PROVE  Cardinality(Signers(offer) \cap Range(c.n)) >= c.m
<1> DEFINE sigs == offer.sigs
           S == Counted(sigs)
           T == Signers(offer) \cap Range(c.n)
           f == [i \in S |-> sigs[i].by]
<1>1. c.n \in Seq(Authorities) /\ c.m \in Nat
  BY RosterAssumption
<1>2. sigs \in Seq(Signature) /\ Len(sigs) \in Nat
  BY LenProperties DEF SignedRecord
<1>3. \A i \in S : i \in 1 .. Len(sigs) /\ sigs[i].good /\ sigs[i].by \in Range(c.n)
  BY DEF VerifyThreshold, Counted
<1>4. \A i \in S : f[i] \in T
  BY <1>3 DEF Signers
<1>5. \A i, j \in S : f[i] = f[j] => i = j
  <2> SUFFICES ASSUME NEW i \in S, NEW j \in S, f[i] = f[j], i # j PROVE FALSE
    OBVIOUS
  <2>1. i \in 1 .. Len(sigs) /\ j \in 1 .. Len(sigs) /\ sigs[i].by = sigs[j].by
    BY <1>3
  <2>2. i \in 1 .. j - 1 \/ j \in 1 .. i - 1
    BY <1>2, <2>1
  <2> QED
    BY <2>1, <2>2 DEF Counted
<1>6. f \in Injection(S, T)
  <2>1. f \in [S -> T]
    BY <1>4
  <2> HIDE DEF S, T
  <2> QED
    BY <1>5, <2>1 DEF Injection, IsInjective
<1>7. IsFiniteSet(T)
  <2>1. IsFiniteSet(Range(c.n))
    BY <1>1, RangeIsFinite
  <2>2. T \in SUBSET Range(c.n)
    OBVIOUS
  <2> HIDE DEF T
  <2> QED
    BY <2>1, <2>2, FS_Subset
<1>8. Cardinality(S) <= Cardinality(T) /\ IsFiniteSet(S)
  <2> HIDE DEF S, T, f
  <2> QED
    BY <1>6, <1>7, FS_Injection
<1>9. Cardinality(S) \in Nat /\ Cardinality(T) \in Nat
  BY <1>7, <1>8, FS_CardinalityType
<1>10. Cardinality(S) >= c.m
  BY DEF VerifyThreshold
<1> QED
  BY <1>1, <1>8, <1>9, <1>10

LEMMA RosterInvEnough == RosterInv /\ RecordsKept => ThresholdBehindEntry
<1> SUFFICES ASSUME RosterInv, RecordsKept, NEW r \in Admitted \ lab
             PROVE  /\ Backed(relays[r], consortium)
                    /\ \/ relays[r].record = relays[r].admission.record
                       \/ \E f \in Files : relays[r] \in f
  BY DEF ThresholdBehindEntry
<1>1. /\ relays[r].admission \in SignedRecord /\ VerifyThreshold(relays[r].admission, consortium)
      /\ consortium \in Consortia
  BY DEF RosterInv, StillVerifies
<1>2. Backed(relays[r], consortium)
  BY <1>1, VerifiedHasSigners DEF Backed
<1>3. OwnRecord(relays[r])
  BY DEF RecordsKept
<1> QED
  BY <1>1, <1>2, <1>3, RosterAssumption DEF OwnRecord

-----------------------------------------------------------------------------
LEMMA RosterInvInit == RosterInit => RosterInv
<1> SUFFICES ASSUME RosterInit PROVE RosterInv
  OBVIOUS
<1>1. Admitted = {}
  BY DEF RosterInit, NoRelays, Admitted
<1>2. HoldsEntries
  BY DEF RosterInit, NoRelays, HoldsEntries
<1> QED
  BY <1>1, <1>2 DEF RosterInit, RosterInv, StillVerifies

\* Whichever door a record comes through, its id is its own and the others stay.
LEMMA AdmittedRecord ==
  ASSUME RosterInv, NEW offer \in Offers, AdmitVerified(offer)
  PROVE  LET e == [record |-> offer.record, admission |-> offer] IN
         /\ offer.record.id \in Relay /\ e \in Entry
         /\ relays' = [relays EXCEPT ![offer.record.id] = e]
         /\ relays' \in [Relay -> Entry \cup {NoEntry}]
<1>1. offer \in SignedRecord
  BY RosterAssumption
<1>2. offer.record \in RelayRecord /\ offer.record.id \in Relay
  BY <1>1 DEF SignedRecord, RelayRecord
<1>3. [record |-> offer.record, admission |-> offer] \in Entry
  BY <1>1, <1>2 DEF Entry
<1> QED
  BY <1>2, <1>3 DEF AdmitVerified, RosterInv, HoldsEntries

\* admit_threshold_signed, pruned or not: the new entry was verified just now.
LEMMA ThresholdKeeps ==
  ASSUME RosterInv, NEW offer \in Offers, AdmitThresholdSigned(offer)
  PROVE  RosterInv'
<1> DEFINE e == [record |-> offer.record, admission |-> offer]
           id == offer.record.id
<1>1. AdmitVerified(offer) /\ VerifyThreshold(offer, consortium)
  BY DEF AdmitThresholdSigned
<1>2. /\ id \in Relay /\ e \in Entry /\ offer \in SignedRecord
      /\ relays' = [relays EXCEPT ![id] = e]
      /\ relays' \in [Relay -> Entry \cup {NoEntry}]
  BY <1>1, AdmittedRecord, RosterAssumption
<1>3. consortium' = consortium /\ rosterFile' = rosterFile /\ lab' = lab \ {id}
  BY DEF AdmitThresholdSigned
<1>4. ASSUME NEW r \in Admitted' \ lab'
      PROVE  relays'[r].admission \in SignedRecord
             /\ VerifyThreshold(relays'[r].admission, consortium)
  <2>1. r \in Relay /\ relays'[r] # NoEntry
    BY DEF Admitted
  <2>2. CASE r = id
    BY <1>1, <1>2, <2>1, <2>2 DEF RosterInv, HoldsEntries
  <2>3. CASE r # id
    <3>1. relays'[r] = relays[r] /\ r \in Admitted \ lab
      BY <1>2, <1>3, <2>1, <2>3 DEF RosterInv, HoldsEntries, Admitted
    <3> QED
      BY <3>1 DEF RosterInv, StillVerifies
  <2> QED
    BY <2>2, <2>3
<1>5. HoldsEntries'
  BY <1>2, <1>3 DEF RosterInv, HoldsEntries
<1> QED
  BY <1>3, <1>4, <1>5 DEF RosterInv, StillVerifies

\* admit_signed: the new entry is one of those taken in by one key.
LEMMA SingleKeyKeeps ==
  ASSUME RosterInv, NEW offer \in Offers, NEW a \in Authorities, AdmitSigned(offer, a)
  PROVE  RosterInv'
<1> DEFINE e == [record |-> offer.record, admission |-> offer]
           id == offer.record.id
<1>1. /\ id \in Relay
      /\ relays' = [relays EXCEPT ![id] = e]
      /\ relays' \in [Relay -> Entry \cup {NoEntry}]
  BY AdmittedRecord DEF AdmitSigned
<1>2. consortium' = consortium /\ rosterFile' = rosterFile /\ lab' = lab \cup {id}
  BY DEF AdmitSigned
<1>3. ASSUME NEW r \in Admitted' \ lab'
      PROVE  relays'[r] = relays[r] /\ r \in Admitted \ lab
  BY <1>1, <1>2 DEF RosterInv, HoldsEntries, Admitted
<1>4. HoldsEntries'
  BY <1>1, <1>2 DEF RosterInv, HoldsEntries
<1> QED
  BY <1>2, <1>3, <1>4 DEF RosterInv, StillVerifies

LEMMA RemovalKeeps ==
  ASSUME RosterInv, NEW id \in Relay, RemoveRelay(id)
  PROVE  RosterInv'
<1>1. /\ relays' = [relays EXCEPT ![id] = NoEntry] /\ lab' = lab \ {id}
      /\ consortium' = consortium /\ rosterFile' = rosterFile
  BY DEF RemoveRelay
<1>2. HoldsEntries'
  BY <1>1 DEF RosterInv, HoldsEntries
<1>3. ASSUME NEW r \in Admitted' \ lab'
      PROVE  relays'[r] = relays[r] /\ r \in Admitted \ lab
  BY <1>1 DEF RosterInv, HoldsEntries, Admitted
<1> QED
  BY <1>1, <1>2, <1>3 DEF RosterInv, StillVerifies

\* save_to_file and whoever else writes the file leave entries there, or a part.
LEMMA FileKeeps ==
  ASSUME RosterInv, SaveToFile \/ \E f \in Files : PlaceFile(f)
  PROVE  RosterInv'
<1>1. UNCHANGED <<relays, consortium, lab>>
  BY DEF SaveToFile, PlaceFile
<1>2. {relays[r] : r \in Admitted} \subseteq Entry
  BY DEF RosterInv, HoldsEntries, Admitted
<1>3. rosterFile' \in {NoRosterFile, CutRoster} \/ rosterFile' \subseteq Entry
  <2>1. CASE SaveToFile
    BY <1>2, <2>1 DEF SaveToFile, RosterInv, HoldsEntries
  <2>2. CASE \E f \in Files : PlaceFile(f)
    BY <2>2, RosterAssumption DEF PlaceFile
  <2> QED
    BY <2>1, <2>2
<1>4. HoldsEntries'
  BY <1>1, <1>3 DEF RosterInv, HoldsEntries
<1> QED
  BY <1>1, <1>4 DEF RosterInv, StillVerifies, Admitted

\* What a load puts at an id is an entry of the file for that id.
LEMMA InsertedFromFile ==
  ASSUME NEW entries \in SUBSET Entry
  PROVE  /\ Inserted(entries) \in [Relay -> Entry \cup {NoEntry}]
         /\ \A r \in Relay : Inserted(entries)[r] # NoEntry =>
              Inserted(entries)[r] \in entries /\ Inserted(entries)[r].record.id = r
<1>1. ASSUME NEW r \in Relay, Inserted(entries)[r] # NoEntry
      PROVE  Inserted(entries)[r] \in entries /\ Inserted(entries)[r].record.id = r
  <2>1. \E e \in entries : e.record.id = r
    BY <1>1 DEF Inserted
  <2>2. Inserted(entries)[r] = CHOOSE e \in entries : e.record.id = r
    BY <2>1 DEF Inserted
  <2> QED
    BY <2>1, <2>2
<1>2. ASSUME NEW r \in Relay
      PROVE  Inserted(entries)[r] \in Entry \cup {NoEntry}
  BY <1>1
<1>3. Inserted(entries) = [r \in Relay |-> Inserted(entries)[r]]
  BY DEF Inserted
<1> QED
  BY <1>1, <1>2, <1>3

\* load_from_file_with_policy: every entry is verified again, under the
\* authorities this process is started with.
LEMMA VerifiedLoadKeeps ==
  ASSUME RosterInv, NEW c \in Consortia, LoadWithPolicy(c)
  PROVE  RosterInv'
<1>1. /\ rosterFile \subseteq Entry /\ relays' = Inserted(rosterFile) /\ lab' = {}
      /\ consortium' = c /\ rosterFile' = rosterFile
      /\ \A e \in rosterFile : EntryVerifies(e, c)
  BY DEF LoadWithPolicy, Load, RosterInv, HoldsEntries
<1>2. HoldsEntries'
  BY <1>1, InsertedFromFile DEF HoldsEntries
<1>3. ASSUME NEW r \in Admitted'
      PROVE  relays'[r].admission \in SignedRecord /\ VerifyThreshold(relays'[r].admission, c)
  <2>1. relays'[r] \in rosterFile
    BY <1>1, InsertedFromFile DEF Admitted
  <2>2. relays'[r] \in Entry /\ EntryVerifies(relays'[r], c)
    BY <1>1, <2>1
  <2> QED
    BY <2>2 DEF EntryVerifies, Entry
<1> QED
  BY <1>1, <1>2, <1>3 DEF RosterInv, StillVerifies

\* Without a consortium nothing is verified, and everything is marked so.
LEMMA UnverifiedLoadKeeps ==
  ASSUME RosterInv, LoadUnverified
  PROVE  RosterInv'
<1>1. /\ rosterFile \subseteq Entry /\ relays' = Inserted(rosterFile)
      /\ lab' = {e.record.id : e \in rosterFile}
      /\ consortium' = consortium /\ rosterFile' = rosterFile
  BY DEF LoadUnverified, Load, RosterInv, HoldsEntries
<1>2. HoldsEntries'
  BY <1>1, InsertedFromFile DEF HoldsEntries
<1>3. ASSUME NEW r \in Admitted' PROVE r \in lab'
  <2>1. r \in Relay /\ relays'[r] \in rosterFile /\ relays'[r].record.id = r
    BY <1>1, InsertedFromFile DEF Admitted
  <2> QED
    BY <1>1, <2>1
<1> QED
  BY <1>1, <1>2, <1>3 DEF RosterInv, StillVerifies

LEMMA RosterInvNext == RosterInv /\ [RosterNext]_rosterVars => RosterInv'
<1> SUFFICES ASSUME RosterInv, [RosterNext]_rosterVars PROVE RosterInv'
  OBVIOUS
<1>1. ASSUME NEW s \in Offers, AdmitThresholdSigned(s) \/ AdmitPruned(s) PROVE RosterInv'
  BY <1>1, ThresholdKeeps DEF AdmitPruned
<1>2. ASSUME NEW s \in Offers, NEW a \in Authorities, AdmitSigned(s, a) PROVE RosterInv'
  BY <1>2, SingleKeyKeeps
<1>3. ASSUME NEW id \in Relay, RemoveRelay(id) PROVE RosterInv'
  BY <1>3, RemovalKeeps
<1>4. ASSUME SaveToFile \/ \E f \in Files : PlaceFile(f) PROVE RosterInv'
  BY <1>4, FileKeeps
<1>5. ASSUME NEW c \in Consortia, LoadWithPolicy(c) PROVE RosterInv'
  BY <1>5, VerifiedLoadKeeps
<1>6. ASSUME LoadUnverified PROVE RosterInv'
  BY <1>6, UnverifiedLoadKeeps
<1>7. ASSUME UNCHANGED <<relays, consortium, lab, rosterFile>> PROVE RosterInv'
  BY <1>7 DEF RosterInv, HoldsEntries, StillVerifies, Admitted
<1>8. \/ \E id \in Relay, good \in BOOLEAN : RecordRelayOutcome(id, good)
      \/ \E p \in Rules : SetRules(p)
      \/ ResetRateLimit \/ ClockTicks \/ UNCHANGED rosterVars
      => UNCHANGED <<relays, consortium, lab, rosterFile>>
  BY DEF RecordRelayOutcome, SetRules, ResetRateLimit, ClockTicks, rosterVars
<1> QED
  BY <1>1, <1>2, <1>3, <1>4, <1>5, <1>6, <1>7, <1>8 DEF RosterNext

\* A step that inserts entries with their own records only, or those of the file.
LEMMA RecordsKeptNext == RosterInv /\ RecordsKept /\ [RosterNext]_rosterVars => RecordsKept'
<1> SUFFICES ASSUME RosterInv, RecordsKept, [RosterNext]_rosterVars PROVE RecordsKept'
  OBVIOUS
<1>1. ASSUME NEW s \in Offers, AdmitVerified(s), rosterFile' = rosterFile PROVE RecordsKept'
  <2> DEFINE e == [record |-> s.record, admission |-> s]
  <2>1. relays' = [relays EXCEPT ![s.record.id] = e] /\ relays \in [Relay -> Entry \cup {NoEntry}]
    BY <1>1, AdmittedRecord DEF RosterInv, HoldsEntries
  <2>2. OwnRecord(e)
    BY DEF OwnRecord
  <2>3. ASSUME NEW r \in Admitted' PROVE OwnRecord(relays'[r])
    <3>1. relays'[r] = e \/ (relays'[r] = relays[r] /\ r \in Admitted)
      BY <2>1, <2>3 DEF Admitted
    <3> QED BY <2>2, <3>1 DEF RecordsKept
  <2> QED BY <1>1, <2>3 DEF RecordsKept
<1>2. ASSUME NEW id \in Relay, RemoveRelay(id) PROVE RecordsKept'
  <2>1. relays' = [relays EXCEPT ![id] = NoEntry] /\ relays \in [Relay -> Entry \cup {NoEntry}]
    BY <1>2 DEF RemoveRelay, RosterInv, HoldsEntries
  <2>2. \A r \in Admitted' : relays'[r] = relays[r] /\ r \in Admitted
    BY <2>1 DEF Admitted
  <2> QED BY <1>2, <2>2 DEF RecordsKept, RemoveRelay
<1>3. ASSUME SaveToFile PROVE RecordsKept'
  <2>1. rosterFile' \in {{relays[r] : r \in Admitted}, rosterFile, CutRoster} /\ relays' = relays
    BY <1>3 DEF SaveToFile
  <2> QED BY <2>1 DEF RecordsKept, Admitted
<1>4. ASSUME NEW f \in Files, PlaceFile(f) PROVE RecordsKept'
  <2>1. rosterFile' = f /\ relays' = relays /\ f \subseteq Entry
    BY <1>4, RosterAssumption DEF PlaceFile
  <2>2. \A e \in f : OwnRecord(e)
    BY DEF OwnRecord
  <2> QED BY <2>1, <2>2 DEF RecordsKept, Admitted
<1>5. ASSUME NEW c, NEW verify, Load(c, verify) PROVE RecordsKept'
  <2>1. /\ rosterFile \subseteq Entry /\ rosterFile \notin {NoRosterFile, CutRoster}
        /\ relays' = Inserted(rosterFile) /\ rosterFile' = rosterFile
    BY <1>5 DEF Load, RosterInv, HoldsEntries
  <2>2. \A r \in Admitted' : relays'[r] \in rosterFile
    BY <2>1, InsertedFromFile DEF Admitted
  <2> QED BY <2>1, <2>2 DEF RecordsKept
<1>6. ASSUME UNCHANGED <<relays, rosterFile>> PROVE RecordsKept'
  BY <1>6 DEF RecordsKept, Admitted
<1>7. CASE \E s \in Offers : AdmitThresholdSigned(s) \/ AdmitPruned(s)
  BY <1>1, <1>7 DEF AdmitThresholdSigned, AdmitPruned
<1>8. CASE \E s \in Offers, a \in Authorities : AdmitSigned(s, a)
  BY <1>1, <1>8 DEF AdmitSigned
<1>9. CASE LoadUnverified \/ \E c \in Consortia : LoadWithPolicy(c)
  BY <1>5, <1>9 DEF LoadUnverified, LoadWithPolicy
<1>10. CASE \/ \E id \in Relay, good \in BOOLEAN : RecordRelayOutcome(id, good)
            \/ \E p \in Rules : SetRules(p)
            \/ ResetRateLimit \/ ClockTicks \/ UNCHANGED rosterVars
  BY <1>6, <1>10 DEF RecordRelayOutcome, SetRules, ResetRateLimit, ClockTicks, rosterVars
<1> QED
  BY <1>2, <1>3, <1>4, <1>7, <1>8, <1>9, <1>10 DEF RosterNext

LEMMA RecordsKeptInit == RosterInit => RecordsKept
<1> SUFFICES ASSUME RosterInit PROVE RecordsKept
  OBVIOUS
<1>1. Admitted = {} /\ rosterFile = NoRosterFile
  BY DEF RosterInit, NoRelays, Admitted
<1> QED BY <1>1 DEF RecordsKept

\* Over any number of admissions, torn writes and restarts with other authorities,
\* every entry in the roster has the threshold of different authorities of this process
\* behind its admission, and its record is the one they signed unless the entry is of a
\* file someone else put there (verify_threshold, admit_verified_inner,
\* load_persisted); the doors that promise less apart.
THEOREM EntriesAlwaysBacked == RosterSpec => []ThresholdBehindEntry
<1> QED
  BY RosterInvInit, RosterInvNext, RecordsKeptInit, RecordsKeptNext, RosterInvEnough, PTL
     DEF RosterSpec

-----------------------------------------------------------------------------
\* Scores.  A first score goes to a relay without one, and leaves the others.
Scored == ledger \in [Relay -> Int]

LEMMA OffersAreOfRelays ==
  ASSUME NEW offer \in Offers PROVE offer.record.id \in Relay
BY RosterAssumption DEF SignedRecord, RelayRecord

LEMMA FirstScoreOnly ==
  ASSUME Scored, NEW id \in Relay
  PROVE  /\ AdmitNewRelay(ledger, id) \in [Relay -> Int]
         /\ \A r \in Relay : ledger[r] # Unscored => AdmitNewRelay(ledger, id)[r] = ledger[r]
<1>1. Probationary \in Int
  BY ReputationAssumption DEF Probationary
<1> QED
  BY <1>1 DEF AdmitNewRelay, Scored, Unscored

LEMMA OutcomeScores ==
  ASSUME Scored, NEW id \in Relay, NEW outcome \in 0 .. One
  PROVE  UpdateScore(ledger, id, outcome) \in [Relay -> Int]
<1>1. One \in Nat /\ One # 0 /\ Decay \in Int
  BY ReputationAssumption
<1>2. Score(ledger, id) \in Int
  BY <1>1 DEF Score, Scored, Neutral
<1>3. Ewma(Score(ledger, id), outcome) \in Int
  BY <1>1, <1>2 DEF Ewma
<1> QED
  BY <1>3 DEF UpdateScore, Scored

\* What a step does to the scores: nothing, a first score, or an outcome.
LEMMA ScoresMove ==
  ASSUME Scored, [RosterNext]_rosterVars
  PROVE  /\ Scored'
         /\ \/ updates' = updates + 1
            \/ \A r \in Relay : ledger[r] # Unscored => ledger'[r] = ledger[r]
<1>1. ASSUME NEW s \in Offers, AdmitVerified(s)
      PROVE  Scored' /\ \A r \in Relay : ledger[r] # Unscored => ledger'[r] = ledger[r]
  <2>1. ledger' = AdmitNewRelay(ledger, s.record.id) \/ ledger' = ledger
    BY <1>1 DEF AdmitVerified
  <2> QED
    BY <2>1, OffersAreOfRelays, FirstScoreOnly DEF Scored
<1>2. ASSUME NEW id \in Relay, NEW good \in BOOLEAN, RecordRelayOutcome(id, good)
      PROVE  Scored' /\ updates' = updates + 1
  <2>1. /\ updates' = updates + 1
        /\ ledger' = UpdateScore(ledger, id, IF good THEN One ELSE 0)
    BY <1>2 DEF RecordRelayOutcome
  <2>2. (IF good THEN One ELSE 0) \in 0 .. One
    BY ReputationAssumption
  <2> QED
    BY <2>1, <2>2, OutcomeScores DEF Scored
<1>3. ASSUME \/ \E id \in Relay : RemoveRelay(id)
             \/ \E p \in Rules : SetRules(p)
             \/ \E f \in Files : PlaceFile(f)
             \/ \E c \in Consortia : LoadWithPolicy(c)
             \/ ResetRateLimit \/ SaveToFile \/ LoadUnverified \/ ClockTicks
             \/ UNCHANGED rosterVars
      PROVE  ledger' = ledger
  BY <1>3 DEF RemoveRelay, SetRules, PlaceFile, LoadWithPolicy, Load, ResetRateLimit,
              SaveToFile, LoadUnverified, ClockTicks, rosterVars
<1>4. ASSUME ledger' = ledger
      PROVE  Scored' /\ \A r \in Relay : ledger[r] # Unscored => ledger'[r] = ledger[r]
  BY <1>4 DEF Scored
<1> QED
  BY <1>1, <1>2, <1>3, <1>4 DEF RosterNext, AdmitThresholdSigned, AdmitPruned, AdmitSigned

\* A score that is there moves by an outcome and by nothing else (admit_new_relay,
\* update_score): neither removal and a second admission nor pruning, a load or new
\* rules bring a relay back with the score of an untried one.
THEOREM ScoresAlwaysEarned == RosterSpec => ScoreEarned
<1>1. RosterInit => Scored
  BY DEF RosterInit, EmptyLedger, Scored, Unscored
<1>2. Scored /\ [RosterNext]_rosterVars => Scored'
  BY ScoresMove
<1>3. Scored /\ [RosterNext]_rosterVars =>
        [\A r \in Relay : (ledger[r] # Unscored /\ ledger'[r] # ledger[r]) =>
           updates' = updates + 1]_rosterVars
  BY ScoresMove
<1> QED
  BY <1>1, <1>2, <1>3, PTL DEF RosterSpec, ScoreEarned

-----------------------------------------------------------------------------
\* The rate of admissions.  A new relay is counted against the admissions that can
\* share a window with it, and those have not been thrown away.
StampsTyped ==
  /\ clock \in Nat /\ rules \in Rules
  /\ IsFiniteSet(stamps) /\ IsFiniteSet(admitted)
  /\ \A s \in stamps \cup admitted : s.at \in 0 .. clock

InWindowKept == \A s \in admitted : s.at >= Cutoff(clock) => s \in stamps

\* The stamps of one second are numbered, so a new one is none that is there.
Numbered ==
  \A s \in stamps : s.no \in Nat /\ s.no < Cardinality({q \in stamps : q.at = s.at})

WithinRate ==
  \A t \in Nat : Cardinality({s \in admitted : s.at \in t .. t + rules.window}) <= rules.max

StampsInv == StampsTyped /\ InWindowKept /\ Numbered /\ WithinRate

LEMMA RulesTyped == ASSUME NEW p \in Rules PROVE p.max \in Nat /\ p.window \in Nat
BY RosterAssumption

LEMMA StampsInvEnough == StampsInv => RateLimited
BY RosterAssumption DEF StampsInv, WithinRate, RateLimited

\* Nothing was admitted since the rules or the process changed.
LEMMA NothingAdmitted ==
  ASSUME clock \in Nat, rules \in Rules, IsFiniteSet(stamps), admitted = {}, Numbered,
         \A s \in stamps : s.at \in 0 .. clock
  PROVE  StampsInv
<1>1. IsFiniteSet({}) /\ Cardinality({}) = 0
  BY FS_EmptySet
<1>2. \A t \in Nat : {s \in {} : s.at \in t .. t + rules.window} = {}
  OBVIOUS
<1> QED
  BY <1>1, <1>2, RulesTyped DEF StampsInv, StampsTyped, InWindowKept, WithinRate

LEMMA StampsInvInit == RosterInit => StampsInv
<1> SUFFICES ASSUME RosterInit PROVE StampsInv
  OBVIOUS
<1>1. stamps = {} /\ admitted = {} /\ clock = 0 /\ rules \in Rules
  BY DEF RosterInit
<1>2. IsFiniteSet(stamps) /\ Numbered
  BY <1>1, FS_EmptySet DEF Numbered
<1> QED  BY <1>1, <1>2, NothingAdmitted

LEMMA CutoffTyped ==
  ASSUME StampsTyped
  PROVE  Cutoff(clock) \in Nat /\ Cutoff(clock) <= clock
BY RulesTyped DEF StampsTyped, Cutoff

\* record_admission never stamps two admissions alike: each is counted.
LEMMA NewStampIsNew ==
  ASSUME StampsInv
  PROVE  NewStamp \notin stamps /\ NewStamp \notin admitted
<1> DEFINE n == Cardinality({s \in stamps : s.at = clock})
<1>1. n \in Nat
  <2>1. {s \in stamps : s.at = clock} \in SUBSET stamps
    OBVIOUS
  <2> QED  BY <2>1, FS_Subset, FS_CardinalityType DEF StampsInv, StampsTyped
<1>2. NewStamp.at = clock /\ NewStamp.no = n
  BY DEF NewStamp
<1>3. NewStamp \notin stamps
  <2>1. SUFFICES ASSUME NewStamp \in stamps PROVE FALSE
    OBVIOUS
  <2>2. NewStamp.no < Cardinality({q \in stamps : q.at = NewStamp.at})
    BY <2>1 DEF StampsInv, Numbered
  <2>3. {q \in stamps : q.at = NewStamp.at} = {s \in stamps : s.at = clock}
    BY <1>2
  <2>4. NewStamp.no < n
    BY <2>2, <2>3
  <2> HIDE DEF n
  <2> QED  BY <1>1, <1>2, <2>4
<1>4. clock >= Cutoff(clock)
  BY CutoffTyped DEF StampsInv, StampsTyped
<1> QED
  BY <1>2, <1>3, <1>4 DEF StampsInv, InWindowKept

LEMMA OneMore ==
  ASSUME NEW A, IsFiniteSet(A), NEW e
  PROVE  /\ Cardinality(A) \in Nat /\ Cardinality(A \cup {e}) \in Nat
         /\ Cardinality(A \cup {e}) <= Cardinality(A) + 1
         /\ e \notin A => Cardinality(A \cup {e}) = Cardinality(A) + 1
<1>1. Cardinality(A) \in Nat
  BY FS_CardinalityType
<1>2. CASE e \in A
  <2>1. A \cup {e} = A
    BY <1>2
  <2>2. Cardinality(A \cup {e}) = Cardinality(A)
    BY <2>1
  <2> QED  BY <1>1, <1>2, <2>2
<1>3. CASE e \notin A
  <2>1. Cardinality(A \cup {e}) = Cardinality(A) + 1
    BY <1>3, FS_AddElement
  <2> QED  BY <1>1, <2>1
<1> QED  BY <1>2, <1>3

LEMMA StaysBelow ==
  ASSUME NEW A, IsFiniteSet(A), NEW e, e \notin A,
         NEW no, no = Cardinality(A) \/ (no \in Nat /\ no < Cardinality(A))
  PROVE  no \in Nat /\ no < Cardinality(A \cup {e})
<1>1. /\ Cardinality(A) \in Nat /\ Cardinality(A \cup {e}) = Cardinality(A) + 1
  BY OneMore
<1> QED  BY <1>1

\* One more in a second: the numbers go on.
LEMMA NumbersGoOn ==
  ASSUME StampsInv, NEW T, T = Recent(clock) \cup {NewStamp}
  PROVE  \A s \in T : s.no \in Nat /\ s.no < Cardinality({q \in T : q.at = s.at})
<1> DEFINE S == stamps
           e == NewStamp
           cut == Cutoff(clock)
<1>1. IsFiniteSet(S) /\ e \notin S /\ cut \in Int /\ \A s \in S : s.at \in Int
  BY NewStampIsNew, CutoffTyped DEF StampsInv, StampsTyped
<1>2. /\ e.at \in Int /\ e.at >= cut
      /\ e.no = Cardinality({s \in S : s.at = e.at})
  BY CutoffTyped DEF NewStamp, StampsInv, StampsTyped
<1>3. /\ \A s \in S : s.no \in Nat /\ s.no < Cardinality({q \in S : q.at = s.at})
      /\ T = {s \in S : s.at >= cut} \cup {e}
  BY DEF StampsInv, Numbered, Recent
<1> HIDE DEF S, e, cut
<1> SUFFICES ASSUME NEW s \in T
             PROVE  s.no \in Nat /\ s.no < Cardinality({q \in T : q.at = s.at})
  OBVIOUS
<1> DEFINE A == {q \in S : q.at = s.at}
<1>4. IsFiniteSet(A)
  <2>1. A \in SUBSET S
    OBVIOUS
  <2> HIDE DEF A
  <2> QED  BY <1>1, <2>1, FS_Subset
<1>5. CASE s.at = e.at
  <2>1. {q \in T : q.at = s.at} = A \cup {e}
    BY <1>5, <1>1, <1>2, <1>3
  <2>2. s.no = Cardinality(A) \/ (s.no \in Nat /\ s.no < Cardinality(A))
    <3>1. {q \in S : q.at = e.at} = A
      BY <1>5
    <3>2. CASE s = e
      BY <1>2, <3>1, <3>2
    <3>3. CASE s \in S
      BY <1>3, <3>3
    <3> QED  BY <1>3, <3>2, <3>3
  <2>3. e \notin A
    BY <1>1
  <2> HIDE DEF A
  <2>4. s.no \in Nat /\ s.no < Cardinality(A \cup {e})
    BY <1>4, <2>2, <2>3, StaysBelow
  <2> QED  BY <2>1, <2>4
<1>6. CASE s.at # e.at
  <2>1. s \in S /\ s.at >= cut
    BY <1>3, <1>6
  <2>2. {q \in T : q.at = s.at} = A
    BY <1>2, <1>3, <1>6, <2>1
  <2>3. s.no \in Nat /\ s.no < Cardinality(A)
    BY <1>3, <2>1
  <2> QED  BY <2>2, <2>3
<1> QED  BY <1>5, <1>6

\* The window that a new admission falls into holds only what is still stamped.
LEMMA OneMoreInWindow ==
  ASSUME StampsInv, Cardinality(Recent(clock)) < rules.max, NEW e, e.at = clock,
         NEW t \in Nat
  PROVE  Cardinality({s \in admitted \cup {e} : s.at \in t .. t + rules.window}) <= rules.max
<1> DEFINE A == {s \in admitted : s.at \in t .. t + rules.window}
           B == {s \in admitted \cup {e} : s.at \in t .. t + rules.window}
           R == Recent(clock)
<1>1. rules.max \in Nat /\ rules.window \in Nat /\ clock \in Nat
  BY RulesTyped DEF StampsInv, StampsTyped
<1>2. IsFiniteSet(A) /\ Cardinality(A) \in Nat
  <2>1. A \in SUBSET admitted
    OBVIOUS
  <2> HIDE DEF A
  <2> QED  BY <2>1, FS_Subset, FS_CardinalityType DEF StampsInv, StampsTyped
<1>3. IsFiniteSet(R) /\ Cardinality(R) \in Nat
  <2>1. R \in SUBSET stamps
    BY DEF Recent
  <2> HIDE DEF R
  <2> QED  BY <2>1, FS_Subset, FS_CardinalityType DEF StampsInv, StampsTyped
<1>4. CASE clock \notin t .. t + rules.window
  <2>1. B = A
    BY <1>4
  <2>2. Cardinality(A) <= rules.max
    BY DEF StampsInv, WithinRate
  <2> QED  BY <2>1, <2>2
<1>5. CASE clock \in t .. t + rules.window
  <2>1. t >= Cutoff(clock)
    BY <1>1, <1>5 DEF Cutoff
  <2>2. A \in SUBSET R
    <3> SUFFICES ASSUME NEW s \in A PROVE s \in R
      OBVIOUS
    <3>1. s \in admitted /\ s.at >= t /\ s.at \in 0 .. clock
      BY <1>1 DEF StampsInv, StampsTyped
    <3>2. s.at >= Cutoff(clock)
      BY <1>1, <2>1, <3>1, CutoffTyped DEF StampsInv
    <3> QED  BY <3>1, <3>2 DEF Recent, StampsInv, InWindowKept
  <2>3. B = A \cup {e}
    BY <1>5
  <2> HIDE DEF A, B, R
  <2>4. Cardinality(A) <= Cardinality(R)
    BY <1>3, <2>2, FS_Subset
  <2>5. Cardinality(A \cup {e}) <= Cardinality(A) + 1 /\ Cardinality(A \cup {e}) \in Nat
    BY <1>2, OneMore
  <2>6. Cardinality(R) < rules.max
    BY DEF R
  <2>7. Cardinality(B) <= rules.max
    BY <1>1, <1>2, <1>3, <2>3, <2>4, <2>5, <2>6
  <2> QED  BY <2>7 DEF B
<1> QED  BY <1>4, <1>5

LEMMA StampsInvAdmit ==
  ASSUME StampsInv, NEW offer, AdmitVerified(offer), UNCHANGED <<rules, clock>>
  PROVE  StampsInv'
<1>1. CASE UNCHANGED <<stamps, admitted>>
  BY <1>1 DEF StampsInv, StampsTyped, InWindowKept, Numbered, WithinRate, Cutoff
<1>2. CASE ~UNCHANGED <<stamps, admitted>>
  <2> DEFINE e == NewStamp
             S == Recent(clock) \cup {e}
             A == admitted \cup {e}
  <2>1. stamps' = S /\ admitted' = A /\ Cardinality(Recent(clock)) < rules.max
    BY <1>2 DEF AdmitVerified
  <2>2. e.at = clock /\ e.no = Cardinality({s \in stamps : s.at = clock})
    BY DEF NewStamp
  <2>3. clock \in Nat /\ Cutoff(clock) \in Nat /\ Cutoff(clock) <= clock /\ IsFiniteSet(stamps)
        /\ IsFiniteSet(admitted) /\ Cutoff(clock)' = Cutoff(clock) /\ rules \in Rules
    BY CutoffTyped DEF StampsInv, StampsTyped, Cutoff
  <2>4. Recent(clock) = {s \in stamps : s.at >= Cutoff(clock)}
    BY DEF Recent
  <2> HIDE DEF e
  <2>5. \A s \in S : s.no \in Nat /\ s.no < Cardinality({q \in S : q.at = s.at})
    <3>1. S = Recent(clock) \cup {NewStamp}
      BY DEF e
    <3> HIDE DEF S
    <3> QED  BY <3>1, NumbersGoOn
  <2>6. \A t \in Nat : Cardinality({s \in A : s.at \in t .. t + rules.window}) <= rules.max
    BY <2>1, <2>2, OneMoreInWindow
  <2>7. IsFiniteSet(S) /\ IsFiniteSet(A)
    <3>1. Recent(clock) \in SUBSET stamps
      BY <2>4
    <3>2. IsFiniteSet(Recent(clock))
      BY <2>3, <3>1, FS_Subset
    <3> QED  BY <2>3, <3>2, FS_AddElement
  <2>8. \A s \in S \cup A : s.at \in 0 .. clock
    BY <2>2, <2>3, <2>4 DEF StampsInv, StampsTyped
  <2>9. \A s \in A : s.at >= Cutoff(clock) => s \in S
    BY <2>2, <2>4 DEF StampsInv, InWindowKept
  <2> HIDE DEF S, A
  <2>10. StampsTyped'
    BY <2>1, <2>3, <2>7, <2>8 DEF StampsTyped
  <2>11. InWindowKept' /\ Numbered' /\ WithinRate'
    BY <2>1, <2>3, <2>5, <2>6, <2>9 DEF InWindowKept, Numbered, WithinRate
  <2> QED  BY <2>10, <2>11 DEF StampsInv
<1> QED  BY <1>1, <1>2

\* A second passes: the window moves on, and less has to be kept.
LEMMA StampsInvClock == StampsInv /\ ClockTicks => StampsInv'
<1> SUFFICES ASSUME StampsInv, ClockTicks PROVE StampsInv'
  OBVIOUS
<1>1. clock \in Nat /\ clock' = clock + 1 /\ UNCHANGED <<stamps, admitted, rules>>
  BY DEF StampsInv, StampsTyped, ClockTicks
<1>2. Cutoff(clock)' >= Cutoff(clock) /\ Cutoff(clock) \in Nat /\ Cutoff(clock)' \in Nat
  BY <1>1, RulesTyped DEF StampsInv, StampsTyped, Cutoff
<1>3. StampsTyped'
  BY <1>1 DEF StampsInv, StampsTyped
<1>4. \A s \in admitted : s.at \in Nat
  BY <1>1 DEF StampsInv, StampsTyped
<1>5. InWindowKept'
  BY <1>1, <1>2, <1>4 DEF StampsInv, InWindowKept
<1> QED
  BY <1>1, <1>3, <1>5 DEF StampsInv, Numbered, WithinRate

\* What empties the list of admissions: new rules, a reset and a start.
LEMMA StampsInvForgets ==
  ASSUME StampsInv, admitted' = {}, clock' = clock, rules' \in Rules,
         stamps' \in {{}, stamps}
  PROVE  StampsInv'
<1>1. IsFiniteSet(stamps') /\ \A s \in stamps' : s.at \in 0 .. clock'
  BY FS_EmptySet DEF StampsInv, StampsTyped
<1>2. Numbered'
  BY DEF StampsInv, Numbered
<1>3. \A t \in Nat : {s \in {} : s.at \in t .. t + rules'.window} = {}
  OBVIOUS
<1>4. WithinRate'
  BY <1>3, FS_EmptySet, RulesTyped DEF WithinRate
<1>5. IsFiniteSet(admitted')
  BY FS_EmptySet
<1> QED
  BY <1>1, <1>2, <1>4, <1>5 DEF StampsInv, StampsTyped, InWindowKept

LEMMA StampsInvNext == StampsInv /\ [RosterNext]_rosterVars => StampsInv'
<1> SUFFICES ASSUME StampsInv, [RosterNext]_rosterVars PROVE StampsInv'
  OBVIOUS
<1>1. ASSUME NEW s, AdmitVerified(s), UNCHANGED <<rules, clock>> PROVE StampsInv'
  BY <1>1, StampsInvAdmit
<1>2. ASSUME UNCHANGED <<stamps, admitted, rules, clock>> PROVE StampsInv'
  BY <1>2 DEF StampsInv, StampsTyped, InWindowKept, Numbered, WithinRate, Cutoff
<1>3. CASE \/ \E id \in Relay : RemoveRelay(id)
           \/ \E id \in Relay, good \in BOOLEAN : RecordRelayOutcome(id, good)
           \/ \E f \in Files : PlaceFile(f)
           \/ SaveToFile \/ UNCHANGED rosterVars
  BY <1>2, <1>3 DEF RemoveRelay, RecordRelayOutcome, PlaceFile, SaveToFile, rosterVars
<1>4. CASE \/ \E p \in Rules : SetRules(p)
           \/ \E c \in Consortia : LoadWithPolicy(c)
           \/ ResetRateLimit \/ LoadUnverified
  <2>1. /\ admitted' = {} /\ clock' = clock /\ stamps' \in {{}, stamps}
        /\ rules' \in Rules
    BY <1>4, RosterAssumption
       DEF SetRules, LoadWithPolicy, LoadUnverified, Load, ResetRateLimit, StampsInv, StampsTyped
  <2> QED  BY <2>1, StampsInvForgets
<1>5. CASE \E s \in Offers : AdmitThresholdSigned(s) \/ AdmitPruned(s)
  BY <1>1, <1>5 DEF AdmitThresholdSigned, AdmitPruned
<1>6. CASE \E s \in Offers, a \in Authorities : AdmitSigned(s, a)
  BY <1>1, <1>6 DEF AdmitSigned
<1> QED  BY <1>3, <1>4, <1>5, <1>6, StampsInvClock DEF RosterNext

\* Between a start, a reset or a change of rules and the next, no stretch as long as
\* the window sees more new relays than the rules allow (check_admission_rate_limit,
\* record_admission), though stamps that have left the window are thrown away.
THEOREM AdmissionsKeepToRate == RosterSpec => []RateLimited
BY StampsInvInit, StampsInvNext, StampsInvEnough, PTL DEF RosterSpec
=============================================================================
