----------------------------- MODULE PeerHealth -----------------------------
(***************************************************************************)
(* PeerHealthTracker of aegis-relay/src/peer_health.rs as operators on its *)
(* state:                                                                  *)
(*                                                                         *)
(*   windows  peer -> [ok, fail], the outcomes since the last drain        *)
(*   pending  subject -> the buffered gossip, a set of observations        *)
(*            [reporter, ok, fail, org] with one for each reporter         *)
(*                                                                         *)
(* Failure rates are floats in the code and exact fractions here: a rate   *)
(* is compared by cross-multiplication.  A diversity key (org, then        *)
(* jurisdiction, then one of the reporter's own) is a value of Org.        *)
(***************************************************************************)
EXTENDS Reputation, FiniteSets, FiniteSetsExt

CONSTANTS
  Org,           (* diversity keys                                        *)
  OrgOf,         (* reporter -> gossip_diversity_key of its peer entry    *)
  MajorityK,     (* majority_k, 4                                         *)
  MinOrgs,       (* min_orgs, 2                                           *)
  EclipseDetect, (* eclipse_detect                                        *)
  LocalMinSamples, (* eclipse_local_min_samples, 8                        *)
  MinSamples,    (* DEFAULT_MIN_SAMPLES, 4                                *)
  MaxCount       (* the counters saturate: u64::MAX                       *)

\* The fractions of the policy in hundredths: baseline 0.10 and gap 0.45.
HonestBaseline == 10
MedianGap      == 45

\* sanitize raises both quorum numbers to 1.
ASSUME PeerHealthAssumption ==
  /\ OrgOf \in [Relay -> Org \cup Relay]
  /\ MajorityK \in Nat \ {0} /\ MinOrgs \in Nat \ {0}
  /\ EclipseDetect \in BOOLEAN
  /\ LocalMinSamples \in Nat /\ MinSamples \in Nat /\ MaxCount \in Nat \ {0}

Count       == 0 .. MaxCount
Window      == [ok : Count, fail : Count]
\* Without a label a reporter is a diversity key of its own (rid:...).
Observation == [reporter : Relay, ok : Count, fail : Count, org : Org \cup Relay]
TrackerType == [windows : [Relay -> Window], pending : [Relay -> SUBSET Observation]]

EmptyWindow == [ok |-> 0, fail |-> 0]
NewTracker  == [windows |-> [r \in Relay |-> EmptyWindow],
                pending |-> [r \in Relay |-> {}]]

SaturatingAdd(x, y) == IF x + y > MaxCount THEN MaxCount ELSE x + y
Samples(w) == SaturatingAdd(w.ok, w.fail)

\* record_success and record_failure.
RecordOutcome(tracker, peer, good) ==
  IF good
  THEN [tracker EXCEPT !.windows[peer].ok = SaturatingAdd(@, 1)]
  ELSE [tracker EXCEPT !.windows[peer].fail = SaturatingAdd(@, 1)]

\* apply_gossip_outcomes at the weight 1/2 its only callers give it.
ApplyGossipOutcomes(tracker, peer, ok, fail) ==
  [tracker EXCEPT !.windows[peer] =
     [ok |-> SaturatingAdd(@.ok, ok \div 2),
      fail |-> SaturatingAdd(@.fail, fail \div 2)]]

-----------------------------------------------------------------------------
\* median_outcome_counts: the median failure rate and the mean sample total of
\* the observations that have samples, as counts.
Sampled(obs) == {o \in obs : Samples(o) > 0}

RateBelow(a, b)   == a.fail * Samples(b) < b.fail * Samples(a)
RateAtMost(a, b)  == a.fail * Samples(b) <= b.fail * Samples(a)

\* An observation that stands at place k of obs sorted by failure rate.
AtPlace(obs, k) ==
  CHOOSE o \in obs : /\ Cardinality({p \in obs : RateBelow(p, o)}) < k
                     /\ Cardinality({p \in obs : RateAtMost(p, o)}) >= k

MedianRate(obs) ==
  LET n    == Cardinality(obs)
      high == AtPlace(obs, (n \div 2) + 1)
      low  == AtPlace(obs, n \div 2)
  IN  IF n % 2 = 1 THEN [num |-> high.fail, den |-> Samples(high)]
      ELSE [num |-> low.fail * Samples(high) + high.fail * Samples(low),
            den |-> 2 * Samples(low) * Samples(high)]

\* f64::round of num / den: halves go up.
Rounded(num, den) == (2 * num + den) \div (2 * den)

HasMedian(obs) == Sampled(obs) # {}

MedianOutcomeCounts(obs) ==
  LET sampled == Sampled(obs)
      total   == Rounded(MapThenSumSet(LAMBDA o : Samples(o), sampled),
                         Cardinality(sampled))
      rate    == MedianRate(sampled)
      fail    == Rounded(rate.num * total, rate.den)
  IN  [ok |-> total - fail, fail |-> fail]

-----------------------------------------------------------------------------
\* eclipse_heuristic_quarantine for the rate fail / total.
EclipseQuarantine(tracker, subject, median) ==
  LET local    == tracker.windows[subject]
      samples  == Samples(local)
      total    == Samples(median)
      trusted  == samples > 0 /\ samples >= LocalMinSamples
  IN  IF trusted
      THEN 100 * median.fail * samples >= (100 * local.fail + MedianGap * samples) * total
      ELSE 100 * median.fail >= (HonestBaseline + MedianGap) * total

Orgs(obs) == {o.org : o \in obs}

\* finish_median_merge: [tracker, outcome].  Without a sample there is no median,
\* and the answer is still Applied.
FinishMedianMerge(tracker, subject, obs) ==
  LET median == MedianOutcomeCounts(obs)
  IN  IF ~HasMedian(obs) THEN [tracker |-> tracker, outcome |-> "Applied"]
      ELSE IF EclipseDetect /\ EclipseQuarantine(tracker, subject, median)
      THEN [tracker |-> tracker, outcome |-> "Quarantined"]
      ELSE [tracker |-> ApplyGossipOutcomes(tracker, subject, median.ok, median.fail),
            outcome |-> "Applied"]

\* Mutant of ApplyQuorumMedian: the diversity gate counts reporters.
ApplyQuorumMedianAnyOrg(tracker, subject, obs) ==
  IF Cardinality(obs) < MinOrgs
  THEN [tracker |-> tracker, outcome |-> "WaitingDiversity"]
  ELSE FinishMedianMerge(tracker, subject, obs)

ApplyQuorumMedian(tracker, subject, obs) ==
  IF Cardinality(Orgs(obs)) < MinOrgs
  THEN [tracker |-> tracker, outcome |-> "WaitingDiversity"]
  ELSE FinishMedianMerge(tracker, subject, obs)

\* A reporter's observation replaces the one it had in the buffer.
Buffered(obs, o) == {p \in obs : p.reporter # o.reporter} \cup {o}

\* ingest_gossip_observation, the merge of a node that keeps no quorum log.
IngestObservation(tracker, subject, o) ==
  LET obs  == Buffered(tracker.pending[subject], o)
      kept == [tracker EXCEPT !.pending[subject] = obs]
  IN  IF Cardinality(obs) < MajorityK
      THEN [tracker |-> kept, outcome |-> "Buffered"]
      ELSE IF Cardinality(Orgs(obs)) < MinOrgs
      THEN [tracker |-> kept, outcome |-> "WaitingDiversity"]
      ELSE FinishMedianMerge([tracker EXCEPT !.pending[subject] = {}], subject, obs)

-----------------------------------------------------------------------------
\* drain_into_policy: every window with enough samples is fed and emptied.
Drained(tracker) == {r \in Relay : Samples(tracker.windows[r]) >= MinSamples}

\* Mutant of ResetDrained: the windows are left as they are.
ResetNothing(tracker) == tracker

ResetDrained(tracker) ==
  [tracker EXCEPT !.windows = [r \in Relay |->
     IF r \in Drained(tracker) THEN EmptyWindow ELSE tracker.windows[r]]]

\* Each peer's feed touches its own score and detector only, so the order in
\* which the HashMap yields the peers does not matter.
FeedDrained(policy, tracker) ==
  LET fed(r) == FeedPeerOutcomes(policy, r, tracker.windows[r].ok,
                                 tracker.windows[r].fail)
  IN  [ledger    |-> [r \in Relay |-> IF r \in Drained(tracker)
                                      THEN fed(r).ledger[r] ELSE policy.ledger[r]],
       detectors |-> [r \in Relay |-> IF r \in Drained(tracker)
                                      THEN fed(r).detectors[r] ELSE policy.detectors[r]]]
=============================================================================
