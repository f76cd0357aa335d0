----------------------------- MODULE Reputation -----------------------------
(***************************************************************************)
(* The pruning policy of aegis-trust (policy.rs) with the two parts it     *)
(* wires together, the EWMA ledger (reputation.rs) and one anomaly         *)
(* detector for each relay (anomaly.rs), as operators on their state:      *)
(*                                                                         *)
(*   ledger     relay -> score, Unscored when there is no entry            *)
(*   detectors  relay -> [n, mean, var] of its failure rate                *)
(*                                                                         *)
(* Numbers in [0, 1] are floats in the code and multiples of 1/One here,   *)
(* rounded down; a variance is a multiple of 1/One^2.                      *)
(***************************************************************************)
EXTENDS Integers

CONSTANTS
  Relay,      (* relay ids                                                *)
  One,        (* the number of parts 1.0 is cut into                      *)
  Decay,      (* decay of the ledger, in parts of One                     *)
  Alpha,      (* alpha of the detectors, in parts of One                  *)
  ZThreshold, (* z_threshold of the detectors                             *)
  MaxStrikes  (* MAX_ANOMALY_DEMOTION_STRIKES, 32                         *)

\* from_scores wants a decay in (0, 1]; AnomalyDetector::new clamps alpha.
ASSUME ReputationAssumption ==
  /\ One \in Nat \ {0}
  /\ Decay \in 1 .. One
  /\ Alpha \in 1 .. One
  /\ ZThreshold \in Nat
  /\ MaxStrikes \in Nat

Unscored     == -1
Neutral      == One \div 2          (* ReputationScore::NEUTRAL          *)
Probationary == One \div 10         (* ReputationScore::PROBATIONARY     *)
Floor        == (3 * One) \div 10   (* DEFAULT_PATH_REPUTATION_FLOOR     *)

LedgerType   == [Relay -> -1 .. One]
DetectorType == [n : 0 .. 2, mean : 0 .. One, var : 0 .. One * One]
PolicyType   == [ledger : LedgerType, detectors : [Relay -> DetectorType]]

EmptyLedger == [r \in Relay |-> Unscored]

\* AnomalyDetector::new.
FreshDetector == [n |-> 0, mean |-> 0, var |-> 0]

\* with_ledger: the detectors are never saved, a loaded policy starts without.
WithLedger(ledger) ==
  [ledger |-> ledger, detectors |-> [r \in Relay |-> FreshDetector]]

-----------------------------------------------------------------------------
\* reputation.rs.
Score(ledger, r) == IF ledger[r] = Unscored THEN Neutral ELSE ledger[r]

\* Mutant of AdmitNewRelay: the entry is overwritten, not only filled in.
AdmitNewRelayAgain(ledger, r) == [ledger EXCEPT ![r] = Probationary]

AdmitNewRelay(ledger, r) ==
  [ledger EXCEPT ![r] = IF @ = Unscored THEN Probationary ELSE @]

Ewma(score, outcome) == (Decay * score + (One - Decay) * outcome) \div One

\* update; the clamp changes nothing between 0 and 1.
UpdateScore(ledger, r, outcome) ==
  [ledger EXCEPT ![r] = Ewma(Score(ledger, r), outcome)]

RecordAggregate(ledger, r, successes, failures) ==
  LET total == successes + failures
  IN  IF total = 0 THEN ledger
      ELSE UpdateScore(ledger, r, (successes * One) \div total)

-----------------------------------------------------------------------------
\* anomaly.rs.  The counter is only asked whether it has reached 2.
IsAnomalous(d, x) ==
  /\ d.n = 2
  /\ (x - d.mean) * (x - d.mean) > ZThreshold * ZThreshold * d.var

Observe(d, x) ==
  LET delta == x - d.mean
  IN  [n    |-> IF d.n < 2 THEN d.n + 1 ELSE 2,
       mean |-> d.mean + (Alpha * delta) \div One,
       var  |-> ((One - Alpha) * (d.var + (Alpha * delta * delta) \div One))
                  \div One]

-----------------------------------------------------------------------------
\* policy.rs.
\* The score after at most k strikes of demote_relay, which stops below floor.
Struck(score, floor, strikes) ==
  LET after[k \in 0 .. strikes] ==
        IF k = 0 THEN score
        ELSE LET before == after[k - 1]
             IN  IF before < floor THEN before ELSE Ewma(before, 0)
  IN  after[strikes]

DemoteRelay(ledger, r, floor) ==
  IF Score(ledger, r) < floor THEN ledger
  ELSE [ledger EXCEPT ![r] = Struck(Score(ledger, r), floor, MaxStrikes)]

ObserveMetric(policy, r, x) ==
  [ledger    |-> IF IsAnomalous(policy.detectors[r], x)
                 THEN DemoteRelay(policy.ledger, r, Floor) ELSE policy.ledger,
   detectors |-> [policy.detectors EXCEPT ![r] = Observe(@, x)]]

\* feed_peer_metric and feed_peer_outcomes: the anomaly verdict first, then the
\* window as one step of the EWMA.
FailRate(successes, failures) ==
  IF successes + failures = 0 THEN 0
  ELSE (failures * One) \div (successes + failures)

FeedPeerOutcomes(policy, r, successes, failures) ==
  LET observed == ObserveMetric(policy, r, FailRate(successes, failures))
  IN  [observed EXCEPT
         !.ledger = RecordAggregate(@, r, successes, failures)]
=============================================================================
