---------------------------- MODULE ReplayWindow ----------------------------
(***************************************************************************)
(* What a replay cache promises, without its containers: a window of the   *)
(* most recently accepted tags.  A tag is answered "fresh" exactly when it *)
(* is outside the window; accepting it puts it at the young end; room is   *)
(* made only at the old end, and only when the window already holds        *)
(* limits.min tags.  The window never holds more than limits.max tags.      *)
(***************************************************************************)
EXTENDS Integers, Sequences

CONSTANTS Tag, NoVerdict

VARIABLES
  limits,  (* [min, max], fixed when the cache is built                     *)
  window,  (* the remembered tags, oldest first                             *)
  verdict  (* the last answer: [tag, fresh], or NoVerdict                   *)

vars == <<limits, window, verdict>>

Remembered == {window[i] : i \in 1 .. Len(window)}

Init == limits \in [min : Nat, max : Nat] /\ window = << >> /\ verdict = NoVerdict

Reject(t) ==
  /\ t \in Remembered
  /\ verdict' = [tag |-> t, fresh |-> FALSE]
  /\ UNCHANGED <<limits, window>>

Accept(t) ==
  /\ t \notin Remembered
  /\ verdict' = [tag |-> t, fresh |-> TRUE]
  /\ \E k \in 0 .. Len(window) :
       /\ k > 0 => Len(window) >= limits.min
       /\ Len(window) - k < limits.max
       /\ window' = Append(SubSeq(window, k + 1, Len(window)), t)
  /\ UNCHANGED limits

\* An epoch rollover (clear) or an explicit advance_epoch.
Rollover ==
  /\ window' = << >>
  /\ verdict' = NoVerdict
  /\ UNCHANGED limits

Next == Rollover \/ \E t \in Tag : Reject(t) \/ Accept(t)

Spec == Init /\ [][Next]_vars
=============================================================================
