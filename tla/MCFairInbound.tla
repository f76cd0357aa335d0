---------------------------- MODULE MCFairInbound ---------------------------
(* Instances of FairInbound for TLC.                                       *)
EXTENDS FairInbound, TLC

ConnSymmetry == Permutations(Conn)

(* No sample yet, a peer that mostly fails, a peer that never does: the    *)
(* weights 1, 1 and MaxWeight.                                             *)
SomeHealth == {[ok |-> 0, fail |-> 0], [ok |-> 1, fail |-> 7], [ok |-> 3, fail |-> 0]}
=============================================================================
