------------------------------- MODULE MCTrust -------------------------------
(***************************************************************************)
(* What survives a node on disk: its belief of its peers (NodeTrust) and   *)
(* the admission roster (Roster).  They share no state, so a behaviour     *)
(* plays one of the two and leaves the other at one initial state.         *)
(***************************************************************************)
EXTENDS MCNodeTrust, MCRoster

VARIABLE kept

trustVars == <<kept, vars, rosterVars>>

Plays(x) == kept = x /\ UNCHANGED kept

TrustInit ==
  /\ kept \in {"node", "roster"}
  /\ Init /\ RosterInit
  /\ kept # "node" => mode = "memory"
  /\ kept # "roster" => rules = DefaultRules /\ consortium = [m |-> 1, n |-> <<a3>>]

NodeKept   == Plays("node") /\ Next /\ UNCHANGED rosterVars
RosterKept == Plays("roster") /\ RosterNext /\ UNCHANGED vars

TrustSpec == TrustInit /\ [][NodeKept \/ RosterKept]_trustVars
=============================================================================
