------------------------------ MODULE MCRelay -------------------------------
(***************************************************************************)
(* The two ends of a relay's inbound channel for TLC: the fair inbound hub *)
(* that fills it (FairInbound) and the relay loop that empties it          *)
(* (RelayNode).  A behaviour plays one of them; each has its own model of  *)
(* the other's end of the channel.  Connections are interchangeable, and   *)
(* so are the real packets.                                                *)
(***************************************************************************)
EXTENDS MCFairInbound, RelayNode

VARIABLE part

relayPartsVars == <<part, vars, mixVars>>

RelaySymmetry == ConnSymmetry \cup Permutations(Real)

RelayPartsInit ==
  /\ part \in {"hub", "loop"}
  /\ Init /\ MixInit
  /\ part = "hub" => defense = [plan |-> "baseline", terminal |-> FALSE]

Plays(x) == part = x /\ UNCHANGED part

HubPart  == Plays("hub") /\ Next /\ UNCHANGED mixVars
LoopPart == Plays("loop") /\ MixNext /\ UNCHANGED vars

RelayPartsSpec == RelayPartsInit /\ [][HubPart \/ LoopPart]_relayPartsVars
=============================================================================
