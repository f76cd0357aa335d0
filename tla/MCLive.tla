------------------------------- MODULE MCLive -------------------------------
(***************************************************************************)
(* What must eventually happen, on small instances for TLC: the relay loop *)
(* and the round controller that waits for it (RelayNode), and the driver  *)
(* of a client's session and the owner that waits for it (ClientSession).  *)
(* They share no state: a behaviour plays one of them, under the fairness  *)
(* of its module, and the other never steps.                               *)
(***************************************************************************)
EXTENDS RelayNode, ClientSession

VARIABLE part

liveVars == <<part, vars, mixVars>>

Both == {TRUE, FALSE}

LiveInit ==
  /\ part \in {"relay", "client"}
  /\ Init /\ MixInit
  /\ part = "relay" => coverZero

\* A step of one part, which leaves the other alone.
Relay  == part = "relay" /\ UNCHANGED <<part, vars>>
Client == part = "client" /\ UNCHANGED <<part, mixVars>>

RelayPart  == Relay /\ MixNext
ClientPart == Client /\ Next

\* The fairness of the two modules.  What is played never changes, so a disjunction of
\* actions of different parts is fair to the one that is there.
LiveFairness ==
  /\ SF_liveVars((Relay /\ HandleBegin) \/ (Client /\ ReceiveCell))
  /\ SF_liveVars((Relay /\ HandleEnd) \/ (Client /\ TickBegins))
  /\ SF_liveVars(\/ Relay /\ (RejectPacket \/ RejectReplay \/ PeelPacket)
                 \/ Client /\ DriverBreaks)
  /\ WF_liveVars((Relay /\ Forward) \/ (Client /\ OwnerStep))
  /\ WF_liveVars((Relay /\ EmitCover) \/ (Client /\ (TickEnds \/ TickFails)))
  /\ WF_liveVars((Relay /\ EmitFails) \/ (Client /\ DriverFlushes))
  /\ WF_liveVars((Relay /\ TakeOutbound) \/ (Client /\ CoverTimePasses))
  /\ WF_liveVars(Relay /\ TakeCover)
  /\ WF_liveVars(Relay /\ CallReturns)

LiveSpec == LiveInit /\ [][RelayPart \/ ClientPart]_liveVars /\ LiveFairness
=============================================================================
