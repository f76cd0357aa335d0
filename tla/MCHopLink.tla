----------------------------- MODULE MCHopLink -----------------------------
(***************************************************************************)
(* The link bridge of a relay for TLC, but for the outbound dispatcher:    *)
(* inbound connections, the gossip and cover dispatchers and the exit      *)
(* sink.  They share no state, so a behaviour plays one of the three and   *)
(* leaves the others idle.                                                 *)
(***************************************************************************)
EXTENDS HopLink, Dispatchers, ExitSink, TLC

CONSTANTS c1, c2, h, p, q, k1, k2, k3, s1, s2, s3, kem1

VARIABLE part

bridgeVars == <<part, vars, dispVars, sinkVars>>

Entry(psk, static) == [psk |-> psk, static |-> static]

\* The relay h knows the peers p (key k1, static s1) and q (key k2 only) and has a
\* shared ingress key k3.
Relay(mode, secret, kem) ==
  [id |-> h, kem |-> kem, require |-> FALSE, binding |-> TRUE, mode |-> mode,
   secret |-> secret, ingress |-> k3, ingressStatic |-> None,
   table |-> (p :> Entry(k1, s1)) @@ (q :> Entry(k2, None)),
   rate |-> 1, burst |-> 2, globalRate |-> 2, slots |-> 1]

Legacy(psk, peer, kem) ==
  [mode |-> "Auto", secret |-> None, known |-> None, psk |-> psk, peer |-> peer,
   kem |-> kem, binding |-> TRUE, cells |-> 1]
Noise(secret, known) ==
  [Legacy(k3, h, None) EXCEPT !.mode = "Noise", !.secret = secret, !.known = known]
Long(k) == [k EXCEPT !.cells = 5]

MCCallers ==
  {Legacy(k1, h, kem1), Legacy(k3, h, None), Legacy(k2, q, None),
   Noise(s1, s3), Noise(DerivedStatic(k2), s3), Noise(DerivedStatic(k3), s3),
   Noise(s2, s3), Noise(s1, s2), Noise(s1, None),
   [Legacy(k2, h, None) EXCEPT !.binding = FALSE]}

MCHosts ==
  {Relay("Auto", None, kem1), Relay("LegacyPsk", s3, None), Relay("Auto", s3, kem1),
   [Relay("Noise", s3, None) EXCEPT !.ingress = None, !.ingressStatic = s2],
   [Relay("Noise", s3, kem1) EXCEPT !.require = TRUE],
   [Relay("Auto", None, None) EXCEPT !.require = TRUE],
   [Relay("Auto", None, None) EXCEPT !.binding = FALSE, !.ingress = None]}

\* Every host with every caller; two callers for one slot; two senders under both
\* limits; one sender under its own limit.
MCScenes ==
  {[host |-> r, callers |-> (c1 :> {k}) @@ (c2 :> {})] : r \in MCHosts, k \in MCCallers}
  \cup {[host |-> Relay("Auto", None, None),
          callers |-> (c1 :> {Legacy(k1, h, None)}) @@ (c2 :> {Legacy(k2, h, None)})],
         [host |-> [Relay("Noise", s3, None) EXCEPT !.slots = 2, !.rate = 2, !.globalRate = 1],
          callers |-> (c1 :> {[Noise(s1, s3) EXCEPT !.cells = 3]}) @@ (c2 :> {Noise(DerivedStatic(k2), s3)})],
         [host |-> [Relay("Noise", s3, None) EXCEPT !.globalRate = 0],
          callers |-> (c1 :> {Long(Noise(s1, s3))}) @@ (c2 :> {})]}

NobodyCalls == [host |-> Relay("Auto", None, None), callers |-> (c1 :> {}) @@ (c2 :> {})]
MCAllScenes == MCScenes \cup {NobodyCalls}

MCPeerTables == {<<>>, <<p>>}

MCPadSettings ==
  {[enabled |-> e, deliver |-> d, log |-> FALSE, q |-> 3, rate |-> 55] : e, d \in BOOLEAN}
  \cup {[enabled |-> TRUE, deliver |-> TRUE, log |-> TRUE, q |-> 0, rate |-> 100]}

-----------------------------------------------------------------------------
Plays(x) == part = x /\ UNCHANGED part

BridgeInit ==
  /\ part \in {"inbound", "lanes", "exit"}
  /\ Init /\ DispInit /\ SinkInit
  /\ (part = "inbound") # (scene = NobodyCalls)
  /\ part # "lanes" => table = <<>>
  /\ part # "exit" => pad.enabled /\ ~pad.deliver

InboundPart == Plays("inbound") /\ Next /\ UNCHANGED <<dispVars, sinkVars>>
LanesPart   == Plays("lanes") /\ DispNext /\ UNCHANGED <<vars, sinkVars>>
ExitPart    == Plays("exit") /\ SinkNext /\ UNCHANGED <<vars, dispVars>>

BridgeSpec ==
  /\ BridgeInit /\ [][InboundPart \/ LanesPart \/ ExitPart]_bridgeVars
  /\ LinkFairness /\ DispFairness
=============================================================================
