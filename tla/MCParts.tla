------------------------------ MODULE MCParts -------------------------------
(***************************************************************************)
(* Parts that share no state: the replay cache, the path a client builds,  *)
(* the start of the node process, reputation credentials, the key          *)
(* ceremony and the threshold beacon.  A behaviour plays one of them and   *)
(* leaves the others at one initial state.                                 *)
(***************************************************************************)
EXTENDS ReplayCache, ClientPath, NodeStart, Credentials, Ceremony, Beacon

CONSTANTS k1, k2, k3, k4, k5, k9, us, de

VARIABLE scene

partsVars == <<scene, cacheVars, pathVars, nodeVars, credVars, cerVars, beaconVars>>

(* NodeStart *)
Production ==
  [plaintext |-> FALSE, inline |-> Unset, relayId |-> "hex", roster |-> "signed",
   authorities |-> TRUE, threshold |-> 1, unverified |-> FALSE, trace |-> FALSE,
   coverEnabled |-> TRUE, coverRequire |-> TRUE, defense |-> "baseline",
   peerSeeds |-> FALSE, rate |-> 1, globalRate |-> 1, ingressRate |-> Unset,
   ingressGlobal |-> Unset, requireCommit |-> FALSE, commitment |-> FALSE,
   handshake |-> "auto", noiseSecret |-> FALSE, gossip |-> FALSE, gossipSeed |-> Unset,
   presencePad |-> FALSE, padQ |-> 1, stores |-> "ok"]
Lab == [Production EXCEPT !.plaintext = TRUE, !.roster = Unset]
HalfFilled == [Production EXCEPT !.inline = "partial"]
MCBaseConfs == {Production, Lab, HalfFilled}
To(f, v) == [field |-> f, to |-> v]
MCEdits == {To("plaintext", TRUE), To("handshake", "noise"), To("noiseSecret", TRUE),
            To("requireCommit", TRUE), To("ingressRate", 0), To("roster", "forged"),
            To("defense", "cover_onions"), To("coverEnabled", FALSE)}

(* Ceremony *)
P(n, m, w, s, t) == [n |-> n, m |-> m, write |-> w, shares |-> s, needed |-> t]
MCSeeds == {{1}, {0, 2}}
MCParams == {P(1, 1, FALSE, 3, 2), P(1, 1, TRUE, 2, 2), P(2, 2, TRUE, 0, 0), P(1, 2, TRUE, 0, 0)}

(* ClientPath *)
MCDraw(seed, step, n) == (seed * 3 + step * 5) % n
MCRoll(age) == (age * 37) % 100

Own == <<k1, k2, k3, k4, k5>>
Jur == <<us, us, de, de, us>>
Of(S) == [r \in S |-> [jur |-> Jur[r], kem |-> Own[r]]]
MCGeneses == {Of(Relay), Of({1})}
\* A relay that left and came back elsewhere; a relay whose key was replaced.
MCOffered == {[id |-> 2, jur |-> de, kem |-> k2], [id |-> 3, jur |-> de, kem |-> k9]}

Entry(r, key, com) == [id |-> r, key |-> key, com |-> com]
All(c) == [r \in Relay |-> Entry(r, Own[r], c)]
Quiet == [age |-> 0, anomaly |-> FALSE, peers |-> 0]
Base == [listed |-> All(NoCommitment), roster |-> TRUE, force |-> TRUE, seed |-> 1, topoSeed |-> 2,
         preset |-> "none", adaptive |-> FALSE, sig |-> Quiet, diverse |-> FALSE, most |-> 0,
         require |-> TRUE, raw |-> FALSE, addr |-> Entry(1, k1, k1)]
MCConfigs ==
  {Base,
   [Base EXCEPT !.diverse = TRUE, !.preset = "adaptive_v3", !.sig.age = 3, !.raw = TRUE,
                !.addr = Entry(4, k4, k4)],
   [Base EXCEPT !.adaptive = TRUE, !.sig.peers = 2, !.addr = None],
   [Base EXCEPT !.force = FALSE, !.require = FALSE,
                !.listed = <<Entry(1, k1, k1), Entry(2, k9, k2)>>],
   [Base EXCEPT !.force = FALSE, !.roster = FALSE,
                !.listed = <<Entry(1, k1, k1), Entry(2, k2, k2)>>],
   [Base EXCEPT !.force = FALSE, !.raw = TRUE, !.listed = <<Entry(1, k1, NoCommitment)>>],
   [Base EXCEPT !.listed = <<Entry(1, k1, k1), Entry(1, k1, k1)>>],
   [Base EXCEPT !.listed = <<>>]}

(* Beacon *)
MCPool == <<"a", "b", "c">>
MCDealings == {<<{0, 2}, {1}>>}
MCDraws == [v \in Byte, i \in 1 .. 3 |-> Cardinality(v) + i]

-----------------------------------------------------------------------------
Plays(s) == scene = s /\ UNCHANGED scene

PartsInit ==
  /\ scene \in {"replay", "path", "node", "credentials", "ceremony", "beacon"}
  /\ CacheInit /\ PathInit /\ NodeInit /\ CredInit /\ CerInit /\ BeaconInit
  /\ scene # "replay" => cache = NewReplayCache(2)
  /\ scene # "path" => cfg = Base /\ roster = Of(Relay)
  /\ scene # "node" => conf = Production
  /\ scene # "credentials" => \A h \in Holder : score[h] = 0
  /\ scene # "beacon" => group = {0, 2}

ReplayScene ==
  /\ Plays("replay") /\ CacheNext
  /\ UNCHANGED <<pathVars, nodeVars, credVars, cerVars, beaconVars>>

PathScene ==
  /\ Plays("path") /\ PathNext
  /\ UNCHANGED <<cacheVars, nodeVars, credVars, cerVars, beaconVars>>

NodeScene ==
  /\ Plays("node") /\ NodeNext
  /\ UNCHANGED <<cacheVars, pathVars, credVars, cerVars, beaconVars>>

CredScene ==
  /\ Plays("credentials") /\ CredNext
  /\ UNCHANGED <<cacheVars, pathVars, nodeVars, cerVars, beaconVars>>

CerScene ==
  /\ Plays("ceremony") /\ CerNext
  /\ UNCHANGED <<cacheVars, pathVars, nodeVars, credVars, beaconVars>>

BeaconScene ==
  /\ Plays("beacon") /\ BeaconNext
  /\ UNCHANGED <<cacheVars, pathVars, nodeVars, credVars, cerVars>>

PartsSpec ==
  /\ PartsInit /\ [][ReplayScene \/ PathScene \/ NodeScene \/ CredScene \/ CerScene \/ BeaconScene]_partsVars
  /\ WF_partsVars(NodeScene /\ Starts)

-----------------------------------------------------------------------------
\* ComesUp of NodeStart, where the node is what is played: with settings the start
\* accepts, a whole TOML and a private seed file the node ends up running, whatever a
\* crash left behind (load_or_init_kem, then into_runtime; restarted by its supervisor).
NodeComesUp == scene = "node" => ComesUp
=============================================================================
