----------------------------- MODULE ClientPath -----------------------------
(***************************************************************************)
(* A client that chooses a path and builds packets for it (aegis-client:   *)
(* path.rs, hops_resolve.rs, send.rs, the command line client), over       *)
(* epochs, while the roster file and the scores change under it.           *)
(*                                                                         *)
(* It resolves its hops either in one call from the configuration          *)
(* (resolve_client_hops) or, as a program that uses the library does, from *)
(* a topology and a policy it has held for a while                         *)
(* (build_client_bound_path, hops_from_bound_path).                        *)
(***************************************************************************)
EXTENDS Topology

CONSTANTS
  Configs,      (* [listed, roster, force, seed, topoSeed, preset, adaptive,  *)
                (* sig, diverse, most, require, raw, addr]                    *)
  Geneses,      (* the rosters to start from                              *)
  Offered,      (* the records [id, jur, kem] admitted later              *)
  NoCommitment, None,
  MaxEpoch, MaxRosterChanges, MaxDemotions   (* bounds of the model       *)

\* The fields of a configuration that seeds are made of are numbers.
ASSUME ClientPathAssumption ==
  /\ \A c \in Configs :
       /\ c.seed \in Nat /\ c.topoSeed \in Nat /\ c.most \in Nat
       /\ c.sig.age \in Nat /\ c.sig.peers \in Nat
  /\ \A g \in Geneses : DOMAIN g \subseteq Relay
  /\ \A rec \in Offered : rec.id \in Relay

VARIABLES
  cfg,       \* the configuration file, cfg.listed its [[hops]]
  roster,    \* the roster file, relay -> [jur, kem]
  ledger,    \* the scores of the client's pruning policy
  epoch,     \* the epoch of the configuration
  topo,      \* the topology the client holds, or None
  hops,      \* the hops it resolved, or None
  link,      \* the relay its connection was authenticated with, or None;
             \* nothing ties it to the hops
  said,      \* what the last call returned
  packet,    \* the last packet that left: its hops and what they were made from
  basis,     \* history: from which the topology and the hops were made
  changes    \* history: how often the roster and the scores changed

pathVars == <<cfg, roster, ledger, epoch, topo, hops, link, said, packet, basis, changes>>

PathInit ==
  /\ cfg \in Configs
  /\ roster \in Geneses /\ ledger = EmptyLedger /\ epoch = 0
  /\ topo = None /\ hops = None /\ link = None /\ said = "none" /\ packet = None
  /\ basis = [topo |-> {}, hops |-> None]
  /\ changes = [roster |-> 0, scores |-> 0]

-----------------------------------------------------------------------------
(* What changes under the client.                                          *)

RosterChanges ==
  /\ changes.roster < MaxRosterChanges
  /\ changes' = [changes EXCEPT !.roster = @ + 1]
  /\ \/ \E r \in DOMAIN roster : roster' = RestrictDomain(roster, LAMBDA q : q # r)
     \/ \E rec \in Offered :
          roster' = [r \in DOMAIN roster \cup {rec.id} |->
                       IF r = rec.id THEN [jur |-> rec.jur, kem |-> rec.kem] ELSE roster[r]]
  /\ UNCHANGED <<cfg, ledger, epoch, topo, hops, link, said, packet, basis>>

\* An anomaly of a relay, as the policy of the client meets it.
ScoreFalls(r) ==
  /\ changes.scores < MaxDemotions
  /\ changes' = [changes EXCEPT !.scores = @ + 1]
  /\ ledger' = DemoteRelay(ledger, r, Floor)
  /\ UNCHANGED <<cfg, roster, epoch, topo, hops, link, said, packet, basis>>

EpochEnds ==
  /\ epoch < MaxEpoch /\ epoch' = epoch + 1
  /\ UNCHANGED <<cfg, roster, ledger, topo, hops, link, said, packet, basis, changes>>

-----------------------------------------------------------------------------
(* Building a path.                                                        *)

Fails(why) == {[said |-> why, path |-> <<>>, guards |-> <<>>]}

\* jurisdiction_policy: 0 when paths need not be diverse.
Most == IF cfg.diverse THEN Max({cfg.most, 1}) ELSE 0

\* build_client_bound_path: what it may return.  packet_index is always 0.
BoundPaths(t, scores) ==
  LET m      == ResolvePolicy(cfg.preset, cfg.adaptive)
      cands  == GuardCandidates(t, scores, Floor)
      guards == PickGuards(cands, GuardSeed(m, cfg.seed, cfg.sig), t.epoch)
      drawn  == PathsThrough(t, EntryGuard(guards, PinMode(m, "StickyPrimary", cfg.sig), 0))
      of(p)  == IF Most = 0 THEN AttemptPlain(p, roster, scores, Floor)
                ELSE AttemptDiverse(p, roster, scores, Floor, Most)
  IN  IF Len(cands) < GuardCount THEN Fails("InsufficientReputation")
      ELSE IF HasEmptyLayer(t) THEN Fails("EmptyLayer")
      ELSE {[said |-> "ok", path |-> p, guards |-> guards] : p \in {p \in drawn : of(p) = "ok"}}
           \cup (IF \E p \in drawn : of(p) = "gone" THEN Fails("RelayNotFound") ELSE {})
           \cup (IF \E p \in drawn : of(p) = "no" THEN Fails("ReputationPathExhausted") ELSE {})

\* kem_registry_from_hops.
Duplicates(listed) == \E i, j \in 1 .. Len(listed) : i # j /\ listed[i].id = listed[j].id
KeyOf(listed, r) == (CHOOSE h \in Range(listed) : h.id = r).key
Listed(listed) == {h.id : h \in Range(listed)}

\* binds_kem_public: a commitment is the name of the key it is of.
BindsKemPublic(com, key) == com = key

\* hops_from_bound_path and hops_from_records, keys looked up in the registry.
HopsOfPath(path) ==
  IF \E i \in 1 .. Len(path) : path[i] \notin Listed(cfg.listed)
  THEN [said |-> "MissingKemRegistryEntry", hops |-> None]
  ELSE IF \E i \in 1 .. Len(path) :
            ~BindsKemPublic(roster[path[i]].kem, KeyOf(cfg.listed, path[i]))
  THEN [said |-> "KemBindingMismatch", hops |-> None]
  ELSE [said |-> "ok",
        hops |-> [i \in 1 .. Len(path) |->
                    [id |-> path[i], key |-> KeyOf(cfg.listed, path[i]), com |-> roster[path[i]].kem]]]

\* The hops of a path, or the error; basis keeps what the path was made from.
TakeHops(t, scores) ==
  \E b \in BoundPaths(t, scores) :
    LET h == IF b.said = "ok" THEN HopsOfPath(b.path) ELSE [said |-> b.said, hops |-> None]
    IN  /\ hops' = h.hops /\ said' = h.said
        /\ basis' = [basis EXCEPT
             !.hops = IF h.said # "ok" THEN None
                      ELSE [path |-> b.path, guards |-> b.guards, layers |-> t.layers,
                            roster |-> roster, scores |-> scores]]

\* An error of a call that resolves: the caller has no hops.
NoHops(why) ==
  /\ said' = why /\ hops' = None
  /\ basis' = [basis EXCEPT !.hops = None]

-----------------------------------------------------------------------------
(* The library client.                                                     *)

\* build_topology and build_topology_reputation_filtered.
BuildHeldTopology(filtered) ==
  LET ids == IF filtered THEN AdmittedAbove(roster, ledger, Floor) ELSE AdmittedSorted(roster)
  IN  /\ IF ids = <<>> THEN said' = "EmptyRoster" /\ UNCHANGED <<topo, basis>>
         ELSE /\ topo' = BuildTopology(ids, epoch, cfg.topoSeed) /\ said' = "ok"
              /\ basis' = [basis EXCEPT !.topo = Range(ids)]
      /\ UNCHANGED <<cfg, roster, ledger, epoch, hops, link, packet, changes>>

ResolveHeld ==
  /\ topo # None
  /\ IF Duplicates(cfg.listed) THEN NoHops("DuplicateRegistryEntry") ELSE TakeHops(topo, ledger)
  /\ UNCHANGED <<cfg, roster, ledger, epoch, topo, link, packet, changes>>

(* The command line client.                                                *)

UseRosterPath ==
  IF cfg.listed # <<>> /\ ~cfg.force THEN FALSE
  ELSE cfg.roster \/ cfg.listed = <<>> \/ cfg.force

\* resolve_roster_hops: a topology and a policy without scores, made for the call.
ResolveRosterHops ==
  IF ~cfg.roster THEN NoHops("RosterRequired")
  ELSE IF cfg.listed = <<>> THEN NoHops("KemRegistryRequired")
  ELSE IF Duplicates(cfg.listed) THEN NoHops("DuplicateRegistryEntry")
  ELSE IF DOMAIN roster = {} THEN NoHops("EmptyRoster")
  ELSE TakeHops(BuildTopology(AdmittedSorted(roster), epoch, cfg.topoSeed), EmptyLedger)

\* explicit_hops_from_config.
ExplicitHops ==
  /\ hops' = [i \in 1 .. Len(cfg.listed) |-> cfg.listed[i]]
  /\ said' = "ok"
  /\ basis' = [basis EXCEPT !.hops = None]

Resolve ==
  /\ IF UseRosterPath THEN ResolveRosterHops ELSE ExplicitHops
  /\ UNCHANGED <<cfg, roster, ledger, epoch, topo, link, packet, changes>>

-----------------------------------------------------------------------------
(* Sending.                                                                *)

\* Mutant of VerifyKemBinding: a commitment only has to be there.
VerifyKemBindingPresent(h) == h.com # NoCommitment \/ ~cfg.require

VerifyKemBinding(h) ==
  IF h.com # NoCommitment THEN BindsKemPublic(h.com, h.key) ELSE ~cfg.require

\* build_packet_with_options.
PacketVerdict ==
  IF Len(hops) < 2 THEN "PathTooShort"
  ELSE IF \A i \in 1 .. Len(hops) : VerifyKemBinding(hops[i]) THEN "ok" ELSE "KemBinding"

\* ClientLink: the caller names the relay at first_hop_addr and its commitment.  The
\* command line names the first of its hops; a program may name any relay.
Nameable == {cfg.addr} \cup (IF hops = None THEN {} ELSE {hops[1]})

\* The handshake binds the relay id and the commitment it was given (LinkAuth).
FirstHopAnswers(named) ==
  /\ cfg.addr # None /\ cfg.addr.id = named.id
  /\ named.com # NoCommitment => BindsKemPublic(named.com, cfg.addr.key)

\* PacedSession::connect comes before the packet, which is built on the session.
Connect ==
  /\ ~cfg.raw /\ link = None
  /\ \E named \in Nameable :
       IF FirstHopAnswers(named) THEN link' = cfg.addr.id /\ said' = "ok"
       ELSE link' = None /\ said' = "Net"
  /\ UNCHANGED <<cfg, roster, ledger, epoch, topo, hops, packet, basis, changes>>

\* PacedSession::shutdown; what happens to cells that wait is in ClientSession.
CloseSession ==
  /\ link # None /\ link' = None
  /\ UNCHANGED <<cfg, roster, ledger, epoch, topo, hops, said, packet, basis, changes>>

Put == packet' = [hops |-> hops, basis |-> basis.hops]

\* send_payload_via_session_with_options takes any hops, at any time of the session.
SendPaced ==
  /\ link # None /\ hops # None
  /\ said' = PacketVerdict
  /\ IF PacketVerdict = "ok" THEN Put ELSE UNCHANGED packet
  /\ UNCHANGED <<cfg, roster, ledger, epoch, topo, hops, link, basis, changes>>

\* send_payload_with_options: the packet first, then a connection for it alone.
SendRaw ==
  /\ hops # None /\ cfg.raw
  /\ \E named \in Nameable :
       said' = IF PacketVerdict # "ok" THEN PacketVerdict
               ELSE IF FirstHopAnswers(named) THEN "ok" ELSE "Net"
  /\ IF said' = "ok" THEN Put ELSE UNCHANGED packet
  /\ UNCHANGED <<cfg, roster, ledger, epoch, topo, hops, link, basis, changes>>

PathNext ==
  \/ RosterChanges \/ EpochEnds
  \/ \E r \in Relay : ScoreFalls(r)
  \/ \E f \in BOOLEAN : BuildHeldTopology(f)
  \/ ResolveHeld \/ Resolve
  \/ Connect \/ CloseSession \/ SendPaced \/ SendRaw

PathSpec == PathInit /\ [][PathNext]_pathVars

-----------------------------------------------------------------------------
(* Properties.                                                             *)

\* build_client_bound_path: a path that was taken has one relay of each layer of its
\* topology and enters by a guard; every relay on it was on the roster and at the
\* floor when the path was made, whatever had changed since the topology was, and
\* with diversity no jurisdiction has more relays than its number.
PathSound ==
  basis.hops # None =>
    LET b   == basis.hops
        jur == [i \in 1 .. Len(b.path) |-> b.roster[b.path[i]].jur]
    IN  /\ Len(b.path) = LayerCount /\ b.path[1] \in Range(b.guards)
        /\ Range(b.guards) \subseteq Range(b.layers[1]) /\ Cardinality(Range(b.guards)) = GuardCount
        /\ \A i \in 1 .. LayerCount :
             /\ b.path[i] \in Range(b.layers[i]) /\ b.path[i] \in DOMAIN b.roster
             /\ Score(b.scores, b.path[i]) >= Floor
        /\ cfg.diverse =>
             \A i \in 1 .. LayerCount :
               Cardinality({k \in 1 .. LayerCount : jur[k] = jur[i]}) <= Max({cfg.most, 1})

\* build_packet_with_options, hops_from_bound_path: each layer of a packet that left is
\* sealed to the key that the hop's commitment is of, a hop without one needs
\* require_kem_binding off, and a packet of a roster path is sealed to the keys that
\* were on that roster, whatever was resolved, connected or changed in between.  That
\* the connection it left on is to its first hop is up to the caller.
PacketBound ==
  packet # None =>
    LET p == packet
    IN  /\ \A i \in 1 .. Len(p.hops) :
             p.hops[i].com \in {p.hops[i].key} \cup (IF cfg.require THEN {} ELSE {NoCommitment})
        /\ p.basis # None =>
             \A i \in 1 .. Len(p.hops) : p.basis.roster[p.hops[i].id].kem = p.hops[i].key
=============================================================================
