----------------------------- MODULE NodeStart ------------------------------
(***************************************************************************)
(* The life of an aegis-node process: the node TOML and its checks         *)
(* (config.rs, operator_check.rs), the KEM seeds on disk and in the OS     *)
(* keychain (kem_seed_protect.rs), and the start of main.rs, step by step, *)
(* since a crash may fall between two of its writes.  The build is the     *)
(* default one on Unix (kem-keyring, noise-link).                          *)
(*                                                                         *)
(*   conf     the node TOML on disk, Torn when a write stopped half-way    *)
(*   seeds    kem.seeds: what it holds, and whether only the owner reads it *)
(*   keyring  the keychain entry of this relay, and whether it answers     *)
(*   node     the process: where its start is, the TOML it read, the bytes *)
(*            it is about to write, the identity and settings it runs with *)
(*                                                                         *)
(* A TOML is a record of the settings some check or the start looks at.    *)
(* A KEM identity is one of Key; a drawn one differs from every one still  *)
(* about.  An operator edits one setting at a time.                        *)
(***************************************************************************)
EXTENDS Naturals

CONSTANTS
  BaseConfs,  (* the TOMLs an operator may start from                      *)
  Edits,      (* [field, to]: one setting given another value              *)
  Key, Torn, Absent, Unset, Pointer,
  MaxEdits, MaxFaults   (* bounds of the model                             *)

VARIABLES conf, seeds, keyring, node,
  copy,     (* the operator's own copy of the TOML                         *)
  lastKem,  (* the identity of the last run, Unset before the first        *)
  steady,   (* since that run: the keychain answered, the mode was 0600    *)
  edits, mishaps

nodeVars == <<conf, seeds, keyring, node, copy, lastKem, steady, edits, mishaps>>

-----------------------------------------------------------------------------
(* The settings.                                                           *)

Flags == {"plaintext", "authorities", "unverified", "trace", "coverEnabled", "coverRequire",
          "peerSeeds", "requireCommit", "commitment", "noiseSecret", "gossip", "presencePad"}
Counts == {"threshold", "rate", "padQ"}
Options == {"globalRate", "ingressRate", "ingressGlobal"}
Words == {"relayId", "roster", "defense", "handshake", "gossipSeed", "stores"}

\* NodeConfigFile: every TOML that can be parsed.  The seeds in it are a whole
\* identity or an unfinished section.
Settings ==
  [plaintext : BOOLEAN, authorities : BOOLEAN, unverified : BOOLEAN, trace : BOOLEAN,
   coverEnabled : BOOLEAN, coverRequire : BOOLEAN, peerSeeds : BOOLEAN,
   requireCommit : BOOLEAN, commitment : BOOLEAN, noiseSecret : BOOLEAN,
   gossip : BOOLEAN, presencePad : BOOLEAN,
   threshold : Nat, rate : Nat, padQ : Nat,
   globalRate : Nat \cup {Unset}, ingressRate : Nat \cup {Unset},
   ingressGlobal : Nat \cup {Unset},
   relayId : STRING \cup {Unset}, roster : STRING \cup {Unset},
   defense : STRING \cup {Unset}, handshake : STRING \cup {Unset},
   gossipSeed : STRING \cup {Unset}, stores : STRING \cup {Unset},
   inline : Key \cup {Unset, "partial"}]

\* A torn file cannot be parsed.  The operator edits any setting but the seeds, which
\* only the process writes.
ASSUME NodeStartAssumption ==
  /\ BaseConfs \subseteq Settings /\ Torn \notin Settings
  /\ \A e \in Edits :
       \/ e.field \in Flags /\ e.to \in BOOLEAN
       \/ e.field \in Counts /\ e.to \in Nat
       \/ e.field \in Options /\ e.to \in Nat \cup {Unset}
       \/ e.field \in Words /\ e.to \in STRING \cup {Unset}

\* load_from_file_with_policy: with keys the admissions are verified; without, the
\* roster is taken only in the lab.
LoadRoster(c) ==
  \/ c.roster = Unset
  \/ c.authorities /\ c.threshold = 1 /\ c.roster = "signed"
  \/ ~c.authorities /\ c.unverified

\* validate_production_config, the checks of severity Error: on the seeds ...
SeedsReported(c) == ~c.plaintext /\ c.inline = Unset

\* ... on the roster, if there is one ...
RosterReported(c) ==
  c.roster # Unset => ~c.unverified /\ c.authorities /\ c.threshold >= 1 /\ LoadRoster(c)

\* ... on trace, cover and link ...
TrafficReported(c) ==
  /\ ~c.trace /\ c.coverEnabled /\ c.coverRequire
  /\ c.rate > 0 /\ c.globalRate # 0
  /\ c.requireCommit => c.commitment

\* ... on gossip and the relay id.
IdentityReported(c) == (c.gossip => c.gossipSeed # Unset) /\ c.relayId # "prefixed"

\* ValidationReport::ok.
ReportOk(c) ==
  SeedsReported(c) /\ RosterReported(c) /\ TrafficReported(c) /\ IdentityReported(c)

\* parse_link_handshake_mode and the secret that Noise needs.
HandshakeOk(c) ==
  /\ c.handshake \in {"auto", "legacy_psk", "noise"}
  /\ c.handshake = "noise" => c.noiseSecret

\* CoverFileConfig::into_bulk_cover.
IntoBulkCover(c) == c.defense \in {"baseline", "cover_onions"}

\* ExitConfig::into_settings, read after the relay task has been spawned.
IntoSettings(c) == c.presencePad => c.padQ > 0

\* IngressRateLimitConfig: [ingress] overrides [link], the global rate only by a value.
IngressRate(c) == [cell   |-> IF c.ingressRate # Unset THEN c.ingressRate ELSE c.rate,
                   global |-> IF c.ingressGlobal # Unset THEN c.ingressGlobal
                              ELSE c.globalRate]

\* The terminal of peelable cover onions: a peer whose lab seeds are in the TOML.
CoverTerminal(c) == c.defense = "cover_onions" /\ c.peerSeeds

\* What into_runtime refuses besides missing seeds.  A relay id is "hex", hex with
\* the prefix 0x, which validate takes for too long, or 64 other characters.
RuntimeOk(c) ==
  /\ c.relayId # "not hex"
  /\ c.requireCommit => c.commitment
  /\ LoadRoster(c) /\ HandshakeOk(c) /\ IntoBulkCover(c)

\* What it hands to the relay and the link bridge.
Runtime(c) == [rates |-> IngressRate(c), cover |-> c.coverEnabled /\ c.coverRequire,
               terminal |-> CoverTerminal(c), trace |-> c.trace,
               verified |-> c.roster = Unset \/ c.authorities]

\* resolve_signing_key: a gossip seed that cannot be read stops the start; none at
\* all only turns the emission off.
GossipKeyOk(c) == c.gossip => c.gossipSeed # "unreadable"

\* resolve_operator_keys, load_nullifier_registry, HealthQuorumLog::load_or_create and
\* RelayForwardTrace::spawn: a file the TOML names that cannot be read or made.
StoresOpen(c) == c.stores # "unreadable"

\* RelayNode::spawn and start_bulk_cover: required cover that cannot run.
CoverStarts(c) == c.coverRequire => c.coverEnabled

-----------------------------------------------------------------------------
(* The seeds.                                                              *)

NoSeeds == [holds |-> Absent, private |-> TRUE]

\* unprotect_seed_bytes: a pointer is followed into the keychain.
Unprotect == IF seeds.holds = Pointer
             THEN IF keyring.open THEN keyring.entry ELSE Unset
             ELSE seeds.holds

\* resolve_kem_seeds: inline seeds come before the file; Unset is any error.
ResolveKemSeeds(c) ==
  IF c.inline # Unset
  THEN IF c.inline \in Key THEN c.inline ELSE Unset
  ELSE IF /\ seeds.holds # Absent /\ seeds.private
          /\ Unprotect \in Key
       THEN Unprotect ELSE Unset

Down == [at |-> "down", conf |-> Unset, bytes |-> Unset, kem |-> Unset, run |-> Unset]

NodeInit ==
  /\ conf \in BaseConfs /\ seeds = NoSeeds
  /\ keyring = [open |-> TRUE, entry |-> Unset]
  /\ node = Down /\ copy = conf /\ lastKem = Unset /\ steady = TRUE
  /\ edits = 0 /\ mishaps = 0

\* NodeConfigFile::load.
Load ==
  /\ node.at = "down" /\ conf # Torn
  /\ node' = [Down EXCEPT !.at = "loaded", !.conf = conf]
  /\ UNCHANGED <<conf, seeds, keyring, copy, lastKem, steady, edits, mishaps>>

\* load_or_init_kem finds seeds and leaves everything alone.
KeepSeeds ==
  /\ node.at = "loaded" /\ ResolveKemSeeds(node.conf) # Unset
  /\ node' = [node EXCEPT !.at = "kem"]
  /\ UNCHANGED <<conf, seeds, keyring, copy, lastKem, steady, edits, mishaps>>

\* Mutant of NeedsSeeds: the lab flag alone asks for new ones.
NeedsSeedsInLab(c) == ResolveKemSeeds(c) = Unset \/ c.plaintext

\* When load_or_init_kem makes new seeds: on any failure to resolve the old ones.
NeedsSeeds(c) == ResolveKemSeeds(c) = Unset

InUse == {seeds.holds, keyring.entry, lastKem, node.kem, node.bytes, copy.inline,
          node.conf.inline, IF conf = Torn THEN Unset ELSE conf.inline}

\* generate_kem_seeds: 96 random bytes.
DrawKem == IF Key \subseteq InUse THEN {} ELSE {CHOOSE k \in Key : k \notin InUse}

\* generate_kem_seeds in the lab: the seeds go into the TOML of the process.
GenerateInline ==
  /\ node.at = "loaded" /\ NeedsSeeds(node.conf) /\ node.conf.plaintext
  /\ \E k \in DrawKem : node' = [node EXCEPT !.at = "conf", !.conf.inline = k]
  /\ UNCHANGED <<conf, seeds, keyring, copy, lastKem, steady, edits, mishaps>>

\* generate_kem_seeds and protect_seed_bytes: the secret goes to the keychain and
\* the file will hold a pointer, or the file will hold the secret when the
\* keychain does not answer.
GenerateProtected ==
  /\ node.at = "loaded" /\ NeedsSeeds(node.conf) /\ ~node.conf.plaintext
  /\ \E k \in DrawKem :
       IF keyring.open
       THEN /\ keyring' = [keyring EXCEPT !.entry = k]
            /\ node' = [node EXCEPT !.at = "seeds", !.bytes = Pointer]
       ELSE node' = [node EXCEPT !.at = "seeds", !.bytes = k] /\ UNCHANGED keyring
  /\ UNCHANGED <<conf, seeds, copy, lastKem, steady, edits, mishaps>>

\* write_restricted_file: the mode is given to a file that is created only.
WriteRestricted(bytes) ==
  seeds' = [holds |-> bytes, private |-> seeds.private \/ seeds.holds = Absent]

\* Mutant of PersistSeeds: a half-filled inline section stays.
PersistSeedsOnly ==
  /\ node.at = "seeds" /\ WriteRestricted(node.bytes)
  /\ node' = [node EXCEPT !.at = "conf", !.bytes = Unset]
  /\ UNCHANGED <<conf, keyring, copy, lastKem, steady, edits, mishaps>>

\* persist_kem_seeds_file_with_account, then the inline fields are cleared in memory.
PersistSeeds ==
  /\ node.at = "seeds" /\ WriteRestricted(node.bytes)
  /\ node' = [node EXCEPT !.at = "conf", !.bytes = Unset, !.conf.inline = Unset]
  /\ UNCHANGED <<conf, keyring, copy, lastKem, steady, edits, mishaps>>

\* Mutant of RewriteConf: the TOML on disk keeps what it had.
KeepConf ==
  /\ node.at = "conf" /\ node' = [node EXCEPT !.at = "kem"]
  /\ UNCHANGED <<conf, seeds, keyring, copy, lastKem, steady, edits, mishaps>>

\* The TOML of the process is written over the one on disk.
RewriteConf ==
  /\ node.at = "conf" /\ conf' = node.conf
  /\ node' = [node EXCEPT !.at = "kem"]
  /\ UNCHANGED <<seeds, keyring, copy, lastKem, steady, edits, mishaps>>

\* into_runtime reads the seeds once more and builds the settings; then the tasks
\* are started.
Startable(c) ==
  /\ ResolveKemSeeds(c) # Unset /\ RuntimeOk(c)
  /\ GossipKeyOk(c) /\ StoresOpen(c) /\ CoverStarts(c) /\ IntoSettings(c)

GoUp ==
  /\ node.at = "kem" /\ Startable(node.conf)
  /\ node' = [node EXCEPT !.at = "up", !.kem = ResolveKemSeeds(node.conf),
                          !.run = Runtime(node.conf)]
  /\ lastKem' = ResolveKemSeeds(node.conf) /\ steady' = TRUE
  /\ UNCHANGED <<conf, seeds, keyring, copy, edits, mishaps>>

\* main returns the error.
StartFails ==
  /\ node.at = "kem" /\ ~Startable(node.conf)
  /\ node' = Down
  /\ UNCHANGED <<conf, seeds, keyring, copy, lastKem, steady, edits, mishaps>>

\* ctrl_c, or the process dies between two writes.
Stop ==
  /\ node.at # "down" /\ node' = Down
  /\ mishaps < MaxFaults /\ mishaps' = mishaps + 1
  /\ UNCHANGED <<conf, seeds, keyring, copy, lastKem, steady, edits>>

\* It dies inside a write: the file was truncated.
DiesInWrite ==
  /\ mishaps < MaxFaults /\ mishaps' = mishaps + 1
  /\ node' = Down
  /\ \/ /\ node.at = "seeds" /\ WriteRestricted(Torn) /\ UNCHANGED conf
     \/ /\ node.at = "conf" /\ conf' = Torn /\ UNCHANGED seeds
  /\ UNCHANGED <<keyring, copy, lastKem, steady, edits>>

-----------------------------------------------------------------------------
(* Around the process: the operator and the machine.                       *)

\* The operator edits the TOML and installs what aegis-node validate passes.
Edit ==
  /\ edits < MaxEdits /\ edits' = edits + 1 /\ conf # Torn
  /\ \E e \in Edits :
       LET c == [conf EXCEPT ![e.field] = e.to]
       IN  c # conf /\ ReportOk(c) /\ conf' = c /\ copy' = c
  /\ UNCHANGED <<seeds, keyring, node, lastKem, steady, mishaps>>

\* In the lab nobody asks validate.
EditInLab ==
  /\ edits < MaxEdits /\ edits' = edits + 1 /\ conf # Torn
  /\ \E e \in Edits :
       LET c == [conf EXCEPT ![e.field] = e.to]
       IN  c # conf /\ ~ReportOk(conf) /\ conf' = c /\ copy' = c
  /\ UNCHANGED <<seeds, keyring, node, lastKem, steady, mishaps>>

\* A torn TOML is put right by hand, from the operator's own copy.
Repair ==
  /\ conf = Torn /\ conf' = copy
  /\ UNCHANGED <<seeds, keyring, node, copy, lastKem, steady, edits, mishaps>>

KeyringTurns ==
  /\ keyring.open => mishaps < MaxFaults
  /\ keyring' = [keyring EXCEPT !.open = ~keyring.open]
  /\ mishaps' = IF keyring.open THEN mishaps + 1 ELSE mishaps
  /\ steady' = (steady /\ ~keyring.open)
  /\ UNCHANGED <<conf, seeds, node, copy, lastKem, edits>>

ModeTurns ==
  /\ seeds.holds # Absent
  /\ seeds.private => mishaps < MaxFaults
  /\ seeds' = [seeds EXCEPT !.private = ~seeds.private]
  /\ mishaps' = IF seeds.private THEN mishaps + 1 ELSE mishaps
  /\ steady' = (steady /\ ~seeds.private)
  /\ UNCHANGED <<conf, keyring, node, copy, lastKem, edits>>

Starts == Load \/ KeepSeeds \/ GenerateInline \/ GenerateProtected \/ PersistSeeds
          \/ RewriteConf \/ GoUp \/ StartFails

NodeNext == Starts \/ Stop \/ DiesInWrite \/ Edit \/ EditInLab \/ Repair \/ KeyringTurns
            \/ ModeTurns

-----------------------------------------------------------------------------
\* The identity the disk and the keychain hold for the TOML on disk.
OnDisk == IF conf.inline # Unset THEN conf.inline
          ELSE IF seeds.holds = Pointer THEN keyring.entry ELSE seeds.holds

\* A running node can be started again as the same relay: the identity it peels with
\* is the one its files and the keychain hold, whatever was half-written before and
\* however the TOML was edited (load_or_init_kem persists before into_runtime reads).
Recoverable == node.at = "up" => conf # Torn /\ OnDisk = node.kem

\* Over any stops, crashes inside the start and edits of the TOML the relay keeps its
\* identity, as long as the keychain answered and kem.seeds stayed private: the seeds
\* that load_or_init_kem finds are never replaced.
IdentityKept ==
  [][node.at # "up" /\ node'.at = "up" /\ steady /\ lastKem # Unset => lastKem' = lastKem]_nodeVars

\* With settings the start accepts, a whole TOML and a private seed file the node ends
\* up running, whatever a crash left behind: what one start writes, the next one reads.
ComesUp ==
  <>[](/\ conf # Torn /\ seeds.private
       /\ RuntimeOk(conf) /\ GossipKeyOk(conf) /\ StoresOpen(conf)
       /\ CoverStarts(conf) /\ IntoSettings(conf))
    => []<>(node.at = "up")

\* "Load or create KEM seeds on disk when absent" (config.rs:1057): an identity the
\* relay has run with stays where it was persisted.
SeedsKept == lastKem # Unset /\ conf # Torn => OnDisk = lastKem
=============================================================================
