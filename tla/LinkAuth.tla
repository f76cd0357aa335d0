------------------------------ MODULE LinkAuth ------------------------------
(***************************************************************************)
(* What the two handshakes of a hop link compute (aegis-crypto link.rs and *)
(* noise_link.rs, the selection rules of net.rs).  A stream is a sequence  *)
(* of 16-byte units: a reader takes a number of units and parses them, so  *)
(* a message of the other protocol is cut where read_exact cuts it.        *)
(*                                                                         *)
(* Hashes and MACs are injective: a MAC is the record of what it is over.  *)
(* A static key pair is named by its secret.  An ephemeral key and nonce   *)
(* are the connection's own, and a session key is the transcript it is     *)
(* derived from.                                                           *)
(***************************************************************************)
EXTENDS Integers, Sequences, FiniteSets, Functions

CONSTANTS
  Peer,    (* relay ids                                                    *)
  None     (* an optional field that is not set                            *)

\* Message lengths in units: 48, 48, 32, 32, 96 and 48 bytes.
Units == [init |-> 3, resp |-> 3, confirm |-> 2, finish |-> 2, msg1 |-> 6, msg2 |-> 3]

\* The units of one message on the wire.
Wire(m) == [i \in 1 .. Units[m.type] |-> [of |-> m, at |-> i]]

\* link_handshake_init_write, link_handshake_resp_write.
InitMsg(c) == [type |-> "init", conn |-> c]
RespMsg(c) == [type |-> "resp", conn |-> c]

\* from_messages; any 48 bytes parse as a hello.
Transcript(init, resp) == [init |-> init, resp |-> resp]

\* Mutant of Binding: only a relay that has a commitment is bound.
BindingIfCommitted(cfg, id, kem) ==
  IF ~cfg.binding \/ kem = None THEN None ELSE [id |-> id, kem |-> kem]

\* link_handshake_binding and what enters the MAC of it.
Binding(cfg, id, kem) ==
  IF ~cfg.binding THEN None ELSE [id |-> id, kem |-> kem]

\* handshake_mac: the role is in the message type.
Mac(type, psk, tr, binding) ==
  [type |-> type, psk |-> psk, tr |-> tr, binding |-> binding]

ConfirmMac(psk, tr, binding) == Mac("confirm", psk, tr, binding)
FinishMac(psk, tr, binding)  == Mac("finish", psk, tr, binding)

\* verify_handshake_mac over the units that were read.
VerifyMac(units, mac) == units = Wire(mac)

\* derive_link_session_key.
SessionKey(tr) == tr

\* derive_noise_static_secret of a pre-shared key.
DerivedStatic(psk) == [derived |-> psk]

\* noise_ik_initiator_write_msg1 from a secret to a remote static key.
Msg1(c, secret, remote) == [type |-> "msg1", conn |-> c, from |-> secret, to |-> remote]

\* noise_ik_responder_read_msg1: decrypts only what was sent to this static key,
\* and only as it was sent.
ReadsMsg1(units, secret) ==
  units # <<>> /\ units[1].of.type = "msg1" /\ units = Wire(units[1].of)
  /\ units[1].of.to = secret

\* Message 2 and the key, both over the whole handshake hash.
Msg2(c, msg1) == [type |-> "msg2", conn |-> c, msg1 |-> msg1]
NoiseKey(m2)  == m2

\* noise_ik_initiator_read_msg2.
ReadsMsg2(units, msg1) ==
  units # <<>> /\ units[1].of.type = "msg2" /\ units = Wire(units[1].of)
  /\ units[1].of.msg1 = msg1

\* initiator_selects_noise.
InitiatorSelectsNoise(cfg) ==
  \/ cfg.mode = "Noise"
  \/ cfg.mode = "Auto" /\ cfg.secret # None /\ cfg.known # None

\* responder_selects_noise.
ResponderSelectsNoise(cfg) ==
  cfg.mode = "Noise" \/ (cfg.mode = "Auto" /\ cfg.secret # None)

\* The static key the responder expects of a peer of its table.
ExpectedStatic(entry) ==
  IF entry.static # None THEN entry.static ELSE DerivedStatic(entry.psk)

\* The static key of the shared ingress, None when there is no ingress.
IngressStatic(cfg) ==
  IF cfg.ingressStatic # None THEN cfg.ingressStatic
  ELSE IF cfg.ingress # None THEN DerivedStatic(cfg.ingress) ELSE None

\* Whom a responder takes the holder of a static key for: the ingress (None)
\* before the peers, and of the peers any with that key (a HashMap has no order).
NoiseMatches(cfg, static) ==
  IF static = IngressStatic(cfg) THEN {None}
  ELSE {p \in DOMAIN cfg.table : ExpectedStatic(cfg.table[p]) = static}

\* The same for the units of a confirm MAC, with the key that matched.
LegacyMatches(cfg, units, tr) ==
  LET b == Binding(cfg, cfg.id, cfg.kem)
  IN  IF cfg.ingress # None /\ VerifyMac(units, ConfirmMac(cfg.ingress, tr, b))
      THEN {[peer |-> None, psk |-> cfg.ingress]}
      ELSE {[peer |-> p, psk |-> cfg.table[p].psk] :
              p \in {q \in DOMAIN cfg.table :
                       VerifyMac(units, ConfirmMac(cfg.table[q].psk, tr, b))}}
=============================================================================
