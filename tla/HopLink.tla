------------------------------ MODULE HopLink ------------------------------
(***************************************************************************)
(* The inbound side of the link bridge of aegis-relay (net.rs) and the     *)
(* callers that connect to it: the connection slots of the listener, the   *)
(* two handshakes over TCP streams, the sealed frames, the ingress rate    *)
(* limit and the reassembly of Sphinx packets (aegis-crypto fragment.rs).  *)
(*                                                                         *)
(*   host      LinkBridgeConfig and the peer table of the listening relay  *)
(*   ini[c]    the caller of connection c: its configuration, where it is  *)
(*             in the handshake, its session key                           *)
(*   rsp[c]    the task of run_inbound_connection for c: where it is, its  *)
(*             key, the matched peer, the local token bucket, the          *)
(*             reassembler; it holds a slot until it is closed             *)
(*   up, down  the two directions of each stream; open[c] is FALSE once    *)
(*             the caller has closed its end                               *)
(*   global    the token bucket all connections share                      *)
(*                                                                         *)
(* A Sphinx packet is its number on the connection, a fragment is a packet *)
(* number (for the random packet id and the payload) and an index.  A tick *)
(* of the clock is the time in which Rate tokens come back.                *)
(***************************************************************************)
EXTENDS LinkAuth, FiniteSetsExt

CONSTANTS
  Conn,
  Scenes,              (* a host and who may call it on each connection    *)
  Fragments,           (* SPHINX_FRAGMENT_COUNT                            *)
  Control,             (* commands the read loop skips or hands on:        *)
                       (* "drop", "cover", "advert", "unknown"             *)
  MaxNow               (* bound of the model, like the cells of a caller   *)

\* A field that is not set is no number and no identity with its commitment.
ASSUME HopLinkAssumption ==
  /\ Fragments \in Nat \ {0} /\ MaxNow \in Nat /\ None \notin Nat
  /\ Control \subseteq {"drop", "cover", "advert", "unknown"}
  /\ \A s \in Scenes :
       /\ s.host.burst \in Nat /\ s.host.rate \in Nat /\ s.host.globalRate \in Nat
       /\ None # [id |-> s.host.id, kem |-> s.host.kem]
       /\ \A c \in Conn : \A k \in s.callers[c] : None # [id |-> k.peer, kem |-> k.kem]

VARIABLES scene, ini, rsp, up, down, open, global, now,
          passed,   (* times at which frames were let through, per Conn    *)
          delivered,(* packets handed to the fair hub, per Conn            *)
          reports   (* outcomes and adverts attributed to a peer           *)

vars == <<scene, ini, rsp, up, down, open, global, now, passed, delivered, reports>>

host == scene.host

Busy(c)  == rsp[c].pc \notin {"idle", "closed"}
Taken    == Cardinality({c \in Conn : Busy(c)})

-----------------------------------------------------------------------------
(* The token buckets.  rate 0 turns a bucket off.                          *)

\* TokenBucket::new.
NewBucket(burst, t) == [tokens |-> IF burst < 1 THEN 1 ELSE burst, last |-> t]

\* Mutant of Refill: last_refill keeps its first value.
RefillFromStart(b, rate, burst, t) ==
  [b EXCEPT !.tokens = Min({@ + (t - b.last) * rate, NewBucket(burst, t).tokens})]

Refill(b, rate, burst, t) ==
  [tokens |-> Min({b.tokens + (t - b.last) * rate, NewBucket(burst, t).tokens}), last |-> t]

\* allow_frame: the local bucket is asked first and keeps nothing for a frame the
\* global bucket then refuses.
AllowFrame(local, shared, t) ==
  LET l  == Refill(local, host.rate, host.burst, t)
      g  == Refill(shared, host.globalRate, host.burst, t)
      askedLocal  == host.rate > 0
      askedGlobal == host.globalRate > 0
      okLocal     == ~askedLocal \/ l.tokens >= 1
      okGlobal    == ~askedGlobal \/ g.tokens >= 1
  IN  [ok     |-> okLocal /\ okGlobal,
       local  |-> IF ~askedLocal THEN local
                  ELSE IF okLocal THEN [l EXCEPT !.tokens = @ - 1] ELSE l,
       global |-> IF ~askedGlobal \/ ~okLocal THEN shared
                  ELSE IF okGlobal THEN [g EXCEPT !.tokens = @ - 1] ELSE g]

-----------------------------------------------------------------------------
(* The reassembler: next expected index, packet id, the slots of the buffer. *)

NewAssembly == [next |-> 0, id |-> None, buf |-> [i \in 0 .. Fragments - 1 |-> None]]

\* Mutant of PushFails: the packet id is not compared.
PushFailsOnIndexOnly(a, cell) == cell.index # a.next

\* PacketIdMismatch or OutOfOrder.
PushFails(a, cell) == a.id \notin {None, cell.packet} \/ cell.index # a.next

Pushed(a, cell) ==
  [next |-> a.next + 1, id |-> cell.packet, buf |-> [a.buf EXCEPT ![cell.index] = cell.packet]]

Complete(a) == a.next = Fragments

-----------------------------------------------------------------------------
IdleCaller == [cfg |-> None, pc |-> "idle", key |-> None, tr |-> None, sent |-> 0,
               packet |-> 1, index |-> 0]
IdleTask   == [pc |-> "idle", init |-> None, key |-> None, peer |-> None,
               local |-> None, asm |-> NewAssembly, why |-> None]

Init ==
  /\ scene \in Scenes
  /\ ini = [c \in Conn |-> IdleCaller] /\ rsp = [c \in Conn |-> IdleTask]
  /\ up = [c \in Conn |-> <<>>] /\ down = [c \in Conn |-> <<>>]
  /\ open = [c \in Conn |-> FALSE]
  /\ global = NewBucket(host.burst, 0) /\ now = 0
  /\ passed = [c \in Conn |-> <<>>] /\ delivered = [c \in Conn |-> <<>>]
  /\ reports = {}

\* The accept loop gives the connection a slot or drops it.
Connect(c, k) ==
  /\ ini[c].pc = "idle"
  /\ ini' = [ini EXCEPT ![c].cfg = k, ![c].pc = "start"]
  /\ open' = [open EXCEPT ![c] = TRUE]
  /\ rsp' = [rsp EXCEPT ![c].pc = IF Taken < host.slots THEN "start" ELSE "closed"]
  /\ UNCHANGED <<scene, up, down, global, now, passed, delivered, reports>>

-----------------------------------------------------------------------------
(* The caller: run_initiator_handshake and the senders on a LinkSession.   *)

\* A write by the caller; what no task will read is not kept.
Write(c, units) ==
  up' = IF rsp[c].pc = "closed" THEN up ELSE [up EXCEPT ![c] = @ \o units]

InitiatorLeft == UNCHANGED <<scene, rsp, global, now, passed, delivered, reports>>

\* The first message, or an error when Noise lacks a key.
InitiatorStart(c) ==
  LET k == ini[c].cfg IN
  /\ ini[c].pc = "start"
  /\ IF ~InitiatorSelectsNoise(k)
     THEN /\ Write(c, Wire(InitMsg(c)))
          /\ ini' = [ini EXCEPT ![c].pc = "resp"] /\ UNCHANGED open
     ELSE IF None \in {k.secret, k.known}
     THEN /\ ini' = [ini EXCEPT ![c].pc = "closed"]
          /\ open' = [open EXCEPT ![c] = FALSE] /\ UNCHANGED up
     ELSE /\ Write(c, Wire(Msg1(c, k.secret, k.known)))
          /\ ini' = [ini EXCEPT ![c].pc = "msg2"] /\ UNCHANGED open
  /\ UNCHANGED down /\ InitiatorLeft

CallerBinding(k) == Binding(k, k.peer, k.kem)

\* The responder's hello: the confirm MAC goes out.
InitiatorReadResp(c) ==
  LET k  == ini[c].cfg
      n  == Units.resp
      tr == Transcript(Wire(InitMsg(c)), SubSeq(down[c], 1, n))
  IN  /\ ini[c].pc = "resp" /\ Len(down[c]) >= n
      /\ down' = [down EXCEPT ![c] = SubSeq(@, n + 1, Len(@))]
      /\ Write(c, Wire(ConfirmMac(k.psk, tr, CallerBinding(k))))
      /\ ini' = [ini EXCEPT ![c].pc = "finish", ![c].tr = tr]
      /\ UNCHANGED open /\ InitiatorLeft

\* The last message of the responder: the session is up, or refused.
InitiatorReadLast(c, pc, n, good, key) ==
  /\ ini[c].pc = pc /\ Len(down[c]) >= n
  /\ down' = [down EXCEPT ![c] = SubSeq(@, n + 1, Len(@))]
  /\ ini' = [ini EXCEPT ![c].pc = IF good THEN "up" ELSE "closed",
                        ![c].key = IF good THEN key ELSE None]
  /\ open' = [open EXCEPT ![c] = good]
  /\ UNCHANGED up /\ InitiatorLeft

InitiatorReadFinish(c) ==
  LET k == ini[c].cfg IN
  InitiatorReadLast(c, "finish", Units.finish,
                    VerifyMac(SubSeq(down[c], 1, Units.finish),
                              FinishMac(k.psk, ini[c].tr, CallerBinding(k))),
                    SessionKey(ini[c].tr))

InitiatorReadMsg2(c) ==
  LET k  == ini[c].cfg
      m1 == Msg1(c, k.secret, k.known)
  IN  InitiatorReadLast(c, "msg2", Units.msg2,
                        ReadsMsg2(SubSeq(down[c], 1, Units.msg2), m1),
                        NoiseKey(Msg2(c, m1)))

\* The caller closes: a read that timed out or met the end of the stream, a
\* dropped session, a lost process.  What it wrote stays in the stream.
CallerCloses(c) ==
  /\ open[c]
  /\ ini' = [ini EXCEPT ![c].pc = "closed"] /\ open' = [open EXCEPT ![c] = FALSE]
  /\ UNCHANGED <<up, down>> /\ InitiatorLeft

\* send_cell of the next fragment of write_packet_on_session.
SendFragment(c) ==
  LET i == ini[c]
      last == i.index = Fragments - 1
  IN  /\ i.pc = "up" /\ i.sent < i.cfg.cells
      /\ Write(c, <<[key |-> i.key, cell |-> [kind |-> "fragment", packet |-> i.packet,
                                               index |-> i.index]]>>)
      /\ ini' = [ini EXCEPT ![c].sent = @ + 1,
                            ![c].index = IF last THEN 0 ELSE @ + 1,
                            ![c].packet = IF last THEN @ + 1 ELSE @]
      /\ UNCHANGED <<down, open>> /\ InitiatorLeft

\* send_cell of a cover, loop, gossip or other cell between two fragments.
SendControl(c, kind) ==
  /\ ini[c].pc = "up" /\ ini[c].sent < ini[c].cfg.cells
  /\ Write(c, <<[key |-> ini[c].key, cell |-> [kind |-> kind]]>>)
  /\ ini' = [ini EXCEPT ![c].sent = @ + 1]
  /\ UNCHANGED <<down, open>> /\ InitiatorLeft

-----------------------------------------------------------------------------
(* The listening task: run_responder_handshake and the read loop.          *)

ResponderLeft == UNCHANGED <<scene, ini, open, now>>
KeepsData     == UNCHANGED <<global, passed, delivered>>

Closed(task, why) == [task EXCEPT !.pc = "closed", !.why = why]

Take(c, n) ==
  up' = [up EXCEPT ![c] = IF rsp'[c].pc = "closed" THEN <<>> ELSE SubSeq(@, n + 1, Len(@))]

\* The checks before any byte is read.
ResponderStart(c) ==
  LET noise == ResponderSelectsNoise(host)
      bad   == \/ host.require /\ (host.kem = None \/ noise)
               \/ noise /\ host.secret = None
  IN  /\ rsp[c].pc = "start"
      /\ rsp' = [rsp EXCEPT ![c] = IF bad THEN Closed(@, "config")
                                   ELSE [@ EXCEPT !.pc = IF noise THEN "msg1" ELSE "init"]]
      /\ Take(c, 0) /\ UNCHANGED <<down, reports>> /\ KeepsData /\ ResponderLeft

ResponderReadInit(c) ==
  LET n == Units.init IN
  /\ rsp[c].pc = "init" /\ Len(up[c]) >= n
  /\ \/ /\ down' = [down EXCEPT ![c] = @ \o Wire(RespMsg(c))]
        /\ rsp' = [rsp EXCEPT ![c].pc = "confirm", ![c].init = SubSeq(up[c], 1, n)]
     \/ ~open[c] /\ rsp' = [rsp EXCEPT ![c] = Closed(@, "write")] /\ UNCHANGED down
  /\ Take(c, n) /\ UNCHANGED reports /\ KeepsData /\ ResponderLeft

Reported(c, peer, what) ==
  IF peer = None THEN {} ELSE {[conn |-> c, peer |-> peer, what |-> what]}

\* The last message goes out: the outcome belongs to the matched peer, and the
\* read loop starts with a full local bucket.  The write may fail once the caller
\* has closed.
Established(c, peer, key, msg) ==
  \/ /\ down' = [down EXCEPT ![c] = @ \o Wire(msg)]
     /\ rsp' = [rsp EXCEPT ![c] = [@ EXCEPT !.pc = "data", !.key = key, !.peer = peer,
                                   !.local = NewBucket(host.burst, now)]]
     /\ reports' = reports \cup Reported(c, peer, "success")
  \/ /\ ~open[c]
     /\ rsp' = [rsp EXCEPT ![c] = Closed(@, "write")]
     /\ reports' = reports \cup Reported(c, peer, "failure")
     /\ UNCHANGED down

Unidentified(c) ==
  rsp' = [rsp EXCEPT ![c] = Closed(@, "unidentified")] /\ UNCHANGED <<down, reports>>

ResponderReadConfirm(c) ==
  LET n  == Units.confirm
      tr == Transcript(rsp[c].init, Wire(RespMsg(c)))
      ms == LegacyMatches(host, SubSeq(up[c], 1, n), tr)
  IN  /\ rsp[c].pc = "confirm" /\ Len(up[c]) >= n
      /\ \/ ms = {} /\ Unidentified(c)
         \/ \E m \in ms :
              Established(c, m.peer, SessionKey(tr),
                          FinishMac(m.psk, tr, Binding(host, host.id, host.kem)))
      /\ Take(c, n) /\ KeepsData /\ ResponderLeft

ResponderReadMsg1(c) ==
  LET n  == Units.msg1
      m1 == up[c][1].of
      ps == NoiseMatches(host, m1.from)
  IN  /\ rsp[c].pc = "msg1" /\ Len(up[c]) >= n
      /\ \/ ~ReadsMsg1(SubSeq(up[c], 1, n), host.secret) /\ Unidentified(c)
         \/ /\ ReadsMsg1(SubSeq(up[c], 1, n), host.secret)
            /\ \/ ps = {} /\ Unidentified(c)
               \/ \E p \in ps : Established(c, p, NoiseKey(Msg2(c, m1)), Msg2(c, m1))
      /\ Take(c, n) /\ KeepsData /\ ResponderLeft

Awaits == [init |-> 3, confirm |-> 2, msg1 |-> 6, data |-> 1]

\* Mutant of ResponderGivesUp: the read loop waits without a time limit.
ResponderGivesUpInHandshake(c) ==
  /\ rsp[c].pc \in DOMAIN Awaits /\ Len(up[c]) < Awaits[rsp[c].pc]
  /\ rsp[c].pc = "data" => ~open[c]
  /\ rsp' = [rsp EXCEPT ![c] = Closed(@, "read")]
  /\ Take(c, 0) /\ UNCHANGED <<down, reports>> /\ KeepsData /\ ResponderLeft

\* read_exact_timeout fails: the bytes do not come in time, or never will.
ResponderGivesUp(c) ==
  /\ rsp[c].pc \in DOMAIN Awaits /\ Len(up[c]) < Awaits[rsp[c].pc]
  /\ rsp' = [rsp EXCEPT ![c] = Closed(@, "read")]
  /\ Take(c, 0) /\ UNCHANGED <<down, reports>> /\ KeepsData /\ ResponderLeft

\* One turn of the read loop: the rate limit, the seal, the command, the
\* reassembler and the fair hub.  A frame over the limit is read and forgotten;
\* try_enqueue fails when the drain of the hub has ended.
ReadFrame(c) ==
  LET task  == rsp[c]
      frame == Head(up[c])
      cell  == frame.cell
      v     == AllowFrame(task.local, global, now)
      kept  == [task EXCEPT !.local = v.local]
      opens == frame.key = task.key
      asm   == Pushed(task.asm, cell)
      Goes(t)   == rsp' = [rsp EXCEPT ![c] = t] /\ UNCHANGED <<delivered, reports>>
      Fragment  == v.ok /\ opens /\ cell.kind = "fragment"
      Assembles == Fragment /\ ~PushFails(task.asm, cell)
  IN  /\ task.pc = "data" /\ up[c] # <<>>
      /\ global' = v.global
      /\ passed' = IF v.ok THEN [passed EXCEPT ![c] = Append(@, now)] ELSE passed
      /\ \/ ~v.ok /\ Goes(kept)
         \/ v.ok /\ opens /\ cell.kind \in {"drop", "cover", "unknown"} /\ Goes(kept)
         \/ /\ v.ok /\ opens /\ cell.kind = "advert"
            /\ rsp' = [rsp EXCEPT ![c] = kept]
            /\ reports' = reports \cup Reported(c, task.peer, "advert") /\ UNCHANGED delivered
         \/ /\ v.ok /\ (~opens \/ (Fragment /\ ~Assembles))
            /\ Goes(Closed(kept, IF opens THEN "fragment" ELSE "open"))
         \/ Assembles /\ ~Complete(asm) /\ Goes([kept EXCEPT !.asm = asm])
         \/ /\ Assembles /\ Complete(asm)
            /\ rsp' = [rsp EXCEPT ![c] = [kept EXCEPT !.asm = NewAssembly]]
            /\ delivered' = [delivered EXCEPT ![c] = Append(@, asm.buf)]
            /\ UNCHANGED reports
         \/ Assembles /\ Complete(asm) /\ Goes(Closed(kept, "hub"))
      /\ Take(c, 1) /\ UNCHANGED down /\ ResponderLeft

Tick ==
  /\ now < MaxNow /\ now' = now + 1
  /\ UNCHANGED <<scene, ini, rsp, up, down, open, global, passed, delivered, reports>>

Responder(c) ==
  \/ ResponderStart(c) \/ ResponderReadInit(c) \/ ResponderReadConfirm(c)
  \/ ResponderReadMsg1(c) \/ ResponderGivesUp(c) \/ ReadFrame(c)

Caller(c) ==
  \/ \E k \in scene.callers[c] : Connect(c, k)
  \/ InitiatorStart(c) \/ InitiatorReadResp(c) \/ InitiatorReadFinish(c)
  \/ InitiatorReadMsg2(c) \/ CallerCloses(c) \/ SendFragment(c)
  \/ \E kind \in Control : SendControl(c, kind)

Next == (\E c \in Conn : Caller(c) \/ Responder(c)) \/ Tick

\* A connection's task is a tokio task whose every read has a time limit; callers
\* owe nothing.
LinkFairness == \A c \in Conn : WF_vars(Responder(c))

Spec == Init /\ [][Next]_vars /\ LinkFairness

-----------------------------------------------------------------------------
\* What reaches the fair hub is a whole packet: every slot of its buffer is from
\* one packet, and packets come in the order they were sent, whatever frames the
\* rate limit took out and whatever cells stood between (SphinxReassembler::push,
\* the read loop).
WholePackets ==
  \A c \in Conn :
    /\ \A i \in 1 .. Len(delivered[c]) : Cardinality(Range(delivered[c][i])) = 1
    /\ \A i, j \in 1 .. Len(delivered[c]) : i < j => delivered[c][i][0] < delivered[c][j][0]

\* The frames let through on some connections in a stretch of time.
PassedOn(conns, t1, t2) ==
  UNION {{c} \X {i \in 1 .. Len(passed[c]) : passed[c][i] \in t1 .. t2} : c \in conns}

\* In no stretch of time are more frames let through than a burst and what came
\* back in it, on one connection and on all of them (TokenBucket, allow_frame).
RateBound ==
  \A t1, t2 \in 0 .. now : t1 <= t2 =>
    LET most(rate) == NewBucket(host.burst, 0).tokens + (t2 - t1) * rate
    IN  /\ host.rate > 0 =>
             \A c \in Conn : Cardinality(PassedOn({c}, t1, t2)) <= most(host.rate)
        /\ host.globalRate > 0 =>
             Cardinality(PassedOn(Conn, t1, t2)) <= most(host.globalRate)

\* A caller that believes its session is up talks to the relay it meant, and both
\* ends have the same key: by the identity and commitment in the MACs, where it
\* binds them, or by the static key it sent message 1 to (link_handshake_binding,
\* run_initiator_handshake, run_responder_handshake).
BoundToPeer ==
  \A c \in Conn : ini[c].pc = "up" =>
    LET k == ini[c].cfg IN
    /\ rsp[c].key = ini[c].key
    /\ InitiatorSelectsNoise(k) => k.known = host.secret
    /\ ~InitiatorSelectsNoise(k) /\ k.binding => k.peer = host.id /\ k.kem = host.kem

\* A connection gives its slot back, whatever its caller does or does not do (the
\* read timeouts; the permit of spawn_inbound_listener).  Callers send a
\* bounded number of cells.
SlotReleased == \A c \in Conn : Busy(c) ~> ~Busy(c)
=============================================================================
