---------------------------- MODULE ClientProofs ----------------------------
(***************************************************************************)
(* What a client does with cells, packets, paths and credentials, proved:  *)
(* CellsAccounted of module ClientSession, for packets of any number of    *)
(* fragments, queues of any length and any number of sends; PacketBound    *)
(* and PathSound of module ClientPath, for every set of relays, every      *)
(* configuration, roster and number of layers and guards, and any draws of *)
(* the seeded generator; and SavedStaysSpent of module Credentials, for    *)
(* every set of relays, verifier nodes, epochs and bands.                  *)
(***************************************************************************)
EXTENDS ClientSession, ClientPath, Credentials, FiniteSetTheorems, SequenceTheorems,
        WellFoundedInduction, TLAPS

-----------------------------------------------------------------------------
(***************************************************************************)
(* Cells of a session.                                                     *)
(***************************************************************************)
SessionTypeOK ==
  /\ sends \in Nat /\ fragment \in Nat /\ accepted \in Nat /\ dropped \in Nat
  /\ channel \in Seq([packet : Nat, fragment : Nat])
  /\ backlog \in Seq([packet : Nat, fragment : Nat])
  /\ writing \in Seq([packet : Nat, fragment : Nat])
  /\ wire \in Seq([packet : Nat, fragment : Nat])

\* Between two ticks no cell is being written.  TakeCell puts a new cell there without
\* a look at what it replaces, so this is what keeps one from being lost.
NothingHalfWritten == driver = "running" => writing = << >>

SessionInv == SessionTypeOK /\ NothingHalfWritten /\ CellsAccounted

LEMMA FourLengths ==
  ASSUME NEW S, NEW a \in Seq(S), NEW b \in Seq(S), NEW c \in Seq(S), NEW d \in Seq(S)
  PROVE  Len(a \o b \o c \o d) = Len(a) + Len(b) + Len(c) + Len(d)
<1>1. a \o b \in Seq(S) /\ Len(a \o b) = Len(a) + Len(b)
  OBVIOUS
<1>2. (a \o b) \o c \in Seq(S) /\ Len((a \o b) \o c) = Len(a) + Len(b) + Len(c)
  BY <1>1
<1>3. QED
  BY <1>2

\* CellsAccounted in numbers, now and after a step.
Queued == Len(wire) + Len(writing) + Len(backlog) + Len(channel)

LEMMA AccountedIs ==
  ASSUME SessionTypeOK
  PROVE  CellsAccounted <=> accepted = Queued + dropped
BY FourLengths DEF SessionTypeOK, CellsAccounted, Line, Queued

LEMMA AccountedIsNext ==
  ASSUME SessionTypeOK'
  PROVE  CellsAccounted' <=> accepted' = Queued' + dropped'
BY FourLengths DEF SessionTypeOK, CellsAccounted, Line, Queued

LEMMA SessionInvInit == Init => SessionInv
<1> SUFFICES ASSUME Init PROVE SessionInv
  OBVIOUS
<1>1. SessionTypeOK
  BY ClientSessionAssumption DEF Init, SessionTypeOK
<1>2. CellsAccounted
  BY <1>1, AccountedIs DEF Init, Queued
<1>3. QED
  BY <1>1, <1>2 DEF Init, SessionInv, NothingHalfWritten

\* A cell moves from the head of one queue to the end of another.
LEMMA HeadMoves ==
  ASSUME NEW S, NEW from \in Seq(S), NEW to \in Seq(S), from # << >>
  PROVE  /\ Tail(from) \in Seq(S) /\ Append(to, Head(from)) \in Seq(S)
         /\ Len(Tail(from)) = Len(from) - 1
         /\ Len(Append(to, Head(from))) = Len(to) + 1
         /\ << Head(from) >> \in Seq(S) /\ Len(<< Head(from) >>) = 1
OBVIOUS

LEMMA SessionInvNext == SessionInv /\ [Next]_vars => SessionInv'
<1> SUFFICES ASSUME SessionInv, [Next]_vars PROVE SessionInv'
  OBVIOUS
<1> DEFINE Cells == [packet : Nat, fragment : Nat]
<1>a. accepted = Queued + dropped
  BY AccountedIs DEF SessionInv
<1>b. SUFFICES /\ SessionTypeOK' /\ NothingHalfWritten'
               /\ accepted' = Queued' + dropped'
  BY AccountedIsNext DEF SessionInv
<1>c. Len(channel) \in Nat /\ Len(backlog) \in Nat /\ Len(writing) \in Nat /\ Len(wire) \in Nat
  BY DEF SessionInv, SessionTypeOK
<1>1. CASE EnqueueCell
  <2>1. [packet |-> sends, fragment |-> fragment + 1] \in Cells
    BY DEF SessionInv, SessionTypeOK
  <2>2. channel' \in Seq(Cells) /\ Len(channel') = Len(channel) + 1
    BY <1>1, <2>1 DEF EnqueueCell, OnChannel, SessionInv, SessionTypeOK
  <2>3. UNCHANGED << sends, driver, backlog, writing, wire, dropped >>
        /\ fragment' = fragment + 1 /\ accepted' = accepted + 1
    BY <1>1 DEF EnqueueCell, emitterVars
  <2>4. QED
    BY <1>a, <1>c, <2>2, <2>3 DEF SessionInv, SessionTypeOK, NothingHalfWritten, Queued
<1>2. CASE ReceiveCell
  <2>1. channel # << >> /\ channel' = Tail(channel)
        /\ UNCHANGED << sends, fragment, accepted, driver, writing, wire >>
    BY <1>2 DEF ReceiveCell, ownerVars
  <2>2. Tail(channel) \in Seq(Cells) /\ Len(Tail(channel)) = Len(channel) - 1
        /\ Append(backlog, Head(channel)) \in Seq(Cells)
        /\ Len(Append(backlog, Head(channel))) = Len(backlog) + 1
    <3>1. channel \in Seq(Cells) /\ backlog \in Seq(Cells)
      BY DEF SessionInv, SessionTypeOK
    <3>2. channel # << >>
      BY <2>1
    <3> HIDE DEF Cells
    <3> QED
      BY <3>1, <3>2, HeadMoves
  <2>3. CASE backlog' = Append(backlog, Head(channel)) /\ UNCHANGED dropped
    BY <1>a, <1>c, <2>1, <2>2, <2>3
    DEF SessionInv, SessionTypeOK, NothingHalfWritten, Queued
  <2>4. CASE dropped' = dropped + 1 /\ UNCHANGED backlog
    BY <1>a, <1>c, <2>1, <2>2, <2>4
    DEF SessionInv, SessionTypeOK, NothingHalfWritten, Queued
  <2>5. QED
    BY <1>2, <2>3, <2>4 DEF ReceiveCell, Enqueued, Refuse
<1>3. CASE TickBegins
  <2>1. writing = << >> /\ driver' = "ticking"
        /\ UNCHANGED << sends, fragment, accepted, channel, wire, dropped >>
    BY <1>3 DEF TickBegins, ownerVars, SessionInv, NothingHalfWritten
  <2>2. CASE backlog # << >> /\ writing' = << Head(backlog) >> /\ backlog' = Tail(backlog)
    <3>1. /\ backlog' \in Seq(Cells) /\ Len(backlog') = Len(backlog) - 1
          /\ writing' \in Seq(Cells) /\ Len(writing') = 1
      BY <2>2, HeadMoves DEF SessionInv, SessionTypeOK
    <3>2. QED
      BY <1>a, <1>c, <2>1, <3>1 DEF SessionInv, SessionTypeOK, NothingHalfWritten, Queued
  <2>3. CASE backlog = << >> /\ writing' = << >> /\ UNCHANGED backlog
    BY <1>a, <1>c, <2>1, <2>3 DEF SessionInv, SessionTypeOK, NothingHalfWritten, Queued
  <2>4. QED
    BY <1>3, <2>2, <2>3 DEF TickBegins, TakeCell
<1>4. CASE TickEnds
  <2>1. wire' \in Seq(Cells) /\ Len(wire') = Len(wire) + Len(writing)
        /\ writing' = << >> /\ Len(writing') = 0
    BY <1>4 DEF TickEnds, SessionInv, SessionTypeOK
  <2>2. UNCHANGED << sends, fragment, accepted, channel, backlog, dropped >>
    BY <1>4 DEF TickEnds, ownerVars
  <2>3. QED
    BY <1>a, <1>c, <2>1, <2>2 DEF SessionInv, SessionTypeOK, NothingHalfWritten, Queued
<1>5. CASE /\ UNCHANGED << accepted, channel, backlog, writing, wire, dropped >>
           /\ sends' \in Nat /\ fragment' \in Nat
           /\ driver' = "running" => driver = "running"
  BY <1>a, <1>5 DEF SessionInv, SessionTypeOK, NothingHalfWritten, Queued
<1>6. ASSUME BeginSend \/ SendFails \/ BeginWait \/ WaitEnds \/ BeginDrain \/ DrainProceeds
              \/ Shutdown \/ ShutdownReturns \/ DropSession \/ TickFails \/ DriverBreaks
              \/ DriverFlushes \/ CoverTimePasses \/ UNCHANGED vars
      PROVE  /\ UNCHANGED << accepted, channel, backlog, writing, wire, dropped >>
             /\ sends' \in Nat /\ fragment' \in Nat
             /\ driver' = "running" => driver = "running"
  <2> USE DEF SessionInv, SessionTypeOK, emitterVars, ownerVars
  <2>1. CASE BeginSend
    BY <2>1 DEF BeginSend
  <2>2. CASE SendFails \/ BeginWait \/ WaitEnds \/ BeginDrain \/ DrainProceeds
             \/ Shutdown \/ ShutdownReturns \/ DropSession
    BY <2>2 DEF SendFails, BeginWait, WaitEnds, BeginDrain, DrainProceeds, Shutdown,
                ShutdownReturns, DropSession
  <2>3. CASE TickFails \/ DriverBreaks \/ DriverFlushes \/ CoverTimePasses
    BY <2>3 DEF TickFails, DriverBreaks, DriverFlushes, CoverTimePasses
  <2>4. CASE UNCHANGED vars
    BY <2>4 DEF vars
  <2>5. QED
    BY <1>6, <2>1, <2>2, <2>3, <2>4
<1>7. QED
  BY <1>1, <1>2, <1>3, <1>4, <1>5, <1>6 DEF Next, OwnerCalls, OwnerStep, DriverStep

\* Every cell the session accepted is in one of the queues, on the wire, or counted as
\* refused by the emitter (enqueue_fragments, try_push_real, next_cell), in every state
\* of every session.
THEOREM CellsAlwaysAccounted == Spec => []CellsAccounted
<1>1. SessionInv => CellsAccounted
  BY DEF SessionInv
<1>2. QED
  BY <1>1, SessionInvInit, SessionInvNext, PTL DEF Spec

-----------------------------------------------------------------------------
(***************************************************************************)
(* Credentials and the registries that see them.                           *)
(***************************************************************************)
\* The registry looks at the epoch and the nullifier of a credential only.
Presentations == {Present(s, b) : s \in Nat, b \in Nat}

Bindings == {CanonicalBinding(e, b, p, n) : e \in Epoch, b \in Nat, p \in Presentations,
                                            n \in Nullifier}

Request == [epoch : Epoch, band : Band, presentation : Presentations, nullifier : Nullifier]

Credential == [epoch : Epoch, band : Band, presentation : Presentations,
               nullifier : Nullifier, by : {Issuer, Other}, sig : Bindings]

CredTypeOK ==
  /\ score \in [Holder -> 0 .. MaxScore]
  /\ requests \subseteq Request /\ creds \subseteq Credential
  /\ up \in [Verifier -> BOOLEAN]
  /\ used \in [Verifier -> SUBSET Spent]
  /\ regFile \in [Verifier -> (SUBSET Spent) \cup {RegAbsent, RegTorn}]
  /\ saved \in [Verifier -> SUBSET Spent]
  /\ spends \in [Verifier -> [Spent -> Nat]]

\* What is saved is in the file and, while the node runs, in memory; a node does not run
\* over a torn file.
Backed(v) ==
  /\ regFile[v] = RegAbsent => saved[v] = {}
  /\ regFile[v] \in SUBSET Spent => saved[v] \subseteq regFile[v]
  /\ up[v] => saved[v] \subseteq used[v] /\ regFile[v] # RegTorn

CredInv == CredTypeOK /\ \A v \in Verifier : Backed(v)

LEMMA NotAFile == RegTorn # RegAbsent /\ RegTorn \notin SUBSET Spent /\ RegAbsent \notin SUBSET Spent
BY CredentialsAssumption

LEMMA CredInvInit == CredInit => CredInv
BY NotAFile DEF CredInit, CredInv, CredTypeOK, Backed

\* Issuing, mixing and moving scores leave the registries alone.
RegistryVars == <<up, used, regFile, saved, spends>>

LEMMA SignedTyped ==
  ASSUME NEW e \in Epoch, NEW band \in Band, NEW p \in Presentations, NEW n \in Nullifier
  PROVE  Signed(e, band, p, n) \in Credential
<1>1. CanonicalBinding(e, band, p, n) \in Bindings
  BY CredentialsAssumption DEF Bindings
<1>2. QED
  BY <1>1 DEF Signed, Credential

LEMMA PresentTyped ==
  ASSUME NEW s \in Nat, NEW band \in Band PROVE Present(s, band) \in Presentations
BY CredentialsAssumption DEF Presentations

LEMMA NullifierTyped ==
  ASSUME NEW h \in Holder, NEW e \in Epoch, NEW b \in Blinding
  PROVE  DeriveNullifier(h, e, b) \in Nullifier
BY DEF DeriveNullifier, Nullifier

LEMMA MixedTyped ==
  ASSUME NEW c \in Credential, NEW field, NEW to,
         \/ field = "nullifier" /\ to \in Nullifier
         \/ field = "epoch" /\ to \in Epoch
         \/ field = "band" /\ to \in Band
         \/ field = "by" /\ to = Other
  PROVE  [c EXCEPT ![field] = to] \in Credential
<1>1. CASE field = "nullifier" /\ to \in Nullifier
  <2>1. [c EXCEPT !["nullifier"] = to] \in Credential
    BY <1>1 DEF Credential
  <2>2. QED
    BY <1>1, <2>1
<1>2. CASE field = "epoch" /\ to \in Epoch
  <2>1. [c EXCEPT !["epoch"] = to] \in Credential
    BY <1>2 DEF Credential
  <2>2. QED
    BY <1>2, <2>1
<1>3. CASE field = "band" /\ to \in Band
  <2>1. [c EXCEPT !["band"] = to] \in Credential
    BY <1>3 DEF Credential
  <2>2. QED
    BY <1>3, <2>1
<1>4. CASE field = "by" /\ to = Other
  <2>1. [c EXCEPT !["by"] = Other] \in Credential
    BY DEF Credential
  <2>2. QED
    BY <1>4, <2>1
<1>5. QED
  BY <1>1, <1>2, <1>3, <1>4

LEMMA CredentialsTyped ==
  ASSUME CredInv, CredNext
  PROVE  /\ score' \in [Holder -> 0 .. MaxScore]
         /\ requests' \subseteq Request /\ creds' \subseteq Credential
<1> DEFINE Typed == /\ score' \in [Holder -> 0 .. MaxScore]
                    /\ requests' \subseteq Request /\ creds' \subseteq Credential
<1>a. /\ score \in [Holder -> 0 .. MaxScore]
      /\ requests \subseteq Request /\ creds \subseteq Credential
  BY DEF CredInv, CredTypeOK
<1>s. \A h \in Holder : score[h] \in Nat
  BY <1>a, CredentialsAssumption
<1>1. ASSUME NEW h \in Holder, NEW s \in 0 .. MaxScore, ScoreMoves(h, s) PROVE Typed
  BY <1>1, <1>a DEF ScoreMoves
<1>2. ASSUME NEW h \in Holder, NEW e \in Epoch, NEW b \in Blinding, NEW band \in Band,
             Issue(h, e, b, band)
      PROVE  Typed
  <2> DEFINE c == Signed(e, band, Present(score[h], band), DeriveNullifier(h, e, b))
  <2>1. c \in Credential
    BY <1>s, SignedTyped, PresentTyped, NullifierTyped
  <2>2. creds' = creds \cup {c} /\ UNCHANGED <<score, requests>>
    BY <1>2 DEF Issue
  <2> HIDE DEF c
  <2>3. QED
    BY <1>a, <2>1, <2>2
<1>3. ASSUME NEW h \in Holder, NEW e \in Epoch, NEW b \in Blinding, NEW band \in Band,
             BuildBlindedRequest(h, e, b, band)
      PROVE  Typed
  <2> DEFINE q == [epoch |-> e, band |-> band, presentation |-> Present(score[h], band),
                   nullifier |-> DeriveNullifier(h, e, b)]
  <2>1. q \in Request
    BY <1>s, PresentTyped, NullifierTyped DEF Request
  <2>2. requests' = requests \cup {q} /\ UNCHANGED <<score, creds>>
    BY <1>3 DEF BuildBlindedRequest
  <2> HIDE DEF q
  <2>3. QED
    BY <1>a, <2>1, <2>2
<1>4. ASSUME NEW q \in requests, IssueBlinded(q) PROVE Typed
  <2> DEFINE c == Signed(q.epoch, q.band, q.presentation, q.nullifier)
  <2>1. /\ q.epoch \in Epoch /\ q.band \in Band /\ q.presentation \in Presentations
        /\ q.nullifier \in Nullifier
    BY <1>a DEF Request
  <2>2. c \in Credential
    BY <2>1, SignedTyped
  <2>3. creds' = creds \cup {c} /\ requests' \subseteq requests /\ UNCHANGED score
    BY <1>4 DEF IssueBlinded
  <2> HIDE DEF c
  <2>4. QED
    BY <1>a, <2>2, <2>3
<1>5. ASSUME NEW c \in creds, NEW field, NEW to, Mixed(c, field, to),
             \/ field = "nullifier" /\ to \in Nullifier
             \/ field = "epoch" /\ to \in Epoch
             \/ field = "band" /\ to \in Band
             \/ field = "by" /\ to = Other
      PROVE  Typed
  <2> DEFINE d == [c EXCEPT ![field] = to]
  <2>1. d \in Credential
    BY <1>a, <1>5, MixedTyped
  <2>2. creds' = {d} \cup creds /\ UNCHANGED <<score, requests>>
    BY <1>5 DEF Mixed
  <2> HIDE DEF d
  <2>3. QED
    BY <1>a, <2>1, <2>2
<1>6. ASSUME UNCHANGED <<score, requests, creds>> PROVE Typed
  BY <1>6, <1>a
<1>7. ASSUME RegistryStep PROVE Typed
  <2>1. UNCHANGED <<score, requests, creds>>
    BY <1>7 DEF RegistryStep, VerifyAndSpend, SaveRegistry, VerifierDies, VerifierStarts,
                RemoveTorn, MergeFrom, RotateEpoch
  <2>2. QED
    BY <2>1, <1>6
<1>8. ASSUME Mixing PROVE Typed
  BY <1>8, <1>5 DEF Mixing
<1>9. ASSUME Issuing PROVE Typed
  <2>1. ASSUME NEW h \in Holder, NEW s \in 0 .. MaxScore, ScoreMoves(h, s) PROVE Typed
    BY <2>1, <1>1
  <2>2. ASSUME NEW h \in Holder, NEW e \in Epoch, NEW b \in Blinding, NEW band \in Band,
               Issue(h, e, b, band) \/ BuildBlindedRequest(h, e, b, band)
        PROVE  Typed
    BY <2>2, <1>2, <1>3
  <2>3. ASSUME NEW q \in requests, IssueBlinded(q) PROVE Typed
    BY <2>3, <1>4
  <2> HIDE DEF Typed
  <2>4. QED
    BY <1>9, <2>1, <2>2, <2>3 DEF Issuing
<1> HIDE DEF Typed
<1>10. Typed
  BY <1>7, <1>8, <1>9 DEF CredNext
<1>11. QED
  BY <1>10 DEF Typed

LEMMA CredInvNext == CredInv /\ [CredNext]_credVars => CredInv'
<1> SUFFICES ASSUME CredInv, [CredNext]_credVars PROVE CredInv'
  OBVIOUS
<1> DEFINE Rest == /\ up' \in [Verifier -> BOOLEAN]
                   /\ used' \in [Verifier -> SUBSET Spent]
                   /\ regFile' \in [Verifier -> (SUBSET Spent) \cup {RegAbsent, RegTorn}]
                   /\ saved' \in [Verifier -> SUBSET Spent]
                   /\ spends' \in [Verifier -> [Spent -> Nat]]
                   /\ \A v \in Verifier : Backed(v)'
<1>1. ASSUME UNCHANGED RegistryVars PROVE Rest
  <2>1. UNCHANGED <<up, used, regFile, saved, spends>>
    BY <1>1 DEF RegistryVars
  <2>2. QED
    BY <2>1 DEF CredInv, CredTypeOK, Backed
<1>2. ASSUME NEW v \in Verifier, NEW c \in creds, VerifyAndSpend(v, c) PROVE Rest
  <2> DEFINE x == [epoch |-> c.epoch, nullifier |-> c.nullifier]
  <2>1. x \in Spent
    BY DEF CredInv, CredTypeOK, Credential, Spent
  <2>2. /\ used' = [used EXCEPT ![v] = @ \cup {x}]
        /\ spends' = [spends EXCEPT ![v][x] = @ + 1]
        /\ UNCHANGED <<up, regFile, saved>>
    BY <1>2 DEF VerifyAndSpend
  <2> HIDE DEF x
  <2>3. QED
    BY <2>1, <2>2 DEF CredInv, CredTypeOK, Backed
<1>3. ASSUME NEW v \in Verifier, SaveRegistry(v) PROVE Rest
  BY <1>3, NotAFile DEF SaveRegistry, CredInv, CredTypeOK, Backed
<1>4. ASSUME NEW v \in Verifier, VerifierDies(v) PROVE Rest
  BY <1>4, NotAFile DEF VerifierDies, CredInv, CredTypeOK, Backed
<1>5. ASSUME NEW v \in Verifier, VerifierStarts(v) PROVE Rest
  BY <1>5, NotAFile DEF VerifierStarts, Loads, RegistryOf, CredInv, CredTypeOK, Backed
<1>6. ASSUME NEW v \in Verifier, RemoveTorn(v) PROVE Rest
  BY <1>6, NotAFile DEF RemoveTorn, CredInv, CredTypeOK, Backed
<1>7. ASSUME NEW v \in Verifier, NEW w \in Verifier, MergeFrom(v, w) PROVE Rest
  BY <1>7, NotAFile DEF MergeFrom, MergeInto, RegistryOf, CredInv, CredTypeOK, Backed
<1>8. ASSUME NEW v \in Verifier, NEW e \in Epoch, RotateEpoch(v, e) PROVE Rest
  BY <1>8, NotAFile DEF RotateEpoch, CredInv, CredTypeOK, Backed
<1> HIDE DEF Rest
<1>9. CASE CredNext
  <2>1. ASSUME Issuing PROVE Rest
    <3>1. UNCHANGED RegistryVars
      BY <2>1 DEF Issuing, ScoreMoves, Issue, BuildBlindedRequest, IssueBlinded, RegistryVars
    <3>2. QED
      BY <1>1, <3>1
  <2>2. ASSUME Mixing PROVE Rest
    <3>1. UNCHANGED RegistryVars
      BY <2>2 DEF Mixing, Mixed, RegistryVars
    <3>2. QED
      BY <1>1, <3>1
  <2>3. ASSUME RegistryStep PROVE Rest
    BY <1>2, <1>3, <1>4, <1>5, <1>6, <1>7, <1>8, <2>3 DEF RegistryStep
  <2>4. Rest
    BY <1>9, <2>1, <2>2, <2>3 DEF CredNext
  <2>5. QED
    BY <1>9, <2>4, CredentialsTyped DEF CredInv, CredTypeOK, Rest
<1>10. CASE UNCHANGED credVars
  BY <1>10 DEF credVars, CredInv, CredTypeOK, Backed
<1>11. QED
  BY <1>9, <1>10

\* A running node has everything saved in memory, and a spend it makes was not there.
LEMMA SpendIsNew ==
  ASSUME CredInv, [CredNext]_credVars
  PROVE  \A v \in Verifier : \A x \in saved[v] : spends'[v][x] = spends[v][x]
<1> SUFFICES ASSUME NEW v \in Verifier, NEW x \in saved[v]
             PROVE  spends'[v][x] = spends[v][x]
  OBVIOUS
<1>1. x \in Spent
  BY DEF CredInv, CredTypeOK
<1>2. CASE UNCHANGED spends
  BY <1>2
<1>3. ASSUME NEW w \in Verifier, NEW c \in creds, VerifyAndSpend(w, c)
      PROVE  spends'[v][x] = spends[v][x]
  <2> DEFINE y == [epoch |-> c.epoch, nullifier |-> c.nullifier]
  <2>1. up[w] /\ y \notin used[w] /\ spends' = [spends EXCEPT ![w][y] = @ + 1]
    BY <1>3 DEF VerifyAndSpend
  <2> HIDE DEF y
  <2>2. v = w => x # y
    BY <2>1 DEF CredInv, Backed
  <2>3. QED
    BY <1>1, <2>1, <2>2 DEF CredInv, CredTypeOK
<1>4. QED
  BY <1>2, <1>3
  DEF CredNext, Issuing, Mixing, RegistryStep, ScoreMoves, Issue, BuildBlindedRequest,
      IssueBlinded, Mixed, SaveRegistry, VerifierDies, VerifierStarts, RemoveTorn, MergeFrom, RotateEpoch, credVars

\* A nullifier of the last whole save, own or imported, is not accepted again by that
\* node (verify_and_spend, try_register, open_or_empty), over any crashes, torn writes,
\* restarts and imports, with any number of relays and verifiers.
THEOREM SavedAlwaysStaysSpent == CredSpec => SavedStaysSpent
<1>1. CredSpec => []CredInv
  BY CredInvInit, CredInvNext, PTL DEF CredSpec
<1>2. CredInv /\ [CredNext]_credVars =>
        [\A v \in Verifier : \A x \in saved[v] : spends'[v][x] = spends[v][x]]_credVars
  BY SpendIsNew
<1>3. QED
  BY <1>1, <1>2, PTL DEF CredSpec, SavedStaysSpent

-----------------------------------------------------------------------------
(***************************************************************************)
(* Packets and the paths they take.                                        *)
(***************************************************************************)
\* Hops that were made from a path have the keys of the roster they were made from.
HopsOfRoster ==
  basis.hops # None =>
    \A i \in 1 .. Len(hops) : basis.hops.roster[hops[i].id].kem = hops[i].key

BasisShape == basis = [topo |-> basis.topo, hops |-> basis.hops]

PathInv == BasisShape /\ HopsOfRoster /\ PacketBound

\* A path is as long as its topology has layers.
LEMMA BoundPathLength ==
  ASSUME NEW t, NEW scores, NEW b \in BoundPaths(t, scores), b.said = "ok"
  PROVE  Len(b.path) \in Nat
<1>1. PICK entry : b.path \in PathsThrough(t, entry)
  BY DEF BoundPaths, Fails
<1>2. \E S : b.path \in [1 .. LayerCount -> S]
  BY <1>1 DEF PathsThrough
<1> QED  BY <1>2, TopologyAssumption

\* hops_from_records: a path that resolves gives hops bound to the keys of the roster.
LEMMA HopsBound ==
  ASSUME NEW path, Len(path) \in Nat, HopsOfPath(path).said = "ok"
  PROVE  LET h == HopsOfPath(path).hops
         IN  \A i \in 1 .. Len(h) : roster[h[i].id].kem = h[i].key
<1> DEFINE key(i) == KeyOf(cfg.listed, path[i])
           h == [i \in 1 .. Len(path) |->
                   [id |-> path[i], key |-> key(i), com |-> roster[path[i]].kem]]
<1>1. \A i \in 1 .. Len(path) : roster[path[i]].kem = key(i)
  BY DEF HopsOfPath, BindsKemPublic
<1>2. HopsOfPath(path).hops = h
  BY DEF HopsOfPath
<1> HIDE DEF key
<1>3. Len(h) = Len(path)
  OBVIOUS
<1>4. \A i \in 1 .. Len(path) : h[i].id = path[i] /\ h[i].key = key(i)
  OBVIOUS
<1> HIDE DEF h
<1> QED  BY <1>1, <1>2, <1>3, <1>4

LEMMA PathInvTakeHops ==
  ASSUME NEW t, NEW scores, PathInv, TakeHops(t, scores), UNCHANGED <<cfg, packet>>
  PROVE  PathInv'
<1>1. PICK b \in BoundPaths(t, scores) :
        LET h == IF b.said = "ok" THEN HopsOfPath(b.path) ELSE [said |-> b.said, hops |-> None]
        IN  /\ hops' = h.hops /\ said' = h.said
            /\ basis' = [basis EXCEPT
                 !.hops = IF h.said # "ok" THEN None
                          ELSE [path |-> b.path, guards |-> b.guards, layers |-> t.layers,
                                roster |-> roster, scores |-> scores]]
  BY DEF TakeHops
<1>2. PacketBound'
  BY <1>1 DEF PathInv, PacketBound
<1>3. BasisShape'
  BY <1>1 DEF PathInv, BasisShape
<1>4. CASE b.said = "ok" /\ HopsOfPath(b.path).said = "ok"
  <2>1. /\ hops' = HopsOfPath(b.path).hops
        /\ basis'.hops = [path |-> b.path, guards |-> b.guards, layers |-> t.layers,
                          roster |-> roster, scores |-> scores]
    BY <1>1, <1>4 DEF PathInv, BasisShape
  <2>2. basis'.hops.roster = roster
    BY <2>1
  <2>3. \A i \in 1 .. Len(hops') : roster[hops'[i].id].kem = hops'[i].key
    <3> DEFINE h == hops'
    <3>1. h = HopsOfPath(b.path).hops
      BY <2>1
    <3> HIDE DEF h
    <3>2. \A i \in 1 .. Len(h) : roster[h[i].id].kem = h[i].key
      BY <1>4, <3>1, BoundPathLength, HopsBound
    <3> QED  BY <3>2 DEF h
  <2> QED
    BY <1>2, <1>3, <2>2, <2>3 DEF PathInv, HopsOfRoster
<1>5. CASE ~(b.said = "ok" /\ HopsOfPath(b.path).said = "ok")
  <2>1. basis'.hops = None
    BY <1>1, <1>5 DEF PathInv, BasisShape
  <2> QED  BY <1>2, <1>3, <2>1 DEF PathInv, HopsOfRoster
<1> QED  BY <1>4, <1>5

LEMMA PathInvNoHops ==
  ASSUME PathInv, NEW why, NoHops(why), UNCHANGED <<cfg, packet>>
  PROVE  PathInv'
BY DEF NoHops, PathInv, BasisShape, HopsOfRoster, PacketBound

LEMMA PathInvResolve == PathInv /\ (Resolve \/ ResolveHeld) => PathInv'
<1> SUFFICES ASSUME PathInv, Resolve \/ ResolveHeld PROVE PathInv'
  OBVIOUS
<1>1. UNCHANGED <<cfg, packet>>
  BY DEF Resolve, ResolveHeld
<1>2. CASE ResolveHeld
  BY <1>1, <1>2, PathInvNoHops, PathInvTakeHops DEF ResolveHeld
<1>3. CASE ResolveRosterHops
  BY <1>1, <1>3, PathInvNoHops, PathInvTakeHops DEF ResolveRosterHops
<1>4. CASE ExplicitHops
  BY <1>1, <1>4 DEF ExplicitHops, PathInv, BasisShape, HopsOfRoster, PacketBound
<1> QED  BY <1>2, <1>3, <1>4 DEF Resolve

\* A packet that passed the check is bound.
LEMMA PathInvSends ==
  ASSUME PathInv, PacketVerdict = "ok", Put, UNCHANGED <<cfg, hops, basis>>
  PROVE  PathInv'
<1>1. /\ packet'.hops = hops /\ packet'.basis = basis.hops
      /\ \A i \in 1 .. Len(hops) : VerifyKemBinding(hops[i])
  BY DEF Put, PacketVerdict
<1>2. \A i \in 1 .. Len(hops) :
        hops[i].com \in {hops[i].key} \cup (IF cfg.require THEN {} ELSE {NoCommitment})
  BY <1>1 DEF VerifyKemBinding, BindsKemPublic
<1>3. basis.hops # None =>
        \A i \in 1 .. Len(hops) : basis.hops.roster[hops[i].id].kem = hops[i].key
  BY DEF PathInv, HopsOfRoster
<1>4. PacketBound'
  BY <1>1, <1>2, <1>3 DEF PacketBound
<1> QED  BY <1>4 DEF PathInv, BasisShape, HopsOfRoster

LEMMA PathInvSendPaced == PathInv /\ SendPaced => PathInv'
<1> SUFFICES ASSUME PathInv, SendPaced PROVE PathInv'
  OBVIOUS
<1>1. CASE PacketVerdict = "ok"
  BY <1>1, PathInvSends DEF SendPaced
<1>2. CASE PacketVerdict # "ok"
  BY <1>2 DEF SendPaced, PathInv, BasisShape, HopsOfRoster, PacketBound
<1> QED  BY <1>1, <1>2

LEMMA PathInvSendRaw == PathInv /\ SendRaw => PathInv'
<1> SUFFICES ASSUME PathInv, SendRaw PROVE PathInv'
  OBVIOUS
<1>1. CASE said' = "ok"
  <2>1. PacketVerdict = "ok" /\ Put /\ UNCHANGED <<cfg, hops, basis>>
    BY <1>1 DEF SendRaw
  <2> QED  BY <2>1, PathInvSends
<1>2. CASE said' # "ok"
  BY <1>2 DEF SendRaw, PathInv, BasisShape, HopsOfRoster, PacketBound
<1> QED  BY <1>1, <1>2

LEMMA PathInvNext == PathInv /\ [PathNext]_pathVars => PathInv'
<1> SUFFICES ASSUME PathInv, [PathNext]_pathVars PROVE PathInv'
  OBVIOUS
<1>1. CASE UNCHANGED <<cfg, hops, packet, basis>>
  BY <1>1 DEF PathInv, BasisShape, HopsOfRoster, PacketBound
<1>2. CASE \E f \in BOOLEAN : BuildHeldTopology(f)
  <2>1. UNCHANGED <<cfg, hops, packet>>
    BY <1>2 DEF BuildHeldTopology
  <2>2. basis' = [topo |-> basis'.topo, hops |-> basis.hops]
    BY <1>2 DEF BuildHeldTopology, PathInv, BasisShape
  <2> QED
    BY <2>1, <2>2 DEF PathInv, BasisShape, HopsOfRoster, PacketBound
<1>3. CASE Connect \/ CloseSession
  BY <1>1, <1>3 DEF Connect, CloseSession
<1>4. CASE RosterChanges \/ EpochEnds \/ \E r \in Relay : ScoreFalls(r)
  BY <1>1, <1>4 DEF RosterChanges, EpochEnds, ScoreFalls
<1> QED
  BY <1>1, <1>2, <1>3, <1>4, PathInvResolve, PathInvSendPaced, PathInvSendRaw
     DEF PathNext, pathVars

LEMMA PathInvInit == PathInit => PathInv
BY DEF PathInit, PathInv, BasisShape, HopsOfRoster, PacketBound

LEMMA PathInvEnough == PathInv => PacketBound
BY DEF PathInv

\* Every packet that leaves has each layer sealed to the key the hop's commitment is of
\* and, on a path of the roster, to the key that roster had (hops_from_bound_path,
\* build_packet_with_options), whatever changed between resolving, connecting and
\* sending, and whichever relay the caller connected to.
THEOREM PacketsAlwaysBound == PathSpec => []PacketBound
BY PathInvInit, PathInvNext, PathInvEnough, PTL DEF PathSpec

-----------------------------------------------------------------------------
(***************************************************************************)
(* The path of a client.  Numbers first, since every order and every draw  *)
(* is a recursive function of one.                                         *)
(***************************************************************************)
\* A set of numbers that has 0 and the next of each has them all.
LEMMA FromZeroUp ==
  ASSUME NEW T \in SUBSET Nat, 0 \in T, \A n \in T : n + 1 \in T
  PROVE  T = Nat
<1> SUFFICES ASSUME NEW m \in Nat, m \notin T PROVE FALSE
  OBVIOUS
<1> DEFINE U == Nat \ T
<1>1. PICK x \in U : \A y \in U : ~ << y, x >> \in OpToRel(<, Nat)
  BY NatLessThanWellFounded, WFMin
<1>2. x \in Nat /\ x # 0 /\ x - 1 \in Nat
  OBVIOUS
<1>3. << x - 1, x >> \in OpToRel(<, Nat)
  <2>1. << x - 1, x >> \in Nat \X Nat /\ << x - 1, x >>[1] = x - 1 /\ << x - 1, x >>[2] = x
    BY <1>2
  <2>2. << x - 1, x >> \in OpToRel(<, Nat)
        <=> << x - 1, x >> \in Nat \X Nat /\ << x - 1, x >>[1] < << x - 1, x >>[2]
    BY Zenon DEF OpToRel
  <2>3. x - 1 < x
    BY <1>2
  <2> QED
    BY <2>1, <2>2, <2>3, Zenon
<1>4. x - 1 \in T
  BY <1>1, <1>2, <1>3
<1>5. (x - 1) + 1 = x
  BY <1>2
<1>6. x \in T
  BY <1>4, <1>5
<1> QED
  BY <1>6

\* A set of numbers up to n has a greatest.
LEMMA HasGreatest ==
  ASSUME NEW n \in Nat, NEW s \in SUBSET (0 .. n), s # {}
  PROVE  \E x \in s : \A y \in s : x >= y
<1> DEFINE T == {k \in Nat : \A u \in SUBSET (0 .. k) : u # {} => \E x \in u : \A y \in u : x >= y}
<1>1. 0 \in T
  <2> SUFFICES ASSUME NEW u \in SUBSET (0 .. 0), u # {} PROVE \E x \in u : \A y \in u : x >= y
    OBVIOUS
  <2>1. \A y \in u : y = 0
    OBVIOUS
  <2>2. PICK x \in u : TRUE
    OBVIOUS
  <2>3. \A y \in u : x >= y
    BY <2>1
  <2> QED
    BY <2>3
<1>2. ASSUME NEW k \in T
      PROVE  k + 1 \in T
  <2> SUFFICES ASSUME NEW u \in SUBSET (0 .. k + 1), u # {}
               PROVE  \E x \in u : \A y \in u : x >= y
    OBVIOUS
  <2>1. CASE k + 1 \in u
    <3>1. \A y \in u : k + 1 >= y
      OBVIOUS
    <3> QED
      BY <2>1, <3>1
  <2>2. CASE k + 1 \notin u
    <3>1. u \in SUBSET (0 .. k) /\ k \in Nat
      BY <2>2
    <3> QED
      BY <3>1
  <2> QED
    BY <2>1, <2>2
<1> HIDE DEF T
<1>3. T = Nat
  <2>1. T \subseteq Nat
    BY DEF T
  <2> QED
    BY <1>1, <1>2, <2>1, FromZeroUp
<1> QED
  BY <1>3 DEF T

\* A finite set of numbers that is not empty has a greatest.
LEMMA FiniteHasGreatest ==
  ASSUME NEW S \in SUBSET Nat, IsFiniteSet(S), S # {}
  PROVE  \E x \in S : \A y \in S : x >= y
<1> DEFINE HasTop(u) == \E b \in Nat : \A y \in u : y <= b
           T == {k \in Nat : \A u \in SUBSET S : Cardinality(u) = k => HasTop(u)}
<1>1. \A u \in SUBSET S : IsFiniteSet(u) /\ Cardinality(u) \in Nat
  BY FS_Subset, FS_CardinalityType
<1>2. 0 \in T
  <2> SUFFICES ASSUME NEW u \in SUBSET S, Cardinality(u) = 0 PROVE HasTop(u)
    OBVIOUS
  <2>1. u = {}
    BY <1>1, FS_EmptySet
  <2> QED
    BY <2>1
<1>3. ASSUME NEW k \in T
      PROVE  k + 1 \in T
  <2>0. k \in Nat /\ k + 1 \in Nat
    OBVIOUS
  <2> HIDE DEF HasTop
  <2> SUFFICES ASSUME NEW u \in SUBSET S, Cardinality(u) = k + 1 PROVE HasTop(u)
    BY <2>0
  <2> USE DEF HasTop
  <2>1. k \in Nat /\ u # {}
    BY <1>1, FS_EmptySet
  <2>2. PICK x \in u : TRUE
    BY <2>1
  <2>3. Cardinality(u \ {x}) = k
    <3>1. Cardinality(u \ {x}) = Cardinality(u) - 1
      BY <1>1, FS_RemoveElement
    <3> QED
      BY <2>1, <3>1
  <2>4. PICK b \in Nat : \A y \in u \ {x} : y <= b
    BY <2>3
  <2>5. b + x \in Nat /\ \A y \in u : y \in Nat /\ y <= b + x
    BY <2>4
  <2> QED
    BY <2>5
<1> HIDE DEF T
<1>4. T = Nat
  <2>1. T \subseteq Nat
    BY DEF T
  <2> QED
    BY <1>2, <1>3, <2>1, FromZeroUp
<1>5. HasTop(S)
  <2>1. Cardinality(S) \in T /\ S \in SUBSET S
    BY <1>1, <1>4
  <2> QED
    BY <2>1 DEF T
<1>6. PICK b \in Nat : \A y \in S : y <= b
  BY <1>5
<1>7. S \in SUBSET (0 .. b)
  BY <1>6
<1> QED
  BY <1>7, HasGreatest

-----------------------------------------------------------------------------
Ascends(s) == \A i, j \in DOMAIN s : i < j => s[i] < s[j]

\* Every finite set of numbers can be put in order.
LEMMA OrderExists ==
  ASSUME NEW S \in SUBSET Nat, IsFiniteSet(S)
  PROVE  \E s \in [1 .. Cardinality(S) -> S] : Ascends(s)
<1> DEFINE T == {k \in Nat : \A u \in SUBSET S : Cardinality(u) = k =>
                   \E s \in [1 .. k -> u] : Ascends(s)}
<1>1. \A u \in SUBSET S : IsFiniteSet(u) /\ Cardinality(u) \in Nat
  BY FS_Subset, FS_CardinalityType
<1>2. 0 \in T
  <2> SUFFICES ASSUME NEW u \in SUBSET S PROVE \E s \in [1 .. 0 -> u] : Ascends(s)
    OBVIOUS
  <2> DEFINE s == [i \in 1 .. 0 |-> 0]
  <2>1. s \in [1 .. 0 -> u] /\ Ascends(s)
    BY DEF Ascends
  <2> QED
    BY <2>1
<1>3. ASSUME NEW k \in T
      PROVE  k + 1 \in T
  <2> SUFFICES ASSUME NEW u \in SUBSET S, Cardinality(u) = k + 1
               PROVE  \E s \in [1 .. k + 1 -> u] : Ascends(s)
    OBVIOUS
  <2>1. k \in Nat /\ u # {} /\ IsFiniteSet(u) /\ u \in SUBSET Nat
    BY <1>1, FS_EmptySet
  <2>2. PICK x \in u : \A y \in u : x >= y
    BY <2>1, FiniteHasGreatest
  <2> DEFINE w == u \ {x}
  <2>3. w \in SUBSET S /\ Cardinality(w) = k
    <3>1. Cardinality(w) = Cardinality(u) - 1
      BY <2>1, FS_RemoveElement
    <3> QED
      BY <2>1, <3>1
  <2>4. PICK s \in [1 .. k -> w] : Ascends(s)
    BY <2>3
  <2> DEFINE t == [i \in 1 .. k + 1 |-> IF i = k + 1 THEN x ELSE s[i]]
  <2>5. t \in [1 .. k + 1 -> u]
    BY <2>1
  <2>6. ASSUME NEW i \in 1 .. k + 1, NEW j \in 1 .. k + 1, i < j
        PROVE  t[i] < t[j]
    <3>1. i \in 1 .. k /\ t[i] = s[i] /\ s[i] \in w
      BY <2>1, <2>6
    <3>2. CASE j = k + 1
      <4>1. t[j] = x /\ s[i] # x /\ s[i] \in u /\ x \in Nat /\ s[i] \in Nat
        BY <2>1, <3>1, <3>2
      <4> QED
        BY <2>2, <3>1, <4>1
    <3>3. CASE j # k + 1
      <4>1. j \in 1 .. k /\ t[j] = s[j]
        BY <2>1, <3>3
      <4>2. s[i] < s[j]
        BY <2>4, <2>6, <3>1, <4>1 DEF Ascends
      <4> QED
        BY <3>1, <4>1, <4>2
    <3> QED
      BY <3>2, <3>3
  <2>7. Ascends(t)
    BY <2>5, <2>6 DEF Ascends
  <2> QED
    BY <2>5, <2>7
<1> HIDE DEF T
<1>4. T = Nat
  <2>1. T \subseteq Nat
    BY DEF T
  <2> QED
    BY <1>2, <1>3, <2>1, FromZeroUp
<1>5. Cardinality(S) \in T /\ S \in SUBSET S
  BY <1>1, <1>4
<1> QED
  BY <1>5 DEF T

LEMMA AscendingIs ==
  ASSUME NEW S \in SUBSET Nat, IsFiniteSet(S)
  PROVE  /\ Cardinality(S) \in Nat
         /\ Ascending(S) \in [1 .. Cardinality(S) -> S]
         /\ \A i, j \in 1 .. Cardinality(S) : Ascending(S)[i] = Ascending(S)[j] => i = j
<1> DEFINE n == Cardinality(S)
           s == Ascending(S)
<1>1. n \in Nat
  BY FS_CardinalityType
<1>2. s \in [1 .. n -> S] /\ Ascends(s)
  BY OrderExists DEF Ascending, Ascends
<1> HIDE DEF n, s
<1>3. ASSUME NEW i \in 1 .. n, NEW j \in 1 .. n, s[i] = s[j], i # j
      PROVE  FALSE
  <2>1. s[i] \in Nat /\ s[j] \in Nat
    BY <1>2
  <2>2. i < j \/ j < i
    BY <1>1, <1>3
  <2>3. s[i] < s[j] \/ s[j] < s[i]
    BY <1>2, <2>2 DEF Ascends
  <2> QED
    BY <1>3, <2>1, <2>3
<1>4. \A i, j \in 1 .. n : s[i] = s[j] => i = j
  BY <1>3
<1> QED
  BY <1>1, <1>2, <1>4 DEF n, s

-----------------------------------------------------------------------------
\* What a sequence has at some places, in order, has no duplicates when it has none.
LEMMA AtIs ==
  ASSUME NEW S, NEW s \in Seq(S), IsInjective(s), NEW places \in SUBSET (1 .. Len(s))
  PROVE  /\ At(s, places) \in Seq(S) /\ IsInjective(At(s, places))
         /\ Len(At(s, places)) = Cardinality(places)
         /\ \A k \in 1 .. Len(At(s, places)) : \E i \in places : At(s, places)[k] = s[i]
<1> DEFINE n == Cardinality(places)
           p == Ascending(places)
           a == [k \in DOMAIN p |-> s[p[k]]]
<1>1. Len(s) \in Nat /\ s \in [1 .. Len(s) -> S]
  BY LenProperties
<1>2. \A i, j \in 1 .. Len(s) : s[i] = s[j] => i = j
  BY <1>1 DEF IsInjective
<1>3. IsFiniteSet(places) /\ places \in SUBSET Nat
  <2>1. IsFiniteSet(1 .. Len(s))
    BY <1>1, FS_Interval
  <2>2. IsFiniteSet(places)
    BY <2>1, FS_Subset
  <2> QED
    BY <1>1, <2>2
<1>4. n \in Nat /\ p \in [1 .. n -> places] /\ \A i, j \in 1 .. n : p[i] = p[j] => i = j
  BY <1>3, AscendingIs
<1>5. At(s, places) = a
  BY DEF At
<1> HIDE DEF n, p
<1>6. DOMAIN a = 1 .. n /\ \A k \in 1 .. n : a[k] = s[p[k]] /\ p[k] \in places /\ p[k] \in 1 .. Len(s)
  BY <1>4
<1> HIDE DEF a
<1>7. a \in [1 .. n -> S]
  <2>1. \A k \in 1 .. n : s[p[k]] \in S
    BY <1>1, <1>6
  <2> QED
    BY <2>1, <1>4 DEF a
<1>8. a \in Seq(S) /\ Len(a) = n
  BY <1>4, <1>7
<1>9. \A i, j \in 1 .. n : a[i] = a[j] => i = j
  BY <1>2, <1>4, <1>6
<1>10. IsInjective(a)
  BY <1>6, <1>9 DEF IsInjective
<1> QED
  BY <1>5, <1>6, <1>8, <1>10 DEF n

\* A sequence of relays without duplicates is no longer than there are relays.
LEMMA NoLongerThanRelays ==
  ASSUME NEW q \in Seq(Relay), IsInjective(q)
  PROVE  Len(q) \in Nat /\ Len(q) <= Cardinality(Relay) /\ Cardinality(Relay) \in Nat
<1>1. Len(q) \in Nat /\ q \in [1 .. Len(q) -> Relay] /\ DOMAIN q = 1 .. Len(q)
  BY LenProperties
<1>2. IsFiniteSet(Relay) /\ Cardinality(Relay) \in Nat
  BY TopologyAssumption, FS_CardinalityType
<1>3. q \in Injection(1 .. Len(q), Relay)
  BY <1>1 DEF Injection, IsInjective
<1>4. Cardinality(1 .. Len(q)) <= Cardinality(Relay)
  BY <1>2, <1>3, FS_Injection
<1>5. Cardinality(1 .. Len(q)) = Len(q)
  BY <1>1, FS_Interval
<1> QED
  BY <1>1, <1>2, <1>4, <1>5

-----------------------------------------------------------------------------
\* What n steps make of base, as a function.
Goes(f, n, base, G, V) ==
  /\ f \in [0 .. n -> V] /\ f[0] = base
  /\ \A k \in 1 .. n : f[k] = G[k][f[k - 1]]

\* Steps that stay in V have such a function.
LEMMA StepsExist ==
  ASSUME NEW n \in Nat, NEW V, NEW base \in V, NEW G \in [1 .. n -> [V -> V]]
  PROVE  \E f : Goes(f, n, base, G, V)
<1> DEFINE T == {m \in Nat : m <= n => \E f : Goes(f, m, base, G, V)}
<1>1. 0 \in T
  <2> DEFINE f == [k \in 0 .. 0 |-> base]
  <2>1. Goes(f, 0, base, G, V)
    BY DEF Goes
  <2> QED
    BY <2>1
<1>2. ASSUME NEW m \in T PROVE m + 1 \in T
  <2>1. m \in Nat /\ m + 1 \in Nat
    OBVIOUS
  <2> SUFFICES ASSUME m + 1 <= n PROVE \E f : Goes(f, m + 1, base, G, V)
    BY <2>1
  <2>2. PICK f : Goes(f, m, base, G, V)
    BY <2>1
  <2>3. f \in [0 .. m -> V] /\ f[0] = base /\ \A k \in 1 .. m : f[k] = G[k][f[k - 1]]
    BY <2>2 DEF Goes
  <2>4. m + 1 \in 1 .. n /\ m \in 0 .. m
    BY <2>1
  <2>5. G[m + 1][f[m]] \in V
    BY <2>3, <2>4
  <2> DEFINE g == [k \in 0 .. m + 1 |-> IF k = m + 1 THEN G[m + 1][f[m]] ELSE f[k]]
  <2>6. g \in [0 .. m + 1 -> V]
    BY <2>1, <2>3, <2>5
  <2>7. g[0] = base
    BY <2>1, <2>3
  <2>8. ASSUME NEW k \in 1 .. m + 1 PROVE g[k] = G[k][g[k - 1]]
    <3>1. k - 1 \in 0 .. m /\ g[k - 1] = f[k - 1]
      BY <2>1
    <3>2. CASE k = m + 1
      <4>1. k - 1 = m /\ g[k] = G[m + 1][f[m]]
        BY <2>1, <3>2
      <4> HIDE DEF g
      <4> QED
        BY <3>1, <3>2, <4>1
    <3>3. CASE k # m + 1
      <4>1. k \in 1 .. m /\ g[k] = f[k]
        BY <2>1, <3>3
      <4> HIDE DEF g
      <4> QED
        BY <2>3, <3>1, <4>1
    <3> QED
      BY <3>2, <3>3
  <2> HIDE DEF g
  <2>9. Goes(g, m + 1, base, G, V)
    BY <2>6, <2>7, <2>8 DEF Goes
  <2> QED
    BY <2>9
<1> HIDE DEF T
<1>3. T = Nat
  <2>1. T \subseteq Nat
    BY DEF T
  <2> QED
    BY <1>1, <1>2, <2>1, FromZeroUp
<1>4. n \in T
  BY <1>3
<1> QED
  BY <1>4 DEF T

\* What is in V and goes through steps that stay in V ends in V.
LEMMA StepsStay ==
  ASSUME NEW n \in Nat, NEW V, NEW h, h[0] \in V, \A k \in 1 .. n : h[k - 1] \in V => h[k] \in V
  PROVE  h[n] \in V
<1> DEFINE T == {m \in Nat : m <= n => h[m] \in V}
<1>1. 0 \in T
  OBVIOUS
<1>2. ASSUME NEW m \in T PROVE m + 1 \in T
  <2>1. m \in Nat /\ m + 1 \in Nat /\ (m + 1) - 1 = m
    OBVIOUS
  <2> SUFFICES ASSUME m + 1 <= n PROVE h[m + 1] \in V
    BY <2>1
  <2>2. m + 1 \in 1 .. n /\ h[m] \in V
    BY <2>1
  <2> QED
    BY <2>1, <2>2
<1> HIDE DEF T
<1>3. T = Nat
  <2>1. T \subseteq Nat
    BY DEF T
  <2> QED
    BY <1>1, <1>2, <2>1, FromZeroUp
<1>4. n \in T
  BY <1>3
<1> QED
  BY <1>4 DEF T

-----------------------------------------------------------------------------
\* A sequence in any order.
Orders(q) == {p \in [1 .. Len(q) -> Range(q)] : IsInjective(p)}

LEMMA OwnOrder ==
  ASSUME NEW S, NEW q \in Seq(S), IsInjective(q)
  PROVE  Len(q) \in Nat /\ q \in Orders(q) /\ Range(q) \subseteq S
<1>1. Len(q) \in Nat /\ q \in [1 .. Len(q) -> S] /\ DOMAIN q = 1 .. Len(q)
  BY LenProperties
<1>2. q \in [1 .. Len(q) -> Range(q)] /\ Range(q) \subseteq S
  BY <1>1 DEF Range
<1> QED
  BY <1>1, <1>2 DEF Orders

LEMMA OrderIs ==
  ASSUME NEW S, NEW q \in Seq(S), NEW p \in Orders(q), Range(q) \subseteq S
  PROVE  p \in Seq(S) /\ IsInjective(p) /\ Len(p) = Len(q)
<1>1. Len(q) \in Nat
  BY LenProperties
<1>2. p \in [1 .. Len(q) -> S] /\ IsInjective(p)
  BY DEF Orders
<1> QED
  BY <1>1, <1>2

LEMMA SwapStays ==
  ASSUME NEW q, NEW p \in Orders(q), NEW i \in 1 .. Len(q), NEW j \in 1 .. Len(q)
  PROVE  SwapAt(p, i, j) \in Orders(q)
<1> DEFINE n == Len(q)
           u == SwapAt(p, i, j)
<1>1. p \in [1 .. n -> Range(q)] /\ \A a, b \in 1 .. n : p[a] = p[b] => a = b
  BY DEF Orders, IsInjective
<1>2. u \in [1 .. n -> Range(q)]
  BY <1>1 DEF SwapAt
<1>3. \A a \in 1 .. n : u[a] = IF a = j THEN p[i] ELSE IF a = i THEN p[j] ELSE p[a]
  BY <1>1 DEF SwapAt
<1> HIDE DEF u, n
<1>4. \A a, b \in 1 .. n : u[a] = u[b] => a = b
  BY <1>1, <1>3 DEF n
<1>5. IsInjective(u)
  BY <1>2, <1>4 DEF IsInjective
<1> QED
  BY <1>2, <1>5 DEF Orders, n, u

LEMMA WrappedIsSeed ==
  ASSUME NEW seed \in Nat, NEW more \in Nat
  PROVE  Wrapped(seed, more) \in 0 .. Word - 1 /\ Wrapped(seed, more) \in Nat
<1>1. Mix \in Nat /\ Word \in Nat \ {0}
  BY TopologyAssumption
<1> DEFINE x == seed * Mix + more
<1>2. x \in Nat
  BY <1>1
<1> HIDE DEF x
<1>3. x % Word \in 0 .. Word - 1
  BY <1>1, <1>2
<1>4. x % Word \in Nat
  BY <1>1, <1>3
<1> QED
  BY <1>3, <1>4 DEF Wrapped, x

LEMMA DrawIs ==
  ASSUME NEW seed \in 0 .. Word - 1, NEW step \in 1 .. Cardinality(Relay),
         NEW n \in 1 .. Cardinality(Relay)
  PROVE  Draw(seed, step, n) \in 0 .. n - 1
BY TopologyAssumption

-----------------------------------------------------------------------------
\* A step of the shuffle: the place it is at is exchanged with one up to it.
ShuffleStep(q, n, k, seed) ==
  IF k < 2 THEN q ELSE SwapAt(q, n - k + 2, Draw(seed, n - k + 2, n - k + 2) + 1)

LEMMA ShuffledIs ==
  ASSUME NEW ids, NEW seed
  PROVE  LET f == CHOOSE f : f = [k \in 0 .. Len(ids) |->
                    IF k < 2 THEN ids
                    ELSE SwapAt(f[k - 1], Len(ids) - k + 2,
                                Draw(seed, Len(ids) - k + 2, Len(ids) - k + 2) + 1)]
         IN  Shuffled(ids, seed) = f[Len(ids)]
BY Zenon DEF Shuffled

\* build_topology loses no relay and doubles none.
LEMMA ShuffleOrders ==
  ASSUME NEW ids \in Seq(Relay), IsInjective(ids), NEW seed \in 0 .. Word - 1
  PROVE  Shuffled(ids, seed) \in Orders(ids)
<1> DEFINE n == Len(ids)
           V == Orders(ids)
           G == [k \in 1 .. n |-> [q \in V |-> ShuffleStep(q, n, k, seed)]]
           at(k) == n - k + 2
           is(f) == f = [k \in 0 .. n |-> IF k < 2 THEN ids
                           ELSE SwapAt(f[k - 1], n - k + 2, Draw(seed, n - k + 2, n - k + 2) + 1)]
<1>1. /\ n \in Nat /\ ids \in V
      /\ n <= Cardinality(Relay) /\ Cardinality(Relay) \in Nat
  BY OwnOrder, NoLongerThanRelays
<1>2. ASSUME NEW k \in 1 .. n, NEW q \in V PROVE ShuffleStep(q, n, k, seed) \in V
  <2>1. CASE k < 2
    BY <2>1 DEF ShuffleStep
  <2>2. CASE ~ k < 2
    <3> DEFINE i == n - k + 2
               d == Draw(seed, i, i)
    <3>1. i \in 1 .. n /\ i \in 1 .. Cardinality(Relay)
      BY <1>1, <2>2
    <3> HIDE DEF i
    <3>2. d \in 0 .. i - 1
      BY <3>1, DrawIs
    <3> HIDE DEF d
    <3>3. d + 1 \in 1 .. n
      BY <1>1, <3>1, <3>2
    <3>4. SwapAt(q, i, d + 1) \in V
      BY <3>1, <3>3, SwapStays
    <3> QED
      BY <2>2, <3>4 DEF ShuffleStep, i, d
  <2> QED
    BY <2>1, <2>2
<1>3. Shuffled(ids, seed) = (CHOOSE f : is(f))[n]
  BY ShuffledIs
<1> HIDE DEF n, V
<1>4. G \in [1 .. n -> [V -> V]] /\ \A k \in 1 .. n, q \in V : G[k][q] = ShuffleStep(q, n, k, seed)
  BY <1>2
<1> HIDE DEF G
<1>5. PICK g : Goes(g, n, ids, G, V)
  BY <1>1, <1>4, StepsExist
<1>6. /\ g \in [0 .. n -> V] /\ g[0] = ids
      /\ \A k \in 1 .. n : g[k] = ShuffleStep(g[k - 1], n, k, seed)
  <2>1. g \in [0 .. n -> V] /\ g[0] = ids /\ \A k \in 1 .. n : g[k] = G[k][g[k - 1]]
    BY <1>5 DEF Goes
  <2>2. ASSUME NEW k \in 1 .. n PROVE g[k] = ShuffleStep(g[k - 1], n, k, seed)
    <3>1. g[k - 1] \in V
      BY <1>1, <2>1
    <3> QED
      BY <1>4, <2>1, <3>1
  <2> QED
    BY <2>1, <2>2
<1>7. is(g)
  <2> SUFFICES ASSUME NEW k \in 0 .. n
               PROVE  g[k] = IF k < 2 THEN ids
                        ELSE SwapAt(g[k - 1], n - k + 2, Draw(seed, n - k + 2, n - k + 2) + 1)
    BY <1>6
  <2>1. CASE k = 0
    BY <1>6, <2>1
  <2>2. CASE k = 1
    <3>1. k \in 1 .. n /\ k - 1 = 0
      BY <1>1, <2>2
    <3>2. g[k] = ShuffleStep(ids, n, k, seed)
      BY <1>6, <3>1
    <3> QED
      BY <2>2, <3>2 DEF ShuffleStep
  <2>3. CASE k # 0 /\ k # 1
    <3>1. k \in 1 .. n /\ ~ k < 2
      BY <1>1, <2>3
    <3>2. g[k] = ShuffleStep(g[k - 1], n, k, seed)
      BY <1>6, <3>1
    <3> QED
      BY <3>1, <3>2 DEF ShuffleStep
  <2> QED
    BY <2>1, <2>2, <2>3
<1> DEFINE h == CHOOSE f : is(f)
<1>8. is(h)
  BY <1>7
<1>9. Shuffled(ids, seed) = h[n]
  BY <1>3
<1> HIDE DEF h
<1>10. h[0] \in V
  <2>1. 0 \in 0 .. n /\ 0 < 2
    BY <1>1
  <2>2. h[0] = ids
    BY <1>8, <2>1
  <2> QED
    BY <1>1, <2>2
<1>11. ASSUME NEW k \in 1 .. n, h[k - 1] \in V PROVE h[k] \in V
  <2>1. k \in 0 .. n
    BY <1>1
  <2>2. h[k] = IF k < 2 THEN ids
               ELSE SwapAt(h[k - 1], n - k + 2, Draw(seed, n - k + 2, n - k + 2) + 1)
    BY <1>8, <2>1
  <2>3. h[k] = ids \/ h[k] = ShuffleStep(h[k - 1], n, k, seed)
    BY <2>2 DEF ShuffleStep
  <2> QED
    BY <1>1, <1>2, <1>11, <2>3
<1>12. h[n] \in V
  BY <1>1, <1>10, <1>11, StepsStay
<1> QED
  BY <1>9, <1>12 DEF V

-----------------------------------------------------------------------------
LEMMA PicksIs ==
  ASSUME NEW cands, NEW seed, NEW e
  PROVE  LET f == CHOOSE f : f = [k \in 0 .. GuardCount |->
                    IF k = 0 THEN cands
                    ELSE SwapAt(f[k - 1], k, k + Draw(Wrapped(seed, e), k, Len(cands) - k + 1))]
         IN  PickGuards(cands, seed, e) = SubSeq(f[GuardCount], 1, GuardCount)
BY Zenon DEF PickGuards

\* The guards are the first of the candidates in some order.
LEMMA PicksOrder ==
  ASSUME NEW cands \in Seq(Relay), IsInjective(cands), GuardCount <= Len(cands),
         NEW seed \in Nat, NEW e \in Nat
  PROVE  \E p \in Orders(cands) : PickGuards(cands, seed, e) = SubSeq(p, 1, GuardCount)
<1> DEFINE n == Len(cands)
           m == GuardCount
           V == Orders(cands)
           w == Wrapped(seed, e)
           step(q, k) == SwapAt(q, k, k + Draw(w, k, n - k + 1))
           G == [k \in 1 .. m |-> [q \in V |-> step(q, k)]]
           is(f) == f = [k \in 0 .. m |-> IF k = 0 THEN cands ELSE step(f[k - 1], k)]
<1>1. /\ n \in Nat /\ cands \in V /\ m \in Nat /\ m <= n
      /\ n <= Cardinality(Relay) /\ Cardinality(Relay) \in Nat
  BY OwnOrder, NoLongerThanRelays, TopologyAssumption
<1>2. w \in 0 .. Word - 1
  BY WrappedIsSeed
<1>3. PickGuards(cands, seed, e) = SubSeq((CHOOSE f : is(f))[m], 1, m)
  BY PicksIs
<1> HIDE DEF w
<1>4. ASSUME NEW k \in 1 .. m, NEW q \in V PROVE step(q, k) \in V
  <2> DEFINE i == n - k + 1
             d == Draw(w, k, i)
  <2>1. i \in 1 .. Cardinality(Relay) /\ k \in 1 .. Cardinality(Relay) /\ k \in 1 .. n
    BY <1>1
  <2>2. d \in 0 .. i - 1
    BY <1>2, <2>1, DrawIs
  <2> HIDE DEF d
  <2>3. k + d \in 1 .. n
    BY <1>1, <2>1, <2>2
  <2>4. SwapAt(q, k, k + d) \in V
    BY <2>1, <2>3, SwapStays
  <2> QED
    BY <2>4 DEF d
<1> HIDE DEF n, V, m, step
<1>5. G \in [1 .. m -> [V -> V]] /\ \A k \in 1 .. m, q \in V : G[k][q] = step(q, k)
  BY <1>4
<1> HIDE DEF G
<1>6. PICK g : Goes(g, m, cands, G, V)
  BY <1>1, <1>5, StepsExist
<1>7. g \in [0 .. m -> V] /\ g[0] = cands /\ \A k \in 1 .. m : g[k] = G[k][g[k - 1]]
  BY <1>6 DEF Goes
<1>8. is(g)
  <2> SUFFICES ASSUME NEW k \in 0 .. m
               PROVE  g[k] = IF k = 0 THEN cands ELSE step(g[k - 1], k)
    BY <1>7
  <2>1. CASE k = 0
    BY <1>7, <2>1
  <2>2. CASE k # 0
    <3>1. k \in 1 .. m /\ k - 1 \in 0 .. m
      BY <1>1, <2>2
    <3>2. g[k - 1] \in V
      BY <1>7, <3>1
    <3> QED
      BY <1>5, <1>7, <2>2, <3>1, <3>2
  <2> QED
    BY <2>1, <2>2
<1> DEFINE h == CHOOSE f : is(f)
<1>9. is(h)
  BY <1>8
<1>10. PickGuards(cands, seed, e) = SubSeq(h[m], 1, m)
  BY <1>3
<1> HIDE DEF h
<1>11. h[0] \in V
  <2>1. 0 \in 0 .. m
    BY <1>1
  <2>2. h[0] = cands
    BY <1>9, <2>1
  <2> QED
    BY <1>1, <2>2
<1>12. ASSUME NEW k \in 1 .. m, h[k - 1] \in V PROVE h[k] \in V
  <2>1. k \in 0 .. m /\ k # 0
    BY <1>1
  <2>2. h[k] = step(h[k - 1], k)
    BY <1>9, <2>1
  <2> QED
    BY <1>4, <1>12, <2>2
<1>13. h[m] \in V
  BY <1>1, <1>11, <1>12, StepsStay
<1> QED
  BY <1>10, <1>13 DEF V, m

LEMMA GuardsAre ==
  ASSUME NEW cands \in Seq(Relay), IsInjective(cands), GuardCount <= Len(cands),
         NEW seed \in Nat, NEW e \in Nat
  PROVE  LET guards == PickGuards(cands, seed, e)
         IN  /\ Len(guards) = GuardCount /\ DOMAIN guards = 1 .. GuardCount
             /\ Range(guards) \subseteq Range(cands)
             /\ Cardinality(Range(guards)) = GuardCount
<1> DEFINE g == PickGuards(cands, seed, e)
           m == GuardCount
<1>1. PICK p \in Orders(cands) : g = SubSeq(p, 1, m)
  BY PicksOrder
<1>2. m \in Nat /\ Len(cands) \in Nat /\ m <= Len(cands)
  BY TopologyAssumption, LenProperties
<1>3. p \in [1 .. Len(cands) -> Range(cands)] /\ IsInjective(p)
  BY DEF Orders
<1>4. p \in Seq(Range(cands)) /\ Len(p) = Len(cands)
  BY <1>2, <1>3
<1> HIDE DEF g, m
<1>5. g = [i \in 1 .. m |-> p[i]]
  <2>1. SubSeq(p, 1, m) = [i \in 1 .. m |-> p[i]]
    <3>1. SubSeq(p, 1, m) = [i \in 1 .. (1 + m) - 1 |-> p[(i + 1) - 1]]
      BY <1>2, <1>4 DEF SubSeq
    <3> QED
      BY <1>2, <3>1
  <2> QED
    BY <1>1, <2>1
<1>6. g \in [1 .. m -> Range(cands)]
  BY <1>2, <1>3, <1>5
<1>7. Len(g) = m /\ DOMAIN g = 1 .. m
  BY <1>2, <1>6
<1>8. Range(g) \subseteq Range(cands)
  BY <1>6 DEF Range
<1>9. Cardinality(Range(g)) = m
  <2>1. \A i, j \in 1 .. m : g[i] = g[j] => i = j
    BY <1>2, <1>3, <1>5 DEF IsInjective
  <2>2. g \in [1 .. m -> Range(g)] /\ \A y \in Range(g) : \E i \in 1 .. m : g[i] = y
    BY <1>6 DEF Range
  <2>3. g \in Bijection(1 .. m, Range(g))
    BY <2>1, <2>2, Zenon DEF Bijection, Injection, Surjection, IsInjective
  <2>4. ExistsBijection(1 .. m, Range(g))
    BY <2>3 DEF ExistsBijection
  <2>5. IsFiniteSet(1 .. m) /\ Cardinality(1 .. m) = m
    BY <1>2, FS_Interval
  <2> QED
    BY <2>4, <2>5, FS_Bijection
<1> QED
  BY <1>7, <1>8, <1>9 DEF g, m

-----------------------------------------------------------------------------
\* A topology whose first layer has no relay twice.
TopoSound(t) == t.epoch \in Nat /\ t.layers[1] \in Seq(Relay) /\ IsInjective(t.layers[1])

LEMMA RelaysInOrder ==
  ASSUME NEW S \in SUBSET Relay
  PROVE  Ascending(S) \in Seq(Relay) /\ IsInjective(Ascending(S))
<1>1. S \in SUBSET Nat /\ IsFiniteSet(S)
  BY TopologyAssumption, FS_Subset
<1> DEFINE s == Ascending(S)
           n == Cardinality(S)
<1>2. n \in Nat /\ s \in [1 .. n -> S] /\ \A i, j \in 1 .. n : s[i] = s[j] => i = j
  BY <1>1, AscendingIs
<1> HIDE DEF s, n
<1>3. s \in [1 .. n -> Relay] /\ DOMAIN s = 1 .. n
  BY <1>2
<1>4. s \in Seq(Relay)
  BY <1>2, <1>3
<1>5. IsInjective(s)
  BY <1>2, <1>3 DEF IsInjective
<1> QED
  BY <1>4, <1>5 DEF s

LEMMA BuiltIsSound ==
  ASSUME NEW ids \in Seq(Relay), IsInjective(ids), NEW e \in Nat, NEW seed \in Nat
  PROVE  TopoSound(BuildTopology(ids, e, seed))
<1> DEFINE q == Shuffled(ids, Wrapped(seed, e))
           places == {i \in 1 .. Len(q) : (i - 1) % LayerCount = 1 - 1}
<1>1. q \in Orders(ids) /\ Range(ids) \subseteq Relay
  BY WrappedIsSeed, ShuffleOrders, OwnOrder
<1>2. q \in Seq(Relay) /\ IsInjective(q)
  BY <1>1, OrderIs
<1>3. places \in SUBSET (1 .. Len(q))
  OBVIOUS
<1>4. 1 \in 1 .. LayerCount
  BY TopologyAssumption
<1>5. BuildTopology(ids, e, seed) = [epoch |-> e, layers |-> Dealt(q)]
  BY DEF BuildTopology
<1> HIDE DEF q
<1>6. Dealt(q)[1] = At(q, places)
  BY <1>4 DEF Dealt
<1> HIDE DEF places
<1>7. At(q, places) \in Seq(Relay) /\ IsInjective(At(q, places))
  BY <1>2, <1>3, AtIs
<1> QED
  BY <1>5, <1>6, <1>7 DEF TopoSound

LEMMA AdmittedIsSound ==
  ASSUME DOMAIN roster \subseteq Relay, NEW floor, NEW l, NEW e \in Nat, NEW seed \in Nat
  PROVE  /\ TopoSound(BuildTopology(AdmittedSorted(roster), e, seed))
         /\ TopoSound(BuildTopology(AdmittedAbove(roster, l, floor), e, seed))
<1>1. DOMAIN roster \in SUBSET Relay
      /\ {r \in DOMAIN roster : Score(l, r) >= floor} \in SUBSET Relay
  OBVIOUS
<1> QED
  BY <1>1, RelaysInOrder, BuiltIsSound DEF AdmittedSorted, AdmittedAbove

-----------------------------------------------------------------------------
LEMMA MaxIs ==
  ASSUME NEW m \in Nat
  PROVE  Max({m, 1}) \in Nat \ {0}
<1> DEFINE P(x) == x \in {m, 1} /\ \A y \in {m, 1} : x >= y
<1>1. \E x : P(x)
  BY m >= 1 \/ 1 >= m
<1>2. P(CHOOSE x : P(x))
  BY <1>1, Zenon
<1>3. Max({m, 1}) = CHOOSE x \in {m, 1} : \A y \in {m, 1} : x >= y
  BY DEF Max
<1>4. Max({m, 1}) \in {m, 1} /\ \A y \in {m, 1} : Max({m, 1}) >= y
  BY <1>1, <1>3
<1> QED
  BY <1>4

\* path_satisfies_jurisdiction, when it is content: no jurisdiction has more relays
\* on the path than its number.
LEMMA JurisdictionIs ==
  ASSUME NEW n \in Nat, NEW p, DOMAIN p = 1 .. n, Len(p) = n, NEW ros, NEW most \in Nat,
         JurisdictionVerdict(p, ros, most) = "ok", NEW jur,
         \A k \in 1 .. n : jur[k] = ros[p[k]].jur
  PROVE  /\ \A k \in 1 .. n : p[k] \in DOMAIN ros
         /\ \A i \in 1 .. n : Cardinality({k \in 1 .. n : jur[k] = jur[i]}) <= most
<1> DEFINE gone(k) == p[k] \notin DOMAIN ros
           same(k) == {i \in 1 .. k : p[i] \in DOMAIN ros /\ ros[p[i]].jur = ros[p[k]].jur}
           over(k) == ~gone(k) /\ Cardinality(same(k)) > most
           stops   == {k \in 1 .. Len(p) : gone(k) \/ over(k)}
<1>1. JurisdictionVerdict(p, ros, most)
        = IF stops = {} THEN "ok" ELSE IF gone(Min(stops)) THEN "gone" ELSE "no"
  BY DEF JurisdictionVerdict
<1>2. stops = {}
  <2> HIDE DEF stops, gone
  <2> QED
    BY <1>1
<1>3. \A k \in 1 .. n : ~gone(k) /\ ~over(k)
  BY <1>2
<1>4. \A k \in 1 .. n : p[k] \in DOMAIN ros
  BY <1>3
<1>5. ASSUME NEW i \in 1 .. n
      PROVE  Cardinality({k \in 1 .. n : jur[k] = jur[i]}) <= most
  <2> DEFINE S == {k \in 1 .. n : jur[k] = jur[i]}
  <2>1. S \in SUBSET (0 .. n) /\ i \in S
    OBVIOUS
  <2>2. PICK x \in S : \A y \in S : x >= y
    BY <2>1, HasGreatest
  <2>3. x \in 1 .. n
    OBVIOUS
  <2>4. same(x) = S
    <3>1. ASSUME NEW k PROVE k \in same(x) <=> k \in S
      <4>1. k \in S => k \in 1 .. x
        BY <2>2, <2>3
      <4>2. k \in 1 .. x => k \in 1 .. n
        BY <2>3
      <4>3. k \in 1 .. n => (jur[k] = ros[p[k]].jur /\ p[k] \in DOMAIN ros)
        BY <1>4
      <4>4. jur[x] = ros[p[x]].jur /\ jur[x] = jur[i]
        BY <2>3
      <4> QED
        BY <4>1, <4>2, <4>3, <4>4
    <3> HIDE DEF S, same
    <3> QED
      BY <3>1
  <2>5. Cardinality(S) \in Nat
    <3>1. IsFiniteSet(1 .. n)
      BY FS_Interval
    <3>2. S \in SUBSET (1 .. n)
      OBVIOUS
    <3> HIDE DEF S
    <3> QED
      BY <3>1, <3>2, FS_Subset, FS_CardinalityType
  <2>6. ~(Cardinality(same(x)) > most)
    BY <1>3, <2>3
  <2> HIDE DEF S, same
  <2>7. Cardinality(S) <= most
    BY <2>4, <2>5, <2>6
  <2> QED
    BY <2>7 DEF S
<1> QED
  BY <1>4, <1>5

-----------------------------------------------------------------------------
\* The clauses of PathSound, of the history of one path.
PathSoundOf(b) ==
  LET jur == [i \in 1 .. Len(b.path) |-> b.roster[b.path[i]].jur]
  IN  /\ Len(b.path) = LayerCount /\ b.path[1] \in Range(b.guards)
      /\ Range(b.guards) \subseteq Range(b.layers[1]) /\ Cardinality(Range(b.guards)) = GuardCount
      /\ \A i \in 1 .. LayerCount :
           /\ b.path[i] \in Range(b.layers[i]) /\ b.path[i] \in DOMAIN b.roster
           /\ Score(b.scores, b.path[i]) >= Floor
      /\ cfg.diverse =>
           \A i \in 1 .. LayerCount :
             Cardinality({k \in 1 .. LayerCount : jur[k] = jur[i]}) <= Max({cfg.most, 1})

\* The history TakeHops keeps of a path.
Kept(t, scores, b) ==
  [path |-> b.path, guards |-> b.guards, layers |-> t.layers, roster |-> roster, scores |-> scores]

LEMMA CandidatesAre ==
  ASSUME NEW t, TopoSound(t), NEW scores
  PROVE  LET cands == GuardCandidates(t, scores, Floor)
         IN  cands \in Seq(Relay) /\ IsInjective(cands) /\ Range(cands) \subseteq Range(t.layers[1])
<1> DEFINE q == t.layers[1]
           places == {i \in 1 .. Len(q) : Satisfies(scores, q[i], Floor)}
           c == GuardCandidates(t, scores, Floor)
<1>1. q \in Seq(Relay) /\ IsInjective(q)
  BY DEF TopoSound
<1>2. places \in SUBSET (1 .. Len(q)) /\ c = At(q, places)
  BY DEF GuardCandidates
<1> HIDE DEF q, places, c
<1>3. /\ c \in Seq(Relay) /\ IsInjective(c)
      /\ \A k \in 1 .. Len(c) : \E i \in places : c[k] = q[i]
  BY <1>1, <1>2, AtIs
<1>4. DOMAIN c = 1 .. Len(c) /\ DOMAIN q = 1 .. Len(q)
  BY <1>1, <1>3
<1>5. Range(c) \subseteq Range(q)
  BY <1>2, <1>3, <1>4 DEF Range
<1> QED
  BY <1>3, <1>5 DEF c, q

LEMMA GuardSeedIs ==
  ASSUME cfg \in Configs, NEW m
  PROVE  GuardSeed(m, cfg.seed, cfg.sig) \in Nat
<1>1. cfg.seed \in Nat /\ cfg.sig.age \in Nat /\ cfg.sig.peers \in Nat /\ Mix \in Nat
  BY ClientPathAssumption, TopologyAssumption
<1> DEFINE x == IF cfg.sig.anomaly THEN 1 ELSE 0
           y == cfg.sig.age * Mix
           z == cfg.sig.age * Mix + cfg.sig.peers + x
<1>2. y \in Nat /\ x \in Nat
  BY <1>1
<1>3. z \in Nat
  <2> HIDE DEF x, y
  <2>1. y + cfg.sig.peers + x \in Nat
    BY <1>1, <1>2
  <2> QED
    BY <2>1 DEF y
<1> HIDE DEF z
<1>4. Wrapped(cfg.seed, z) \in Nat
  BY <1>1, <1>3, WrappedIsSeed
<1> QED
  BY <1>1, <1>4 DEF GuardSeed, z

\* build_client_bound_path.
LEMMA BoundPathIsSound ==
  ASSUME cfg \in Configs, NEW t, TopoSound(t), NEW scores, NEW b \in BoundPaths(t, scores),
         b.said = "ok"
  PROVE  PathSoundOf(Kept(t, scores, b))
<1> DEFINE m      == ResolvePolicy(cfg.preset, cfg.adaptive)
           cands  == GuardCandidates(t, scores, Floor)
           seed   == GuardSeed(m, cfg.seed, cfg.sig)
           guards == PickGuards(cands, seed, t.epoch)
           pin    == PinMode(m, "StickyPrimary", cfg.sig)
           drawn  == PathsThrough(t, EntryGuard(guards, pin, 0))
           of(p)  == IF Most = 0 THEN AttemptPlain(p, roster, scores, Floor)
                     ELSE AttemptDiverse(p, roster, scores, Floor, Most)
           n == LayerCount
<1>1. /\ n \in Nat \ {0} /\ GuardCount \in Nat \ {0} /\ cfg.most \in Nat /\ t.epoch \in Nat
      /\ seed \in Nat
  BY TopologyAssumption, ClientPathAssumption, GuardSeedIs DEF TopoSound
<1>2. /\ cands \in Seq(Relay) /\ IsInjective(cands) /\ Len(cands) \in Nat
      /\ Range(cands) \subseteq Range(t.layers[1])
  BY CandidatesAre, LenProperties
<1>3. BoundPaths(t, scores) =
        IF Len(cands) < GuardCount THEN Fails("InsufficientReputation")
        ELSE IF HasEmptyLayer(t) THEN Fails("EmptyLayer")
        ELSE {[said |-> "ok", path |-> p, guards |-> guards] : p \in {p \in drawn : of(p) = "ok"}}
             \cup (IF \E p \in drawn : of(p) = "gone" THEN Fails("RelayNotFound") ELSE {})
             \cup (IF \E p \in drawn : of(p) = "no" THEN Fails("ReputationPathExhausted") ELSE {})
  BY Zenon DEF BoundPaths
<1>4. \A why \in {"InsufficientReputation", "EmptyLayer", "RelayNotFound", "ReputationPathExhausted"} :
        b \notin Fails(why)
  BY DEF Fails
<1> HIDE DEF cands, seed, guards, drawn, of, m, pin
<1>5. ~(Len(cands) < GuardCount)
      /\ b \in {[said |-> "ok", path |-> p, guards |-> guards] : p \in {p \in drawn : of(p) = "ok"}}
  BY <1>3, <1>4
<1>6. PICK p \in drawn : of(p) = "ok" /\ b = [said |-> "ok", path |-> p, guards |-> guards]
  BY <1>5
<1>7. GuardCount <= Len(cands)
  BY <1>1, <1>2, <1>5
<1>8. /\ Len(guards) = GuardCount /\ DOMAIN guards = 1 .. GuardCount
      /\ Range(guards) \subseteq Range(cands) /\ Cardinality(Range(guards)) = GuardCount
  BY <1>1, <1>2, <1>7, GuardsAre DEF guards
<1>9. EntryGuard(guards, pin, 0) \in Range(guards)
  <2>1. (0 % GuardCount) + 1 \in 1 .. GuardCount /\ 1 \in 1 .. GuardCount
    BY <1>1
  <2>2. EntryGuard(guards, pin, 0) = guards[(0 % GuardCount) + 1]
        \/ EntryGuard(guards, pin, 0) = guards[1]
    BY <1>8 DEF EntryGuard
  <2> QED
    BY <1>8, <2>1, <2>2 DEF Range
<1>10. /\ DOMAIN p = 1 .. n /\ p[1] = EntryGuard(guards, pin, 0)
       /\ \A l \in 2 .. n : p[l] \in Range(t.layers[l])
       /\ Len(p) = n
  <2>1. p \in [1 .. n -> UNION {Range(t.layers[l]) : l \in 1 .. n}]
        /\ p[1] = EntryGuard(guards, pin, 0)
        /\ \A l \in 2 .. n : p[l] \in Range(t.layers[l])
    BY <1>6 DEF drawn, PathsThrough
  <2> QED
    BY <1>1, <2>1
<1>11. \A i \in 1 .. n : p[i] \in Range(t.layers[i])
  <2>1. p[1] \in Range(t.layers[1])
    BY <1>2, <1>8, <1>9, <1>10
  <2> QED
    BY <1>1, <1>10, <2>1
<1>12. \A i \in 1 .. n : Score(scores, p[i]) >= Floor
  <2>1. PathSatisfies(scores, p, Floor)
    BY <1>6 DEF of, AttemptPlain, AttemptDiverse
  <2> QED
    BY <1>10, <2>1 DEF PathSatisfies, Satisfies
<1> DEFINE jur == [i \in 1 .. n |-> roster[p[i]].jur]
<1>13. /\ \A i \in 1 .. n : p[i] \in DOMAIN roster
       /\ cfg.diverse => \A i \in 1 .. n :
            Cardinality({k \in 1 .. n : jur[k] = jur[i]}) <= Max({cfg.most, 1})
  <2>1. Max({cfg.most, 1}) \in Nat \ {0}
    BY <1>1, MaxIs
  <2>2. CASE ~cfg.diverse
    <3>1. Most = 0
      BY <2>2 DEF Most
    <3>2. HasRecords(p, roster)
      BY <1>6, <3>1 DEF of, AttemptPlain
    <3> QED
      BY <1>10, <2>2, <3>2 DEF HasRecords
  <2>3. CASE cfg.diverse
    <3>1. Most = Max({cfg.most, 1}) /\ Most # 0 /\ Most \in Nat
      BY <2>1, <2>3 DEF Most
    <3>2. JurisdictionVerdict(p, roster, Most) = "ok"
      BY <1>6, <3>1 DEF of, AttemptDiverse
    <3>3. \A k \in 1 .. n : jur[k] = roster[p[k]].jur
      OBVIOUS
    <3> HIDE DEF jur
    <3>4. /\ \A k \in 1 .. n : p[k] \in DOMAIN roster
          /\ \A i \in 1 .. n : Cardinality({k \in 1 .. n : jur[k] = jur[i]}) <= Most
      BY <1>1, <1>10, <3>1, <3>2, <3>3, JurisdictionIs
    <3> QED
      BY <3>1, <3>4
  <2> QED
    BY <2>2, <2>3
<1> DEFINE c == Kept(t, scores, b)
<1>14. /\ c.path = p /\ c.guards = guards /\ c.layers = t.layers /\ c.roster = roster
       /\ c.scores = scores
  BY <1>6 DEF Kept
<1> HIDE DEF c
<1>15. [i \in 1 .. Len(c.path) |-> c.roster[c.path[i]].jur] = jur
  BY <1>10, <1>14
<1> HIDE DEF jur
<1>16. PathSoundOf(c)
  BY <1>2, <1>8, <1>9, <1>10, <1>11, <1>12, <1>13, <1>14, <1>15 DEF PathSoundOf
<1> QED
  BY <1>16 DEF c

-----------------------------------------------------------------------------
\* What makes PathSound inductive: a topology that is held is sound and of relays,
\* so its guards are, and the history is written as a whole.
TopoInv ==
  /\ cfg \in Configs /\ epoch \in Nat /\ DOMAIN roster \subseteq Relay
  /\ topo # None => TopoSound(topo)
  /\ BasisShape
  /\ basis.hops # None => PathSoundOf(basis.hops)

LEMMA TopoInvInit == PathInit => TopoInv
BY ClientPathAssumption DEF PathInit, TopoInv, BasisShape

LEMMA TakeHopsKeeps ==
  ASSUME TopoInv, NEW t, TopoSound(t), NEW scores, TakeHops(t, scores), cfg' = cfg
  PROVE  /\ basis' = [topo |-> basis.topo, hops |-> basis'.hops]
         /\ basis'.hops # None => PathSoundOf(basis'.hops)
<1>1. PICK b \in BoundPaths(t, scores) :
        LET h == IF b.said = "ok" THEN HopsOfPath(b.path) ELSE [said |-> b.said, hops |-> None]
        IN  basis' = [basis EXCEPT
               !.hops = IF h.said # "ok" THEN None
                        ELSE [path |-> b.path, guards |-> b.guards, layers |-> t.layers,
                              roster |-> roster, scores |-> scores]]
  BY Zenon DEF TakeHops
<1> DEFINE h == IF b.said = "ok" THEN HopsOfPath(b.path) ELSE [said |-> b.said, hops |-> None]
           x == IF h.said # "ok" THEN None ELSE Kept(t, scores, b)
<1>2. basis' = [basis EXCEPT !.hops = x]
  BY <1>1, Zenon DEF Kept
<1>3. h.said = "ok" => b.said = "ok"
  OBVIOUS
<1>4. x = None \/ (x = Kept(t, scores, b) /\ b.said = "ok")
  <2> HIDE DEF h
  <2> QED
    BY <1>3
<1>5. x # None => PathSoundOf(x)
  BY <1>4, BoundPathIsSound DEF TopoInv
<1> HIDE DEF x
<1>6. basis' = [topo |-> basis.topo, hops |-> x]
  BY <1>2 DEF TopoInv, BasisShape
<1> QED
  BY <1>5, <1>6

\* An action that leaves the topology alone and writes no history or clears its hops.
LEMMA HistoryKeeps ==
  ASSUME TopoInv, cfg' = cfg, epoch' \in Nat, DOMAIN roster' \subseteq Relay, topo' = topo,
         basis' = [topo |-> basis.topo, hops |-> basis'.hops],
         basis'.hops # None => PathSoundOf(basis'.hops)
  PROVE  TopoInv'
<1>1. basis'.hops # None => PathSoundOf(basis.hops)'
  BY DEF PathSoundOf
<1>2. (topo # None => TopoSound(topo))'
  BY DEF TopoInv, TopoSound
<1>3. basis' = [topo |-> basis'.topo, hops |-> basis'.hops]
  <2>1. basis'.topo = basis.topo
    OBVIOUS
  <2> QED
    BY <2>1
<1> QED
  BY <1>1, <1>2, <1>3 DEF TopoInv, BasisShape

LEMMA BasisKept ==
  ASSUME TopoInv, basis' = basis \/ basis' = [basis EXCEPT !.hops = None]
  PROVE  /\ basis' = [topo |-> basis.topo, hops |-> basis'.hops]
         /\ basis'.hops # None => PathSoundOf(basis'.hops)
<1>1. CASE basis' = basis
  BY <1>1 DEF TopoInv, BasisShape
<1>2. CASE basis' = [basis EXCEPT !.hops = None]
  <2>1. basis' = [topo |-> basis.topo, hops |-> None]
    BY <1>2 DEF TopoInv, BasisShape
  <2> QED
    BY <2>1
<1> QED
  BY <1>1, <1>2

LEMMA TopoInvNext == TopoInv /\ [PathNext]_pathVars => TopoInv'
<1> SUFFICES ASSUME TopoInv, [PathNext]_pathVars PROVE TopoInv'
  OBVIOUS
<1>0. cfg \in Configs /\ epoch \in Nat /\ DOMAIN roster \subseteq Relay /\ cfg.topoSeed \in Nat
  BY ClientPathAssumption DEF TopoInv
<1>1. CASE RosterChanges
  <2>1. DOMAIN roster' \subseteq Relay
    <3>1. CASE \E r \in DOMAIN roster : roster' = RestrictDomain(roster, LAMBDA q : q # r)
      <4>1. PICK r \in DOMAIN roster : roster' = RestrictDomain(roster, LAMBDA q : q # r)
        BY <3>1
      <4>2. DOMAIN roster' \subseteq DOMAIN roster
        BY <4>1 DEF RestrictDomain, Restrict
      <4> QED
        BY <1>0, <4>2
    <3>2. CASE \E rec \in Offered :
            roster' = [r \in DOMAIN roster \cup {rec.id} |->
                         IF r = rec.id THEN [jur |-> rec.jur, kem |-> rec.kem] ELSE roster[r]]
      <4>1. PICK rec \in Offered : DOMAIN roster' = DOMAIN roster \cup {rec.id}
        BY <3>2
      <4> QED
        BY <1>0, <4>1, ClientPathAssumption
    <3> QED
      BY <1>1, <3>1, <3>2 DEF RosterChanges
  <2>2. cfg' = cfg /\ epoch' = epoch /\ topo' = topo /\ basis' = basis
    BY <1>1 DEF RosterChanges
  <2> QED
    BY <1>0, <2>1, <2>2, BasisKept, HistoryKeeps
<1>2. CASE EpochEnds
  <2>1. epoch' \in Nat /\ cfg' = cfg /\ roster' = roster /\ topo' = topo /\ basis' = basis
    BY <1>0, <1>2 DEF EpochEnds
  <2> QED
    BY <1>0, <2>1, BasisKept, HistoryKeeps
<1>3. CASE \E r \in Relay : ScoreFalls(r)
  <2>1. epoch' = epoch /\ cfg' = cfg /\ roster' = roster /\ topo' = topo /\ basis' = basis
    BY <1>3 DEF ScoreFalls
  <2> QED
    BY <1>0, <2>1, BasisKept, HistoryKeeps
<1>4. CASE \E f \in BOOLEAN : BuildHeldTopology(f)
  <2>1. PICK f \in BOOLEAN : BuildHeldTopology(f)
    BY <1>4
  <2> DEFINE ids == IF f THEN AdmittedAbove(roster, ledger, Floor) ELSE AdmittedSorted(roster)
             t == BuildTopology(ids, epoch, cfg.topoSeed)
  <2>2. /\ cfg' = cfg /\ roster' = roster /\ epoch' = epoch
        /\ \/ topo' = topo /\ basis' = basis
           \/ topo' = t /\ basis' = [basis EXCEPT !.topo = Range(ids)]
    BY <2>1, Zenon DEF BuildHeldTopology
  <2>3. TopoSound(t)
    BY <1>0, AdmittedIsSound
  <2> HIDE DEF t, ids
  <2>4. CASE topo' = topo /\ basis' = basis
    BY <1>0, <2>2, <2>4, BasisKept, HistoryKeeps
  <2>5. CASE topo' = t /\ basis' = [basis EXCEPT !.topo = Range(ids)]
    <3>1. basis' = [topo |-> Range(ids), hops |-> basis.hops]
      BY <2>5 DEF TopoInv, BasisShape
    <3>2. TopoSound(topo')
      BY <2>3, <2>5
    <3>3. basis'.hops = basis.hops /\ basis' = [topo |-> basis'.topo, hops |-> basis'.hops]
      BY <3>1
    <3>4. (basis.hops # None => PathSoundOf(basis.hops))'
      BY <2>2, <3>3 DEF TopoInv, PathSoundOf
    <3>5. (topo # None => TopoSound(topo))'
      BY <3>2 DEF TopoSound
    <3> QED
      BY <1>0, <2>2, <3>3, <3>4, <3>5 DEF TopoInv, BasisShape
  <2> QED
    BY <2>2, <2>4, <2>5
<1>5. CASE ResolveHeld
  <2>1. /\ cfg' = cfg /\ roster' = roster /\ epoch' = epoch /\ topo' = topo
        /\ topo # None
        /\ basis' = [basis EXCEPT !.hops = None] \/ TakeHops(topo, ledger)
    BY <1>5, Zenon DEF ResolveHeld, NoHops
  <2>2. TopoSound(topo)
    BY <2>1 DEF TopoInv
  <2>3. /\ basis' = [topo |-> basis.topo, hops |-> basis'.hops]
        /\ basis'.hops # None => PathSoundOf(basis'.hops)
    BY <2>1, <2>2, TakeHopsKeeps, BasisKept
  <2> QED
    BY <1>0, <2>1, <2>3, HistoryKeeps
<1>6. CASE Resolve
  <2> DEFINE t == BuildTopology(AdmittedSorted(roster), epoch, cfg.topoSeed)
  <2>1. /\ cfg' = cfg /\ roster' = roster /\ epoch' = epoch /\ topo' = topo
        /\ basis' = [basis EXCEPT !.hops = None] \/ TakeHops(t, EmptyLedger)
    BY <1>6, Zenon DEF Resolve, ResolveRosterHops, ExplicitHops, NoHops
  <2>2. TopoSound(t)
    BY <1>0, AdmittedIsSound
  <2> HIDE DEF t
  <2>3. /\ basis' = [topo |-> basis.topo, hops |-> basis'.hops]
        /\ basis'.hops # None => PathSoundOf(basis'.hops)
    BY <2>1, <2>2, TakeHopsKeeps, BasisKept
  <2> QED
    BY <1>0, <2>1, <2>3, HistoryKeeps
<1>7. CASE Connect \/ CloseSession
  <2>1. epoch' = epoch /\ cfg' = cfg /\ roster' = roster /\ topo' = topo /\ basis' = basis
    BY <1>7 DEF Connect, CloseSession
  <2> QED
    BY <1>0, <2>1, BasisKept, HistoryKeeps
<1>8. CASE SendPaced
  <2>1. epoch' = epoch /\ cfg' = cfg /\ roster' = roster /\ topo' = topo /\ basis' = basis
    BY <1>8 DEF SendPaced
  <2> QED
    BY <1>0, <2>1, BasisKept, HistoryKeeps
<1>9. CASE SendRaw
  <2>1. epoch' = epoch /\ cfg' = cfg /\ roster' = roster /\ topo' = topo /\ basis' = basis
    BY <1>9 DEF SendRaw
  <2> QED
    BY <1>0, <2>1, BasisKept, HistoryKeeps
<1>10. CASE UNCHANGED pathVars
  <2>1. epoch' = epoch /\ cfg' = cfg /\ roster' = roster /\ topo' = topo /\ basis' = basis
    BY <1>10 DEF pathVars
  <2> QED
    BY <1>0, <2>1, BasisKept, HistoryKeeps
<1> QED
  BY <1>1, <1>2, <1>3, <1>4, <1>5, <1>6, <1>7, <1>8, <1>9, <1>10 DEF PathNext

\* PathSound: every path a client took, on any roster and with any draw of the
\* generators, has one relay of each layer, enters by a guard of which there are
\* GuardCount different ones, and was on the roster and at the floor when it was made.
THEOREM PathsAlwaysSound == PathSpec => []PathSound
<1>1. TopoInv => PathSound
  BY DEF TopoInv, PathSound, PathSoundOf
<1> QED
  BY <1>1, TopoInvInit, TopoInvNext, PTL DEF PathSpec
=============================================================================
