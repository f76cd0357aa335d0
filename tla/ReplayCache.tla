----------------------------- MODULE ReplayCache ----------------------------
(***************************************************************************)
(* The replay cache as a state machine: the calls aegis-crypto's public    *)
(* API allows, in any order.  Check is the one the relay makes for every   *)
(* packet (sphinx.rs process); advance_epoch and clear are public and      *)
(* documented for epoch boundaries.                                        *)
(*                                                                         *)
(* accepts, last and epochStart are history: how many tags were accepted,  *)
(* at which accept each tag was last accepted (0: never), and how many     *)
(* accepts had happened when the cache last threw away a generation.       *)
(***************************************************************************)
EXTENDS ReplayCacheOps

CONSTANTS
  NoVerdict,   (* no call answered yet                                      *)
  MaxAccepts   (* bound of the model: tags accepted in a behaviour          *)

ASSUME ReplayHistoryAssumption ==
  /\ MaxAccepts \in Nat
  /\ NoVerdict \notin [tag : Tag, fresh : BOOLEAN]

VARIABLES cache, verdict, accepts, last, epochStart

cacheVars == <<cache, verdict, accepts, last, epochStart>>

CacheInit ==
  /\ cache \in {NewReplayCache(c) : c \in Capacities}
  /\ verdict = NoVerdict
  /\ accepts = 0
  /\ last = [t \in Tag |-> 0]
  /\ epochStart = 0

\* check_and_insert(t) answering false.
RejectSeen(t) ==
  /\ ~IsFresh(cache, t)
  /\ cache' = CheckAndInsert(cache, t)
  /\ verdict' = [tag |-> t, fresh |-> FALSE]
  /\ UNCHANGED <<accepts, last, epochStart>>

\* check_and_insert(t) answering true.
AcceptFresh(t) ==
  /\ accepts < MaxAccepts
  /\ IsFresh(cache, t)
  /\ cache' = CheckAndInsert(cache, t)
  /\ verdict' = [tag |-> t, fresh |-> TRUE]
  /\ accepts' = accepts + 1
  /\ last' = [last EXCEPT ![t] = accepts + 1]
  /\ epochStart' = IF UnderPressure(cache) THEN accepts ELSE epochStart

Advance ==
  /\ cache' = AdvanceEpoch(cache)
  /\ verdict' = NoVerdict
  /\ epochStart' = accepts
  /\ UNCHANGED <<accepts, last>>

Clear ==
  /\ cache' = NewReplayCache(cache.capacity)
  /\ verdict' = NoVerdict
  /\ epochStart' = accepts
  /\ UNCHANGED <<accepts, last>>

CacheNext ==
  \/ \E t \in Tag : RejectSeen(t)
  \/ \E t \in Tag : AcceptFresh(t)
  \/ Advance
  \/ Clear

CacheSpec == CacheInit /\ [][CacheNext]_cacheVars

-----------------------------------------------------------------------------
TypeOK ==
  /\ cache \in ReplayCacheType
  /\ verdict \in [tag : Tag, fresh : BOOLEAN] \cup {NoVerdict}
  /\ accepts \in Nat
  /\ last \in [Tag -> Nat]
  /\ epochStart \in Nat

\* The three containers of replay.rs hold the same tags, each once, and every
\* tag is filed under the generation its queue entry names.  An eviction, a
\* generation drop or a wrap of the counter that reached only some of them
\* would leave a tag that is remembered but never scanned, or that counts
\* against the capacity for ever.
ContainersAgree ==
  /\ cache.seen = TagsInOrder(cache)
  /\ Cardinality(cache.seen) = Len(cache.order)
  /\ \A g \in Generation :
       cache.by_generation[g] =
         {cache.order[i].tag : i \in {j \in 1 .. Len(cache.order) :
                                        cache.order[j].gen = g}}

\* The memory bound: check_and_insert never leaves more than capacity queue
\* entries, so the scan of capacity slots sees all of them.
WithinCapacity == Len(cache.order) <= cache.capacity

\* The replay window: unless a whole generation was thrown away since, each of
\* the last capacity accepted tags is still remembered, so a replay of it is
\* rejected however inserts, evictions and rejected replays interleaved.
RecentTagsRemembered ==
  \A t \in Tag :
    /\ last[t] > epochStart
    /\ accepts - last[t] < cache.capacity
    => ~IsFresh(cache, t)

\* Below the pressure capacity only the FIFO makes room, at a full cache.
\* A pressure cache makes room from its threshold on.
Window == INSTANCE ReplayWindow
  WITH window <- [i \in 1 .. Len(cache.order) |-> cache.order[i].tag],
       limits <- [max |-> cache.capacity,
                  min |-> IF cache.capacity >= PressureCapacity
                          THEN PressureThreshold(cache) ELSE cache.capacity]

\* The cache implements the window: its answers are those of a window that
\* forgets from its old end and never before it has to.
ImplementsWindow == Window!Spec

=============================================================================
