------------------------------ MODULE Replies ------------------------------
(***************************************************************************)
(* The server side of one request: duplicate suppression (the dedup table, *)
(* its allocated backend's expiry bound, and the App's fail-closed key),   *)
(* the cached replies pinned in TX slots, TX admission with one slot of    *)
(* headroom, separate responses, and deferred replies completed by handle. *)
(*                                                                         *)
(* A key is one exchange: a peer with a Message ID.  The client may repeat *)
(* the request until EXCHANGE_LIFETIME has passed since it first sent it.  *)
(* One poll is one action: expiry first, then at most one request.  The    *)
(* engine's state is the record sv; a helper takes such a record and gives *)
(* the set of records the code may leave it in.                            *)
(***************************************************************************)
EXTENDS Naturals, FiniteSets, FiniteSetsExt

CONSTANTS Keys,             \* exchanges: (peer, Message ID)
          Confirmable,      \* the keys whose request is a CON
          Rerunnable,       \* ... whose method may run again: GET PUT DELETE iPATCH
          EngineKeys,       \* ... that raw Engine users insert without reply or due time
          Peer,             \* key -> the peer's address
          TxSlots,          \* TX datagram slots
          Entries,          \* rows of the dedup table
          DeferredRows,     \* rows of the deferred table
          Lifetime,         \* EXCHANGE_LIFETIME, in ticks
          DeferredLifetime, \* AppBuilder::deferred_lifetime, in ticks
          NSTART,           \* outstanding CONs per peer
          SendOutcomes,     \* outcomes of a transport send: {TRUE} or BOOLEAN
          MaxRuns,          \* bound: handler runs counted per key
          None              \* Option::None

TX_HEADROOM == 1
Empty == 0                  \* the cached reply is the empty ACK
Refused == MaxRuns + 1      \* ... is 5.03; a reply in 1 .. MaxRuns is that run's
Reply == 0 .. MaxRuns + 1

ASSUME KeysAssumption == /\ Confirmable \subseteq Keys
                         /\ Rerunnable \subseteq Keys
                         /\ EngineKeys \subseteq Keys
                         /\ IsFiniteSet(Keys) /\ IsFiniteSet(TxSlots)
ASSUME BoundAssumption == /\ Entries \in Nat /\ DeferredRows \in Nat
                          /\ Lifetime \in Nat \ {0} /\ DeferredLifetime \in Nat
                          /\ NSTART \in Nat \ {0} /\ MaxRuns \in Nat \ {0}
ASSUME SendAssumption == SendOutcomes \subseteq BOOLEAN

NotSent == Lifetime + 1      \* value of window before the request first arrives

Row == [left: 0 .. Lifetime, timed: BOOLEAN, reply: Reply \cup {None},
        pin: TxSlots \cup {None}]

VARIABLES sv,      \* the engine's and the App's tables, below
          runs,    \* handler runs of each key so far; also names deferred handles
          window,  \* ticks for which the client may still send this request
          evicted,   \* history: keys whose live row was evicted under pressure
          displaced, \* history: keys the fail-closed register forgot
          unacked    \* history: keys whose deferral the empty ACK failed to confirm

vars == <<sv, runs, window, evicted, displaced, unacked>>

Server == [dedup: [Keys -> Row \cup {None}],
           closed: [key: Keys, left: 0 .. Lifetime] \cup {None},
           bound: 0 .. Lifetime \cup {None},
           bytes: [TxSlots -> (Keys \X Reply) \cup {None}],
           cons: SUBSET TxSlots,
           deferred: [Keys -> [left: 0 .. DeferredLifetime, run: 1 .. MaxRuns] \cup {None}]]

-----------------------------------------------------------------------------
(* The dedup table *)

Stored(st) == {k \in Keys : st.dedup[k] # None}
TimedRows(st) == {k \in Stored(st) : st.dedup[k].timed}
Pinned(st) == {k \in Stored(st) : st.dedup[k].pin # None}
Oldest(st, S) == {k \in S : \A j \in S : st.dedup[k].left <= st.dedup[j].left}

\* Mutant: the row goes and its pinned slot stays occupied.
DropRowLeaksPin(st, k) == [st EXCEPT !.dedup[k] = None]

\* Mutant: the slot is freed and the row stays.
DropRowKeepsRow(st, k) ==
  [st EXCEPT !.bytes = [s \in TxSlots |-> IF s = st.dedup[k].pin THEN None ELSE @[s]]]

\* release_dedup_row: the row and the slot it pins.
DropRow(st, k) ==
  [st EXCEPT !.dedup[k] = None,
             !.bytes = [s \in TxSlots |-> IF s = st.dedup[k].pin THEN None ELSE @[s]]]

\* Mutant: insertion does not touch the bound.
NoteNothing(b, left) == b

\* DedupExpiry::note keeps the earliest deadline seen.
Note(b, left) == IF b = None \/ left < b THEN left ELSE b

Insert(st, k, row) ==
  [st EXCEPT !.dedup[k] = row,
             !.bound = IF row.timed THEN Note(@, row.left) ELSE @]

Fresh(reply, pin) == [left |-> Lifetime, timed |-> TRUE, reply |-> reply, pin |-> pin]

\* store_request_dedup: replace the key's own row, else take a free one, else
\* evict the oldest timed row; with none to evict the reply is not stored.
Store(st, k, row) ==
  LET base == IF st.dedup[k] # None THEN DropRow(st, k) ELSE st
      victims == Oldest(base, TimedRows(base))
  IN IF Cardinality(Stored(base)) < Entries
     THEN {[ok |-> TRUE, st |-> Insert(base, k, row), victim |-> {}]}
     ELSE IF victims = {}
     THEN {[ok |-> FALSE, st |-> base, victim |-> {}]}
     ELSE {[ok |-> TRUE, st |-> Insert(DropRow(base, v), k, row), victim |-> {v}]
             : v \in victims}


\* The rest of note_dedup_store: the one fail-closed key, for methods that
\* must not run again.
Close(st, k, ok) ==
  [st EXCEPT !.closed = IF ok THEN (IF @ # None /\ @.key = k THEN None ELSE @)
                        ELSE IF k \in Rerunnable \/ (@ # None /\ @.key = k) THEN @
                        ELSE [key |-> k, left |-> Lifetime]]

NoteStore(st, k, row) ==
  {[r EXCEPT !.st = Close(r.st, k, r.ok)] : r \in Store(st, k, row)}

RememberEmptyAck(st, k) ==
  IF k \in Confirmable THEN NoteStore(st, k, Fresh(Empty, None))
  ELSE {[ok |-> TRUE, st |-> st, victim |-> {}]}

\* expire_request_dedup with AllocMemory::try_expire_dedup, which skips the
\* scan while its lower bound lies ahead and leaves the exact minimum behind.
ExpireDedup(st) ==
  LET closed == IF st.closed # None /\ st.closed.left = 0 THEN None ELSE st.closed
      due == {k \in TimedRows(st) : st.dedup[k].left = 0}
      rest == {st.dedup[k].left : k \in TimedRows(st) \ due}
      pins == {st.dedup[k].pin : k \in due}
  IN IF st.bound # 0 THEN [st EXCEPT !.closed = closed]
     ELSE [st EXCEPT !.closed = closed,
                     !.dedup = [k \in Keys |-> IF k \in due THEN None ELSE @[k]],
                     !.bytes = [s \in TxSlots |-> IF s \in pins THEN None ELSE @[s]],
                     !.bound = IF rest = {} THEN None ELSE Min(rest)]

-----------------------------------------------------------------------------
(* TX admission *)

Free(st) == {s \in TxSlots : st.bytes[s] = None}

\* Mutant: ordinary work may take the last free slot.
RoomNoHeadroom(st) == Free(st) # {}

\* ordinary_tx: work that may keep its slot leaves one for control traffic.
Room(st) == Cardinality(Free(st)) > TX_HEADROOM

\* Mutant: the slot is released and the row still points at it.
TombstoneKeepsPin(st, k) ==
  [st EXCEPT !.bytes = [s \in TxSlots |-> IF s = st.dedup[k].pin THEN None ELSE @[s]]]

\* evict_one_dedup_pin: the slot is freed, the row becomes an empty-ACK
\* tombstone with the same deadline.
Tombstone(st, k) ==
  Insert(DropRow(st, k), k, [st.dedup[k] EXCEPT !.reply = Empty, !.pin = None])

EvictOne(st) ==
  LET old == Oldest(st, TimedRows(st) \cap Pinned(st))
  IN IF Room(st) \/ old = {} THEN {st} ELSE {Tombstone(st, k) : k \in old}

\* The loop of acquire_tx_or_evict and refuse_dispatch: TX_HEADROOM + 1 turns.
Reclaim(st) == UNION {EvictOne(a) : a \in EvictOne(st)}

Fill(st, s, k, reply) == [st EXCEPT !.bytes[s] = <<k, reply>>]
Outstanding(st, p) == {s \in st.cons : Peer[st.bytes[s][1]] = p}

-----------------------------------------------------------------------------
(* Replying.  Each gives a set of [ok, st, victim]. *)

\* send_response, reply of at most REPLAY_MAX bytes: cached inline, then sent
\* and released whether or not the transport took it.
SmallReply(st, k, reply) ==
  IF k \in Confirmable THEN NoteStore(st, k, Fresh(reply, None))
  ELSE {[ok |-> TRUE, st |-> st, victim |-> {}]}

\* send_response, longer reply: the TX slot itself becomes the cache, unless
\* the row was not stored (KeepTx::No).
LargeReply(st, k, reply) ==
  IF k \notin Confirmable THEN SmallReply(st, k, reply)
  ELSE UNION {{IF r.ok THEN r ELSE [r EXCEPT !.st.bytes[s] = None]
                 : r \in NoteStore(Fill(st, s, k, reply), k, Fresh(reply, s))}
                 : s \in Free(st)}

\* The response half of send_separate: a CON of its own under NSTART, or a NON.
SendCon(st, k, reply, sent) ==
  UNION {IF Room(a) /\ sent /\ k \notin Confirmable
         THEN {[ok |-> TRUE, st |-> a, victim |-> {}]}
         ELSE IF Room(a) /\ sent /\ Cardinality(Outstanding(a, Peer[k])) < NSTART
         THEN {[ok |-> TRUE, victim |-> {},
                st |-> [Fill(a, s, k, reply) EXCEPT !.cons = @ \cup {s}]]
                 : s \in Free(a)}
         ELSE {[ok |-> FALSE, st |-> a, victim |-> {}]}
           : a \in Reclaim(st)}

\* send_separate remembers the empty ACK, sends it, then sends the response.
SeparateReply(st, k, reply, acked, sent) ==
  UNION {IF ~acked /\ k \in Confirmable
         THEN {[ok |-> FALSE, st |-> r.st, victim |-> r.victim]}
         ELSE {[c EXCEPT !.victim = r.victim] : c \in SendCon(r.st, k, reply, sent)}
           : r \in RememberEmptyAck(st, k)}

-----------------------------------------------------------------------------
(* Deferred rows *)

\* DeferredTable::expire.
ExpireDeferred(st) ==
  [st EXCEPT !.deferred = [k \in Keys |-> IF @[k] # None /\ @[k].left = 0
                                          THEN None ELSE @[k]]]

Candidate(st) ==
  DeferredLifetime > 0 /\ Cardinality({k \in Keys : st.deferred[k] # None}) < DeferredRows

\* What every poll does before it looks at a datagram.
Polled == ExpireDedup(ExpireDeferred(sv))

-----------------------------------------------------------------------------
Init ==
  /\ sv = [dedup |-> [k \in Keys |-> None], closed |-> None, bound |-> None,
           bytes |-> [s \in TxSlots |-> None], cons |-> {},
           deferred |-> [k \in Keys |-> None]]
  /\ runs = [k \in Keys |-> 0]
  /\ window = [k \in Keys |-> NotSent]
  /\ evicted = {} /\ displaced = {} /\ unacked = {}

\* What a store did to the histories: the live row it evicted, the
\* fail-closed key it overwrote.
Record(r) ==
  /\ sv' = r.st
  /\ evicted' = evicted \cup r.victim
  /\ displaced' = IF sv.closed # None /\ sv.closed.left > 0 /\ r.st.closed # None
                       /\ r.st.closed.key # sv.closed.key
                  THEN displaced \cup {sv.closed.key} ELSE displaced

\* Mutant: a row whose reply is in a TX slot is not a hit.
HitInlineOnly(st, k) == st.dedup[k] # None /\ st.dedup[k].reply # None /\ st.dedup[k].pin = None

\* replay_con_request: the row has a reply to repeat.
Hit(st, k) == st.dedup[k] # None /\ st.dedup[k].reply # None

\* ... or it has none, or no row exists but the key is the fail-closed one,
\* and the method must not run again.
FailClosed(st, k) ==
  /\ k \notin Rerunnable
  /\ \/ st.dedup[k] # None /\ st.dedup[k].reply = None
     \/ st.dedup[k] = None /\ st.closed # None /\ st.closed.key = k

\* A request of k arrives.  The client's window is counted from the first
\* arrival, the latest it can have started.
Arrives(k) ==
  /\ window[k] > 0
  /\ window' = [window EXCEPT ![k] = IF @ = NotSent THEN Lifetime ELSE @]

\* dispatch_rx on a request with a live deferred row: an empty ACK, no more.
DuplicateOfDeferred(k) ==
  /\ Arrives(k)
  /\ Polled.deferred[k] # None
  /\ sv' = Polled
  /\ UNCHANGED <<runs, evicted, displaced, unacked>>

\* The cached reply is sent again, from the row or from the pinned slot.
Replay(k) ==
  /\ Arrives(k)
  /\ k \in Confirmable
  /\ Polled.deferred[k] = None
  /\ Hit(Polled, k)
  /\ sv' = Polled
  /\ UNCHANGED <<runs, evicted, displaced, unacked>>

ReplayClosed(k) ==
  /\ Arrives(k)
  /\ k \in Confirmable
  /\ Polled.deferred[k] = None
  /\ FailClosed(Polled, k)
  /\ \E r \in RememberEmptyAck(Polled, k) : Record(r)
  /\ UNCHANGED <<runs, unacked>>

\* The request is new to the server.
New(k) ==
  /\ Polled.deferred[k] = None
  /\ k \in Confirmable => ~Hit(Polled, k) /\ ~FailClosed(Polled, k)

\* refuse_new_request and send_refusal: 5.03 from a control slot, inline cache.
\* rxFull: the receive pool has no packet left beside this one.
Refuse(k) ==
  /\ Arrives(k)
  /\ New(k)
  /\ \E rxFull \in BOOLEAN, st \in {Polled} \cup Reclaim(Polled) :
       /\ IF rxFull THEN st = Polled ELSE st \in Reclaim(Polled) /\ ~Room(st)
       /\ IF Free(st) = {} THEN Record([ok |-> FALSE, st |-> st, victim |-> {}])
          ELSE \E r \in SmallReply(st, k, Refused) : Record(r)
  /\ UNCHANGED <<runs, unacked>>

\* An admitted request reaches its handler, which answers at once.
Admitted(k, st) == New(k) /\ runs[k] < MaxRuns /\ st \in Reclaim(Polled) /\ Room(st)

Handle(k) ==
  /\ Arrives(k)
  /\ \E st \in Reclaim(Polled) :
       /\ Admitted(k, st)
       /\ \E r \in SmallReply(st, k, runs[k] + 1) \cup LargeReply(st, k, runs[k] + 1)
                     \cup RememberEmptyAck(st, k) : Record(r)
  /\ runs' = [runs EXCEPT ![k] = @ + 1]
  /\ UNCHANGED unacked

\* ... or asks for a separate response in the same poll.
HandleSeparate(k) ==
  /\ Arrives(k)
  /\ \E st \in Reclaim(Polled), acked, sent \in SendOutcomes :
       /\ Admitted(k, st)
       /\ \E r \in SeparateReply(st, k, runs[k] + 1, acked, sent) : Record(r)
  /\ runs' = [runs EXCEPT ![k] = @ + 1]
  /\ UNCHANGED unacked

\* DeferredTable::insert comes before the empty ACK.
DeferRow(st, k) ==
  [st EXCEPT !.deferred[k] = [left |-> DeferredLifetime, run |-> runs[k] + 1]]

\* ... or defers: the row first, then the empty ACK, which is remembered only
\* when it was sent.  A full table refuses with 5.03.
HandleDefer(k) ==
  /\ Arrives(k)
  /\ \E st \in Reclaim(Polled), acked \in SendOutcomes :
       /\ Admitted(k, st)
       /\ IF Candidate(st)
          THEN /\ \E r \in IF acked THEN RememberEmptyAck(DeferRow(st, k), k)
                           ELSE {[ok |-> FALSE, st |-> DeferRow(st, k), victim |-> {}]} :
                    Record(r)
               /\ unacked' = IF acked THEN unacked ELSE unacked \cup {k}
          ELSE /\ \E r \in SmallReply(st, k, Refused) : Record(r)
               /\ UNCHANGED unacked
  /\ runs' = [runs EXCEPT ![k] = @ + 1]

\* App::complete with the handle of run n of key k: the row is cleared when
\* the response is handed over and kept for a retry when it is not.
Complete(k, n) ==
  LET st == ExpireDeferred(sv) IN
  /\ n <= runs[k]
  /\ IF st.deferred[k] # None /\ st.deferred[k].run = n
     THEN \E sent \in SendOutcomes : \E r \in SeparateReply(st, k, n, TRUE, sent) :
            Record(IF r.ok THEN [r EXCEPT !.st.deferred[k] = None] ELSE r)
     ELSE Record([ok |-> FALSE, st |-> st, victim |-> {}])
  /\ UNCHANGED <<runs, window, unacked>>

\* App::cancel_deferred.
CancelDeferred(k, n) ==
  /\ sv.deferred[k] # None /\ sv.deferred[k].run = n
  /\ sv' = [sv EXCEPT !.deferred[k] = None]
  /\ UNCHANGED <<runs, window, evicted, displaced, unacked>>

\* The peer answers a separate CON, or the App gives up on it.
ConEnds(s) ==
  /\ s \in sv.cons
  /\ sv' = [Polled EXCEPT !.bytes[s] = None, !.cons = @ \ {s}]
  /\ UNCHANGED <<runs, window, evicted, displaced, unacked>>

\* A raw Engine user fills a row; it has no reply and never expires.
InsertDedup(k) ==
  /\ k \in EngineKeys \ Stored(sv)
  /\ Cardinality(Stored(sv)) < Entries
  /\ sv' = Insert(sv, k, [left |-> 0, timed |-> FALSE, reply |-> None, pin |-> None])
  /\ UNCHANGED <<runs, window, evicted, displaced, unacked>>

\* A poll with nothing to receive.
Poll ==
  /\ sv' = Polled
  /\ UNCHANGED <<runs, window, evicted, displaced, unacked>>

Older(left) == IF left = 0 THEN 0 ELSE left - 1

Tick ==
  /\ sv' = [sv EXCEPT
       !.dedup = [k \in Keys |-> IF @[k] = None THEN None
                                 ELSE [@[k] EXCEPT !.left = Older(@)]],
       !.closed = IF @ = None THEN None ELSE [@ EXCEPT !.left = Older(@)],
       !.bound = IF @ = None THEN None ELSE Older(@),
       !.deferred = [k \in Keys |-> IF @[k] = None THEN None
                                    ELSE [@[k] EXCEPT !.left = Older(@)]]]
  /\ window' = [k \in Keys |-> IF window[k] = NotSent THEN NotSent
                              ELSE Older(window[k])]
  /\ UNCHANGED <<runs, evicted, displaced, unacked>>

Next ==
  \/ \E k \in Keys : \/ DuplicateOfDeferred(k) \/ Replay(k) \/ ReplayClosed(k)
                     \/ Refuse(k) \/ Handle(k) \/ HandleSeparate(k) \/ HandleDefer(k)
                     \/ InsertDedup(k)
                     \/ \E n \in 1 .. MaxRuns : Complete(k, n) \/ CancelDeferred(k, n)
  \/ \E s \in TxSlots : ConEnds(s)
  \/ Poll
  \/ Tick

Fairness == WF_vars(Tick) /\ WF_vars(Poll)

Spec == Init /\ [][Next]_vars
LiveSpec == Spec /\ Fairness

-----------------------------------------------------------------------------
\* Types and table sizes: no more rows than the configured capacities.
TypeOK ==
  /\ sv \in Server
  /\ Cardinality(Stored(sv)) <= Entries
  /\ runs \in [Keys -> 0 .. MaxRuns]
  /\ window \in [Keys -> 0 .. NotSent]
  /\ evicted \subseteq Keys /\ displaced \subseteq Keys
  /\ unacked \subseteq Keys

\* Every occupied TX slot has exactly one owner at rest: one dedup row that
\* pins it, or one outstanding CON.  No path leaks a slot (remember_tx_reply,
\* evictions, expiry) and none releases a slot that another owner still uses.
TxOwned ==
  LET pins == {sv.dedup[k].pin : k \in Pinned(sv)}
  IN /\ TxSlots \ Free(sv) = pins \cup sv.cons
     /\ pins \cap sv.cons = {}
     /\ \A j, k \in Pinned(sv) : sv.dedup[j].pin = sv.dedup[k].pin => j = k

\* A duplicate is answered from a pinned slot with the reply of its own
\* exchange: the slot still holds the bytes remember_tx_reply pinned.
PinHoldsReply ==
  \A k \in Pinned(sv) : sv.bytes[sv.dedup[k].pin] = <<k, sv.dedup[k].reply>>

\* Whatever is cached, outstanding or deferred, one TX slot stays free for an
\* empty ACK, a Reset, a replay or a 5.03 (TX_HEADROOM).
Headroom == Free(sv) # {}


\* A cached reply is never replaced by a different one: a row keeps its reply,
\* or becomes an empty-ACK tombstone, or goes.  Evicted and rerun keys aside,
\* the client never sees two different answers to one CON.
ReplayStable ==
  [][\A k \in Confirmable :
       sv.dedup[k] # None /\ sv'.dedup[k] # None =>
         \/ sv'.dedup[k].reply \in {sv.dedup[k].reply, Empty}
         \/ sv.dedup[k].reply = None \/ sv.dedup[k].left = 0]_vars

\* Every App row expires and gives its TX slot back, and every deferred row
\* ends, by completion or at its deadline.
RowsExpire ==
  \A k \in Keys : []<>(k \notin TimedRows(sv)) /\ []<>(sv.deferred[k] = None)
=============================================================================
