---------------------------- MODULE ClientCalls ----------------------------
(***************************************************************************)
(* The App's client side: Calls (Token and peer), their live rows, the     *)
(* bounded inbox of outcomes, the exchange table that matches responses,   *)
(* the pending CON of each request, client Observe rows and the cooldown   *)
(* an overloaded server asks for.                                          *)
(*                                                                         *)
(* Time is relative: a timer holds what is left of it.  A poll first       *)
(* expires calls and then handles at most one received message or one      *)
(* retransmission that gave up.  Peers may send any message.  The bytes of *)
(* block-wise bodies and uploads are left out.                             *)
(***************************************************************************)
EXTENDS Naturals, FiniteSets, FiniteSetsExt, Functions

CONSTANTS
  Calls,        \* Tokens; one is used for one call only
  PeerOf,       \* the peer of each call
  TargetOf,     \* peer, method, path and query of each call
  Mids,         \* Message IDs
  TxSlots,      \* TX datagram slots
  CALLS,        \* capacity of the live table and of the inbox
  ObserveRows,  \* capacity of the Observe table
  RxSlots,      \* RX datagrams
  FullResponses, \* replies keep their RX datagram until taken
  Revocable,    \* peers whose association may be removed
  Starts,       \* how the caller starts calls: a subset of {"off", "register"}
  Deadlines,    \* deadlines the caller gives calls, None among them
  Life,         \* bound: EXCHANGE_LIFETIME
  Cool,         \* bound: Max-Age of an overload response
  None

Exchanges == 1 .. Cardinality(TxSlots)   \* the exchange table has as many rows as TX slots
Peers == Range(PeerOf)
Targets == Range(TargetOf)
RX_HEADROOM == 1
TX_HEADROOM == 1
NSTART == 1

Modes == {"off", "register", "deregister"}
Failures == {"cancelled", "timedOut", "deadline", "reset", "refused", "revoked",
             "refreshFailed", "continuation", "headroom"}
Timer(n) == 0 .. n

LiveRow == [con: BOOLEAN, mode: Modes, due: Timer(Life) \cup {None},
            deadline: Nat \cup {None}, cool: Timer(Cool), retired: BOOLEAN,
            seen: BOOLEAN]
InboxRow == [complete: BOOLEAN, result: Failures \cup {"reply"}, datagram: BOOLEAN]

VARIABLES
  st,     \* live, inbox, ex (exchange table), cur (its cursor), pend, obs
  born,   \* history: calls whose Token was drawn
  taken,  \* history: calls whose outcome the caller has taken
  cooled  \* history: what is left of the longest cooldown asked for, per target

vars == <<st, born, taken, cooled>>

Init ==
  /\ st = [live |-> [c \in Calls |-> None], inbox |-> [c \in Calls |-> None],
           ex |-> [i \in Exchanges |-> None], cur |-> 1,
           pend |-> [t \in TxSlots |-> None], obs |-> {}]
  /\ born = {} /\ taken = {}
  /\ cooled = [g \in Targets |-> 0]

-----------------------------------------------------------------------------
(* Tables *)

Active(s, c) == s.live[c] # None /\ ~s.live[c].retired
Complete(s, c) == s.inbox[c] # None /\ s.inbox[c].complete
ObserveLive(s, c) == c \in s.obs

\* Exchange of call c, and of TX slot t: the first row that names it.
ExchangeOf(s, c) == {i \in Exchanges : s.ex[i] # None /\ s.ex[i].call = c}
FirstRow(rows) == IF rows = {} THEN {} ELSE {Min(rows)}

\* exchange_for_tx.  The slot of a NON or acknowledged request may have been
\* reused since.
ExchangeForTx(s, t) == FirstRow({i \in Exchanges : s.ex[i] # None /\ s.ex[i].tx = t})

ExchangeForMid(s, m, p) ==
  FirstRow({i \in Exchanges : s.ex[i] # None /\ s.ex[i].mid = m /\ PeerOf[s.ex[i].call] = p})

\* Mutant: the row stays in the table.
TakeExchangeNot(s, c) == s

TakeExchange(s, c) ==
  [s EXCEPT !.ex = [i \in Exchanges |-> IF i \in ExchangeOf(s, c) THEN None ELSE @[i]]]

\* take_pending_con and release of the slot: by Message ID and peer.
PendingOf(s, m, p) ==
  {t \in TxSlots : s.pend[t] # None /\ s.pend[t].mid = m /\ PeerOf[s.pend[t].call] = p}
DropPending(s, m, p) ==
  [s EXCEPT !.pend = [t \in TxSlots |-> IF t \in PendingOf(s, m, p) THEN None ELSE @[t]]]
DropPendingOfCall(s, c) ==
  [s EXCEPT !.pend = [t \in TxSlots |-> IF @[t] # None /\ @[t].call = c THEN None ELSE @[t]]]


\* ClientInbox::insert: the call's own row, else a free one, else nothing.
Inbox(s, c, row) ==
  IF s.inbox[c] # None \/ Cardinality({d \in Calls : s.inbox[d] # None}) < CALLS
  THEN [s EXCEPT !.inbox[c] = row] ELSE s

\* Mutant: the failed call keeps its Observe row.
EndObserveNot(s, c) == s

EndObserve(s, c) == [s EXCEPT !.obs = @ \ {c}]

\* fail_call: retire everything the call holds and store the failure.
FailCall(s, c, failure, releasePending) ==
  LET mids == {s.ex[i].mid : i \in ExchangeOf(s, c)}
      s1 == TakeExchange(s, c)
      s2 == IF releasePending /\ mids # {}
            THEN DropPending(s1, CHOOSE m \in mids : TRUE, PeerOf[c]) ELSE s1
      s3 == Inbox(EndObserve(s2, c), c, [complete |-> TRUE, result |-> failure, datagram |-> FALSE])
  IN IF s.live[c] = None THEN s3
     ELSE [s3 EXCEPT !.live[c].due = None, !.live[c].deadline = None]

\* Mutant: merging cooldowns keeps the one recorded first.
LongerFirst(a, b) == b

\* The longer of the removed row's and the retired row's cooldown.
Longer(a, b) == Max({a, b})

\* ClientLives::remove: a cooldown outlives its call, merged per target.
RemoveLive(s, c) ==
  LET row == s.live[c]
      others == {d \in Calls : /\ s.live[d] # None /\ s.live[d].retired
                               /\ TargetOf[d] = TargetOf[c]}
  IN IF ~Active(s, c) THEN s
     ELSE IF row.cool = 0 THEN [s EXCEPT !.live[c] = None]
     ELSE IF others # {}
     THEN LET d == CHOOSE d \in others : TRUE
          IN [s EXCEPT !.live[c] = None, !.live[d].cool = Longer(row.cool, @)]
     ELSE [s EXCEPT !.live[c] = [@ EXCEPT !.retired = TRUE, !.due = None, !.deadline = None,
                                          !.mode = "off"]]


\* expire_backoffs.
ExpireBackoffs(s) ==
  IF ~\E c \in Calls : s.live[c] # None /\ s.live[c].retired THEN s
  ELSE [s EXCEPT !.live = [c \in Calls |->
     IF @[c] # None /\ @[c].retired /\ @[c].cool = 0 THEN None ELSE @[c]]]

\* What expire_client_exchanges finds due for a call, and applies to each.
DueFailure(s, c) ==
  LET row == s.live[c]
  IN IF ~Active(s, c) \/ (Complete(s, c) /\ ~ObserveLive(s, c)) THEN None
     ELSE IF row.deadline = 0 THEN "deadline"
     ELSE IF row.due = 0 /\ ExchangeOf(s, c) # {} THEN "timedOut"
     ELSE None

Expire(s) ==
  LET s0 == ExpireBackoffs(s)
      due == {c \in Calls : DueFailure(s0, c) # None}
  IN IF due = {} THEN s0
     ELSE FoldSet(LAMBDA c, acc : FailCall(acc, c, DueFailure(s0, c), TRUE), s0, due)

-----------------------------------------------------------------------------
(* Requests *)

FreeExchange(s) == {i \in Exchanges : s.ex[i] = None}
\* The rotating search of the table's cursor.
NextExchange(s) ==
  LET ahead == {i \in FreeExchange(s) : i >= s.cur}
  IN IF ahead # {} THEN Min(ahead) ELSE Min(FreeExchange(s))
\* Mutant: the cursor does not wrap.
AfterNoWrap(i) == i + 1

After(i) == IF i = Cardinality(Exchanges) THEN 1 ELSE i + 1

FreeTx(s) == {t \in TxSlots : s.pend[t] = None}
\* A Message ID is not issued again while a request that carries it may live.
NewMids(s) == {m \in Mids : /\ \A i \in Exchanges : s.ex[i] # None => s.ex[i].mid # m
                            /\ \A t \in TxSlots : s.pend[t] # None => s.pend[t].mid # m}

\* A TX slot beyond the headroom, an exchange row and, for a CON, the peer's
\* NSTART budget.
MaySend(s, c, con) ==
  /\ FreeExchange(s) # {}
  /\ Cardinality(FreeTx(s)) > TX_HEADROOM
  /\ con => Cardinality({t \in TxSlots : s.pend[t] # None /\ PeerOf[s.pend[t].call] = PeerOf[c]})
            < NSTART

\* The states in which the request is on the wire: its exchange row names TX
\* slot t, which a CON keeps and a NON has released again.
SentStates(s, c, con) ==
  IF ~MaySend(s, c, con) THEN {}
  ELSE LET i == NextExchange(s)
       IN {[s EXCEPT !.ex[i] = [call |-> c, mid |-> m, tx |-> t],
                     !.cur = After(i),
                     !.pend[t] = IF con THEN [call |-> c, mid |-> m] ELSE None] :
             m \in NewMids(s), t \in FreeTx(s)}

NewRow(con, mode, deadline, seen) ==
  [con |-> con, mode |-> mode, due |-> Life, deadline |-> deadline, cool |-> 0,
   retired |-> FALSE, seen |-> seen]

\* response_credits: calls that hold or may still claim an RX datagram.
Credits(s) ==
  Cardinality({c \in Calls :
    IF Active(s, c) THEN ~(Complete(s, c) /\ s.inbox[c].result # "reply")
    ELSE s.inbox[c] # None /\ s.inbox[c].result = "reply"})

Credited(s) == FullResponses => Credits(s) < RxSlots - RX_HEADROOM

\* backoff_until: rows of the same target, retired ones too.
Cooling(s, c) ==
  \E d \in Calls : s.live[d] # None /\ s.live[d].cool > 0 /\ TargetOf[d] = TargetOf[c]

\* An Observe registration that waits for an outcome or is established.
Registered(s, c) ==
  /\ Active(s, c) /\ s.live[c].mode = "register" /\ s.live[c].due # None
  /\ ~Complete(s, c) \/ ObserveLive(s, c)

Same == UNCHANGED <<born, taken, cooled>>

\* Outgoing::send for a new call.  A registration for a target already observed
\* returns the existing call.  A request the transport does not take leaves
\* nothing behind.
Send(c, con, mode, deadline) ==
  LET s == ExpireBackoffs(st)
  IN /\ c \notin born
     /\ ~Cooling(s, c)
     /\ mode = "register" => ~\E d \in Calls : Registered(s, d) /\ TargetOf[d] = TargetOf[c]
     /\ Credited(s)
     /\ Cardinality({d \in Calls : s.live[d] # None}) < CALLS
     /\ \/ \E sent \in SentStates(s, c, con) :
             st' = [sent EXCEPT !.live[c] = NewRow(con, mode, deadline, FALSE)]
        \/ st' = s
     /\ born' = born \cup {c}
     /\ UNCHANGED <<taken, cooled>>

\* What abandon_send and fail_call leave of a request about to be replaced.
Retire(s, c) == FailCall(DropPendingOfCall(TakeExchange(s, c), c), c, "refreshFailed", TRUE)

\* Refresh or deregister: the old request's state is retired and a failure
\* stored, which only a request that was sent replaces.
Replace(c, mode) ==
  LET s == ExpireBackoffs(st)
      row == s.live[c]
      s1 == Retire(s, c)
      kept == IF mode = "register" THEN row.deadline ELSE None
  IN /\ Registered(s, c) /\ ~Cooling(s, c) /\ kept # 0
     /\ \/ \E sent \in SentStates(s1, c, row.con) :
             st' = [sent EXCEPT !.inbox[c] = None,
                                !.live[c] = NewRow(row.con, mode, kept,
                                                   mode = "register" /\ row.seen)]
        \/ st' = s1
     /\ Same

\* App::cancel.
Cancel(c) ==
  /\ Active(st, c) /\ (~Complete(st, c) \/ ObserveLive(st, c))
  /\ st' = FailCall(st, c, "cancelled", TRUE)
  /\ Same

\* take_response and take_response_into.
Take(c) ==
  /\ Complete(st, c)
  /\ LET s == [st EXCEPT !.inbox[c] = None]
     IN st' = IF ObserveLive(s, c) THEN s ELSE RemoveLive(s, c)
  /\ taken' = IF ObserveLive(st, c) THEN taken ELSE taken \cup {c}
  /\ UNCHANGED <<born, cooled>>

RevokeRow(s, c) == [FailCall(s, c, "revoked", TRUE) EXCEPT !.live[c] = None]

\* revoke_association: every row of the peer fails and goes.
Revoke(p) ==
  LET mine == {c \in Calls : PeerOf[c] = p /\ st.live[c] # None}
  IN /\ p \in Revocable /\ mine # {}
     /\ st' = FoldSet(LAMBDA c, acc : RevokeRow(acc, c), st, mine)
     /\ cooled' = [g \in Targets |-> IF \E c \in Calls : PeerOf[c] = p /\ TargetOf[c] = g
                                     THEN 0 ELSE cooled[g]]
     /\ UNCHANGED <<born, taken>>

-----------------------------------------------------------------------------
(* Polls *)

\* A poll with nothing to handle.
PollIdle ==
  /\ Expire(st) # st
  /\ st' = Expire(st)
  /\ Same

\* An empty ACK ends retransmission; the exchange waits for the response.
EmptyAck(m, p) ==
  LET s == Expire(st)
  IN /\ PendingOf(s, m, p) # {}
     /\ st' = DropPending(s, m, p)
     /\ Same

\* complete_client_rst, then the slot is released.
Reset(m, p) ==
  LET s == Expire(st)
      viaTx == UNION {ExchangeForTx(s, t) : t \in PendingOf(s, m, p)}
      rows == IF viaTx # {} THEN viaTx ELSE ExchangeForMid(s, m, p)
  IN /\ rows # {} \/ PendingOf(s, m, p) # {}
     /\ st' = DropPending(IF rows = {} THEN s
                          ELSE FailCall(s, s.ex[Min(rows)].call, "reset", FALSE), m, p)
     /\ Same

\* Retransmit::GiveUp of slot t.
GiveUp(t) ==
  LET s == Expire(st)
      rows == ExchangeForTx(s, t)
      s1 == IF rows = {} THEN s ELSE FailCall(s, s.ex[Min(rows)].call, "timedOut", FALSE)
  IN /\ s.pend[t] # None
     /\ st' = [s1 EXCEPT !.pend[t] = None]
     /\ Same

ViaExchange(s, c, ack, m) == \E i \in ExchangeOf(s, c) : ack => s.ex[i].mid = m

\* Mutant: a message for an ended call is a response of it.
MatchesEnded(s, c, ack, m) == ViaExchange(s, c, ack, m) \/ (~ack /\ c \in born)

\* matching_exchange or matching_observe.
Matches(s, c, ack, m) == ViaExchange(s, c, ack, m) \/ (~ack /\ ObserveLive(s, c))

\* The message layer is done with an accepted response: the exchange's request
\* and the request with the response's own Message ID are no longer repeated.
Quiet(s, c, ack, m) ==
  LET s1 == IF ViaExchange(s, c, ack, m)
            THEN DropPending(s, s.ex[Min(ExchangeOf(s, c))].mid, PeerOf[c]) ELSE s
  IN DropPending(s1, m, PeerOf[c])

\* record_observation.
Observation(s, c, seq) ==
  IF seq /\ s.live[c] # None THEN [s EXCEPT !.live[c].seen = TRUE] ELSE s

ObserveRoom(s, c) == ObserveLive(s, c) \/ Cardinality(s.obs) < ObserveRows

\* accept_client_observe.  seq: the response carries an Observe value.
AcceptObserve(s, c, seq, via) ==
  LET mode == IF Active(s, c) THEN s.live[c].mode ELSE "off"
      subscribed == mode = "register" \/ ObserveLive(s, c)
  IN IF mode # "deregister" /\ subscribed /\ seq
     THEN IF ObserveRoom(s, c) THEN [s EXCEPT !.obs = @ \cup {c}] ELSE s
     ELSE IF mode = "deregister" \/ subscribed \/ via THEN [s EXCEPT !.obs = @ \ {c}]
     ELSE s

\* record_backoff.
RecordBackoff(s, c, age) ==
  IF Active(s, c) THEN [s EXCEPT !.live[c].cool = Max({@, age})] ELSE s

\* Holding the reply's datagram would take the last free RX slot.
NoHeadroom(s, c) ==
  /\ FullResponses
  /\ ~(s.inbox[c] # None /\ s.inbox[c].datagram)
  /\ RxSlots - Cardinality({d \in Calls : s.inbox[d] # None /\ s.inbox[d].datagram}) - 1
       < RX_HEADROOM

\* A whole reply, in one datagram or as the last block of a body; age is the
\* Max-Age of an overload response and 0 for any other.
Reply(c, ack, m, assembled, seq, age) ==
  LET s == Expire(st)
      via == ViaExchange(s, c, ack, m)
      s1 == RecordBackoff(Quiet(s, c, ack, m), c, age)
      s2 == AcceptObserve(Observation(s1, c, seq), c, seq, via)
  IN /\ Matches(s, c, ack, m)
     /\ age > 0 => ~assembled /\ ~seq
     /\ st' = IF ~assembled /\ NoHeadroom(s1, c) THEN FailCall(s1, c, "headroom", TRUE)
              ELSE Inbox(TakeExchange(s2, c), c,
                         [complete |-> TRUE, result |-> "reply",
                          datagram |-> FullResponses /\ ~assembled])
     /\ cooled' = [cooled EXCEPT ![TargetOf[c]] = IF Active(s, c) THEN Max({@, age}) ELSE @]
     /\ UNCHANGED <<born, taken>>

Partial == [complete |-> FALSE, result |-> "reply", datagram |-> FALSE]

\* A block of a response body with more to come, or 2.31 for a block of an upload:
\* the next request of the call is sent, or the call fails.
Continue(c, ack, m, upload, seq) ==
  LET s == Expire(st)
      s1 == Quiet(s, c, ack, m)
      s2 == IF upload THEN s1 ELSE Inbox(Observation(s1, c, seq), c, Partial)
      s3 == TakeExchange(s2, c)
  IN /\ Matches(s, c, ack, m)
     /\ upload => ~seq
     /\ IF ~upload /\ s2.inbox[c] = None
        THEN st' = s2                        \* no row for it: Error::Saturated
        ELSE \/ st' \in SentStates(s3, c, ~Active(s3, c) \/ s3.live[c].con)
             \/ st' = FailCall(DropPendingOfCall(s3, c), c, "continuation", TRUE)
     /\ Same

\* The other responses.  ignored: it carries a critical option the client does not
\* know.  stale: a notification that is not fresh.  format: not the observed
\* Content-Format.  refused: metadata or block error.  duplicate: a block the
\* body has.  window: a block inside a Q-Block2 window.
Respond(c, ack, m, kind) ==
  LET s == Expire(st)
      quiet == Quiet(s, c, ack, m)
  IN /\ Matches(s, c, ack, m)
     /\ kind = "stale" => s.live[c] # None /\ s.live[c].seen
     /\ st' = CASE kind \in {"ignored", "stale"} -> IF ack THEN DropPending(s, m, PeerOf[c]) ELSE s
                [] kind = "format" -> FailCall(s, c, "refused", TRUE)
                [] kind = "refused" -> FailCall(quiet, c, "refused", TRUE)
                [] kind = "duplicate" -> quiet
                [] kind = "window" -> Inbox(quiet, c, Partial)
     /\ Same

Less(x) == IF x = None \/ x = 0 THEN x ELSE x - 1

Tick ==
  /\ st' = [st EXCEPT !.live = [c \in Calls |->
       IF @[c] = None THEN None
       ELSE [@[c] EXCEPT !.due = Less(@), !.deadline = Less(@), !.cool = Less(@)]]]
  /\ cooled' = [g \in Targets |-> Less(cooled[g])]
  /\ UNCHANGED <<born, taken>>

Kinds == {"ignored", "stale", "format", "refused", "duplicate", "window"}

Next ==
  \/ \E c \in Calls, con \in BOOLEAN, mode \in Starts, d \in Deadlines :
       Send(c, con, mode, d)
  \/ \E c \in Calls, mode \in {"register", "deregister"} : Replace(c, mode)
  \/ \E c \in Calls : Cancel(c) \/ Take(c)
  \/ \E p \in Peers : Revoke(p)
  \/ PollIdle
  \/ \E m \in Mids, p \in Peers : EmptyAck(m, p) \/ Reset(m, p)
  \/ \E t \in TxSlots : GiveUp(t)
  \/ \E c \in Calls, m \in Mids, ack, flag, seq \in BOOLEAN :
       \/ \E age \in 0 .. Cool : Reply(c, ack, m, flag, seq, age)
       \/ Continue(c, ack, m, flag, seq)
  \/ \E c \in Calls, m \in Mids, ack \in BOOLEAN, kind \in Kinds : Respond(c, ack, m, kind)
  \/ Tick

Spec == Init /\ [][Next]_vars

\* The caller keeps polling and takes outcomes, and time passes.
FairSpec == Spec /\ WF_vars(Tick) /\ WF_vars(PollIdle) /\ \A c \in Calls : WF_vars(Take(c))

-----------------------------------------------------------------------------
(* Every table holds rows of the Rust types of LiveCall, Exchange and
   ClientObserve, within its capacity. *)
TypeOK ==
  /\ st.live \in [Calls -> LiveRow \cup {None}]
  /\ st.inbox \in [Calls -> InboxRow \cup {None}]
  /\ st.ex \in [Exchanges -> [call: Calls, mid: Mids, tx: TxSlots] \cup {None}]
  /\ st.cur \in Exchanges
  /\ st.pend \in [TxSlots -> [call: Calls, mid: Mids] \cup {None}]
  /\ st.obs \in SUBSET Calls /\ Cardinality(st.obs) <= ObserveRows
  /\ born \in SUBSET Calls /\ taken \in SUBSET born
  /\ cooled \in [Targets -> Timer(Cool)]

Failed(c) == Complete(st, c) /\ st.inbox[c].result # "reply"

\* What the engine holds belongs to a call that still waits: every exchange and
\* client Observe row to an active call with no failure stored, and every
\* pending request to an exchange row of its own call.
HeldForLive ==
  /\ \A i \in Exchanges : st.ex[i] # None => Active(st, st.ex[i].call) /\ ~Failed(st.ex[i].call)
  /\ \A c \in st.obs : Active(st, c) /\ ~Failed(c)
  /\ \A t \in TxSlots : st.pend[t] # None =>
       \E i \in ExchangeOf(st, st.pend[t].call) : st.ex[i].mid = st.pend[t].mid


\* The outcome of a call that does not observe is final: it stays in the inbox as
\* it was stored until the caller takes it, whatever arrives late; only removing
\* the association replaces it.
OutcomeFinal ==
  [][\A c \in Calls : Complete(st, c) /\ ~ObserveLive(st, c) =>
       \/ st'.inbox[c] \in {st.inbox[c], None}
       \/ PeerOf[c] \in Revocable /\ st'.inbox[c].result = "revoked"]_vars

\* A call has one outcome: once the caller has it, nothing is stored for the
\* call again (calls of associations that stay).
OneOutcome == \A c \in taken : PeerOf[c] \notin Revocable => st.inbox[c] = None

\* Until the longest Max-Age a target asked for has passed, no request starts
\* there, whichever call was overloaded and whether or not it was taken.
CooldownHolds ==
  [][\A c \in Calls : ExchangeOf(st, c) = {} /\ st.live[c] = None /\ st'.live[c] # None
       => cooled[TargetOf[c]] = 0]_vars

\* Retransmission give-up completes the call whose request was given up.
GiveUpCompletes ==
  [][\A t \in TxSlots : st.pend[t] # None /\ GiveUp(t) => Complete(st', st.pend[t].call)]_vars

\* A separate response has a Message ID of the peer's own choosing and ends no
\* retransmission but that of its exchange's request.
SeparateLeavesOthers ==
  [][\A c \in Calls, m \in Mids : Reply(c, FALSE, m, FALSE, FALSE, 0) =>
       \A t \in TxSlots : LET pend == Expire(st).pend[t]
                          IN pend # None /\ pend.call # c => st'.pend[t] = pend]_vars

=============================================================================
