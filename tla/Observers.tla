----------------------------- MODULE Observers -----------------------------
(***************************************************************************)
(* The server side of Observe: the fixed table of relations, the pending   *)
(* CONs that carry confirmable notifications, and the three callers that   *)
(* change both: the application (signal, notify), the poll of a blocking   *)
(* App, and the datagrams a poll dispatches.  One Poll is one action: it   *)
(* retransmits or gives up, expires one lifetime, selects one due row,     *)
(* dispatches one datagram and only then claims and sends for that row.    *)
(*                                                                         *)
(* Left out: payloads, formats and Block2 bodies of notifications (they    *)
(* only decide whether an outcome is a value, a final error or suppressed),*)
(* Q-Block notification bursts, deferred registrations, TX pins, and reuse *)
(* of a Message ID a row still remembers (a full round of 65,536 IDs).     *)
(***************************************************************************)
EXTENDS Naturals, FiniteSets, FiniteSetsExt

CONSTANTS None,
          Keys,               \* ObserveKey: a Token at an endpoint
          EndpointOf,         \* [Keys -> endpoints], association routes included
          Physical,           \* Endpoint::physical
          ResourceOf,         \* the resource a key registers for
          Rows,               \* capacities().observe_entries
          TxSlots,
          Mids,               \* Message IDs, as naturals
          MAX_RETRANSMIT,
          NON_TIMEOUT,        \* ticks a NON notification holds its peer
          CONFIRM_INTERVAL,   \* ticks until a confirmable one is mandatory
          MaxAge,
          SeqMod,             \* 2^24 in the code
          Sends               \* what a transport send may report

Endpoints == {EndpointOf[k] : k \in Keys}
Peers == {Physical[e] : e \in Endpoints}
Resources == {ResourceOf[k] : k \in Keys}

ASSUME ObserversAssumption ==
    /\ Rows \in Nat \ {0} /\ MAX_RETRANSMIT \in Nat /\ SeqMod \in Nat /\ SeqMod > 2
    /\ NON_TIMEOUT \in Nat /\ CONFIRM_INTERVAL \in Nat /\ MaxAge \in Nat
    /\ Mids \subseteq Nat /\ Sends \subseteq {"sent", "refused", "unsure"}
    /\ None \notin Keys

VARIABLE st

vars == <<st>>

Slots == 0 .. Rows - 1

\* ObserveNotifyHold, ObserveLifetime (off: a CON-wait that is due) and
\* ObserveInterest.
Holds == [mid : Mids, con : BOOLEAN, left : 0 .. NON_TIMEOUT]
Lives == [left : 0 .. MaxAge, off : BOOLEAN]
Interests ==
    [key : Keys, seq : 0 .. SeqMod - 1, due : BOOLEAN, deleted : BOOLEAN,
     confirm : 0 .. CONFIRM_INTERVAL \cup {None}, hold : Holds \cup {None},
     old : SUBSET Mids, life : Lives \cup {None}]

\* PendingCon.  `what` is history: the value or the final notification of a
\* relation, or the CON of another owner.
Packets == [mid : Mids, dest : Endpoints, tries : 0 .. MAX_RETRANSMIT,
            what : {"value", "final", "foreign"}]

\* ObserveInterest::new
NewInterest(k, seq) ==
    [key |-> k, seq |-> seq, due |-> FALSE, deleted |-> FALSE, confirm |-> None,
     hold |-> None, old |-> {}, life |-> None]

-----------------------------------------------------------------------------
(* The table, its rotating cursor, and the pending CONs *)

Live(s) == {i \in Slots : s.table[i] # None}

Put(s, i, row) == [s EXCEPT !.table[i] = row]

\* lookup_observe and take_observe; the numbers heard belong to the relation.
At(s, k) == {i \in Live(s) : s.table[i].key = k}
Take(s, k) == [s EXCEPT !.table = [i \in Slots |-> IF i \in At(s, k) THEN None ELSE @[i]],
                        !.heard[k].seq = None]

\* A scan of some slots from the cursor on; None when there are none.
Distance(s, i) == (i + Rows - s.cursor) % Rows
First(s, S) == IF S = {} THEN None
               ELSE CHOOSE i \in S : \A j \in S : Distance(s, i) <= Distance(s, j)

\* advance_observe(offset + 1)
Advance(s, i) == [s EXCEPT !.cursor = (i + 1) % Rows]

\* insert_observe of a key that is not stored.
Insert(s, row) ==
    LET i == First(s, Slots \ Live(s))
    IN  IF i = None THEN s ELSE Advance(Put(s, i, row), i)

\* lookup_owned_con, and release_tx of what it finds.
Owned(s, m, e) == {t \in TxSlots : s.tx[t] # None /\ s.tx[t].mid = m /\ s.tx[t].dest = e}
Release(s, T) == [s EXCEPT !.tx = [t \in TxSlots |-> IF t \in T THEN None ELSE @[t]]]

\* A CON enters the pending table; which free slot it gets is immaterial here.
Free(s) == {t \in TxSlots : s.tx[t] = None}
Arm(s, m, e, what) ==
    [s EXCEPT !.tx[CHOOSE t \in Free(s) : TRUE] = [mid |-> m, dest |-> e, tries |-> 0, what |-> what]]

\* The packet of a row's CON hold is released before the row itself goes; one
\* slip forgets the packet, the other the row.
OwnPacket(s, row) ==
    IF row.hold # None /\ row.hold.con THEN Owned(s, row.hold.mid, EndpointOf[row.key]) ELSE {}
RetireRowOnly(s, k) == Take(s, k)
RetirePacketOnly(s, k) == Release(s, UNION {OwnPacket(s, s.table[i]) : i \in At(s, k)})
Retire(s, k) == Take(Release(s, UNION {OwnPacket(s, s.table[i]) : i \in At(s, k)}), k)

\* AppIds::next_for: an ID nobody remembers.
Remembered(s) ==
    {s.tx[t].mid : t \in {u \in TxSlots : s.tx[u] # None}}
      \cup UNION {s.table[i].old : i \in Live(s)}
      \cup {s.table[i].hold.mid : i \in {j \in Live(s) : s.table[j].hold # None}}
NextMid(s) == Min(Mids \ Remembered(s))

-----------------------------------------------------------------------------
(* NSTART: who still counts against a physical peer *)

\* ObserveInterest::is_notify_held
IsHeld(row) ==
    \/ row.life # None /\ row.life.off
    \/ row.hold # None /\ (row.hold.con \/ row.hold.left > 0)

PeerOf(row) == Physical[EndpointOf[row.key]]

\* endpoint_notify_held >= NSTART
RowsHold(s, p) == \E i \in Live(s) : PeerOf(s.table[i]) = p /\ IsHeld(s.table[i])

\* pending_has_observe_hold
HasHold(s, con) ==
    \E i \in Live(s) :
        LET row == s.table[i]
        IN  /\ EndpointOf[row.key] = con.dest
            /\ row.hold # None /\ row.hold.con /\ row.hold.mid = con.mid

\* observe_endpoint_held >= NSTART: rows, and CONs no row accounts for, which
\* RowsOnly overlooks.
RowsOnly(s, p) == RowsHold(s, p)
EndpointHeld(s, p) ==
    \/ RowsHold(s, p)
    \/ \E t \in TxSlots : s.tx[t] # None /\ Physical[s.tx[t].dest] = p /\ ~HasHold(s, s.tx[t])

\* The admission test of reserve_pending_con (PendingCons, NSTART = 1).
Admits(s, e) == \A t \in TxSlots : s.tx[t] # None => Physical[s.tx[t].dest] # Physical[e]

-----------------------------------------------------------------------------
(* Sending a notification *)

\* What a source or the caller's response comes to for one row (a value, a final
\* error, or an error the registration's No-Response suppresses), and what the
\* transport reports.  A source with no snapshot is a refused send to the row.
Outcomes == [kind : {"value", "final"}, send : Sends] \cup {[kind |-> "mute", send |-> "sent"]}

\* A deleted resource answers 4.04 whatever the source says.
Kind(row, o) == IF row.deleted /\ o.kind # "mute" THEN "final" ELSE o.kind

\* History: the Observe value the client may have seen last, and whether each
\* one was newer (RFC 7641 section 3.4) than the one before.
Newer(new, old) ==
    LET d == (new + SeqMod - old) % SeqMod IN d > 0 /\ 2 * d < SeqMod
Hear(s, k, seq) ==
    LET h == s.heard[k]
    IN  [s EXCEPT !.heard[k] =
            [seq |-> seq, newer |-> h.newer /\ (h.seq # None => Newer(seq, h.seq))]]

\* take_due and restore_due.
TakeDue(row) == [row EXCEPT !.due = FALSE, !.seq = (@ + 1) % SeqMod]
RestoreDue(row, seq) ==
    IF row.due \/ row.seq # seq THEN row
    ELSE [row EXCEPT !.due = TRUE, !.seq = (seq + SeqMod - 1) % SeqMod]

MustConfirm(row) == row.confirm = 0

\* ObserveInterest::record_notify
Con(m) == [mid |-> m, con |-> TRUE, left |-> 0]
Non(m) == [mid |-> m, con |-> FALSE, left |-> NON_TIMEOUT]
RecordNotify(row, m, con) ==
    IF con THEN [row EXCEPT !.old = {}, !.life = None, !.confirm = CONFIRM_INTERVAL,
                            !.hold = Con(m)]
    ELSE [row EXCEPT !.old = {}, !.confirm = IF @ = None THEN CONFIRM_INTERVAL ELSE @,
                     !.hold = Non(m)]

\* record_observe_notify, refused while the row or its peer is still held, then
\* refresh_observe_max_age for a NON.
Fresh == [left |-> MaxAge, off |-> FALSE]
Record(s, i, m, con) ==
    LET row == s.table[i]
        kept == IF RowsHold(s, PeerOf(row)) THEN row ELSE RecordNotify(row, m, con)
    IN  Put(s, i, IF con THEN kept ELSE [kept EXCEPT !.life = Fresh])

\* send_notification for a row whose sequence was just assigned.
SendNotification(s, i, o) ==
    LET row == s.table[i]
        e == EndpointOf[row.key]
        kind == Kind(row, o)
        con == kind = "final" \/ MustConfirm(row)
        m == NextMid(s)
        heard == IF kind = "value" THEN Hear(s, row.key, row.seq) ELSE s
        armed == IF con THEN Arm(heard, m, e, kind) ELSE heard
    IN  CASE kind = "mute" -> [s |-> Retire(s, row.key), result |-> "muted"]
          [] kind # "mute" /\ (Free(s) = {} \/ (con /\ ~Admits(s, e)) \/ o.send = "refused") ->
                [s |-> s, result |-> "error"]
          [] OTHER ->
                IF o.send = "unsure" THEN [s |-> heard, result |-> "error"]
                ELSE [s |-> IF kind = "final" THEN Take(armed, row.key) ELSE Record(armed, i, m, con),
                      result |-> "sent"]

\* The send and the restore_observe_due of its caller when it failed.
SendOrRestore(s, i, o) ==
    LET seq == s.table[i].seq
        r == SendNotification(s, i, o)
    IN  IF r.result # "error" THEN r
        ELSE [s |-> Put(r.s, i, RestoreDue(r.s.table[i], seq)), result |-> "error"]

-----------------------------------------------------------------------------
(* The application *)

OfResource(s, r) == {i \in Live(s) : ResourceOf[s.table[i].key] = r}

\* App::signal: signal_observe_resource
Signal(r) ==
    st' = [st EXCEPT !.table = [i \in Slots |-> IF i \in OfResource(st, r)
                                  THEN [@[i] EXCEPT !.due = TRUE] ELSE @[i]]]

\* notify_engine: every row of the resource in slot order, until a send fails.
\* The NSTART cache is filled once and only grows.
NotifyRow(a, i, r, con) ==
    IF a.stop \/ i \notin OfResource(a.s, r) \/ PeerOf(a.s.table[i]) \in a.held THEN {a}
    ELSE LET row == a.s.table[i]
             asked == IF con THEN [row EXCEPT !.confirm = 0] ELSE row
         IN  {[s |-> res.s, stop |-> res.result = "error",
               held |-> IF res.result = "sent" THEN a.held \cup {PeerOf(row)} ELSE a.held] :
              res \in {SendOrRestore(Put(a.s, i, TakeDue(asked)), i, o) : o \in Outcomes}}

Notify(r, con) ==
    LET start == [s |-> st, stop |-> FALSE, held |-> {p \in Peers : EndpointHeld(st, p)}]
        after[i \in 0 .. Rows] ==
            IF i = 0 THEN {start}
            ELSE UNION {NotifyRow(a, i - 1, r, con) : a \in after[i - 1]}
    IN  \E a \in after[Rows] : st' = a.s

\* A CON of another owner: a client request, a separate response.
Foreign(e) ==
    /\ Admits(st, e)
    /\ Free(st) # {}
    /\ st' = Arm(st, NextMid(st), e, "foreign")

-----------------------------------------------------------------------------
(* Matching Message IDs *)

\* lookup_observe_unacked and superseded_observe_notify: lowest slot first.
Unacked(s, m, e) ==
    {i \in Live(s) : EndpointOf[s.table[i].key] = e /\ s.table[i].hold # None
                      /\ s.table[i].hold.mid = m}
Superseded(s, m, e) ==
    {i \in Live(s) : EndpointOf[s.table[i].key] = e /\ m \in s.table[i].old}

\* reject_observe_notify
Reject(s, m, e) ==
    LET hits == IF Unacked(s, m, e) # {} THEN Unacked(s, m, e) ELSE Superseded(s, m, e)
    IN  IF hits = {} THEN s ELSE Take(s, s.table[Min(hits)].key)

\* control_route: the one endpoint at this peer that remembers the ID.
Routes(s, m, p) ==
    {e \in Endpoints : Physical[e] = p
        /\ (Owned(s, m, e) # {} \/ Unacked(s, m, e) # {} \/ Superseded(s, m, e) # {})}

-----------------------------------------------------------------------------
(* Poll: retransmission *)

\* commit_retransmit: one more attempt, or the pending CON is given up and the
\* relation that waits for it becomes due for removal.
GivesUp(s, t) == s.tx[t].tries = MAX_RETRANSMIT
Retransmit(s, t) ==
    IF ~GivesUp(s, t) THEN [s EXCEPT !.tx[t].tries = @ + 1]
    ELSE LET hits == Unacked(s, s.tx[t].mid, s.tx[t].dest)
             gone == Release(s, {t})
         IN  IF hits = {} THEN gone
             ELSE [gone EXCEPT !.table[Min(hits)].life = [left |-> 0, off |-> TRUE]]

\* ObserveInterest::supersede_con
SupersedeCon(row, m) ==
    [TakeDue(row) EXCEPT !.old = @ \cup {row.hold.mid}, !.hold = Con(m), !.life = None,
                         !.confirm = CONFIRM_INTERVAL]

\* replace_owned_pending: new bytes and ID, the same slot and retry state, which
\* ReplacedAnew starts over.
ReplacedAnew(con, m, kind) == [con EXCEPT !.mid = m, !.what = kind, !.tries = 0]
Replaced(con, m, kind) == [con EXCEPT !.mid = m, !.what = kind]

\* The rows that wait for the packet and have something newer to say.
Replaces(s, t) ==
    {i \in Unacked(s, s.tx[t].mid, s.tx[t].dest) : s.table[i].due /\ s.table[i].hold.con}

\* supersede_notification of the packet that is about to be retransmitted.
Supersede(s, t, o) ==
    LET hits == Replaces(s, t)
        i == Min(hits)
        row == s.table[i]
        kind == Kind(row, o)
        m == NextMid(s)
        next == SupersedeCon(row, m)
        sent == [Put(s, i, next) EXCEPT !.tx[t] = Replaced(@, m, kind)]
    IN  CASE hits = {} -> s
          [] hits # {} /\ kind = "mute" -> Retire(s, row.key)
          [] OTHER -> IF Cardinality(row.old) = MAX_RETRANSMIT THEN s
                      ELSE IF kind = "final" THEN Take(sent, row.key)
                      ELSE Hear(sent, row.key, next.seq)

-----------------------------------------------------------------------------
(* Poll: lifetimes and selection *)

\* poll_observe_lifetime surfaces one due lifetime: only a CON-wait also ends
\* the signal and the hold.
Expired(s) ==
    First(s, {i \in Live(s) : s.table[i].life # None
                 /\ (s.table[i].life.off \/ s.table[i].life.left = 0)})
TakeExpired(row) ==
    IF row.life.off THEN [row EXCEPT !.life = None, !.due = FALSE, !.hold = None, !.old = {}]
    ELSE [row EXCEPT !.life = None]
Expire(s) ==
    LET i == Expired(s)
    IN  IF i = None THEN s ELSE Advance(Put(s, i, TakeExpired(s.table[i])), i)

\* progress_observe: the next due row whose peer is not held.
Selected(s) ==
    First(s, {i \in Live(s) : s.table[i].due /\ ~RowsHold(s, PeerOf(s.table[i]))})
Select(s) == IF Selected(s) = None THEN s ELSE Advance(s, Selected(s))

\* claim_observe_notification and the send, after the dispatch: the selected
\* slot may by now be free, taken by another relation, or held.
Claims(s, i) ==
    i # None /\ i \in Live(s) /\ s.table[i].due /\ ~RowsHold(s, PeerOf(s.table[i]))
Claim(s, i, o) ==
    LET row == TakeDue(s.table[i])
        taken == Put(s, i, row)
    IN  IF EndpointHeld(taken, PeerOf(row))
        THEN Put(s, i, RestoreDue(row, row.seq))
        ELSE SendOrRestore(taken, i, o).s

-----------------------------------------------------------------------------
(* Poll: dispatch of one received datagram *)

Idle(s) == s

\* An empty ACK: match_empty_ack_rst and ack_observe_con.
AckRow(row) == [row EXCEPT !.life = None, !.hold = None, !.old = {}]
Ack(s, m, p) ==
    IF Cardinality(Routes(s, m, p)) # 1 THEN s
    ELSE LET e == CHOOSE r \in Routes(s, m, p) : TRUE
             hits == Unacked(s, m, e)
             freed == Release(s, Owned(s, m, e))
         IN  IF hits = {} THEN freed ELSE Put(freed, Min(hits), AckRow(s.table[Min(hits)]))

\* An empty RST: the packet it names, then the current packet of a relation
\* that superseded it, then the relation.
Rst(s, m, p) ==
    IF Cardinality(Routes(s, m, p)) # 1 THEN s
    ELSE LET e == CHOOSE r \in Routes(s, m, p) : TRUE
             named == Release(s, Owned(s, m, e))
             old == Superseded(named, m, e)
             freed == IF old = {} THEN named
                      ELSE Release(named, OwnPacket(named, named.table[Min(old)]))
         IN  Reject(freed, m, e)

\* apply_observe: a registration the response accepts.  The sequence continues
\* across a re-registration, which RegisterRestarts forgets.
Reinsert(s, k, seq) ==
    LET done == Insert(Retire(s, k), [NewInterest(k, seq) EXCEPT !.life = Fresh])
    IN  IF At(done, k) = {} THEN done
        ELSE Hear([done EXCEPT !.heard[k].seq = s.heard[k].seq], k, seq)
RegisterRestarts(s, k) == Reinsert(s, k, 0)
Register(s, k) ==
    Reinsert(s, k, IF At(s, k) = {} THEN 0 ELSE (s.table[Min(At(s, k))].seq + 1) % SeqMod)

\* apply_observe after a successful DELETE: mark_observe_resource_deleted
Delete(s, r) ==
    [s EXCEPT !.table = [i \in Slots |-> IF i \in OfResource(s, r)
                            THEN [@[i] EXCEPT !.due = TRUE, !.deleted = TRUE] ELSE @[i]]]

-----------------------------------------------------------------------------
(* poll_engine *)

\* One poll: retransmit slot t (None when no CON is due), dispatch D, claim.
\* A retransmission that fails ends the poll before the dispatch.
Poll(t, D(_)) ==
    LET due == IF t = None THEN st ELSE Retransmit(st, t)
        x == Expired(due)
        aged == Expire(due)
        pick == Selected(aged)
        ready == Select(aged)
        \* ObserveExpiry::ClientOff, if its slot is still occupied.
        Off(s) == IF x # None /\ due.table[x].life.off /\ x \in Live(s)
                  THEN Take(s, s.table[x].key) ELSE s
        Rest(s) == LET d == D(Off(s))
                   IN  IF Claims(d, pick) THEN \E o \in Outcomes : st' = Claim(d, pick, o) ELSE st' = d
    IN  \/ /\ t = None
           /\ Rest(ready)
        \/ /\ t # None /\ GivesUp(st, t)
           /\ Rest(Reject(ready, st.tx[t].mid, st.tx[t].dest))
        \/ /\ t # None /\ ~GivesUp(st, t)
           /\ \E o \in IF Replaces(ready, t) = {} THEN {p \in Outcomes : p.kind = "value"} ELSE Outcomes :
                LET sent == Supersede(ready, t, o)
                IN  IF o.send = "sent" \/ sent.tx[t] = None THEN Rest(sent) ELSE st' = sent

\* Which CON is due.
Dues == {t \in TxSlots : st.tx[t] # None} \cup {None}

PollIdle(t) == Poll(t, Idle)
PollAck(t, m, p) == LET D(s) == Ack(s, m, p) IN Poll(t, D)
PollRst(t, m, p) == LET D(s) == Rst(s, m, p) IN Poll(t, D)
PollRegister(t, k) == LET D(s) == Register(s, k) IN Poll(t, D)
\* A deregistration, or a registration whose response does not accept it.
PollDeregister(t, k) == LET D(s) == Retire(s, k) IN Poll(t, D)
PollDelete(t, r) == LET D(s) == Delete(s, r) IN Poll(t, D)

\* The caller's clock.
Down(n) == IF n = None \/ n = 0 THEN n ELSE n - 1
AgeRow(row) ==
    [row EXCEPT !.confirm = Down(@),
                !.hold = IF @ = None THEN None ELSE [@ EXCEPT !.left = Down(@)],
                !.life = IF @ = None THEN None ELSE [@ EXCEPT !.left = Down(@)]]
Tick == st' = [st EXCEPT !.table = [i \in Slots |-> IF @[i] = None THEN None ELSE AgeRow(@[i])]]

Init ==
    st = [table |-> [i \in Slots |-> None],
          heard |-> [k \in Keys |-> [seq |-> None, newer |-> TRUE]],
          cursor |-> 0, tx |-> [t \in TxSlots |-> None]]

Next ==
    \/ \E t \in Dues :
          \/ PollIdle(t)
          \/ \E m \in Remembered(st), p \in Peers : PollAck(t, m, p)
          \/ \E m \in Remembered(st), p \in Peers : PollRst(t, m, p)
          \/ \E k \in Keys : PollRegister(t, k)
          \/ \E k \in Keys : PollDeregister(t, k)
          \/ \E r \in Resources : PollDelete(t, r)
    \/ \E r \in Resources : Signal(r)
    \/ \E r \in Resources, con \in BOOLEAN : Notify(r, con)
    \/ \E e \in Endpoints : Foreign(e)
    \/ Tick

Spec == Init /\ [][Next]_vars

-----------------------------------------------------------------------------
(* Properties *)

\* Shapes, and every key at most once in the table.
TypeOK ==
    /\ st.table \in [Slots -> Interests \cup {None}]
    /\ st.tx \in [TxSlots -> Packets \cup {None}]
    /\ st.cursor \in Slots
    /\ \A i, j \in Live(st) : st.table[i].key = st.table[j].key => i = j

\* A row waits for an acknowledgement exactly while the pending table retains
\* the packet it waits for: a hold without its packet would silence the
\* relation for good, a packet without its hold is a notification that goes on
\* being sent after the relation ended or moved on.
HoldMatchesPacket ==
    /\ \A i \in Live(st) :
          LET row == st.table[i]
          IN  row.hold # None /\ row.hold.con =>
                Cardinality({t \in TxSlots : st.tx[t] # None /\ st.tx[t].mid = row.hold.mid
                               /\ st.tx[t].dest = EndpointOf[row.key]}) = 1
    /\ \A t \in TxSlots : st.tx[t] # None /\ st.tx[t].what = "value" =>
          \E i \in Live(st) :
             /\ EndpointOf[st.table[i].key] = st.tx[t].dest
             /\ st.table[i].hold = [mid |-> st.tx[t].mid, con |-> TRUE, left |-> 0]

\* NSTART for notifications (RFC 7641 section 4.5.1): at one physical peer at
\* most one notification is outstanding, final ones whose row is already gone
\* included.
OnePerPeer ==
    \A p \in Peers :
        Cardinality({i \in Live(st) : Physical[EndpointOf[st.table[i].key]] = p
                        /\ st.table[i].hold # None
                        /\ (st.table[i].hold.con \/ st.table[i].hold.left > 0)})
        + Cardinality({t \in TxSlots : st.tx[t] # None /\ Physical[st.tx[t].dest] = p
                          /\ st.tx[t].what = "final"}) <= 1

\* supersede_con has room for one Message ID per retransmission: a chain never
\* remembers more IDs than its packet has been retransmitted, so the refusal of
\* a full history is never met.
HistoryFits ==
    \A i \in Live(st), t \in TxSlots :
        LET row == st.table[i]
        IN  row.hold # None /\ row.hold.con /\ st.tx[t] # None
              /\ st.tx[t].mid = row.hold.mid /\ st.tx[t].dest = EndpointOf[row.key] =>
            Cardinality(row.old) <= st.tx[t].tries

\* Across refused sends (restore_due rewinds the number), supersession and
\* re-registration, a client is never sent a value whose Observe number is not
\* newer than the one before it (RFC 7641 section 4.4).  With "unsure" in Sends
\* the rewind also follows sends that may have reached the client.
SeqIncreases == \A k \in Keys : st.heard[k].newer
=============================================================================
