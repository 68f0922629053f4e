---------------------------- MODULE PendingCons ----------------------------
(***************************************************************************)
(* The TX datagram pool and the pending confirmable (CON) messages kept in *)
(* it: slot occupancy with its rotating cursor, the per-slot sidecars      *)
(* (destination endpoint, encoded bytes, pending mark), admission against  *)
(* NSTART, and the retransmission timer of RFC 7252 section 4.2.           *)
(*                                                                         *)
(* Drivers are the callers that keep a PendingCon snapshot across a        *)
(* transport await and come back with it later: a sender that reserved a   *)
(* row and will commit or cancel it, a retransmitter that peeked a due row *)
(* and will commit the attempt.  Everything else may happen in between, so *)
(* a snapshot may be stale when it is used.                                *)
(*                                                                         *)
(* Time is kept relative: left is next_timeout_ms - now_ms, floored at 0,  *)
(* in a row and in every snapshot of it.                                   *)
(***************************************************************************)
EXTENDS Naturals, FiniteSets

CONSTANTS N,               \* TX datagram slots of the memory profile
          Endpoints,       \* peers: an address with a security association
          Physical,        \* endpoint -> its address (Endpoint::physical)
          MIDs,            \* Message IDs
          NSTART,          \* outstanding CONs allowed per physical endpoint
          MAX_RETRANSMIT,  \* retransmissions before giving up
          ACK_TIMEOUT,     \* initial timeout, in ticks
          JitterSpan,      \* the most that jitter adds to it
          Drivers,         \* holders of snapshots
          None             \* Option::None

Slots == 0 .. N - 1

Rto == [attempts: Nat, started: BOOLEAN, left: Nat, timeout: Nat]
Mark == [mid: MIDs, rto: Rto]
PendingCon == [mid: MIDs, endpoint: Endpoints, slot: Slots, rto: Rto]

ASSUME NAssumption == N \in Nat \ {0}
ASSUME PhysicalAssumption == Physical \in [Endpoints -> Endpoints]
ASSUME TimingAssumption == /\ NSTART \in Nat \ {0}
                           /\ MAX_RETRANSMIT \in Nat
                           /\ ACK_TIMEOUT \in Nat \ {0}
                           /\ JitterSpan \in Nat
ASSUME NoneAssumption == None \notin Mark \cup PendingCon \cup Endpoints \cup MIDs

VARIABLES occupied,   \* occupied slots
          count,      \* Occupancy::count, the live counter behind is_empty
          cursor,     \* where the next acquire starts
          endpoint,   \* destination sidecar of a slot
          bytes,      \* MID of the CON a slot carries, until it is answered or given up
          pending,    \* pending mark of a slot
          rcursor,    \* Memory::retransmit_cursor
          held,       \* the snapshot each driver carries across its await
          skips       \* history: retransmissions of others since a row fell due

vars == <<occupied, count, cursor, endpoint, bytes, pending, rcursor, held, skips>>
pool == <<occupied, count, cursor, endpoint>>

-----------------------------------------------------------------------------
(* Rotating search *)

\* Steps from slot `from` to slot i, going up and wrapping at N.
Distance(from, i) == IF i >= from THEN i - from ELSE i + N - from

\* i is the element of S met first when slots are inspected from `from` on.
IsFirst(i, from, S) == i \in S /\ \A j \in S : Distance(from, i) <= Distance(from, j)

\* occupancy::advance, and a plausible slip of it.
AdvanceNoWrap(c) == c + 1
Advance(c) == IF c + 1 = N THEN 0 ELSE c + 1

-----------------------------------------------------------------------------
(* PendingRto *)

NewRto(jitter) ==
    LET t == ACK_TIMEOUT + jitter
    IN  [attempts |-> 0, started |-> TRUE, left |-> t, timeout |-> t]

Reserved == [attempts |-> 0, started |-> FALSE, left |-> 0, timeout |-> 0]

IsDue(rto) == rto.started /\ rto.left = 0

\* next_attempt; None is the give-up.
NextAttempt(rto) ==
    IF ~rto.started \/ rto.attempts >= MAX_RETRANSMIT
      THEN None
      ELSE [attempts |-> rto.attempts + 1, started |-> TRUE,
            left |-> 2 * rto.timeout, timeout |-> 2 * rto.timeout]

-----------------------------------------------------------------------------
(* Reading the pool *)

\* PendingCons::pending_con: needs an occupied slot, a mark and an endpoint.
PendingAt(s) ==
    IF s \in occupied /\ pending[s] # None /\ endpoint[s] # None
      THEN [mid |-> pending[s].mid, endpoint |-> endpoint[s],
            slot |-> s, rto |-> pending[s].rto]
      ELSE None

\* The rows outstanding_pending counts: reservations too, by physical endpoint.
Outstanding(e) ==
    {s \in Slots : PendingAt(s) # None /\ Physical[PendingAt(s).endpoint] = Physical[e]}

\* record_admission for a slot whose current row is `existing`:
\* "keep" an idempotent hit, "admit" a new mark, "reject" on NSTART.
AdmissionOneMore(existing, m, e) ==
    CASE existing # None /\ existing.mid = m /\ existing.endpoint = e -> "keep"
      [] OTHER -> IF Cardinality(Outstanding(e)) > NSTART THEN "reject" ELSE "admit"
Admission(existing, m, e) ==
    CASE existing # None /\ existing.mid = m /\ existing.endpoint = e -> "keep"
      [] existing # None /\ ~(existing.mid = m /\ existing.endpoint = e)
           /\ Physical[existing.endpoint] = Physical[e] -> "admit"
      [] OTHER -> IF Cardinality(Outstanding(e)) >= NSTART THEN "reject" ELSE "admit"

Lookup(m, e) ==
    {s \in occupied : /\ pending[s] # None /\ endpoint[s] = e
                      /\ pending[s].mid = m /\ pending[s].rto.started}

\* Rows whose timer has run out.
DueSlots == {s \in Slots : PendingAt(s) # None /\ IsDue(PendingAt(s).rto)}

-----------------------------------------------------------------------------
Init == /\ occupied = {} /\ count = 0 /\ cursor = 0
        /\ endpoint = [s \in Slots |-> None]
        /\ bytes = [s \in Slots |-> None]
        /\ pending = [s \in Slots |-> None]
        /\ rcursor = 0
        /\ held = [d \in Drivers |-> None]
        /\ skips = [s \in Slots |-> 0]

\* DatagramPool::reset: what acquire and release do to a slot's sidecars.
ResetSidecars(s) ==
    /\ endpoint' = [endpoint EXCEPT ![s] = None]
    /\ bytes' = [bytes EXCEPT ![s] = None]
    /\ pending' = [pending EXCEPT ![s] = None]
    /\ skips' = [skips EXCEPT ![s] = 0]

\* SlotPool::acquire of a DatagramPool: first free slot from the cursor on,
\* sidecars reset.  Occupancy::acquire tests the live counter first.
Acquire ==
    /\ count # N
    /\ \E s \in Slots :
          /\ IsFirst(s, cursor, Slots \ occupied)
          /\ occupied' = occupied \cup {s}
          /\ cursor' = Advance(s)
          /\ ResetSidecars(s)
    /\ count' = count + 1
    /\ UNCHANGED <<rcursor, held>>

\* SlotPool::release: the slot is freed and its sidecars reset, pending or not.
Release(s) ==
    /\ s \in occupied
    /\ occupied' = occupied \ {s}
    /\ count' = count - 1
    /\ ResetSidecars(s)
    /\ UNCHANGED <<cursor, rcursor, held>>

\* Engine::rotate_tx
RotateTx ==
    /\ cursor' = Advance(cursor)
    /\ UNCHANGED <<occupied, count, endpoint, bytes, pending, rcursor, held, skips>>

\* Ids::next mints MIDs from a wrapping 16-bit counter: one does not come back
\* while a slot or a snapshot still carries it.
Fresh(m) == /\ \A s \in Slots : bytes[s] # m
            /\ \A d \in Drivers : held[d] # None => held[d].mid # m

\* Engine::write_tx / encode_tx: a CON and its destination into a slot that no
\* pending row owns (every caller in the crate fills a slot it just acquired).
WriteTx(s, e, m) ==
    /\ s \in occupied
    /\ pending[s] = None
    /\ Fresh(m)
    /\ endpoint' = [endpoint EXCEPT ![s] = e]
    /\ bytes' = [bytes EXCEPT ![s] = m]
    /\ UNCHANGED <<occupied, count, cursor, pending, rcursor, held, skips>>

\* reserve_pending_con: the row counts against NSTART from now on, its timer
\* not started.  Callers name the message and peer they wrote to the slot.  A
\* second identical reservation returns the same snapshot.
Reserve(d, s, e, m) ==
    /\ held[d] = None
    /\ s \in occupied
    /\ bytes[s] = m /\ endpoint[s] = e
    /\ \/ /\ PendingAt(s) # None
          /\ ~PendingAt(s).rto.started /\ PendingAt(s).mid = m /\ PendingAt(s).endpoint = e
          /\ held' = [held EXCEPT ![d] = PendingAt(s)]
          /\ UNCHANGED <<pending, endpoint>>
       \/ /\ PendingAt(s) = None
          /\ Admission(None, m, e) = "admit"
          /\ endpoint' = [endpoint EXCEPT ![s] = e]
          /\ pending' = [pending EXCEPT ![s] = [mid |-> m, rto |-> Reserved]]
          /\ held' = [held EXCEPT ![d] = [mid |-> m, endpoint |-> e, slot |-> s, rto |-> Reserved]]
    /\ UNCHANGED <<occupied, count, cursor, bytes, rcursor, skips>>

\* The row a driver's snapshot names is still exactly that row.
ExactAnyRow(d) == PendingAt(held[d].slot) # None
Exact(d) == PendingAt(held[d].slot) = held[d]

\* commit_pending_con after transport acceptance; a stale or already started
\* snapshot is refused.  Either way the driver is done with it.
Commit(d, jitter) ==
    /\ held[d] # None
    /\ pending' = IF ~held[d].rto.started /\ Exact(d)
                    THEN [pending EXCEPT ![held[d].slot] =
                             [mid |-> held[d].mid, rto |-> NewRto(jitter)]]
                    ELSE pending
    /\ skips' = IF ~held[d].rto.started /\ Exact(d)
                  THEN [skips EXCEPT ![held[d].slot] = 0] ELSE skips
    /\ held' = [held EXCEPT ![d] = None]
    /\ UNCHANGED <<pool, bytes, rcursor>>

\* cancel_pending_con after a refused send; the slot stays occupied.
Cancel(d) ==
    /\ held[d] # None
    /\ pending' = IF ~held[d].rto.started /\ Exact(d)
                    THEN [pending EXCEPT ![held[d].slot] = None]
                    ELSE pending
    /\ held' = [held EXCEPT ![d] = None]
    /\ UNCHANGED <<pool, bytes, rcursor, skips>>

\* record_pending_con, the synchronous driver's reserve and commit in one.
Record(s, e, m, jitter) ==
    /\ s \in occupied
    /\ bytes[s] = m /\ endpoint[s] = e
    /\ PendingAt(s) # None => PendingAt(s).rto.started
    /\ Admission(PendingAt(s), m, e) # "reject"
    /\ IF Admission(PendingAt(s), m, e) = "keep"
         THEN UNCHANGED <<endpoint, pending, skips>>
         ELSE /\ endpoint' = [endpoint EXCEPT ![s] = e]
              /\ pending' = [pending EXCEPT ![s] = [mid |-> m, rto |-> NewRto(jitter)]]
              /\ skips' = [skips EXCEPT ![s] = 0]
    /\ UNCHANGED <<occupied, count, cursor, bytes, rcursor, held>>

\* replace_pending_con: a CON under a new MID takes the slot over in place and
\* inherits the retransmission timer.  validate_replacement refuses a stale or
\* unstarted snapshot and bytes that are not the row's own CON.
ReplaceFreshTimer(d, m) ==
    /\ held[d] # None /\ held[d].rto.started /\ Exact(d)
    /\ Fresh(m)
    /\ bytes' = [bytes EXCEPT ![held[d].slot] = m]
    /\ pending' = [pending EXCEPT ![held[d].slot] = [mid |-> m, rto |-> NewRto(0)]]
    /\ held' = [held EXCEPT ![d] = None]
    /\ UNCHANGED <<occupied, count, cursor, endpoint, rcursor, skips>>
Replace(d, m) ==
    /\ held[d] # None
    /\ held[d].rto.started /\ Exact(d)
    /\ bytes[held[d].slot] = held[d].mid
    /\ m # held[d].mid
    /\ Fresh(m)
    /\ bytes' = [bytes EXCEPT ![held[d].slot] = m]
    /\ pending' = [pending EXCEPT ![held[d].slot] = [mid |-> m, rto |-> held[d].rto]]
    /\ held' = [held EXCEPT ![d] = None]
    /\ UNCHANGED <<occupied, count, cursor, endpoint, rcursor, skips>>

\* match_empty_ack_rst -> take_pending_con: the first matching started row is
\* cleared; its slot stays occupied, and the caller only releases it.
TakePending(m, e) ==
    /\ \E s \in Slots :
          /\ IsFirst(s, 0, Lookup(m, e))
          /\ pending' = [pending EXCEPT ![s] = None]
          /\ bytes' = [bytes EXCEPT ![s] = None]
          /\ skips' = [skips EXCEPT ![s] = 0]
    /\ UNCHANGED <<pool, rcursor, held>>

NextDue(s) == IsFirst(s, rcursor % N, DueSlots)

\* peek_retransmit: the awaitable driver looks before it sends.
Peek(d) ==
    /\ held[d] = None
    /\ \E s \in Slots : NextDue(s) /\ held' = [held EXCEPT ![d] = PendingAt(s)]
    /\ UNCHANGED <<pool, bytes, pending, rcursor, skips>>

\* due_snapshot applied to row p: back off, or give up and clear the mark.
\* The cursor moves past the row.
ApplyDue(p) ==
    /\ pending' = [pending EXCEPT ![p.slot] =
                      IF NextAttempt(p.rto) = None
                        THEN None ELSE [mid |-> p.mid, rto |-> NextAttempt(p.rto)]]
    /\ bytes' = IF NextAttempt(p.rto) = None THEN [bytes EXCEPT ![p.slot] = None] ELSE bytes
    /\ rcursor' = p.slot + 1
    /\ skips' = [s \in Slots |-> IF s = p.slot \/ s \notin DueSlots THEN 0 ELSE skips[s] + 1]

\* commit_retransmit with a snapshot that may have gone stale.
CommitRetransmit(d) ==
    /\ held[d] # None
    /\ IF Exact(d) /\ IsDue(held[d].rto)
         THEN ApplyDue(held[d])
         ELSE UNCHANGED <<bytes, pending, rcursor, skips>>
    /\ held' = [held EXCEPT ![d] = None]
    /\ UNCHANGED pool

\* poll_retransmit: peek and commit in one call, under exclusive access.
Poll ==
    /\ \E s \in Slots : NextDue(s) /\ ApplyDue(PendingAt(s))
    /\ UNCHANGED <<pool, held>>

\* The future that carried the snapshot is dropped at its await.
DropSnapshot(d) ==
    /\ held[d] # None
    /\ held' = [held EXCEPT ![d] = None]
    /\ UNCHANGED <<pool, bytes, pending, rcursor, skips>>

\* The caller's clock advances: every running timer comes one tick closer.
Elapse(rto) == [rto EXCEPT !.left = IF @ > 0 THEN @ - 1 ELSE 0]
Tick ==
    /\ \E s \in Slots : pending[s] # None /\ pending[s].rto.left > 0
    /\ pending' = [s \in Slots |->
                     IF pending[s] = None THEN None
                     ELSE [pending[s] EXCEPT !.rto = Elapse(@)]]
    /\ held' = [d \in Drivers |->
                  IF held[d] = None THEN None
                  ELSE [held[d] EXCEPT !.rto = Elapse(@)]]
    /\ UNCHANGED <<pool, bytes, rcursor, skips>>

Next ==
    \/ Acquire \/ RotateTx \/ Poll \/ Tick
    \/ \E s \in Slots : Release(s)
    \/ \E s \in Slots, e \in Endpoints, m \in MIDs : WriteTx(s, e, m)
    \/ \E d \in Drivers, s \in Slots, e \in Endpoints, m \in MIDs : Reserve(d, s, e, m)
    \/ \E s \in Slots, e \in Endpoints, m \in MIDs, j \in 0 .. JitterSpan : Record(s, e, m, j)
    \/ \E m \in MIDs, e \in Endpoints : TakePending(m, e)
    \/ \E d \in Drivers :
          \/ \E j \in 0 .. JitterSpan : Commit(d, j)
          \/ Cancel(d) \/ Peek(d) \/ CommitRetransmit(d) \/ DropSnapshot(d)
          \/ \E m \in MIDs : Replace(d, m)

Spec == Init /\ [][Next]_vars

\* Progress is the caller's: it keeps polling, and its clock keeps going.
Fairness == WF_vars(Tick) /\ WF_vars(Poll)
FairSpec == Spec /\ Fairness

-----------------------------------------------------------------------------
(* Properties *)

(* Every field of the pool and of its sidecars holds a value the Rust types of
   Occupancy, DatagramPool and PendingCon allow. *)
TypeOK ==
    /\ occupied \subseteq Slots
    /\ count \in Nat
    /\ cursor \in Slots
    /\ endpoint \in [Slots -> Endpoints \cup {None}]
    /\ bytes \in [Slots -> MIDs \cup {None}]
    /\ pending \in [Slots -> Mark \cup {None}]
    /\ rcursor \in Nat
    /\ held \in [Drivers -> PendingCon \cup {None}]
    /\ skips \in [Slots -> Nat]

\* The live counter of Occupancy, which lets acquire refuse and poll_retransmit
\* skip its scan, is the number of occupied slots after any mix of operations.
CounterExact == count = Cardinality(occupied)

\* No mix of reservations, records, replacements and late completions ever
\* leaves more than NSTART outstanding CONs towards one physical endpoint,
\* whatever associations they were sent under (outstanding_pending).
NStartPerPeer == \A e \in Endpoints : Cardinality(Outstanding(e)) <= NSTART

\* A pending mark is always visible as a row: its slot is occupied and has an
\* endpoint, so it is counted, matched and retransmitted until it is cleared.
NoHiddenMark == \A s \in Slots : pending[s] # None => PendingAt(s) # None

\* What a retransmission would put on the wire is the CON whose MID the row
\* waits for, also after replace_pending_con swapped the message in place.
BytesMatchRow == \A s \in Slots : pending[s] # None => bytes[s] = pending[s].mid


IsReserved(s) == pending[s] # None /\ ~pending[s].rto.started
IsStarted(s) == pending[s] # None /\ pending[s].rto.started


\* Once started, a row never gets retries back until it is cleared, not even
\* when another notification replaces its message under a new MID.
RetriesNeverRefunded ==
    [][\A s \in Slots : IsStarted(s) /\ pending'[s] # None =>
          pending'[s].rto.started /\ pending'[s].rto.attempts >= pending[s].rto.attempts]_vars

\* Every started row is eventually resolved, by an ACK or RST, by giving up or
\* by releasing its slot: a stream of replacements cannot keep it alive.
EveryConResolved == \A s \in Slots : IsStarted(s) ~> pending[s] = None
=============================================================================
