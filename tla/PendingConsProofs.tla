------------------------- MODULE PendingConsProofs -------------------------
(***************************************************************************)
(* Proofs about PendingCons for any number of slots, peers, Message IDs    *)
(* and drivers, and any NSTART, MAX_RETRANSMIT and timeouts.               *)
(***************************************************************************)
EXTENDS PendingCons, FiniteSetTheorems, TLAPS

\* The pool is finite, so its counter and the outstanding rows can be counted.
LEMMA SlotsFinite == IsFiniteSet(Slots)
BY NAssumption, FS_Interval DEF Slots

(* The set of occupied slots, over which Occupancy counts, is finite. *)
LEMMA OccupiedFinite == ASSUME TypeOK PROVE IsFiniteSet(occupied)
BY SlotsFinite, FS_Subset DEF TypeOK

\* A row read out of the pool is a well-formed snapshot of that slot.
LEMMA RowType ==
    ASSUME TypeOK, NEW s \in Slots, PendingAt(s) # None
    PROVE  /\ PendingAt(s) \in PendingCon
           /\ PendingAt(s).slot = s
           /\ s \in occupied /\ pending[s] \in Mark /\ endpoint[s] \in Endpoints
           /\ PendingAt(s).mid = pending[s].mid
           /\ PendingAt(s).endpoint = endpoint[s]
           /\ PendingAt(s).rto = pending[s].rto
BY DEF TypeOK, PendingAt, PendingCon, Mark

\* Timers stay timers: a fresh one, a reservation, a back-off, an elapsed one.
LEMMA RtoType ==
    /\ \A j \in 0 .. JitterSpan : NewRto(j) \in Rto
    /\ Reserved \in Rto
    /\ \A r \in Rto : NextAttempt(r) # None => NextAttempt(r) \in Rto
    /\ \A r \in Rto : Elapse(r) \in Rto
<1>1. \A j \in 0 .. JitterSpan : NewRto(j) \in Rto
  BY TimingAssumption DEF NewRto, Rto
<1>2. Reserved \in Rto
  BY DEF Reserved, Rto
<1>3. \A r \in Rto : NextAttempt(r) # None => NextAttempt(r) \in Rto
  BY DEF NextAttempt, Rto
<1>4. \A r \in Rto : Elapse(r) \in Rto
  BY DEF Elapse, Rto
<1> QED BY <1>1, <1>2, <1>3, <1>4

\* Retransmitting or giving up on a well-formed row leaves well-typed state.
LEMMA ApplyDueType ==
    ASSUME TypeOK, NEW p \in PendingCon, ApplyDue(p)
    PROVE  /\ pending' \in [Slots -> Mark \cup {None}]
           /\ bytes' \in [Slots -> MIDs \cup {None}]
           /\ rcursor' \in Nat
           /\ skips' \in [Slots -> Nat]
<1>1. /\ p.slot \in Slots /\ p.mid \in MIDs /\ p.rto \in Rto
  BY DEF PendingCon
<1>2. NextAttempt(p.rto) # None => [mid |-> p.mid, rto |-> NextAttempt(p.rto)] \in Mark
  BY <1>1, RtoType DEF Mark
<1>3. pending' \in [Slots -> Mark \cup {None}]
  BY <1>1, <1>2 DEF ApplyDue, TypeOK
<1>4. bytes' \in [Slots -> MIDs \cup {None}]
  BY <1>1 DEF ApplyDue, TypeOK
<1>5. rcursor' \in Nat
  BY <1>1, NAssumption DEF ApplyDue, Slots
<1>6. skips' \in [Slots -> Nat]
  BY DEF ApplyDue, TypeOK
<1> QED BY <1>3, <1>4, <1>5, <1>6

\* Every operation of the pool keeps the state well typed (TypeOK).
LEMMA TypeStep == TypeOK /\ CounterExact /\ [Next]_vars => TypeOK'
<1> SUFFICES ASSUME TypeOK, CounterExact, [Next]_vars PROVE TypeOK'
  OBVIOUS
<1> USE NAssumption, NoneAssumption
<1>1. CASE Acquire
  BY <1>1 DEF Acquire, ResetSidecars, Advance, TypeOK, Slots, IsFirst
<1>2. CASE RotateTx
  BY <1>2 DEF RotateTx, Advance, TypeOK, Slots
<1>3. ASSUME NEW s \in Slots, NextDue(s), ApplyDue(PendingAt(s)), UNCHANGED <<pool, held>>
      PROVE  TypeOK'
  <2>1. PendingAt(s) # None
    BY <1>3 DEF NextDue, IsFirst, DueSlots
  <2> QED BY <1>3, <2>1, RowType, ApplyDueType DEF TypeOK, pool
<1>4. CASE Poll
  BY <1>3, <1>4 DEF Poll
<1>5. CASE Tick
  <2>1. \A k \in Mark : [k EXCEPT !.rto = Elapse(@)] \in Mark
    BY RtoType DEF Mark
  <2>2. \A h \in PendingCon : [h EXCEPT !.rto = Elapse(@)] \in PendingCon
    BY RtoType DEF PendingCon
  <2>3. pending' \in [Slots -> Mark \cup {None}]
    BY <1>5, <2>1 DEF Tick, TypeOK
  <2>4. held' \in [Drivers -> PendingCon \cup {None}]
    BY <1>5, <2>2 DEF Tick, TypeOK
  <2> QED BY <1>5, <2>3, <2>4 DEF Tick, TypeOK, pool
<1>6. ASSUME NEW s \in Slots, Release(s) PROVE TypeOK'
  <2>1. count - 1 \in Nat
    <3>1. /\ IsFiniteSet(occupied \ {s})
          /\ Cardinality(occupied \ {s}) = count - 1
      BY <1>6, OccupiedFinite, FS_RemoveElement DEF Release, CounterExact
    <3> QED BY <3>1, FS_CardinalityType
  <2> QED BY <1>6, <2>1 DEF Release, ResetSidecars, TypeOK
<1>7. ASSUME NEW s \in Slots, NEW e \in Endpoints, NEW m \in MIDs, WriteTx(s, e, m) PROVE TypeOK'
  BY <1>7 DEF WriteTx, TypeOK
<1>8. ASSUME NEW d \in Drivers, NEW s \in Slots, NEW e \in Endpoints, NEW m \in MIDs,
             Reserve(d, s, e, m)
      PROVE  TypeOK'
  BY <1>8, RtoType, RowType DEF Reserve, TypeOK, Mark, PendingCon
<1>9. ASSUME NEW s \in Slots, NEW e \in Endpoints, NEW m \in MIDs, NEW j \in 0 .. JitterSpan,
             Record(s, e, m, j)
      PROVE  TypeOK'
  BY <1>9, RtoType DEF Record, TypeOK, Mark
<1>10. ASSUME NEW m \in MIDs, NEW e \in Endpoints, TakePending(m, e) PROVE TypeOK'
  BY <1>10 DEF TakePending, TypeOK, pool
<1>11. ASSUME NEW d \in Drivers, NEW j \in 0 .. JitterSpan, Commit(d, j) PROVE TypeOK'
  BY <1>11, RtoType DEF Commit, TypeOK, pool, Mark, PendingCon
<1>12. ASSUME NEW d \in Drivers, Cancel(d) PROVE TypeOK'
  BY <1>12 DEF Cancel, TypeOK, pool
<1>13. ASSUME NEW d \in Drivers, Peek(d) PROVE TypeOK'
  BY <1>13, RowType DEF Peek, TypeOK, pool, NextDue, IsFirst, DueSlots
<1>14. ASSUME NEW d \in Drivers, CommitRetransmit(d) PROVE TypeOK'
  <2>1. held[d] \in PendingCon
    BY <1>14 DEF CommitRetransmit, TypeOK
  <2>2. CASE Exact(d) /\ IsDue(held[d].rto)
    BY <1>14, <2>1, <2>2, ApplyDueType DEF CommitRetransmit, TypeOK, pool
  <2>3. CASE ~(Exact(d) /\ IsDue(held[d].rto))
    BY <1>14, <2>3 DEF CommitRetransmit, TypeOK, pool
  <2> QED BY <2>2, <2>3
<1>15. ASSUME NEW d \in Drivers, DropSnapshot(d) PROVE TypeOK'
  BY <1>15 DEF DropSnapshot, TypeOK, pool
<1>16. ASSUME NEW d \in Drivers, NEW m \in MIDs, Replace(d, m) PROVE TypeOK'
  BY <1>16 DEF Replace, TypeOK, Mark, PendingCon
<1>17. CASE UNCHANGED vars
  BY <1>17 DEF vars, TypeOK
<1> QED BY <1>1, <1>2, <1>4, <1>5, <1>6, <1>7, <1>8, <1>9, <1>10, <1>11, <1>12, <1>13,
           <1>14, <1>15, <1>16, <1>17 DEF Next

\* The live occupancy counter follows every acquire and release.
LEMMA CounterStep == TypeOK /\ CounterExact /\ [Next]_vars => CounterExact'
<1> SUFFICES ASSUME TypeOK, CounterExact, [Next]_vars PROVE CounterExact'
  OBVIOUS
<1>1. CASE Acquire
  BY <1>1, OccupiedFinite, FS_AddElement DEF Acquire, IsFirst, CounterExact
<1>2. ASSUME NEW s \in Slots, Release(s) PROVE CounterExact'
  BY <1>2, OccupiedFinite, FS_RemoveElement DEF Release, CounterExact
<1>3. CASE UNCHANGED <<occupied, count>>
  BY <1>3 DEF CounterExact
<1> QED BY <1>1, <1>2, <1>3
        DEF Next, RotateTx, Poll, Tick, WriteTx, Reserve, Record, TakePending, Commit, Cancel,
            Peek, CommitRetransmit, DropSnapshot, Replace, pool, vars

\* What the pool holds about its rows: every mark belongs to an occupied slot
\* with an endpoint, and the slot's bytes are the message the mark waits for.
RowInv == \A s \in Slots : pending[s] # None =>
             s \in occupied /\ endpoint[s] \in Endpoints /\ bytes[s] = pending[s].mid

\* A mark on an occupied slot with an endpoint is a row (pending_con finds it).
LEMMA RowsVisible ==
    ASSUME TypeOK, NEW s \in Slots, s \in occupied, pending[s] # None, endpoint[s] \in Endpoints
    PROVE  PendingAt(s) # None
<1>1. [mid |-> pending[s].mid, endpoint |-> endpoint[s], slot |-> s, rto |-> pending[s].rto]
        \in PendingCon
  BY DEF TypeOK, Mark, PendingCon
<1> QED BY <1>1, NoneAssumption DEF PendingAt

(* The inductive row invariant gives the two row properties that TLC checks. *)
LEMMA RowInvRows == TypeOK /\ RowInv => NoHiddenMark /\ BytesMatchRow
BY RowsVisible DEF RowInv, NoHiddenMark, BytesMatchRow

\* Every operation keeps each pending mark visible and matched to its bytes.
LEMMA RowStep == TypeOK /\ RowInv /\ [Next]_vars => RowInv'
<1> SUFFICES ASSUME TypeOK, RowInv, [Next]_vars PROVE RowInv'
  OBVIOUS
<1> USE NoneAssumption DEF RowInv
<1>1. CASE Acquire
  BY <1>1 DEF Acquire, ResetSidecars, Advance, TypeOK, PendingAt
<1>2. CASE RotateTx
  BY <1>2 DEF RotateTx, Advance, PendingAt
<1>3. ASSUME NEW p \in PendingCon, PendingAt(p.slot) = p, ApplyDue(p), UNCHANGED pool
      PROVE  RowInv'
  <2>1. p.slot \in Slots /\ p # None
    BY DEF PendingCon
  <2>2. p.mid = pending[p.slot].mid /\ pending[p.slot] # None
    BY <1>3, <2>1 DEF PendingAt
  <2>3. \A s \in Slots : pending'[s] # None => pending[s] # None /\ pending'[s].mid = pending[s].mid
                                               /\ bytes'[s] = bytes[s]
    BY <1>3, <2>1, <2>2 DEF ApplyDue, TypeOK
  <2> QED BY <1>3, <2>3 DEF pool
<1>4. CASE Poll
  BY <1>4, <1>3, RowType DEF Poll, NextDue, IsFirst, DueSlots, pool
<1>5. CASE Tick
  <2>1. \A s \in Slots : pending'[s] # None => pending[s] # None /\ pending'[s].mid = pending[s].mid
    BY <1>5 DEF Tick, TypeOK, Mark
  <2> QED BY <1>5, <2>1 DEF Tick, TypeOK, pool, PendingAt
<1>6. ASSUME NEW s \in Slots, Release(s) PROVE RowInv'
  BY <1>6 DEF Release, ResetSidecars, TypeOK, PendingAt
<1>7. ASSUME NEW s \in Slots, NEW e \in Endpoints, NEW m \in MIDs, WriteTx(s, e, m) PROVE RowInv'
  BY <1>7 DEF WriteTx, TypeOK, PendingAt
<1>8. ASSUME NEW d \in Drivers, NEW s \in Slots, NEW e \in Endpoints, NEW m \in MIDs,
             Reserve(d, s, e, m)
      PROVE  RowInv'
  BY <1>8 DEF Reserve, TypeOK, PendingAt
<1>9. ASSUME NEW s \in Slots, NEW e \in Endpoints, NEW m \in MIDs, NEW j \in 0 .. JitterSpan,
             Record(s, e, m, j)
      PROVE  RowInv'
  BY <1>9 DEF Record, TypeOK, PendingAt
<1>10. ASSUME NEW m \in MIDs, NEW e \in Endpoints, TakePending(m, e) PROVE RowInv'
  BY <1>10 DEF TakePending, TypeOK, pool, PendingAt
<1>11. ASSUME NEW d \in Drivers, NEW j \in 0 .. JitterSpan, Commit(d, j) PROVE RowInv'
  <2>1. held[d] \in PendingCon /\ held[d].slot \in Slots
    BY <1>11 DEF Commit, TypeOK, PendingCon
  <2>2. Exact(d) => held[d].mid = pending[held[d].slot].mid /\ pending[held[d].slot] # None
    BY <2>1 DEF Exact, PendingAt
  <2> QED BY <1>11, <2>1, <2>2 DEF Commit, TypeOK, pool
<1>12. ASSUME NEW d \in Drivers, Cancel(d) PROVE RowInv'
  BY <1>12 DEF Cancel, TypeOK, pool, PendingAt
<1>13. ASSUME NEW d \in Drivers, CommitRetransmit(d) PROVE RowInv'
  <2>1. held[d] \in PendingCon
    BY <1>13 DEF CommitRetransmit, TypeOK
  <2>2. CASE Exact(d) /\ IsDue(held[d].rto)
    BY <1>13, <1>3, <2>1, <2>2 DEF CommitRetransmit, Exact
  <2>3. CASE ~(Exact(d) /\ IsDue(held[d].rto))
    BY <1>13, <2>3 DEF CommitRetransmit, pool, PendingAt
  <2> QED BY <2>2, <2>3
<1>14. ASSUME NEW d \in Drivers, NEW m \in MIDs, Replace(d, m) PROVE RowInv'
  <2>1. held[d] \in PendingCon /\ held[d].slot \in Slots
    BY <1>14 DEF Replace, TypeOK, PendingCon
  <2>2. held[d].mid = pending[held[d].slot].mid /\ pending[held[d].slot] # None
    BY <1>14, <2>1 DEF Replace, Exact, PendingAt
  <2> QED BY <1>14, <2>1, <2>2 DEF Replace, TypeOK
<1>15. CASE UNCHANGED <<pool, bytes, pending>>
  BY <1>15 DEF pool, PendingAt
<1> QED BY <1>1, <1>2, <1>4, <1>5, <1>6, <1>7, <1>8, <1>9, <1>10, <1>11, <1>12, <1>13,
           <1>14, <1>15 DEF Next, Peek, DropSnapshot, vars, pool

\* The rows towards a peer are a finite set, counted by a natural number.
LEMMA OutstandingFinite ==
    ASSUME NEW e \in Endpoints
    PROVE  IsFiniteSet(Outstanding(e)) /\ Cardinality(Outstanding(e)) \in Nat
<1>1. Outstanding(e) \in SUBSET Slots
  BY DEF Outstanding
<1> QED BY <1>1, SlotsFinite, FS_Subset, FS_CardinalityType

\* A row of the next state was a row before, towards the same endpoint.
KeptRow(s) == PendingAt(s)' # None =>
                 PendingAt(s) # None /\ PendingAt(s)'.endpoint = PendingAt(s).endpoint

\* An operation that adds no row cannot exceed NSTART.
LEMMA NStartKept ==
    ASSUME NStartPerPeer, \A s \in Slots : KeptRow(s)
    PROVE  NStartPerPeer'
<1> SUFFICES ASSUME NEW e \in Endpoints PROVE Cardinality(Outstanding(e)') <= NSTART
  BY DEF NStartPerPeer
<1>1. Outstanding(e)' \in SUBSET Outstanding(e)
  BY DEF Outstanding, KeptRow
<1>2. /\ Cardinality(Outstanding(e)') <= Cardinality(Outstanding(e))
      /\ Cardinality(Outstanding(e)') \in Nat
  BY <1>1, OutstandingFinite, FS_Subset, FS_CardinalityType
<1> QED BY <1>2, OutstandingFinite, TimingAssumption DEF NStartPerPeer

\* Admission leaves room for the one row it lets in.
LEMMA NStartAdmit ==
    ASSUME NStartPerPeer,
           NEW e0 \in Endpoints, NEW s0 \in Slots,
           ~(Cardinality(Outstanding(e0)) >= NSTART),
           \A s \in Slots \ {s0} : KeptRow(s),
           PendingAt(s0)' # None => PendingAt(s0)'.endpoint = e0
    PROVE  NStartPerPeer'
<1> SUFFICES ASSUME NEW e \in Endpoints PROVE Cardinality(Outstanding(e)') <= NSTART
  BY DEF NStartPerPeer
<1>1. CASE Physical[e] = Physical[e0]
  <2>1. Outstanding(e)' \in SUBSET (Outstanding(e0) \cup {s0})
    BY <1>1 DEF Outstanding, KeptRow
  <2>2. /\ IsFiniteSet(Outstanding(e0) \cup {s0})
        /\ Cardinality(Outstanding(e0) \cup {s0}) <= Cardinality(Outstanding(e0)) + 1
    <3>1. /\ IsFiniteSet(Outstanding(e0) \cup {s0})
          /\ \/ Cardinality(Outstanding(e0) \cup {s0}) = Cardinality(Outstanding(e0))
             \/ Cardinality(Outstanding(e0) \cup {s0}) = Cardinality(Outstanding(e0)) + 1
      BY OutstandingFinite, FS_AddElement
    <3> QED BY <3>1, OutstandingFinite
  <2>3. /\ Cardinality(Outstanding(e)') <= Cardinality(Outstanding(e0) \cup {s0})
        /\ Cardinality(Outstanding(e)') \in Nat
        /\ Cardinality(Outstanding(e0) \cup {s0}) \in Nat
    BY <2>1, <2>2, FS_Subset, FS_CardinalityType
  <2> QED BY <2>2, <2>3, OutstandingFinite, TimingAssumption
<1>2. CASE Physical[e] # Physical[e0]
  <2>1. Outstanding(e)' \in SUBSET Outstanding(e)
    BY <1>2 DEF Outstanding, KeptRow
  <2>2. /\ Cardinality(Outstanding(e)') <= Cardinality(Outstanding(e))
        /\ Cardinality(Outstanding(e)') \in Nat
    BY <2>1, OutstandingFinite, FS_Subset, FS_CardinalityType
  <2> QED BY <2>2, OutstandingFinite, TimingAssumption DEF NStartPerPeer
<1> QED BY <1>1, <1>2

\* No operation pushes a peer over NSTART.
LEMMA NStartStep ==
    TypeOK /\ RowInv /\ NStartPerPeer /\ [Next]_vars => NStartPerPeer'
<1> SUFFICES ASSUME TypeOK, RowInv, NStartPerPeer, [Next]_vars PROVE NStartPerPeer'
  OBVIOUS
<1> USE NoneAssumption DEF KeptRow
<1>a. ASSUME \A s \in occupied' : pending'[s] # None =>
                 s \in occupied /\ pending[s] # None /\ endpoint'[s] = endpoint[s]
      PROVE  NStartPerPeer'
  <2>1. ASSUME NEW s \in Slots PROVE KeptRow(s)
    <3> SUFFICES ASSUME PendingAt(s)' # None
                 PROVE  PendingAt(s) # None /\ PendingAt(s)'.endpoint = PendingAt(s).endpoint
      OBVIOUS
    <3>1. /\ s \in occupied' /\ pending'[s] # None /\ endpoint'[s] # None
          /\ PendingAt(s)'.endpoint = endpoint'[s]
      BY DEF PendingAt
    <3>2. s \in occupied /\ pending[s] # None /\ endpoint[s] = endpoint'[s]
      BY <1>a, <3>1
    <3>3. PendingAt(s) # None
      BY <3>2, RowsVisible DEF RowInv
    <3> QED BY <3>1, <3>2, <3>3, RowType
  <2> QED BY <2>1, NStartKept
<1>b. ASSUME NEW s \in Slots, NEW e \in Endpoints, NEW m \in MIDs,
             s \in occupied, PendingAt(s) = None, Admission(None, m, e) = "admit",
             occupied' = occupied,
             endpoint' = [endpoint EXCEPT ![s] = e],
             \A t \in Slots \ {s} : pending'[t] = pending[t]
      PROVE  NStartPerPeer'
  <2>1. ~(Cardinality(Outstanding(e)) >= NSTART)
    BY <1>b DEF Admission
  <2>2. \A t \in Slots \ {s} : endpoint'[t] = endpoint[t]
    BY <1>b DEF TypeOK
  <2>3. \A t \in Slots \ {s} : PendingAt(t)' = PendingAt(t)
    BY <1>b, <2>2 DEF PendingAt
  <2>4. PendingAt(s)' # None => PendingAt(s)'.endpoint = e
    BY <1>b DEF PendingAt, TypeOK
  <2> QED BY <2>1, <2>3, <2>4, NStartAdmit
<1>1. CASE Acquire
  BY <1>1, <1>a DEF Acquire, ResetSidecars, Advance, TypeOK, RowInv
<1>2. CASE RotateTx
  BY <1>2, <1>a DEF RotateTx, Advance
<1>3. ASSUME NEW p \in PendingCon, PendingAt(p.slot) = p, ApplyDue(p), UNCHANGED pool
      PROVE  NStartPerPeer'
  <2>1. p.slot \in Slots /\ p # None
    BY DEF PendingCon
  <2>2. \A s \in Slots : pending'[s] # None => pending[s] # None
    BY <1>3, <2>1 DEF ApplyDue, TypeOK, PendingAt
  <2> QED BY <1>3, <2>2, <1>a DEF pool, TypeOK
<1>4. CASE Poll
  BY <1>4, <1>3, RowType DEF Poll, NextDue, IsFirst, DueSlots, pool
<1>5. CASE Tick
  BY <1>5, <1>a DEF Tick, TypeOK, pool
<1>6. ASSUME NEW s \in Slots, Release(s) PROVE NStartPerPeer'
  BY <1>6, <1>a DEF Release, ResetSidecars, TypeOK
<1>7. ASSUME NEW s \in Slots, NEW e \in Endpoints, NEW m \in MIDs, WriteTx(s, e, m)
      PROVE  NStartPerPeer'
  BY <1>7, <1>a DEF WriteTx, TypeOK
<1>8. ASSUME NEW d \in Drivers, NEW s \in Slots, NEW e \in Endpoints, NEW m \in MIDs,
             Reserve(d, s, e, m)
      PROVE  NStartPerPeer'
  <2>1. CASE UNCHANGED <<pending, endpoint>>
    BY <1>8, <2>1, <1>a DEF Reserve
  <2>2. CASE ~UNCHANGED <<pending, endpoint>>
    BY <1>8, <2>2, <1>b DEF Reserve, TypeOK
  <2> QED BY <2>1, <2>2
<1>9. ASSUME NEW s \in Slots, NEW e \in Endpoints, NEW m \in MIDs, NEW j \in 0 .. JitterSpan,
             Record(s, e, m, j)
      PROVE  NStartPerPeer'
  <2>1. CASE Admission(PendingAt(s), m, e) = "keep"
    BY <1>9, <2>1, <1>a DEF Record
  <2>2. CASE Admission(PendingAt(s), m, e) # "keep"
    <3>1. PendingAt(s) = None
      <4> SUFFICES ASSUME PendingAt(s) # None PROVE FALSE
        OBVIOUS
      <4>1. PendingAt(s).mid = m /\ PendingAt(s).endpoint = e
        BY <1>9, RowType DEF Record, RowInv
      <4> QED BY <2>2, <4>1 DEF Admission
    <3>2. Admission(None, m, e) = "admit"
      BY <1>9, <3>1 DEF Record, Admission
    <3> QED BY <1>9, <2>2, <3>1, <3>2, <1>b DEF Record, TypeOK
  <2> QED BY <2>1, <2>2
<1>10. ASSUME NEW m \in MIDs, NEW e \in Endpoints, TakePending(m, e) PROVE NStartPerPeer'
  BY <1>10, <1>a DEF TakePending, TypeOK, pool
<1>11. ASSUME NEW d \in Drivers, NEW j \in 0 .. JitterSpan, Commit(d, j) PROVE NStartPerPeer'
  <2>1. held[d] \in PendingCon /\ held[d].slot \in Slots
    BY <1>11 DEF Commit, TypeOK, PendingCon
  <2>2. Exact(d) => pending[held[d].slot] # None
    BY <2>1 DEF Exact, PendingAt
  <2> QED BY <1>11, <2>1, <2>2, <1>a DEF Commit, TypeOK, pool
<1>12. ASSUME NEW d \in Drivers, Cancel(d) PROVE NStartPerPeer'
  BY <1>12, <1>a DEF Cancel, TypeOK, pool
<1>13. ASSUME NEW d \in Drivers, CommitRetransmit(d) PROVE NStartPerPeer'
  <2>1. held[d] \in PendingCon
    BY <1>13 DEF CommitRetransmit, TypeOK
  <2>2. CASE Exact(d) /\ IsDue(held[d].rto)
    BY <1>13, <1>3, <2>1, <2>2 DEF CommitRetransmit, Exact
  <2>3. CASE ~(Exact(d) /\ IsDue(held[d].rto))
    BY <1>13, <2>3, <1>a DEF CommitRetransmit, pool
  <2> QED BY <2>2, <2>3
<1>14. ASSUME NEW d \in Drivers, NEW m \in MIDs, Replace(d, m) PROVE NStartPerPeer'
  <2>1. held[d] \in PendingCon /\ held[d].slot \in Slots
    BY <1>14 DEF Replace, TypeOK, PendingCon
  <2>2. pending[held[d].slot] # None
    BY <1>14, <2>1 DEF Replace, Exact, PendingAt
  <2> QED BY <1>14, <2>1, <2>2, <1>a DEF Replace, TypeOK
<1>15. CASE UNCHANGED <<pool, bytes, pending>>
  BY <1>15, <1>a DEF pool
<1> QED BY <1>1, <1>2, <1>4, <1>5, <1>6, <1>7, <1>8, <1>9, <1>10, <1>11, <1>12, <1>13,
           <1>14, <1>15 DEF Next, Peek, DropSnapshot, vars, pool

-----------------------------------------------------------------------------
\* The inductive invariant: types and the counter (release needs count > 0 to
\* stay a natural number), the row invariant (NSTART counts rows, so every mark
\* must be one) and NSTART itself.
IInv == TypeOK /\ CounterExact /\ RowInv /\ NStartPerPeer

\* IInv holds in the empty pool.
LEMMA IInvInit == Init => IInv
<1> SUFFICES ASSUME Init PROVE IInv
  OBVIOUS
<1> USE NAssumption, TimingAssumption
<1>1. TypeOK
  BY DEF Init, TypeOK, Slots
<1>2. CounterExact
  BY FS_EmptySet DEF Init, CounterExact
<1>3. RowInv
  BY DEF Init, RowInv
<1>4. ASSUME NEW e \in Endpoints PROVE Cardinality(Outstanding(e)) <= NSTART
  <2>1. Outstanding(e) = {}
    BY DEF Init, Outstanding, PendingAt
  <2> QED BY <2>1, FS_EmptySet
<1> QED BY <1>1, <1>2, <1>3, <1>4 DEF IInv, NStartPerPeer

\* The invariant of the TX pool holds in every reachable state.
THEOREM PoolInvariant == Spec => []IInv
<1>1. IInv /\ [Next]_vars => IInv'
  BY TypeStep, CounterStep, RowStep, NStartStep DEF IInv
<1> QED BY IInvInit, <1>1, PTL DEF Spec

\* Types: no operation of the pool leaves the domains of its state.
THEOREM PoolTypes == Spec => []TypeOK
<1>1. IInv => TypeOK
  BY DEF IInv
<1> QED BY <1>1, PoolInvariant, PTL

\* NSTART: record_pending_con, reserve_pending_con and replace_pending_con,
\* however interleaved with late commits, never leave more than NSTART
\* outstanding CONs towards a physical endpoint.
THEOREM NStartHolds == Spec => []NStartPerPeer
<1>1. IInv => NStartPerPeer
  BY DEF IInv
<1> QED BY <1>1, PoolInvariant, PTL

\* The live counter of Occupancy is exact.
THEOREM CounterHolds == Spec => []CounterExact
<1>1. IInv => CounterExact
  BY DEF IInv
<1> QED BY <1>1, PoolInvariant, PTL

\* Every pending mark is a visible row, and its slot holds the CON it waits for.
THEOREM RowsHold == Spec => [](NoHiddenMark /\ BytesMatchRow)
<1>1. IInv => NoHiddenMark /\ BytesMatchRow
  BY RowInvRows DEF IInv
<1> QED BY <1>1, PoolInvariant, PTL
=============================================================================
