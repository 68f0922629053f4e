--------------------------- MODULE ManagedProofs ---------------------------
(* Proofs about Managed, for any number of replicas, policies and exchanges. *)
EXTENDS Managed, TLAPS

\* A snapshot that the store has held, under its generation.
InLog(s) == s.gen \in 1..Len(log) /\ log[s.gen] = s

\* The store's record carries the last snapshot of the log; the snapshots of the
\* replicas are in the log, and so are those of the device.
AuthorityInv ==
  /\ disk = None => log = <<>>
  /\ disk # None =>
       /\ Valid(disk)
       /\ disk.snapshot = None => log = <<>>
       /\ disk.snapshot # None => disk.snapshot.gen = Len(log) /\ InLog(disk.snapshot)
  /\ \A i \in 1..Len(log) : log[i].gen = i
  /\ \A r \in Replicas :
       replica[r] # None /\ replica[r].snapshot # None => InLog(replica[r].snapshot)

DeviceInv ==
  /\ reply # None => InLog(reply)
  /\ mirror # None => InLog(mirror)
  /\ verified # None => InLog(verified.snapshot)
  /\ conn # None => InLog(conn.trust)

\* Whoever holds a snapshot under a deadline, what is left of the deadline and the
\* time since the snapshot was superseded are together within one exchange.
LeaseInv ==
  /\ \A g \in Gens : g >= Len(log) => old[g] = 0
  /\ reply # None => pending # None /\ old[reply.gen] + pending.left <= LIFETIME
  /\ verified # None => old[verified.snapshot.gen] + verified.left <= LIFETIME
  /\ conn # None => old[conn.trust.gen] + conn.left <= LIFETIME

\* An application belongs to a session.
SessionInv == conn # None /\ conn.app => conn.epoch >= 1

\* A handle of the running session is live, and has an unused permission or none.
HandleInv ==
  /\ conn = None => handles = {}
  /\ \A h, g \in handles : h.work = g.work /\ h.epoch = g.epoch => h = g
  /\ conn # None =>
       \A h \in handles :
         /\ h.epoch <= conn.epoch
         /\ conn.app /\ h.epoch = conn.epoch =>
              /\ h.live
              /\ h.work \in conn.seen
              /\ h.ran > 0 => h.work \notin conn.deferred \/ h.work \in conn.effects

Inv == TypeOK /\ AuthorityInv /\ DeviceInv /\ LeaseInv /\ SessionInv /\ HandleInv

-----------------------------------------------------------------------------
(* What the authority may do to its store *)

\* A record that may follow the store's: it continues the log or leaves it empty.
Follows(next) ==
  /\ next \in Record /\ Valid(next)
  /\ next.snapshot = None => log = <<>>
  /\ next.snapshot # None => next.snapshot.gen = Len(log) + 1

Stores(r, next) ==
  /\ Follows(next)
  /\ disk' = next /\ Logged(next)
  /\ \/ replica' = [replica EXCEPT ![r] = next]
     \/ replica' = [replica EXCEPT ![r] = None]
     \/ replica' = replica

Keeps(r) ==
  /\ UNCHANGED <<disk, log>>
  /\ \/ replica' = [replica EXCEPT ![r] = disk]
     \/ replica' = [replica EXCEPT ![r] = None]
     \/ replica' = replica

\* What a caller of commit hands over: a record whose snapshot is the next one.
Prepared(rec, parts) ==
  /\ parts \in Record
  /\ rec.snapshot = None => parts.snapshot = None \/ parts.snapshot.gen = 1
  /\ rec.snapshot # None => parts.snapshot # None /\ parts.snapshot.gen = rec.snapshot.gen + 1

(* approve prepares the next record and sets the policy. *)
LEMMA ApprovedPrepared ==
  ASSUME NEW rec \in Record, Valid(rec), rec.revision < MaxRevision, NEW p \in Policies
  PROVE  Prepared(rec, Approved(rec, p)) /\ Approved(rec, p).policy = p
<1>1. CASE rec.snapshot = None
  <2>1. Approved(rec, p) = [revision |-> rec.revision, policy |-> p, approved |-> TRUE,
                            snapshot |-> None]
    BY <1>1 DEF Approved, Renewed, Record
  <2> QED  BY <1>1, <2>1 DEF Prepared, Record
<1>2. CASE rec.snapshot # None
  <2> DEFINE snap == [gen |-> rec.snapshot.gen + 1, policy |-> p, enabled |-> TRUE]
  <2>1. Approved(rec, p) = [revision |-> rec.revision, policy |-> p, approved |-> TRUE,
                            snapshot |-> snap]
    BY <1>2 DEF Approved, Renewed, Record, snapshot_for
  <2>2. snap \in Snapshot
    BY <1>2, BoundsAssumption DEF Snapshot, Gens, Valid, Record
  <2>3. snap # None /\ snap.gen = rec.snapshot.gen + 1
    BY <2>2, NoneAssumption
  <2> HIDE DEF snap
  <2> QED  BY <1>2, <2>1, <2>2, <2>3 DEF Prepared, Record
<1> QED  BY <1>1, <1>2

(* revoke prepares the next record and keeps the policy. *)
LEMMA RevokedPrepared ==
  ASSUME NEW rec \in Record, Valid(rec), rec.revision < MaxRevision
  PROVE  Prepared(rec, Revoked(rec)) /\ Revoked(rec).policy = rec.policy
<1>1. CASE rec.snapshot = None
  <2>1. Revoked(rec) = [revision |-> rec.revision, policy |-> rec.policy,
                        approved |-> FALSE, snapshot |-> None]
    BY <1>1 DEF Revoked, Renewed, Record
  <2> QED  BY <1>1, <2>1 DEF Prepared, Record
<1>2. CASE rec.snapshot # None
  <2> DEFINE snap == [gen |-> rec.snapshot.gen + 1, policy |-> rec.policy, enabled |-> FALSE]
  <2>1. Revoked(rec) = [revision |-> rec.revision, policy |-> rec.policy,
                        approved |-> FALSE, snapshot |-> snap]
    BY <1>2 DEF Revoked, Renewed, Record, snapshot_for
  <2>2. snap \in Snapshot
    BY <1>2, BoundsAssumption DEF Snapshot, Gens, Valid, Record
  <2>3. snap # None /\ snap.gen = rec.snapshot.gen + 1
    BY <2>2, NoneAssumption
  <2> HIDE DEF snap
  <2> QED  BY <1>2, <2>1, <2>2, <2>3 DEF Prepared, Record
<1> QED  BY <1>1, <1>2

(* resolve, for Enroll, prepares generation 1 and keeps the policy. *)
LEMMA EnrolledPrepared ==
  ASSUME NEW rec \in Record, rec.snapshot = None, rec.policy # None
  PROVE  /\ Prepared(rec, Enrolled(rec)) /\ Enrolled(rec).policy = rec.policy
         /\ Enrolled(rec).snapshot \in Snapshot /\ Enrolled(rec).snapshot.gen = 1
<1> DEFINE snap == [gen |-> 1, policy |-> rec.policy, enabled |-> rec.approved]
<1>1. Enrolled(rec) = [revision |-> rec.revision, policy |-> rec.policy,
                       approved |-> rec.approved, snapshot |-> snap]
  BY DEF Enrolled, Record, snapshot_for
<1>2. snap \in Snapshot /\ snap.gen = 1
  BY BoundsAssumption DEF Record, Snapshot, Gens
<1> HIDE DEF snap
<1> QED  BY <1>1, <1>2 DEF Prepared, Record

(* commit stores the prepared record with the next revision, or blocks. *)
LEMMA CommitFollows ==
  ASSUME TypeOK, AuthorityInv, NEW r \in Replicas, Live(r), NEW parts,
         disk = replica[r] => Prepared(replica[r], parts),
         Committed(r, parts) \/ Ambiguous(r, parts)
  PROVE  (\E next : Stores(r, next)) \/ Keeps(r)
<1> DEFINE rec == replica[r]
           next == [parts EXCEPT !.revision = rec.revision + 1]
<1>1. CASE Written(rec, next)
  <2>1. rec \in Record /\ rec # None /\ disk = rec
    BY <1>1 DEF TypeOK, Live, Written
  <2>2. rec.revision < MaxRevision /\ Valid(next)
    BY DEF Committed, Ambiguous
  <2>3. parts \in Record
    BY <2>1 DEF Prepared
  <2>4. next \in Record /\ next.snapshot = parts.snapshot
    BY <2>1, <2>2, <2>3, BoundsAssumption DEF Record
  <2>5. Follows(next)
    <3> HIDE DEF next
    <3> QED  BY <2>1, <2>2, <2>4 DEF Follows, AuthorityInv, Prepared
  <2> QED  BY <1>1, <2>5 DEF Stores, Written, Committed, Ambiguous
<1>2. CASE ~Written(rec, next)
  BY <1>2 DEF Keeps, Committed, Ambiguous, NotWritten
<1> QED  BY <1>1, <1>2

\* The log only grows.
Grows == \A i \in 1..Len(log) : i \in 1..Len(log') /\ log'[i] = log[i]

(* A stored record continues the log and is current afterwards. *)
LEMMA StoresKeeps ==
  ASSUME TypeOK, AuthorityInv, NEW r \in Replicas, NEW next, Stores(r, next)
  PROVE  /\ AuthorityInv'
         /\ disk' \in Record
         /\ replica' \in [Replicas -> Record \cup {None}]
         /\ log' \in Seq(Snapshot)
         /\ Grows
         /\ next.snapshot # None => Len(log') = Len(log) + 1 /\ log'[Len(log')] = next.snapshot
<1>1. next \in Record /\ Valid(next) /\ next # None
  BY NoneAssumption DEF Stores, Follows
<1>2. disk' = next
  BY DEF Stores
<1>3. log \in Seq(Snapshot) /\ Len(log) \in Nat
  BY DEF TypeOK
<1>4. replica \in [Replicas -> Record \cup {None}]
  BY DEF TypeOK
<1>5. replica' \in [Replicas -> Record \cup {None}]
  BY <1>1, <1>4 DEF Stores
<1>6. \A q \in Replicas : replica'[q] \in {replica[q], next, None}
  BY <1>1, <1>4 DEF Stores
<1>7. CASE next.snapshot = None
  <2>1. log' = log /\ log = <<>>
    BY <1>7 DEF Stores, Follows, Logged
  <2> QED  BY <1>1, <1>2, <1>3, <1>5, <1>6, <1>7, <2>1 DEF AuthorityInv, InLog, Grows
<1>8. CASE next.snapshot # None
  <2> DEFINE snap == next.snapshot
  <2>1. snap \in Snapshot /\ snap.gen = Len(log) + 1 /\ log' = Append(log, snap)
    BY <1>1, <1>8 DEF Record, Stores, Follows, Logged
  <2>2. log' \in Seq(Snapshot) /\ Len(log') = Len(log) + 1 /\ log'[Len(log')] = snap
    BY <1>3, <2>1
  <2>3. Grows
    BY <1>3, <2>1 DEF Grows
  <2>4. \A i \in 1..Len(log') : log'[i].gen = i
    <3> SUFFICES ASSUME NEW i \in 1..Len(log') PROVE log'[i].gen = i
      OBVIOUS
    <3>1. CASE i = Len(log')
      BY <2>1, <2>2, <3>1
    <3>2. CASE i # Len(log')
      <4>1. i \in 1..Len(log)
        BY <1>3, <2>2, <3>2
      <4> QED  BY <2>3, <4>1 DEF Grows, AuthorityInv
    <3> QED  BY <3>1, <3>2
  <2>5. InLog(snap)'
    BY <1>3, <1>2, <2>1, <2>2 DEF InLog
  <2>6. \A q \in Replicas :
          replica'[q] # None /\ replica'[q].snapshot # None =>
            replica'[q].snapshot.gen \in 1..Len(log')
              /\ log'[replica'[q].snapshot.gen] = replica'[q].snapshot
    BY <1>3, <1>6, <2>1, <2>2, <2>3 DEF AuthorityInv, InLog, Grows
  <2> QED  BY <1>1, <1>2, <1>5, <1>8, <2>1, <2>2, <2>3, <2>4, <2>6, <1>3
           DEF AuthorityInv, InLog
<1> QED  BY <1>7, <1>8

(* Restoring, blocking or doing nothing leaves the log as it is. *)
LEMMA KeepsKeeps ==
  ASSUME TypeOK, AuthorityInv, NEW r \in Replicas, Keeps(r)
  PROVE  /\ AuthorityInv'
         /\ replica' \in [Replicas -> Record \cup {None}]
<1>1. replica \in [Replicas -> Record \cup {None}] /\ disk \in Record \cup {None}
  BY DEF TypeOK
<1>2. /\ replica' \in [Replicas -> Record \cup {None}]
      /\ \A q \in Replicas : replica'[q] \in {replica[q], disk, None}
  BY <1>1 DEF Keeps
<1>3. disk' = disk /\ log' = log
  BY DEF Keeps
<1> QED  BY <1>2, <1>3 DEF AuthorityInv, InLog

(* Every operation of the authority stores a record that follows, or stores none. *)
LEMMA AuthoritySteps ==
  ASSUME TypeOK, AuthorityInv, EnrollmentStep
  PROVE  \/ \E r \in Replicas : (\E next : Stores(r, next)) \/ Keeps(r)
         \/ UNCHANGED authority
<1>1. ASSUME NEW r \in Replicas, Register(r)
      PROVE  \E next : Stores(r, next)
  <2>1. disk = None /\ log = <<>> /\ disk' = First /\ Logged(First)
    BY <1>1 DEF Register, Written, AuthorityInv
  <2>2. Follows(First)
    BY <2>1, BoundsAssumption DEF Follows, First, Record, Valid
  <2> QED  BY <1>1, <2>1, <2>2 DEF Register, Stores
<1>2. ASSUME NEW r \in Replicas, Restore(r)
      PROVE  Keeps(r)
  BY <1>2 DEF Restore, Keeps
<1>3. ASSUME NEW r \in Replicas, Revoke(r)
      PROVE  (\E next : Stores(r, next)) \/ Keeps(r)
  <2>1. disk = replica[r] => Prepared(replica[r], Revoked(replica[r]))
    <3> SUFFICES ASSUME disk = replica[r] PROVE Prepared(replica[r], Revoked(replica[r]))
      OBVIOUS
    <3>1. /\ replica[r] \in Record /\ Valid(replica[r])
          /\ replica[r].revision < MaxRevision
      BY <1>3 DEF Revoke, Live, Committed, Ambiguous, TypeOK, AuthorityInv
    <3> QED  BY <3>1, RevokedPrepared
  <2>2. /\ Live(r)
        /\ Committed(r, Revoked(replica[r])) \/ Ambiguous(r, Revoked(replica[r]))
    BY <1>3 DEF Revoke
  <2> QED  BY <2>1, <2>2, CommitFollows
<1>4. ASSUME NEW r \in Replicas, NEW p \in Policies, Approve(r, p)
      PROVE  (\E next : Stores(r, next)) \/ Keeps(r)
  <2>1. disk = replica[r] => Prepared(replica[r], Approved(replica[r], p))
    <3> SUFFICES ASSUME disk = replica[r] PROVE Prepared(replica[r], Approved(replica[r], p))
      OBVIOUS
    <3>1. /\ replica[r] \in Record /\ Valid(replica[r])
          /\ replica[r].revision < MaxRevision
      BY <1>4 DEF Approve, Live, Committed, Ambiguous, TypeOK, AuthorityInv
    <3> QED  BY <3>1, ApprovedPrepared
  <2>2. /\ Live(r)
        /\ Committed(r, Approved(replica[r], p)) \/ Ambiguous(r, Approved(replica[r], p))
    BY <1>4 DEF Approve
  <2> QED  BY <2>1, <2>2, CommitFollows
<1>5. ASSUME NEW r \in Replicas, NEW m \in requests, Serve(r, m)
      PROVE  (\E next : Stores(r, next)) \/ Keeps(r)
  <2>1. CASE UNCHANGED authority
    BY <2>1 DEF authority, Keeps
  <2>2. CASE /\ MayEnroll(replica[r], m.query)
             /\ Committed(r, Enrolled(replica[r])) \/ Ambiguous(r, Enrolled(replica[r]))
    <3>1. Live(r) /\ replica[r] \in Record /\ Valid(replica[r])
      BY <1>5 DEF Serve, Live, Current, TypeOK, AuthorityInv
    <3>2. Prepared(replica[r], Enrolled(replica[r]))
      BY <2>2, <3>1, EnrolledPrepared DEF MayEnroll, Valid
    <3> QED  BY <2>2, <3>1, <3>2, CommitFollows
  <2> QED  BY <1>5, <2>1, <2>2 DEF Serve
<1>6. ASSUME NEW r \in Replicas, NEW m \in requests, ServeBlocks(r, m)
      PROVE  Keeps(r)
  BY <1>6 DEF ServeBlocks, Keeps
<1>7. ASSUME \/ \E x \in Exchanges, query \in Query, life \in Lives : Begin(x, query, life)
             \/ Accept \/ Abandon
      PROVE  UNCHANGED authority
  BY <1>7 DEF Begin, Accept, Abandon
<1> QED  BY <1>1, <1>2, <1>3, <1>4, <1>5, <1>6, <1>7 DEF EnrollmentStep

(* Every step of the whole system keeps the authority's invariant and its log. *)
LEMMA AuthorityInvariance ==
  ASSUME TypeOK, AuthorityInv, [Next]_vars
  PROVE  /\ AuthorityInv'
         /\ disk' \in Record \cup {None}
         /\ replica' \in [Replicas -> Record \cup {None}]
         /\ log' \in Seq(Snapshot)
         /\ Grows
<1>1. CASE EnrollmentStep
  <2>1. ASSUME NEW r \in Replicas, NEW next, Stores(r, next)
        PROVE  /\ AuthorityInv' /\ disk' \in Record \cup {None} /\ log' \in Seq(Snapshot)
               /\ replica' \in [Replicas -> Record \cup {None}] /\ Grows
    BY <2>1, StoresKeeps
  <2>2. ASSUME NEW r \in Replicas, Keeps(r)
        PROVE  /\ AuthorityInv' /\ disk' \in Record \cup {None} /\ log' \in Seq(Snapshot)
               /\ replica' \in [Replicas -> Record \cup {None}] /\ Grows
    BY <2>2, KeepsKeeps DEF Keeps, TypeOK, Grows
  <2>3. CASE UNCHANGED authority
    BY <2>3 DEF authority, AuthorityInv, InLog, TypeOK, Grows
  <2> QED  BY <1>1, <2>1, <2>2, <2>3, AuthoritySteps
<1>2. CASE UNCHANGED authority
  BY <1>2 DEF authority, AuthorityInv, InLog, TypeOK, Grows
<1>3. CASE ~EnrollmentStep
  <2>1. UNCHANGED authority
    BY <1>3 DEF Next, vars, time, New, Refresh, prepare, install_session, poll_app,
       complete, with_authorized_effect, Restart, Tick, Passing
  <2> QED  BY <1>2, <2>1
<1> QED  BY <1>1, <1>3

-----------------------------------------------------------------------------
(* The device *)

(* What a served request puts on the network is current: a snapshot of the log
   that no other has superseded when it was read. *)
LEMMA ServedIsCurrent ==
  ASSUME TypeOK, AuthorityInv, NEW r \in Replicas, NEW m \in requests, Serve(r, m)
  PROVE  \/ reply' = reply
         \/ /\ reply' \in Snapshot /\ InLog(reply)'
            /\ reply'.gen >= Len(log) /\ pending # None
<1> DEFINE rec == replica[r]
<1>1. rec \in Record /\ Valid(rec) /\ disk = rec /\ disk # None
  BY DEF Serve, Live, Current, TypeOK, AuthorityInv
<1>2. CASE UNCHANGED reply
  BY <1>2
<1>3. CASE MayEnroll(rec, m.query) /\ Committed(r, Enrolled(rec)) /\ Reply(m, Enrolled(rec).snapshot)
  <2> DEFINE snap == Enrolled(rec).snapshot
             next == [Enrolled(rec) EXCEPT !.revision = rec.revision + 1]
  <2>1. /\ Prepared(rec, Enrolled(rec))
        /\ snap \in Snapshot /\ snap.gen = 1
    BY <1>1, <1>3, EnrolledPrepared DEF MayEnroll, Valid
  <2>2. log = <<>>
    BY <1>1, <1>3 DEF MayEnroll, AuthorityInv
  <2>3. next.snapshot = snap
    BY <2>1 DEF Prepared, Record
  <2>4. log' = Append(log, snap)
    <3>1. Logged(next)
      BY <1>3 DEF Committed, Written
    <3> HIDE DEF next, snap
    <3>2. snap # None
      BY <2>1, NoneAssumption
    <3> QED  BY <2>3, <3>1, <3>2 DEF Logged
  <2>5. Len(log') = 1 /\ log'[1] = snap
    <3> HIDE DEF snap
    <3> QED  BY <2>2, <2>4, <2>1
  <2>6. reply' = reply \/ (reply' = snap /\ pending # None)
    BY <1>3 DEF Reply
  <2> HIDE DEF snap, next
  <2> QED  BY <2>1, <2>2, <2>5, <2>6 DEF InLog
<1>4. CASE MayRefresh(rec, m.query) /\ Reply(m, rec.snapshot) /\ UNCHANGED authority
  <2>1. /\ rec.snapshot \in Snapshot /\ rec.snapshot # None
        /\ rec.snapshot.gen = Len(log) /\ InLog(rec.snapshot)
    BY <1>1, <1>4 DEF MayRefresh, AuthorityInv, Record
  <2>2. reply' = reply \/ (reply' = rec.snapshot /\ pending # None)
    BY <1>4 DEF Reply
  <2>3. log' = log
    BY <1>4 DEF authority
  <2> QED  BY <2>1, <2>2, <2>3 DEF InLog, Snapshot, Gens, TypeOK
<1> QED  BY <1>2, <1>3, <1>4 DEF Serve

(* discard keeps what the connection is for and ends its session. *)
LEMMA DiscardFields ==
  ASSUME NEW c \in Connection
  PROVE  /\ discard(c) \in Connection /\ discard(c).trust = c.trust
         /\ discard(c).left = c.left /\ discard(c).epoch = c.epoch
         /\ discard(c).app = FALSE /\ discard(c).deferred = {}
BY DEF discard, Connection

(* So does an expired or failed policy, which leaves no time either. *)
LEMMA BlockedFields ==
  ASSUME NEW c \in Connection
  PROVE  /\ Blocked(c) \in Connection /\ Blocked(c).trust = c.trust
         /\ Blocked(c).left = 0 /\ Blocked(c).epoch = c.epoch
         /\ Blocked(c).app = FALSE /\ Blocked(c).deferred = {}
<1>1. 0 \in 0..LIFETIME
  BY BoundsAssumption
<1>2. discard(c) \in Connection
  BY DiscardFields
<1>3. Blocked(c) \in Connection
  BY <1>1, <1>2 DEF Blocked, Connection
<1>4. /\ Blocked(c).trust = discard(c).trust /\ Blocked(c).left = 0
      /\ Blocked(c).epoch = discard(c).epoch /\ Blocked(c).app = discard(c).app
      /\ Blocked(c).deferred = discard(c).deferred
  BY <1>2 DEF Blocked, Connection
<1> QED  BY <1>3, <1>4, DiscardFields

(* Every step keeps the types. *)
LEMMA TypeInvariance ==
  ASSUME TypeOK, AuthorityInv, LeaseInv, SessionInv, [Next]_vars
  PROVE  TypeOK'
<1>0. /\ disk' \in Record \cup {None}
      /\ replica' \in [Replicas -> Record \cup {None}]
      /\ log' \in Seq(Snapshot)
  BY AuthorityInvariance
<1> DEFINE Rest == /\ requests' \subseteq [id : Exchanges, query : Query]
                   /\ reply' \in Snapshot \cup {None}
                   /\ pending' \in Pending \cup {None}
                   /\ verified' \in Verified \cup {None}
                   /\ mirror' \in Snapshot \cup {None}
                   /\ old' \in [Gens -> 0..LIFETIME]
                   /\ conn' \in Connection \cup {None}
                   /\ handles' \subseteq Handle
<1> SUFFICES Rest
  BY <1>0 DEF TypeOK
<1> USE BoundsAssumption
<1>e. handles \subseteq Handle /\ Ended \subseteq Handle
  BY DEF TypeOK, Ended, Handle
<1>1. ASSUME NEW r \in Replicas,
             \/ Register(r) \/ Restore(r) \/ Revoke(r)
             \/ \E policy \in Policies : Approve(r, policy),
             UNCHANGED managed
      PROVE  Rest
  BY <1>1 DEF Register, Restore, Revoke, Approve, TypeOK, device, network, managed
<1>2. ASSUME NEW r \in Replicas, NEW m \in requests, Serve(r, m), UNCHANGED managed
      PROVE  Rest
  <2>1. reply' \in Snapshot \cup {None}
    BY <1>2, ServedIsCurrent DEF TypeOK
  <2> QED  BY <1>2, <2>1 DEF Serve, TypeOK, device, managed
<1>3. ASSUME NEW r \in Replicas, NEW m \in requests, ServeBlocks(r, m), UNCHANGED managed
      PROVE  Rest
  BY <1>3 DEF ServeBlocks, TypeOK, device, managed
<1>4. ASSUME NEW x \in Exchanges, NEW query \in Query, NEW life \in Lives,
             Begin(x, query, life), UNCHANGED managed
      PROVE  Rest
  <2>1. pending' \in Pending
    BY <1>4, LivesAssumption DEF Begin, Pending
  <2>2. requests' \subseteq [id : Exchanges, query : Query]
    BY <1>4 DEF Begin, TypeOK
  <2> QED  BY <1>4, <2>1, <2>2 DEF Begin, TypeOK, managed
<1>5. CASE Accept /\ UNCHANGED managed
  <2>1. verified' \in Verified \cup {None}
    <3>1. reply \in Snapshot /\ pending \in Pending
      BY <1>5 DEF Accept, LeaseInv, TypeOK
    <3>2. Lease(reply) \in Verified
      BY <3>1 DEF Lease, Verified, Pending
    <3> QED  BY <1>5, <3>2 DEF Accept
  <2> QED  BY <1>5, <2>1 DEF Accept, TypeOK, managed
<1>6. CASE Abandon /\ UNCHANGED managed
  BY <1>6 DEF Abandon, TypeOK, managed
<1>7. CASE time
  <2>1. conn' \in Connection
    BY <1>7, BlockedFields DEF time, TypeOK
  <2> QED  BY <1>7, <1>e, <2>1 DEF time, TypeOK, device, network
<1>8. CASE New
  <2>1. verified \in Verified
    BY <1>8 DEF New, TypeOK
  <2>2. conn' \in Connection \cup {None}
    <3>1. [trust |-> verified.snapshot, left |-> verified.left, grant |-> None,
           epoch |-> 0, app |-> FALSE, deferred |-> {}, seen |-> {}, effects |-> {}]
             \in Connection
      BY <2>1, EpochAssumption DEF Verified, Connection
    <3> QED  BY <1>8, <3>1 DEF New, TypeOK
  <2> QED  BY <1>8, <2>1, <2>2 DEF New, Mirrored, NotMirrored, TypeOK, Verified, network
<1>9. CASE Refresh
  <2>1. conn \in Connection /\ discard(conn) \in Connection /\ Blocked(conn) \in Connection
    BY <1>9, DiscardFields, BlockedFields DEF Refresh, TypeOK
  <2>2. verified # None =>
          [discard(conn) EXCEPT !.trust = verified.snapshot, !.left = verified.left]
            \in Connection
    BY <2>1 DEF Connection, Verified, TypeOK
  <2> QED  BY <1>9, <1>e, <2>1, <2>2
           DEF Refresh, Mirrored, NotMirrored, TypeOK, Verified, network
<1>10. CASE prepare
  <2>1. conn \in Connection
    BY <1>10 DEF prepare, Open, TypeOK
  <2>2. conn' \in Connection
    BY <1>10, <2>1 DEF prepare, Connection
  <2> QED  BY <1>10, <2>2 DEF prepare, TypeOK, device, network
<1>11. CASE install_session
  <2>1. conn \in Connection /\ conn.epoch < MaxEpoch
    BY <1>11 DEF install_session, Granted, Open, TypeOK
  <2>2. conn.epoch + 1 \in 0..MaxEpoch
    BY <2>1, EpochAssumption DEF Connection
  <2>3. conn' \in Connection
    <3>1. discard(conn) \in Connection /\ discard(conn).epoch = conn.epoch
      BY <2>1, DiscardFields
    <3> QED  BY <1>11, <2>1, <2>2, <3>1 DEF install_session, Connection
  <2> QED  BY <1>11, <1>e, <2>3 DEF install_session, TypeOK, device, network
<1>12. ASSUME NEW w \in Works, poll_app(w)
       PROVE  Rest
  <2>1. conn \in Connection /\ conn.grant \in Snapshot /\ conn.app
    BY <1>12 DEF poll_app, Granted, Permits, Open, TypeOK, Connection
  <2>2. conn' \in Connection
    BY <1>12, <2>1 DEF poll_app, Connection
  <2>3. conn.epoch \in 1..MaxEpoch
    BY <1>12, <2>1, EpochAssumption DEF poll_app, Granted, Open, SessionInv, Connection
  <2>4. handles' \subseteq Handle
    <3>1. [work |-> w, gen |-> conn.grant.gen, epoch |-> conn.epoch, live |-> TRUE,
           ran |-> 0] \in Handle
      BY <2>1, <2>3 DEF Handle, Snapshot
    <3> QED  BY <1>12, <1>e, <3>1 DEF poll_app
  <2> QED  BY <1>12, <2>2, <2>4 DEF poll_app, TypeOK, device, network
<1>13. ASSUME NEW w \in Works, complete(w)
       PROVE  Rest
  <2>1. conn \in Connection
    BY <1>13 DEF complete, Granted, Open, TypeOK
  <2>2. conn' \in Connection
    BY <1>13, <2>1 DEF complete, Connection
  <2> QED  BY <1>13, <2>2 DEF complete, TypeOK, device, network
<1>14. ASSUME NEW h \in handles, with_authorized_effect(h)
       PROVE  Rest
  <2>1. conn \in Connection /\ h \in Handle
    BY <1>14, <1>e DEF with_authorized_effect, Granted, Open, TypeOK
  <2>2. conn' \in Connection
    BY <1>14, <2>1 DEF with_authorized_effect, Connection, Handle
  <2>3. [h EXCEPT !.ran = @ + 1] \in Handle
    BY <2>1 DEF Handle
  <2> QED  BY <1>14, <1>e, <2>2, <2>3 DEF with_authorized_effect, TypeOK, device, network
<1>15. CASE Restart
  BY <1>15 DEF Restart, TypeOK
<1>16. CASE Tick
  <2>1. \A n \in 0..LIFETIME : Down(n) \in 0..LIFETIME
    BY DEF Down
  <2>2. pending' \in Pending \cup {None}
    BY <1>16, <2>1 DEF Tick, Passing, Aged, TypeOK, Pending
  <2>3. verified' \in Verified \cup {None}
    BY <1>16, <2>1 DEF Tick, Passing, Aged, TypeOK, Verified
  <2>4. conn' \in Connection \cup {None}
    BY <1>16, <2>1 DEF Tick, Aged, TypeOK, Connection
  <2>5. old' \in [Gens -> 0..LIFETIME]
    BY <1>16 DEF Tick, Passing, TypeOK
  <2> QED  BY <1>16, <2>2, <2>3, <2>4, <2>5 DEF Tick, Passing, TypeOK, network
<1>17. CASE UNCHANGED vars
  BY <1>17 DEF vars, TypeOK, device, network, managed
<1> QED
  BY <1>1, <1>2, <1>3, <1>4, <1>5, <1>6, <1>7, <1>8, <1>9, <1>10, <1>11, <1>12, <1>13,
     <1>14, <1>15, <1>16, <1>17 DEF Next, EnrollmentStep

(* Every snapshot the device comes to hold is in the log. *)
LEMMA DeviceInvariance ==
  ASSUME TypeOK, AuthorityInv, DeviceInv, LeaseInv, [Next]_vars
  PROVE  DeviceInv'
<1>0. Grows
  BY AuthorityInvariance
<1>k. ASSUME NEW s, InLog(s)
      PROVE  s.gen \in 1..Len(log') /\ log'[s.gen] = s
  BY <1>0, <1>k DEF Grows, InLog
<1>1. ASSUME NEW r \in Replicas,
             \/ Register(r) \/ Restore(r) \/ Revoke(r)
             \/ \E policy \in Policies : Approve(r, policy)
             \/ \E m \in requests : ServeBlocks(r, m),
             UNCHANGED managed
      PROVE  DeviceInv'
  <2>1. UNCHANGED <<device, reply, managed>>
    BY <1>1 DEF Register, Restore, Revoke, Approve, ServeBlocks, network
  <2> QED  BY <1>k, <2>1 DEF DeviceInv, InLog, device, managed
<1>2. ASSUME NEW r \in Replicas, NEW m \in requests, Serve(r, m), UNCHANGED managed
      PROVE  DeviceInv'
  <2>1. reply' # None => InLog(reply)'
    BY <1>2, <1>k, ServedIsCurrent DEF DeviceInv, InLog
  <2> QED  BY <1>2, <1>k, <2>1 DEF Serve, DeviceInv, InLog, device, managed
<1>3. ASSUME NEW x \in Exchanges, NEW query \in Query, NEW life \in Lives,
             Begin(x, query, life), UNCHANGED managed
      PROVE  DeviceInv'
  BY <1>3, <1>k DEF Begin, DeviceInv, InLog, managed
<1>4. CASE Accept /\ UNCHANGED managed
  BY <1>4, <1>k DEF Accept, Lease, DeviceInv, InLog, managed
<1>5. CASE Abandon /\ UNCHANGED managed
  BY <1>5, <1>k DEF Abandon, DeviceInv, InLog, managed
<1>6. CASE time
  BY <1>6, <1>k, BlockedFields DEF time, DeviceInv, InLog, device, network, TypeOK
<1>7. CASE New
  BY <1>7, <1>k DEF New, Mirrored, NotMirrored, DeviceInv, InLog, network
<1>8. CASE Refresh
  <2>1. conn \in Connection /\ discard(conn) \in Connection /\ Blocked(conn).trust = conn.trust
    BY <1>8, DiscardFields, BlockedFields DEF Refresh, TypeOK
  <2>2. conn'.trust = conn.trust \/ (conn'.trust = verified.snapshot /\ verified # None)
    BY <1>8, <2>1 DEF Refresh, Connection
  <2> QED  BY <1>8, <1>k, <2>2 DEF Refresh, Mirrored, NotMirrored, DeviceInv, InLog, network
<1>9. ASSUME \/ prepare \/ install_session
             \/ \E w \in Works : poll_app(w) \/ complete(w)
             \/ \E h \in handles : with_authorized_effect(h)
      PROVE  DeviceInv'
  <2>1. conn \in Connection /\ conn # None
    BY <1>9 DEF prepare, install_session, poll_app, complete, with_authorized_effect,
       Granted, Open, TypeOK
  <2>2. conn'.trust = conn.trust
    BY <1>9, <2>1, DiscardFields DEF prepare, install_session, poll_app, complete,
       with_authorized_effect, Connection
  <2>3. UNCHANGED <<device, network>>
    BY <1>9 DEF prepare, install_session, poll_app, complete, with_authorized_effect
  <2> QED  BY <1>k, <2>1, <2>2, <2>3 DEF DeviceInv, InLog, device, network
<1>10. CASE Restart
  BY <1>10, <1>k DEF Restart, DeviceInv, InLog
<1>11. CASE Tick
  <2>1. verified # None => verified'.snapshot = verified.snapshot
    BY <1>11 DEF Tick, Passing, Aged, TypeOK, Verified
  <2>2. conn # None => conn'.trust = conn.trust
    BY <1>11 DEF Tick, Aged, TypeOK, Connection
  <2>3. (verified' # None => verified # None) /\ (conn' # None => conn # None)
    BY <1>11 DEF Tick, Passing, Aged
  <2> QED  BY <1>11, <1>k, <2>1, <2>2, <2>3 DEF Tick, Passing, DeviceInv, InLog, network
<1>12. CASE UNCHANGED vars
  BY <1>12, <1>k DEF vars, DeviceInv, InLog, device, network, managed
<1> QED
  BY <1>1, <1>2, <1>3, <1>4, <1>5, <1>6, <1>7, <1>8, <1>9, <1>10, <1>11, <1>12
  DEF Next, EnrollmentStep

(* Time taken from a deadline is at least the time added to what is superseded, and
   no step but a new exchange sets a deadline. *)
LEMMA LeaseInvariance ==
  ASSUME TypeOK, AuthorityInv, DeviceInv, LeaseInv, [Next]_vars
  PROVE  LeaseInv'
<1> USE BoundsAssumption
<1>0. Len(log) \in Nat /\ Len(log') \in Nat /\ Len(log') >= Len(log)
  <2>1. Grows /\ log' \in Seq(Snapshot) /\ log \in Seq(Snapshot)
    BY AuthorityInvariance DEF TypeOK
  <2> QED  BY <2>1 DEF Grows
<1>o. ASSUME old' = old
      PROVE  \A g \in Gens : g >= Len(log') => old'[g] = 0
  BY <1>0, <1>o DEF LeaseInv, Gens
<1>1. ASSUME NEW r \in Replicas,
             \/ Register(r) \/ Restore(r) \/ Revoke(r)
             \/ \E policy \in Policies : Approve(r, policy)
             \/ \E m \in requests : ServeBlocks(r, m),
             UNCHANGED managed
      PROVE  LeaseInv'
  <2>1. UNCHANGED <<device, reply, managed, old>>
    BY <1>1 DEF Register, Restore, Revoke, Approve, ServeBlocks, network
  <2> QED  BY <1>o, <2>1 DEF LeaseInv, device, managed
<1>2. ASSUME NEW r \in Replicas, NEW m \in requests, Serve(r, m), UNCHANGED managed
      PROVE  LeaseInv'
  <2>1. UNCHANGED <<device, managed, old>>
    BY <1>2 DEF Serve
  <2>2. CASE reply' = reply
    BY <1>o, <2>1, <2>2 DEF LeaseInv, device, managed
  <2>3. CASE reply' \in Snapshot /\ reply'.gen >= Len(log) /\ pending # None
    <3>1. old[reply'.gen] = 0 /\ pending.left \in 0..LIFETIME
      BY <2>3 DEF LeaseInv, Snapshot, TypeOK, Pending
    <3> QED  BY <1>o, <2>1, <2>3, <3>1 DEF LeaseInv, device, managed
  <2> QED  BY <1>2, <2>2, <2>3, ServedIsCurrent
<1>3. ASSUME NEW x \in Exchanges, NEW query \in Query, NEW life \in Lives,
             Begin(x, query, life), UNCHANGED managed
      PROVE  LeaseInv'
  BY <1>3, <1>o DEF Begin, LeaseInv, managed
<1>4. CASE Accept /\ UNCHANGED managed
  BY <1>4, <1>o DEF Accept, Lease, LeaseInv, managed
<1>5. CASE Abandon /\ UNCHANGED managed
  BY <1>5, <1>o DEF Abandon, LeaseInv, managed
<1>6. CASE time
  <2>1. conn \in Connection /\ conn'.trust = conn.trust /\ conn'.left = 0
    BY <1>6, BlockedFields DEF time, TypeOK
  <2>2. old[conn.trust.gen] \in 0..LIFETIME
    BY <2>1 DEF TypeOK, Connection, Snapshot
  <2> QED  BY <1>6, <1>o, <2>1, <2>2 DEF time, LeaseInv, device, network
<1>7. CASE New
  BY <1>7, <1>o DEF New, LeaseInv, network
<1>8. CASE Refresh
  <2>1. /\ conn \in Connection /\ discard(conn) \in Connection
        /\ Blocked(conn).trust = conn.trust /\ Blocked(conn).left = 0
    BY <1>8, DiscardFields, BlockedFields DEF Refresh, TypeOK
  <2>2. old[conn.trust.gen] \in 0..LIFETIME
    BY <2>1 DEF TypeOK, Connection, Snapshot
  <2>3. \/ conn'.trust = conn.trust /\ conn'.left = 0
        \/ /\ conn'.trust = verified.snapshot /\ conn'.left = verified.left
           /\ verified # None
    BY <1>8, <2>1 DEF Refresh, Connection
  <2> QED  BY <1>8, <1>o, <2>2, <2>3 DEF Refresh, LeaseInv, network
<1>9. ASSUME \/ prepare \/ install_session
             \/ \E w \in Works : poll_app(w) \/ complete(w)
             \/ \E h \in handles : with_authorized_effect(h)
      PROVE  LeaseInv'
  <2>1. conn \in Connection /\ conn # None
    BY <1>9 DEF prepare, install_session, poll_app, complete, with_authorized_effect,
       Granted, Open, TypeOK
  <2>2. conn'.trust = conn.trust /\ conn'.left = conn.left
    <3>1. CASE install_session
      <4>1. discard(conn) \in Connection /\ discard(conn).trust = conn.trust
              /\ discard(conn).left = conn.left
        BY <2>1, DiscardFields
      <4> QED  BY <3>1, <4>1 DEF install_session, Connection
    <3>2. CASE ~install_session
      BY <1>9, <2>1, <3>2 DEF prepare, poll_app, complete, with_authorized_effect, Connection
    <3> QED  BY <3>1, <3>2
  <2>3. UNCHANGED <<device, network, old>>
    BY <1>9 DEF prepare, install_session, poll_app, complete, with_authorized_effect
  <2> QED  BY <1>o, <2>1, <2>2, <2>3 DEF LeaseInv, device, network
<1>10. CASE Restart
  BY <1>10, <1>o DEF Restart, LeaseInv
<1>11. CASE Tick
  <2>1. /\ \A g \in Gens : old[g] \in 0..LIFETIME
        /\ old' = [g \in Gens |-> IF g < Len(log) /\ old[g] < LIFETIME
                                  THEN old[g] + 1 ELSE old[g]]
        /\ log' = log /\ reply' = reply
    BY <1>11 DEF Tick, Passing, TypeOK, authority, network
  <2>2. ASSUME NEW g \in Gens, NEW n \in 0..LIFETIME, old[g] + n <= LIFETIME
        PROVE  old'[g] + Down(n) <= LIFETIME
    BY <2>1, <2>2 DEF Down
  <2>3. \A g \in Gens : g >= Len(log') => old'[g] = 0
    BY <2>1, <1>0 DEF LeaseInv, Gens
  <2>4. reply # None => pending' # None /\ old'[reply'.gen] + pending'.left <= LIFETIME
    <3> SUFFICES ASSUME reply # None
                 PROVE  pending' # None /\ old'[reply'.gen] + pending'.left <= LIFETIME
      OBVIOUS
    <3>1. pending \in Pending /\ pending # None /\ reply.gen \in Gens
      BY DEF LeaseInv, TypeOK, Snapshot
    <3>2. pending' = [pending EXCEPT !.left = Down(pending.left)]
      BY <1>11, <3>1 DEF Tick, Passing, Aged
    <3>3. pending'.left = Down(pending.left) /\ pending' \in Pending
      BY <3>1, <3>2 DEF Pending, Down
    <3>4. pending' # None
      BY <3>3, NoneAssumption
    <3> QED  BY <2>1, <2>2, <3>1, <3>3, <3>4 DEF LeaseInv, Pending
  <2>5. verified' # None => old'[verified'.snapshot.gen] + verified'.left <= LIFETIME
    <3>1. verified = None => verified' = None
      BY <1>11 DEF Tick, Passing, Aged
    <3>2. CASE verified # None
      <4>1. verified \in Verified /\ verified' = [verified EXCEPT !.left = Down(verified.left)]
        BY <1>11, <3>2 DEF Tick, Passing, Aged, TypeOK
      <4>2. /\ verified'.left = Down(verified.left) /\ verified'.snapshot = verified.snapshot
            /\ verified.snapshot.gen \in Gens /\ verified.left \in 0..LIFETIME
        BY <4>1 DEF Verified, Snapshot
      <4> QED  BY <2>2, <3>2, <4>2 DEF LeaseInv
    <3> QED  BY <3>1, <3>2
  <2>6. conn' # None => old'[conn'.trust.gen] + conn'.left <= LIFETIME
    <3>1. conn = None => conn' = None
      BY <1>11 DEF Tick, Aged
    <3>2. CASE conn # None
      <4>1. conn \in Connection /\ conn' = [conn EXCEPT !.left = Down(conn.left)]
        BY <1>11, <3>2 DEF Tick, Aged, TypeOK
      <4>2. /\ conn'.left = Down(conn.left) /\ conn'.trust = conn.trust
            /\ conn.trust.gen \in Gens /\ conn.left \in 0..LIFETIME
        BY <4>1 DEF Connection, Snapshot
      <4> QED  BY <2>2, <3>2, <4>2 DEF LeaseInv
    <3> QED  BY <3>1, <3>2
  <2> QED  BY <2>1, <2>3, <2>4, <2>5, <2>6 DEF LeaseInv
<1>12. CASE UNCHANGED vars
  BY <1>12, <1>o DEF vars, LeaseInv, device, network, managed
<1> QED
  BY <1>1, <1>2, <1>3, <1>4, <1>5, <1>6, <1>7, <1>8, <1>9, <1>10, <1>11, <1>12
  DEF Next, EnrollmentStep

-----------------------------------------------------------------------------
(* Handles and effects *)

\* The history of a handle whose effect has run once more.
Ran(h) == [h EXCEPT !.ran = @ + 1]

\* How a step may treat the session and its handles.
SameSession ==
  /\ handles' = handles
  /\ conn = None => conn' = None
  /\ conn # None =>
       /\ conn' # None
       /\ conn'.epoch = conn.epoch /\ conn'.app = conn.app /\ conn'.seen = conn.seen
       /\ conn'.deferred \subseteq conn.deferred /\ conn'.effects = conn.effects
EndsSession ==
  /\ conn \in Connection /\ conn # None
  /\ handles' = Ended /\ conn' # None
  /\ conn'.epoch = conn.epoch /\ conn'.app = FALSE /\ conn'.deferred = {}
OpensSession ==
  /\ Granted
  /\ handles' = Ended /\ conn' # None
  /\ conn'.epoch = conn.epoch + 1
FirstSession == conn = None /\ handles' = handles /\ (conn' # None => conn'.app = FALSE)
LosesSession == conn' = None /\ handles' = {}

(* Every step treats the session in one of these ways, accepts a request, or runs
   an effect. *)
LEMMA SessionSteps ==
  ASSUME TypeOK, [Next]_vars
  PROVE  \/ SameSession \/ EndsSession \/ OpensSession \/ FirstSession \/ LosesSession
         \/ \E w \in Works : poll_app(w)
         \/ \E h \in handles : with_authorized_effect(h)
<1>1. CASE UNCHANGED managed
  BY <1>1 DEF managed, SameSession
<1>2. CASE time
  BY <1>2, BlockedFields, ConnectionAssumption DEF time, TypeOK, EndsSession
<1>3. CASE New
  BY <1>3 DEF New, FirstSession
<1>4. CASE Refresh
  <2>1. conn \in Connection /\ conn # None
    BY <1>4 DEF Refresh, TypeOK
  <2>2. /\ discard(conn) \in Connection /\ discard(conn).epoch = conn.epoch
        /\ discard(conn).app = FALSE /\ discard(conn).deferred = {}
    BY <2>1, DiscardFields
  <2>3. /\ Blocked(conn) \in Connection
        /\ Blocked(conn).epoch = conn.epoch /\ Blocked(conn).app = FALSE
        /\ Blocked(conn).deferred = {}
    BY <2>1, BlockedFields
  <2>4. /\ conn'.epoch = conn.epoch /\ conn'.app = FALSE /\ conn'.deferred = {}
        /\ conn' # None
    <3>v. verified # None => verified \in Verified
      BY DEF TypeOK
    <3>1. CASE conn' = Blocked(conn)
      BY <2>3, <3>1, ConnectionAssumption
    <3>2. CASE /\ verified # None
               /\ conn' = [discard(conn) EXCEPT !.trust = verified.snapshot,
                                                !.left = verified.left]
      <4>1. conn' \in Connection
        BY <2>2, <3>v, <3>2 DEF Connection, Verified
      <4> QED  BY <2>2, <3>2, <4>1, ConnectionAssumption DEF Connection
    <3> QED  BY <1>4, <3>1, <3>2 DEF Refresh
  <2> QED  BY <1>4, <2>1, <2>4 DEF Refresh, EndsSession
<1>5. CASE prepare
  <2>1. conn \in Connection /\ conn # None
    BY <1>5 DEF prepare, Open, TypeOK
  <2>2. conn' \in Connection
    BY <1>5, <2>1 DEF prepare, Connection
  <2> QED  BY <1>5, <2>1, <2>2, ConnectionAssumption DEF prepare, SameSession, Connection
<1>6. CASE install_session
  <2>1. conn \in Connection /\ conn # None
    BY <1>6 DEF install_session, Granted, Open, TypeOK
  <2>2. discard(conn) \in Connection /\ discard(conn).epoch = conn.epoch
    BY <2>1, DiscardFields
  <2>3. conn'.epoch = conn.epoch + 1
    BY <1>6, <2>2 DEF install_session, Connection
  <2>4. conn' \in Connection
    <3>1. conn.epoch + 1 \in 0..MaxEpoch
      BY <1>6, <2>1, EpochAssumption DEF install_session, Connection
    <3> QED  BY <1>6, <2>1, <2>2, <3>1 DEF install_session, Connection
  <2> QED  BY <1>6, <2>3, <2>4, ConnectionAssumption DEF install_session, OpensSession
<1>7. ASSUME NEW w \in Works, complete(w)
      PROVE  SameSession
  <2>1. conn \in Connection /\ conn # None
    BY <1>7 DEF complete, Granted, Open, TypeOK
  <2>2. conn' \in Connection
    BY <1>7, <2>1 DEF complete, Connection
  <2> QED  BY <1>7, <2>1, <2>2, ConnectionAssumption DEF complete, SameSession, Connection
<1>8. CASE Restart
  BY <1>8 DEF Restart, LosesSession
<1>9. CASE Tick
  <2>1. CASE conn = None
    BY <1>9, <2>1 DEF Tick, Aged, SameSession
  <2>2. CASE conn # None
    <3>1. conn \in Connection /\ conn' = [conn EXCEPT !.left = Down(conn.left)]
      BY <1>9, <2>2 DEF Tick, Aged, TypeOK
    <3>2. conn' \in Connection
      BY <3>1, BoundsAssumption DEF Connection, Down
    <3> QED  BY <1>9, <2>2, <3>1, <3>2, ConnectionAssumption DEF Tick, SameSession, Connection
  <2> QED  BY <2>1, <2>2
<1> QED
  BY <1>1, <1>2, <1>3, <1>4, <1>5, <1>6, <1>7, <1>8, <1>9 DEF Next, vars, managed

(* An ended handle is its handle without the session. *)
LEMMA EndedHandles ==
  ASSUME TypeOK, NEW g \in Ended
  PROVE  \E h \in handles : /\ h \in Handle /\ g = [h EXCEPT !.live = FALSE]
                            /\ g.work = h.work /\ g.epoch = h.epoch /\ g.ran = h.ran
<1>1. PICK h \in handles : g = [h EXCEPT !.live = FALSE]
  BY DEF Ended
<1>2. h \in Handle
  BY DEF TypeOK
<1> QED  BY <1>1, <1>2 DEF Handle

(* The history of one more run changes only the count. *)
LEMMA RanFields ==
  ASSUME NEW h \in Handle
  PROVE  /\ Ran(h) \in Handle /\ Ran(h).work = h.work /\ Ran(h).epoch = h.epoch
         /\ Ran(h).live = h.live /\ Ran(h).ran = h.ran + 1 /\ Ran(h).ran # h.ran
BY DEF Ran, Handle

(* Every step keeps the handles of the running session told apart from all others. *)
LEMMA HandleInvariance ==
  ASSUME TypeOK, SessionInv, HandleInv, [Next]_vars
  PROVE  SessionInv' /\ HandleInv'
<1>t. handles \subseteq Handle /\ conn \in Connection \cup {None}
  BY DEF TypeOK
<1>1. CASE SameSession
  <2>1. CASE conn = None
    BY <1>1, <2>1 DEF SameSession, SessionInv, HandleInv
  <2>2. CASE conn # None
    BY <1>1, <2>2 DEF SameSession, SessionInv, HandleInv
  <2> QED  BY <2>1, <2>2
<1>e. \A g \in Ended : \E h \in handles :
        h \in Handle /\ g = [h EXCEPT !.live = FALSE] /\ g.work = h.work /\ g.epoch = h.epoch
  BY EndedHandles
<1>u. \A g, f \in Ended : g.work = f.work /\ g.epoch = f.epoch => g = f
  <2> SUFFICES ASSUME NEW g \in Ended, NEW f \in Ended, g.work = f.work, g.epoch = f.epoch
               PROVE  g = f
    OBVIOUS
  <2>1. PICK h \in handles : g = [h EXCEPT !.live = FALSE] /\ g.work = h.work /\ g.epoch = h.epoch
    BY <1>e
  <2>2. PICK k \in handles : f = [k EXCEPT !.live = FALSE] /\ f.work = k.work /\ f.epoch = k.epoch
    BY <1>e
  <2>3. h = k
    BY <2>1, <2>2 DEF HandleInv
  <2> QED  BY <2>1, <2>2, <2>3
<1>2. CASE EndsSession
  <2>1. \A g \in handles' : g.epoch <= conn'.epoch
    BY <1>2, <1>e DEF EndsSession, HandleInv
  <2> QED  BY <1>2, <1>u, <2>1 DEF EndsSession, SessionInv, HandleInv
<1>3. CASE OpensSession
  <2>1. conn \in Connection /\ conn # None /\ conn.epoch \in Nat
    BY <1>3, <1>t DEF OpensSession, Granted, Open, Connection
  <2>2. \A g \in handles' : g.epoch <= conn.epoch /\ g.epoch \in Nat
    BY <1>3, <1>e, <1>t, <2>1 DEF OpensSession, HandleInv, Handle
  <2>3. conn'.epoch = conn.epoch + 1
    BY <1>3 DEF OpensSession
  <2>4. \A g \in handles' : g.epoch <= conn'.epoch /\ g.epoch # conn'.epoch
    BY <2>1, <2>2, <2>3
  <2> QED  BY <1>3, <1>u, <2>1, <2>3, <2>4 DEF OpensSession, SessionInv, HandleInv
<1>4. CASE FirstSession
  BY <1>4 DEF FirstSession, SessionInv, HandleInv
<1>5. CASE LosesSession
  BY <1>5 DEF LosesSession, SessionInv, HandleInv
<1>6. ASSUME NEW w \in Works, poll_app(w)
      PROVE  SessionInv' /\ HandleInv'
  <2> DEFINE new == [work |-> w, gen |-> conn.grant.gen, epoch |-> conn.epoch,
                     live |-> TRUE, ran |-> 0]
  <2>1. conn \in Connection /\ conn # None /\ conn.app /\ w \notin conn.seen
    BY <1>6, <1>t DEF poll_app, Granted, Open
  <2>2. /\ conn'.epoch = conn.epoch /\ conn'.app = conn.app
        /\ conn'.seen = conn.seen \cup {w} /\ conn'.deferred = conn.deferred \cup {w}
        /\ conn'.effects = conn.effects
    BY <1>6, <2>1 DEF poll_app, Connection
  <2>3. /\ handles' = handles \cup {new}
        /\ new.work = w /\ new.epoch = conn.epoch /\ new.live = TRUE /\ new.ran = 0
    BY <1>6 DEF poll_app
  <2> HIDE DEF new
  <2>4. \A h \in handles : h.epoch = conn.epoch => h.work # w
    BY <2>1 DEF HandleInv
  <2>5. \A h, g \in handles' : h.work = g.work /\ h.epoch = g.epoch => h = g
    BY <2>3, <2>4 DEF HandleInv
  <2>6. SessionInv'
    BY <2>1, <2>2 DEF SessionInv
  <2>7. ASSUME NEW h \in handles'
        PROVE  /\ h.epoch <= conn'.epoch
               /\ conn'.app /\ h.epoch = conn'.epoch =>
                    /\ h.live /\ h.work \in conn'.seen
                    /\ h.ran > 0 => h.work \notin conn'.deferred \/ h.work \in conn'.effects
    <3>1. CASE h = new
      BY <2>1, <2>2, <2>3, <3>1 DEF Connection
    <3>2. CASE h \in handles
      BY <2>1, <2>2, <2>4, <3>2 DEF HandleInv
    <3> QED  BY <2>3, <3>1, <3>2
  <2>8. conn' # None
    <3>1. conn' \in Connection
      BY <1>6, <2>1 DEF poll_app, Connection
    <3> QED  BY <3>1, ConnectionAssumption
  <2> QED  BY <2>5, <2>6, <2>7, <2>8 DEF HandleInv
<1>7. ASSUME NEW k \in handles, with_authorized_effect(k)
      PROVE  SessionInv' /\ HandleInv'
  <2>1. conn \in Connection /\ conn # None /\ conn.app /\ k.epoch = conn.epoch
    BY <1>7, <1>t DEF with_authorized_effect, Granted, Open, check_handle
  <2>2. /\ conn'.epoch = conn.epoch /\ conn'.app = conn.app /\ conn'.seen = conn.seen
        /\ conn'.deferred = conn.deferred
        /\ conn'.effects = (conn.effects \cap conn.deferred) \cup {k.work}
    BY <1>7, <2>1 DEF with_authorized_effect, Connection
  <2>3. handles' = (handles \ {k}) \cup {Ran(k)}
    BY <1>7 DEF with_authorized_effect, Ran
  <2>4. k \in Handle /\ Ran(k).work = k.work /\ Ran(k).epoch = k.epoch /\ Ran(k).live = k.live
    BY <1>t, RanFields
  <2>5. \A h, g \in handles' : h.work = g.work /\ h.epoch = g.epoch => h = g
    BY <2>3, <2>4 DEF HandleInv
  <2>6. SessionInv'
    BY <2>1, <2>2 DEF SessionInv
  <2>7. ASSUME NEW h \in handles'
        PROVE  /\ h.epoch <= conn'.epoch
               /\ conn'.app /\ h.epoch = conn'.epoch =>
                    /\ h.live /\ h.work \in conn'.seen
                    /\ h.ran > 0 => h.work \notin conn'.deferred \/ h.work \in conn'.effects
    <3>1. CASE h = Ran(k)
      BY <2>1, <2>2, <2>4, <3>1 DEF HandleInv
    <3>2. CASE h \in handles
      BY <2>1, <2>2, <3>2 DEF HandleInv
    <3> QED  BY <2>3, <3>1, <3>2
  <2>8. conn' # None
    <3>1. conn' \in Connection
      BY <1>7, <2>1, <2>4 DEF with_authorized_effect, Connection, Handle
    <3> QED  BY <3>1, ConnectionAssumption
  <2> QED  BY <2>5, <2>6, <2>7, <2>8 DEF HandleInv
<1> QED  BY <1>1, <1>2, <1>3, <1>4, <1>5, <1>6, <1>7, SessionSteps

(* A handle's effect runs only in with_authorized_effect, for a live handle whose
   effect has not run, while the connection has a valid grant. *)
LEMMA EffectSteps ==
  ASSUME TypeOK, HandleInv, [Next]_vars, NEW h \in handles, Ran(h) \in handles'
  PROVE  h.live /\ h.ran = 0 /\ Granted
<1>1. /\ h \in Handle /\ Ran(h) \notin handles
      /\ Ran(h).work = h.work /\ Ran(h).epoch = h.epoch /\ Ran(h).ran = h.ran + 1
  BY RanFields DEF TypeOK, HandleInv
<1>2. Ran(h) \notin Ended
  <2> SUFFICES ASSUME Ran(h) \in Ended PROVE FALSE
    OBVIOUS
  <2>1. PICK g \in handles : g.work = h.work /\ g.epoch = h.epoch /\ g.ran = Ran(h).ran
    BY <1>1, EndedHandles
  <2>2. g = h
    BY <2>1 DEF HandleInv
  <2> QED  BY <2>1, <2>2, RanFields, <1>1
<1>3. ~(SameSession \/ EndsSession \/ OpensSession \/ FirstSession \/ LosesSession)
  BY <1>1, <1>2 DEF SameSession, EndsSession, OpensSession, FirstSession, LosesSession
<1>4. ASSUME NEW w \in Works, poll_app(w)
      PROVE  FALSE
  <2>1. Ran(h).ran = 0
    BY <1>1, <1>4 DEF poll_app
  <2> QED  BY <1>1, <2>1 DEF Handle
<1>5. PICK k \in handles : with_authorized_effect(k)
  BY <1>3, <1>4, SessionSteps
<1>6. Ran(h) = Ran(k)
  BY <1>1, <1>5 DEF with_authorized_effect, Ran
<1>7. k = h
  <2>1. k \in Handle
    BY DEF TypeOK
  <2> QED  BY <1>1, <1>6, <2>1, RanFields DEF HandleInv
<1>8. /\ Granted /\ conn.app /\ h.epoch = conn.epoch
      /\ h.work \in conn.deferred /\ h.work \notin conn.effects
  BY <1>5, <1>7 DEF with_authorized_effect, check_handle
<1> QED  BY <1>1, <1>8 DEF Granted, Open, HandleInv, Handle

-----------------------------------------------------------------------------
(* The results *)

(* The inductive invariant holds throughout. *)
THEOREM InvHolds == Spec => []Inv
<1>1. Init => Inv
  BY BoundsAssumption
  DEF Init, EnrollmentInit, Inv, TypeOK, AuthorityInv, DeviceInv, LeaseInv, SessionInv,
      HandleInv, Gens
<1>2. Inv /\ [Next]_vars => Inv'
  BY AuthorityInvariance, TypeInvariance, DeviceInvariance, LeaseInvariance,
     HandleInvariance DEF Inv
<1> QED  BY <1>1, <1>2, PTL DEF Spec

(* Every variable keeps its type. *)
THEOREM TypesHold == Spec => []TypeOK
BY InvHolds, PTL DEF Inv

(* Equal generations name equal snapshots, in the store, at every replica, on the
   network and at the device: commits that compare before they store, and replicas
   that block when they do not know what was stored, suffice for it. *)
THEOREM SnapshotsAgree == Spec => []OneSnapshotPerGeneration
<1>1. Inv => OneSnapshotPerGeneration
  BY DEF Inv, TypeOK, AuthorityInv, DeviceInv, InLog, OneSnapshotPerGeneration
<1> QED  BY <1>1, InvHolds, PTL

(* What commit stores has the policy of the parts it was given. *)
LEMMA CommitPolicy ==
  ASSUME NEW r \in Replicas, NEW parts \in Record,
         Committed(r, parts) \/ Ambiguous(r, parts), disk' # disk
  PROVE  disk = replica[r] /\ disk'.policy = parts.policy
<1> DEFINE next == [parts EXCEPT !.revision = replica[r].revision + 1]
<1>1. disk = replica[r] /\ disk' = next
  BY DEF Committed, Ambiguous, Written, NotWritten
<1>2. next.policy = parts.policy
  BY DEF Record
<1> QED  BY <1>1, <1>2

(* No operation of any replica gives a claimed device to another owner. *)
THEOREM OwnerStays == Spec => OwnerExclusive
<1> DEFINE Keep == disk # None /\ disk.policy # None =>
                     disk'.policy # None /\ disk'.policy.owner = disk.policy.owner
<1>1. ASSUME Inv, [Next]_vars
      PROVE  Keep
  <2> SUFFICES ASSUME disk # None, disk.policy # None, disk' # disk
               PROVE  disk'.policy # None /\ disk'.policy.owner = disk.policy.owner
    OBVIOUS
  <2>0. TypeOK /\ AuthorityInv
    BY <1>1 DEF Inv
  <2>1. EnrollmentStep
    BY <1>1 DEF Next, vars, authority, time, New, Refresh, prepare, install_session,
       poll_app, complete, with_authorized_effect, Restart, Tick, Passing
  <2>3. ASSUME NEW r \in Replicas, Register(r) PROVE FALSE
    BY <2>3 DEF Register, Written
  <2>r. ASSUME NEW r \in Replicas, disk = replica[r]
        PROVE  replica[r] \in Record /\ Valid(replica[r])
    BY <2>0, <2>r DEF TypeOK, AuthorityInv
  <2>4. ASSUME NEW r \in Replicas, Revoke(r)
        PROVE  disk'.policy = disk.policy
    <3>1. /\ Committed(r, Revoked(replica[r])) \/ Ambiguous(r, Revoked(replica[r]))
          /\ replica[r].revision < MaxRevision
      BY <2>4 DEF Revoke, Committed, Ambiguous
    <3>2. disk = replica[r]
      BY <3>1 DEF Committed, Ambiguous, Written, NotWritten
    <3>3. Revoked(replica[r]) \in Record /\ Revoked(replica[r]).policy = disk.policy
      BY <2>r, <3>1, <3>2, RevokedPrepared DEF Prepared
    <3> QED  BY <3>1, <3>3, CommitPolicy
  <2>5. ASSUME NEW r \in Replicas, NEW p \in Policies, Approve(r, p)
        PROVE  disk'.policy # None /\ disk'.policy.owner = disk.policy.owner
    <3>1. /\ Committed(r, Approved(replica[r], p)) \/ Ambiguous(r, Approved(replica[r], p))
          /\ replica[r].revision < MaxRevision /\ SameOwner(replica[r], p)
      BY <2>5 DEF Approve, Committed, Ambiguous
    <3>2. disk = replica[r]
      BY <3>1 DEF Committed, Ambiguous, Written, NotWritten
    <3>3. Approved(replica[r], p) \in Record /\ Approved(replica[r], p).policy = p
      BY <2>r, <3>1, <3>2, ApprovedPrepared DEF Prepared
    <3>4. disk'.policy = p
      BY <3>1, <3>3, CommitPolicy
    <3> QED  BY <3>1, <3>2, <3>4, NoneAssumption DEF SameOwner
  <2>6. ASSUME NEW r \in Replicas, NEW m \in requests, Serve(r, m)
        PROVE  disk'.policy = disk.policy
    <3>1. /\ MayEnroll(replica[r], m.query)
          /\ Committed(r, Enrolled(replica[r])) \/ Ambiguous(r, Enrolled(replica[r]))
          /\ disk = replica[r]
      BY <2>6 DEF Serve, authority, Current
    <3>2. Enrolled(replica[r]) \in Record /\ Enrolled(replica[r]).policy = disk.policy
      BY <2>r, <3>1, EnrolledPrepared DEF Prepared, MayEnroll
    <3> QED  BY <3>1, <3>2, CommitPolicy
  <2>7. \E r \in Replicas : \/ Register(r) \/ Revoke(r)
                            \/ \E p \in Policies : Approve(r, p)
                            \/ \E m \in requests : Serve(r, m)
    BY <2>1 DEF EnrollmentStep, Restore, ServeBlocks, Begin, Accept, Abandon, authority
  <2> QED  BY <2>3, <2>4, <2>5, <2>6, <2>7
<1>2. Inv /\ [Next]_vars => [Keep]_vars
  BY <1>1
<1> QED  BY <1>2, InvHolds, PTL DEF Spec, OwnerExclusive

(* A device acts only under an enabled policy, superseded for less than the longest
   exchange, whatever the network, the store and the clock of the caller do. *)
THEOREM LeasesBound == Spec => LeaseBounds
<1> DEFINE Acts == /\ conn # None /\ conn' # None
                   /\ \/ conn'.epoch > conn.epoch
                      \/ ~(conn'.deferred \subseteq conn.deferred)
                      \/ \E h \in handles, g \in handles' : [h EXCEPT !.ran = @ + 1] = g
           Bound == conn.trust.enabled /\ old[conn.trust.gen] < LIFETIME
<1>1. ASSUME Inv, [Next]_vars, Acts
      PROVE  Granted
  <2>0. TypeOK /\ HandleInv /\ conn \in Connection
    BY <1>1 DEF Inv, TypeOK
  <2>1. CASE \E h \in handles, g \in handles' : [h EXCEPT !.ran = @ + 1] = g
    BY <1>1, <2>0, <2>1, EffectSteps DEF Ran
  <2>2. CASE conn'.epoch > conn.epoch \/ ~(conn'.deferred \subseteq conn.deferred)
    <3>1. ~SameSession /\ ~EndsSession /\ ~FirstSession /\ ~LosesSession
      BY <1>1, <2>0, <2>2 DEF SameSession, EndsSession, FirstSession, LosesSession, Connection
    <3> QED  BY <1>1, <2>0, <3>1, SessionSteps
             DEF OpensSession, poll_app, with_authorized_effect
  <2> QED  BY <1>1, <2>1, <2>2
<1>2. ASSUME Inv, Granted
      PROVE  Bound
  <2>1. conn \in Connection /\ conn # None /\ conn.left > 0 /\ conn.trust.enabled
    BY <1>2 DEF Inv, TypeOK, Granted, Open, Permits
  <2>2. /\ conn.left \in 0..LIFETIME /\ old[conn.trust.gen] \in 0..LIFETIME
        /\ old[conn.trust.gen] + conn.left <= LIFETIME
    BY <1>2, <2>1 DEF Inv, TypeOK, Connection, Snapshot, LeaseInv
  <2> QED  BY <2>1, <2>2, BoundsAssumption
<1>3. Inv /\ [Next]_vars => [Acts => Bound]_vars
  BY <1>1, <1>2
<1> QED  BY <1>3, InvHolds, PTL DEF Spec, LeaseBounds

(* An effect runs at most once per handle and only within its session. *)
THEOREM EffectsOnce == Spec => EffectsRunOnce
<1>1. Inv /\ [Next]_vars =>
        [\A h \in handles : [h EXCEPT !.ran = @ + 1] \in handles' => h.live /\ h.ran = 0]_vars
  BY EffectSteps DEF Inv, Ran
<1> QED  BY <1>1, InvHolds, PTL DEF Spec, EffectsRunOnce
=============================================================================
