---------------------------- MODULE Enrollment ----------------------------
(***************************************************************************)
(* The enrollment authority of one device (provisioning/authority.rs) and  *)
(* the policy exchange a device runs with it (provisioning/enrollment.rs). *)
(*                                                                         *)
(* The authority is a process that keeps its record in a durable store and *)
(* may be restarted, or run twice by mistake: each live instance is a      *)
(* replica with its own copy of the record.  The store compares and swaps  *)
(* whole records and may lose a write or its confirmation.  Requests and   *)
(* replies of the exchange may be lost or delayed past the exchange.       *)
(*                                                                         *)
(* Digests are taken as injective: an EnrollmentAnchor is its record, and  *)
(* the commitment of a snapshot is the snapshot.  Time is counted down in  *)
(* what is left of each deadline.                                          *)
(***************************************************************************)
EXTENDS Integers, Sequences

CONSTANTS
  None,
  Replicas,     \* instances of EnrollmentAuthority
  Policies,     \* EnrollmentPolicy values: records with fields owner, peer, resources
  Exchanges,    \* sessions with the authority that may be alive at once
  LIFETIME,     \* AuthorityConnection::MAX_EXCHANGE_LIFETIME_MS
  Lives,        \* lifetimes the device asks for
  MaxRevision   \* the largest representable management revision

ASSUME BoundsAssumption == LIFETIME \in Nat \ {0} /\ MaxRevision \in Nat \ {0}
ASSUME LivesAssumption == Lives \subseteq 1..LIFETIME

VARIABLES
  disk,      \* the record the store holds and publishes as current, or None
  replica,   \* the record of each live authority; None when it is not running,
             \* or blocked, which only a verified restore ends
  requests,  \* policy requests on their way to the authority
  reply,     \* the protected reply to the pending exchange on its way, or None:
             \* nobody has the keys to any other reply
  pending,   \* the device's PendingPolicy, or None
  verified,  \* the device's VerifiedPolicy that it has not used yet, or None
  mirror,    \* the device's durable copy of the last snapshot, or None
  log,       \* history: the snapshots the store has held, in their order
  old        \* history: for how long each generation has been superseded

authority == <<disk, replica, log>>
device == <<pending, verified, mirror>>
network == <<requests, reply>>

Gens == 1..MaxRevision
Snapshot == [gen : Gens, policy : Policies, enabled : BOOLEAN]
Record == [revision : 1..MaxRevision, policy : Policies \cup {None}, approved : BOOLEAN,
           snapshot : Snapshot \cup {None}]
Query == [enroll : {TRUE}, policy : Policies, expected : {None}]
           \cup [enroll : {FALSE}, policy : {None}, expected : Snapshot \cup {None}]
Pending == [id : Exchanges, query : Query, left : 0..LIFETIME]
Verified == [snapshot : Snapshot, left : 0..LIFETIME]

ASSUME NoneAssumption == None \notin Policies \cup Snapshot \cup Record \cup Pending

-----------------------------------------------------------------------------
(* The record *)

\* The generation of an anchor: 0 for the confirmed genesis.
Gen(snapshot) == IF snapshot = None THEN 0 ELSE snapshot.gen

\* A TrustAnchor binds the generation, the peer and whether it is enabled; only
\* the commitment of a PolicySnapshot binds owner and resources as well.
Anchor(snapshot) ==
  IF snapshot = None THEN None ELSE <<snapshot.gen, snapshot.policy.peer, snapshot.enabled>>

snapshot_for(record, gen) ==
  [gen |-> gen, policy |-> record.policy, enabled |-> record.approved]

\* EnrollmentRecord::from_parts: what a stored record must satisfy.
Valid(record) ==
  /\ record.approved => record.policy # None
  /\ record.policy # None => record.revision >= 2
  /\ record.snapshot # None =>
       /\ record.policy # None
       /\ record.snapshot.policy = record.policy
       /\ record.snapshot.enabled = record.approved
       /\ record.revision >= record.snapshot.gen + 2

\* approve and revoke advance the generation once the device is enrolled.
Renewed(record) ==
  IF record.snapshot = None THEN record
  ELSE [record EXCEPT !.snapshot = snapshot_for(record, record.snapshot.gen + 1)]

Approved(record, policy) == Renewed([record EXCEPT !.approved = TRUE, !.policy = policy])
Revoked(record) == Renewed([record EXCEPT !.approved = FALSE])

\* resolve for Enroll installs generation 1; 0 is the genesis.
EnrolledAtGenesis(record) == [record EXCEPT !.snapshot = snapshot_for(record, 0)]
Enrolled(record) == [record EXCEPT !.snapshot = snapshot_for(record, 1)]

-----------------------------------------------------------------------------
(* The authority *)

\* history: the snapshots the store has held.
Logged(next) == log' = IF next.snapshot = None THEN log ELSE Append(log, next.snapshot)

\* EnrollmentStore::commit replaces the record it was told to expect; a store that
\* does not compare (WrittenBlind) lets a stale replica overwrite a later record.
WrittenBlind(expected, next) == disk' = next /\ Logged(next)
Written(expected, next) ==
  /\ disk = expected
  /\ disk' = next
  /\ Logged(next)

NotWritten == UNCHANGED <<disk, log>>

Live(r) == replica[r] # None

\* commit, successful: the replica adopts the record that it has stored.
Committed(r, parts) ==
  LET next == [parts EXCEPT !.revision = replica[r].revision + 1] IN
  /\ replica[r].revision < MaxRevision
  /\ Valid(next)
  /\ Written(replica[r], next)
  /\ replica' = [replica EXCEPT ![r] = next]

\* commit, when the store refuses, fails or loses its confirmation: blocked.
Ambiguous(r, parts) ==
  LET next == [parts EXCEPT !.revision = replica[r].revision + 1] IN
  /\ replica[r].revision < MaxRevision
  /\ Valid(next)
  /\ Written(replica[r], next) \/ NotWritten
  /\ replica' = [replica EXCEPT ![r] = None]

First == [revision |-> 1, policy |-> None, approved |-> FALSE, snapshot |-> None]

\* register: the store confirms that this device was never registered.
Register(r) ==
  /\ replica[r] = None
  /\ Written(None, First)
  /\ replica' = [replica EXCEPT ![r] = First]
       \/ UNCHANGED replica
  /\ UNCHANGED <<device, network, old>>

\* restore: only the record that the current anchor names.
Restore(r) ==
  /\ disk # None
  /\ replica[r] = None
  /\ replica' = [replica EXCEPT ![r] = disk]
  /\ UNCHANGED <<disk, log, device, network, old>>

\* approve keeps the owner of a claimed registration.
AnyOwner(record, policy) == TRUE
SameOwner(record, policy) == record.policy # None => record.policy.owner = policy.owner

Approve(r, policy) ==
  /\ Live(r)
  /\ SameOwner(replica[r], policy)
  /\ Committed(r, Approved(replica[r], policy))
       \/ Ambiguous(r, Approved(replica[r], policy))
  /\ UNCHANGED <<device, network, old>>

\* revoke: keeps the owner's claim and leaves a disabled snapshot.
Revoke(r) ==
  /\ Live(r)
  /\ Committed(r, Revoked(replica[r])) \/ Ambiguous(r, Revoked(replica[r]))
  /\ UNCHANGED <<device, network, old>>

-----------------------------------------------------------------------------
(* The exchange *)

\* validate_snapshot, on both sides: the answer fits what was asked.
Fits(snapshot, query) ==
  /\ snapshot.gen >= Gen(query.expected)
  /\ snapshot.gen = Gen(query.expected) =>
       Anchor(snapshot) = Anchor(query.expected) /\ (~query.enroll => snapshot = query.expected)
  /\ query.enroll => snapshot.gen = 1 /\ snapshot.enabled /\ snapshot.policy = query.policy

\* begin: one protected request over a fresh session, with its deadline.  Session
\* names are reused here, and what an older session of that name had left on the
\* network is lost then; the rest of the network may still be delivered late.
Begin(x, query, life) ==
  /\ pending = None /\ verified = None
  /\ query.expected = mirror
  /\ query.enroll => mirror = None
  /\ pending' = [id |-> x, query |-> query, left |-> life]
  /\ requests' = {m \in requests : m.id # x} \cup {[id |-> x, query |-> query]}
  /\ reply' = None
  /\ UNCHANGED <<authority, verified, mirror, old>>

\* resolve, for Enroll: the exact approved policy, once.
MayEnroll(record, query) ==
  query.enroll /\ record.approved /\ record.snapshot = None /\ record.policy = query.policy

\* resolve, for Refresh: the request names no later and no different generation.
MayRefresh(record, query) ==
  /\ ~query.enroll /\ record.snapshot # None
  /\ Gen(query.expected) <= record.snapshot.gen
  /\ Gen(query.expected) = record.snapshot.gen => query.expected = record.snapshot

Reply(m, snapshot) ==
  reply' = IF pending # None /\ pending.id = m.id /\ Fits(snapshot, m.query)
           THEN snapshot ELSE reply

\* Whether the store confirms that the replica's record is the current one.
Current(r) == disk = replica[r]

\* serve with resolve: the request is used up whatever the outcome.  One that is
\* refused without a change might as well be delayed for ever.
Serve(r, m) ==
  /\ Live(r) /\ Current(r)
  /\ requests' = requests \ {m}
  /\ LET record == replica[r] IN
     \/ /\ MayEnroll(record, m.query)
        /\ \/ Committed(r, Enrolled(record)) /\ Reply(m, Enrolled(record).snapshot)
           \/ Ambiguous(r, Enrolled(record)) /\ UNCHANGED reply
     \/ /\ MayRefresh(record, m.query)
        /\ Reply(m, record.snapshot)
        /\ UNCHANGED authority
  /\ UNCHANGED <<device, old>>

\* resolve, when the store is unavailable or holds another record: blocked.
ServeBlocks(r, m) ==
  /\ Live(r)
  /\ requests' = requests \ {m}
  /\ replica' = [replica EXCEPT ![r] = None]
  /\ UNCHANGED <<disk, log, reply, device, old>>

\* VerifiedPolicy: acceptance never extends the deadline set before the challenge.
LeaseAnew(snapshot) == [snapshot |-> snapshot, left |-> LIFETIME]
Lease(snapshot) == [snapshot |-> snapshot, left |-> pending.left]

\* accept: the reply of this exchange, before its deadline.
Accept ==
  /\ reply # None /\ pending.left > 0
  /\ pending' = None /\ reply' = None
  /\ verified' = IF Fits(reply, pending.query) THEN Lease(reply) ELSE None
  /\ UNCHANGED <<authority, requests, mirror, old>>

\* The exchange fails, expires or is dropped; its session is never used again.
Abandon ==
  /\ pending # None \/ verified # None
  /\ pending' = None /\ verified' = None /\ reply' = None
  /\ UNCHANGED <<authority, requests, mirror, old>>

\* persist_and_restore writes the mirror; a failed write may have happened.
Mirrored == mirror' = verified.snapshot
NotMirrored == UNCHANGED mirror

Down(n) == IF n = 0 THEN 0 ELSE n - 1
Aged(timer) == IF timer = None THEN None ELSE [timer EXCEPT !.left = Down(timer.left)]

\* A unit of time passes for the exchange and for what has been superseded.
Passing ==
  /\ pending' = Aged(pending)
  /\ verified' = Aged(verified)
  /\ old' = [g \in Gens |-> IF g < Len(log) /\ old[g] < LIFETIME THEN old[g] + 1 ELSE old[g]]
  /\ UNCHANGED <<authority, network, mirror>>

EnrollmentInit ==
  /\ disk = None
  /\ replica = [r \in Replicas |-> None]
  /\ requests = {} /\ reply = None
  /\ pending = None /\ verified = None /\ mirror = None
  /\ log = <<>>
  /\ old = [g \in Gens |-> 0]

EnrollmentStep ==
  \/ \E r \in Replicas :
       \/ Register(r) \/ Restore(r) \/ Revoke(r)
       \/ \E policy \in Policies : Approve(r, policy)
       \/ \E m \in requests : Serve(r, m) \/ ServeBlocks(r, m)
  \/ \E x \in Exchanges, query \in Query, life \in Lives : Begin(x, query, life)
  \/ Accept \/ Abandon
=============================================================================
