------------------------------ MODULE Managed ------------------------------
(***************************************************************************)
(* A managed connection (provisioning/managed.rs) under online policy, with *)
(* the device and the authority of Enrollment.  The connection owns the    *)
(* trust it restored from a verified policy, the grant it captured from    *)
(* it, and the application of one authenticated session; it checks its     *)
(* policy deadline and its grant on every call.                            *)
(*                                                                         *)
(* The application is what its deferred requests need: those that are      *)
(* pending and those whose effect has been permitted.  A new session makes *)
(* a new application, which numbers its requests from the beginning.  The  *)
(* handshake itself, datagrams and Observe are left out.                   *)
(***************************************************************************)
EXTENDS Enrollment

CONSTANTS
  Works,      \* deferred requests one application may accept
  MaxEpoch    \* bound on the sessions of one connection

ASSUME EpochAssumption == MaxEpoch \in Nat

VARIABLES
  conn,       \* the ManagedConnection, or None
  handles     \* the ManagedDeferredReply values the caller holds, each with a
              \* history: whether its session lasts, how often its effect has run

managed == <<conn, handles>>
vars == <<authority, device, network, old, managed>>

Handle == [work : Works, gen : Gens, epoch : 1..MaxEpoch, live : BOOLEAN, ran : Nat]
Connection ==
  [trust : Snapshot, left : 0..LIFETIME, grant : Snapshot \cup {None},
   epoch : 0..MaxEpoch, app : BOOLEAN, deferred : SUBSET Works, seen : SUBSET Works,
   effects : SUBSET Works]

ASSUME ConnectionAssumption == None \notin Connection

-----------------------------------------------------------------------------
(* The connection *)

\* PeerTrust::permits: the grant is for the policy in force and that is enabled.
Permits(c) == c.grant # None /\ c.trust.enabled /\ Anchor(c.grant) = Anchor(c.trust)

\* discard: nothing of the session survives but the transport and its epoch.
discard(c) ==
  [trust |-> c.trust, left |-> c.left, grant |-> None, epoch |-> c.epoch,
   app |-> FALSE, deferred |-> {}, seen |-> {}, effects |-> {}]

\* refresh_blocked: no time is left until a refresh.
Blocked(c) == [discard(c) EXCEPT !.left = 0]

\* history: what the caller still holds belongs to a session that has ended.
Ended == {[h EXCEPT !.live = FALSE] : h \in handles}

\* time and ensure_grant let a call proceed.
Open == conn # None /\ conn.left > 0
Granted == Open /\ Permits(conn)

\* time, on any call: the online policy has expired, or the clock went back.
time ==
  /\ conn # None
  /\ conn' = Blocked(conn)
  /\ handles' = Ended
  /\ UNCHANGED <<authority, device, network, old>>

\* new: a first connection, under an enabled policy that has not expired.
New ==
  /\ conn = None /\ verified # None
  /\ verified' = None
  /\ \/ /\ Mirrored
        /\ verified.snapshot.enabled /\ verified.left > 0
        /\ conn' = [trust |-> verified.snapshot, left |-> verified.left,
                    grant |-> None, epoch |-> 0, app |-> FALSE, deferred |-> {}, seen |-> {},
                    effects |-> {}]
     \/ (Mirrored \/ NotMirrored) /\ UNCHANGED conn
  /\ UNCHANGED <<authority, network, pending, old, handles>>

\* refresh: closes everything first; only a policy that has not expired reopens it.
Refresh ==
  /\ conn # None
  /\ \/ /\ verified # None /\ verified.left > 0 /\ Mirrored
        /\ conn' = [discard(conn) EXCEPT !.trust = verified.snapshot, !.left = verified.left]
     \/ /\ (verified # None /\ Mirrored) \/ NotMirrored
        /\ conn' = Blocked(conn)
  /\ verified' = None
  /\ handles' = Ended
  /\ UNCHANGED <<authority, network, pending, old>>

\* prepare: a connection without a grant captures one from an enabled policy.
prepare ==
  /\ Open /\ conn.grant = None /\ conn.trust.enabled
  /\ conn' = [conn EXCEPT !.grant = conn.trust]
  /\ UNCHANGED <<authority, device, network, old, handles>>

\* install_session: a handshake under the grant has ended; a new application.
install_session ==
  /\ Granted /\ conn.epoch < MaxEpoch
  /\ conn' = [discard(conn) EXCEPT !.grant = conn.grant, !.app = TRUE, !.epoch = @ + 1]
  /\ handles' = Ended
  /\ UNCHANGED <<authority, device, network, old>>

\* poll_app: the application accepts a request and hands out its handle.
poll_app(w) ==
  /\ Granted /\ conn.app
  /\ w \notin conn.seen
  /\ conn' = [conn EXCEPT !.deferred = @ \cup {w}, !.seen = @ \cup {w}]
  /\ handles' = handles \cup {[work |-> w, gen |-> conn.grant.gen, epoch |-> conn.epoch,
                               live |-> TRUE, ran |-> 0]}
  /\ UNCHANGED <<authority, device, network, old>>

\* check_handle: of this grant and this session; requests are numbered anew in each
\* session, so the grant alone (check_handle_grant) does not tell them apart.
check_handle_grant(h) == conn.grant.gen = h.gen
check_handle(h) == conn.grant.gen = h.gen /\ conn.epoch = h.epoch

\* with_authorized_effect: the permission is used up before the callback runs.
with_authorized_effect(h) ==
  /\ Granted /\ check_handle(h)
  /\ conn.app
  /\ h.work \in conn.deferred /\ h.work \notin conn.effects
  /\ conn' = [conn EXCEPT !.effects = (@ \cap conn.deferred) \cup {h.work}]
  /\ handles' = (handles \ {h}) \cup {[h EXCEPT !.ran = @ + 1]}
  /\ UNCHANGED <<authority, device, network, old>>

\* complete, cancel_deferred, or the expiry of the deferred row.
complete(w) ==
  /\ Granted /\ conn.app /\ w \in conn.deferred
  /\ conn' = [conn EXCEPT !.deferred = @ \ {w}]
  /\ UNCHANGED <<authority, device, network, old, handles>>

\* The device restarts: keys, connection and exchange are gone, the mirror stays.
Restart ==
  /\ conn' = None /\ handles' = {}
  /\ pending' = None /\ verified' = None /\ reply' = None
  /\ UNCHANGED <<authority, requests, mirror, old>>

\* A unit of time passes.
Tick ==
  /\ Passing
  /\ conn' = Aged(conn)
  /\ UNCHANGED handles

Init == EnrollmentInit /\ conn = None /\ handles = {}

Next ==
  \/ EnrollmentStep /\ UNCHANGED managed
  \/ time \/ New \/ Refresh \/ prepare \/ install_session
  \/ \E w \in Works : poll_app(w) \/ complete(w)
  \/ \E h \in handles : with_authorized_effect(h)
  \/ Restart
  \/ Tick

Spec == Init /\ [][Next]_vars

-----------------------------------------------------------------------------
(* Properties *)

(* Every variable holds a value the Rust types of EnrollmentAuthority,
   PendingPolicy, VerifiedPolicy and ManagedConnection allow. *)
TypeOK ==
  /\ disk \in Record \cup {None}
  /\ replica \in [Replicas -> Record \cup {None}]
  /\ requests \subseteq [id : Exchanges, query : Query]
  /\ reply \in Snapshot \cup {None}
  /\ pending \in Pending \cup {None}
  /\ verified \in Verified \cup {None}
  /\ mirror \in Snapshot \cup {None}
  /\ log \in Seq(Snapshot)
  /\ old \in [Gens -> 0..LIFETIME]
  /\ conn \in Connection \cup {None}
  /\ handles \subseteq Handle

(* OnlinePolicyAuthority requires that "equal-generation commitments always name
   identical complete snapshots".  The store has held one snapshot of each
   generation, in order, and every copy of a snapshot, at a replica, on the
   network or at the device, is the one of its generation. *)
OneSnapshotPerGeneration ==
  LET Copies == {r.snapshot : r \in {replica[i] : i \in Replicas} \ {None}}
                  \cup {v.snapshot : v \in {verified} \ {None}}
                  \cup {c.trust : c \in {conn} \ {None}}
                  \cup {mirror, reply}
  IN /\ \A i \in DOMAIN log : log[i].gen = i
     /\ \A s \in Copies \ {None} : s.gen \in DOMAIN log /\ s = log[s.gen]

(* "The first owner remains exclusive across revocation": no approval, through
   whatever replica, gives a claimed registration to another owner. *)
OwnerExclusive ==
  [][disk # None /\ disk.policy # None =>
       disk'.policy # None /\ disk'.policy.owner = disk.policy.owner]_vars

(* A device acts for a peer (new session, accepted request, effect) only under an
   enabled policy, and never once that policy has been superseded for as long as
   the longest exchange: revocation takes effect without reaching the device. *)
LeaseBounds ==
  [][conn # None /\ conn' # None
       /\ \/ conn'.epoch > conn.epoch
          \/ ~(conn'.deferred \subseteq conn.deferred)
          \/ \E h \in handles, g \in handles' : [h EXCEPT !.ran = @ + 1] = g
     => conn.trust.enabled /\ old[conn.trust.gen] < LIFETIME]_vars

(* with_authorized_effect runs a handle's effect at most once, and only while the
   session that accepted the request lasts: after a discard, a refresh or a new
   session the handle is stale, even though requests are numbered anew. *)
EffectsRunOnce ==
  [][\A h \in handles : [h EXCEPT !.ran = @ + 1] \in handles' => h.live /\ h.ran = 0]_vars
=============================================================================
