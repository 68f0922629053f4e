----------------------------- MODULE MessageIds -----------------------------
(***************************************************************************)
(* AppIds: the Message IDs an App gives its datagrams.  They are issued in *)
(* wrapping order from a first value.  When all have been issued, the next *)
(* waits until EXCHANGE_LIFETIME after the latest clock reading of any     *)
(* issue and until no CON is pending.  The caller's clock may go back.     *)
(***************************************************************************)
EXTENDS Integers, FiniteSets

CONSTANTS
  N,         \* how many Message IDs there are: 65536
  LIFETIME,  \* EXCHANGE_LIFETIME
  MaxTime    \* bound: the last clock reading

ASSUME SizeAssumption == /\ N \in Nat /\ N > 1
                         /\ LIFETIME \in Nat /\ LIFETIME > 0
                         /\ MaxTime \in Nat

Mids == 0 .. N - 1
Never == -1

VARIABLES
  nextMid, issued, lastMid,  \* AppIds: next_mid, issued, last_mid_ms
  pending,  \* Message IDs of pending CONs
  now,      \* the caller's clock
  first,    \* history: the Message ID the current round began with
  begin,    \* history: the reading at which the current round began
  round,    \* history: Message IDs issued in the current round
  used      \* history: the reading at each Message ID's last issue

vars == <<nextMid, issued, lastMid, pending, now, first, begin, round, used>>

\* The source's random first value; no Message ID has been used.
Init ==
  /\ nextMid \in Mids /\ issued = 0 /\ lastMid = 0
  /\ pending = {} /\ now = 0
  /\ first = nextMid /\ begin = 0 /\ round = {}
  /\ used = [m \in Mids |-> Never]

\* Mutant: the first refusal is of one issue too many.
SpentLate == issued = N + 1

Spent == issued = N

\* Mutant: pending CONs are not looked at.
MayReissueAnyPending == now - lastMid >= LIFETIME

\* The two refusals of a spent number space, MessageIdExhausted.
MayReissue == pending = {} /\ now - lastMid >= LIFETIME

Successor(m) == IF m + 1 = N THEN 0 ELSE m + 1

\* Mutant: the wait counts from the issue that came last, not from the latest reading.
LatestLastIssue(t) == t

Latest(t) == IF lastMid >= t THEN lastMid ELSE t

\* next_for: con tells whether the datagram stays pending.  Without entropy for
\* the jitter nothing changes.
Issue(con) ==
  /\ Spent => MayReissue
  /\ issued' = IF Spent THEN 1 ELSE issued + 1
  /\ nextMid' = Successor(nextMid)
  /\ lastMid' = Latest(now)
  /\ pending' = IF con THEN pending \cup {nextMid} ELSE pending
  /\ used' = [used EXCEPT ![nextMid] = now]
  /\ first' = IF Spent THEN nextMid ELSE first
  /\ round' = IF Spent THEN {nextMid} ELSE round \cup {nextMid}
  /\ begin' = IF Spent \/ issued = 0 THEN now ELSE begin
  /\ UNCHANGED now

\* A pending CON is acknowledged, answered, reset or given up.
Resolve(m) ==
  /\ m \in pending
  /\ pending' = pending \ {m}
  /\ UNCHANGED <<nextMid, issued, lastMid, now, first, begin, round, used>>

\* The next reading of the caller's clock.
Clock(t) ==
  /\ now' = t
  /\ UNCHANGED <<nextMid, issued, lastMid, pending, first, begin, round, used>>

Next ==
  \/ \E con \in BOOLEAN : Issue(con)
  \/ \E m \in Mids : Resolve(m)
  \/ \E t \in 0 .. MaxTime : Clock(t)

Spec == Init /\ [][Next]_vars

-----------------------------------------------------------------------------
(* The allocator's cursor is an ID, its count at most a whole round. *)
TypeOK ==
  /\ nextMid \in Mids /\ first \in Mids
  /\ issued \in 0 .. N
  /\ lastMid \in Nat /\ now \in Nat /\ begin \in Nat
  /\ pending \in SUBSET Mids /\ round \in SUBSET Mids
  /\ used \in [Mids -> Nat \cup {Never}]

\* The Message ID given to a datagram is never that of a CON still pending.
NeverPending == [][nextMid' # nextMid => nextMid \notin pending]_vars

\* A Message ID used before is issued again only in a round that began
\* EXCHANGE_LIFETIME after that use by the caller's clock, however the clock moved
\* in between.
ReuseWaits ==
  [][\A m \in Mids : nextMid' # nextMid /\ m = nextMid /\ used[m] # Never
       => used[m] + LIFETIME <= begin']_vars

-----------------------------------------------------------------------------
\* Inductive invariant: a round is one interval of the number circle that ends
\* before nextMid, and what lies outside it is old and not pending.

RoundIsInterval ==
  \A m \in Mids : m \in round <=>
    \/ issued = N
    \/ issued < N /\ first <= nextMid /\ first <= m /\ m < nextMid
    \/ issued < N /\ nextMid < first /\ (first <= m \/ m < nextMid)

RoundLength ==
  \/ first <= nextMid /\ issued = nextMid - first
  \/ nextMid < first /\ issued = N - first + nextMid
  \/ nextMid = first /\ issued = N

OldOutside == \A m \in Mids \ round : used[m] # Never => used[m] + LIFETIME <= begin

LastIsLatest == \A m \in Mids : used[m] # Never => used[m] <= lastMid

RoundInv ==
  /\ RoundIsInterval /\ RoundLength
  /\ pending \subseteq round
  /\ OldOutside /\ LastIsLatest
  /\ issued = 0 => \A m \in Mids : used[m] = Never
=============================================================================
