-------------------------- MODULE MessageIdsProofs --------------------------
(***************************************************************************)
(* The allocator's invariant and what follows from it, for every size of   *)
(* the number space and every lifetime.                                    *)
(***************************************************************************)
EXTENDS MessageIds, TLAPS

Inv == TypeOK /\ RoundInv

\* A fresh allocator satisfies the invariant: AppIds::new has issued nothing.
LEMMA InitInv == Init => Inv
  BY SizeAssumption DEF Init, Inv, TypeOK, RoundInv, RoundIsInterval, RoundLength, OldOutside,
     LastIsLatest, Mids, Never

\* Unless the space is spent, the next Message ID is outside the current round.
LEMMA NextOutside == Inv /\ issued # N => nextMid \notin round
  BY SizeAssumption DEF Inv, TypeOK, RoundInv, RoundIsInterval, RoundLength, Mids

\* next_for within a round keeps the invariant.
LEMMA IssueInRound ==
  ASSUME NEW con \in BOOLEAN, Inv, Issue(con), issued # N PROVE Inv'
  <1> USE SizeAssumption
  <1>0. /\ ~Spent /\ issued' = issued + 1 /\ first' = first /\ round' = round \cup {nextMid}
        /\ used' = [used EXCEPT ![nextMid] = now]
        /\ begin' = IF issued = 0 THEN now ELSE begin
        /\ nextMid' = IF nextMid + 1 = N THEN 0 ELSE nextMid + 1
        /\ lastMid' = IF lastMid >= now THEN lastMid ELSE now
        /\ pending' \subseteq pending \cup {nextMid}
        /\ now' = now
    BY DEF Issue, Spent, Successor, Latest
  <1>1. TypeOK'
    BY <1>0 DEF Inv, TypeOK, Mids, Never
  <1>2. RoundLength'
    BY <1>0 DEF Inv, TypeOK, RoundInv, RoundLength, Mids
  <1>3. RoundIsInterval'
    BY <1>0 DEF Inv, TypeOK, RoundInv, RoundLength, RoundIsInterval, Mids
  <1>4. pending' \subseteq round'
    BY <1>0 DEF Inv, RoundInv
  <1>5. OldOutside'
    <2> SUFFICES ASSUME NEW m \in Mids, m \notin round', used'[m] # Never
                 PROVE used'[m] + LIFETIME <= begin'
      BY DEF OldOutside
    <2>1. m \notin round /\ m # nextMid /\ used'[m] = used[m]
      BY <1>0 DEF Inv, TypeOK
    <2>2. CASE issued = 0
      BY <2>1, <2>2 DEF Inv, RoundInv
    <2>3. CASE issued # 0
      BY <1>0, <2>1, <2>3 DEF Inv, RoundInv, OldOutside
    <2> QED BY <2>2, <2>3
  <1>6. LastIsLatest'
    BY <1>0 DEF Inv, TypeOK, RoundInv, LastIsLatest, Mids, Never
  <1>7. issued' # 0
    BY <1>0 DEF Inv, TypeOK
  <1> QED BY <1>1, <1>2, <1>3, <1>4, <1>5, <1>6, <1>7 DEF Inv, RoundInv

\* next_for that starts a new round keeps the invariant: the guard on the clock
\* makes every earlier use old enough.
LEMMA IssueNewRound ==
  ASSUME NEW con \in BOOLEAN, Inv, Issue(con), issued = N PROVE Inv'
  <1> USE SizeAssumption
  <1>0. /\ pending = {} /\ now - lastMid >= LIFETIME
        /\ issued' = 1 /\ first' = nextMid /\ round' = {nextMid} /\ begin' = now
        /\ used' = [used EXCEPT ![nextMid] = now]
        /\ nextMid' = IF nextMid + 1 = N THEN 0 ELSE nextMid + 1
        /\ lastMid' = IF lastMid >= now THEN lastMid ELSE now
        /\ pending' \subseteq {nextMid}
        /\ now' = now
    BY DEF Issue, Spent, MayReissue, Successor, Latest
  <1>1. TypeOK'
    BY <1>0 DEF Inv, TypeOK, Mids, Never
  <1>2. RoundLength' /\ RoundIsInterval'
    BY <1>0 DEF Inv, TypeOK, RoundLength, RoundIsInterval, Mids
  <1>3. pending' \subseteq round'
    BY <1>0
  <1>4. OldOutside'
    BY <1>0 DEF Inv, TypeOK, RoundInv, OldOutside, LastIsLatest, Mids, Never
  <1>5. LastIsLatest'
    BY <1>0 DEF Inv, TypeOK, RoundInv, LastIsLatest, Mids, Never
  <1> QED BY <1>0, <1>1, <1>2, <1>3, <1>4, <1>5 DEF Inv, RoundInv

\* Resolving a CON and reading the clock disturb nothing.
LEMMA OtherSteps ==
  ASSUME Inv, (\E m \in Mids : Resolve(m)) \/ (\E t \in 0 .. MaxTime : Clock(t)) \/ UNCHANGED vars
  PROVE Inv'
  <1> USE SizeAssumption
  <1>1. /\ nextMid' = nextMid /\ issued' = issued /\ lastMid' = lastMid
        /\ first' = first /\ begin' = begin /\ round' = round /\ used' = used
        /\ pending' \subseteq pending
    BY DEF Resolve, Clock, vars
  <1>2. now' \in Nat
    BY DEF Resolve, Clock, vars, Inv, TypeOK
  <1>3. TypeOK'
    BY <1>1, <1>2 DEF Inv, TypeOK, Mids
  <1>4. RoundInv'
    BY <1>1 DEF Inv, RoundInv, RoundIsInterval, RoundLength, OldOutside, LastIsLatest
  <1> QED BY <1>3, <1>4 DEF Inv

\* Every step of the App's allocator keeps the invariant.
LEMMA StepInv == Inv /\ [Next]_vars => Inv'
  BY IssueInRound, IssueNewRound, OtherSteps DEF Next

\* The allocator of app/identity.rs always satisfies its round invariant: the
\* Message IDs of a round are one interval that holds every pending CON.
THEOREM RoundsHold == Spec => [](TypeOK /\ RoundInv)
  <1>1. Spec => []Inv
    BY InitInv, StepInv, PTL DEF Spec
  <1> QED BY <1>1, PTL DEF Inv

\* next_for never gives a datagram the Message ID of a CON that is still pending.
THEOREM NeverReusesPending == Spec => NeverPending
  <1>1. Inv /\ [Next]_vars => [nextMid' # nextMid => nextMid \notin pending]_vars
    <2> SUFFICES ASSUME Inv, [Next]_vars, nextMid' # nextMid PROVE nextMid \notin pending
      OBVIOUS
    <2>1. PICK con \in BOOLEAN : Issue(con)
      BY DEF Next, Resolve, Clock, vars
    <2>2. CASE issued = N
      BY <2>1, <2>2 DEF Issue, Spent, MayReissue
    <2>3. CASE issued # N
      BY <2>3, NextOutside DEF Inv, RoundInv
    <2> QED BY <2>2, <2>3
  <1>2. Spec => []Inv
    BY InitInv, StepInv, PTL DEF Spec
  <1> QED BY <1>1, <1>2, PTL DEF Spec, NeverPending

\* next_for reuses a Message ID only in a round that began EXCHANGE_LIFETIME after
\* its last use, also when the caller's clock goes back.
THEOREM ReuseAfterLifetime == Spec => ReuseWaits
  <1> DEFINE A == \A m \in Mids : nextMid' # nextMid /\ m = nextMid /\ used[m] # Never
                    => used[m] + LIFETIME <= begin'
  <1>1. Inv /\ [Next]_vars => [A]_vars
    <2> SUFFICES ASSUME Inv, [Next]_vars, NEW m \in Mids,
                        nextMid' # nextMid, m = nextMid, used[m] # Never
                 PROVE used[m] + LIFETIME <= begin'
      OBVIOUS
    <2>1. PICK con \in BOOLEAN : Issue(con)
      BY DEF Next, Resolve, Clock, vars
    <2>2. CASE issued = N
      <3>1. now - lastMid >= LIFETIME /\ begin' = now
        BY <2>1, <2>2 DEF Issue, Spent, MayReissue
      <3>2. used[m] <= lastMid
        BY DEF Inv, RoundInv, LastIsLatest
      <3> QED BY <3>1, <3>2, SizeAssumption DEF Inv, TypeOK, Never
    <2>3. CASE issued # N
      <3>1. m \notin round
        BY <2>3, NextOutside
      <3>2. issued # 0
        BY DEF Inv, RoundInv
      <3>3. begin' = begin
        BY <2>1, <2>3, <3>2 DEF Issue, Spent
      <3> QED BY <3>1, <3>3 DEF Inv, RoundInv, OldOutside
    <2> QED BY <2>2, <2>3
  <1>2. Spec => []Inv
    BY InitInv, StepInv, PTL DEF Spec
  <1> QED BY <1>1, <1>2, PTL DEF Spec, ReuseWaits
=============================================================================
