------------------------ MODULE OscoreContextProofs ------------------------
(***************************************************************************)
(* For every sequence space, window width and reservation size: no sender  *)
(* number is used twice and no protected request has effects twice, across *)
(* crashes.  The inductive invariant is TypeOK with the two relations      *)
(* SenderInv and RecipientInv between the live and the durable state.      *)
(***************************************************************************)
EXTENDS OscoreContext, TLAPS

\* The inductive invariant.
ContextInv == TypeOK /\ NonceUnique /\ EffectOnce /\ SenderInv /\ RecipientInv

\* replay_accept keeps the window well typed, rejects the accepted number and
\* makes no rejected number fresh.
LEMMA AcceptKeepsRejections ==
  ASSUME NEW w \in Window, NEW s \in Seqs, Fresh(w, s)
  PROVE  /\ Accept(w, s) \in Window
         /\ ~Fresh(Accept(w, s), s)
         /\ \A t \in Seqs : Fresh(Accept(w, s), t) => Fresh(w, t)
<1>1. CASE s < w.left + REPLAY_WINDOW
  <2>1. Accept(w, s) = [w EXCEPT !.got = @ \cup {s}]
    BY <1>1 DEF Accept
  <2> QED  BY <2>1 DEF Fresh, Window, Seqs
<1>2. CASE ~(s < w.left + REPLAY_WINDOW)
  <2> DEFINE l == s + 1 - REPLAY_WINDOW
  <2>1. Accept(w, s) = [left |-> l, got |-> {t \in w.got : t >= l} \cup {s}]
    BY <1>2 DEF Accept
  <2>2. w.left \in Nat /\ s \in Nat /\ REPLAY_WINDOW \in Nat \ {0} /\ s < MaxSeq /\ MaxSeq \in Nat
        /\ w.got \subseteq Seqs
    BY SizeAssumption DEF Window, Seqs
  <2>3. l \in 0 .. MaxSeq /\ l >= w.left
    BY <1>2, <2>2
  <2> QED  BY <2>1, <2>2, <2>3 DEF Fresh, Window, Seqs
<1> QED  BY <1>1, <1>2

\* A checkpoint that validate_successor lets through makes no rejected number
\* fresh.
LEMMA SuccessorKeepsRejections ==
  ASSUME NEW w \in Window, NEW next \in Window, Successor(w, next)
  PROVE  \A t \in Seqs : Fresh(next, t) => Fresh(w, t)
BY DEF Successor, Fresh, Window, Seqs

\* The initial context satisfies the invariant.
LEMMA InitContextInv == Init => ContextInv
BY SizeAssumption
   DEF Init, ContextInv, TypeOK, NonceUnique, EffectOnce, SenderInv, RecipientInv, Window, Seqs, Fresh

\* The sender half is untouched by steps that leave its variables alone.
LEMMA SenderUntouched ==
  ASSUME ContextInv, UNCHANGED sender, up' \in BOOLEAN, up' => up
  PROVE  /\ seq' \in 0 .. MaxSeq /\ end' \in 0 .. MaxSeq /\ diskEnd' \in 0 .. MaxSeq
         /\ uses' \in [Seqs -> Nat]
         /\ NonceUnique' /\ SenderInv'
BY DEF ContextInv, TypeOK, NonceUnique, SenderInv, sender

\* The recipient half is untouched by steps that leave its variables alone.
LEMMA RecipientUntouched ==
  ASSUME ContextInv, UNCHANGED recipient, up' => up
  PROVE  /\ window' \in Window /\ disk' \in Window /\ dirty' \in BOOLEAN
         /\ effects' \in [Seqs -> Nat]
         /\ EffectOnce' /\ RecipientInv'
BY DEF ContextInv, TypeOK, EffectOnce, RecipientInv, recipient, Fresh

\* A step that moves the live window to one that rejects more, and writes it or
\* leaves the disk alone, keeps the recipient relation.
LEMMA WindowMoves ==
  ASSUME ContextInv, up, window' \in Window,
         \A t \in Seqs : Fresh(window', t) => Fresh(window, t),
         disk' \in {disk, window'}
  PROVE  /\ disk' \in Window
         /\ \A t \in Seqs : Fresh(disk', t) => Fresh(disk, t)
         /\ \A t \in Seqs : Fresh(window', t) => Fresh(disk', t)
<1>1. CASE disk' = disk
  BY <1>1 DEF ContextInv, TypeOK, RecipientInv
<1>2. CASE disk' = window'
  BY <1>2 DEF ContextInv, RecipientInv
<1> QED  BY <1>1, <1>2

\* Every step keeps the invariant.
LEMMA NextContextInv == ContextInv /\ [Next]_vars => ContextInv'
<1> SUFFICES ASSUME ContextInv, [Next]_vars PROVE ContextInv'
  OBVIOUS
<1>1. ASSUME NEW n \in 1 .. MaxReserve, NEW w \in Writes, Reserve(n, w)
      PROVE  ContextInv'
  <2> DEFINE new == Larger(end, seq) + n
  <2>1. /\ new \in 0 .. MaxSeq /\ new > end /\ new > seq
        /\ diskEnd' \in {diskEnd, new} /\ end' \in {end, new}
        /\ (end' = new => diskEnd' = new)
        /\ UNCHANGED <<up, seq, uses>> /\ up
    BY <1>1, SizeAssumption DEF Reserve, Larger, Granted, ContextInv, TypeOK
  <2>2. /\ seq' \in 0 .. MaxSeq /\ end' \in 0 .. MaxSeq /\ diskEnd' \in 0 .. MaxSeq
        /\ uses' \in [Seqs -> Nat] /\ NonceUnique' /\ up' \in BOOLEAN
    BY <2>1 DEF ContextInv, TypeOK, NonceUnique
  <2>3. SenderInv'
    BY <2>1, SizeAssumption DEF ContextInv, TypeOK, SenderInv, Seqs
  <2> QED  BY <1>1, <2>1, <2>2, <2>3, RecipientUntouched DEF ContextInv, TypeOK, Reserve
<1>2. ASSUME NEW n \in 0 .. MaxSeq, SetSenderSeq(n)
      PROVE  ContextInv'
  <2>1. NonceUnique' /\ SenderInv'
    BY <1>2, SizeAssumption DEF SetSenderSeq, ContextInv, TypeOK, NonceUnique, SenderInv, Seqs
  <2> QED  BY <1>2, <2>1, RecipientUntouched DEF ContextInv, TypeOK, SetSenderSeq
<1>3. ASSUME RestoreReservation
      PROVE  ContextInv'
  <2>1. NonceUnique' /\ SenderInv'
    BY <1>3, SizeAssumption DEF RestoreReservation, ContextInv, TypeOK, NonceUnique, SenderInv, Seqs
  <2> QED  BY <1>3, <2>1, RecipientUntouched DEF ContextInv, TypeOK, RestoreReservation
<1>4. ASSUME Protect
      PROVE  ContextInv'
  <2>1. seq \in Seqs /\ seq' = seq + 1 /\ uses[seq] = 0 /\ seq < diskEnd
    BY <1>4, SizeAssumption DEF Protect, ContextInv, TypeOK, SenderInv, Seqs
  <2>2. uses' \in [Seqs -> Nat] /\ \A s \in Seqs : uses'[s] = IF s = seq THEN 1 ELSE uses[s]
    BY <1>4, <2>1 DEF Protect, ContextInv, TypeOK
  <2>3. NonceUnique'
    BY <2>2 DEF NonceUnique, ContextInv
  <2>4. SenderInv'
    BY <1>4, <2>1, <2>2, SizeAssumption DEF Protect, SenderInv, ContextInv, TypeOK, Seqs
  <2> QED  BY <1>4, <2>1, <2>2, <2>3, <2>4, RecipientUntouched, SizeAssumption
           DEF ContextInv, TypeOK, Protect
<1>5. ASSUME NEW w \in Writes, PollIdle(w)
      PROVE  ContextInv'
  <2>1. window' = window /\ disk' \in {disk, window'} /\ dirty' \in BOOLEAN /\ up /\ up' = up
        /\ effects' = effects /\ window' \in Window
    BY <1>5 DEF PollIdle, Flush, ContextInv, TypeOK
  <2>2. /\ disk' \in Window
        /\ \A t \in Seqs : Fresh(disk', t) => Fresh(disk, t)
        /\ \A t \in Seqs : Fresh(window', t) => Fresh(disk', t)
    BY <2>1, WindowMoves
  <2>3. EffectOnce' /\ RecipientInv'
    BY <2>1, <2>2 DEF EffectOnce, RecipientInv, ContextInv
  <2> QED  BY <1>5, <2>1, <2>2, <2>3, SenderUntouched DEF ContextInv, TypeOK, PollIdle
<1>6. ASSUME NEW s \in Seqs, NEW w \in Writes, NEW m \in BOOLEAN, PollRequest(s, w, m)
      PROVE  ContextInv'
  <2>1. /\ window' = Accept(window, s) /\ disk' \in {disk, window'} /\ dirty' \in BOOLEAN
        /\ up /\ up' = up /\ window \in Window /\ Fresh(window, s)
        /\ effects' \in {effects, [effects EXCEPT ![s] = @ + 1]}
        /\ (disk' = window' \/ effects' = effects)
    BY <1>6 DEF PollRequest, Flush, MayRun, ContextInv, TypeOK
  <2>2. /\ window' \in Window /\ ~Fresh(window', s)
        /\ \A t \in Seqs : Fresh(window', t) => Fresh(window, t)
    BY <2>1, AcceptKeepsRejections
  <2>3. /\ disk' \in Window
        /\ \A t \in Seqs : Fresh(disk', t) => Fresh(disk, t)
        /\ \A t \in Seqs : Fresh(window', t) => Fresh(disk', t)
    BY <2>1, <2>2, WindowMoves
  <2>4. effects \in [Seqs -> Nat] /\ effects[s] = 0
    BY <2>1 DEF ContextInv, TypeOK, RecipientInv
  <2>5. effects' \in [Seqs -> Nat] /\ EffectOnce'
    BY <2>1, <2>4 DEF EffectOnce, ContextInv
  <2>6. RecipientInv'
    BY <2>1, <2>2, <2>3, <2>4 DEF RecipientInv, ContextInv
  <2> QED  BY <1>6, <2>1, <2>2, <2>3, <2>5, <2>6, SenderUntouched DEF ContextInv, TypeOK, PollRequest
<1>7. ASSUME NEW s \in Seqs, PollResponse(s)
      PROVE  ContextInv'
  <2>1. /\ window' = Accept(window, s) /\ disk' = disk /\ dirty' \in BOOLEAN
        /\ up /\ up' = up /\ window \in Window /\ Fresh(window, s) /\ effects' = effects
    BY <1>7 DEF PollResponse, ContextInv, TypeOK
  <2>2. /\ window' \in Window
        /\ \A t \in Seqs : Fresh(window', t) => Fresh(window, t)
    BY <2>1, AcceptKeepsRejections
  <2>3. EffectOnce' /\ RecipientInv' /\ disk' \in Window
    BY <2>1, <2>2, WindowMoves DEF EffectOnce, RecipientInv, ContextInv
  <2> QED  BY <1>7, <2>1, <2>2, <2>3, SenderUntouched DEF ContextInv, TypeOK, PollResponse
<1>8. ASSUME NEW next \in Window, RestoreReplay(next)
      PROVE  ContextInv'
  <2>1. /\ window' = next /\ disk' = disk /\ dirty' \in BOOLEAN
        /\ up /\ up' = up /\ window \in Window /\ Successor(window, next) /\ effects' = effects
    BY <1>8 DEF RestoreReplay, ContextInv, TypeOK
  <2>2. \A t \in Seqs : Fresh(window', t) => Fresh(window, t)
    BY <2>1, SuccessorKeepsRejections
  <2>3. EffectOnce' /\ RecipientInv' /\ disk' \in Window
    BY <2>1, <2>2, WindowMoves DEF EffectOnce, RecipientInv, ContextInv
  <2> QED  BY <1>8, <2>1, <2>2, <2>3, SenderUntouched DEF ContextInv, TypeOK, RestoreReplay
<1>9. ASSUME Crash
      PROVE  ContextInv'
  BY <1>9, SenderUntouched, RecipientUntouched DEF ContextInv, TypeOK, Crash
<1>10. ASSUME Restart
       PROVE  ContextInv'
  <2>1. TypeOK' /\ NonceUnique' /\ EffectOnce'
    BY <1>10 DEF Restart, ResumeSeq, ContextInv, TypeOK, NonceUnique, EffectOnce
  <2>2. SenderInv'
    BY <1>10 DEF Restart, ResumeSeq, ContextInv, TypeOK, SenderInv
  <2>3. RecipientInv'
    BY <1>10 DEF Restart, ContextInv, RecipientInv, Fresh
  <2> QED  BY <2>1, <2>2, <2>3 DEF ContextInv
<1>11. CASE UNCHANGED vars
  <2>1. UNCHANGED sender /\ UNCHANGED recipient /\ up' = up
    BY <1>11 DEF vars, sender, recipient
  <2> QED  BY <2>1, SenderUntouched, RecipientUntouched DEF ContextInv, TypeOK
<1> QED  BY <1>1, <1>2, <1>3, <1>4, <1>5, <1>6, <1>7, <1>8, <1>9, <1>10, <1>11 DEF Next

\* The invariant holds in every behaviour.
THEOREM ContextInvariant == Spec => []ContextInv
BY InitContextInv, NextContextInv, PTL DEF Spec

\* No nonce is used twice under the sender key, however often the process
\* crashes and whichever writes of the reserved bound are lost or unconfirmed.
THEOREM NoncesAreUnique == Spec => []NonceUnique
<1>1. ContextInv => NonceUnique
  BY DEF ContextInv
<1> QED  BY <1>1, ContextInvariant, PTL

\* The handler runs at most once for each protected request, across crashes.
THEOREM EffectsHappenOnce == Spec => []EffectOnce
<1>1. ContextInv => EffectOnce
  BY DEF ContextInv
<1> QED  BY <1>1, ContextInvariant, PTL

\* The live and the durable state keep the relations the two results rest on.
THEOREM DurableRelations == Spec => [](TypeOK /\ SenderInv /\ RecipientInv)
<1>1. ContextInv => TypeOK /\ SenderInv /\ RecipientInv
  BY DEF ContextInv
<1> QED  BY <1>1, ContextInvariant, PTL

\* What each step does to the two windows: the durable one stays or takes the
\* value of the live one, and the live one moves to one that rejects more,
\* unless the process is restarting.
LEMMA WindowStep ==
  ASSUME ContextInv, [Next]_vars
  PROVE  \/ disk' = disk /\ (up /\ up' => window' = window)
         \/ /\ disk' \in {disk, window'} /\ up /\ up'
            /\ \A t \in Seqs : Fresh(window', t) => Fresh(window, t)
<1> DEFINE Still == disk' = disk /\ (up /\ up' => window' = window)
           Moves == /\ disk' \in {disk, window'} /\ up /\ up'
                    /\ \A t \in Seqs : Fresh(window', t) => Fresh(window, t)
<1>1. ASSUME NEW n \in 1 .. MaxReserve, NEW w \in Writes, Reserve(n, w) PROVE Still
  BY <1>1 DEF Reserve, recipient
<1>2. ASSUME NEW n \in 0 .. MaxSeq, SetSenderSeq(n) PROVE Still
  BY <1>2 DEF SetSenderSeq, recipient
<1>3. ASSUME RestoreReservation \/ Protect PROVE Still
  BY <1>3 DEF RestoreReservation, Protect, recipient
<1>4. ASSUME NEW w \in Writes, PollIdle(w) PROVE Moves
  BY <1>4 DEF PollIdle, Flush
<1>5. ASSUME NEW s \in Seqs, PollResponse(s) \/ \E w \in Writes, m \in BOOLEAN : PollRequest(s, w, m)
      PROVE  Moves
  <2>1. /\ window' = Accept(window, s) /\ disk' \in {disk, window'} /\ up /\ up'
        /\ Fresh(window, s) /\ window \in Window
    BY <1>5 DEF PollRequest, PollResponse, Flush, ContextInv, TypeOK
  <2> QED  BY <2>1, AcceptKeepsRejections
<1>6. ASSUME NEW next \in Window, RestoreReplay(next) PROVE Moves
  BY <1>6, SuccessorKeepsRejections DEF RestoreReplay, ContextInv, TypeOK
<1>7. ASSUME Crash \/ Restart \/ UNCHANGED vars PROVE Still
  BY <1>7 DEF Crash, Restart, vars, recipient
<1> HIDE DEF Still, Moves
<1>8. Still \/ Moves
  BY <1>1, <1>2, <1>3, <1>4, <1>5, <1>6, <1>7 DEF Next
<1> QED  BY <1>8 DEF Still, Moves

\* Neither window ever forgets a rejection: the durable one never, the live one
\* while the process runs.
THEOREM RejectionsLast == Spec => DiskNeverForgets /\ WindowNeverForgets
<1>1. ASSUME ContextInv, [Next]_vars
      PROVE  /\ \A s \in Seqs : ~Fresh(disk, s) => ~Fresh(disk', s)
             /\ up /\ up' => \A s \in Seqs : ~Fresh(window, s) => ~Fresh(window', s)
  <2>1. CASE disk' = disk /\ (up /\ up' => window' = window)
    BY <2>1
  <2>2. CASE /\ disk' \in {disk, window'} /\ up /\ up'
             /\ \A t \in Seqs : Fresh(window', t) => Fresh(window, t)
    <3>1. \A t \in Seqs : Fresh(window', t) => Fresh(disk, t)
      BY <1>1, <2>2 DEF ContextInv, RecipientInv
    <3>2. CASE disk' = disk
      BY <2>2, <3>2
    <3>3. CASE disk' = window'
      BY <2>2, <3>1, <3>3
    <3> QED  BY <2>2, <3>2, <3>3
  <2> QED  BY <1>1, <2>1, <2>2, WindowStep
<1> QED  BY <1>1, ContextInvariant, PTL DEF Spec, DiskNeverForgets, WindowNeverForgets
=============================================================================
