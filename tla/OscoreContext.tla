--------------------------- MODULE OscoreContext ---------------------------
(***************************************************************************)
(* One OSCORE security context across crashes: the guarded sender          *)
(* sequence (numbers are granted only after their upper bound is durable), *)
(* the recipient replay window, and the App's checkpoint barrier, which    *)
(* makes the window durable before a request may have effects.             *)
(*                                                                         *)
(* The window is kept as the set of absolute sequence numbers received in  *)
(* it; the code keeps the same set as a bitmap whose bit 0 names left.     *)
(* The caller's durable store and its restart procedure are modelled as    *)
(* the documentation of the context requires them to be.                   *)
(***************************************************************************)
EXTENDS Naturals

CONSTANTS MaxSeq,        \* end of the sequence space, 2^40
          REPLAY_WINDOW, \* width of the replay window
          MaxReserve     \* bound: most numbers granted by one reservation

ASSUME SizeAssumption == /\ MaxSeq \in Nat
                         /\ REPLAY_WINDOW \in Nat \ {0}
                         /\ MaxReserve \in Nat

Seqs == 0 .. MaxSeq - 1
Window == [left: 0 .. MaxSeq, got: SUBSET Seqs]
Writes == {"durable", "failed", "ackLost"}   \* what became of a durable write

VARIABLES up,       \* the process runs
          seq,      \* sender_seq
          end,      \* sender_reserved_end
          window,   \* the live replay window
          dirty,    \* CheckpointState: Dirty or Clean
          diskEnd,  \* durable exclusive upper bound of granted numbers
          disk,     \* durable replay window
          uses,     \* history: encryptions under each own sequence number
          effects   \* history: handler runs for each of the peer's numbers

vars == <<up, seq, end, window, dirty, diskEnd, disk, uses, effects>>
sender == <<seq, end, diskEnd, uses>>
recipient == <<window, dirty, disk, effects>>

-----------------------------------------------------------------------------
(* The replay window *)

\* replay_fresh.
Fresh(w, s) == s >= w.left /\ s \notin w.got

\* Mutant: the numbers still inside a shifted window are forgotten.
AcceptForgets(w, s) ==
  IF s < w.left + REPLAY_WINDOW THEN [w EXCEPT !.got = @ \cup {s}]
  ELSE [left |-> s + 1 - REPLAY_WINDOW, got |-> {s}]

\* Mutant: shifting the window moves its left edge one too far.
AcceptShiftFar(w, s) ==
  IF s < w.left + REPLAY_WINDOW THEN [w EXCEPT !.got = @ \cup {s}]
  ELSE [left |-> s + 2 - REPLAY_WINDOW, got |-> {t \in w.got : t > s + 1 - REPLAY_WINDOW} \cup {s}]

\* replay_accept, for a fresh number: mark it, or move the window so that it
\* becomes the last one.
Accept(w, s) ==
  IF s < w.left + REPLAY_WINDOW THEN [w EXCEPT !.got = @ \cup {s}]
  ELSE LET left == s + 1 - REPLAY_WINDOW
       IN [left |-> left, got |-> {t \in w.got : t >= left} \cup {s}]

\* validate_successor: everything w rejects, next rejects.
Successor(w, next) ==
  /\ next.left >= w.left
  /\ \A t \in w.got : t >= next.left => t \in next.got

\* ReplayCheckpoint::from_parts accepts a bitmap within the window and the
\* sequence space.
ValidParts(w) == \A t \in w.got : t >= w.left /\ t < w.left + REPLAY_WINDOW

-----------------------------------------------------------------------------
\* A context whose sender key has never been used, with guarding enabled.
Init ==
  /\ up = TRUE
  /\ seq = 0 /\ end = 0 /\ diskEnd = 0
  /\ window = [left |-> 0, got |-> {}]
  /\ disk = [left |-> 0, got |-> {}]
  /\ dirty = TRUE
  /\ uses = [s \in Seqs |-> 0]
  /\ effects = [s \in Seqs |-> 0]

Larger(a, b) == IF a > b THEN a ELSE b

\* reserve_sender_sequences grants only what the callback confirmed.
Granted(w, old, new) == IF w = "durable" THEN new ELSE old

\* reserve_sender_sequences: from the larger of bound and counter; the counter
\* is unchanged.
Reserve(n, w) ==
  LET new == Larger(end, seq) + n
  IN /\ up /\ n > 0 /\ new <= MaxSeq
     /\ diskEnd' = IF w = "failed" THEN diskEnd ELSE new
     /\ end' = Granted(w, end, new)
     /\ UNCHANGED <<up, seq, uses>> /\ UNCHANGED recipient

\* set_sender_seq skips numbers and grants none.
SetSenderSeq(n) ==
  /\ up /\ n >= seq /\ n <= MaxSeq
  /\ seq' = n
  /\ UNCHANGED <<up, end, diskEnd, uses>> /\ UNCHANGED recipient

\* restore_sender_reservation on the live context, from the durable bound.
RestoreReservation ==
  /\ up /\ diskEnd >= seq /\ diskEnd >= end
  /\ seq' = diskEnd /\ end' = diskEnd
  /\ UNCHANGED <<up, diskEnd, uses>> /\ UNCHANGED recipient

\* take_sender_piv in protect_request and protect_response_piv.  The number is
\* spent whether or not the rest of the protection succeeds.
Protect ==
  /\ up /\ seq < MaxSeq /\ seq < end
  /\ seq' = seq + 1
  /\ uses' = [uses EXCEPT ![seq] = @ + 1]
  /\ UNCHANGED <<up, end, diskEnd>> /\ UNCHANGED recipient

\* CheckpointState::flush of window w: nothing to do when clean.
Flush(w, isDirty, write) ==
  /\ disk' = IF isDirty /\ write # "failed" THEN w ELSE disk
  /\ dirty' = (isDirty /\ write # "durable")

\* Mutant: the handler runs although the checkpoint was not confirmed.
MayRunUnconfirmed(write) == TRUE

\* dispatch_rx goes on to admission only after a confirmed checkpoint.
MayRun(write) == write = "durable"

\* A poll that receives no protected request.
PollIdle(write) ==
  /\ up
  /\ Flush(window, dirty, write)
  /\ UNCHANGED <<up, window, effects>> /\ UNCHANGED sender

\* A poll that receives request s: the initial flush must have succeeded (the
\* window is clean), the number must be fresh, and the moved window must be
\* durable before the handler runs.  malformed: authentic, but the inner
\* message is refused after the window moved.
PollRequest(s, write, malformed) ==
  /\ up /\ ~dirty /\ Fresh(window, s)
  /\ window' = Accept(window, s)
  /\ Flush(Accept(window, s), TRUE, write)
  /\ effects' = IF MayRun(write) /\ ~malformed THEN [effects EXCEPT ![s] = @ + 1]
                ELSE effects
  /\ UNCHANGED up /\ UNCHANGED sender

\* commit_response: a Q-Block response moves the shared window and leaves it
\* dirty; the next poll flushes it.
PollResponse(s) ==
  /\ up /\ ~dirty /\ Fresh(window, s)
  /\ window' = Accept(window, s)
  /\ dirty' = TRUE
  /\ UNCHANGED <<up, disk, effects>> /\ UNCHANGED sender

\* App::oscore_mut and restore_replay with some validated checkpoint.
RestoreReplay(next) ==
  /\ up /\ ValidParts(next) /\ Successor(window, next)
  /\ window' = next
  /\ dirty' = TRUE
  /\ UNCHANGED <<up, disk, effects>> /\ UNCHANGED sender

Crash ==
  /\ up
  /\ up' = FALSE
  /\ UNCHANGED sender /\ UNCHANGED recipient

\* Mutant: the restarted context resumes inside the old range.
ResumeSeqZero(e) == 0


\* restore_sender_reservation resumes after everything that was granted.
ResumeSeq(e) == e

\* Derive the context again and restore both halves before any traffic.
Restart ==
  /\ ~up
  /\ up' = TRUE
  /\ seq' = ResumeSeq(diskEnd) /\ end' = diskEnd
  /\ window' = disk
  /\ dirty' = TRUE
  /\ UNCHANGED <<diskEnd, disk, uses, effects>>

Next ==
  \/ \E n \in 1 .. MaxReserve, w \in Writes : Reserve(n, w)
  \/ \E n \in 0 .. MaxSeq : SetSenderSeq(n)
  \/ RestoreReservation
  \/ Protect
  \/ \E w \in Writes : PollIdle(w)
  \/ \E s \in Seqs, w \in Writes, m \in BOOLEAN : PollRequest(s, w, m)
  \/ \E s \in Seqs : PollResponse(s)
  \/ \E next \in Window : RestoreReplay(next)
  \/ Crash
  \/ Restart

Spec == Init /\ [][Next]_vars

-----------------------------------------------------------------------------
\* Types; received numbers lie in the window, which ends in the sequence space.
TypeOK ==
  /\ up \in BOOLEAN /\ dirty \in BOOLEAN
  /\ seq \in 0 .. MaxSeq /\ end \in 0 .. MaxSeq /\ diskEnd \in 0 .. MaxSeq
  /\ window \in Window /\ disk \in Window
  /\ uses \in [Seqs -> Nat] /\ effects \in [Seqs -> Nat]

\* No sender sequence number, and so no nonce under the sender key, encrypts
\* twice, across any number of crashes and lost write confirmations
\* (restore_sender_reservation with reserve_sender_sequences).
NonceUnique == \A s \in Seqs : uses[s] <= 1

\* A protected request has effects at most once, across crashes: its number is
\* durable in the window before its handler runs
\* (poll_with_oscore_checkpoint).
EffectOnce == \A s \in Seqs : effects[s] <= 1

\* Used numbers lie below the counter and below the durable bound, and the
\* granted range never exceeds what is durable.
SenderInv ==
  /\ up => end <= diskEnd
  /\ \A s \in Seqs : uses[s] > 0 => s < diskEnd /\ (up => s < seq)

\* A number whose request had effects is rejected by the durable window, and
\* the live window rejects all that the durable one rejects.
RecipientInv ==
  /\ \A s \in Seqs : effects[s] > 0 => ~Fresh(disk, s)
  /\ up => \A s \in Seqs : Fresh(window, s) => Fresh(disk, s)

\* What the durable window rejects it rejects for ever, although it is written
\* by every poll, by restored checkpoints and by writes whose confirmation was
\* lost.
DiskNeverForgets ==
  [][\A s \in Seqs : ~Fresh(disk, s) => ~Fresh(disk', s)]_vars

\* While the process runs, the live window forgets nothing either: neither a
\* shift of the window nor a restored checkpoint makes an accepted number fresh.
WindowNeverForgets ==
  [][up /\ up' => \A s \in Seqs : ~Fresh(window, s) => ~Fresh(window', s)]_vars

\* Reordering within the window loses nothing: a number that was acceptable and
\* is not any more was received, or lies REPLAY_WINDOW or more below one that was.
RecentStaysFresh ==
  [][\A s \in Seqs :
       /\ Fresh(window, s) /\ ~Fresh(window', s) /\ s \notin window'.got
       /\ \E t \in Seqs : PollResponse(t) \/ \E w \in Writes, m \in BOOLEAN : PollRequest(t, w, m)
       => \E t \in window'.got : t >= s + REPLAY_WINDOW]_vars
=============================================================================
