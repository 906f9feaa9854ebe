----------------------------- MODULE SpawnWait -----------------------------
(***************************************************************************)
(* What the kernel promises a user program about spawn_wait, without       *)
(* threads, slots, switches or memory: user processes form a call stack.   *)
(* Only the innermost one acts.  A spawn either pushes a child or answers  *)
(* with an error; an exit pops the child and owes its status to the caller *)
(* below, which gets it as the answer before it does anything else; the    *)
(* session is over when the outermost process exits, and only then.        *)
(***************************************************************************)
EXTENDS Sequences, Integers

CONSTANTS
  ProcessIds,   \* names of processes, reused after exit
  Root,         \* the session owner
  Statuses,     \* exit statuses
  Errors        \* spawn errors: words, like the statuses

VARIABLES
  calls,        \* the call stack, outermost process first
  up            \* FALSE once the session is over

NoStatus == -1
Fresh(p) == [pid |-> p, owed |-> NoStatus, answer |-> NoStatus]
Top == calls[Len(calls)]
SetTop(frame) == [calls EXCEPT ![Len(calls)] = frame]
Caller == calls[Len(calls) - 1]

Init == calls = <<Fresh(Root)>> /\ up = TRUE

Spawn(p) ==
  /\ up /\ Top.owed = NoStatus
  /\ \A i \in DOMAIN calls : calls[i].pid # p
  /\ calls' = Append(calls, Fresh(p))
  /\ UNCHANGED up

Refuse(e) ==
  /\ up /\ Top.owed = NoStatus
  /\ calls' = SetTop([Top EXCEPT !.answer = e])
  /\ UNCHANGED up

Exit(s) ==
  /\ up /\ Top.owed = NoStatus /\ Len(calls) > 1
  /\ calls' = Append(SubSeq(calls, 1, Len(calls) - 2), [Caller EXCEPT !.owed = s])
  /\ UNCHANGED up

Report ==
  /\ up /\ Top.owed # NoStatus
  /\ calls' = SetTop([Top EXCEPT !.answer = Top.owed, !.owed = NoStatus])
  /\ UNCHANGED up

Shutdown ==
  /\ up /\ Top.owed = NoStatus /\ Len(calls) = 1
  /\ calls' = <<>>
  /\ up' = FALSE

Next ==
  \/ \E p \in ProcessIds : Spawn(p)
  \/ \E e \in Errors : Refuse(e)
  \/ \E s \in Statuses : Exit(s)
  \/ Report
  \/ Shutdown

Spec == Init /\ [][Next]_<<calls, up>>
=============================================================================
