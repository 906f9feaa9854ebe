------------------------ MODULE SchedulerRefinement ------------------------
(***************************************************************************)
(* The scheduler implements SpawnWait.  The call stack is read off the     *)
(* scheduler's tables: the bootstrap process, then at each level the       *)
(* process whose waiting_thread belongs to the level before.               *)
(***************************************************************************)
EXTENDS Scheduler, Sequences, TLC

LiveUsers == {p \in ProcessIds \ {KernelProcess} : processes[p].live}
MainThread(p) == CHOOSE t \in ThreadIds : threads[t].proc = p
WaitsFor(p, q) == processes[q].waiting # NoThread /\ threads[processes[q].waiting].proc = p

(* The live user processes, each waiting for the next.                     *)
Stack ==
  CHOOSE c \in [1..Cardinality(LiveUsers) -> LiveUsers] :
    \A i \in DOMAIN c : IF i = 1 THEN c[i] = BootProcess ELSE WaitsFor(c[i - 1], c[i])

Frame(p) ==
  [pid |-> p, owed |-> threads[MainThread(p)].result, answer |-> rax[MainThread(p)]]

Calls == LET stack == Stack IN [i \in DOMAIN stack |-> Frame(stack[i])]

Abstract == INSTANCE SpawnWait WITH
  ProcessIds <- ProcessIds \ {KernelProcess, BootProcess}, Root <- BootProcess,
  Statuses <- ExitStatuses, Errors <- SpawnErrors,
  calls <- Calls, up <- mode \in {"boot", "run"}

(* Every step of the scheduler is a step of the call-stack specification   *)
(* or changes nothing a user program can see: spawn pushes, exit returns   *)
(* to the caller with the child's status, and the last exit ends the       *)
(* session.                                                                *)
ImplementsSpawnWait == Abstract!Spec

PageSymmetry == Permutations(Pages)
=============================================================================
