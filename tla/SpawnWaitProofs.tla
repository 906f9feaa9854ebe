-------------------------- MODULE SpawnWaitProofs --------------------------
(***************************************************************************)
(* The scheduler implements SpawnWait, for every table size: the processes *)
(* form a call stack whatever the order of spawns, yields, refusals and    *)
(* exits, and every step is a step of SpawnWait or invisible to programs.  *)
(***************************************************************************)
EXTENDS SchedulerRefinement, SchedulerProofs, SequenceTheorems

(* c names the live user processes once each, every one waiting for the    *)
(* next, and the first for nothing.                                        *)
IsStack(n, c) ==
  /\ c \in [1..n -> LiveUsers]
  /\ \A p \in LiveUsers : \E i \in 1..n : c[i] = p
  /\ \A i, j \in 1..n : c[i] = c[j] => i = j
  /\ n > 0 => c[1] = BootProcess /\ processes[BootProcess].waiting = NoThread
  /\ \A i \in 2..n : WaitsFor(c[i - 1], c[i])

(* A status is owed only to a thread on its way out of a wait, a blocked   *)
(* thread has that way before it, and only user threads wait.              *)
OwedInv ==
  \A t \in ThreadIds :
    /\ threads[t].result # NoStatus => threads[t].pc = "wait" /\ Schedulable(threads[t])
    /\ threads[t].state = "Blocked" => threads[t].pc = "wait"
    /\ threads[t].pc = "wait" => IsUser(t)

StackInv ==
  /\ OwedInv
  /\ \E n \in Nat :
       /\ n > 0 <=> mode \in {"boot", "run"}
       /\ \E c \in [1..n -> LiveUsers] : IsStack(n, c)

-----------------------------------------------------------------------------
(* The waiting thread of a process, and that a process waits for one other *)
(* at most.                                                                *)
LEMMA WaiterOf ==
  ASSUME IInv, NEW p \in LiveUsers, NEW q \in LiveUsers, WaitsFor(p, q)
  PROVE  /\ processes[q].waiting \in ThreadIds /\ threads[processes[q].waiting].proc = p
         /\ threads[processes[q].waiting].state = "Blocked"
         /\ \A r \in LiveUsers : WaitsFor(p, r) => r = q
<1>1. /\ SlotsInv(threads, processes) /\ KernelInv(threads, processes) /\ WaitInv(threads, processes)
      /\ processes \in [ProcessIds -> ProcessRecord]
  BY DEF IInv, TablesInv
<1>2. ASSUME NEW r \in LiveUsers, WaitsFor(p, r)
      PROVE  /\ processes[r].waiting \in ThreadIds /\ threads[processes[r].waiting].proc = p
             /\ threads[processes[r].waiting].state = "Blocked"
             /\ threads[processes[r].waiting].reason = r
  <2>1. r \in ProcessIds /\ processes[r].live /\ processes[r] \in ProcessRecord
    BY <1>1 DEF LiveUsers
  <2>2. processes[r].waiting \in ThreadIds /\ threads[processes[r].waiting].proc = p
    BY <1>2, <2>1 DEF WaitsFor, ProcessRecord
  <2> QED
    BY <1>1, <2>1, <2>2 DEF WaitInv
<1>3. p # KernelProcess
  BY DEF LiveUsers
<1>4. ASSUME NEW r \in LiveUsers, WaitsFor(p, r) PROVE r = q
  BY <1>1, <1>2, <1>3, <1>4 DEF KernelInv
<1> QED
  BY <1>2, <1>4

(* There is one such stack, so that the mapping reads it off the tables.   *)
StackReads ==
  \A n \in Nat : \A c \in [1..n -> LiveUsers] :
    IsStack(n, c) => Calls = [i \in 1..n |-> Frame(c[i])]

LEMMA StackRead == IInv => StackReads
<1> SUFFICES ASSUME IInv, NEW n \in Nat, NEW c \in [1..n -> LiveUsers], IsStack(n, c)
             PROVE  Calls = [i \in 1..n |-> Frame(c[i])]
  BY DEF StackReads
<1>1. Cardinality(LiveUsers) = n
  <2>1. c \in Bijection(1..n, LiveUsers)
    BY DEF IsStack, Bijection, Injection, IsInjective, Surjection
  <2> QED
    BY <2>1, FS_CountingElements DEF ExistsBijection
<1> DEFINE P(d) == \A i \in DOMAIN d : IF i = 1 THEN d[i] = BootProcess ELSE WaitsFor(d[i - 1], d[i])
<1>2. P(c)
  BY DEF IsStack
<1>3. ASSUME NEW d \in [1..n -> LiveUsers], P(d) PROVE d = c
  <2> DEFINE bad == {i \in 1..n : d[i] # c[i]}
  <2>1. SUFFICES ASSUME bad # {} PROVE FALSE
    OBVIOUS
  <2> DEFINE m == First(bad)
  <2>2. m \in bad /\ \A i \in bad : m <= i
    <3>1. bad \in SUBSET Nat  OBVIOUS
    <3> QED BY <2>1, <3>1, FirstIsLeast
  <2> HIDE DEF m
  <2>3. m \in 1..n /\ d[m] # c[m] /\ \A i \in 1..n : i < m => d[i] = c[i]
    BY <2>2
  <2> HIDE DEF bad
  <2>4. m # 1
    BY <1>2, <1>3, <2>3
  <2>5. m - 1 \in 1..n /\ m \in 1..n /\ d[m - 1] = c[m - 1] /\ d[m] # c[m]
    BY <2>3, <2>4
  <2>6. WaitsFor(c[m - 1], d[m]) /\ WaitsFor(c[m - 1], c[m])
    BY <1>2, <1>3, <2>4, <2>5
  <2>7. c[m - 1] \in LiveUsers /\ d[m] \in LiveUsers /\ c[m] \in LiveUsers
    BY <2>5
  <2> QED
    BY <2>5, <2>6, <2>7, WaiterOf
<1>4. Stack = c
  BY <1>1, <1>2, <1>3 DEF Stack
<1> QED
  BY <1>4 DEF Calls

(* The main thread of a process is the thread that has it.                 *)
FrameReads ==
  \A p \in LiveUsers, t \in ThreadIds :
    threads[t].proc = p =>
      Frame(p) = [pid |-> p, owed |-> threads[t].result, answer |-> rax[t]]

LEMMA FrameRead == IInv => FrameReads
<1> SUFFICES ASSUME IInv, NEW p \in LiveUsers, NEW t \in ThreadIds, threads[t].proc = p
             PROVE  MainThread(p) = t
  BY DEF Frame, FrameReads
<1>1. SlotsInv(threads, processes) /\ KernelInv(threads, processes)
  BY DEF IInv, TablesInv
<1>2. p \in ProcessIds \ {KernelProcess} /\ p # NoProcess
  BY SchedulerAssumption DEF LiveUsers, ProcessIds, NoProcess
<1>3. \A u \in ThreadIds : threads[u].proc = p => u = t
  BY <1>1, <1>2 DEF SlotsInv, KernelInv
<1> QED
  BY <1>3 DEF MainThread

(* A user thread that does not wait is the innermost process's.            *)
LEMMA TopOfStack ==
  ASSUME IInv, NEW n \in Nat, NEW c, IsStack(n, c),
         NEW t \in ThreadIds, Schedulable(threads[t]), IsUser(t)
  PROVE  n > 0 /\ c[n] = threads[t].proc /\ threads[t].proc \in LiveUsers
<1>1. SlotsInv(threads, processes) /\ KernelInv(threads, processes) /\ c \in [1..n -> LiveUsers]
  BY DEF IInv, TablesInv, IsStack
<1>2. threads[t].proc \in LiveUsers
  BY <1>1 DEF SlotsInv, Schedulable, IsUser, LiveUsers
<1>3. PICK i \in 1..n : c[i] = threads[t].proc
  BY <1>2 DEF IsStack
<1>4. ASSUME i # n PROVE FALSE
  <2>1. i + 1 \in 2..n /\ i + 1 \in 1..n
    BY <1>4
  <2>2. (i + 1) - 1 = i
    OBVIOUS
  <2>3. WaitsFor(c[i], c[i + 1]) /\ c[i] \in LiveUsers /\ c[i + 1] \in LiveUsers
    BY <1>1, <2>1, <2>2 DEF IsStack
  <2> DEFINE w == processes[c[i + 1]].waiting
  <2>4. w \in ThreadIds /\ threads[w].proc = c[i] /\ threads[w].state = "Blocked"
    BY <2>3, WaiterOf
  <2> HIDE DEF w
  <2>5. w = t
    BY <1>1, <1>2, <1>3, <2>4 DEF KernelInv, LiveUsers
  <2> QED
    BY <2>4, <2>5 DEF Schedulable
<1> QED
  BY <1>2, <1>3, <1>4

-----------------------------------------------------------------------------
(* The stack, effect by effect.                                            *)
LEMMA StaysKeepsStack ==
  ASSUME Types, OwedInv, Stays \/ (Returns /\ Schedulable(threads[current])), NEW n \in Nat, NEW c, IsStack(n, c)
  PROVE  LiveUsers' = LiveUsers /\ IsStack(n, c)' /\ OwedInv'
<1>1. /\ processes' = processes
      /\ \A t \in ThreadIds :
           /\ threads'[t].proc = threads[t].proc
           /\ Schedulable(threads'[t]) <=> Schedulable(threads[t])
           /\ threads'[t].state = "Blocked" =>
                threads[t].state = "Blocked" /\ (threads[t].pc = "wait" => threads'[t].pc = "wait")
           /\ threads'[t].pc = "wait" => threads[t].pc = "wait"
           /\ threads'[t].result # NoStatus =>
                threads[t].result # NoStatus /\ (threads[t].pc = "wait" => threads'[t].pc = "wait")
  <2>1. CASE Stays
    BY <2>1 DEF Stays, Like
  <2>2. CASE Returns /\ Schedulable(threads[current])
    <3> DEFINE rec == [threads[current] EXCEPT !.result = NoStatus, !.pc = "run"]
    <3>1. /\ processes' = processes /\ Like(threads'[current], rec)
          /\ \A t \in ThreadIds \ {current} : Like(threads'[t], threads[t])
      BY <2>2 DEF Returns
    <3>2. current \in ThreadIds =>
            /\ rec.proc = threads[current].proc /\ rec.pc = "run" /\ rec.result = NoStatus
            /\ rec.state # "Blocked"
            /\ Schedulable(rec) <=> Schedulable(threads[current])
      BY <2>2 DEF Types, ThreadRecord, Schedulable
    <3> HIDE DEF rec
    <3> QED
      BY <3>1, <3>2 DEF Like
  <2> QED
    BY <2>1, <2>2
<1>2. LiveUsers' = LiveUsers
  BY <1>1 DEF LiveUsers
<1>3. ASSUME NEW p, NEW q \in LiveUsers PROVE WaitsFor(p, q)' <=> WaitsFor(p, q)
  <2>1. processes[q].waiting # NoThread => processes[q].waiting \in ThreadIds
    BY DEF Types, ProcessRecord, LiveUsers
  <2> QED
    BY <1>1, <2>1 DEF WaitsFor
<1>4. IsStack(n, c)'
  BY <1>1, <1>2, <1>3 DEF IsStack
<1>5. OwedInv'
  BY <1>1 DEF OwedInv, IsUser
<1> QED
  BY <1>2, <1>4, <1>5

LEMMA BeginsPushes ==
  ASSUME IInv, OwedInv, Executing({"run"}), IsUser(cpu.on),
         NEW slot, NEW main, NEW prog, NEW silent, Begins(slot, main, prog, silent),
         NEW n \in Nat, NEW c, IsStack(n, c)
  PROVE  /\ slot \notin LiveUsers /\ LiveUsers' = LiveUsers \cup {slot}
         /\ IsStack(n + 1, [i \in 1..(n + 1) |-> IF i = n + 1 THEN slot ELSE c[i]])'
         /\ OwedInv'
<1> DEFINE child == ChildProcess(processes[threads[current].proc], prog, current, silent)
           d == [i \in 1..(n + 1) |-> IF i = n + 1 THEN slot ELSE c[i]]
<1>1. /\ current \in ThreadIds /\ threads[current] \in ThreadRecord
      /\ Schedulable(threads[current]) /\ IsUser(current) /\ threads[current].pc = "run"
      /\ processes \in [ProcessIds -> ProcessRecord] /\ threads \in [ThreadIds -> ThreadRecord]
  BY Caller DEF IInv, Types, Executing
<1>2. /\ slot \in ProcessIds /\ ~processes[slot].live
      /\ main \in ThreadIds /\ threads[main].state = "Free"
      /\ processes' = [processes EXCEPT ![slot] = child]
      /\ Like(threads'[main], NewThread(slot))
      /\ Like(threads'[current], BlockForChild(threads[current], slot))
      /\ \A t \in ThreadIds \ {main, current} : Like(threads'[t], threads[t])
  BY DEF Begins
<1>3. child.live = TRUE /\ child.waiting = current
  BY DEF ChildProcess
<1> HIDE DEF child
<1>4. /\ slot # KernelProcess /\ main # current
      /\ \A t \in ThreadIds : threads[t].proc # slot
      /\ \A p \in ProcessIds : processes[p].live => processes[p].waiting # main
  BY <1>1, <1>2, FreshSlots DEF Schedulable
<1>5. slot \notin LiveUsers /\ LiveUsers' = LiveUsers \cup {slot}
  BY <1>1, <1>2, <1>3, <1>4 DEF LiveUsers
<1>6. /\ threads'[main].proc = slot /\ threads'[main].result = NoStatus /\ threads'[main].pc # "wait"
      /\ threads'[main].state # "Blocked"
      /\ threads'[current].proc = threads[current].proc
      /\ threads'[current].result = threads[current].result /\ threads'[current].pc = "wait"
  <2>1. /\ NewThread(slot).proc = slot /\ NewThread(slot).result = NoStatus
        /\ NewThread(slot).pc = "entry" /\ NewThread(slot).state = "Runnable"
    BY DEF NewThread
  <2>2. /\ BlockForChild(threads[current], slot).proc = threads[current].proc
        /\ BlockForChild(threads[current], slot).result = threads[current].result
        /\ BlockForChild(threads[current], slot).pc = "wait"
    BY <1>1 DEF BlockForChild, ThreadRecord
  <2> QED
    BY <1>2, <2>1, <2>2 DEF Like
<1>7. /\ c[n] = threads[current].proc /\ n > 0 /\ c \in [1..n -> LiveUsers]
  BY <1>1, TopOfStack DEF IsStack
<1>8. \A q \in LiveUsers :
        /\ processes'[q] = processes[q]
        /\ processes[q].waiting # NoThread =>
             threads'[processes[q].waiting].proc = threads[processes[q].waiting].proc
  <2> SUFFICES ASSUME NEW q \in LiveUsers
               PROVE  /\ processes'[q] = processes[q]
                      /\ processes[q].waiting # NoThread =>
                           threads'[processes[q].waiting].proc = threads[processes[q].waiting].proc
    OBVIOUS
  <2>1. q \in ProcessIds /\ processes[q].live /\ q # slot /\ processes[q] \in ProcessRecord
    BY <1>1, <1>2 DEF LiveUsers
  <2>2. processes[q].waiting # NoThread => processes[q].waiting \in ThreadIds \ {main}
    BY <1>4, <2>1 DEF ProcessRecord
  <2> QED
    BY <1>1, <1>2, <1>6, <2>1, <2>2 DEF Like
<1>9. processes'[slot] = child /\ current # NoThread
  BY <1>1, <1>2, SchedulerAssumption DEF ThreadIds, NoThread
<1>10. IsStack(n + 1, d)'
  <2>1. d \in [1..(n + 1) -> LiveUsers']
    BY <1>5, <1>7
  <2>2. d[n + 1] = slot /\ \A i \in 1..n : d[i] = c[i] /\ c[i] \in LiveUsers
    BY <1>7
  <2>3. 1 \in 1..n /\ n \in 1..n /\ n + 1 \in 1..(n + 1) /\ (n + 1) - 1 = n
    BY <1>7
  <2> HIDE DEF d
  <2>4. \A p \in LiveUsers' : \E i \in 1..(n + 1) : d[i] = p
    BY <1>5, <2>2, <2>3 DEF IsStack
  <2>5. \A i, j \in 1..(n + 1) : d[i] = d[j] => i = j
    <3>1. ASSUME NEW i \in 1..(n + 1) PROVE i \in 1..n \/ i = n + 1
      OBVIOUS
    <3> QED
      BY <1>5, <2>2, <3>1 DEF IsStack
  <2>6. d[1] = BootProcess /\ processes'[BootProcess].waiting = NoThread
    BY <1>7, <1>8, <2>2, <2>3 DEF IsStack
  <2>7. ASSUME NEW i \in 2..(n + 1) PROVE WaitsFor(d[i - 1], d[i])'
    <3>1. CASE i = n + 1
      <4>1. d[i] = slot /\ d[i - 1] = threads[current].proc
        BY <1>7, <2>2, <2>3, <3>1
      <4> QED
        BY <1>3, <1>6, <1>9, <4>1 DEF WaitsFor
    <3>2. CASE i # n + 1
      <4>1. i \in 2..n /\ i \in 1..n /\ i - 1 \in 1..n
        BY <3>2
      <4>2. d[i] = c[i] /\ d[i - 1] = c[i - 1] /\ WaitsFor(c[i - 1], c[i]) /\ c[i] \in LiveUsers
        BY <2>2, <4>1 DEF IsStack
      <4> QED
        BY <1>8, <4>2 DEF WaitsFor
    <3> QED
      BY <3>1, <3>2
  <2> QED
    BY <2>1, <2>4, <2>5, <2>6, <2>7 DEF IsStack
<1>11. OwedInv'
  <2> SUFFICES ASSUME NEW t \in ThreadIds
               PROVE  /\ threads'[t].result # NoStatus =>
                           threads'[t].pc = "wait" /\ Schedulable(threads'[t])
                      /\ threads'[t].state = "Blocked" => threads'[t].pc = "wait"
                      /\ threads'[t].pc = "wait" => threads'[t].proc # KernelProcess
    BY DEF OwedInv, IsUser
  <2>1. CASE t = current
    BY <1>1, <1>6, <2>1 DEF OwedInv, IsUser
  <2>2. CASE t = main
    BY <1>6, <2>2
  <2>3. CASE t \notin {main, current}
    BY <1>2, <2>3 DEF OwedInv, IsUser, Like
  <2> QED
    BY <2>1, <2>2, <2>3
<1> QED
  BY <1>5, <1>10, <1>11

LEMMA EndsPops ==
  ASSUME IInv, OwedInv, Executing({"run"}), IsUser(cpu.on),
         NEW waiter, NEW status, Ends(waiter, status),
         NEW n \in Nat, NEW c, IsStack(n, c)
  PROVE  /\ n > 1 /\ c[n] = threads[current].proc /\ c[n - 1] = threads[waiter].proc
         /\ LiveUsers' = LiveUsers \ {threads[current].proc}
         /\ IsStack(n - 1, [i \in 1..(n - 1) |-> c[i]])'
         /\ OwedInv'
<1> DEFINE p == threads[current].proc
           d == [i \in 1..(n - 1) |-> c[i]]
<1>1. /\ current \in ThreadIds /\ Schedulable(threads[current]) /\ IsUser(current)
      /\ p \in ProcessIds \ {KernelProcess}
      /\ processes \in [ProcessIds -> ProcessRecord] /\ threads \in [ThreadIds -> ThreadRecord]
  BY Caller DEF IInv, Types
<1>2. /\ waiter = processes[p].waiting /\ waiter \in ThreadIds /\ waiter # current
      /\ status \in ExitStatuses
      /\ processes' = [processes EXCEPT ![p] = FreeProcess]
      /\ threads'[current] = FreeThread
      /\ Like(threads'[waiter], WakeWithResult(threads[waiter], status))
      /\ \A t \in ThreadIds \ {waiter, current} : Like(threads'[t], threads[t])
  BY DEF Ends, DropProcess
<1>3. /\ \A q \in ProcessIds : processes[q].live => processes[q].waiting # current
      /\ threads[waiter].state = "Blocked" /\ threads[waiter].proc # KernelProcess
  BY <1>2, EndingProcess
<1>4. FreeProcess.live = FALSE
  BY DEF FreeProcess
<1>5. n > 0 /\ c[n] = p /\ p \in LiveUsers /\ c \in [1..n -> LiveUsers]
  <2>1. c \in [1..n -> LiveUsers]
    BY DEF IsStack
  <2> QED
    BY <1>1, <2>1, TopOfStack
<1>6. waiter # NoThread
  BY <1>2, SchedulerAssumption DEF ThreadIds, NoThread
<1>7. n > 1
  BY <1>2, <1>5, <1>6 DEF IsStack
<1>8. c[n - 1] = threads[waiter].proc
  <2>1. n \in 2..n
    BY <1>7
  <2>2. WaitsFor(c[n - 1], c[n])
    BY <2>1 DEF IsStack
  <2> QED
    BY <1>2, <1>5, <2>2 DEF WaitsFor
<1>9. LiveUsers' = LiveUsers \ {p}
  BY <1>1, <1>2, <1>4 DEF LiveUsers
<1>10. /\ threads'[waiter].proc = threads[waiter].proc /\ Schedulable(threads'[waiter])
       /\ threads'[waiter].pc = "wait" <=> threads[waiter].pc = "wait"
  <2> DEFINE rec == WakeWithResult(threads[waiter], status)
  <2>1. rec.proc = threads[waiter].proc /\ Schedulable(rec) /\ rec.pc = threads[waiter].pc
    BY <1>1, <1>2 DEF WakeWithResult, Schedulable, ThreadRecord
  <2> HIDE DEF rec
  <2>2. Like(threads'[waiter], rec)
    BY <1>2 DEF rec
  <2> QED
    BY <2>1, <2>2 DEF Like
<1>11. \A q \in LiveUsers' :
         /\ processes'[q] = processes[q]
         /\ processes[q].waiting # NoThread =>
              threads'[processes[q].waiting].proc = threads[processes[q].waiting].proc
  <2> SUFFICES ASSUME NEW q \in LiveUsers'
               PROVE  /\ processes'[q] = processes[q]
                      /\ processes[q].waiting # NoThread =>
                           threads'[processes[q].waiting].proc = threads[processes[q].waiting].proc
    OBVIOUS
  <2>1. q \in ProcessIds /\ processes[q].live /\ q # p /\ processes[q] \in ProcessRecord
    BY <1>1, <1>9 DEF LiveUsers
  <2>2. processes[q].waiting # NoThread => processes[q].waiting \in ThreadIds \ {current}
    BY <1>3, <2>1 DEF ProcessRecord
  <2> QED
    BY <1>1, <1>2, <1>10, <2>1, <2>2 DEF Like
<1> HIDE DEF p
<1>12. IsStack(n - 1, d)'
  <2>1. \A i \in 1..(n - 1) : d[i] = c[i] /\ i \in 1..n /\ c[i] \in LiveUsers'
    <3>1. ASSUME NEW i \in 1..(n - 1) PROVE i \in 1..n /\ i # n /\ n \in 1..n
      BY <1>7
    <3> QED
      BY <1>5, <1>9, <3>1 DEF IsStack
  <2>2. d \in [1..(n - 1) -> LiveUsers'] /\ 1 \in 1..(n - 1)
    BY <1>7, <2>1
  <2> HIDE DEF d
  <2>3. \A q \in LiveUsers' : \E i \in 1..(n - 1) : d[i] = q
    <3> SUFFICES ASSUME NEW q \in LiveUsers' PROVE \E i \in 1..(n - 1) : d[i] = q
      OBVIOUS
    <3>1. PICK i \in 1..n : c[i] = q
      BY <1>9 DEF IsStack
    <3>2. i \in 1..(n - 1)
      BY <1>5, <1>9, <3>1
    <3> QED
      BY <2>1, <3>1, <3>2
  <2>4. \A i, j \in 1..(n - 1) : d[i] = d[j] => i = j
    BY <2>1 DEF IsStack
  <2>5. d[1] = BootProcess /\ processes'[BootProcess].waiting = NoThread
    BY <1>7, <1>11, <2>1, <2>2 DEF IsStack
  <2>6. ASSUME NEW i \in 2..(n - 1) PROVE WaitsFor(d[i - 1], d[i])'
    <3>1. i \in 2..n /\ i \in 1..(n - 1) /\ i - 1 \in 1..(n - 1)
      BY <1>7
    <3>2. d[i] = c[i] /\ d[i - 1] = c[i - 1] /\ c[i] \in LiveUsers' /\ WaitsFor(c[i - 1], c[i])
      BY <2>1, <3>1 DEF IsStack
    <3> QED
      BY <1>11, <3>2 DEF WaitsFor
  <2> QED
    BY <2>2, <2>3, <2>4, <2>5, <2>6 DEF IsStack
<1>13. OwedInv'
  <2> SUFFICES ASSUME NEW t \in ThreadIds
               PROVE  /\ threads'[t].result # NoStatus =>
                           threads'[t].pc = "wait" /\ Schedulable(threads'[t])
                      /\ threads'[t].state = "Blocked" => threads'[t].pc = "wait"
                      /\ threads'[t].pc = "wait" => threads'[t].proc # KernelProcess
    BY DEF OwedInv, IsUser
  <2>1. CASE t = current
    BY <1>2, <2>1 DEF FreeThread
  <2>2. CASE t = waiter
    BY <1>2, <1>3, <1>10, <2>2 DEF OwedInv, Schedulable
  <2>3. CASE t \notin {waiter, current}
    BY <1>2, <2>3 DEF OwedInv, IsUser, Like
  <2> QED
    BY <2>1, <2>2, <2>3
<1> QED
  BY <1>5, <1>7, <1>8, <1>9, <1>12, <1>13 DEF p

LEMMA FinishesEmpties ==
  ASSUME IInv, OwedInv, Executing({"run"}), IsUser(cpu.on), Finishes,
         NEW n \in Nat, NEW c, IsStack(n, c)
  PROVE  /\ n = 1 /\ c[n] = threads[current].proc /\ LiveUsers' = {}
         /\ IsStack(0, <<>>)' /\ OwedInv'
<1> DEFINE p == threads[current].proc
<1>1. /\ current \in ThreadIds /\ Schedulable(threads[current]) /\ IsUser(current)
      /\ p \in ProcessIds \ {KernelProcess} /\ processes[p].live
      /\ processes \in [ProcessIds -> ProcessRecord] /\ threads \in [ThreadIds -> ThreadRecord]
      /\ WaitInv(threads, processes)
  BY Caller DEF IInv, Types, TablesInv
<1>2. /\ processes[p].action = "ShutdownSystem"
      /\ processes' = [processes EXCEPT ![p] = FreeProcess]
      /\ threads' = [threads EXCEPT ![current] = FreeThread]
  BY DEF Finishes, DropProcess, RemoveThread
<1>3. processes[p].waiting = NoThread
  BY <1>1, <1>2 DEF WaitInv
<1>4. n > 0 /\ c[n] = p /\ p \in LiveUsers /\ c \in [1..n -> LiveUsers]
  BY <1>1, TopOfStack DEF IsStack
<1>5. n = 1
  <2>1. n > 1 => WaitsFor(c[n - 1], c[n])
    BY DEF IsStack
  <2> QED
    BY <1>3, <1>4, <2>1 DEF WaitsFor
<1>6. LiveUsers' = {}
  <2>1. \A q \in LiveUsers : q = p
    BY <1>4, <1>5 DEF IsStack
  <2>2. FreeProcess.live = FALSE
    BY DEF FreeProcess
  <2> QED
    BY <1>1, <1>2, <2>1, <2>2 DEF LiveUsers
<1>7. IsStack(0, <<>>)'
  BY <1>6 DEF IsStack
<1>8. OwedInv'
  BY <1>1, <1>2 DEF OwedInv, FreeThread, IsUser
<1> QED
  BY <1>4, <1>5, <1>6, <1>7, <1>8

-----------------------------------------------------------------------------
(* The sequences the steps of SpawnWait build, as functions.               *)
LEMMA AppendShape ==
  ASSUME NEW S, NEW f \in Seq(S), NEW x \in S
  PROVE  Append(f, x) = [i \in 1..(Len(f) + 1) |-> IF i = Len(f) + 1 THEN x ELSE f[i]]
<1> DEFINE g == Append(f, x)
<1>1. g \in Seq(S) /\ Len(g) = Len(f) + 1 /\ g[Len(f) + 1] = x /\ \A i \in 1..Len(f) : g[i] = f[i]
  BY AppendProperties
<1> HIDE DEF g
<1>2. g \in [1..(Len(f) + 1) -> S] /\ Len(f) \in Nat
  BY <1>1, LenProperties
<1>3. g = [i \in 1..(Len(f) + 1) |-> IF i = Len(f) + 1 THEN x ELSE f[i]]
  BY <1>1, <1>2
<1> QED
  BY <1>3 DEF g

LEMMA PopShape ==
  ASSUME NEW S, NEW f \in Seq(S), Len(f) > 1, NEW x \in S
  PROVE  Append(SubSeq(f, 1, Len(f) - 2), x)
           = [i \in 1..(Len(f) - 1) |-> IF i = Len(f) - 1 THEN x ELSE f[i]]
<1> DEFINE n == Len(f)
           g == SubSeq(f, 1, n - 2)
           h == Append(g, x)
<1>1. n \in Nat /\ n > 1 /\ n - 2 \in Nat /\ (n - 2) + 1 = n - 1
  BY LenProperties
<1>2. g \in Seq(S) /\ Len(g) = n - 2 /\ \A i \in 1..(n - 2) : g[i] = f[i]
  BY <1>1
<1> HIDE DEF g, n
<1>3. h \in Seq(S) /\ Len(h) = n - 1 /\ h[n - 1] = x /\ \A i \in 1..(n - 2) : h[i] = f[i]
  BY <1>1, <1>2, AppendProperties
<1> HIDE DEF h
<1>4. h \in [1..(n - 1) -> S]
  BY <1>3, LenProperties
<1>5. h = [i \in 1..(n - 1) |-> IF i = n - 1 THEN x ELSE f[i]]
  BY <1>1, <1>3, <1>4
<1> QED
  BY <1>5 DEF g, h, n

(* A program whose thread keeps its result and its last answer keeps its   *)
(* frame.                                                                  *)
LEMMA FramesKept ==
  ASSUME IInv, IInv', ProcessInv, mode \in {"boot", "run"},
         NEW U, U \subseteq LiveUsers, U \subseteq LiveUsers',
         \A t \in ThreadIds : threads[t].proc \in U =>
           /\ threads'[t].proc = threads[t].proc /\ threads'[t].result = threads[t].result
           /\ rax'[t] = rax[t]
  PROVE  \A p \in U : Frame(p)' = Frame(p)
<1> SUFFICES ASSUME NEW p \in U PROVE Frame(p)' = Frame(p)
  OBVIOUS
<1>1. PICK t \in ThreadIds : threads[t].proc = p
  BY DEF ProcessInv, SessionInv, RunsInv, Owners, LiveUsers
<1>2. Frame(p) = [pid |-> p, owed |-> threads[t].result, answer |-> rax[t]]
  BY <1>1, FrameRead DEF FrameReads
<1>3. FrameReads'
  BY FrameRead, PTL
<1>4. Frame(p)' = [pid |-> p, owed |-> threads'[t].result, answer |-> rax'[t]]
  BY <1>1, <1>3 DEF FrameReads
<1> QED
  BY <1>1, <1>2, <1>4

(* The same of the whole stack.                                            *)
LEMMA StackReadNext ==
  ASSUME IInv', NEW n \in Nat, NEW c, IsStack(n, c)'
  PROVE  Calls' = [i \in 1..n |-> Frame(c[i])']
<1>1. StackReads'
  BY StackRead, PTL
<1>2. c \in [1..n -> LiveUsers']
  BY DEF IsStack
<1> QED
  BY <1>1, <1>2 DEF StackReads

-----------------------------------------------------------------------------
(* The steps of SpawnWait the effects are.                                 *)
LEMMA CallsNow ==
  ASSUME IInv, NEW n \in Nat, NEW c, IsStack(n, c)
  PROVE  /\ c \in [1..n -> LiveUsers] /\ Calls = [i \in 1..n |-> Frame(c[i])]
         /\ Len(Calls) = n /\ DOMAIN Calls = 1..n
<1>1. c \in [1..n -> LiveUsers]
  BY DEF IsStack
<1>2. Calls = [i \in 1..n |-> Frame(c[i])]
  BY <1>1, StackRead DEF StackReads
<1> QED
  BY <1>1, <1>2

LEMMA StaysStutters ==
  ASSUME IInv, IInv', ProcessInv, mode \in {"boot", "run"}, OwedInv,
         NEW n \in Nat, NEW c, IsStack(n, c), Stays, UNCHANGED rax
  PROVE  Calls' = Calls
<1>1. LiveUsers' = LiveUsers /\ IsStack(n, c)'
  BY StaysKeepsStack DEF IInv
<1>2. c \in [1..n -> LiveUsers] /\ Calls = [i \in 1..n |-> Frame(c[i])]
  BY CallsNow
<1>3. \A t \in ThreadIds :
        threads'[t].proc = threads[t].proc /\ threads'[t].result = threads[t].result
  BY DEF Stays, Like
<1>4. \A p \in LiveUsers : Frame(p)' = Frame(p)
  BY <1>1, <1>3, FramesKept
<1>5. Calls' = [i \in 1..n |-> Frame(c[i])']
  BY <1>1, StackReadNext
<1> QED
  BY <1>2, <1>4, <1>5

(* Only the innermost process's frame changes.                             *)
LEMMA TopChanges ==
  ASSUME IInv, IInv', ProcessInv, mode \in {"boot", "run"},
         NEW n \in Nat, NEW c, IsStack(n, c), IsStack(n, c)', LiveUsers' = LiveUsers,
         current \in ThreadIds, Schedulable(threads[current]), IsUser(current),
         threads'[current].proc = threads[current].proc,
         \A t \in ThreadIds \ {current} :
           /\ threads'[t].proc = threads[t].proc /\ threads'[t].result = threads[t].result
           /\ rax'[t] = rax[t]
  PROVE  /\ n > 0 /\ Len(Calls) = n
         /\ Calls[n] = [pid |-> threads[current].proc, owed |-> threads[current].result,
                        answer |-> rax[current]]
         /\ Calls' = [Calls EXCEPT ![n] =
                        [pid |-> threads[current].proc, owed |-> threads'[current].result,
                         answer |-> rax'[current]]]
<1>0. PICK p : p = threads[current].proc
  OBVIOUS
<1>1. n > 0 /\ c[n] = p /\ p \in LiveUsers
  BY <1>0, TopOfStack
<1> DEFINE new == [pid |-> p, owed |-> threads'[current].result, answer |-> rax'[current]]
<1>2. /\ c \in [1..n -> LiveUsers] /\ Calls = [i \in 1..n |-> Frame(c[i])]
      /\ Len(Calls) = n
  BY CallsNow
<1>3. Calls' = [i \in 1..n |-> Frame(c[i])']
  BY StackReadNext
<1>4. Frame(p) = [pid |-> p, owed |-> threads[current].result, answer |-> rax[current]]
  BY <1>0, <1>1, FrameRead DEF FrameReads
<1>5. Frame(p)' = new
  <2>1. FrameReads'
    BY FrameRead, PTL
  <2> QED
    BY <1>0, <1>1, <2>1 DEF FrameReads
<1>6. \A q \in LiveUsers \ {p} : Frame(q)' = Frame(q)
  <2> DEFINE U == LiveUsers \ {p}
  <2>1. U \subseteq LiveUsers /\ U \subseteq LiveUsers'
    OBVIOUS
  <2>2. \A t \in ThreadIds : threads[t].proc \in U =>
          /\ threads'[t].proc = threads[t].proc /\ threads'[t].result = threads[t].result
          /\ rax'[t] = rax[t]
    BY <1>0
  <2> HIDE DEF U
  <2>3. \A q \in U : Frame(q)' = Frame(q)
    BY <2>1, <2>2, FramesKept
  <2> QED
    BY <2>3 DEF U
<1> HIDE DEF new
<1>7. \A i \in 1..n : i # n => c[i] \in LiveUsers \ {p}
  BY <1>1, <1>2 DEF IsStack
<1>8. Calls' = [Calls EXCEPT ![n] = new]
  BY <1>1, <1>2, <1>3, <1>5, <1>6, <1>7
<1>9. Calls[n] = Frame(p)
  BY <1>1, <1>2
<1> QED
  BY <1>0, <1>1, <1>2, <1>4, <1>8, <1>9 DEF new

LEMMA RefusalRefuses ==
  ASSUME IInv, IInv', ProcessInv, OwedInv, NEW n \in Nat, NEW c, IsStack(n, c),
         Executing({"run"}), IsUser(cpu.on), Stays, UNCHANGED threads,
         NEW code \in SpawnErrors, Reply(code)
  PROVE  Abstract!Refuse(code)
<1>1. /\ mode = "run" /\ cpu.on = current /\ current \in ThreadIds
      /\ Schedulable(threads[current]) /\ IsUser(current) /\ threads[current].pc = "run"
  BY Caller DEF Executing
<1>2. LiveUsers' = LiveUsers /\ IsStack(n, c)' /\ mode' = "run"
  BY StaysKeepsStack DEF IInv, Stays
<1>3. rax'[current] = code /\ \A t \in ThreadIds \ {current} : rax'[t] = rax[t]
  BY <1>1 DEF Reply, IInv, Types
<1>4. threads[current].result = NoStatus
  BY <1>1 DEF OwedInv
<1>6. /\ n > 0 /\ Len(Calls) = n
      /\ Calls[n] = [pid |-> threads[current].proc, owed |-> NoStatus,
                     answer |-> rax[current]]
      /\ Calls' = [Calls EXCEPT ![n] =
                     [pid |-> threads[current].proc, owed |-> NoStatus,
                      answer |-> code]]
  BY <1>1, <1>2, <1>3, <1>4, TopChanges
<1>7. mode \in {"boot", "run"} /\ UNCHANGED (mode \in {"boot", "run"})
  BY <1>1, <1>2
<1>8. Abstract!Top.owed = Abstract!NoStatus
  BY <1>6 DEF Abstract!Top, Abstract!NoStatus, NoStatus
<1>9. [Calls[n] EXCEPT !.answer = code] =
        [pid |-> threads[current].proc, owed |-> NoStatus, answer |-> code]
  BY <1>6
<1>10. Calls' = Abstract!SetTop([Abstract!Top EXCEPT !.answer = code])
  BY <1>6, <1>9 DEF Abstract!Top, Abstract!SetTop
<1> QED
  BY <1>7, <1>8, <1>10 DEF Abstract!Refuse

LEMMA ReturnReports ==
  ASSUME IInv, IInv', ProcessInv, OwedInv, NEW n \in Nat, NEW c, IsStack(n, c), ReturnFromWait
  PROVE  Abstract!Report
<1>1. /\ Returns /\ mode = "run" /\ cpu.on = current /\ threads[current].pc = "wait"
      /\ current \in ThreadIds /\ Schedulable(threads[current])
  BY ReturnEffect
<1>2. IsUser(current) /\ threads[current].result \in ExitStatuses
  BY <1>1 DEF OwedInv, ProcessInv, SessionInv, AnswerInv
<1>3. LiveUsers' = LiveUsers /\ IsStack(n, c)' /\ mode' = "run"
  BY <1>1, StaysKeepsStack DEF IInv, Returns
<1>4. threads[current].result # NoStatus
  BY <1>2, SchedulerAssumption DEF NoStatus
<1>5. /\ rax'[current] = threads[current].result
      /\ \A t \in ThreadIds \ {current} : rax'[t] = rax[t] /\ threads'[t] = threads[t]
      /\ threads'[current].proc = threads[current].proc /\ threads'[current].result = NoStatus
  <2>1. /\ threads \in [ThreadIds -> ThreadRecord] /\ rax \in [ThreadIds -> 0..UsizeMax \cup {NoStatus}]
        /\ threads[current] \in ThreadRecord
    BY <1>1 DEF IInv, Types
  <2>2. /\ threads' = [threads EXCEPT ![current].result = NoStatus, ![current].pc = "run"]
        /\ rax' = [rax EXCEPT ![current] = threads[current].result]
    BY <1>1, <1>4 DEF ReturnFromWait
  <2> QED
    BY <1>1, <2>1, <2>2 DEF ThreadRecord
<1> DEFINE owed == threads[current].result
<1>7. /\ n > 0 /\ Len(Calls) = n
      /\ Calls[n] = [pid |-> threads[current].proc, owed |-> owed, answer |-> rax[current]]
      /\ Calls' = [Calls EXCEPT ![n] =
                     [pid |-> threads[current].proc, owed |-> NoStatus,
                      answer |-> owed]]
  BY <1>1, <1>2, <1>3, <1>5, TopChanges
<1> HIDE DEF owed
<1>8. mode \in {"boot", "run"} /\ UNCHANGED (mode \in {"boot", "run"})
  BY <1>1, <1>3
<1>9. Abstract!Top.owed = owed /\ owed # Abstract!NoStatus /\ Abstract!NoStatus = NoStatus
  BY <1>4, <1>7 DEF Abstract!Top, Abstract!NoStatus, NoStatus, owed
<1>10. [Calls[n] EXCEPT !.answer = owed, !.owed = NoStatus] =
         [pid |-> threads[current].proc, owed |-> NoStatus, answer |-> owed]
  <2> DEFINE r == [Calls[n] EXCEPT !.answer = owed]
             q == [pid |-> threads[current].proc, owed |-> owed, answer |-> owed]
  <2>1. r = q
    BY <1>7
  <2>2. [q EXCEPT !.owed = NoStatus] = [pid |-> threads[current].proc, owed |-> NoStatus, answer |-> owed]
    OBVIOUS
  <2> HIDE DEF q, r
  <2>3. [r EXCEPT !.owed = NoStatus] = [pid |-> threads[current].proc, owed |-> NoStatus, answer |-> owed]
    BY <2>1, <2>2, Zenon
  <2>4. [Calls[n] EXCEPT !.answer = owed, !.owed = NoStatus] = [r EXCEPT !.owed = NoStatus]
    BY DEF r
  <2> QED
    BY <2>3, <2>4
<1>11. Calls' = Abstract!SetTop([Abstract!Top EXCEPT
                   !.answer = Abstract!Top.owed, !.owed = Abstract!NoStatus])
  BY <1>7, <1>9, <1>10 DEF Abstract!Top, Abstract!SetTop
<1> QED
  BY <1>8, <1>9, <1>11 DEF Abstract!Report

LEMMA BeginsSpawns ==
  ASSUME IInv, IInv', ProcessInv, OwedInv, NEW n \in Nat, NEW c, IsStack(n, c),
         Executing({"run"}), IsUser(cpu.on),
         NEW slot, NEW main, NEW prog, NEW silent, Begins(slot, main, prog, silent),
         rax' = [rax EXCEPT ![main] = NoStatus]
  PROVE  slot \in ProcessIds \ {KernelProcess, BootProcess} /\ Abstract!Spawn(slot)
<1> DEFINE d == [i \in 1..(n + 1) |-> IF i = n + 1 THEN slot ELSE c[i]]
<1>1. /\ slot \notin LiveUsers /\ LiveUsers' = LiveUsers \cup {slot} /\ IsStack(n + 1, d)'
  BY BeginsPushes
<1>2. /\ mode = "run" /\ current \in ThreadIds /\ threads[current] \in ThreadRecord
      /\ Schedulable(threads[current]) /\ IsUser(current) /\ threads[current].pc = "run"
      /\ rax \in [ThreadIds -> 0..UsizeMax \cup {NoStatus}]
  BY Caller DEF Executing, IInv, Types
<1>3. /\ slot \in ProcessIds /\ ~processes[slot].live
      /\ main \in ThreadIds /\ threads[main].state = "Free" /\ mode' = "run"
      /\ Like(threads'[main], NewThread(slot))
      /\ Like(threads'[current], BlockForChild(threads[current], slot))
      /\ \A t \in ThreadIds \ {main, current} : Like(threads'[t], threads[t])
  BY DEF Begins
<1>4. slot # KernelProcess /\ threads[main].proc = NoProcess /\ NoProcess \notin ProcessIds
  BY <1>3, FreshSlots
<1>5. n > 0 /\ c[n] = threads[current].proc
  BY <1>2, TopOfStack
<1>6. /\ c \in [1..n -> LiveUsers] /\ Calls = [i \in 1..n |-> Frame(c[i])]
      /\ Len(Calls) = n /\ DOMAIN Calls = 1..n
  BY CallsNow
<1>7. slot # BootProcess
  BY <1>1, <1>5, <1>6 DEF IsStack
<1>8. Calls' = [i \in 1..(n + 1) |-> Frame(d[i])']
  <2>1. n + 1 \in Nat
    OBVIOUS
  <2> HIDE DEF d
  <2> QED
    BY <1>1, <2>1, StackReadNext
<1>9. /\ threads'[main].proc = slot /\ threads'[main].result = NoStatus
      /\ threads'[current].proc = threads[current].proc
      /\ threads'[current].result = threads[current].result
  <2>1. NewThread(slot).proc = slot /\ NewThread(slot).result = NoStatus
    BY DEF NewThread
  <2>2. /\ BlockForChild(threads[current], slot).proc = threads[current].proc
        /\ BlockForChild(threads[current], slot).result = threads[current].result
    BY <1>2 DEF BlockForChild, ThreadRecord
  <2> QED
    BY <1>3, <2>1, <2>2 DEF Like
<1>10. \A p \in LiveUsers : Frame(p)' = Frame(p)
  <2>1. \A t \in ThreadIds : threads[t].proc \in LiveUsers =>
          /\ threads'[t].proc = threads[t].proc /\ threads'[t].result = threads[t].result
          /\ rax'[t] = rax[t]
    <3> SUFFICES ASSUME NEW t \in ThreadIds, threads[t].proc \in LiveUsers
                 PROVE  /\ threads'[t].proc = threads[t].proc /\ threads'[t].result = threads[t].result
                        /\ rax'[t] = rax[t]
      OBVIOUS
    <3>1. t # main
      BY <1>4 DEF LiveUsers
    <3> QED
      BY <1>2, <1>3, <1>9, <3>1 DEF Like
  <2> QED
    BY <1>1, <1>2, <2>1, FramesKept
<1>11. Frame(slot)' = Abstract!Fresh(slot)
  <2>1. FrameReads'
    BY FrameRead, PTL
  <2>2. rax'[main] = NoStatus
    BY <1>2, <1>3
  <2>3. Frame(slot)' = [pid |-> slot, owed |-> NoStatus, answer |-> NoStatus]
    BY <1>1, <1>3, <1>9, <2>1, <2>2 DEF FrameReads
  <2> QED
    BY <2>3 DEF Abstract!Fresh, Abstract!NoStatus, NoStatus
<1>12. Calls' = Append(Calls, Abstract!Fresh(slot))
  <2> DEFINE x == Abstract!Fresh(slot)
             S == {Frame(c[i]) : i \in 1..n} \cup {x}
  <2>1. Calls \in Seq(S) /\ x \in S
    BY <1>6
  <2> HIDE DEF S, x
  <2>2. Append(Calls, x) = [i \in 1..(n + 1) |-> IF i = n + 1 THEN x ELSE Calls[i]]
    BY <1>6, <2>1, AppendShape
  <2>3. \A i \in 1..(n + 1) : Frame(d[i])' = IF i = n + 1 THEN x ELSE Calls[i]
    <3> SUFFICES ASSUME NEW i \in 1..(n + 1) PROVE Frame(d[i])' = IF i = n + 1 THEN x ELSE Calls[i]
      OBVIOUS
    <3>1. CASE i = n + 1
      BY <1>11, <3>1 DEF x
    <3>2. CASE i # n + 1
      <4>1. i \in 1..n /\ d[i] = c[i] /\ c[i] \in LiveUsers
        BY <1>6, <3>2
      <4> HIDE DEF d
      <4> QED
        BY <1>6, <1>10, <3>2, <4>1
    <3> QED
      BY <3>1, <3>2
  <2> HIDE DEF d
  <2> QED
    BY <1>8, <2>2, <2>3 DEF x
<1>13. \A i \in DOMAIN Calls : Calls[i].pid # slot
  BY <1>1, <1>6 DEF Frame
<1>14. Abstract!Top.owed = Abstract!NoStatus
  <2>1. threads[current].proc \in LiveUsers
    BY <1>5, <1>6
  <2>2. Calls[n].owed = threads[current].result
    BY <1>2, <1>5, <1>6, <2>1, FrameRead DEF FrameReads
  <2> QED
    BY <1>2, <1>6, <2>2 DEF OwedInv, Abstract!Top, Abstract!NoStatus, NoStatus
<1>15. mode \in {"boot", "run"} /\ UNCHANGED (mode \in {"boot", "run"})
  BY <1>2, <1>3
<1> QED
  BY <1>3, <1>4, <1>7, <1>12, <1>13, <1>14, <1>15 DEF Abstract!Spawn

LEMMA EndsExits ==
  ASSUME IInv, IInv', ProcessInv, OwedInv, NEW n \in Nat, NEW c, IsStack(n, c),
         Executing({"run"}), IsUser(cpu.on),
         NEW waiter, NEW status, Ends(waiter, status), UNCHANGED rax
  PROVE  Abstract!Exit(status)
<1> DEFINE d == [i \in 1..(n - 1) |-> c[i]]
<1>1. /\ n > 1 /\ c[n] = threads[current].proc /\ c[n - 1] = threads[waiter].proc
      /\ LiveUsers' = LiveUsers \ {threads[current].proc} /\ IsStack(n - 1, d)'
  BY EndsPops
<1>2. /\ mode = "run" /\ current \in ThreadIds /\ threads[current].pc = "run"
      /\ Schedulable(threads[current]) /\ IsUser(current)
      /\ threads \in [ThreadIds -> ThreadRecord]
  BY Caller DEF Executing, IInv, Types
<1>3. /\ waiter \in ThreadIds /\ waiter # current /\ mode' = "run" /\ status \in ExitStatuses
      /\ Like(threads'[waiter], WakeWithResult(threads[waiter], status))
      /\ \A t \in ThreadIds \ {waiter, current} : Like(threads'[t], threads[t])
  BY DEF Ends
<1>4. /\ c \in [1..n -> LiveUsers] /\ Calls = [i \in 1..n |-> Frame(c[i])]
      /\ Len(Calls) = n /\ DOMAIN Calls = 1..n
  BY CallsNow
<1>5. n - 1 \in Nat /\ n - 1 \in 1..n /\ n \in 1..n /\ n - 1 \in 1..(n - 1)
  BY <1>1
<1>6. Calls' = [i \in 1..(n - 1) |-> Frame(c[i])']
  <2>1. Calls' = [i \in 1..(n - 1) |-> Frame(d[i])']
    <3> HIDE DEF d
    <3> QED
      BY <1>1, <1>5, StackReadNext
  <2> QED
    BY <2>1
<1>7. PICK p : p = threads[waiter].proc
  OBVIOUS
<1>8. /\ c[n - 1] = p /\ p \in LiveUsers /\ p \in LiveUsers'
      /\ \A i \in 1..(n - 1) : i # n - 1 => c[i] \in LiveUsers' \ {p}
  BY <1>1, <1>4, <1>5, <1>7 DEF IsStack
<1>9. threads'[waiter].proc = p /\ threads'[waiter].result = status
  <2>1. /\ WakeWithResult(threads[waiter], status).proc = threads[waiter].proc
        /\ WakeWithResult(threads[waiter], status).result = status
    BY <1>2, <1>3 DEF WakeWithResult, ThreadRecord
  <2> QED
    BY <1>3, <1>7, <2>1 DEF Like
<1> DEFINE new == [pid |-> p, owed |-> status, answer |-> rax[waiter]]
<1>10. Frame(p)' = new
  <2>1. FrameReads'
    BY FrameRead, PTL
  <2> QED
    BY <1>3, <1>8, <1>9, <2>1 DEF FrameReads
<1>11. Frame(p) = [pid |-> p, owed |-> threads[waiter].result, answer |-> rax[waiter]]
  BY <1>3, <1>7, <1>8, FrameRead DEF FrameReads
<1>12. \A q \in LiveUsers' \ {p} : Frame(q)' = Frame(q)
  <2> DEFINE U == LiveUsers' \ {p}
  <2>1. U \subseteq LiveUsers /\ U \subseteq LiveUsers'
    BY <1>1
  <2>2. \A t \in ThreadIds : threads[t].proc \in U =>
          /\ threads'[t].proc = threads[t].proc /\ threads'[t].result = threads[t].result
          /\ rax'[t] = rax[t]
    BY <1>1, <1>3, <1>7 DEF Like
  <2>3. PICK V : V = U
    OBVIOUS
  <2>4. \A q \in V : Frame(q)' = Frame(q)
    <3> HIDE DEF U
    <3> QED
      BY <1>2, <2>1, <2>2, <2>3, FramesKept
  <2> QED
    BY <2>3, <2>4
<1> HIDE DEF new
<1>13. Calls' = [i \in 1..(n - 1) |-> IF i = n - 1 THEN new ELSE Calls[i]]
  <2>1. \A i \in 1..(n - 1) : Frame(c[i])' = IF i = n - 1 THEN new ELSE Calls[i]
    <3> SUFFICES ASSUME NEW i \in 1..(n - 1)
                 PROVE  Frame(c[i])' = IF i = n - 1 THEN new ELSE Calls[i]
      OBVIOUS
    <3>1. CASE i = n - 1
      BY <1>8, <1>10, <3>1
    <3>2. CASE i # n - 1
      BY <1>4, <1>5, <1>8, <1>12, <3>2
    <3> QED
      BY <3>1, <3>2
  <2> QED
    BY <1>6, <2>1
<1>14. [Calls[n - 1] EXCEPT !.owed = status] = new
  <2> DEFINE q == [pid |-> p, owed |-> threads[waiter].result, answer |-> rax[waiter]]
  <2>1. [q EXCEPT !.owed = status] = [pid |-> p, owed |-> status, answer |-> rax[waiter]]
    OBVIOUS
  <2>2. Calls[n - 1] = q
    BY <1>4, <1>5, <1>8, <1>11
  <2> HIDE DEF q
  <2> QED
    BY <2>1, <2>2 DEF new
<1>15. Calls' = Append(SubSeq(Calls, 1, Len(Calls) - 2), [Calls[n - 1] EXCEPT !.owed = status])
  <2> DEFINE S == {Frame(c[i]) : i \in 1..n} \cup {new}
  <2>1. Calls \in Seq(S) /\ new \in S /\ Len(Calls) > 1
    BY <1>1, <1>4
  <2> HIDE DEF S
  <2>2. Append(SubSeq(Calls, 1, Len(Calls) - 2), new)
          = [i \in 1..(Len(Calls) - 1) |-> IF i = Len(Calls) - 1 THEN new ELSE Calls[i]]
    BY <2>1, PopShape
  <2>3. Append(SubSeq(Calls, 1, Len(Calls) - 2), new) = Calls'
    <3>1. Len(Calls) = n
      BY <1>4
    <3>2. Append(SubSeq(Calls, 1, Len(Calls) - 2), new)
            = [i \in 1..(n - 1) |-> IF i = n - 1 THEN new ELSE Calls[i]]
      BY <2>2, <3>1, Zenon
    <3> QED
      BY <1>13, <3>2, Zenon
  <2> QED
    BY <1>14, <2>3, Zenon
<1>16. Abstract!Top.owed = Abstract!NoStatus
  <2>1. threads[current].proc \in LiveUsers /\ Calls[n] = Frame(threads[current].proc)
    BY <1>1, <1>4, <1>5
  <2>2. Calls[n].owed = threads[current].result
    BY <1>2, <2>1, FrameRead DEF FrameReads
  <2> QED
    BY <1>2, <1>4, <2>2 DEF OwedInv, Abstract!Top, Abstract!NoStatus, NoStatus
<1>17. mode \in {"boot", "run"} /\ UNCHANGED (mode \in {"boot", "run"})
  BY <1>2, <1>3
<1>18. Len(Calls) > 1
  BY <1>1, <1>4
<1>19. Calls' = Append(SubSeq(Calls, 1, Len(Calls) - 2), [Abstract!Caller EXCEPT !.owed = status])
  BY <1>4, <1>15 DEF Abstract!Caller
<1> QED
  BY <1>16, <1>17, <1>18, <1>19 DEF Abstract!Exit

LEMMA FinishesShutsDown ==
  ASSUME IInv, IInv', ProcessInv, OwedInv, NEW n \in Nat, NEW c, IsStack(n, c),
         Executing({"run"}), IsUser(cpu.on), Finishes
  PROVE  Abstract!Shutdown
<1>1. n = 1 /\ c[n] = threads[current].proc /\ IsStack(0, <<>>)'
  BY FinishesEmpties
<1>2. /\ mode = "run" /\ mode' = "off" /\ current \in ThreadIds /\ threads[current].pc = "run"
  BY Caller DEF Executing, Finishes
<1>3. /\ c \in [1..n -> LiveUsers] /\ Calls = [i \in 1..n |-> Frame(c[i])] /\ Len(Calls) = n
  BY CallsNow
<1>4. Calls' = [i \in 1..0 |-> Frame(<<>>[i])']
  BY <1>1, StackReadNext
<1>5. Calls' = <<>>
  BY <1>4
<1>6. Abstract!Top.owed = Abstract!NoStatus
  <2>1. threads[current].proc \in LiveUsers /\ Calls[n] = Frame(threads[current].proc)
    BY <1>1, <1>3
  <2>2. Calls[n].owed = threads[current].result
    BY <1>2, <2>1, FrameRead DEF FrameReads
  <2> QED
    BY <1>2, <1>3, <2>2 DEF OwedInv, Abstract!Top, Abstract!NoStatus, NoStatus
<1>7. mode \in {"boot", "run"} /\ (mode' \in {"boot", "run"}) = FALSE
  BY <1>2
<1>8. Len(Calls) = 1
  BY <1>1, <1>3
<1> QED
  BY <1>5, <1>6, <1>7, <1>8 DEF Abstract!Shutdown

-----------------------------------------------------------------------------
AbstractVars == <<Calls, mode \in {"boot", "run"}>>

LEMMA InitStack == Init => StackInv /\ Abstract!Init
<1> SUFFICES ASSUME Init PROVE StackInv /\ Abstract!Init
  OBVIOUS
<1>1. IInv
  BY InitIInv
<1>2. /\ BootProcess \in ProcessIds \ {KernelProcess} /\ BootThread \in ThreadIds
      /\ ProcessIds \subseteq Int /\ ThreadIds \subseteq Int
  BY SchedulerAssumption DEF ProcessIds, ThreadIds, BootProcess, BootThread, KernelProcess
<1>3. PICK prog :
        /\ processes = [p \in ProcessIds |->
             CASE p = KernelProcess -> [FreeProcess EXCEPT !.live = TRUE]
               [] p = BootProcess ->
                    [live |-> TRUE, space |-> prog.root,
                     stdio |-> [fd \in Fds |-> "terminal"], waiting |-> NoThread,
                     owned |-> prog.pages, action |-> "ShutdownSystem"]
               [] OTHER -> FreeProcess]
        /\ threads = [t \in ThreadIds |->
             CASE t \in {TerminalThread, IdleThread} -> NewThread(KernelProcess)
               [] t = BootThread -> NewThread(BootProcess)
               [] OTHER -> FreeThread]
        /\ rax = [t \in ThreadIds |-> NoStatus] /\ mode = "boot"
  BY DEF Init
<1>4. processes[BootProcess].live = TRUE /\ processes[BootProcess].waiting = NoThread
  BY <1>2, <1>3 DEF KernelProcess, BootProcess
<1>5. \A p \in ProcessIds \ {KernelProcess, BootProcess} : processes[p].live = FALSE
  BY <1>2, <1>3 DEF FreeProcess
<1>6. LiveUsers = {BootProcess}
  BY <1>2, <1>4, <1>5, Zenon DEF LiveUsers
<1>7. /\ threads[BootThread] = NewThread(BootProcess)
      /\ \A t \in ThreadIds : threads[t] \in {NewThread(KernelProcess), NewThread(BootProcess), FreeThread}
  BY <1>2, <1>3 DEF BootThread, TerminalThread, IdleThread
<1>8. OwedInv
  BY <1>7 DEF OwedInv, NewThread, FreeThread
<1> DEFINE c == [i \in 1..1 |-> BootProcess]
<1>9. IsStack(1, c)
  BY <1>4, <1>6 DEF IsStack
<1>10. StackInv
  <2>1. c \in [1..1 -> LiveUsers] /\ 1 \in Nat /\ 1 > 0 /\ mode \in {"boot", "run"}
    BY <1>3, <1>6
  <2> HIDE DEF c
  <2> QED
    BY <1>8, <1>9, <2>1 DEF StackInv
<1>11. Calls = [i \in 1..1 |-> Frame(BootProcess)]
  <2>1. Calls = [i \in 1..1 |-> Frame(c[i])]
    <3> HIDE DEF c
    <3> QED
      BY <1>1, <1>9, CallsNow
  <2> QED
    BY <2>1
<1>12. Frame(BootProcess) = Abstract!Fresh(BootProcess)
  <2>1. threads[BootThread].proc = BootProcess /\ threads[BootThread].result = NoStatus
    BY <1>7 DEF NewThread
  <2>2. rax[BootThread] = NoStatus
    BY <1>2, <1>3
  <2>3. BootProcess \in LiveUsers
    BY <1>6
  <2>4. Frame(BootProcess) = [pid |-> BootProcess, owed |-> NoStatus, answer |-> NoStatus]
    BY <1>1, <1>2, <2>1, <2>2, <2>3, FrameRead DEF FrameReads
  <2> QED
    BY <2>4 DEF Abstract!Fresh, Abstract!NoStatus, NoStatus
<1>13. Calls = <<Abstract!Fresh(BootProcess)>>
  BY <1>11, <1>12
<1>14. (mode \in {"boot", "run"}) = TRUE
  BY <1>3
<1> QED
  BY <1>10, <1>13, <1>14 DEF Abstract!Init

(* Every step keeps the stack and is a step of SpawnWait or a stutter.     *)
LEMMA NextStack ==
  IInv /\ IInv' /\ ProcessInv /\ StackInv /\ [Next]_vars
    => StackInv' /\ [Abstract!Next]_AbstractVars
<1> SUFFICES ASSUME IInv, IInv', ProcessInv, StackInv, [Next]_vars
             PROVE  StackInv' /\ [Abstract!Next]_AbstractVars
  OBVIOUS
<1>0. PICK n \in Nat :
        (n > 0 <=> mode \in {"boot", "run"}) /\ \E c : IsStack(n, c)
  BY DEF StackInv
<1>1. PICK c : (n > 0 <=> mode \in {"boot", "run"}) /\ IsStack(n, c)
  BY <1>0
<1>2. OwedInv /\ Types /\ DeadInv
  BY DEF StackInv, IInv, ProcessInv, SessionInv
<1>3. ASSUME NEW m \in Nat, NEW d, IsStack(m, d)', OwedInv', m > 0 <=> mode' \in {"boot", "run"}
      PROVE  StackInv'
  <2>1. d \in [1..m -> LiveUsers']
    BY <1>3 DEF IsStack
  <2> QED
    BY <1>3, <2>1 DEF StackInv
<1>4. ASSUME mode \in {"boot", "run"}, Stays \/ (Returns /\ Schedulable(threads[current]))
      PROVE  StackInv'
  <2>1. IsStack(n, c)' /\ OwedInv' /\ mode' = "run"
    BY <1>1, <1>2, <1>4, StaysKeepsStack DEF Stays, Returns
  <2> QED
    BY <1>1, <1>3, <1>4, <2>1
<1>5. ASSUME mode \in {"boot", "run"}, Stays, UNCHANGED rax
      PROVE  StackInv' /\ [Abstract!Next]_AbstractVars
  <2>1. Calls' = Calls
    BY <1>1, <1>2, <1>5, StaysStutters
  <2>2. (mode' \in {"boot", "run"}) = (mode \in {"boot", "run"})
    BY <1>5 DEF Stays
  <2> QED
    BY <1>4, <1>5, <2>1, <2>2 DEF AbstractVars
<1>6. CASE Start
  <2>1. Stays /\ mode = "boot" /\ UNCHANGED rax
    BY <1>6, StartEffect DEF Start
  <2> QED
    BY <1>5, <2>1
<1>7. CASE Activate \/ Release \/ ContextSwitch
  <2>1. Stays /\ mode = "run" /\ UNCHANGED rax
    BY <1>7, SwitchEffect DEF Activate, Release, ContextSwitch
  <2> QED
    BY <1>5, <2>1
<1>8. CASE Resume
  <2>1. Stays /\ mode = "run" /\ UNCHANGED rax
    BY <1>8, ResumeEffect DEF Resume, Executing
  <2> QED
    BY <1>5, <2>1
<1>9. CASE ReturnFromWait
  <2>1. Returns /\ Schedulable(threads[current]) /\ mode = "run"
    BY <1>9, ReturnEffect
  <2>2. Abstract!Report
    BY <1>1, <1>2, <1>9, ReturnReports
  <2> QED
    BY <1>4, <2>1, <2>2 DEF Abstract!Next
<1>10. CASE KernelYield \/ UserYield
  <2>1. Stays /\ mode = "run" /\ UNCHANGED rax
    BY <1>10, YieldEffect DEF KernelYield, UserYield, Executing
  <2> QED
    BY <1>5, <2>1
<1>11. ASSUME Executing({"run"}), IsUser(cpu.on), Stays, UNCHANGED threads,
              NEW code \in SpawnErrors, Reply(code)
       PROVE  StackInv' /\ [Abstract!Next]_AbstractVars
  <2>1. mode = "run"
    BY <1>11 DEF Executing
  <2>2. Abstract!Refuse(code)
    BY <1>1, <1>2, <1>11, RefusalRefuses
  <2> QED
    BY <1>4, <1>11, <2>1, <2>2 DEF Abstract!Next
<1>12. CASE SpawnRefused
  <2>1. Executing({"run"}) /\ IsUser(cpu.on) /\ \E code \in SpawnErrors : Reply(code)
    BY <1>12 DEF SpawnRefused
  <2>2. Stays /\ UNCHANGED threads
    BY <1>12, SpawnRefusedEffect
  <2> QED
    BY <1>11, <2>1, <2>2
<1>13. ASSUME NEW silent \in BOOLEAN, SpawnUnplaced(silent)
       PROVE  StackInv' /\ [Abstract!Next]_AbstractVars
  <2>1. Executing({"run"}) /\ IsUser(cpu.on)
    BY <1>13 DEF SpawnUnplaced
  <2>2. Stays /\ UNCHANGED threads /\ Reply(RESOURCE_UNAVAILABLE)
    BY <1>2, <1>13, SpawnUnplacedEffect
  <2>3. RESOURCE_UNAVAILABLE \in SpawnErrors
    BY DEF SpawnErrors
  <2> QED
    BY <1>11, <2>1, <2>2, <2>3
<1>14. ASSUME NEW silent \in BOOLEAN, SpawnChild(silent)
       PROVE  StackInv' /\ [Abstract!Next]_AbstractVars
  <2>1. Executing({"run"}) /\ IsUser(cpu.on)
    BY <1>14 DEF SpawnChild
  <2>2. PICK slot, main, prog :
          Begins(slot, main, prog, silent) /\ rax' = [rax EXCEPT ![main] = NoStatus]
    BY <1>14, SpawnChildEffect
  <2> DEFINE d == [i \in 1..(n + 1) |-> IF i = n + 1 THEN slot ELSE c[i]]
  <2>3. IsStack(n + 1, d)' /\ OwedInv' /\ mode' = "run"
    BY <1>1, <1>2, <2>1, <2>2, BeginsPushes, ZenonT(60) DEF Begins
  <2>4. slot \in ProcessIds \ {KernelProcess, BootProcess} /\ Abstract!Spawn(slot)
    BY <1>1, <1>2, <2>1, <2>2, BeginsSpawns
  <2> HIDE DEF d
  <2>5. n + 1 \in Nat /\ n + 1 > 0
    OBVIOUS
  <2>6. StackInv'
    BY <1>3, <2>3, <2>5
  <2> QED
    BY <2>4, <2>6 DEF Abstract!Next
<1>15. CASE Exit \/ UserTrap
  <2>1. Executing({"run"}) /\ IsUser(cpu.on)
    BY <1>15 DEF Exit, UserTrap, ExitWith
  <2>2. PICK status \in ExitStatuses : ExitShutdown(status) \/ ExitContinue(status)
    BY <1>15, SchedulerAssumption DEF Exit, UserTrap, ExitWith
  <2>3. UNCHANGED rax /\ (Finishes \/ \E waiter : Ends(waiter, status))
    BY <2>1, <2>2, ExitEffect
  <2>4. CASE Finishes
    <3>1. IsStack(0, <<>>)' /\ OwedInv' /\ mode' = "off"
      BY <1>1, <1>2, <2>1, <2>4, FinishesEmpties DEF Finishes
    <3>2. Abstract!Shutdown
      BY <1>1, <1>2, <2>1, <2>4, FinishesShutsDown
    <3>3. StackInv'
      BY <1>3, <3>1
    <3> QED
      BY <3>2, <3>3 DEF Abstract!Next
  <2>5. CASE \E waiter : Ends(waiter, status)
    <3>1. PICK waiter : Ends(waiter, status)
      BY <2>5
    <3> DEFINE d == [i \in 1..(n - 1) |-> c[i]]
    <3>2. IsStack(n - 1, d)' /\ OwedInv' /\ mode' = "run" /\ n > 1
      BY <1>1, <1>2, <2>1, <3>1, EndsPops DEF Ends
    <3>3. Abstract!Exit(status)
      BY <1>1, <1>2, <2>1, <2>3, <3>1, EndsExits
    <3> HIDE DEF d
    <3>4. n - 1 \in Nat /\ n - 1 > 0
      BY <3>2
    <3>5. StackInv'
      BY <1>3, <3>2, <3>4
    <3> QED
      BY <3>3, <3>5 DEF Abstract!Next
  <2> QED
    BY <2>3, <2>4, <2>5
<1>16. CASE UNCHANGED vars
  <2>1. OwedInv' /\ IsStack(n, c)' /\ mode' = mode
    BY <1>1, <1>2, <1>16 DEF vars, OwedInv, IsStack, LiveUsers, WaitsFor, IsUser
  <2>2. StackInv'
    BY <1>1, <1>3, <2>1
  <2>3. AbstractVars' = AbstractVars
    BY <1>16 DEF vars, AbstractVars, Calls, Stack, Frame, LiveUsers, WaitsFor, MainThread
  <2> QED
    BY <2>2, <2>3
<1> QED
  BY <1>6, <1>7, <1>8, <1>9, <1>10, <1>12, <1>13, <1>14, <1>15, <1>16
     DEF Next, KernelStep, UserStep, Stopped

(* The processes form a call stack in every reachable state.               *)
THEOREM StackInvariant == Spec => []StackInv
<1>1. Init => StackInv  BY InitStack
<1>2. IInv /\ IInv' /\ ProcessInv /\ StackInv /\ [Next]_vars => StackInv'  BY NextStack
<1> QED BY <1>1, <1>2, SchedulerInvariant, ProcessInvariant, PTL DEF Spec

(* Every step of the scheduler is a step of the call-stack specification   *)
(* or changes nothing a program can see, for every table size, every       *)
(* program and every order of yields, spawns, refusals and exits.          *)
THEOREM SchedulerImplementsSpawnWait == Spec => ImplementsSpawnWait
<1>1. Init => Abstract!Init  BY InitStack
<1>2. IInv /\ IInv' /\ ProcessInv /\ StackInv /\ [Next]_vars
        => [Abstract!Next]_<<Calls, mode \in {"boot", "run"}>>
  BY NextStack DEF AbstractVars
<1> QED
  BY <1>1, <1>2, SchedulerInvariant, ProcessInvariant, StackInvariant, PTL
     DEF Spec, ImplementsSpawnWait, Abstract!Spec

-----------------------------------------------------------------------------
(* What the tables hold for a thread is what the child it sleeps for gave  *)
(* to exit: the history follows the thread that sleeps, the code the       *)
(* waiting_thread of the process, and neither is cleared too early.        *)
ToldInv ==
  /\ told \in [ThreadIds -> ExitStatuses \cup {NoStatus}]
  /\ \A t \in ThreadIds : told[t] = threads[t].result

(* Only the waiting thread of a process sleeps for it.                     *)
LEMMA SleeperWaits ==
  ASSUME IInv, NEW p \in ProcessIds, processes[p].live, NEW t \in ThreadIds
  PROVE  SleepsFor(t, p) <=> processes[p].waiting = t
BY DEF IInv, TablesInv, WaitInv, SleepsFor

LEMMA ExitTells ==
  ASSUME IInv, StackInv, ToldInv, NEW status \in ExitStatuses, ExitWith(status)
  PROVE  ToldInv'
<1>1. /\ Executing({"run"}) /\ IsUser(cpu.on)
      /\ ExitShutdown(status) \/ ExitContinue(status)
      /\ Tell(threads[cpu.on].proc, status)
  BY DEF ExitWith
<1> DEFINE p == threads[current].proc
<1>2. /\ cpu.on = current /\ current \in ThreadIds /\ p \in ProcessIds \ {KernelProcess}
      /\ processes[p].live /\ Schedulable(threads[current]) /\ threads[current].pc = "run"
      /\ threads \in [ThreadIds -> ThreadRecord]
  BY <1>1, Caller DEF Executing, IInv, Types
<1>3. told[current] = NoStatus
  BY <1>2 DEF StackInv, OwedInv, ToldInv
<1>4. told' = [t \in ThreadIds |-> IF processes[p].waiting = t THEN status ELSE told[t]]
  BY <1>1, <1>2, SleeperWaits DEF Tell
<1>5. \A t \in ThreadIds : told'[t] = threads'[t].result
  <2> SUFFICES ASSUME NEW t \in ThreadIds PROVE told'[t] = threads'[t].result
    OBVIOUS
  <2>1. FreeThread.result = NoStatus
    BY DEF FreeThread
  <2>2. CASE Finishes
    <3>1. processes[p].waiting = NoThread
      BY <1>2, <2>2 DEF Finishes, IInv, TablesInv, WaitInv
    <3>2. told'[t] = told[t]
      BY <1>4, <3>1, SchedulerAssumption DEF NoThread, ThreadIds
    <3>3. threads'[t] = IF t = current THEN FreeThread ELSE threads[t]
      BY <1>2, <2>2 DEF Finishes, RemoveThread
    <3> QED
      BY <1>3, <2>1, <3>2, <3>3 DEF ToldInv
  <2>3. CASE \E waiter : Ends(waiter, status)
    <3>1. PICK waiter : Ends(waiter, status)
      BY <2>3
    <3>2. /\ waiter = processes[p].waiting /\ waiter \in ThreadIds /\ waiter # current
          /\ threads'[current] = FreeThread
          /\ threads'[waiter].result = WakeWithResult(threads[waiter], status).result
          /\ t \notin {waiter, current} => threads'[t].result = threads[t].result
      BY <3>1 DEF Ends, Like
    <3>3. WakeWithResult(threads[waiter], status).result = status
      BY <1>2, <3>2 DEF WakeWithResult, ThreadRecord
    <3> QED
      BY <1>3, <1>4, <2>1, <3>2, <3>3 DEF ToldInv
  <2> QED
    BY <1>1, <2>2, <2>3, ExitEffect
<1> QED
  BY <1>4, <1>5 DEF ToldInv

LEMMA NextTold ==
  IInv /\ ProcessInv /\ StackInv /\ ToldInv /\ [Next]_vars => ToldInv'
<1> SUFFICES ASSUME IInv, ProcessInv, StackInv, ToldInv, [Next]_vars PROVE ToldInv'
  OBVIOUS
<1>1. ASSUME Stays, told' = told PROVE ToldInv'
  BY <1>1 DEF Stays, Like, ToldInv
<1>2. CASE Start
  BY <1>1, <1>2, StartEffect DEF Start
<1>3. CASE Activate \/ Release \/ ContextSwitch
  BY <1>1, <1>3, SwitchEffect DEF Activate, Release, ContextSwitch
<1>4. CASE Resume
  BY <1>1, <1>4, ResumeEffect DEF Resume
<1>5. CASE ReturnFromWait
  <2>1. /\ cpu.on = current /\ current \in ThreadIds /\ threads \in [ThreadIds -> ThreadRecord]
    BY <1>5, ReturnEffect DEF IInv, Types
  <2>2. /\ threads' = [threads EXCEPT ![current].result = NoStatus, ![current].pc = "run"]
        /\ told' = [told EXCEPT ![current] = NoStatus]
    BY <1>5, <2>1 DEF ReturnFromWait
  <2> QED
    BY <2>1, <2>2 DEF ToldInv, ThreadRecord
<1>6. CASE KernelYield \/ UserYield
  BY <1>1, <1>6, YieldEffect DEF KernelYield, UserYield, YieldNow
<1>7. CASE SpawnRefused
  BY <1>1, <1>7, SpawnRefusedEffect DEF SpawnRefused
<1>8. ASSUME NEW silent \in BOOLEAN, SpawnUnplaced(silent) PROVE ToldInv'
  <2>1. Stays
    BY <1>8, SpawnUnplacedEffect DEF ProcessInv, SessionInv
  <2> QED
    BY <1>1, <1>8, <2>1 DEF SpawnUnplaced
<1>9. ASSUME NEW silent \in BOOLEAN, SpawnChild(silent) PROVE ToldInv'
  <2>1. told' = told /\ Executing({"run"}) /\ IsUser(cpu.on)
    BY <1>9 DEF SpawnChild
  <2>2. PICK slot, main, prog : Begins(slot, main, prog, silent)
    BY <1>9, SpawnChildEffect
  <2>3. /\ main \in ThreadIds /\ threads[main].state = "Free"
        /\ threads'[main].result = NewThread(slot).result
        /\ threads'[current].result = BlockForChild(threads[current], slot).result
        /\ \A t \in ThreadIds \ {main, current} : threads'[t].result = threads[t].result
    BY <2>2 DEF Begins, Like
  <2>4. threads[main].result = NoStatus
    BY <2>3 DEF StackInv, OwedInv, Schedulable
  <2>5. threads[current] \in ThreadRecord
    BY <2>1, Caller
  <2>6. /\ NewThread(slot).result = NoStatus
        /\ BlockForChild(threads[current], slot).result = threads[current].result
    BY <2>5 DEF NewThread, BlockForChild, ThreadRecord
  <2> QED
    BY <2>1, <2>3, <2>4, <2>6 DEF ToldInv
<1>10. CASE Exit \/ UserTrap
  <2>1. PICK status \in ExitStatuses : ExitWith(status)
    BY <1>10, SchedulerAssumption DEF Exit, UserTrap
  <2> QED
    BY <2>1, ExitTells
<1>11. CASE UNCHANGED vars
  BY <1>11 DEF vars, ToldInv
<1> QED
  BY <1>2, <1>3, <1>4, <1>5, <1>6, <1>7, <1>8, <1>9, <1>10, <1>11
     DEF Next, KernelStep, UserStep, Stopped

(* For every table size and every set of exit statuses, the raw error      *)
(* codes included, the word that spawn_wait returns is the status that the *)
(* child the caller slept for gave to exit (wait_for_child and             *)
(* prepare_exit_current_process).                                          *)
THEOREM StatusReachesParent == Spec => ExitStatusReachesParent
<1>1. Init => ToldInv
  BY DEF Init, ToldInv, NewThread, FreeThread
<1>2. ASSUME IInv, ProcessInv, ToldInv
      PROVE  [ReturnFromWait => rax'[cpu.on] = told[cpu.on]]_vars
  <2> SUFFICES ASSUME ReturnFromWait PROVE rax'[cpu.on] = told[cpu.on]
    OBVIOUS
  <2>1. /\ cpu.on = current /\ threads[current].pc = "wait"
        /\ current \in ThreadIds /\ Schedulable(threads[current])
    BY <1>2, ReturnEffect
  <2>2. threads[current].result \in ExitStatuses
    BY <1>2, <2>1 DEF ProcessInv, SessionInv, AnswerInv
  <2>3. threads[current].result # NoStatus
    BY <2>2, SchedulerAssumption DEF NoStatus
  <2>4. rax'[current] = threads[current].result
    BY <1>2, <2>1, <2>3 DEF ReturnFromWait, IInv, Types
  <2> QED
    BY <1>2, <2>1, <2>4 DEF ToldInv
<1> QED
  BY <1>1, <1>2, NextTold, SchedulerInvariant, ProcessInvariant, StackInvariant, PTL
     DEF Spec, ExitStatusReachesParent
=============================================================================
