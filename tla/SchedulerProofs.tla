-------------------------- MODULE SchedulerProofs --------------------------
(***************************************************************************)
(* Proofs about the scheduler for every table size, every set of exit      *)
(* statuses and every amount of memory.                                    *)
(***************************************************************************)
EXTENDS Scheduler, FiniteSetTheorems, WellFoundedInduction, TLAPS

(* What the two tables satisfy on their own, in every state.               *)
SlotsInv(th, pr) ==
  \A t \in ThreadIds :
    /\ th[t].state # "Free" => th[t].proc \in ProcessIds /\ pr[th[t].proc].live
    /\ th[t].state = "Blocked" <=> th[t].reason \in ProcessIds
    /\ th[t].state = "Free" => th[t].proc = NoProcess

(* The kernel's two threads are the only ones of the kernel process and    *)
(* never wait; user processes have at most one thread.                     *)
KernelInv(th, pr) ==
  /\ \A t \in {TerminalThread, IdleThread} :
       th[t].proc = KernelProcess /\ Schedulable(th[t])
  /\ \A t \in ThreadIds \ {TerminalThread, IdleThread} : th[t].proc # KernelProcess
  /\ pr[KernelProcess].live /\ pr[KernelProcess].space = KernelSpace
  /\ \A t, u \in ThreadIds :
       (th[t].state # "Free" /\ th[t].proc = th[u].proc /\ th[t].proc # KernelProcess) => t = u

(* Blocked threads and waiting_thread fields name each other, at most one  *)
(* user thread is not blocked, and exactly the processes whose exit does   *)
(* not end the session have a waiting thread.                              *)
WaitInv(th, pr) ==
  /\ \A t \in ThreadIds, p \in ProcessIds :
       (th[t].state = "Blocked" /\ th[t].reason = p) <=> (pr[p].live /\ pr[p].waiting = t)
  /\ \A t, u \in ThreadIds :
       (/\ Schedulable(th[t]) /\ th[t].proc # KernelProcess
        /\ Schedulable(th[u]) /\ th[u].proc # KernelProcess) => t = u
  /\ \A p \in ProcessIds \ {KernelProcess} :
       pr[p].live => (pr[p].action = "Continue" <=> pr[p].waiting # NoThread)

TablesInv(th, pr) ==
  /\ th \in [ThreadIds -> ThreadRecord]
  /\ pr \in [ProcessIds -> ProcessRecord]
  /\ SlotsInv(th, pr)
  /\ KernelInv(th, pr)
  /\ WaitInv(th, pr)

(* How the CPU follows the tables through the phases of a switch.          *)
CpuInv ==
  /\ \A t \in ThreadIds : threads[t].state = "Running" <=> t = current
  /\ mode = "run" => current \in ThreadIds
  /\ mode = "boot" => switch = NoSwitch /\ current = NoThread
  /\ mode = "run" =>
       LET space == processes[threads[current].proc].space
       IN  /\ switch.phase = "none" => cpu.on = current
           /\ switch.phase # "none" => switch.next = current /\ switch.space = space
           /\ switch.phase \in {"none", "release", "jump"} => cpu.cr3 = space /\ cpu.rsp0 = current

IInv ==
  /\ Types
  /\ NeverStuck
  /\ TablesInv(threads, processes)
  /\ CpuInv

-----------------------------------------------------------------------------
(* A nonempty set of naturals has a first element: slots are found by      *)
(* position(is_none) and by the round robin's smallest offset.             *)
LEMMA FirstIsLeast ==
  ASSUME NEW S \in SUBSET Nat, S # {}
  PROVE  First(S) \in S /\ \A m \in S : First(S) <= m
<1>1. PICK x \in S : \A y \in S : ~(<<y, x>> \in OpToRel(<, Nat))
  BY NatLessThanWellFounded, WFMin
<1>2. \A y \in S : ~(y < x)
  BY <1>1 DEF OpToRel
<1>3. \A y \in S : x <= y
  BY <1>2
<1>4. QED
  BY <1>3 DEF First

(* The round robin returns a schedulable slot as long as the terminal      *)
(* thread is schedulable.                                                  *)
LEMMA NextRunnableSchedulable ==
  ASSUME NEW table \in [ThreadIds -> ThreadRecord],
         NEW cur \in ThreadIds \cup {NoThread},
         Schedulable(table[TerminalThread])
  PROVE  /\ NextRunnable(table, cur) \in ThreadIds
         /\ Schedulable(table[NextRunnable(table, cur)])
         /\ NextRunnable(table, cur) # NoThread
<1> DEFINE start == IF cur = NoThread THEN 0 ELSE (cur + 1) % MaxThreads
           slot(offset) == (start + offset) % MaxThreads
           ready == {o \in 0..(MaxThreads - 1) :
                       slot(o) # IdleThread /\ Schedulable(table[slot(o)])}
<1>0. MaxThreads \in Nat /\ MaxThreads >= 3
  BY SchedulerAssumption
<1>1. start \in 0..(MaxThreads - 1)
  BY <1>0 DEF ThreadIds, NoThread
<1>2. \E o \in 0..(MaxThreads - 1) : slot(o) = TerminalThread
  <2>1. CASE start = 0
    <3>1. slot(0) = 0  BY <2>1, <1>0
    <3>2. QED BY <3>1, <1>0 DEF TerminalThread
  <2>2. CASE start # 0
    <3>1. MaxThreads - start \in 0..(MaxThreads - 1)  BY <2>2, <1>0, <1>1
    <3>2. start + (MaxThreads - start) = MaxThreads  BY <1>0, <1>1
    <3>3. MaxThreads % MaxThreads = 0  BY <1>0
    <3>4. slot(MaxThreads - start) = 0  BY <3>2, <3>3
    <3>5. QED BY <3>1, <3>4 DEF TerminalThread
  <2>3. QED BY <2>1, <2>2
<1>3. ready # {}
  BY <1>2 DEF TerminalThread, IdleThread
<1>4. First(ready) \in ready
  <2>1. ready \in SUBSET Nat  BY <1>0
  <2>2. QED BY <2>1, <1>3, FirstIsLeast
<1>5. NextRunnable(table, cur) = slot(First(ready))
  BY <1>3 DEF NextRunnable
<1> DEFINE best == First(ready)
<1>6. /\ best \in 0..(MaxThreads - 1)
      /\ Schedulable(table[slot(best)])
  BY <1>4
<1>7. slot(best) \in ThreadIds
  <2> HIDE DEF best, start
  <2>1. start + best \in Nat  BY <1>0, <1>1, <1>6
  <2>2. QED BY <2>1, <1>0 DEF ThreadIds
<1>8. NextRunnable(table, cur) = slot(best)
  BY <1>5
<1> HIDE DEF best, slot
<1>9. slot(best) # NoThread
  BY <1>0, <1>7 DEF ThreadIds, NoThread
<1>10. QED
  BY <1>6, <1>7, <1>8, <1>9

-----------------------------------------------------------------------------
(* Replacing a schedulable thread's record by another schedulable record   *)
(* of the same process keeps the tables: start, yield_now and the return   *)
(* from wait_for_child do no more than that.                               *)
LEMMA RestateKeepsTables ==
  ASSUME NEW table, NEW procs, TablesInv(table, procs),
         NEW t \in ThreadIds, Schedulable(table[t]),
         NEW rec \in ThreadRecord,
         Schedulable(rec), rec.proc = table[t].proc, rec.reason = table[t].reason
  PROVE  TablesInv([table EXCEPT ![t] = rec], procs)
<1> DEFINE new == [table EXCEPT ![t] = rec]
<1>1. new \in [ThreadIds -> ThreadRecord] /\ new[t] = rec
  BY DEF TablesInv
<1>2. \A u \in ThreadIds :
        /\ new[u].proc = table[u].proc /\ new[u].reason = table[u].reason
        /\ new[u].state # table[u].state => u = t
        /\ Schedulable(new[u]) <=> Schedulable(table[u])
  BY DEF TablesInv
<1>3. \A u \in ThreadIds :
        /\ new[u].state = "Free" <=> table[u].state = "Free"
        /\ new[u].state = "Blocked" <=> table[u].state = "Blocked"
  BY <1>2, <1>1 DEF Schedulable
<1> HIDE DEF new
<1>4. SlotsInv(new, procs)
  BY <1>2, <1>3 DEF TablesInv, SlotsInv
<1>5. KernelInv(new, procs)
  <2>1. TerminalThread \in ThreadIds /\ IdleThread \in ThreadIds
    BY SchedulerAssumption DEF ThreadIds, TerminalThread, IdleThread
  <2>2. QED BY <1>2, <1>3, <2>1 DEF TablesInv, KernelInv
<1>6. WaitInv(new, procs)
  BY <1>2, <1>3 DEF TablesInv, WaitInv
<1>7. QED
  BY <1>1, <1>4, <1>5, <1>6 DEF TablesInv, new

(* A schedulable thread can be activated and set running.                  *)
LEMMA RunKeepsTables ==
  ASSUME NEW table, NEW procs, TablesInv(table, procs),
         NEW t \in ThreadIds, Schedulable(table[t])
  PROVE  /\ Activatable(table, procs, t)
         /\ TablesInv([table EXCEPT ![t] = SetState(@, "Running")], procs)
<1>1. table[t] \in ThreadRecord
  BY DEF TablesInv
<1>2. Activatable(table, procs, t)
  BY DEF TablesInv, SlotsInv, Activatable, Schedulable
<1>3. SetState(table[t], "Running") \in ThreadRecord
  BY <1>1 DEF SetState, ThreadRecord
<1>4. Schedulable(SetState(table[t], "Running"))
  BY <1>1 DEF SetState, Schedulable, ThreadRecord
<1>5. /\ SetState(table[t], "Running").proc = table[t].proc
      /\ SetState(table[t], "Running").reason = table[t].reason
  BY <1>1 DEF SetState, ThreadRecord
<1>6. QED
  BY <1>2, <1>3, <1>4, <1>5, RestateKeepsTables

(* spawn_child_process and prepare_wait_for_child.                         *)
LEMMA SpawnKeepsTables ==
  ASSUME NEW table, NEW procs, TablesInv(table, procs),
         NEW cur \in ThreadIds, Schedulable(table[cur]), table[cur].proc # KernelProcess,
         NEW slot \in ProcessIds, ~procs[slot].live,
         NEW main \in ThreadIds, table[main].state = "Free",
         NEW child \in ProcessRecord, child.live, child.waiting = cur,
         child.action = "Continue"
  PROVE  TablesInv([table EXCEPT ![main] = NewThread(slot), ![cur] = BlockForChild(@, slot)],
                   [procs EXCEPT ![slot] = child])
<1> DEFINE th == [table EXCEPT ![main] = NewThread(slot), ![cur] = BlockForChild(@, slot)]
           pr == [procs EXCEPT ![slot] = child]
<1>0. /\ table \in [ThreadIds -> ThreadRecord] /\ procs \in [ProcessIds -> ProcessRecord]
      /\ SlotsInv(table, procs) /\ KernelInv(table, procs) /\ WaitInv(table, procs)
      /\ NoProcess \notin ProcessIds
      /\ TerminalThread \in ThreadIds /\ IdleThread \in ThreadIds /\ KernelProcess \in ProcessIds
  BY SchedulerAssumption
     DEF TablesInv, NoProcess, ProcessIds, ThreadIds, TerminalThread, IdleThread, KernelProcess
<1>1. cur # main
  BY DEF Schedulable
<1>2. slot # KernelProcess
  BY <1>0 DEF KernelInv
<1>3. /\ NewThread(slot) \in ThreadRecord
      /\ NewThread(slot).proc = slot /\ NewThread(slot).state = "Runnable"
      /\ NewThread(slot).reason = NoProcess
  BY DEF NewThread, ThreadRecord
<1>4. /\ BlockForChild(table[cur], slot) \in ThreadRecord
      /\ BlockForChild(table[cur], slot).proc = table[cur].proc
      /\ BlockForChild(table[cur], slot).state = "Blocked"
      /\ BlockForChild(table[cur], slot).reason = slot
  <2>1. table[cur] \in ThreadRecord  BY <1>0
  <2>2. QED BY <2>1 DEF BlockForChild, ThreadRecord
<1>5. /\ th \in [ThreadIds -> ThreadRecord]
      /\ th[main] = NewThread(slot) /\ th[cur] = BlockForChild(table[cur], slot)
      /\ \A t \in ThreadIds \ {main, cur} : th[t] = table[t]
  BY <1>0, <1>1, <1>3, <1>4
<1>6. /\ pr \in [ProcessIds -> ProcessRecord] /\ pr[slot] = child
      /\ \A p \in ProcessIds \ {slot} : pr[p] = procs[p]
  BY <1>0
<1> HIDE DEF th, pr
<1>7. \A t \in ThreadIds : table[t].proc # slot /\ ~(table[t].state = "Blocked" /\ table[t].reason = slot)
  <2> TAKE t \in ThreadIds
  <2>1. table[t].proc # slot
    BY <1>0 DEF SlotsInv
  <2>2. ~(table[t].state = "Blocked" /\ table[t].reason = slot)
    BY <1>0 DEF WaitInv
  <2>3. QED BY <2>1, <2>2
<1>8. SlotsInv(th, pr)
  <2> SUFFICES ASSUME NEW t \in ThreadIds
               PROVE  /\ th[t].state # "Free" => th[t].proc \in ProcessIds /\ pr[th[t].proc].live
                      /\ th[t].state = "Blocked" <=> th[t].reason \in ProcessIds
                      /\ th[t].state = "Free" => th[t].proc = NoProcess
    BY DEF SlotsInv
  <2>1. CASE t = main
    BY <2>1, <1>0, <1>3, <1>5, <1>6
  <2>2. CASE t = cur
    BY <2>2, <1>0, <1>4, <1>5, <1>6, <1>7 DEF SlotsInv, Schedulable
  <2>3. CASE t \notin {main, cur}
    BY <2>3, <1>0, <1>5, <1>6, <1>7 DEF SlotsInv
  <2>4. QED BY <2>1, <2>2, <2>3
<1>9. KernelInv(th, pr)
  <2>1. \A t \in {TerminalThread, IdleThread} : t # main /\ t # cur
    BY <1>0 DEF KernelInv, Schedulable
  <2>2. \A t \in {TerminalThread, IdleThread} : th[t].proc = KernelProcess /\ Schedulable(th[t])
    BY <2>1, <1>0, <1>5 DEF KernelInv
  <2>3. \A t \in ThreadIds \ {TerminalThread, IdleThread} : th[t].proc # KernelProcess
    BY <1>0, <1>2, <1>3, <1>4, <1>5 DEF KernelInv
  <2>4. pr[KernelProcess].live /\ pr[KernelProcess].space = KernelSpace
    BY <1>0, <1>2, <1>6 DEF KernelInv
  <2>5. ASSUME NEW t \in ThreadIds, NEW u \in ThreadIds,
               th[t].state # "Free", th[t].proc = th[u].proc, th[t].proc # KernelProcess
        PROVE  t = u
    BY <2>5, <1>0, <1>1, <1>3, <1>4, <1>5, <1>7 DEF KernelInv, Schedulable
  <2>6. QED BY <2>2, <2>3, <2>4, <2>5 DEF KernelInv
<1>10. WaitInv(th, pr)
  <2>1. ASSUME NEW t \in ThreadIds, NEW p \in ProcessIds
        PROVE  (th[t].state = "Blocked" /\ th[t].reason = p) <=> (pr[p].live /\ pr[p].waiting = t)
    <3>1. ~(procs[p].live /\ procs[p].waiting \in {cur, main})
      BY <1>0 DEF WaitInv, Schedulable
    <3>2. CASE p = slot
      BY <3>2, <1>1, <1>3, <1>4, <1>5, <1>6, <1>7
    <3>3. CASE p # slot
      BY <3>1, <3>3, <1>0, <1>1, <1>3, <1>4, <1>5, <1>6 DEF WaitInv
    <3>4. QED BY <3>2, <3>3
  <2>2. ASSUME NEW t \in ThreadIds, NEW u \in ThreadIds,
               Schedulable(th[t]), th[t].proc # KernelProcess,
               Schedulable(th[u]), th[u].proc # KernelProcess
        PROVE  t = u
    <3>1. \A v \in ThreadIds : (Schedulable(th[v]) /\ th[v].proc # KernelProcess) => v = main
      BY <1>0, <1>1, <1>4, <1>5 DEF WaitInv, Schedulable
    <3>2. QED BY <2>2, <3>1
  <2>3. \A p \in ProcessIds \ {KernelProcess} :
          pr[p].live => (pr[p].action = "Continue" <=> pr[p].waiting # NoThread)
    <3>1. cur # NoThread  BY SchedulerAssumption DEF ThreadIds, NoThread
    <3>2. QED BY <3>1, <1>0, <1>6 DEF WaitInv
  <2>4. QED BY <2>1, <2>2, <2>3 DEF WaitInv
<1>11. QED
  BY <1>5, <1>6, <1>8, <1>9, <1>10 DEF TablesInv, th, pr

(* prepare_exit_current_process when the exiting process has a waiting     *)
(* thread.                                                                 *)
LEMMA ExitKeepsTables ==
  ASSUME NEW table, NEW procs, TablesInv(table, procs),
         NEW cur \in ThreadIds, Schedulable(table[cur]), table[cur].proc # KernelProcess,
         NEW waiter \in ThreadIds, procs[table[cur].proc].waiting = waiter,
         NEW status \in ExitStatuses
  PROVE  LET rest == RemoveThread(table, cur)
             th == [rest EXCEPT ![waiter] = WakeWithResult(@, status)]
         IN  /\ waiter # cur
             /\ rest[waiter].state # "Free"
             /\ Schedulable(th[waiter])
             /\ TablesInv(th, DropProcess(procs, table[cur].proc))
<1> DEFINE gone == table[cur].proc
           rest == RemoveThread(table, cur)
           th == [rest EXCEPT ![waiter] = WakeWithResult(@, status)]
           pr == DropProcess(procs, gone)
<1>0. /\ table \in [ThreadIds -> ThreadRecord] /\ procs \in [ProcessIds -> ProcessRecord]
      /\ SlotsInv(table, procs) /\ KernelInv(table, procs) /\ WaitInv(table, procs)
      /\ NoProcess \notin ProcessIds
      /\ TerminalThread \in ThreadIds /\ IdleThread \in ThreadIds /\ KernelProcess \in ProcessIds
      /\ table[cur].state # "Free" /\ table[cur].state # "Blocked"
  BY SchedulerAssumption
     DEF TablesInv, NoProcess, ProcessIds, ThreadIds, TerminalThread, IdleThread, KernelProcess,
         Schedulable
<1>1. gone \in ProcessIds /\ procs[gone].live /\ gone # KernelProcess
  BY <1>0 DEF SlotsInv
<1>2. table[waiter].state = "Blocked" /\ table[waiter].reason = gone
  BY <1>0, <1>1 DEF WaitInv
<1>3. waiter # cur
  BY <1>0, <1>2
<1>4. /\ FreeThread \in ThreadRecord
      /\ FreeThread.state = "Free" /\ FreeThread.proc = NoProcess /\ FreeThread.reason = NoProcess
  BY DEF FreeThread, ThreadRecord
<1>5. /\ WakeWithResult(table[waiter], status) \in ThreadRecord
      /\ WakeWithResult(table[waiter], status).proc = table[waiter].proc
      /\ WakeWithResult(table[waiter], status).state = "Runnable"
      /\ WakeWithResult(table[waiter], status).reason = NoProcess
  <2>1. table[waiter] \in ThreadRecord  BY <1>0
  <2>2. QED BY <2>1 DEF WakeWithResult, ThreadRecord
<1>6. /\ FreeProcess \in ProcessRecord /\ ~FreeProcess.live
  BY DEF FreeProcess, ProcessRecord, NoStdio
<1>7. /\ th \in [ThreadIds -> ThreadRecord]
      /\ th[cur] = FreeThread /\ th[waiter] = WakeWithResult(table[waiter], status)
      /\ rest[waiter] = table[waiter]
      /\ \A t \in ThreadIds \ {cur, waiter} : th[t] = table[t]
  <2>1. rest \in [ThreadIds -> ThreadRecord] /\ rest[waiter] = table[waiter]
    BY <1>0, <1>3, <1>4 DEF RemoveThread
  <2>2. QED BY <2>1, <1>0, <1>3, <1>4, <1>5 DEF RemoveThread
<1>8. /\ pr \in [ProcessIds -> ProcessRecord] /\ ~pr[gone].live
      /\ \A p \in ProcessIds \ {gone} : pr[p] = procs[p]
  BY <1>0, <1>1, <1>6 DEF DropProcess
<1> HIDE DEF th, pr, rest
<1>9. \A t \in ThreadIds : table[t].proc = gone => t = cur
  BY <1>0, <1>1 DEF KernelInv
<1>10. \A t \in ThreadIds : (table[t].state = "Blocked" /\ table[t].reason = gone) => t = waiter
  BY <1>0, <1>1 DEF WaitInv
<1>11. SlotsInv(th, pr)
  <2> SUFFICES ASSUME NEW t \in ThreadIds
               PROVE  /\ th[t].state # "Free" => th[t].proc \in ProcessIds /\ pr[th[t].proc].live
                      /\ th[t].state = "Blocked" <=> th[t].reason \in ProcessIds
                      /\ th[t].state = "Free" => th[t].proc = NoProcess
    BY DEF SlotsInv
  <2>1. CASE t = cur
    BY <2>1, <1>0, <1>4, <1>7
  <2>2. CASE t = waiter
    BY <2>2, <1>0, <1>2, <1>3, <1>5, <1>7, <1>8, <1>9 DEF SlotsInv
  <2>3. CASE t \notin {cur, waiter}
    BY <2>3, <1>0, <1>7, <1>8, <1>9 DEF SlotsInv
  <2>4. QED BY <2>1, <2>2, <2>3
<1>12. KernelInv(th, pr)
  <2>1. \A t \in {TerminalThread, IdleThread} : t # cur /\ t # waiter
    BY <1>0, <1>2 DEF KernelInv, Schedulable
  <2>2. \A t \in {TerminalThread, IdleThread} : th[t].proc = KernelProcess /\ Schedulable(th[t])
    BY <2>1, <1>0, <1>7 DEF KernelInv
  <2>3. \A t \in ThreadIds \ {TerminalThread, IdleThread} : th[t].proc # KernelProcess
    BY <1>0, <1>4, <1>5, <1>7 DEF KernelInv
  <2>4. pr[KernelProcess].live /\ pr[KernelProcess].space = KernelSpace
    BY <1>0, <1>1, <1>8 DEF KernelInv
  <2>5. ASSUME NEW t \in ThreadIds, NEW u \in ThreadIds,
               th[t].state # "Free", th[t].proc = th[u].proc, th[t].proc # KernelProcess
        PROVE  t = u
    <3>1. t # cur
      BY <2>5, <1>4, <1>7
    <3>2. table[t].state # "Free" /\ th[t].proc = table[t].proc
      <4>1. CASE t = waiter  BY <4>1, <1>2, <1>5, <1>7
      <4>2. CASE t # waiter  BY <4>2, <3>1, <2>5, <1>7
      <4>3. QED BY <4>1, <4>2
    <3>3. u # cur
      <4>1. table[t].proc \in ProcessIds  BY <3>2, <1>0 DEF SlotsInv
      <4>2. QED BY <4>1, <3>2, <2>5, <1>0, <1>4, <1>7
    <3>4. th[u].proc = table[u].proc
      BY <3>3, <1>5, <1>7
    <3>5. QED BY <2>5, <3>2, <3>4, <1>0 DEF KernelInv
  <2>6. QED BY <2>2, <2>3, <2>4, <2>5 DEF KernelInv
<1>13. WaitInv(th, pr)
  <2>1. ASSUME NEW t \in ThreadIds, NEW p \in ProcessIds
        PROVE  (th[t].state = "Blocked" /\ th[t].reason = p) <=> (pr[p].live /\ pr[p].waiting = t)
    <3>1. CASE p = gone
      BY <3>1, <1>4, <1>5, <1>7, <1>8, <1>10
    <3>2. CASE p # gone
      <4>1. ~(procs[p].live /\ procs[p].waiting \in {cur, waiter})
        BY <3>2, <1>0, <1>2, <1>1 DEF WaitInv
      <4>2. QED BY <4>1, <3>2, <1>0, <1>4, <1>5, <1>7, <1>8 DEF WaitInv
    <3>3. QED BY <3>1, <3>2
  <2>2. ASSUME NEW t \in ThreadIds, NEW u \in ThreadIds,
               Schedulable(th[t]), th[t].proc # KernelProcess,
               Schedulable(th[u]), th[u].proc # KernelProcess
        PROVE  t = u
    <3>1. \A v \in ThreadIds : (Schedulable(th[v]) /\ th[v].proc # KernelProcess) => v = waiter
      BY <1>0, <1>1, <1>4, <1>7 DEF WaitInv, Schedulable
    <3>2. QED BY <2>2, <3>1
  <2>3. \A p \in ProcessIds \ {KernelProcess} :
          pr[p].live => (pr[p].action = "Continue" <=> pr[p].waiting # NoThread)
    BY <1>0, <1>8 DEF WaitInv
  <2>4. QED BY <2>1, <2>2, <2>3 DEF WaitInv
<1>14. Schedulable(th[waiter]) /\ rest[waiter].state # "Free"
  BY <1>2, <1>5, <1>7 DEF Schedulable
<1>15. QED
  BY <1>3, <1>7, <1>8, <1>11, <1>12, <1>13, <1>14 DEF TablesInv, th, pr, rest

(* prepare_exit_current_process for the process that ends the session.     *)
LEMMA ShutdownKeepsTables ==
  ASSUME NEW table, NEW procs, TablesInv(table, procs),
         NEW cur \in ThreadIds, Schedulable(table[cur]), table[cur].proc # KernelProcess,
         procs[table[cur].proc].waiting = NoThread
  PROVE  TablesInv(RemoveThread(table, cur), DropProcess(procs, table[cur].proc))
<1> DEFINE gone == table[cur].proc
           th == RemoveThread(table, cur)
           pr == DropProcess(procs, gone)
<1>0. /\ table \in [ThreadIds -> ThreadRecord] /\ procs \in [ProcessIds -> ProcessRecord]
      /\ SlotsInv(table, procs) /\ KernelInv(table, procs) /\ WaitInv(table, procs)
      /\ NoProcess \notin ProcessIds /\ NoThread \notin ThreadIds
      /\ TerminalThread \in ThreadIds /\ IdleThread \in ThreadIds /\ KernelProcess \in ProcessIds
      /\ table[cur].state # "Free" /\ table[cur].state # "Blocked"
  BY SchedulerAssumption
     DEF TablesInv, NoProcess, NoThread, ProcessIds, ThreadIds, TerminalThread, IdleThread,
         KernelProcess, Schedulable
<1>1. gone \in ProcessIds /\ procs[gone].live /\ gone # KernelProcess
  BY <1>0 DEF SlotsInv
<1>2. /\ FreeThread \in ThreadRecord /\ ~Schedulable(FreeThread)
      /\ FreeThread.state = "Free" /\ FreeThread.proc = NoProcess /\ FreeThread.reason = NoProcess
  BY DEF FreeThread, ThreadRecord, Schedulable
<1>3. /\ FreeProcess \in ProcessRecord /\ ~FreeProcess.live
  BY DEF FreeProcess, ProcessRecord, NoStdio
<1>4. /\ th \in [ThreadIds -> ThreadRecord] /\ th[cur] = FreeThread
      /\ \A t \in ThreadIds \ {cur} : th[t] = table[t]
  BY <1>0, <1>2 DEF RemoveThread
<1>5. /\ pr \in [ProcessIds -> ProcessRecord] /\ ~pr[gone].live
      /\ \A p \in ProcessIds \ {gone} : pr[p] = procs[p]
  BY <1>0, <1>1, <1>3 DEF DropProcess
<1> HIDE DEF th, pr
<1>6. \A t \in ThreadIds : table[t].proc = gone => t = cur
  BY <1>0, <1>1 DEF KernelInv
<1>7. SlotsInv(th, pr)
  BY <1>0, <1>2, <1>4, <1>5, <1>6 DEF SlotsInv
<1>8. KernelInv(th, pr)
  <2>1. \A t \in {TerminalThread, IdleThread} : t # cur
    BY <1>0 DEF KernelInv
  <2>2. ASSUME NEW t \in ThreadIds, NEW u \in ThreadIds,
               th[t].state # "Free", th[t].proc = th[u].proc, th[t].proc # KernelProcess
        PROVE  t = u
    <3>1. t # cur  BY <2>2, <1>2, <1>4
    <3>2. table[t].proc \in ProcessIds  BY <3>1, <2>2, <1>0, <1>4 DEF SlotsInv
    <3>3. u # cur  BY <3>1, <3>2, <2>2, <1>0, <1>2, <1>4
    <3>4. QED BY <3>1, <3>3, <2>2, <1>0, <1>4 DEF KernelInv
  <2>3. \A t \in {TerminalThread, IdleThread} : th[t].proc = KernelProcess /\ Schedulable(th[t])
    BY <2>1, <1>0, <1>4 DEF KernelInv
  <2>4. \A t \in ThreadIds \ {TerminalThread, IdleThread} : th[t].proc # KernelProcess
    BY <1>0, <1>2, <1>4 DEF KernelInv
  <2>5. QED BY <2>2, <2>3, <2>4, <1>0, <1>1, <1>5 DEF KernelInv
<1>9. WaitInv(th, pr)
  <2>1. ASSUME NEW t \in ThreadIds, NEW p \in ProcessIds
        PROVE  (th[t].state = "Blocked" /\ th[t].reason = p) <=> (pr[p].live /\ pr[p].waiting = t)
    <3>1. CASE p = gone
      BY <3>1, <1>0, <1>1, <1>2, <1>4, <1>5 DEF WaitInv
    <3>2. CASE p # gone
      BY <3>2, <1>0, <1>2, <1>4, <1>5 DEF WaitInv
    <3>3. QED BY <3>1, <3>2
  <2>2. \A t, u \in ThreadIds :
          (/\ Schedulable(th[t]) /\ th[t].proc # KernelProcess
           /\ Schedulable(th[u]) /\ th[u].proc # KernelProcess) => t = u
    BY <1>0, <1>2, <1>4 DEF WaitInv
  <2>3. QED BY <2>1, <2>2, <1>0, <1>5 DEF WaitInv
<1>10. QED
  BY <1>4, <1>5, <1>7, <1>8, <1>9 DEF TablesInv, th, pr

-----------------------------------------------------------------------------
(* The common tail of the switching operations: given tables in which      *)
(* nothing runs and next is schedulable, it does not panic, and leaves the *)
(* tables and the prepared switch consistent.                              *)
LEMMA ResumeThreadStep ==
  ASSUME NEW table, NEW procs, TablesInv(table, procs),
         \A t \in ThreadIds : table[t].state # "Running",
         NEW next \in ThreadIds, Schedulable(table[next]),
         NEW pages \in SUBSET Pages, NEW exit \in BOOLEAN,
         ResumeThread(table, procs, next, pages, exit)
  PROVE  /\ TablesInv(threads', processes')
         /\ current' \in ThreadIds
         /\ switch' \in SwitchRecord
         /\ mode' = "run"
         /\ CpuInv'
<1>1. Activatable(table, procs, next)
  BY RunKeepsTables
<1>2. /\ current' = next
      /\ threads' = [table EXCEPT ![next] = SetState(@, "Running")]
      /\ processes' = procs
      /\ switch' = [phase |-> "activate", next |-> next,
                    space |-> procs[table[next].proc].space, pages |-> pages, exit |-> exit]
      /\ mode' = "run"
  BY <1>1 DEF ResumeThread
<1>3. TablesInv(threads', processes')
  BY <1>2, RunKeepsTables
<1>4. /\ table \in [ThreadIds -> ThreadRecord] /\ table[next] \in ThreadRecord
      /\ procs[table[next].proc] \in ProcessRecord
  BY DEF TablesInv, SlotsInv, Schedulable
<1>5. /\ threads'[next].state = "Running" /\ threads'[next].proc = table[next].proc
      /\ \A t \in ThreadIds \ {next} : threads'[t] = table[t]
  BY <1>2, <1>4 DEF SetState, ThreadRecord
<1>6. switch' \in SwitchRecord
  BY <1>2, <1>4 DEF SwitchRecord, ProcessRecord
<1>7. CpuInv'
  BY <1>2, <1>5 DEF CpuInv
<1>8. QED
  BY <1>2, <1>3, <1>6, <1>7

(* In the running machine the current thread is schedulable.               *)
LEMMA CurrentSchedulable ==
  ASSUME IInv, mode = "run"
  PROVE  /\ current \in ThreadIds /\ threads[current].state = "Running"
         /\ Schedulable(threads[current])
         /\ threads[current] \in ThreadRecord
         /\ threads[current].reason = NoProcess
         /\ threads[current].proc \in ProcessIds
<1>1. current \in ThreadIds /\ threads[current].state = "Running"
  BY DEF IInv, CpuInv
<1>2. /\ threads[current] \in ThreadRecord /\ threads[current].proc \in ProcessIds
      /\ threads[current].reason \notin ProcessIds
  BY <1>1 DEF IInv, TablesInv, SlotsInv
<1>3. QED
  BY <1>1, <1>2 DEF Schedulable, ThreadRecord

-----------------------------------------------------------------------------
(* kernel_main leaves consistent tables.                                   *)
LEMMA InitIInv == Init => IInv
<1> SUFFICES ASSUME Init PROVE IInv
  OBVIOUS
<1>1. PICK prog \in Programs(Pages) : Init!(prog)
  BY DEF Init
<1>2. prog.root \in Pages /\ prog.pages \in SUBSET Pages
  BY DEF Programs
<1> DEFINE boot == [live |-> TRUE, space |-> prog.root,
                    stdio |-> [fd \in Fds |-> "terminal"], waiting |-> NoThread,
                    owned |-> prog.pages, action |-> "ShutdownSystem"]
           kernel == [FreeProcess EXCEPT !.live = TRUE]
<1>3. /\ MaxThreads \in Nat /\ MaxThreads >= 3 /\ MaxProcesses \in Nat /\ MaxProcesses >= 2
      /\ NoProcess \notin ProcessIds /\ NoThread \notin ThreadIds
      /\ KernelProcess \in ProcessIds /\ BootProcess \in ProcessIds
      /\ KernelProcess # BootProcess
      /\ TerminalThread \in ThreadIds /\ BootThread \in ThreadIds /\ IdleThread \in ThreadIds
      /\ TerminalThread # BootThread /\ IdleThread # BootThread
      /\ NoProcess # KernelProcess
  BY SchedulerAssumption
     DEF ProcessIds, ThreadIds, NoProcess, NoThread, KernelProcess, BootProcess,
         TerminalThread, BootThread, IdleThread
<1>4. /\ boot \in ProcessRecord /\ kernel \in ProcessRecord /\ FreeProcess \in ProcessRecord
      /\ boot.live /\ boot.waiting = NoThread /\ boot.action = "ShutdownSystem"
      /\ kernel.live /\ kernel.waiting = NoThread /\ kernel.space = KernelSpace
      /\ ~FreeProcess.live
  BY <1>2 DEF ProcessRecord, FreeProcess, NoStdio
<1>5. /\ NewThread(KernelProcess) \in ThreadRecord /\ NewThread(BootProcess) \in ThreadRecord
      /\ FreeThread \in ThreadRecord
  BY <1>3 DEF NewThread, FreeThread, ThreadRecord
<1>6. /\ processes \in [ProcessIds -> ProcessRecord]
      /\ processes[KernelProcess] = kernel /\ processes[BootProcess] = boot
      /\ \A p \in ProcessIds \ {KernelProcess, BootProcess} : processes[p] = FreeProcess
  <2> HIDE DEF boot, kernel
  <2>1. processes = [p \in ProcessIds |-> CASE p = KernelProcess -> kernel
                                           [] p = BootProcess -> boot
                                           [] OTHER -> FreeProcess]
    BY <1>1 DEF boot, kernel
  <2>2. QED BY <2>1, <1>3, <1>4
<1>7. /\ threads \in [ThreadIds -> ThreadRecord]
      /\ \A t \in {TerminalThread, IdleThread} : threads[t] = NewThread(KernelProcess)
      /\ threads[BootThread] = NewThread(BootProcess)
      /\ \A t \in ThreadIds \ {TerminalThread, BootThread, IdleThread} : threads[t] = FreeThread
  <2>1. threads = [t \in ThreadIds |->
                     CASE t \in {TerminalThread, IdleThread} -> NewThread(KernelProcess)
                       [] t = BootThread -> NewThread(BootProcess)
                       [] OTHER -> FreeThread]
    BY <1>1
  <2>2. QED BY <2>1, <1>3, <1>5
<1>8. \A p \in ProcessIds :
        /\ NewThread(p).proc = p /\ NewThread(p).state = "Runnable"
        /\ NewThread(p).reason = NoProcess
  BY DEF NewThread
<1>9. FreeThread.proc = NoProcess /\ FreeThread.state = "Free" /\ FreeThread.reason = NoProcess
  BY DEF FreeThread
<1> HIDE DEF boot, kernel
<1>10. \A t \in ThreadIds :
         \/ t \in {TerminalThread, IdleThread} /\ threads[t] = NewThread(KernelProcess)
         \/ t = BootThread /\ threads[t] = NewThread(BootProcess)
         \/ t \notin {TerminalThread, BootThread, IdleThread} /\ threads[t] = FreeThread
  BY <1>7
<1>11. \A p \in ProcessIds :
         \/ p = KernelProcess /\ processes[p] = kernel
         \/ p = BootProcess /\ processes[p] = boot
         \/ p \notin {KernelProcess, BootProcess} /\ processes[p] = FreeProcess
  BY <1>6
<1>12. SlotsInv(threads, processes)
  BY <1>3, <1>4, <1>6, <1>8, <1>9, <1>10 DEF SlotsInv
<1>13. KernelInv(threads, processes)
  BY <1>3, <1>4, <1>6, <1>8, <1>9, <1>10 DEF KernelInv, Schedulable
<1>14. WaitInv(threads, processes)
  BY <1>3, <1>4, <1>8, <1>9, <1>10, <1>11 DEF WaitInv, Schedulable
<1>15. TablesInv(threads, processes)
  BY <1>6, <1>7, <1>12, <1>13, <1>14 DEF TablesInv
<1>16. CpuInv
  <2>1. current = NoThread /\ switch = NoSwitch /\ mode = "boot"
    BY <1>1
  <2>2. QED BY <2>1, <1>3, <1>8, <1>9, <1>10 DEF CpuInv
<1>17. Types /\ NeverStuck
  <2>1. NoSwitch \in SwitchRecord
    BY DEF NoSwitch, SwitchRecord
  <2>2. rax \in [ThreadIds -> 0..UsizeMax \cup {NoStatus}]
    BY <1>1
  <2>3. cpu \in [cr3 : Pages \cup {KernelSpace}, rsp0 : ThreadIds \cup {NoThread},
                 on : ThreadIds \cup {NoThread}]
    BY <1>1
  <2>4. QED BY <1>1, <1>6, <1>7, <2>1, <2>2, <2>3 DEF Types, NeverStuck
<1>18. QED
  BY <1>15, <1>16, <1>17 DEF IInv

-----------------------------------------------------------------------------
(* The terminal thread always gives next_runnable_thread a result, and     *)
(* every syscall answer is a usize.                                        *)
LEMMA TerminalSchedulable ==
  ASSUME NEW table, NEW procs, TablesInv(table, procs)
  PROVE  Schedulable(table[TerminalThread]) /\ table \in [ThreadIds -> ThreadRecord]
  BY DEF TablesInv, KernelInv

LEMMA CodesAreUsize ==
  /\ SpawnErrors \subseteq 0..UsizeMax /\ RESOURCE_UNAVAILABLE \in 0..UsizeMax
  /\ ExitStatuses \subseteq 0..UsizeMax
  BY SchedulerAssumption
     DEF SpawnErrors, INVALID_PATH, FILE_NOT_FOUND, INVALID_EXECUTABLE, RESOURCE_UNAVAILABLE

LEMMA StartStep ==
  ASSUME IInv, Start
  PROVE  IInv'
<1>1. mode = "boot" /\ current = NoThread /\ UNCHANGED <<cpu, free, lost, rax>>
  BY DEF Start, IInv, CpuInv
<1>2. TablesInv(threads, processes) /\ \A t \in ThreadIds : threads[t].state # "Running"
  <2>1. NoThread \notin ThreadIds  BY SchedulerAssumption DEF NoThread, ThreadIds
  <2>2. QED BY <1>1, <2>1 DEF IInv, CpuInv
<1> DEFINE next == NextRunnable(threads, NoThread)
<1>3. next \in ThreadIds /\ Schedulable(threads[next]) /\ next # NoThread
  BY <1>2, TerminalSchedulable, NextRunnableSchedulable
<1>4. ResumeThread(threads, processes, next, {}, FALSE)
  BY <1>3 DEF Start
<1> HIDE DEF next
<1>5. /\ TablesInv(threads', processes') /\ current' \in ThreadIds
      /\ switch' \in SwitchRecord /\ mode' = "run" /\ CpuInv'
  BY <1>2, <1>3, <1>4, ResumeThreadStep
<1>6. QED
  BY <1>1, <1>5 DEF IInv, Types, NeverStuck, TablesInv

(* The steps of a switch leave the tables alone.                           *)
LEMMA SwitchStep ==
  ASSUME IInv, Activate \/ Release \/ ContextSwitch
  PROVE  IInv'
<1>1. /\ UNCHANGED <<processes, threads, current, lost, rax, mode>> /\ mode = "run"
      /\ switch \in SwitchRecord /\ free \subseteq Pages
      /\ cpu \in [cr3 : Pages \cup {KernelSpace}, rsp0 : ThreadIds \cup {NoThread},
                   on : ThreadIds \cup {NoThread}]
  BY DEF Activate, Release, ContextSwitch, IInv, Types
<1>2. CASE Activate
  <2>1. /\ cpu' = [cpu EXCEPT !.cr3 = switch.space, !.rsp0 = switch.next]
        /\ switch' = [switch EXCEPT !.phase = IF switch.exit THEN "release" ELSE "jump"]
        /\ UNCHANGED free /\ switch.phase = "activate"
    BY <1>2 DEF Activate
  <2>2. switch' \in SwitchRecord /\ switch'.phase \in {"release", "jump"}
        /\ switch'.next = switch.next /\ switch'.space = switch.space
    BY <1>1, <2>1 DEF SwitchRecord
  <2>3. cpu' \in [cr3 : Pages \cup {KernelSpace}, rsp0 : ThreadIds \cup {NoThread},
                  on : ThreadIds \cup {NoThread}]
        /\ cpu'.cr3 = switch.space /\ cpu'.rsp0 = switch.next
    BY <1>1, <2>1 DEF SwitchRecord
  <2>4. CpuInv'
    BY <1>1, <2>1, <2>2, <2>3 DEF IInv, CpuInv
  <2>5. QED
    BY <1>1, <2>1, <2>2, <2>3, <2>4 DEF IInv, Types, NeverStuck, TablesInv
<1>3. CASE Release
  <2>1. /\ UNCHANGED cpu /\ switch.phase = "release"
        /\ switch' = [switch EXCEPT !.phase = "jump", !.pages = {}]
        /\ free' = free \cup switch.pages
    BY <1>3 DEF Release
  <2>2. /\ switch' \in SwitchRecord /\ switch'.phase = "jump"
        /\ switch'.next = switch.next /\ switch'.space = switch.space
        /\ free' \subseteq Pages
    BY <1>1, <2>1 DEF SwitchRecord
  <2>3. CpuInv'
    BY <1>1, <2>1, <2>2 DEF IInv, CpuInv
  <2>4. QED
    BY <1>1, <2>1, <2>2, <2>3 DEF IInv, Types, NeverStuck, TablesInv
<1>4. CASE ContextSwitch
  <2>1. /\ switch.phase = "jump" /\ switch' = NoSwitch /\ UNCHANGED free
        /\ cpu' = [cpu EXCEPT !.on = switch.next]
    BY <1>4 DEF ContextSwitch
  <2>2. switch' \in SwitchRecord /\ switch'.phase = "none"
    BY <2>1 DEF NoSwitch, SwitchRecord
  <2>3. cpu' \in [cr3 : Pages \cup {KernelSpace}, rsp0 : ThreadIds \cup {NoThread},
                  on : ThreadIds \cup {NoThread}]
        /\ cpu'.cr3 = cpu.cr3 /\ cpu'.rsp0 = cpu.rsp0 /\ cpu'.on = switch.next
    BY <1>1, <2>1 DEF SwitchRecord
  <2>4. CpuInv'
    BY <1>1, <2>1, <2>2, <2>3 DEF IInv, CpuInv
  <2>5. QED
    BY <1>1, <2>1, <2>2, <2>3, <2>4 DEF IInv, Types, NeverStuck, TablesInv
<1>5. QED
  BY <1>2, <1>3, <1>4

(* A step that restates the current thread as running and leaves the       *)
(* other tables and the CPU alone.                                         *)
LEMMA RestatedCurrent ==
  ASSUME IInv, mode = "run",
         NEW rec \in ThreadRecord, rec.state = "Running",
         rec.proc = threads[current].proc, rec.reason = threads[current].reason,
         threads' = [threads EXCEPT ![current] = rec],
         rax' \in [ThreadIds -> 0..UsizeMax \cup {NoStatus}],
         UNCHANGED <<processes, current, cpu, switch, free, lost, mode>>
  PROVE  IInv'
<1>1. current \in ThreadIds /\ Schedulable(threads[current]) /\ threads[current].state = "Running"
  BY CurrentSchedulable
<1>2. TablesInv(threads', processes')
  BY <1>1, RestateKeepsTables DEF IInv, Schedulable
<1>3. /\ threads'[current].proc = threads[current].proc
      /\ \A t \in ThreadIds : threads'[t].state = threads[t].state
  BY <1>1 DEF IInv, Types
<1>4. CpuInv'
  BY <1>3 DEF IInv, CpuInv
<1>5. QED
  BY <1>2, <1>4 DEF IInv, Types, NeverStuck, TablesInv

LEMMA ResumeStep ==
  ASSUME IInv, Resume
  PROVE  IInv'
<1>1. /\ mode = "run" /\ cpu.on = current
      /\ threads' = [threads EXCEPT ![current].pc = "run"]
      /\ UNCHANGED <<processes, current, cpu, switch, free, lost, rax, mode>>
  BY DEF Resume, Executing, IInv, CpuInv
<1> DEFINE rec == [threads[current] EXCEPT !.pc = "run"]
<1>2. threads[current] \in ThreadRecord /\ threads[current].state = "Running"
      /\ current \in ThreadIds
  BY <1>1, CurrentSchedulable
<1>3. /\ rec \in ThreadRecord /\ rec.state = "Running"
      /\ rec.proc = threads[current].proc /\ rec.reason = threads[current].reason
  BY <1>2 DEF ThreadRecord
<1>4. threads' = [threads EXCEPT ![current] = rec]
  BY <1>1
<1>5. rax' \in [ThreadIds -> 0..UsizeMax \cup {NoStatus}]
  BY <1>1 DEF IInv, Types
<1> HIDE DEF rec
<1>6. QED
  BY <1>1, <1>3, <1>4, <1>5, RestatedCurrent

LEMMA ReturnStep ==
  ASSUME IInv, ReturnFromWait
  PROVE  IInv'
<1>1. /\ mode = "run" /\ cpu.on = current
      /\ threads' = [threads EXCEPT ![current].result = NoStatus, ![current].pc = "run"]
      /\ UNCHANGED <<processes, current, cpu, switch, free, lost, mode>>
  BY DEF ReturnFromWait, Executing, IInv, CpuInv
<1> DEFINE rec == [threads[current] EXCEPT !.result = NoStatus, !.pc = "run"]
           code == IF threads[current].result = NoStatus
                   THEN RESOURCE_UNAVAILABLE ELSE threads[current].result
<1>2. threads[current] \in ThreadRecord /\ threads[current].state = "Running"
      /\ current \in ThreadIds
  BY <1>1, CurrentSchedulable
<1>3. /\ rec \in ThreadRecord /\ rec.state = "Running"
      /\ rec.proc = threads[current].proc /\ rec.reason = threads[current].reason
  BY <1>2 DEF ThreadRecord
<1>4. threads' = [threads EXCEPT ![current] = rec]
  BY <1>1, <1>2 DEF IInv, Types
<1>5. rax' \in [ThreadIds -> 0..UsizeMax \cup {NoStatus}]
  <2>1. code \in 0..UsizeMax
    BY <1>2, CodesAreUsize DEF ThreadRecord
  <2>2. rax' = [rax EXCEPT ![current] = code]
    BY <1>1 DEF ReturnFromWait
  <2> HIDE DEF code
  <2>3. QED BY <2>1, <2>2 DEF IInv, Types
<1> HIDE DEF rec
<1>6. QED
  BY <1>1, <1>3, <1>4, <1>5, RestatedCurrent

LEMMA YieldStep ==
  ASSUME IInv, Executing({"run"}), YieldNow
  PROVE  IInv'
<1>1. mode = "run" /\ UNCHANGED <<cpu, free, lost, rax>>
  BY DEF Executing, YieldNow
<1> DEFINE next == NextRunnable(threads, current)
           rec == [SetState(threads[current], "Runnable") EXCEPT !.pc = "yield"]
           table == [threads EXCEPT ![current] = rec]
<1>2. /\ threads[current] \in ThreadRecord /\ Schedulable(threads[current])
      /\ current \in ThreadIds /\ TablesInv(threads, processes)
      /\ \A t \in ThreadIds : threads[t].state = "Running" <=> t = current
  BY <1>1, CurrentSchedulable DEF IInv, CpuInv
<1>3. next \in ThreadIds /\ Schedulable(threads[next]) /\ next # NoThread
  BY <1>2, TerminalSchedulable, NextRunnableSchedulable
<1>4. CASE next = current
  <2>1. UNCHANGED vars
    BY <1>1, <1>4 DEF YieldNow, vars
  <2>2. QED BY <2>1 DEF vars, IInv, Types, NeverStuck, TablesInv, SlotsInv, KernelInv, WaitInv, CpuInv
<1>5. CASE next # current
  <2>1. ResumeThread(table, processes, next, {}, FALSE)
    BY <1>3, <1>5 DEF YieldNow
  <2>2. /\ rec \in ThreadRecord /\ rec.state = "Runnable"
        /\ rec.proc = threads[current].proc /\ rec.reason = threads[current].reason
    BY <1>2 DEF ThreadRecord, SetState
  <2> HIDE DEF rec, next
  <2>3. TablesInv(table, processes)
    BY <1>2, <2>2, RestateKeepsTables DEF Schedulable
  <2>4. /\ Schedulable(table[next])
        /\ \A t \in ThreadIds : table[t].state # "Running"
    BY <1>2, <1>3, <1>5, <2>2 DEF TablesInv
  <2> HIDE DEF table
  <2>5. /\ TablesInv(threads', processes') /\ current' \in ThreadIds
        /\ switch' \in SwitchRecord /\ mode' = "run" /\ CpuInv'
    BY <1>3, <2>1, <2>3, <2>4, ResumeThreadStep
  <2>6. QED
    BY <1>1, <2>5 DEF IInv, Types, NeverStuck, TablesInv
<1>6. QED
  BY <1>4, <1>5

-----------------------------------------------------------------------------
(* A spawn that does not switch changes the answer and at most moves pages *)
(* from the allocator to the lost ones.                                    *)
LEMMA AnsweredStep ==
  ASSUME IInv, mode = "run", NEW code \in 0..UsizeMax, Reply(code),
         free' \subseteq free, lost' \subseteq lost \cup free,
         UNCHANGED <<processes, threads, current, cpu, switch, mode>>
  PROVE  IInv'
<1>1. rax' \in [ThreadIds -> 0..UsizeMax \cup {NoStatus}]
  <2>1. cpu.on \in ThreadIds \cup {NoThread}
    BY DEF IInv, Types
  <2>2. QED BY <2>1 DEF Reply, IInv, Types
<1>2. CpuInv'
  BY DEF IInv, CpuInv
<1>3. QED
  BY <1>1, <1>2 DEF IInv, Types, NeverStuck, TablesInv

LEMMA SpawnRefusedStep ==
  ASSUME IInv, SpawnRefused
  PROVE  IInv'
<1>1. PICK code \in SpawnErrors, gone \in SUBSET free :
        Reply(code) /\ free' = free \ gone /\ lost' = lost \cup gone
  BY DEF SpawnRefused
<1>2. mode = "run" /\ UNCHANGED <<processes, threads, current, cpu, switch, mode>>
  BY DEF SpawnRefused, Executing
<1>3. QED
  BY <1>1, <1>2, CodesAreUsize, AnsweredStep

(* Undoing the installation of a child restores its slot.                  *)
LEMMA SpawnUnplacedStep ==
  ASSUME IInv, NEW silent \in BOOLEAN, SpawnUnplaced(silent)
  PROVE  IInv'
<1> DEFINE slot == First(FreeProcessSlots)
<1>1. /\ mode = "run" /\ Reply(RESOURCE_UNAVAILABLE)
      /\ UNCHANGED <<threads, current, cpu, switch, free, lost, mode>>
  BY DEF SpawnUnplaced, Executing
<1>2. CASE UNCHANGED processes
  BY <1>1, <1>2, CodesAreUsize, AnsweredStep
<1>3. CASE processes' # processes
  <2>1. PICK prog \in Programs(free) :
          /\ FreeProcessSlots # {} /\ FreeThreadSlots = {}
          /\ processes' = DropProcess(
               [processes EXCEPT ![slot] =
                  ChildProcess(processes[threads[current].proc], prog, current, silent)], slot)
    BY <1>3 DEF SpawnUnplaced, CanSpawn
  <2>2. slot \in ProcessIds /\ ~processes[slot].live
    <3>1. FreeProcessSlots \in SUBSET Nat
      BY SchedulerAssumption DEF FreeProcessSlots, ProcessIds
    <3>2. slot \in FreeProcessSlots  BY <2>1, <3>1, FirstIsLeast
    <3>3. QED BY <3>2 DEF FreeProcessSlots
  <2> HIDE DEF slot
  <2>3. /\ FreeProcess \in ProcessRecord /\ ~FreeProcess.live
    BY DEF FreeProcess, ProcessRecord, NoStdio
  <2>4. /\ processes \in [ProcessIds -> ProcessRecord]
        /\ SlotsInv(threads, processes) /\ KernelInv(threads, processes)
        /\ WaitInv(threads, processes) /\ current \in ThreadIds
        /\ threads[current].state = "Running"
        /\ KernelProcess \in ProcessIds
    <3>1. KernelProcess \in ProcessIds
      BY SchedulerAssumption DEF KernelProcess, ProcessIds
    <3>2. QED BY <1>1, <3>1, CurrentSchedulable DEF IInv, TablesInv
  <2>5. /\ processes' \in [ProcessIds -> ProcessRecord]
        /\ ~processes'[slot].live
        /\ \A p \in ProcessIds \ {slot} : processes'[p] = processes[p]
    <3>1. processes' = [processes EXCEPT ![slot] = FreeProcess]
      BY <2>1, <2>2, <2>4 DEF DropProcess
    <3>2. QED BY <2>2, <2>3, <2>4, <3>1
  <2>6. SlotsInv(threads, processes')
    BY <2>2, <2>4, <2>5 DEF SlotsInv
  <2>7. KernelInv(threads, processes')
    BY <2>2, <2>4, <2>5 DEF KernelInv
  <2>8. WaitInv(threads, processes')
    BY <2>2, <2>4, <2>5 DEF WaitInv
  <2>9. TablesInv(threads', processes')
    BY <1>1, <2>5, <2>6, <2>7, <2>8 DEF IInv, TablesInv
  <2>10. CpuInv'
    <3>1. processes'[threads[current].proc] = processes[threads[current].proc]
      BY <2>2, <2>4, <2>5 DEF SlotsInv
    <3>2. QED BY <1>1, <3>1 DEF IInv, CpuInv
  <2>11. rax' \in [ThreadIds -> 0..UsizeMax \cup {NoStatus}]
    BY <1>1, CodesAreUsize DEF Reply, IInv, Types
  <2>12. QED
    BY <1>1, <2>9, <2>10, <2>11 DEF IInv, Types, NeverStuck, TablesInv
<1>4. QED
  BY <1>2, <1>3

LEMMA SpawnChildStep ==
  ASSUME IInv, NEW silent \in BOOLEAN, SpawnChild(silent)
  PROVE  IInv'
<1> DEFINE parent == processes[threads[current].proc]
           slot == First(FreeProcessSlots)
           main == First(FreeThreadSlots)
           table == [threads EXCEPT ![main] = NewThread(slot),
                                    ![current] = BlockForChild(@, slot)]
           next == NextRunnable(table, current)
<1>1. /\ mode = "run" /\ cpu.on = current /\ threads[current].proc # KernelProcess
      /\ FreeProcessSlots # {} /\ FreeThreadSlots # {}
      /\ UNCHANGED <<cpu, lost>>
  BY DEF SpawnChild, Executing, IsUser, CanSpawn, IInv, CpuInv
<1>2. slot \in ProcessIds /\ ~processes[slot].live
  <2>1. FreeProcessSlots \in SUBSET Nat
    BY SchedulerAssumption DEF FreeProcessSlots, ProcessIds
  <2>2. slot \in FreeProcessSlots  BY <1>1, <2>1, FirstIsLeast
  <2>3. QED BY <2>2 DEF FreeProcessSlots
<1>3. main \in ThreadIds /\ threads[main].state = "Free"
  <2>1. FreeThreadSlots \in SUBSET Nat
    BY SchedulerAssumption DEF FreeThreadSlots, ThreadIds
  <2>2. main \in FreeThreadSlots  BY <1>1, <2>1, FirstIsLeast
  <2>3. QED BY <2>2 DEF FreeThreadSlots
<1>4. /\ TablesInv(threads, processes) /\ current \in ThreadIds
      /\ Schedulable(threads[current]) /\ threads[current] \in ThreadRecord
      /\ threads[current].proc \in ProcessIds
      /\ threads \in [ThreadIds -> ThreadRecord] /\ processes \in [ProcessIds -> ProcessRecord]
      /\ \A t \in ThreadIds : threads[t].state = "Running" <=> t = current
  BY <1>1, CurrentSchedulable DEF IInv, CpuInv, Types
<1>5. PICK prog \in Programs(free) :
        LET procs == [processes EXCEPT ![slot] = ChildProcess(parent, prog, current, silent)]
        IN  /\ free' = free \ prog.pages
            /\ next # NoThread => /\ ResumeThread(table, procs, next, {}, FALSE)
                                  /\ rax' = [rax EXCEPT ![main] = NoStatus]
  BY DEF SpawnChild
<1> DEFINE child == ChildProcess(parent, prog, current, silent)
           procs == [processes EXCEPT ![slot] = child]
<1>6. /\ child \in ProcessRecord /\ child.live /\ child.waiting = current
      /\ child.action = "Continue"
  <2>1. prog.root \in Pages /\ prog.pages \in SUBSET Pages
    BY DEF Programs, IInv, Types
  <2>2. parent \in ProcessRecord  BY <1>4
  <2> HIDE DEF parent
  <2>3. parent.stdio \in [Fds -> {"none", "terminal", "null"}]
    BY <2>2 DEF ProcessRecord
  <2>4. InheritStdio(parent, silent) \in [Fds -> {"none", "terminal", "null"}]
    BY <2>3 DEF InheritStdio
  <2>5. QED BY <1>4, <2>1, <2>4 DEF ChildProcess, ProcessRecord
<1> HIDE DEF slot, main, child
<1>7. TablesInv(table, procs)
  BY <1>1, <1>2, <1>3, <1>4, <1>6, SpawnKeepsTables
<1>8. next \in ThreadIds /\ Schedulable(table[next]) /\ next # NoThread
  <2> HIDE DEF table
  <2>1. QED BY <1>4, <1>7, TerminalSchedulable, NextRunnableSchedulable
<1>9. \A t \in ThreadIds : table[t].state # "Running"
  <2>1. NewThread(slot).state = "Runnable"
    BY DEF NewThread
  <2>2. BlockForChild(threads[current], slot).state = "Blocked"
    BY <1>4 DEF BlockForChild, ThreadRecord
  <2>3. current # main  BY <1>3, <1>4 DEF Schedulable
  <2>4. QED BY <1>3, <1>4, <2>1, <2>2, <2>3
<1>10. ResumeThread(table, procs, next, {}, FALSE) /\ rax' = [rax EXCEPT ![main] = NoStatus]
  BY <1>5, <1>8 DEF child
<1> HIDE DEF table, procs, next
<1>11. /\ TablesInv(threads', processes') /\ current' \in ThreadIds
       /\ switch' \in SwitchRecord /\ mode' = "run" /\ CpuInv'
  BY <1>7, <1>8, <1>9, <1>10, ResumeThreadStep
<1>12. rax' \in [ThreadIds -> 0..UsizeMax \cup {NoStatus}] /\ free' \subseteq Pages
  BY <1>5, <1>10 DEF IInv, Types
<1>13. QED
  BY <1>1, <1>11, <1>12 DEF IInv, Types, NeverStuck, TablesInv

-----------------------------------------------------------------------------
LEMMA ExitStep ==
  ASSUME IInv, Executing({"run"}), IsUser(cpu.on), NEW status \in ExitStatuses,
         ExitShutdown(status) \/ ExitContinue(status)
  PROVE  IInv'
<1> DEFINE p == threads[current].proc
<1>1. /\ mode = "run" /\ p # KernelProcess /\ p \in ProcessIds
      /\ TablesInv(threads, processes) /\ current \in ThreadIds
      /\ Schedulable(threads[current]) /\ threads[current].state = "Running"
      /\ threads \in [ThreadIds -> ThreadRecord] /\ processes \in [ProcessIds -> ProcessRecord]
      /\ \A t \in ThreadIds : threads[t].state = "Running" <=> t = current
  BY CurrentSchedulable DEF Executing, IsUser, IInv, CpuInv, Types
<1>2. /\ processes[p].live
      /\ processes[p].action = "Continue" <=> processes[p].waiting # NoThread
      /\ processes[p].waiting \in ThreadIds \cup {NoThread}
      /\ processes[p].owned \in SUBSET Pages
  <2>1. processes[p].live
    BY <1>1 DEF TablesInv, SlotsInv
  <2>2. processes[p] \in ProcessRecord  BY <1>1
  <2>3. processes[p].waiting \in ThreadIds \cup {NoThread} /\ processes[p].owned \in SUBSET Pages
    BY <2>2 DEF ProcessRecord
  <2>4. QED BY <1>1, <2>1, <2>3 DEF TablesInv, WaitInv
<1>3. CASE ExitShutdown(status)
  <2>1. /\ processes[p].action = "ShutdownSystem"
        /\ threads' = RemoveThread(threads, current)
        /\ processes' = DropProcess(processes, p)
        /\ lost' = lost \cup processes[p].owned
        /\ current' = NoThread /\ mode' = "off"
        /\ UNCHANGED <<cpu, switch, free, rax>>
    BY <1>3 DEF ExitShutdown, ExitingPages
  <2>2. TablesInv(threads', processes')
    BY <1>1, <1>2, <2>1, ShutdownKeepsTables
  <2>3. \A t \in ThreadIds : threads'[t].state # "Running" /\ t # NoThread
    <3>1. FreeThread.state = "Free"  BY DEF FreeThread
    <3>2. NoThread \notin ThreadIds  BY SchedulerAssumption DEF NoThread, ThreadIds
    <3>3. QED BY <1>1, <2>1, <3>1, <3>2 DEF RemoveThread
  <2>4. CpuInv'
    BY <2>1, <2>3 DEF CpuInv
  <2>5. QED
    BY <1>2, <2>1, <2>2, <2>4 DEF IInv, Types, NeverStuck, TablesInv
<1>4. CASE ExitContinue(status)
  <2> DEFINE waiter == processes[p].waiting
             rest == RemoveThread(threads, current)
             table == [rest EXCEPT ![waiter] = WakeWithResult(@, status)]
             procs == DropProcess(processes, p)
  <2>1. waiter \in ThreadIds /\ waiter # NoThread
    BY <1>2, <1>4 DEF ExitContinue
  <2>2. /\ waiter # current /\ rest[waiter].state # "Free"
        /\ Schedulable(table[waiter]) /\ TablesInv(table, procs)
    BY <1>1, <2>1, ExitKeepsTables
  <2>3. ResumeThread(table, procs, waiter, ExitingPages(p), TRUE)
        /\ UNCHANGED <<cpu, free, lost, rax>>
    BY <1>4, <2>1, <2>2 DEF ExitContinue
  <2>4. ExitingPages(p) \in SUBSET Pages
    BY <1>2 DEF ExitingPages
  <2>5. \A t \in ThreadIds : table[t].state # "Running"
    <3>1. FreeThread.state = "Free"  BY DEF FreeThread
    <3>2. threads[waiter] \in ThreadRecord  BY <1>1, <2>1
    <3>3. WakeWithResult(threads[waiter], status).state = "Runnable"
      BY <3>2 DEF WakeWithResult, ThreadRecord
    <3>4. rest[waiter] = threads[waiter] /\ rest[current] = FreeThread
          /\ rest \in [ThreadIds -> ThreadRecord \cup {FreeThread}]
          /\ \A t \in ThreadIds \ {current} : rest[t] = threads[t]
      BY <1>1, <2>1, <2>2 DEF RemoveThread
    <3> HIDE DEF rest, waiter
    <3>5. QED BY <1>1, <2>1, <2>2, <3>1, <3>3, <3>4
  <2> HIDE DEF table, procs, waiter
  <2>6. /\ TablesInv(threads', processes') /\ current' \in ThreadIds
        /\ switch' \in SwitchRecord /\ mode' = "run" /\ CpuInv'
    BY <2>1, <2>2, <2>3, <2>4, <2>5, ResumeThreadStep
  <2>7. QED
    BY <2>3, <2>6 DEF IInv, Types, NeverStuck, TablesInv
<1>5. QED
  BY <1>3, <1>4

-----------------------------------------------------------------------------
LEMMA NextIInv == IInv /\ [Next]_vars => IInv'
<1> SUFFICES ASSUME IInv, [Next]_vars PROVE IInv'
  OBVIOUS
<1>1. CASE Start
  BY <1>1, StartStep
<1>2. CASE Activate \/ Release \/ ContextSwitch
  BY <1>2, SwitchStep
<1>3. CASE Resume
  BY <1>3, ResumeStep
<1>4. CASE ReturnFromWait
  BY <1>4, ReturnStep
<1>5. CASE KernelYield \/ UserYield
  BY <1>5, YieldStep DEF KernelYield, UserYield
<1>6. CASE SpawnRefused
  BY <1>6, SpawnRefusedStep
<1>7. CASE \E silent \in BOOLEAN : SpawnUnplaced(silent) \/ SpawnChild(silent)
  BY <1>7, SpawnUnplacedStep, SpawnChildStep
<1>8. CASE Exit
  BY <1>8, ExitStep DEF Exit, ExitWith
<1>9. CASE UserTrap
  BY <1>9, ExitStep, SchedulerAssumption DEF UserTrap, ExitWith
<1>10. CASE UNCHANGED vars
  BY <1>10 DEF vars, IInv, Types, NeverStuck, TablesInv, SlotsInv, KernelInv, WaitInv, CpuInv
<1>11. QED
  BY <1>1, <1>2, <1>3, <1>4, <1>5, <1>6, <1>7, <1>8, <1>9, <1>10
     DEF Next, KernelStep, UserStep, Stopped

(* The inductive invariant holds in every state of every behaviour.        *)
THEOREM SchedulerInvariant == Spec => []IInv
<1>1. Init => IInv  BY InitIInv
<1>2. IInv /\ [Next]_vars => IInv'  BY NextIInv
<1>3. QED BY <1>1, <1>2, PTL DEF Spec

(* What a step does to the history: only an exit and a return change it.   *)
LEMMA ToldChanges ==
  ASSUME Next
  PROVE  \/ told' = told
         \/ ReturnFromWait /\ told' = [told EXCEPT ![cpu.on] = NoStatus]
         \/ \E status \in ExitStatuses : ExitWith(status) /\ Tell(threads[cpu.on].proc, status)
<1>1. CASE Exit \/ UserTrap
  <2>1. PICK status \in ExitStatuses : ExitWith(status)
    BY <1>1, SchedulerAssumption DEF Exit, UserTrap
  <2> QED  BY <2>1 DEF ExitWith
<1>2. CASE KernelStep
  BY <1>2 DEF KernelStep, Start, Activate, Release, ContextSwitch, Resume, ReturnFromWait,
              KernelYield, YieldNow
<1>3. CASE \E silent \in BOOLEAN : SpawnUnplaced(silent) \/ SpawnChild(silent)
  BY <1>3 DEF SpawnUnplaced, SpawnChild
<1>4. CASE UserYield \/ SpawnRefused \/ Stopped
  BY <1>4 DEF UserYield, YieldNow, SpawnRefused, Stopped, vars
<1> QED  BY <1>1, <1>2, <1>3, <1>4 DEF Next, UserStep

ToldTyped == told \in [ThreadIds -> ExitStatuses \cup {NoStatus}]

(* Every variable keeps its type, for every table size: in particular the  *)
(* slot and thread ids the tables hold never leave the tables; and a       *)
(* thread has a block_reason exactly while it is Blocked.                  *)
THEOREM TypeCorrect == Spec => []TypeOK
<1>1. Init => ToldTyped
  BY DEF Init, ToldTyped
<1>2. ToldTyped /\ [Next]_vars => ToldTyped'
  <2> SUFFICES ASSUME ToldTyped, [Next]_vars PROVE ToldTyped'
    OBVIOUS
  <2>1. CASE UNCHANGED vars
    BY <2>1 DEF vars, ToldTyped
  <2>2. CASE Next
    BY <2>2, ToldChanges DEF Tell, ToldTyped
  <2> QED  BY <2>1, <2>2
<1>3. IInv /\ ToldTyped => TypeOK
  <2> SUFFICES ASSUME IInv, ToldTyped, NEW t \in ThreadIds
               PROVE  threads[t].state = "Blocked" <=> threads[t].reason # NoProcess
    BY DEF TypeOK, IInv, ToldTyped
  <2>1. threads[t].state = "Blocked" <=> threads[t].reason \in ProcessIds
    BY DEF IInv, TablesInv, SlotsInv
  <2>2. threads[t].reason \in ProcessIds \cup {NoProcess} /\ NoProcess \notin ProcessIds
    BY SchedulerAssumption DEF IInv, Types, ThreadRecord, ProcessIds, NoProcess
  <2> QED  BY <2>1, <2>2
<1> QED  BY <1>1, <1>2, <1>3, SchedulerInvariant, PTL DEF Spec

(* No expect() on an empty slot fails and no halt_forever() of a scheduler *)
(* without a runnable thread is reached (state.rs thread_mut, process_mut, *)
(* activation; core.rs start, exit_current_process).                       *)
THEOREM SchedulerNeverStuck == Spec => []NeverStuck
<1>1. IInv => NeverStuck  BY DEF IInv
<1>2. QED BY <1>1, SchedulerInvariant, PTL

(* Blocked threads and live processes with a waiting thread correspond one *)
(* to one: no wake-up of spawn_wait is lost or misdirected.                *)
THEOREM WaitersCorrect == Spec => []WaitersMatch
<1>1. IInv => WaitersMatch  BY DEF IInv, TablesInv, WaitInv, WaitersMatch
<1>2. QED BY <1>1, SchedulerInvariant, PTL

(* Between switches CR3, TSS.rsp0 and the executing stack are those of the *)
(* current thread, which is the only Running one.                          *)
THEOREM CpuCorrect == Spec => []CpuFollowsScheduler
<1>1. IInv => CpuFollowsScheduler  BY DEF IInv, CpuInv, CpuFollowsScheduler
<1>2. QED BY <1>1, SchedulerInvariant, PTL

-----------------------------------------------------------------------------
(* What the scheduler does to processes: their pages, their output, which  *)
(* of them runs and what their parents are told.  Given that the tables    *)
(* are consistent, every step is first brought to one of five effects on   *)
(* them, and the invariants follow effect by effect.                       *)

(* The thread goes on as it was, but may have been given the CPU or lost   *)
(* it, and is not brought into a wait or out of one.                       *)
Like(new, old) ==
  /\ new.proc = old.proc /\ new.reason = old.reason /\ new.result = old.result
  /\ new.pc = "wait" <=> old.pc = "wait"
  /\ Schedulable(new) <=> Schedulable(old)
  /\ new.state = "Free" <=> old.state = "Free"
  /\ new.state = "Blocked" <=> old.state = "Blocked"

(* No process begins or ends.                                              *)
Stays ==
  /\ processes' = processes
  /\ mode' = "run"
  /\ \A t \in ThreadIds : Like(threads'[t], threads[t])

(* The current thread takes its wait result.                               *)
Returns ==
  /\ processes' = processes
  /\ mode' = "run"
  /\ Like(threads'[current], [threads[current] EXCEPT !.result = NoStatus, !.pc = "run"])
  /\ \A t \in ThreadIds \ {current} : Like(threads'[t], threads[t])

(* A child begins on slot and main, and the current thread waits for it.   *)
Begins(slot, main, prog, silent) ==
  /\ slot \in ProcessIds /\ ~processes[slot].live
  /\ main \in ThreadIds /\ threads[main].state = "Free"
  /\ prog.root \in prog.pages /\ prog.pages \subseteq free
  /\ processes' =
       [processes EXCEPT ![slot] =
          ChildProcess(processes[threads[current].proc], prog, current, silent)]
  /\ mode' = "run"
  /\ Like(threads'[main], NewThread(slot))
  /\ Like(threads'[current], BlockForChild(threads[current], slot))
  /\ \A t \in ThreadIds \ {main, current} : Like(threads'[t], threads[t])

(* The current process ends, and the thread that waits for it is woken.    *)
Ends(waiter, status) ==
  /\ waiter = processes[threads[current].proc].waiting
  /\ waiter \in ThreadIds /\ waiter # current /\ status \in ExitStatuses
  /\ processes' = DropProcess(processes, threads[current].proc)
  /\ mode' = "run"
  /\ threads'[current] = FreeThread
  /\ Like(threads'[waiter], WakeWithResult(threads[waiter], status))
  /\ \A t \in ThreadIds \ {waiter, current} : Like(threads'[t], threads[t])

(* The first process ends, and the session with it.                        *)
Finishes ==
  /\ processes[threads[current].proc].action = "ShutdownSystem"
  /\ processes' = DropProcess(processes, threads[current].proc)
  /\ threads' = RemoveThread(threads, current)
  /\ mode' = "off"

-----------------------------------------------------------------------------
(* A slot without a process is as good as new.                             *)
DeadInv == \A p \in ProcessIds : ~processes[p].live => processes[p] = FreeProcess

(* Output is nulled on both descriptors or on none, or a child started     *)
(* normally from a silent parent would be heard on one.                    *)
SilenceInv ==
  /\ SilenceInherited
  /\ \A p \in Owners \ {KernelProcess} :
       processes[p].stdio[1] = "null" => processes[p].stdio[2] = "null"

(* While the session lasts some user thread is not waiting, and no process *)
(* is without its thread.                                                  *)
RunsInv ==
  mode \in {"boot", "run"} =>
    /\ \E t \in ThreadIds : Schedulable(threads[t]) /\ IsUser(t)
    /\ \A p \in Owners \ {KernelProcess} : \E t \in ThreadIds : threads[t].proc = p

(* A thread that goes on after a wait was woken with a status.             *)
AnswerInv ==
  \A t \in ThreadIds :
    Schedulable(threads[t]) /\ threads[t].pc = "wait" => threads[t].result \in ExitStatuses

(* A switch carries pages only from the exit that made it until it         *)
(* releases them.                                                          *)
PagesInv ==
  /\ PagesAccounted
  /\ switch.phase \in {"none", "jump"} \/ ~switch.exit => switch.pages = {}

SessionInv == DeadInv /\ SilenceInv /\ RunsInv /\ AnswerInv
ProcessInv == SessionInv /\ PagesInv

-----------------------------------------------------------------------------
(* The common tail of the switching operations, as an effect.              *)
LEMMA ResumeThreadEffect ==
  ASSUME NEW table, NEW procs, TablesInv(table, procs),
         NEW next \in ThreadIds, Schedulable(table[next]),
         NEW pages, NEW exit, ResumeThread(table, procs, next, pages, exit)
  PROVE  /\ processes' = procs /\ mode' = "run"
         /\ switch' = [phase |-> "activate", next |-> next,
                       space |-> procs[table[next].proc].space, pages |-> pages, exit |-> exit]
         /\ \A t \in ThreadIds : Like(threads'[t], table[t])
<1>1. Activatable(table, procs, next)
  BY RunKeepsTables
<1>2. /\ threads' = [table EXCEPT ![next] = SetState(@, "Running")]
      /\ processes' = procs /\ mode' = "run"
      /\ switch' = [phase |-> "activate", next |-> next,
                    space |-> procs[table[next].proc].space, pages |-> pages, exit |-> exit]
  BY <1>1 DEF ResumeThread
<1>3. table \in [ThreadIds -> ThreadRecord] /\ table[next] \in ThreadRecord
  BY DEF TablesInv
<1>4. Like(SetState(table[next], "Running"), table[next])
  BY <1>3 DEF Like, SetState, Schedulable, ThreadRecord
<1>5. \A t \in ThreadIds : Like(threads'[t], table[t])
  BY <1>2, <1>3, <1>4 DEF Like
<1> QED
  BY <1>2, <1>5

(* The current thread of a user's system call, and its process.            *)
LEMMA Caller ==
  ASSUME IInv, Executing({"run"}), IsUser(cpu.on)
  PROVE  /\ mode = "run" /\ switch.phase = "none" /\ cpu.on = current
         /\ current \in ThreadIds /\ threads[current] \in ThreadRecord
         /\ threads[current].state = "Running" /\ Schedulable(threads[current])
         /\ threads[current].proc \in ProcessIds \ {KernelProcess}
         /\ processes[threads[current].proc] \in ProcessRecord
         /\ processes[threads[current].proc].live
<1>1. mode = "run" /\ switch.phase = "none" /\ cpu.on = current
  BY DEF Executing, IInv, CpuInv
<1>2. /\ current \in ThreadIds /\ threads[current] \in ThreadRecord
      /\ threads[current].state = "Running" /\ Schedulable(threads[current])
      /\ threads[current].proc \in ProcessIds
  BY <1>1, CurrentSchedulable
<1>3. processes[threads[current].proc] \in ProcessRecord /\ processes[threads[current].proc].live
  BY <1>2 DEF IInv, Types, TablesInv, SlotsInv
<1> QED
  BY <1>1, <1>2, <1>3 DEF IsUser

LEMMA StartEffect ==
  ASSUME IInv, Start
  PROVE  Stays /\ switch'.pages = {} /\ switch'.exit = FALSE /\ switch.pages = {}
<1>1. mode = "boot" /\ current = NoThread /\ TablesInv(threads, processes) /\ switch = NoSwitch
  BY DEF Start, IInv, CpuInv
<1> DEFINE next == NextRunnable(threads, NoThread)
<1>2. next \in ThreadIds /\ Schedulable(threads[next]) /\ next # NoThread
  BY <1>1, TerminalSchedulable, NextRunnableSchedulable
<1>3. ResumeThread(threads, processes, next, {}, FALSE)
  BY <1>2 DEF Start
<1> HIDE DEF next
<1>4. /\ processes' = processes /\ mode' = "run"
      /\ switch' = [phase |-> "activate", next |-> next,
                    space |-> processes[threads[next].proc].space, pages |-> {}, exit |-> FALSE]
      /\ \A t \in ThreadIds : Like(threads'[t], threads[t])
  BY <1>1, <1>2, <1>3, ResumeThreadEffect
<1> QED
  BY <1>1, <1>4 DEF Stays, NoSwitch

LEMMA SwitchEffect ==
  ASSUME IInv, Activate \/ Release \/ ContextSwitch
  PROVE  Stays /\ UNCHANGED <<threads, lost, rax>>
BY DEF Activate, Release, ContextSwitch, Stays, Like

LEMMA ResumeEffect ==
  ASSUME IInv, Resume
  PROVE  Stays /\ UNCHANGED <<cpu, switch, free, lost, rax>>
<1>1. /\ mode = "run" /\ cpu.on = current /\ threads[current].pc # "wait"
      /\ threads' = [threads EXCEPT ![current].pc = "run"]
      /\ UNCHANGED <<processes, current, cpu, switch, free, lost, rax, mode>>
  BY DEF Resume, Executing, IInv, CpuInv
<1>2. current \in ThreadIds /\ threads[current] \in ThreadRecord
  BY <1>1, CurrentSchedulable
<1>3. Like([threads[current] EXCEPT !.pc = "run"], threads[current])
  BY <1>1, <1>2 DEF Like, Schedulable, ThreadRecord
<1>4. \A t \in ThreadIds : Like(threads'[t], threads[t])
  BY <1>1, <1>2, <1>3 DEF Like, IInv, Types
<1> QED
  BY <1>1, <1>4 DEF Stays

LEMMA ReturnEffect ==
  ASSUME IInv, ReturnFromWait
  PROVE  /\ Returns /\ UNCHANGED <<cpu, switch, free, lost>>
         /\ mode = "run" /\ cpu.on = current /\ threads[current].pc = "wait"
         /\ current \in ThreadIds /\ Schedulable(threads[current])
<1>1. /\ mode = "run" /\ cpu.on = current /\ threads[current].pc = "wait"
      /\ threads' = [threads EXCEPT ![current].result = NoStatus, ![current].pc = "run"]
      /\ UNCHANGED <<processes, current, cpu, switch, free, lost, mode>>
  BY DEF ReturnFromWait, Executing, IInv, CpuInv
<1>2. current \in ThreadIds /\ threads[current] \in ThreadRecord /\ Schedulable(threads[current])
  BY <1>1, CurrentSchedulable
<1>3. /\ threads'[current] = [threads[current] EXCEPT !.result = NoStatus, !.pc = "run"]
      /\ \A t \in ThreadIds \ {current} : threads'[t] = threads[t]
  BY <1>1, <1>2 DEF IInv, Types
<1> QED
  BY <1>1, <1>2, <1>3 DEF Returns, Like

LEMMA YieldEffect ==
  ASSUME IInv, Executing({"run"}), YieldNow
  PROVE  /\ Stays /\ UNCHANGED <<cpu, free, lost, rax>>
         /\ UNCHANGED switch \/ (switch'.pages = {} /\ switch'.exit = FALSE)
         /\ switch.phase = "none"
<1>1. /\ mode = "run" /\ switch.phase = "none" /\ UNCHANGED <<cpu, free, lost, rax>>
      /\ current \in ThreadIds /\ threads[current] \in ThreadRecord
      /\ threads[current].pc = "run"
      /\ Schedulable(threads[current]) /\ TablesInv(threads, processes)
  BY CurrentSchedulable DEF Executing, YieldNow, IInv, CpuInv
<1> DEFINE next == NextRunnable(threads, current)
           rec == [SetState(threads[current], "Runnable") EXCEPT !.pc = "yield"]
           table == [threads EXCEPT ![current] = rec]
<1>2. next \in ThreadIds /\ Schedulable(threads[next]) /\ next # NoThread
  BY <1>1, TerminalSchedulable, NextRunnableSchedulable
<1>3. CASE next = current
  BY <1>1, <1>3 DEF YieldNow, Stays, Like
<1>4. CASE next # current
  <2>1. ResumeThread(table, processes, next, {}, FALSE)
    BY <1>2, <1>4 DEF YieldNow
  <2>2. /\ rec \in ThreadRecord /\ Schedulable(rec) /\ Like(rec, threads[current])
        /\ rec.proc = threads[current].proc /\ rec.reason = threads[current].reason
    BY <1>1 DEF ThreadRecord, SetState, Schedulable, Like
  <2> HIDE DEF rec, next
  <2>3. TablesInv(table, processes)
    BY <1>1, <2>2, RestateKeepsTables
  <2>4. /\ Schedulable(table[next])
        /\ \A t \in ThreadIds : Like(table[t], threads[t])
    BY <1>1, <1>2, <1>4, <2>2 DEF TablesInv, Like
  <2> HIDE DEF table
  <2>5. /\ processes' = processes /\ mode' = "run"
        /\ switch' = [phase |-> "activate", next |-> next,
                      space |-> processes[table[next].proc].space, pages |-> {}, exit |-> FALSE]
        /\ \A t \in ThreadIds : Like(threads'[t], table[t])
    BY <1>2, <2>1, <2>3, <2>4, ResumeThreadEffect
  <2> QED
    BY <1>1, <2>4, <2>5 DEF Stays, Like
<1> QED
  BY <1>3, <1>4

LEMMA SpawnRefusedEffect ==
  ASSUME IInv, SpawnRefused
  PROVE  /\ Stays /\ UNCHANGED <<threads, cpu, switch>>
         /\ \E gone \in SUBSET free : free' = free \ gone /\ lost' = lost \cup gone
BY DEF SpawnRefused, Executing, Stays, Like

(* The slot of the child that found no thread is empty again.              *)
LEMMA SpawnUnplacedEffect ==
  ASSUME IInv, DeadInv, NEW silent \in BOOLEAN, SpawnUnplaced(silent)
  PROVE  Stays /\ UNCHANGED <<threads, cpu, switch, free, lost>> /\ Reply(RESOURCE_UNAVAILABLE)
<1> DEFINE slot == First(FreeProcessSlots)
<1>1. /\ mode = "run" /\ Reply(RESOURCE_UNAVAILABLE)
      /\ UNCHANGED <<threads, current, cpu, switch, free, lost, mode>>
  BY DEF SpawnUnplaced, Executing
<1>2. processes' = processes
  <2>1. SUFFICES ASSUME processes' # processes PROVE FALSE
    OBVIOUS
  <2>2. PICK prog \in Programs(free) :
          /\ FreeProcessSlots # {}
          /\ processes' = DropProcess(
               [processes EXCEPT ![slot] =
                  ChildProcess(processes[threads[current].proc], prog, current, silent)], slot)
    BY <2>1 DEF SpawnUnplaced, CanSpawn
  <2>3. slot \in ProcessIds /\ processes[slot] = FreeProcess
    <3>1. FreeProcessSlots \in SUBSET Nat
      BY SchedulerAssumption DEF FreeProcessSlots, ProcessIds
    <3>2. slot \in FreeProcessSlots
      BY <2>2, <3>1, FirstIsLeast
    <3> QED
      BY <3>2 DEF FreeProcessSlots, DeadInv
  <2> HIDE DEF slot
  <2>4. processes' = [processes EXCEPT ![slot] = FreeProcess]
    BY <2>2, <2>3 DEF DropProcess, IInv, Types
  <2> QED
    BY <2>1, <2>3, <2>4 DEF IInv, Types
<1> QED
  BY <1>1, <1>2 DEF Stays, Like

LEMMA SpawnChildEffect ==
  ASSUME IInv, NEW silent \in BOOLEAN, SpawnChild(silent)
  PROVE  \E slot, main, prog :
           /\ Begins(slot, main, prog, silent)
           /\ free' = free \ prog.pages
           /\ StdioResolves(processes[threads[current].proc], silent)
           /\ rax' = [rax EXCEPT ![main] = NoStatus]
           /\ UNCHANGED <<cpu, lost>> /\ switch'.pages = {} /\ switch'.exit = FALSE
<1> DEFINE parent == processes[threads[current].proc]
           slot == First(FreeProcessSlots)
           main == First(FreeThreadSlots)
           table == [threads EXCEPT ![main] = NewThread(slot),
                                    ![current] = BlockForChild(@, slot)]
           next == NextRunnable(table, current)
<1>1. /\ Executing({"run"}) /\ IsUser(cpu.on)
      /\ FreeProcessSlots # {} /\ FreeThreadSlots # {} /\ StdioResolves(parent, silent)
      /\ UNCHANGED <<cpu, lost>>
  BY DEF SpawnChild, CanSpawn
<1>2. /\ current \in ThreadIds /\ threads[current] \in ThreadRecord
      /\ Schedulable(threads[current]) /\ threads[current].proc \in ProcessIds \ {KernelProcess}
      /\ parent \in ProcessRecord
      /\ TablesInv(threads, processes) /\ threads \in [ThreadIds -> ThreadRecord]
  BY <1>1, Caller DEF IInv, Types
<1>3. slot \in ProcessIds /\ ~processes[slot].live
  <2>1. FreeProcessSlots \in SUBSET Nat
    BY SchedulerAssumption DEF FreeProcessSlots, ProcessIds
  <2>2. slot \in FreeProcessSlots  BY <1>1, <2>1, FirstIsLeast
  <2> QED BY <2>2 DEF FreeProcessSlots
<1>4. main \in ThreadIds /\ threads[main].state = "Free" /\ main # current
  <2>1. FreeThreadSlots \in SUBSET Nat
    BY SchedulerAssumption DEF FreeThreadSlots, ThreadIds
  <2>2. main \in FreeThreadSlots  BY <1>1, <2>1, FirstIsLeast
  <2> QED BY <2>2, <1>2 DEF FreeThreadSlots, Schedulable
<1>5. PICK prog \in Programs(free) :
        LET procs == [processes EXCEPT ![slot] = ChildProcess(parent, prog, current, silent)]
        IN  /\ free' = free \ prog.pages
            /\ next # NoThread => /\ ResumeThread(table, procs, next, {}, FALSE)
                                  /\ rax' = [rax EXCEPT ![main] = NoStatus]
  BY DEF SpawnChild
<1> DEFINE child == ChildProcess(parent, prog, current, silent)
           procs == [processes EXCEPT ![slot] = child]
<1>6. prog.root \in prog.pages /\ prog.pages \subseteq free /\ prog.pages \subseteq Pages
  BY DEF Programs, IInv, Types
<1>7. /\ child \in ProcessRecord /\ child.live /\ child.waiting = current
      /\ child.action = "Continue"
  <2> HIDE DEF parent
  <2>1. parent.stdio \in [Fds -> {"none", "terminal", "null"}]
    BY <1>2 DEF ProcessRecord
  <2>2. InheritStdio(parent, silent) \in [Fds -> {"none", "terminal", "null"}]
    BY <2>1 DEF InheritStdio
  <2> QED BY <1>2, <1>6, <2>2 DEF ChildProcess, ProcessRecord
<1> HIDE DEF slot, main, child
<1>8. TablesInv(table, procs)
  BY <1>2, <1>3, <1>4, <1>7, SpawnKeepsTables
<1>9. /\ table[main] = NewThread(slot) /\ table[current] = BlockForChild(threads[current], slot)
      /\ \A t \in ThreadIds \ {main, current} : table[t] = threads[t]
  BY <1>2, <1>4
<1>10. next \in ThreadIds /\ Schedulable(table[next]) /\ next # NoThread
  <2> HIDE DEF table
  <2> QED BY <1>2, <1>8, TerminalSchedulable, NextRunnableSchedulable
<1>11. ResumeThread(table, procs, next, {}, FALSE) /\ rax' = [rax EXCEPT ![main] = NoStatus]
  BY <1>5, <1>10 DEF child
<1> HIDE DEF table, procs, next
<1>12. /\ processes' = procs /\ mode' = "run"
       /\ switch' = [phase |-> "activate", next |-> next,
                     space |-> procs[table[next].proc].space, pages |-> {}, exit |-> FALSE]
       /\ \A t \in ThreadIds : Like(threads'[t], table[t])
  BY <1>8, <1>10, <1>11, ResumeThreadEffect
<1>13. /\ Like(threads'[main], NewThread(slot))
       /\ Like(threads'[current], BlockForChild(threads[current], slot))
       /\ \A t \in ThreadIds \ {main, current} : Like(threads'[t], threads[t])
  BY <1>2, <1>4, <1>9, <1>12
<1>14. Begins(slot, main, prog, silent)
  BY <1>3, <1>4, <1>6, <1>12, <1>13 DEF Begins, procs, child
<1>15. switch'.pages = {} /\ switch'.exit = FALSE
  BY <1>12
<1> QED
  BY <1>1, <1>5, <1>11, <1>14, <1>15

LEMMA ExitEffect ==
  ASSUME IInv, Executing({"run"}), IsUser(cpu.on), NEW status \in ExitStatuses,
         ExitShutdown(status) \/ ExitContinue(status)
  PROVE  LET owned == processes[threads[current].proc].owned
         IN  /\ UNCHANGED <<cpu, free, rax>>
             /\ \/ /\ Finishes /\ UNCHANGED switch /\ lost' = lost \cup owned
                \/ /\ \E waiter : Ends(waiter, status)
                   /\ UNCHANGED lost /\ switch'.pages = owned
                   /\ switch'.phase = "activate" /\ switch'.exit = TRUE
<1> DEFINE p == threads[current].proc
<1>1. /\ current \in ThreadIds /\ threads[current] \in ThreadRecord
      /\ Schedulable(threads[current]) /\ p \in ProcessIds \ {KernelProcess}
      /\ processes[p] \in ProcessRecord /\ processes[p].live
      /\ TablesInv(threads, processes) /\ threads \in [ThreadIds -> ThreadRecord]
  BY Caller DEF IInv, Types
<1>2. /\ processes[p].waiting \in ThreadIds \cup {NoThread}
      /\ processes[p].action = "Continue" <=> processes[p].waiting # NoThread
  BY <1>1 DEF TablesInv, WaitInv, ProcessRecord
<1>3. CASE ExitShutdown(status)
  BY <1>3 DEF ExitShutdown, Finishes, ExitingPages
<1>4. CASE ExitContinue(status)
  <2> DEFINE waiter == processes[p].waiting
             rest == RemoveThread(threads, current)
             table == [rest EXCEPT ![waiter] = WakeWithResult(@, status)]
             procs == DropProcess(processes, p)
  <2>1. waiter \in ThreadIds /\ waiter # NoThread
    BY <1>2, <1>4 DEF ExitContinue
  <2>2. /\ waiter # current /\ rest[waiter].state # "Free"
        /\ Schedulable(table[waiter]) /\ TablesInv(table, procs)
    BY <1>1, <2>1, ExitKeepsTables
  <2>3. /\ ResumeThread(table, procs, waiter, processes[p].owned, TRUE)
        /\ UNCHANGED <<cpu, free, lost, rax>>
    BY <1>4, <2>1, <2>2 DEF ExitContinue, ExitingPages
  <2>4. /\ table[current] = FreeThread /\ table[waiter] = WakeWithResult(threads[waiter], status)
        /\ \A t \in ThreadIds \ {waiter, current} : table[t] = threads[t]
    BY <1>1, <2>1, <2>2 DEF RemoveThread
  <2> HIDE DEF table, procs, waiter
  <2>5. /\ processes' = procs /\ mode' = "run"
        /\ switch' = [phase |-> "activate", next |-> waiter,
                      space |-> procs[table[waiter].proc].space,
                      pages |-> processes[p].owned, exit |-> TRUE]
        /\ \A t \in ThreadIds : Like(threads'[t], table[t])
    BY <2>1, <2>2, <2>3, ResumeThreadEffect
  <2>6. threads'[current] = FreeThread
    <3>1. threads' = [table EXCEPT ![waiter] = SetState(@, "Running")]
      BY <2>1, <2>2, <2>3, RunKeepsTables DEF ResumeThread
    <3> QED BY <1>1, <2>1, <2>2, <2>4, <3>1 DEF TablesInv
  <2>7. /\ Like(threads'[waiter], WakeWithResult(threads[waiter], status))
        /\ \A t \in ThreadIds \ {waiter, current} : Like(threads'[t], threads[t])
    BY <2>1, <2>4, <2>5
  <2>8. Ends(waiter, status)
    BY <2>1, <2>2, <2>5, <2>6, <2>7 DEF Ends, waiter, procs
  <2>9. /\ switch'.pages = processes[p].owned
        /\ switch'.phase = "activate" /\ switch'.exit = TRUE
    BY <2>5
  <2> QED
    BY <2>3, <2>8, <2>9
<1> QED
  BY <1>3, <1>4

-----------------------------------------------------------------------------
(* The invariants of the tables, effect by effect.                         *)
LEMMA StaysKeepsSession ==
  ASSUME SessionInv, mode \in {"boot", "run"}, Types, Stays \/ Returns
  PROVE  SessionInv'
<1>1. /\ processes' = processes /\ mode' = "run"
      /\ \A t \in ThreadIds :
           /\ threads'[t].proc = threads[t].proc
           /\ Schedulable(threads'[t]) <=> Schedulable(threads[t])
           /\ threads'[t].pc = "wait" =>
                threads[t].pc = "wait" /\ threads'[t].result = threads[t].result
  <2>1. CASE Stays
    BY <2>1 DEF Stays, Like
  <2>2. CASE Returns
    <3> DEFINE rec == [threads[current] EXCEPT !.result = NoStatus, !.pc = "run"]
    <3>1. /\ processes' = processes /\ mode' = "run" /\ Like(threads'[current], rec)
          /\ \A t \in ThreadIds \ {current} : Like(threads'[t], threads[t])
      BY <2>2 DEF Returns
    <3>2. current \in ThreadIds =>
            /\ rec.proc = threads[current].proc /\ rec.pc = "run"
            /\ Schedulable(rec) <=> Schedulable(threads[current])
      BY DEF Types, ThreadRecord, Schedulable
    <3> HIDE DEF rec
    <3> QED
      BY <3>1, <3>2 DEF Like
  <2> QED
    BY <2>1, <2>2
<1>2. DeadInv'
  BY <1>1 DEF SessionInv, DeadInv
<1>3. SilenceInv'
  <2>1. Owners' = Owners
    BY <1>1 DEF Owners
  <2>2. ASSUME NEW q \in Owners, processes[q].waiting # NoThread
        PROVE  threads'[processes[q].waiting].proc = threads[processes[q].waiting].proc
    <3>1. processes[q] \in ProcessRecord
      BY DEF Owners, Types
    <3>2. processes[q].waiting \in ThreadIds
      BY <2>2, <3>1 DEF ProcessRecord
    <3> QED
      BY <1>1, <3>2
  <2> QED
    BY <1>1, <2>1, <2>2 DEF SessionInv, SilenceInv, SilenceInherited
<1>4. RunsInv'
  BY <1>1 DEF SessionInv, RunsInv, Owners, IsUser
<1>5. AnswerInv'
  BY <1>1 DEF SessionInv, AnswerInv
<1> QED
  BY <1>2, <1>3, <1>4, <1>5 DEF SessionInv

(* What the tables say of a slot that is given out.                        *)
LEMMA FreshSlots ==
  ASSUME IInv, NEW slot \in ProcessIds, ~processes[slot].live,
         NEW main \in ThreadIds, threads[main].state = "Free"
  PROVE  /\ slot # KernelProcess
         /\ \A t \in ThreadIds : threads[t].proc # slot
         /\ \A p \in ProcessIds : processes[p].live => processes[p].waiting # main
         /\ threads[main].proc = NoProcess /\ NoProcess \notin ProcessIds
<1>1. SlotsInv(threads, processes) /\ KernelInv(threads, processes) /\ WaitInv(threads, processes)
  BY DEF IInv, TablesInv
<1>2. NoProcess \notin ProcessIds
  BY SchedulerAssumption DEF NoProcess, ProcessIds
<1>3. slot # KernelProcess
  BY <1>1 DEF KernelInv
<1>4. \A t \in ThreadIds : threads[t].proc # slot
  BY <1>1, <1>2 DEF SlotsInv
<1>5. \A p \in ProcessIds : processes[p].live => processes[p].waiting # main
  BY <1>1 DEF WaitInv
<1>6. threads[main].proc = NoProcess
  BY <1>1 DEF SlotsInv
<1> QED
  BY <1>2, <1>3, <1>4, <1>5, <1>6

LEMMA BeginsKeepsSession ==
  ASSUME IInv, SessionInv, Executing({"run"}), IsUser(cpu.on),
         NEW slot, NEW main, NEW prog, NEW silent \in BOOLEAN, Begins(slot, main, prog, silent)
  PROVE  SessionInv'
<1> DEFINE parent == threads[current].proc
           child == ChildProcess(processes[parent], prog, current, silent)
<1>1. /\ mode = "run" /\ current \in ThreadIds /\ threads[current] \in ThreadRecord
      /\ Schedulable(threads[current]) /\ parent \in ProcessIds \ {KernelProcess}
      /\ processes[parent] \in ProcessRecord /\ processes[parent].live
      /\ processes \in [ProcessIds -> ProcessRecord]
  BY Caller DEF IInv, Types
<1>2. /\ slot \in ProcessIds /\ ~processes[slot].live
      /\ main \in ThreadIds /\ threads[main].state = "Free"
      /\ processes' = [processes EXCEPT ![slot] = child] /\ mode' = "run"
      /\ Like(threads'[main], NewThread(slot))
      /\ Like(threads'[current], BlockForChild(threads[current], slot))
      /\ \A t \in ThreadIds \ {main, current} : Like(threads'[t], threads[t])
  BY DEF Begins
<1>3. /\ slot # KernelProcess /\ \A t \in ThreadIds : threads[t].proc # slot
      /\ \A p \in ProcessIds : processes[p].live => processes[p].waiting # main
      /\ threads[main].proc = NoProcess /\ NoProcess \notin ProcessIds
  BY <1>2, FreshSlots
<1>4. /\ child.live /\ child.waiting = current /\ child.stdio = InheritStdio(processes[parent], silent)
  BY DEF ChildProcess
<1> HIDE DEF child
<1>5. /\ processes'[slot] = child /\ \A p \in ProcessIds \ {slot} : processes'[p] = processes[p]
      /\ Owners' = Owners \cup {slot} /\ parent \in Owners \ {KernelProcess} /\ slot \notin Owners
  BY <1>1, <1>2, <1>4 DEF Owners
<1>6. /\ threads'[main].proc = slot /\ Schedulable(threads'[main]) /\ threads'[main].pc # "wait"
  BY <1>2 DEF Like, NewThread, Schedulable
<1>7. /\ threads'[current].proc = parent /\ ~Schedulable(threads'[current])
  BY <1>1, <1>2 DEF Like, BlockForChild, ThreadRecord, Schedulable
<1>8. \A t \in ThreadIds \ {main} : threads'[t].proc = threads[t].proc
  BY <1>2, <1>7 DEF Like
<1>9. DeadInv'
  BY <1>4, <1>5 DEF SessionInv, DeadInv
<1>10. SilenceInv'
  <2>1. /\ processes[parent].stdio \in [Fds -> {"none", "terminal", "null"}]
        /\ processes[parent].stdio[0] = "terminal"
        /\ processes[parent].stdio[1] = "null" => processes[parent].stdio[2] = "null"
    BY <1>1, <1>5 DEF SessionInv, SilenceInv, SilenceInherited, ProcessRecord
  <2>2. /\ child.stdio[0] = "terminal"
        /\ child.stdio[1] = "null" => child.stdio[2] = "null"
        /\ processes[parent].stdio[1] = "null" => child.stdio[1] = "null"
    BY <1>4, <2>1 DEF InheritStdio, Fds
  <2>3. ASSUME NEW p \in Owners' \ {KernelProcess}
        PROVE  /\ processes'[p].stdio[0] = "terminal"
               /\ processes'[p].stdio[1] = "null" => processes'[p].stdio[2] = "null"
    BY <1>5, <2>2 DEF SessionInv, SilenceInv, SilenceInherited, Owners
  <2>4. ASSUME NEW p \in Owners' \ {KernelProcess}, NEW q \in Owners' \ {KernelProcess},
               processes'[q].waiting # NoThread, threads'[processes'[q].waiting].proc = p,
               processes'[p].stdio[1] = "null"
        PROVE  processes'[q].stdio[1] = "null" /\ processes'[q].stdio[2] = "null"
    <3>1. CASE q = slot
      <4>1. p = parent
        BY <2>4, <3>1, <1>4, <1>5, <1>7
      <4>2. processes'[p] = processes[p]
        BY <4>1, <1>5 DEF Owners
      <4> QED
        BY <2>2, <2>4, <3>1, <4>1, <4>2, <1>5
    <3>2. CASE q # slot
      <4>1. q \in Owners \ {KernelProcess} /\ processes'[q] = processes[q]
        BY <3>2, <1>5 DEF Owners
      <4>2. processes[q].waiting \in ThreadIds \ {main}
        BY <4>1, <2>4, <1>1, <1>3 DEF Owners, ProcessRecord
      <4>3. threads[processes[q].waiting].proc = p /\ p # slot
        BY <4>1, <4>2, <2>4, <1>3, <1>8
      <4>4. p \in Owners \ {KernelProcess} /\ processes'[p] = processes[p]
        BY <4>3, <1>5 DEF Owners
      <4> QED
        BY <4>1, <4>2, <4>3, <4>4, <2>4 DEF SessionInv, SilenceInv, SilenceInherited
    <3> QED
      BY <3>1, <3>2
  <2> QED
    BY <2>3, <2>4 DEF SilenceInv, SilenceInherited
<1>11. RunsInv'
  <2>1. \E t \in ThreadIds : Schedulable(threads'[t]) /\ threads'[t].proc # KernelProcess
    BY <1>2, <1>3, <1>6
  <2>2. ASSUME NEW p \in Owners' \ {KernelProcess}
        PROVE  \E t \in ThreadIds : threads'[t].proc = p
    <3>1. CASE p = slot
      BY <3>1, <1>2, <1>6
    <3>2. CASE p # slot
      <4>1. p \in Owners \ {KernelProcess}
        BY <3>2, <1>5
      <4>2. PICK t \in ThreadIds : threads[t].proc = p
        BY <4>1, <1>1 DEF SessionInv, RunsInv
      <4>3. t # main
        BY <4>1, <4>2, <1>3 DEF Owners
      <4> QED
        BY <4>2, <4>3, <1>8
    <3> QED
      BY <3>1, <3>2
  <2> QED
    BY <2>1, <2>2 DEF RunsInv, IsUser
<1>12. AnswerInv'
  <2> SUFFICES ASSUME NEW t \in ThreadIds, Schedulable(threads'[t]), threads'[t].pc = "wait"
               PROVE  threads'[t].result \in ExitStatuses
    BY DEF AnswerInv
  <2>1. t \notin {main, current}
    BY <1>6, <1>7
  <2> QED
    BY <2>1, <1>2 DEF Like, SessionInv, AnswerInv
<1> QED
  BY <1>9, <1>10, <1>11, <1>12 DEF SessionInv

(* What the tables say of a process that ends, and of those that wait.     *)
LEMMA EndingProcess ==
  ASSUME IInv, Executing({"run"}), IsUser(cpu.on)
  PROVE  LET p == threads[current].proc
         IN  /\ \A t \in ThreadIds : threads[t].proc = p => t = current
             /\ \A q \in ProcessIds : processes[q].live => processes[q].waiting # current
             /\ processes[p].waiting \in ThreadIds =>
                  /\ threads[processes[p].waiting].state = "Blocked"
                  /\ threads[processes[p].waiting].proc \in ProcessIds \ {p, KernelProcess}
<1> DEFINE p == threads[current].proc
<1>1. SlotsInv(threads, processes) /\ KernelInv(threads, processes) /\ WaitInv(threads, processes)
  BY DEF IInv, TablesInv
<1>2. /\ current \in ThreadIds /\ Schedulable(threads[current]) /\ p \in ProcessIds \ {KernelProcess}
      /\ processes[p].live
  BY Caller
<1>3. \A t \in ThreadIds : threads[t].proc = p => t = current
  BY <1>1, <1>2 DEF KernelInv, Schedulable
<1>4. \A q \in ProcessIds : processes[q].live => processes[q].waiting # current
  BY <1>1, <1>2 DEF WaitInv, Schedulable
<1>5. ASSUME processes[p].waiting \in ThreadIds
      PROVE  /\ threads[processes[p].waiting].state = "Blocked"
             /\ threads[processes[p].waiting].proc \in ProcessIds \ {p, KernelProcess}
  <2>1. threads[processes[p].waiting].state = "Blocked"
    BY <1>1, <1>2, <1>5 DEF WaitInv
  <2>2. threads[processes[p].waiting].proc \in ProcessIds
    BY <1>1, <1>5, <2>1 DEF SlotsInv
  <2>3. threads[processes[p].waiting].proc # p
    BY <1>2, <1>3, <1>4, <1>5
  <2>4. processes[p].waiting \notin {TerminalThread, IdleThread}
    BY <1>1, <2>1 DEF KernelInv, Schedulable
  <2>5. threads[processes[p].waiting].proc # KernelProcess
    BY <1>1, <1>5, <2>4 DEF KernelInv
  <2> QED
    BY <2>1, <2>2, <2>3, <2>5
<1> QED
  BY <1>3, <1>4, <1>5

LEMMA EndsKeepsSession ==
  ASSUME IInv, SessionInv, Executing({"run"}), IsUser(cpu.on),
         NEW waiter, NEW status, Ends(waiter, status)
  PROVE  SessionInv'
<1> DEFINE p == threads[current].proc
<1>1. /\ mode = "run" /\ current \in ThreadIds /\ p \in ProcessIds \ {KernelProcess}
      /\ processes \in [ProcessIds -> ProcessRecord] /\ processes[p].live
      /\ threads \in [ThreadIds -> ThreadRecord]
  BY Caller DEF IInv, Types
<1>2. /\ waiter = processes[p].waiting /\ waiter \in ThreadIds /\ waiter # current
      /\ status \in ExitStatuses
      /\ processes' = [processes EXCEPT ![p] = FreeProcess] /\ mode' = "run"
      /\ threads'[current] = FreeThread
      /\ Like(threads'[waiter], WakeWithResult(threads[waiter], status))
      /\ \A t \in ThreadIds \ {waiter, current} : Like(threads'[t], threads[t])
  BY DEF Ends, DropProcess
<1>3. /\ \A t \in ThreadIds : threads[t].proc = p => t = current
      /\ \A q \in ProcessIds : processes[q].live => processes[q].waiting # current
      /\ threads[waiter].proc \in ProcessIds \ {p, KernelProcess}
  BY <1>2, EndingProcess
<1>4. FreeProcess.live = FALSE
  BY DEF FreeProcess
<1>5. /\ processes'[p] = FreeProcess /\ \A q \in ProcessIds \ {p} : processes'[q] = processes[q]
      /\ Owners' = Owners \ {p}
  BY <1>1, <1>2, <1>4 DEF Owners
<1>6. /\ threads'[waiter].proc = threads[waiter].proc /\ Schedulable(threads'[waiter])
      /\ threads'[waiter].result = status
  BY <1>1, <1>2, SMTT(30) DEF Like, WakeWithResult, ThreadRecord, Schedulable
<1>7. \A t \in ThreadIds \ {current} : threads'[t].proc = threads[t].proc
  BY <1>2, <1>6 DEF Like
<1>8. DeadInv'
  BY <1>5 DEF SessionInv, DeadInv
<1>9. SilenceInv'
  <2>1. ASSUME NEW q \in Owners' \ {KernelProcess}
        PROVE  /\ processes'[q] = processes[q] /\ q \in Owners \ {KernelProcess}
               /\ processes[q].waiting # NoThread =>
                    threads'[processes[q].waiting].proc = threads[processes[q].waiting].proc
    <3>1. processes'[q] = processes[q] /\ q \in Owners \ {KernelProcess} /\ q \in ProcessIds
      BY <1>5 DEF Owners
    <3>2. processes[q].waiting # NoThread => processes[q].waiting \in ThreadIds \ {current}
      BY <1>1, <1>3, <3>1 DEF Owners, ProcessRecord
    <3> QED
      BY <1>7, <3>1, <3>2
  <2> QED
    BY <2>1 DEF SessionInv, SilenceInv, SilenceInherited
<1>10. RunsInv'
  <2>1. \E t \in ThreadIds : Schedulable(threads'[t]) /\ threads'[t].proc # KernelProcess
    BY <1>2, <1>3, <1>6
  <2>2. ASSUME NEW q \in Owners' \ {KernelProcess}
        PROVE  \E t \in ThreadIds : threads'[t].proc = q
    <3>1. q \in Owners \ {KernelProcess} /\ q # p
      BY <1>5
    <3>2. PICK t \in ThreadIds : threads[t].proc = q
      BY <3>1, <1>1 DEF SessionInv, RunsInv
    <3> QED
      BY <3>1, <3>2, <1>7
  <2> QED
    BY <2>1, <2>2 DEF RunsInv, IsUser
<1>11. AnswerInv'
  <2> SUFFICES ASSUME NEW t \in ThreadIds, Schedulable(threads'[t]), threads'[t].pc = "wait"
               PROVE  threads'[t].result \in ExitStatuses
    BY DEF AnswerInv
  <2>1. CASE t = current
    BY <2>1, <1>2 DEF FreeThread, Schedulable
  <2>2. CASE t = waiter
    BY <2>2, <1>2, <1>6
  <2>3. CASE t \notin {waiter, current}
    BY <2>3, <1>2 DEF Like, SessionInv, AnswerInv
  <2> QED
    BY <2>1, <2>2, <2>3
<1> QED
  BY <1>8, <1>9, <1>10, <1>11 DEF SessionInv

LEMMA FinishesKeepsSession ==
  ASSUME IInv, SessionInv, Executing({"run"}), IsUser(cpu.on), Finishes
  PROVE  SessionInv'
<1> DEFINE p == threads[current].proc
<1>1. /\ current \in ThreadIds /\ p \in ProcessIds \ {KernelProcess}
      /\ processes \in [ProcessIds -> ProcessRecord] /\ threads \in [ThreadIds -> ThreadRecord]
  BY Caller DEF IInv, Types
<1>2. /\ processes' = [processes EXCEPT ![p] = FreeProcess]
      /\ threads' = [threads EXCEPT ![current] = FreeThread] /\ mode' = "off"
  BY DEF Finishes, DropProcess, RemoveThread
<1>3. /\ processes'[p] = FreeProcess /\ \A q \in ProcessIds \ {p} : processes'[q] = processes[q]
      /\ Owners' = Owners \ {p}
      /\ \A q \in ProcessIds : processes[q].live => processes[q].waiting # current
      /\ threads'[current] = FreeThread /\ \A t \in ThreadIds \ {current} : threads'[t] = threads[t]
  <2>1. FreeProcess.live = FALSE
    BY DEF FreeProcess
  <2> QED
    BY <1>1, <1>2, <2>1, EndingProcess DEF Owners
<1>4. DeadInv' /\ RunsInv'
  BY <1>2, <1>3 DEF SessionInv, DeadInv, RunsInv
<1>5. AnswerInv'
  BY <1>3 DEF SessionInv, AnswerInv, FreeThread, Schedulable
<1>6. SilenceInv'
  <2>1. ASSUME NEW q \in Owners' \ {KernelProcess}
        PROVE  /\ processes'[q] = processes[q] /\ q \in Owners \ {KernelProcess}
               /\ processes[q].waiting # NoThread =>
                    threads'[processes[q].waiting].proc = threads[processes[q].waiting].proc
    <3>1. processes'[q] = processes[q] /\ q \in Owners \ {KernelProcess} /\ q \in ProcessIds
      BY <1>3 DEF Owners
    <3>2. processes[q].waiting # NoThread => processes[q].waiting \in ThreadIds \ {current}
      BY <1>1, <1>3, <3>1 DEF Owners, ProcessRecord
    <3> QED
      BY <1>3, <3>1, <3>2
  <2> QED
    BY <2>1 DEF SessionInv, SilenceInv, SilenceInherited
<1> QED
  BY <1>4, <1>5, <1>6 DEF SessionInv

-----------------------------------------------------------------------------
(* The pages, effect by effect.                                            *)
LEMMA PagesUntouched ==
  ASSUME PagesInv, UNCHANGED <<processes, free, lost>>, switch'.pages = switch.pages,
         cpu'.cr3 \notin free,
         switch'.phase \in {"none", "jump"} \/ ~switch'.exit => switch'.pages = {}
  PROVE  PagesInv'
BY DEF PagesInv, PagesAccounted, Owners

(* The space of the current thread's process is never free.                *)
LEMMA CurrentSpaceHeld ==
  ASSUME IInv, PagesInv, mode = "run"
  PROVE  LET space == processes[threads[current].proc].space
         IN  space \notin free /\ space \notin switch.pages
<1> DEFINE p == threads[current].proc
<1>1. p \in ProcessIds /\ processes[p].live /\ switch.pages \subseteq Pages /\ free \subseteq Pages
  BY CurrentSchedulable DEF IInv, TablesInv, SlotsInv, Types, SwitchRecord
<1>2. CASE p = KernelProcess
  <2>1. processes[p].space = KernelSpace
    BY <1>2 DEF IInv, TablesInv, KernelInv
  <2> QED
    BY <1>1, <2>1, SchedulerAssumption
<1>3. CASE p # KernelProcess
  BY <1>1, <1>3 DEF PagesInv, PagesAccounted, Owners
<1> QED
  BY <1>2, <1>3

LEMMA SwitchKeepsPages ==
  ASSUME IInv, PagesInv, Activate \/ Release \/ ContextSwitch
  PROVE  PagesInv'
<1>1. /\ mode = "run" /\ UNCHANGED <<processes, lost>> /\ switch \in SwitchRecord
      /\ cpu \in [cr3 : Pages \cup {KernelSpace}, rsp0 : ThreadIds \cup {NoThread},
                   on : ThreadIds \cup {NoThread}]
  BY DEF Activate, Release, ContextSwitch, IInv, Types
<1> DEFINE space == processes[threads[current].proc].space
<1>2. space \notin free /\ space \notin switch.pages
  BY <1>1, CurrentSpaceHeld
<1>3. CASE Activate
  <2>1. /\ UNCHANGED free /\ switch.phase = "activate"
        /\ cpu'.cr3 = switch.space /\ switch'.pages = switch.pages /\ switch'.exit = switch.exit
        /\ switch'.phase = IF switch.exit THEN "release" ELSE "jump"
    BY <1>1, <1>3 DEF Activate, SwitchRecord
  <2>2. switch.space = space
    BY <1>1, <2>1 DEF IInv, CpuInv
  <2>3. switch'.phase \in {"none", "jump"} \/ ~switch'.exit => switch'.pages = {}
    BY <2>1 DEF PagesInv
  <2> HIDE DEF space
  <2> QED
    BY <1>1, <1>2, <2>1, <2>2, <2>3, PagesUntouched
<1>4. CASE Release
  <2>1. /\ UNCHANGED cpu /\ switch.phase = "release" /\ free' = free \cup switch.pages
        /\ switch'.pages = {} /\ switch'.exit = switch.exit
    BY <1>1, <1>4 DEF Release, SwitchRecord
  <2>2. cpu.cr3 = space
    BY <1>1, <2>1 DEF IInv, CpuInv
  <2> HIDE DEF space
  <2>3. cpu'.cr3 \notin free'
    BY <1>2, <2>1, <2>2
  <2> QED
    BY <1>1, <2>1, <2>3 DEF PagesInv, PagesAccounted, Owners
<1>5. CASE ContextSwitch
  <2>1. /\ UNCHANGED free /\ switch.phase = "jump" /\ switch' = NoSwitch /\ cpu'.cr3 = cpu.cr3
    BY <1>1, <1>5 DEF ContextSwitch
  <2>2. switch.pages = {} /\ switch'.pages = {}
    BY <2>1 DEF PagesInv, NoSwitch
  <2>3. cpu'.cr3 \notin free
    BY <2>1 DEF PagesInv, PagesAccounted
  <2> QED
    BY <1>1, <2>1, <2>2, <2>3, PagesUntouched
<1> QED
  BY <1>3, <1>4, <1>5

LEMMA RefusalKeepsPages ==
  ASSUME PagesInv, UNCHANGED <<processes, cpu, switch>>,
         NEW gone \in SUBSET free, free' = free \ gone, lost' = lost \cup gone
  PROVE  PagesInv'
BY DEF PagesInv, PagesAccounted, Owners

LEMMA BeginsKeepsPages ==
  ASSUME IInv, PagesInv, Executing({"run"}), IsUser(cpu.on),
         NEW slot, NEW main, NEW prog, NEW silent, Begins(slot, main, prog, silent),
         free' = free \ prog.pages, UNCHANGED <<cpu, lost>>,
         switch'.pages = {}
  PROVE  PagesInv'
<1> DEFINE child == ChildProcess(processes[threads[current].proc], prog, current, silent)
<1>1. /\ slot \in ProcessIds /\ ~processes[slot].live /\ processes \in [ProcessIds -> ProcessRecord]
      /\ processes' = [processes EXCEPT ![slot] = child]
      /\ prog.root \in prog.pages /\ prog.pages \subseteq free
      /\ main \in ThreadIds /\ threads[main].state = "Free"
  BY DEF Begins, IInv, Types
<1>2. child.live /\ child.space = prog.root /\ child.owned = prog.pages
  BY DEF ChildProcess
<1> HIDE DEF child
<1>3. /\ Owners' = Owners \cup {slot} /\ slot \notin Owners
      /\ processes'[slot] = child /\ \A p \in Owners : processes'[p] = processes[p]
  BY <1>1, <1>2 DEF Owners
<1>4. switch.pages = {}
  BY Caller DEF PagesInv
<1>5. Pages = free' \cup lost' \cup switch'.pages \cup UNION {processes'[p].owned : p \in Owners'}
  <2>1. Pages = free \cup lost \cup UNION {processes[p].owned : p \in Owners}
    BY <1>4 DEF PagesInv, PagesAccounted
  <2>2. UNION {processes'[p].owned : p \in Owners'} =
          prog.pages \cup UNION {processes[p].owned : p \in Owners}
    BY <1>2, <1>3
  <2> QED
    BY <1>1, <2>1, <2>2
<1>6. \A p \in Owners' :
        /\ processes'[p].owned \cap (free' \cup lost' \cup switch'.pages) = {}
        /\ \A q \in Owners' \ {p} : processes'[p].owned \cap processes'[q].owned = {}
        /\ p # KernelProcess => processes'[p].space \in processes'[p].owned
  BY <1>1, <1>2, <1>3 DEF PagesInv, PagesAccounted
<1>7. /\ free' \cap (lost' \cup switch'.pages) = {} /\ lost' \cap switch'.pages = {}
      /\ cpu'.cr3 \notin free'
  BY DEF PagesInv, PagesAccounted
<1> QED
  BY <1>5, <1>6, <1>7 DEF PagesInv, PagesAccounted

(* The pages of a process that ends go to the switch that leaves it.       *)
LEMMA EndsKeepsPages ==
  ASSUME IInv, PagesInv, Executing({"run"}), IsUser(cpu.on),
         NEW waiter, NEW status, Ends(waiter, status),
         UNCHANGED <<cpu, free, lost>>,
         switch'.pages = processes[threads[current].proc].owned,
         switch'.phase = "activate", switch'.exit = TRUE
  PROVE  PagesInv'
<1> DEFINE p == threads[current].proc
<1>1. /\ p \in Owners /\ p \in ProcessIds /\ processes \in [ProcessIds -> ProcessRecord]
      /\ switch.phase = "none"
  BY Caller DEF IInv, Types, Owners
<1>2. processes' = [processes EXCEPT ![p] = FreeProcess]
  BY DEF Ends, DropProcess
<1>3. /\ Owners' = Owners \ {p}
      /\ \A q \in Owners' : processes'[q] = processes[q]
  BY <1>1, <1>2 DEF Owners, FreeProcess
<1>4. switch.pages = {}
  BY <1>1 DEF PagesInv
<1>5. switch'.pages = processes[p].owned
  OBVIOUS
<1> HIDE DEF p
<1>6. Pages = free' \cup lost' \cup switch'.pages \cup UNION {processes'[q].owned : q \in Owners'}
  <2>1. Pages = free \cup lost \cup UNION {processes[q].owned : q \in Owners}
    BY <1>4 DEF PagesInv, PagesAccounted
  <2>2. UNION {processes[q].owned : q \in Owners} =
          processes[p].owned \cup UNION {processes'[q].owned : q \in Owners'}
    BY <1>1, <1>3
  <2> QED
    BY <1>5, <2>1, <2>2
<1>7. \A q \in Owners' :
        /\ processes'[q].owned \cap (free' \cup lost' \cup switch'.pages) = {}
        /\ \A r \in Owners' \ {q} : processes'[q].owned \cap processes'[r].owned = {}
        /\ q # KernelProcess => processes'[q].space \in processes'[q].owned
  BY <1>1, <1>3, <1>5 DEF PagesInv, PagesAccounted
<1>8. /\ free' \cap (lost' \cup switch'.pages) = {} /\ lost' \cap switch'.pages = {}
      /\ cpu'.cr3 \notin free'
  BY <1>1, <1>5 DEF PagesInv, PagesAccounted
<1> QED
  BY <1>6, <1>7, <1>8 DEF PagesInv, PagesAccounted

(* The pages of the first process are not released: the machine goes off.  *)
LEMMA FinishesKeepsPages ==
  ASSUME IInv, PagesInv, Executing({"run"}), IsUser(cpu.on), Finishes,
         UNCHANGED <<cpu, free, switch>>,
         lost' = lost \cup processes[threads[current].proc].owned
  PROVE  PagesInv'
<1> DEFINE p == threads[current].proc
<1>1. /\ p \in Owners /\ p \in ProcessIds /\ processes \in [ProcessIds -> ProcessRecord]
      /\ switch.phase = "none"
  BY Caller DEF IInv, Types, Owners
<1>2. processes' = [processes EXCEPT ![p] = FreeProcess]
  BY DEF Finishes, DropProcess
<1>3. /\ Owners' = Owners \ {p}
      /\ \A q \in Owners' : processes'[q] = processes[q]
  BY <1>1, <1>2 DEF Owners, FreeProcess
<1>4. switch.pages = {} /\ switch'.pages = {}
  BY <1>1 DEF PagesInv
<1>5. lost' = lost \cup processes[p].owned
  OBVIOUS
<1> HIDE DEF p
<1>6. Pages = free' \cup lost' \cup switch'.pages \cup UNION {processes'[q].owned : q \in Owners'}
  <2>1. Pages = free \cup lost \cup UNION {processes[q].owned : q \in Owners}
    BY <1>4 DEF PagesInv, PagesAccounted
  <2>2. UNION {processes[q].owned : q \in Owners} =
          processes[p].owned \cup UNION {processes'[q].owned : q \in Owners'}
    BY <1>1, <1>3
  <2> QED
    BY <1>4, <1>5, <2>1, <2>2
<1>7. \A q \in Owners' :
        /\ processes'[q].owned \cap (free' \cup lost' \cup switch'.pages) = {}
        /\ \A r \in Owners' \ {q} : processes'[q].owned \cap processes'[r].owned = {}
        /\ q # KernelProcess => processes'[q].space \in processes'[q].owned
  BY <1>1, <1>3, <1>4, <1>5 DEF PagesInv, PagesAccounted
<1>8. /\ free' \cap (lost' \cup switch'.pages) = {} /\ lost' \cap switch'.pages = {}
      /\ cpu'.cr3 \notin free'
  BY <1>1, <1>4, <1>5 DEF PagesInv, PagesAccounted
<1> QED
  BY <1>4, <1>6, <1>7, <1>8 DEF PagesInv, PagesAccounted

-----------------------------------------------------------------------------
LEMMA InitProcessInv == Init => ProcessInv
<1> SUFFICES ASSUME Init PROVE ProcessInv
  OBVIOUS
<1>0. ProcessIds \subseteq Int /\ ThreadIds \subseteq Int /\ BootProcess \in ProcessIds
      /\ KernelProcess \in ProcessIds /\ BootThread \in ThreadIds
  BY SchedulerAssumption DEF ProcessIds, ThreadIds, BootProcess, KernelProcess, BootThread
<1>1. PICK prog \in Programs(Pages) :
        /\ processes = [p \in ProcessIds |->
             CASE p = KernelProcess -> [FreeProcess EXCEPT !.live = TRUE]
               [] p = BootProcess ->
                    [live |-> TRUE, space |-> prog.root,
                     stdio |-> [fd \in Fds |-> "terminal"], waiting |-> NoThread,
                     owned |-> prog.pages, action |-> "ShutdownSystem"]
               [] OTHER -> FreeProcess]
        /\ threads = [t \in ThreadIds |->
             CASE t \in {TerminalThread, IdleThread} -> NewThread(KernelProcess)
               [] t = BootThread -> NewThread(BootProcess)
               [] OTHER -> FreeThread]
        /\ cpu = [cr3 |-> KernelSpace, rsp0 |-> NoThread, on |-> NoThread]
        /\ switch = NoSwitch /\ free = Pages \ prog.pages /\ lost = {} /\ mode = "boot"
  BY DEF Init
<1>2. prog.root \in prog.pages /\ prog.pages \subseteq Pages
  BY DEF Programs
<1>3. /\ processes[KernelProcess] = [FreeProcess EXCEPT !.live = TRUE]
      /\ processes[BootProcess] =
           [live |-> TRUE, space |-> prog.root, stdio |-> [fd \in Fds |-> "terminal"],
            waiting |-> NoThread, owned |-> prog.pages, action |-> "ShutdownSystem"]
      /\ \A p \in ProcessIds \ {KernelProcess, BootProcess} : processes[p] = FreeProcess
  BY <1>0, <1>1 DEF KernelProcess, BootProcess
<1>4. /\ threads[BootThread] = NewThread(BootProcess)
      /\ \A t \in ThreadIds : threads[t] \in {NewThread(KernelProcess), NewThread(BootProcess), FreeThread}
  BY <1>0, <1>1 DEF BootThread, TerminalThread, IdleThread
<1>5. FreeProcess.live = FALSE /\ FreeProcess.owned = {}
  BY DEF FreeProcess
<1>6. /\ processes[KernelProcess].live = TRUE /\ processes[KernelProcess].owned = {}
      /\ processes[BootProcess].live = TRUE /\ processes[BootProcess].owned = prog.pages
      /\ processes[BootProcess].space = prog.root /\ processes[BootProcess].waiting = NoThread
  BY <1>3 DEF FreeProcess
<1>7. /\ Owners = {KernelProcess, BootProcess} /\ KernelProcess # BootProcess
      /\ \A p \in ProcessIds \ {KernelProcess, BootProcess} : processes[p].live = FALSE
  <2>1. \A p \in ProcessIds \ {KernelProcess, BootProcess} : processes[p].live = FALSE
    BY <1>3, <1>5
  <2>2. KernelProcess # BootProcess
    BY DEF KernelProcess, BootProcess
  <2> QED
    BY <1>0, <1>6, <2>1, <2>2, Zenon DEF Owners
<1>8. DeadInv
  <2> SUFFICES ASSUME NEW p \in ProcessIds, ~processes[p].live PROVE processes[p] = FreeProcess
    BY DEF DeadInv
  <2> QED
    BY <1>3, <1>6, Zenon
<1>9. SilenceInv
  BY <1>3, <1>7 DEF SilenceInv, SilenceInherited, Fds
<1>10. RunsInv
  <2>1. /\ threads[BootThread].proc = BootProcess /\ Schedulable(threads[BootThread])
    BY <1>4 DEF NewThread, Schedulable
  <2> QED
    BY <1>0, <1>7, <2>1 DEF RunsInv, IsUser
<1>11. AnswerInv
  BY <1>4 DEF AnswerInv, NewThread, FreeThread
<1>12. PagesInv
  <2>1. UNION {processes[p].owned : p \in Owners} = prog.pages
    <3>1. {processes[p].owned : p \in Owners} = {{}, prog.pages}
      BY <1>6, <1>7, Zenon
    <3> QED
      BY <3>1
  <2>2. switch.pages = {}
    BY <1>1 DEF NoSwitch
  <2>3. cpu.cr3 \notin free
    BY <1>1, SchedulerAssumption
  <2>4. free = Pages \ prog.pages /\ lost = {}
    BY <1>1
  <2>5. Pages = free \cup lost \cup switch.pages \cup UNION {processes[p].owned : p \in Owners}
    BY <1>2, <2>1, <2>2, <2>4
  <2>6. ASSUME NEW p \in Owners
        PROVE  /\ processes[p].owned \cap (free \cup lost \cup switch.pages) = {}
               /\ \A q \in Owners \ {p} : processes[p].owned \cap processes[q].owned = {}
               /\ p # KernelProcess => processes[p].space \in processes[p].owned
    BY <1>2, <1>6, <1>7, <2>2, <2>4
  <2> QED
    BY <2>2, <2>3, <2>4, <2>5, <2>6 DEF PagesInv, PagesAccounted
<1> QED
  BY <1>8, <1>9, <1>10, <1>11, <1>12 DEF ProcessInv, SessionInv

LEMMA ExitKeepsProcessInv ==
  ASSUME IInv, ProcessInv, Exit \/ UserTrap
  PROVE  ProcessInv'
<1>1. Executing({"run"}) /\ IsUser(cpu.on)
  BY DEF Exit, UserTrap, ExitWith
<1>2. PICK status \in ExitStatuses : ExitShutdown(status) \/ ExitContinue(status)
  BY SchedulerAssumption DEF Exit, UserTrap, ExitWith
<1> DEFINE owned == processes[threads[current].proc].owned
<1>3. /\ UNCHANGED <<cpu, free, rax>>
      /\ \/ /\ Finishes /\ UNCHANGED switch /\ lost' = lost \cup owned
         \/ /\ \E waiter : Ends(waiter, status)
            /\ UNCHANGED lost /\ switch'.pages = owned
            /\ switch'.phase = "activate" /\ switch'.exit = TRUE
  BY <1>1, <1>2, ExitEffect
<1> HIDE DEF owned
<1>4. CASE Finishes /\ UNCHANGED switch /\ lost' = lost \cup owned
  <2>1. SessionInv'
    BY <1>1, <1>4, FinishesKeepsSession DEF ProcessInv
  <2>2. PagesInv'
    BY <1>1, <1>3, <1>4, FinishesKeepsPages DEF ProcessInv, owned
  <2> QED
    BY <2>1, <2>2 DEF ProcessInv
<1>5. CASE /\ \E waiter : Ends(waiter, status)
           /\ UNCHANGED lost /\ switch'.pages = owned
           /\ switch'.phase = "activate" /\ switch'.exit = TRUE
  <2>1. PICK waiter : Ends(waiter, status)
    BY <1>5
  <2>2. SessionInv'
    BY <1>1, <2>1, EndsKeepsSession DEF ProcessInv
  <2>3. PagesInv'
    BY <1>1, <1>3, <1>5, <2>1, EndsKeepsPages DEF ProcessInv, owned
  <2> QED
    BY <2>2, <2>3 DEF ProcessInv
<1> QED
  BY <1>3, <1>4, <1>5

LEMMA SpawnKeepsProcessInv ==
  ASSUME IInv, ProcessInv, NEW silent \in BOOLEAN, SpawnChild(silent)
  PROVE  ProcessInv'
<1>1. Executing({"run"}) /\ IsUser(cpu.on)
  BY DEF SpawnChild
<1>2. PICK slot, main, prog :
        /\ Begins(slot, main, prog, silent) /\ free' = free \ prog.pages
        /\ StdioResolves(processes[threads[current].proc], silent)
        /\ UNCHANGED <<cpu, lost>> /\ switch'.pages = {}
  BY SpawnChildEffect
<1>3. SessionInv'
  BY <1>1, <1>2, BeginsKeepsSession DEF ProcessInv
<1>4. PagesInv'
  BY <1>1, <1>2, BeginsKeepsPages DEF ProcessInv
<1> QED
  BY <1>3, <1>4 DEF ProcessInv

LEMMA NextProcessInv == IInv /\ ProcessInv /\ [Next]_vars => ProcessInv'
<1> SUFFICES ASSUME IInv, ProcessInv, [Next]_vars PROVE ProcessInv'
  OBVIOUS
<1>0. /\ Types /\ SessionInv /\ PagesInv /\ DeadInv
      /\ switch.phase = "none" => switch.pages = {}
      /\ cpu.cr3 \notin free
  BY DEF IInv, ProcessInv, SessionInv, PagesInv, PagesAccounted
<1>1. CASE Start
  <2>1. Stays /\ switch'.pages = {} /\ switch'.exit = FALSE /\ switch.pages = {}
    BY <1>1, StartEffect
  <2>2. mode = "boot" /\ UNCHANGED <<cpu, free, lost>> /\ processes' = processes
    BY <1>1, <2>1 DEF Start, Stays
  <2>3. SessionInv'
    BY <1>0, <2>1, <2>2, StaysKeepsSession
  <2>4. PagesInv'
    BY <1>0, <2>1, <2>2, PagesUntouched
  <2> QED
    BY <2>3, <2>4 DEF ProcessInv
<1>2. CASE Activate \/ Release \/ ContextSwitch
  <2>1. Stays /\ mode = "run"
    BY <1>2, SwitchEffect DEF Activate, Release, ContextSwitch
  <2>2. SessionInv' /\ PagesInv'
    BY <1>0, <1>2, <2>1, StaysKeepsSession, SwitchKeepsPages
  <2> QED
    BY <2>2 DEF ProcessInv
<1>3. CASE Resume
  <2>1. Stays /\ UNCHANGED <<cpu, switch, free, lost>> /\ mode = "run" /\ processes' = processes
    BY <1>3, ResumeEffect DEF Resume, Executing
  <2>2. SessionInv' /\ PagesInv'
    BY <1>0, <2>1, StaysKeepsSession, PagesUntouched DEF PagesInv
  <2> QED
    BY <2>2 DEF ProcessInv
<1>4. CASE ReturnFromWait
  <2>1. Returns /\ UNCHANGED <<cpu, switch, free, lost>> /\ mode = "run" /\ processes' = processes
    BY <1>4, ReturnEffect DEF Returns
  <2>2. SessionInv' /\ PagesInv'
    BY <1>0, <2>1, StaysKeepsSession, PagesUntouched DEF PagesInv
  <2> QED
    BY <2>2 DEF ProcessInv
<1>5. CASE KernelYield \/ UserYield
  <2>1. Executing({"run"}) /\ YieldNow
    BY <1>5 DEF KernelYield, UserYield
  <2>2. /\ Stays /\ UNCHANGED <<cpu, free, lost>> /\ mode = "run" /\ processes' = processes
        /\ UNCHANGED switch \/ (switch'.pages = {} /\ switch'.exit = FALSE)
        /\ switch.phase = "none"
    BY <2>1, YieldEffect DEF Executing, Stays
  <2>3. SessionInv'
    BY <1>0, <2>2, StaysKeepsSession
  <2>4. switch'.pages = switch.pages /\ switch'.pages = {}
    BY <1>0, <2>2
  <2>5. PagesInv'
    BY <1>0, <2>2, <2>4, PagesUntouched
  <2> QED
    BY <2>3, <2>5 DEF ProcessInv
<1>6. CASE SpawnRefused
  <2>1. /\ Stays /\ UNCHANGED <<cpu, switch>> /\ mode = "run" /\ processes' = processes
        /\ \E gone \in SUBSET free : free' = free \ gone /\ lost' = lost \cup gone
    BY <1>6, SpawnRefusedEffect DEF SpawnRefused, Executing
  <2>2. SessionInv' /\ PagesInv'
    BY <1>0, <2>1, StaysKeepsSession, RefusalKeepsPages
  <2> QED
    BY <2>2 DEF ProcessInv
<1>7. ASSUME NEW silent \in BOOLEAN, SpawnUnplaced(silent) PROVE ProcessInv'
  <2>1. Stays /\ UNCHANGED <<cpu, switch, free, lost>> /\ mode = "run" /\ processes' = processes
    BY <1>0, <1>7, SpawnUnplacedEffect DEF SpawnUnplaced, Executing, Stays
  <2>2. SessionInv' /\ PagesInv'
    BY <1>0, <2>1, StaysKeepsSession, PagesUntouched DEF PagesInv
  <2> QED
    BY <2>2 DEF ProcessInv
<1>8. ASSUME NEW silent \in BOOLEAN, SpawnChild(silent) PROVE ProcessInv'
  BY <1>8, SpawnKeepsProcessInv
<1>9. CASE Exit \/ UserTrap
  BY <1>9, ExitKeepsProcessInv
<1>10. CASE UNCHANGED vars
  BY <1>10 DEF vars, ProcessInv, SessionInv, DeadInv, SilenceInv, SilenceInherited, RunsInv,
     AnswerInv, PagesInv, PagesAccounted, Owners, IsUser
<1> QED
  BY <1>1, <1>2, <1>3, <1>4, <1>5, <1>6, <1>7, <1>8, <1>9, <1>10
     DEF Next, KernelStep, UserStep, Stopped

-----------------------------------------------------------------------------
(* The invariant of processes holds in every state of every behaviour.     *)
THEOREM ProcessInvariant == Spec => []ProcessInv
<1>1. Init => ProcessInv  BY InitProcessInv
<1>2. IInv /\ ProcessInv /\ [Next]_vars => ProcessInv'  BY NextProcessInv
<1> QED BY <1>1, <1>2, SchedulerInvariant, PTL DEF Spec

(* Every page is in one place, exit gives back all a process owned and     *)
(* only after the next space is active (OwnedPages::release), for every    *)
(* number and size of programs.                                            *)
THEOREM PagesNeverLeakOnExit == Spec => []PagesAccounted
<1>1. ProcessInv => PagesAccounted  BY DEF ProcessInv, PagesInv
<1> QED BY <1>1, ProcessInvariant, PTL

(* A silenced command's children are silent, however deep they are nested  *)
(* (inherit_stdio), and every program reads the terminal.                  *)
THEOREM SilenceCorrect == Spec => []SilenceInherited
<1>1. ProcessInv => SilenceInherited  BY DEF ProcessInv, SessionInv, SilenceInv
<1> QED BY <1>1, ProcessInvariant, PTL

(* What the two invariants say of the threads of user processes.           *)
LEMMA UserThreadsCounted == IInv /\ ProcessInv => OneUserRuns
<1> SUFFICES ASSUME IInv, ProcessInv, mode \in {"boot", "run"}
             PROVE  /\ Cardinality({t \in UserThreads : threads[t].state # "Blocked"}) = 1
                    /\ \A p \in ProcessIds \ {KernelProcess} :
                         processes[p].live => Cardinality({t \in UserThreads : threads[t].proc = p}) = 1
  BY DEF OneUserRuns
<1>1. /\ threads \in [ThreadIds -> ThreadRecord] /\ SlotsInv(threads, processes)
      /\ KernelInv(threads, processes) /\ WaitInv(threads, processes)
      /\ \E t \in ThreadIds : Schedulable(threads[t]) /\ IsUser(t)
      /\ \A p \in Owners \ {KernelProcess} : \E t \in ThreadIds : threads[t].proc = p
  BY DEF IInv, TablesInv, ProcessInv, SessionInv, RunsInv
<1>2. \A t \in ThreadIds :
        Schedulable(threads[t]) <=> threads[t].state # "Free" /\ threads[t].state # "Blocked"
  BY <1>1 DEF Schedulable, ThreadRecord
<1>3. Cardinality({t \in UserThreads : threads[t].state # "Blocked"}) = 1
  <2>1. PICK u \in ThreadIds : Schedulable(threads[u]) /\ IsUser(u)
    BY <1>1
  <2>2. {t \in UserThreads : threads[t].state # "Blocked"} = {u}
    BY <1>1, <1>2, <2>1 DEF UserThreads, IsUser, WaitInv
  <2> QED
    BY <2>2, FS_Singleton
<1>4. ASSUME NEW p \in ProcessIds \ {KernelProcess}, processes[p].live
      PROVE  Cardinality({t \in UserThreads : threads[t].proc = p}) = 1
  <2>1. PICK u \in ThreadIds : threads[u].proc = p
    BY <1>1, <1>4 DEF Owners
  <2>2. p # NoProcess
    BY SchedulerAssumption DEF ProcessIds, NoProcess
  <2>3. threads[u].state # "Free"
    BY <1>1, <2>1, <2>2 DEF SlotsInv
  <2>4. {t \in UserThreads : threads[t].proc = p} = {u}
    BY <1>1, <2>1, <2>3 DEF UserThreads, IsUser, KernelInv
  <2> QED
    BY <2>4, FS_Singleton
<1> QED
  BY <1>3, <1>4

(* Spawn is synchronous: however programs nest, exactly one user thread is *)
(* not waiting, and every user process has one thread.                     *)
THEOREM SpawnIsSynchronous == Spec => []OneUserRuns
<1>1. IInv /\ ProcessInv => OneUserRuns  BY UserThreadsCounted
<1> QED BY <1>1, SchedulerInvariant, ProcessInvariant, PTL
=============================================================================
