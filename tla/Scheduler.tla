----------------------------- MODULE Scheduler -----------------------------
(***************************************************************************)
(* The cooperative scheduler and the spawn-and-wait process service of the *)
(* kernel (kernel/kernel/src/scheduler, thread.rs, process.rs).            *)
(*                                                                         *)
(* One CPU, no interrupts: a thread leaves the CPU only where its kernel   *)
(* code calls yield_now, wait_for_child or exit_current_process.  Each of  *)
(* those prepares a switch in the scheduler's tables and then performs it  *)
(* in steps: activate_address_space, release of the pages of an exited     *)
(* process, context_switch, and the code after context_switch on           *)
(* the stack of the thread switched to.  The model keeps those steps       *)
(* apart, because the tables, CR3, the TSS stack and the executing stack   *)
(* disagree between them.                                                  *)
(***************************************************************************)
EXTENDS Integers, FiniteSets

CONSTANTS
  MaxProcesses,   \* length of SchedulerState.processes (8 in the code)
  MaxThreads,     \* length of SchedulerState.threads (12 in the code)
  UsizeMax,       \* usize::MAX
  ExitStatuses,   \* statuses user programs exit with
  Pages,          \* physical pages user programs are loaded into
  ProgramSizes,   \* page counts of loadable programs
  MaxLostPages,   \* pages one failing load or file read can lose
  KernelSpace     \* root of the kernel address space

ASSUME SchedulerAssumption ==
  /\ MaxProcesses \in Nat /\ MaxProcesses >= 2
  /\ MaxThreads \in Nat /\ MaxThreads >= 3
  /\ UsizeMax \in Nat /\ UsizeMax >= 4
  /\ ExitStatuses \subseteq 0..UsizeMax
  /\ 1 \in ExitStatuses
  /\ IsFiniteSet(Pages)
  /\ ProgramSizes \subseteq Nat \ {0}
  /\ MaxLostPages \in Nat
  /\ KernelSpace \notin Pages

VARIABLES
  processes,      \* SchedulerState.processes
  threads,        \* SchedulerState.threads, with each thread's resume point
  current,        \* SchedulerState.current_thread
  cpu,            \* CR3, TSS.rsp0 and the thread whose stack executes
  switch,         \* the prepared switch that is being performed
  free,           \* pages in the physical allocator
  lost,           \* pages no one owns and the allocator does not have
  rax,            \* what the last spawn syscall of a thread returned
  mode,           \* what the machine is doing
  told            \* history: status the child a thread sleeps for gave to exit

vars == <<processes, threads, current, cpu, switch, free, lost, rax, mode, told>>

-----------------------------------------------------------------------------
ProcessIds == 0..(MaxProcesses - 1)
ThreadIds  == 0..(MaxThreads - 1)
NoProcess  == -1
NoThread   == -1
NoStatus   == -1

(* The slots kernel_main fills before it calls scheduler::start.           *)
KernelProcess == 0
BootProcess   == 1
TerminalThread == 0
BootThread     == 1
IdleThread     == 2

Fds == 0..2
NoStdio == [fd \in Fds |-> "none"]

(* Raw result codes of spawn_wait, and liblazer's reading of the word that *)
(* spawn_wait returns.                                                     *)
INVALID_PATH         == UsizeMax
FILE_NOT_FOUND       == UsizeMax - 1
INVALID_EXECUTABLE   == UsizeMax - 2
RESOURCE_UNAVAILABLE == UsizeMax - 3
SpawnErrors == {INVALID_PATH, FILE_NOT_FOUND, INVALID_EXECUTABLE, RESOURCE_UNAVAILABLE}

SpawnReply(raw) == [kind |-> IF raw \in SpawnErrors THEN "err" ELSE "ok", value |-> raw]

-----------------------------------------------------------------------------
(* thread.rs: the record and its transitions.  pc is where the thread's    *)
(* saved context resumes: the entry trampoline, or after context_switch in *)
(* yield_now or wait_for_child; "run" while it executes its own code.      *)
FreeThread ==
  [proc |-> NoProcess, state |-> "Free", reason |-> NoProcess,
   result |-> NoStatus, pc |-> "none"]
NewThread(p) ==
  [proc |-> p, state |-> "Runnable", reason |-> NoProcess,
   result |-> NoStatus, pc |-> "entry"]
ThreadRecord ==
  [proc : ProcessIds \cup {NoProcess},
   state : {"Free", "Runnable", "Running", "Blocked"},
   reason : ProcessIds \cup {NoProcess},
   result : ExitStatuses \cup {NoStatus},
   pc : {"none", "entry", "run", "yield", "wait"}]

SetState(th, s) == [th EXCEPT !.state = s]
StayRunnable(th, p) == [th EXCEPT !.reason = p, !.pc = "wait"]
BlockForChild(th, p) == [th EXCEPT !.state = "Blocked", !.reason = p, !.pc = "wait"]

WakeKeepsReason(th, status) == [th EXCEPT !.state = "Runnable", !.result = status]
WakeDropsResult(th, status) == [th EXCEPT !.state = "Runnable", !.reason = NoProcess]
WakeWithResult(th, status) ==
  [th EXCEPT !.state = "Runnable", !.reason = NoProcess, !.result = status]

(* process.rs: the resources of a process slot.                            *)
FreeProcess ==
  [live |-> FALSE, space |-> KernelSpace, stdio |-> NoStdio,
   waiting |-> NoThread, owned |-> {}, action |-> "Continue"]
ProcessRecord ==
  [live : BOOLEAN, space : Pages \cup {KernelSpace},
   stdio : [Fds -> {"none", "terminal", "null"}],
   waiting : ThreadIds \cup {NoThread}, owned : SUBSET Pages,
   action : {"Continue", "ShutdownSystem"}]

StdioFromTerminal(parent, silent) ==
  [fd \in Fds |-> IF silent /\ fd # 0 THEN "null" ELSE "terminal"]
InheritStdio(parent, silent) ==
  IF silent THEN [parent.stdio EXCEPT ![1] = "null", ![2] = "null"] ELSE parent.stdio
ChildWithoutWaiter(parent, prog, t, silent) ==
  [live |-> TRUE, space |-> prog.root, stdio |-> InheritStdio(parent, silent),
   waiting |-> NoThread, owned |-> prog.pages, action |-> "Continue"]
ChildInheritingPolicy(parent, prog, t, silent) ==
  [live |-> TRUE, space |-> prog.root, stdio |-> InheritStdio(parent, silent),
   waiting |-> t, owned |-> prog.pages, action |-> parent.action]
ChildProcess(parent, prog, t, silent) ==
  [live |-> TRUE, space |-> prog.root, stdio |-> InheritStdio(parent, silent),
   waiting |-> t, owned |-> prog.pages, action |-> "Continue"]

(* First free slot of each table.                                          *)
FreeProcessSlots == {p \in ProcessIds : ~processes[p].live}
FreeThreadSlots  == {t \in ThreadIds : threads[t].state = "Free"}
First(S) == CHOOSE n \in S : \A m \in S : n <= m

-----------------------------------------------------------------------------
(* next_runnable_thread: round robin after the current slot over the live  *)
(* slots other than idle, ending with the current slot itself; idle last.  *)
Schedulable(th) == th.state \in {"Runnable", "Running"}

NextRunnableFromZero(table, cur) ==
  LET ready == {t \in ThreadIds \ {IdleThread} : Schedulable(table[t])}
  IN  CASE ready # {} -> First(ready)
        [] ready = {} /\ Schedulable(table[IdleThread]) -> IdleThread
        [] OTHER -> NoThread
NextRunnableWithoutWrap(table, cur) ==
  LET ready == {t \in ThreadIds \ {IdleThread} : t > cur /\ Schedulable(table[t])}
  IN  CASE ready # {} -> First(ready)
        [] ready = {} /\ Schedulable(table[IdleThread]) -> IdleThread
        [] OTHER -> NoThread
NextRunnable(table, cur) ==
  LET start == IF cur = NoThread THEN 0 ELSE (cur + 1) % MaxThreads
      slot(offset) == (start + offset) % MaxThreads
      ready == {o \in 0..(MaxThreads - 1) :
                  slot(o) # IdleThread /\ Schedulable(table[slot(o)])}
  IN  CASE ready # {} -> slot(First(ready))
        [] ready = {} /\ Schedulable(table[IdleThread]) -> IdleThread
        [] OTHER -> NoThread

NoSwitch ==
  [phase |-> "none", next |-> NoThread, space |-> KernelSpace, pages |-> {},
   exit |-> FALSE]
SwitchRecord ==
  [phase : {"none", "activate", "release", "jump"}, next : ThreadIds \cup {NoThread},
   space : Pages \cup {KernelSpace}, pages : SUBSET Pages, exit : BOOLEAN]

(* The common tail of start, prepare_switch, prepare_wait_for_child and    *)
(* prepare_exit_current_process: next becomes the current, running thread  *)
(* and its activation is read.  thread_mut and activation panic on an      *)
(* empty thread or process slot.                                           *)
Activatable(table, procs, t) ==
  /\ t \in ThreadIds
  /\ table[t].state # "Free"
  /\ procs[table[t].proc].live

ResumeThread(table, procs, next, pages, exit) ==
  IF Activatable(table, procs, next)
  THEN /\ current' = next
       /\ threads' = [table EXCEPT ![next] = SetState(@, "Running")]
       /\ processes' = procs
       /\ switch' = [phase |-> "activate", next |-> next,
                     space |-> procs[table[next].proc].space,
                     pages |-> pages, exit |-> exit]
       /\ mode' = "run"
  ELSE /\ mode' = "panic"
       /\ UNCHANGED <<current, threads, processes, switch>>

Halt == mode' = "halted" /\ UNCHANGED <<current, threads, processes, switch>>

-----------------------------------------------------------------------------
(* kernel_main: the kernel process, the bootstrap user process, and the    *)
(* terminal, bootstrap and idle threads.  CR3 is the kernel space; the     *)
(* bootstrap code runs on no thread's stack.                               *)
Programs(avail) ==
  {prog \in [root : avail, pages : SUBSET avail] :
     /\ prog.root \in prog.pages
     /\ Cardinality(prog.pages) \in ProgramSizes}

Init ==
  \E prog \in Programs(Pages) :
    /\ processes = [p \in ProcessIds |->
         CASE p = KernelProcess -> [FreeProcess EXCEPT !.live = TRUE]
           [] p = BootProcess ->
                [live |-> TRUE, space |-> prog.root,
                 stdio |-> [fd \in Fds |-> "terminal"], waiting |-> NoThread,
                 owned |-> prog.pages, action |-> "ShutdownSystem"]
           [] OTHER -> FreeProcess]
    /\ threads = [t \in ThreadIds |->
         CASE t \in {TerminalThread, IdleThread} -> NewThread(KernelProcess)
           [] t = BootThread -> NewThread(BootProcess)
           [] OTHER -> FreeThread]
    /\ current = NoThread
    /\ cpu = [cr3 |-> KernelSpace, rsp0 |-> NoThread, on |-> NoThread]
    /\ switch = NoSwitch
    /\ free = Pages \ prog.pages
    /\ lost = {}
    /\ rax = [t \in ThreadIds |-> NoStatus]
    /\ mode = "boot"
    /\ told = [t \in ThreadIds |-> NoStatus]

(* scheduler::start                                                        *)
Start ==
  /\ mode = "boot"
  /\ LET next == NextRunnable(threads, NoThread)
     IN  IF next = NoThread THEN Halt ELSE ResumeThread(threads, processes, next, {}, FALSE)
  /\ UNCHANGED <<cpu, free, lost, rax, told>>

-----------------------------------------------------------------------------
(* Performing a prepared switch.                                           *)
ActivateSpaceOnly ==
  /\ mode = "run" /\ switch.phase = "activate"
  /\ cpu' = [cpu EXCEPT !.cr3 = switch.space]
  /\ switch' = [switch EXCEPT !.phase = IF switch.exit THEN "release" ELSE "jump"]
  /\ UNCHANGED <<processes, threads, current, free, lost, rax, mode, told>>
Activate ==
  /\ mode = "run" /\ switch.phase = "activate"
  /\ cpu' = [cpu EXCEPT !.cr3 = switch.space, !.rsp0 = switch.next]
  /\ switch' = [switch EXCEPT !.phase = IF switch.exit THEN "release" ELSE "jump"]
  /\ UNCHANGED <<processes, threads, current, free, lost, rax, mode, told>>

(* OwnedPages::release of an exited process.                               *)
ReleaseEarly ==
  /\ mode = "run" /\ switch.phase \in {"activate", "release"} /\ switch.exit
  /\ free' = free \cup switch.pages
  /\ switch' = [switch EXCEPT !.phase = IF @ = "activate" THEN "activate" ELSE "jump",
                              !.pages = {}, !.exit = FALSE]
  /\ UNCHANGED <<processes, threads, current, cpu, lost, rax, mode, told>>
Release ==
  /\ mode = "run" /\ switch.phase = "release"
  /\ free' = free \cup switch.pages
  /\ switch' = [switch EXCEPT !.phase = "jump", !.pages = {}]
  /\ UNCHANGED <<processes, threads, current, cpu, lost, rax, mode, told>>

ContextSwitch ==
  /\ mode = "run" /\ switch.phase = "jump"
  /\ cpu' = [cpu EXCEPT !.on = switch.next]
  /\ switch' = NoSwitch
  /\ UNCHANGED <<processes, threads, current, free, lost, rax, mode, told>>

(* The stack that executes, once no switch is in progress.                 *)
Executing(pc) ==
  /\ mode = "run" /\ switch.phase = "none"
  /\ threads[cpu.on].pc \in pc

(* The code after context_switch: the trampoline starts the thread, and    *)
(* yield_now returns.                                                      *)
Resume ==
  /\ Executing({"entry", "yield"})
  /\ threads' = [threads EXCEPT ![cpu.on].pc = "run"]
  /\ UNCHANGED <<processes, current, cpu, switch, free, lost, rax, mode, told>>

(* wait_for_child takes the wait result of the current thread and the      *)
(* syscall returns it, or RESOURCE_UNAVAILABLE when there is none.         *)
ReturnKeepingResult ==
  /\ Executing({"wait"})
  /\ threads' = [threads EXCEPT ![cpu.on].pc = "run"]
  /\ rax' = [rax EXCEPT ![cpu.on] =
               IF threads[current].result = NoStatus
               THEN RESOURCE_UNAVAILABLE ELSE threads[current].result]
  /\ told' = [told EXCEPT ![cpu.on] = NoStatus]
  /\ UNCHANGED <<processes, current, cpu, switch, free, lost, mode>>
ReturnFromWait ==
  /\ Executing({"wait"})
  /\ threads' = [threads EXCEPT ![current].result = NoStatus, ![cpu.on].pc = "run"]
  /\ rax' = [rax EXCEPT ![cpu.on] =
               IF threads[current].result = NoStatus
               THEN RESOURCE_UNAVAILABLE ELSE threads[current].result]
  /\ told' = [told EXCEPT ![cpu.on] = NoStatus]
  /\ UNCHANGED <<processes, current, cpu, switch, free, lost, mode>>

-----------------------------------------------------------------------------
IsUser(t) == threads[t].proc # KernelProcess

(* yield_now through prepare_switch(false): no switch when the current     *)
(* thread is the only schedulable one.                                     *)
YieldNow ==
  LET next == NextRunnable(threads, current)
      table == [threads EXCEPT ![current] = [SetState(@, "Runnable") EXCEPT !.pc = "yield"]]
  IN  /\ IF next \in {NoThread, current}
         THEN UNCHANGED <<processes, threads, current, switch, mode>>
         ELSE ResumeThread(table, processes, next, {}, FALSE)
      /\ UNCHANGED <<cpu, free, lost, rax, told>>

(* The loops of the terminal and the idle thread, and the Yield syscall.   *)
KernelYield == Executing({"run"}) /\ ~IsUser(cpu.on) /\ YieldNow
UserYield   == Executing({"run"}) /\ IsUser(cpu.on) /\ YieldNow

-----------------------------------------------------------------------------
(* spawn_user_process_and_wait[_silent].                                   *)
Reply(code) == rax' = [rax EXCEPT ![cpu.on] = code]

(* A bad path, a failed file read or a failed load.  A read that fails     *)
(* after the file buffer is allocated, or a load that fails between        *)
(* allocating a page and recording it, loses those pages.                  *)
SpawnRefused ==
  /\ Executing({"run"}) /\ IsUser(cpu.on)
  /\ \E code \in SpawnErrors, gone \in SUBSET free :
       /\ Cardinality(gone) <= IF code = INVALID_PATH THEN 0 ELSE MaxLostPages
       /\ Reply(code)
       /\ free' = free \ gone
       /\ lost' = lost \cup gone
  /\ UNCHANGED <<processes, threads, current, cpu, switch, mode, told>>

(* The program is loaded while the file's buffer is held.                  *)
Loaded(prog) == \E buffer \in free : prog \in Programs(free \ {buffer})

StdioResolves(parent, silent) ==
  \A fd \in (IF silent THEN {0} ELSE Fds) : parent.stdio[fd] # "none"
CanSpawn(parent, silent) ==
  /\ FreeProcessSlots # {}
  /\ StdioResolves(parent, silent)

(* spawn_child_process returns the program: no process slot or no stdio,   *)
(* or no thread slot, which undoes the installed process.  Its pages go    *)
(* back to the allocator.                                                  *)
DropProcess(procs, slot) == [procs EXCEPT ![slot] = FreeProcess]

SpawnUnplaced(silent) ==
  LET parent == processes[threads[current].proc]
      slot == First(FreeProcessSlots)
  IN  /\ Executing({"run"}) /\ IsUser(cpu.on)
      /\ \E prog \in Programs(free) :
           /\ Loaded(prog)
           /\ \/ /\ ~CanSpawn(parent, silent)
                 /\ UNCHANGED processes
              \/ /\ CanSpawn(parent, silent)
                 /\ FreeThreadSlots = {}
                 /\ processes' = DropProcess(
                      [processes EXCEPT ![slot] = ChildProcess(parent, prog, current, silent)], slot)
      /\ Reply(RESOURCE_UNAVAILABLE)
      /\ UNCHANGED <<threads, current, cpu, switch, free, lost, mode, told>>

(* The child is installed with the current thread as its waiting thread,   *)
(* and the current thread blocks in wait_for_child.                        *)
SpawnChild(silent) ==
  LET parent == processes[threads[current].proc]
      slot == First(FreeProcessSlots)
      main == First(FreeThreadSlots)
  IN  /\ Executing({"run"}) /\ IsUser(cpu.on)
      /\ CanSpawn(parent, silent)
      /\ FreeThreadSlots # {}
      /\ \E prog \in Programs(free) :
           LET procs == [processes EXCEPT ![slot] = ChildProcess(parent, prog, current, silent)]
               table == [threads EXCEPT ![main] = NewThread(slot),
                                        ![current] = BlockForChild(@, slot)]
               next == NextRunnable(table, current)
           IN  /\ Loaded(prog)
               /\ free' = free \ prog.pages
               /\ IF next = NoThread
                  THEN /\ threads' = [table EXCEPT ![current].pc = "run"]
                       /\ processes' = procs
                       /\ rax' = [rax EXCEPT ![cpu.on] = RESOURCE_UNAVAILABLE]
                       /\ UNCHANGED <<current, switch, mode>>
                  ELSE /\ ResumeThread(table, procs, next, {}, FALSE)
                       /\ rax' = [rax EXCEPT ![main] = NoStatus]
      /\ UNCHANGED <<cpu, lost, told>>

-----------------------------------------------------------------------------
(* exit_current_process.                                                   *)
ExitingPages(p) == processes[p].owned

RemoveThread(table, t) == [table EXCEPT ![t] = FreeThread]

(* The bootstrap process: the tables are cleared, nothing is released and  *)
(* the machine powers off.                                                 *)
ExitShutdown(status) ==
  LET p == threads[current].proc
  IN  /\ processes[p].action = "ShutdownSystem"
      /\ threads' = RemoveThread(threads, current)
      /\ processes' = DropProcess(processes, p)
      /\ lost' = lost \cup ExitingPages(p)
      /\ current' = NoThread
      /\ mode' = "off"
      /\ UNCHANGED <<cpu, switch, free, rax>>

(* Any other process: its waiting thread is woken with the status and runs *)
(* next; without one the round robin chooses.                              *)
ExitContinue(status) ==
  LET p == threads[current].proc
      waiter == processes[p].waiting
      rest == RemoveThread(threads, current)
      procs == DropProcess(processes, p)
      next == NextRunnable(rest, current)
  IN  /\ processes[p].action = "Continue"
      /\ IF waiter # NoThread
         THEN /\ IF rest[waiter].state = "Free"
                 THEN mode' = "panic" /\ UNCHANGED <<current, threads, processes, switch>>
                 ELSE ResumeThread([rest EXCEPT ![waiter] = WakeWithResult(@, status)],
                                   procs, waiter, ExitingPages(p), TRUE)
              /\ UNCHANGED lost
         ELSE IF next = NoThread
         THEN /\ threads' = rest /\ processes' = procs /\ mode' = "halted"
              /\ lost' = lost \cup ExitingPages(p)
              /\ UNCHANGED <<current, switch>>
         ELSE ResumeThread(rest, procs, next, ExitingPages(p), TRUE) /\ UNCHANGED lost
      /\ UNCHANGED <<cpu, free, rax>>

(* History: the threads that sleep for process p get its status.           *)
SleepsFor(t, p) == threads[t].state = "Blocked" /\ threads[t].reason = p
Tell(p, status) ==
  told' = [t \in ThreadIds |-> IF SleepsFor(t, p) THEN status ELSE told[t]]

ExitWith(status) ==
  /\ Executing({"run"}) /\ IsUser(cpu.on)
  /\ ExitShutdown(status) \/ ExitContinue(status)
  /\ Tell(threads[cpu.on].proc, status)

(* The Exit syscall, and a trap taken in user mode, which exits with 1.    *)
Exit == \E status \in ExitStatuses : ExitWith(status)
UserTrap == ExitWith(1)

-----------------------------------------------------------------------------
(* power::shutdown and halt_forever do not return.                         *)
Stopped == mode \in {"off", "halted", "panic"} /\ UNCHANGED vars

KernelStep ==
  Start \/ Activate \/ Release \/ ContextSwitch \/ Resume \/ ReturnFromWait \/ KernelYield
UserStep ==
  \/ UserYield
  \/ SpawnRefused
  \/ \E silent \in BOOLEAN : SpawnUnplaced(silent) \/ SpawnChild(silent)
  \/ Exit
  \/ UserTrap

Next == KernelStep \/ UserStep \/ Stopped
Spec == Init /\ [][Next]_vars

(* The kernel's own code always continues; user code may compute forever.  *)
FairSpec == Spec /\ WF_vars(KernelStep)

-----------------------------------------------------------------------------
Types ==
  /\ processes \in [ProcessIds -> ProcessRecord]
  /\ threads \in [ThreadIds -> ThreadRecord]
  /\ current \in ThreadIds \cup {NoThread}
  /\ cpu \in [cr3 : Pages \cup {KernelSpace}, rsp0 : ThreadIds \cup {NoThread},
              on : ThreadIds \cup {NoThread}]
  /\ switch \in SwitchRecord
  /\ free \subseteq Pages
  /\ lost \subseteq Pages
  /\ rax \in [ThreadIds -> 0..UsizeMax \cup {NoStatus}]
  /\ mode \in {"boot", "run", "off", "halted", "panic"}
(* The ids in SchedulerState, Process and Thread stay within their tables, *)
(* every answer of spawn_wait is a usize, and a thread has a block_reason  *)
(* exactly while its state is Blocked (thread.rs keeps the two apart, and  *)
(* set_state, block_for_child and wake each change one or both).           *)
TypeOK ==
  /\ Types
  /\ told \in [ThreadIds -> ExitStatuses \cup {NoStatus}]
  /\ \A t \in ThreadIds : threads[t].state = "Blocked" <=> threads[t].reason # NoProcess

(* The expect()s of thread_mut, process_mut and activation, and the        *)
(* halt_forever()s of a scheduler that finds nothing to run, are never     *)
(* reached: no table ever names an empty slot (state.rs "invalid thread    *)
(* id", "invalid process id").                                             *)
NeverStuck == mode \in {"boot", "run", "off"}

(* A user thread sleeps exactly when a live child will wake it: blocked    *)
(* threads and the waiting_thread of live processes name each other, so no *)
(* wake-up is lost and none goes to a thread that was reused.              *)
WaitersMatch ==
  \A t \in ThreadIds, p \in ProcessIds :
    (threads[t].state = "Blocked" /\ threads[t].reason = p)
      <=> (processes[p].live /\ processes[p].waiting = t)

UserThreads == {t \in ThreadIds : threads[t].state # "Free" /\ IsUser(t)}
(* Synchronous spawn: of all user threads exactly one, the innermost       *)
(* child's, is not waiting, and every live user process has one thread.    *)
OneUserRuns ==
  mode \in {"boot", "run"} =>
    /\ Cardinality({t \in UserThreads : threads[t].state # "Blocked"}) = 1
    /\ \A p \in ProcessIds \ {KernelProcess} :
         processes[p].live => Cardinality({t \in UserThreads : threads[t].proc = p}) = 1

(* Between switches the tables and the CPU agree: the executing stack, the *)
(* TSS stack and CR3 are those of the current thread, which is the only    *)
(* Running one (yield_now, wait_for_child and exit_current_process change  *)
(* them in different steps).                                               *)
CpuFollowsScheduler ==
  /\ \A t \in ThreadIds : threads[t].state = "Running" <=> t = current
  /\ (mode = "run" /\ switch.phase = "none") =>
       /\ cpu.on = current
       /\ cpu.rsp0 = current
       /\ cpu.cr3 = processes[threads[current].proc].space

Owners == {p \in ProcessIds : processes[p].live}
(* Every page is in exactly one place: the allocator, one live process, an *)
(* exit in progress, or lost.  Exit gives back all a process owned, so     *)
(* repeated commands cannot use up memory except through failed spawns;    *)
(* and only after the next space is active, so the tables CR3 points to    *)
(* are never free for the next allocation.                                 *)
PagesAccounted ==
  /\ Pages = free \cup lost \cup switch.pages \cup UNION {processes[p].owned : p \in Owners}
  /\ free \cap (lost \cup switch.pages) = {} /\ lost \cap switch.pages = {}
  /\ \A p \in Owners :
       /\ processes[p].owned \cap (free \cup lost \cup switch.pages) = {}
       /\ \A q \in Owners \ {p} : processes[p].owned \cap processes[q].owned = {}
       /\ p # KernelProcess => processes[p].space \in processes[p].owned
  /\ cpu.cr3 \notin free

(* A silenced command stays silent: a child of a process whose output is   *)
(* nulled has nulled output, however it is spawned, and every user process *)
(* can read the terminal.                                                  *)
SilenceInherited ==
  \A p \in Owners \ {KernelProcess} :
    /\ processes[p].stdio[0] = "terminal"
    /\ \A q \in Owners \ {KernelProcess} :
         (processes[q].waiting # NoThread /\ threads[processes[q].waiting].proc = p
            /\ processes[p].stdio[1] = "null") =>
         (processes[q].stdio[1] = "null" /\ processes[q].stdio[2] = "null")

(* The word that spawn_wait returns to a parent is the status that the     *)
(* child it slept for gave to exit, or 1 when that child trapped: not the  *)
(* status of another process, an older one or an error, whatever ran and   *)
(* however slots were reused since the spawn (wait_for_child,              *)
(* prepare_exit_current_process).                                          *)
ExitStatusReachesParent == [][ReturnFromWait => rax'[cpu.on] = told[cpu.on]]_vars

(* What a program is told about a child that ran to its end: "the child    *)
(* exit status is returned to the parent" (user-kernel-interface.md), as   *)
(* liblazer's spawn_wait reads the word.                                   *)
SpawnReportsStatus ==
  [][ReturnFromWait => SpawnReply(rax'[cpu.on]) = [kind |-> "ok", value |-> told[cpu.on]]]_vars

(* Programs that keep yielding keep the terminal running: a user yield is  *)
(* always followed by a round of the terminal thread.  Spawn and exit do   *)
(* not have this effect: they switch between parent and child directly.    *)
TerminalServed ==
  \A t \in ThreadIds :
    (cpu.on = t /\ current # t /\ threads[t].pc = "yield" /\ IsUser(t))
      ~> (cpu.on = TerminalThread /\ threads[TerminalThread].pc = "run")

(* A spawned or yielding user thread gets the CPU back, whatever other     *)
(* programs do.                                                            *)
RunnableRuns ==
  \A t \in ThreadIds :
    (threads[t].state = "Runnable" /\ threads[t].proc \notin {NoProcess, KernelProcess})
      ~> (cpu.on = t /\ threads[t].pc = "run")

(* A parent whose child exited gets the answer of its spawn.               *)
ParentAnswered ==
  \A t \in ThreadIds : (threads[t].result # NoStatus) ~> (threads[t].result = NoStatus)
=============================================================================
