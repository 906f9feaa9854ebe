# Verification of lazers

lazers is a small cooperative x86_64 operating system: a kernel, a user library
(`liblazer`) and a shell (`lash`). There is one CPU, no preemption and no device
interrupt. A program runs until it makes a system call that switches threads,
and a parent that starts a child sleeps until the child exits.

This directory holds TLA+ models of its parts, TLC configurations that check
them on small instances, and TLAPS proofs, for instances of any size, about the
scheduler, the page allocator, the boot, storage from the AHCI port to the file
system, the shell and the environment, paths, the console, the keyboard and the
interactive session.

## 1. Inventory

| Part | State it keeps | Operations | How it interacts | What makes it correct |
|---|---|---|---|---|
| Scheduler and process service (`scheduler/`, `thread.rs`, `process.rs`) | 8 process slots, 12 thread slots, current and idle thread, saved contexts | start, yield, spawn-and-wait, wait, exit, trap, shutdown | called by syscalls and by the terminal and idle threads; owns the pages of processes; drives CR3, `TSS.rsp0` and stacks | the tables, the CPU and the pages agree; sleepers and wakers match; a child's status reaches its parent |
| Page allocator (`memory/allocator.rs`) | up to 128 free ranges | add, reserve, allocate, free | loader, kernel buffers, page tables | no page is handed out twice or lost |
| Keyboard and terminal input (`keyboard.rs`, `terminal.rs`, `main.rs`) | shifts, prefix flag, 64 events, 256 input bytes | poll, dispatch, read | terminal thread polls, programs read stdin | programs read what was typed |
| Console (`console.rs`) | cells, cursor, row lengths, floor | write byte, new line, scroll, backspace | fed by the terminal thread and by kernel messages | the screen shows what was written |
| Interactive session (`repl.rs`, `terminal.rs`) | line buffer, 1024 output bytes | edit, submit, print, flush | lash writes, the terminal thread flushes when somebody yields | the line on the screen is the line executed |
| lash parser (`lash/src/lib.rs`) | segments, words | scan, tokenize | a line from the editor, words to execution | quotes and escapes are honoured |
| lash execution (`shell.rs`, `commands.rs`, `builtins.rs`, `paths.rs`) | last status, cwd for the prompt | execute line, built-ins, PATH search, `where` | spawn-and-wait, files, environment | operators and the search order are honoured |
| Paths and cwd (`storage/path.rs`, `lash/src/paths.rs`) | cwd of a process | resolve, chdir | every file call; `where` | the kernel and lash mean the same file |
| Environment (`env.rs`) | 16 variables per process | set, get, unset, list, inherit | syscalls; spawn copies | behaves as a map |
| FAT32, root filesystem (`fat32.rs`, `rootfs.rs`) | mounted volume | resolve, list, read | block device below, file calls and loader above | answers are what the disk holds |
| AHCI port (`ahci.rs`) | one command slot, one table, one DMA buffer | initialise, read sector | controller works on its own | the sector returned is the one asked for |
| Page tables and address spaces (`memory/paging.rs`, `memory/kernel.rs`, `memory/loader.rs`) | tables in RAM, the kernel's root table, 16 recorded kernel mappings, up to 176 owned pages a program | build the kernel space, map and record a range, load a program, free its pages | pages from the allocator; the recorded mappings are replayed into every program's space; file contents from the root filesystem | a program sees its image and nothing else, the kernel sees itself under every table, no page is lost |
| Program arguments and user buffers (`liblazer/process.rs`, `runtime.rs`, `syscall.rs`, `memory/user.rs`, startup part of `loader.rs`) | a payload, a call, the top of the new stack | pack, check, lay out, read back | liblazer, kernel and the child's runtime each do a part | the child reads the arguments the parent passed; the kernel touches user memory only |
| Finding and mounting the disk (`pci.rs`, `ahci.rs`, `gpt.rs`, `fat32.rs`, `rootfs.rs`) | controller, port, partitions, volume | scan, probe, read tables, mount | once at boot, through the AHCI port | the system partition is the one mounted, and its clusters lie inside it |
| Power (`power.rs`) | the discovered way to switch off | discover, shut down | maps ACPI tables through the kernel mappings | a machine that can be switched off is |
| UEFI loader, boot info, ELF (`boot/uefi-loader`, `libs/boot-info`, `libs/elf`) | firmware allocations, the normalized map | load the kernel, leave boot services, jump | firmware; `BootInfo` to the kernel | the kernel starts as in its file, and nothing of the handoff is given out as free |
| Serial port, font, GDT/IDT set-up, user tools, build scripts | | | | not modelled: section 7 |

What is hard to test here: the steps inside a context switch; nested spawn and
exit; slot, range, queue and buffer limits; output that overtakes other output;
a disk command that completes after it was given up; a load that fails at any of
its allocations; page tables edited while the same memory holds other data; tables
that firmware wrote in another version; algorithms implemented twice (path
resolution, quoting, arguments) that must agree. `PROJECT.json` lists each such
hazard at its line with the properties that would catch it.

## 2. Plan

1. Scheduler and its abstract specification SpawnWait; proofs. *Done.*
2. Page allocator against PagePool. *Done.*
3. Text path: TerminalInput, Console, TextSession. *Done.*
4. Storage: Fat32, Ahci, and Mount for what comes before them. *Done.*
5. Process context and shell: Paths, Environment, LashParser, Lash. *Done.*
6. Address spaces: PageTables, KernelMappings, AddressSpaces, with Power, which
   lives on those mappings. *Done.*
7. From parent to child: Startup. From firmware to kernel: Elf, UefiBoot. *Done.*
8. Proofs: the scheduler's invariants and its refinement to SpawnWait; the allocator
   with its refinement to PagePool; the environment's refinement to EnvMap; the order
   of execution and the PATH search of lash; user buffers; the AHCI port and the
   clusters of a volume; the handoff from the loader. *Done.*
9. Proofs: the text path (console, keyboard, ring buffers, the line on the screen, the
   flush before power-off), both path resolvers, which partition is mounted, what the
   file system answers, how arguments reach a program. *Done.*
10. Left: the parser of lash, page tables (section 5 says why).

## 3. Modules

| Module | Models | State |
|---|---|---|
| `Scheduler` | `scheduler/*`, `thread.rs`, `process.rs` | both tables, `current_thread`, CR3/rsp0/executing stack, the prepared switch, free and lost pages, rax of each thread |
| `SpawnWait` | what spawn and exit promise a program | a call stack |
| `SchedulerRefinement` | mapping of `Scheduler` to `SpawnWait` | |
| `SchedulerProofs`, `SpawnWaitProofs` | theorems about `Scheduler`: tables and CPU; processes and their pages; the refinement | |
| `PhysAllocator`, `PagePool` | `memory/allocator.rs` with the boot-time part of `memory/kernel.rs`; a set of pages | the range array; the set |
| `Ring` | `ByteQueue`, `EventQueue` | |
| `TerminalInput` | `keyboard.rs`, input half of `terminal.rs`, loop of `main.rs` | decoder, both queues, the controller's bytes |
| `Screen`, `Console` | what a reader expects; `console.rs` | cells, cursor, row lengths, floor |
| `TextSession` | `repl.rs`, output half of `terminal.rs`, `print!` | queues, line, screen as lines |
| `LashParser`, `Paths` | `lash/src/lib.rs`; `storage/path.rs` and `lash/src/paths.rs` | a line and its parse; cwd and a path |
| `Environment`, `EnvMap` | `env.rs` and its syscalls; a map per process | entry arrays; maps |
| `Lash` | `shell.rs`, `commands.rs`, `builtins.rs`, PATH part of `paths.rs` | segments, status, PATH, the files on it |
| `Fat32` | `fat32.rs`, `rootfs.rs` | a disk, a walk along a chain |
| `Ahci` | port part of `ahci.rs`; the controller (external) | registers, command table, DMA buffer |
| `Mount` | `pci.rs`, port search of `ahci.rs`, `gpt.rs`, `Fat32::mount`, `mount_root_fs` | how far the mount has come and what it found |
| `PageTables`, `KernelMappings` | `memory/paging.rs`; `map_kernel_identity_range` and its record in `memory/kernel.rs` | none: operators on the words of RAM |
| `Power` | discovery and shutdown of `power.rs` | none: operators on mapped tables |
| `AddressSpaces` | `memory/kernel.rs`, `memory/loader.rs`, the boot order of `main.rs` | RAM word by word, free pages, kernel root, recorded mappings, loaded programs, the power back end |
| `Startup` | `process.rs` and `runtime.rs` of liblazer, spawn in `syscall.rs`, `memory/user.rs`, startup block of `loader.rs` | the call, the child's stack byte by byte, what the child has read |
| `Elf`, `UefiBoot` | `libs/elf`; `boot/uefi-loader`, `libs/boot-info`, first steps of `memory/kernel.rs`; the firmware (external) | type and contents of every page, the loader's allocations, `BootInfo` |
| `Text`, `Shell`, `Storage`, `Memory` | the modules of one area side by side | |
| `ShellProofs` | theorems about `Lash`, `Startup` and `Environment` | |
| `StorageProofs` | theorems about `Ahci`, `Mount` and `Fat32` | |
| `TextProofs`, `SessionProofs` | theorems about `Console`, `TerminalInput` and `Paths`; about `TextSession` | |
| `MemoryProofs`, `BootProofs` | theorems about `PhysAllocator`; about `UefiBoot` | |
| `MCShell`, `MCStorage`, `MCMemory` | the machines, disks, programs and calls of the runs | |

Each action is one handler of the code, up to the places where somebody else can
run: the three steps of a switch are actions because the tables and the CPU
disagree between them, a walk along a cluster chain is cut at the device reads,
and the AHCI driver at its register reads. Everything else is atomic because
nothing interrupts kernel code: a whole load, with each of its failures, is one
action of `AddressSpaces`, written as operators that thread the memory and the
first error through, as `?` does.

`Text`, `Shell`, `Storage` and `Memory` put parts side by side that do not share
state in the code or meet only through what one of them states of the other; each
part is taken through its states while the others rest in their initial state, so
that a run costs the sum and not the product.

Three modules carry history variables, which no action reads: `told` in `Scheduler` (the
status that the child a thread sleeps for gave to exit), `said` in `TextSession` (all that
reached the console or was accepted by the output queue) and `mayLose` in `AddressSpaces`
(the pages that failed loads may have left unrecorded, by the error they met).

The data are reduced to what the properties tell apart: a page is a value, a
program its pages, a key "changed by shift" or not, a directory slot a name, the
end mark or something to skip, a sector its number. `PROJECT.json` maps every
definition to the lines it stands for. Operators named like an alternative of the
definition below them (`NextRunnableFromZero`, `TouchesStrictly`, `PartWithoutClamp`)
are deliberate mistakes: put in the place of the real one, each makes one property
fail, which shows that the property looks at that code.

Where the models simplify:

- `Scheduler` chooses the pages of a program freely instead of first-fit, which
  includes what the allocator does. A failing load or file read may lose pages
  (`loader.rs:74-77` returns between allocating a page and recording it,
  `rootfs.rs:35` drops the file buffer): up to `MaxLostPages` at a time.
- A program may exit with any of `ExitStatuses`, spawn error codes included; the traps of
  a program count as status 1, as in `arch.rs`.
- `Console` has at least two text rows; `TextSession` lines do not wrap (wrapping
  is `Console`'s subject).
- `Lash` takes words, not bytes, and `Fat32` takes names; byte handling is in
  `LashParser` and `Paths`.
- The disks of `Fat32` have chains that end; the chain of a file may be shorter
  than its size says or run into a bad cluster. The refusal of a cluster number outside
  the volume (`cluster_to_lba`) is not an outcome of the directory walks; what the
  arithmetic of `cluster_to_lba` gives is in `Mount`.
- `PageTables` has three levels of `PageWords` entries instead of four of 512; the
  directory entries above the lowest level may be large pages, as in the code.
  Registers, file bytes and the header of a program are given, not decoded.
- In `Power` a four-character name of AML counts as one byte, and checksums are
  right or wrong.
- `Mount` compares partition names as values; sectors count in units of 128 bytes so
  that every legal entry size occurs.
- The firmware of `UefiBoot` may put an allocation on any free pages; sums of
  64-bit addresses do not overflow. The buffer that holds the firmware's memory map
  (`LOADER_DATA`, dead once the kernel runs) is not among the allocations.
- The controller of `Ahci` is modelled from how the driver uses it: it fetches the
  command table some time after the issue bit is set, moves the sector, clears the
  bit, and may fail or be arbitrarily slow.

## 4. Runs

| Run | Module | Bounds | Shows |
|---|---|---|---|
| `scheduler` | SchedulerRefinement | 5 process and 5 thread slots (kernel, three nested programs; a fourth finds no thread), 5 pages, programs of 1 or 2 pages, 2 lost pages, statuses 0, 1 and an error code, page symmetry | all safety properties and the refinement to SpawnWait |
| `scheduler_live` | Scheduler | 3 process and 4 thread slots (a program and its child; a third finds no process slot), 4 pages, no symmetry | liveness |
| `text_session` | TextSession | input 3, output 2, line 2, 4 keys, two writes of up to 3 bytes | the line is on the screen; at power-off all accepted output is; entered lines are read |
| `text` | Text | input: queues of 2, 3 bytes in the controller, 4 strokes; console: 2 columns, 3 rows, 10 bytes; parser: lines to 6 bytes over 7 symbols, 2 segments, 2 words, 3 bytes; paths: to 5 bytes, buffer 7, 2 components | faithful input through full queues, prefixes and mouse bytes; grid, cursor and floor through wrapping, scrolling and erasing; parser and both resolvers against references |
| `shell` | MCShell | 3 segments, 2 PATH entries, 4 kinds of file; 2 variables, keys and values of 1 byte, 2 buffer sizes, a parent and a child; 4 arguments of up to 2 bytes, a payload of 8, 8 edges of the address space for each buffer | operators, search order, `where`; arrays implement maps; arguments reach the child, the startup block is sound, buffers stay in user space |
| `storage` | MCStorage | 2 slots a cluster, directories and a file of up to 2 clusters, 2 buffers; 3 sectors, 2 polls before a time-out; 6 buses, 181 partition tables, 291 boot sectors | every answer is right or an error; the right sector or an error; the command list is set only while the engine is stopped, which starts on no other list; the system partition is mounted with clusters that lie in it |
| `memory` | MCMemory | 52 pages of 4 words, two user page tables as in the code, 8 programs, 3 alive, 3 failed loads, 12 owned pages, 7 recorded mappings, 77 variants of the ACPI tables; allocator: addresses to 9, range table of 3, requests of 1 and 2 pages; boot: 14 pages of 2 bytes, every placement | programs and kernel see what they should, pages are accounted for, power-off; array code against a set of pages, panic only when the free pages really are too fragmented; the handoff is disjoint and the kernel as in its file |
| `full_directory`, `later_function`, `later_port` | MCStorage | the same | violated: section 6 |
| `acpi_window` | MCMemory | the same, one machine | violated: section 6 |
| `status_taken_for_error` | Scheduler | 3 process and 4 thread slots, statuses 1 and an error code | violated: section 6 |

The bounds let each limit be hit: tables, queues and buffers are smaller than
what the actions put in, and every counter that only bounds the search
(`MaxStrokes`, `MaxKeys`, `MaxWrites`, `MaxBytes`, `MaxLine`, `MaxPath`,
`MaxDonations`, `MaxLive`, `MaxFailures`) is at least what it takes to overrun the
limit it has to overrun. In `memory` the eight programs are one for each way a load
can end, with a record of owned pages that some of them overrun at a page table, some at a
page and some not at all; machines with 2 to 9 usable pages fail at every allocation of the boot in
turn, and machines with more ACPI tables than recorded mappings fill that table. In
`shell` each end of a buffer lies at, below and above each border of user space.
Deadlock is checked except where a bound or the end of a boot, a mount, a line or a
session ends the behaviour (`text`, `shell`, `storage`, `memory`).

Fairness. In `scheduler_live` only kernel code is fair (`WF` of `KernelStep`):
there is one CPU and kernel code never waits, while a program may compute for
ever, so the properties speak of programs that yield or exit. In `text_session`
the terminal thread and lash's editor loop, which yields after every byte, are
weakly fair, and commands end (`SF` of the step that ends one): the property is
about the editor, not about a command that hangs.

## 5. Proofs

Each theorem holds for every value of the constants that satisfies the named
assumptions of the modules, which TLC evaluates in the runs. The steps of a proof
follow the actions; an invariant is proved together with what makes it inductive.

**Scheduler** (`SchedulerProofs`; `SchedulerAssumption`: at least two process and three
thread slots, finitely many pages, statuses within a usize). `SchedulerInvariant` is
`Spec => []IInv`; `TypeCorrect`, `SchedulerNeverStuck`, `WaitersCorrect` and
`CpuCorrect` follow. None of the four is inductive alone. That exit finds somebody to
run needs to know that the kernel's threads never wait and never exit (`KernelInv`);
that a waiter can be woken needs it to belong to a live process and at most one program
to be awake (`SlotsInv`, `WaitInv`); that the CPU ends a switch in the right place needs
the prepared switch to agree with the tables while it is performed (`CpuInv`).

**Processes** (`SchedulerProofs`). `ProcessInv`, on top of `IInv`, says which pages a
process owns, whose output is silenced, that a user process has one thread and who waits
for whom. The actions change this in five ways only (`Stays`, `Returns`, `Begins`,
`Ends`, `Finishes`), so the step is proved once per effect. It gives `PagesNeverLeakOnExit`,
`SilenceCorrect` and `SpawnIsSynchronous`.

**Refinement to SpawnWait** (`SpawnWaitProofs`). The abstract call stack is not a variable
of the scheduler: `StackInvariant` shows that the live user processes, linked by who waits
for whom, form one chain without a cycle. With it `SchedulerImplementsSpawnWait` maps every
step to a call, a return or a stutter, for raw words and any statuses. `ToldInv` says that
the result stored in a woken thread is the status its own child gave to exit, and that a
thread which still sleeps has been told nothing; `StatusReachesParent` follows, for every
status. What liblazer makes of the word is another matter (section 6).

**Page allocator** (`MemoryProofs`; `AllocatorAssumption`). `AllocatorInv` has three parts:
the table is sorted and no two of its ranges touch, at any distance (`TableInv`); pages
held and pages free are disjoint, and nothing is held before the map has been read
(`UseInv`); both lie in the window (`WindowInv`). Because ranges never touch, those that a
new range touches are consecutive: this is what `insert_range` relies on when it absorbs
them in one pass, and the reason why first fit finds every run of free pages. It gives
`AllocatorCorrect`, `AllocatorImplementsPool` and `PanicJustified`.

**Boot** (`BootProofs`; `UefiBootAssumption`: pages count from 0, program headers hold
unsigned numbers). The descriptors of the memory map are the runs of pages of one type,
and together they cover every page; so what the kernel is handed is what was
conventional when boot services ended. `BootInv` says that a page has its first type unless
the loader claimed it, that only conventional pages are claimed, and that each segment
loaded so far lies in place: a later segment cannot overwrite it, for its pages are no
longer conventional. It gives `HandoffCorrect`.

**Environment** (`ShellProofs`; `EnvironmentAssumption`). `ChainInv`: every table is
dense, has no name twice and keeps to the limits. It gives `EnvironmentImplementsMap`,
`inherit_into` included, whose loop copies a table entry by entry.

**Shell** (`ShellProofs`; `LashAssumption`, `StartupAssumption`). `OrderInv` says of every
segment behind the loop why it ran or was skipped, and that the status at hand is that of
the nearest one that ran; it gives `OperatorsCorrect` for lines of any length. `FoundInv`
says what a search has seen so far; it gives `FirstOnPathCorrect` and `WhereCorrect`, under
the hypothesis `FILE_NOT_FOUND \notin Statuses` (a program that exits with that word looks
like a missing file). `CallInv` says that a call which passed the check is still the one
that was checked; `UserBuffersCorrect` follows from the arithmetic of the check.

**Arguments** (`ShellProofs`; `StartupAssumption`: an address fits a word, liblazer's buffer
fits the stack, paths and arguments of liblazer are `&str`, a path lies whole in the image
and has no NUL). Three encodings cancel out. Cutting a list at its NULs undoes packing it:
bytes are cut in one way only (`OnlyCut`), so that `SplitOfPacked` and `PackedOfSplit` hold
without a bound on either. A word up to the top of the stack is what its bytes make again
(`WordReadBack`). And the layout leaves room for each word and string (`Room`), which makes
the block that is written the block that is read (`BlockReadBack`). `StartInv` carries this
through the call: until the child has read everything, what it has read is the beginning of
what the call asked for; and a call that liblazer made fails only if its list cannot be
carried. It gives `ArgumentsCorrect` and `StartupBlockCorrect`.

**Storage** (`StorageProofs`; `AhciAssumption`, `MountAssumption`, `Fat32Assumption`). `PortInv`
says, for each place in the driver, what the controller may still be doing: the engine
stands still while the lists are set, and after each poll the command table belongs to one
side; from the moment the lists are set they are the kernel's, so the engine cannot start on
the firmware's. It gives `SectorReadsRight` and `ListChangesAtRest`. `MountInv` says that the entries
kept come from the table on the disk and that what was checked of the boot sector holds of
the volume; with the arithmetic of `cluster_to_lba` it gives `ClustersCorrect`. `TableInv`
says that the controller is the first of the scan, that the partitions kept are what a loop
over the slots of the sectors read so far keeps (`Keeps`), that they are all the table
declares once the last sector is read, and that what failed was to fail; with the division
of a table into sectors and slots it gives `SystemMountedCorrect`. `MountAssumption` asks
of the machines only what hardware and format give: places on the bus within the bus,
sectors that are not empty, numbers that are unsigned. `FileInv` says how far a walk is in
the chain of its directory or file and what it has seen: no name and no end mark in the
clusters behind it, the listing so far equal to what they show, the bytes so far to what
they hold. That a walk over clusters and the tree read from the whole chain agree needs
what a filter does to a concatenation (`NamedJoin`, `Joined`). It gives `AnswersRight`, for
any number of slots in a cluster and any contents; chains have the lengths the model gives
them.

**Console** (`TextProofs`; `ConsoleAssumption`). `Shows` relates grid and document: the rows
are the lines of the document, wrapped, from the first one not scrolled away; row lengths,
cursor and floor are where the document says. Every byte keeps it, also where a line wraps
at the last row and where a backspace goes up a row (`ConsoleCorrect`).

**Keyboard and terminal input** (`TextProofs`; `TerminalInputAssumption`). `Pending` joins
what was read, the input ring, the event ring and the controller's bytes, decoded from the
shifts and the prefix that the driver holds, into one way from keys to programs; what it
yields is a subsequence of what was typed, and all of it while nothing was refused. The
keyboard's own state at the far end of the way agrees with the decoder's once the bytes
between them are decoded, which is why a prefix whose second byte has not arrived is safe.
`InputCorrect` follows for rings of any size.

**Paths** (`TextProofs`; `PathsAssumption`). `PathInv`: every working directory is `Canonical`,
the spelling of a list of names. The kernel's loop, lash's loop and the reference keep
abreast: after each segment the buffer spells the names that remain, and the starts the
kernel keeps are where those names begin, so that taking a name back by start, by last slash
and by list is the same. Bounds on bytes and names show that a refusal is a path that could
not fit, the working directory counted only where it is used. It gives `ResolverCorrect` and `ResolversAgreeCorrect`.

**Session** (`SessionProofs`; `TextSessionAssumption`). `SessionInv`: the output queue is empty
whenever the editor runs, so that an echo is never refused, and the screen, once flushed, is
the prompt's with the line behind it. At every step the screen with the queue behind it is
what the history says was due, bytes that a full queue refused left out; the exit flushes,
so at power-off the screen alone is. It gives `LineOnScreenCorrect` and `ShutdownShowsAll`.

The prover cannot instantiate its library's induction theorems, but it can use that every
non-empty set of naturals has a least element (`LeastNatural`, from well-foundedness). With
it the loops of the code, which are recursive functions in the models, are reasoned about
for inputs of any length: the least index at which a claim fails cannot exist (`UpTo`), and
a function defined by recursion up to a bound exists (`Recursion`).

Only model-checked:

- liveness (`TerminalServed`, `RunnableRuns`, `ParentAnswered`, `EnteredLineIsRead`): the
  prover has no fairness or `ENABLED`;
- `ParsedAsMeant`: the parser's loops are folds, and its reference numbers the bytes of a
  word by cardinality and the words by sorting a set, which the provers do not see through;
- `ProgramsSeeTheirImage`, `KernelSeenEverywhere`, `PagesPartitioned` and
  `ShutdownPowersOff`: a whole load is a fold over RAM; and they do not hold of every
  machine. On one whose ACPI tables lie in the window the kernel overwrites its own pages
  (`acpi_window`, section 6), and nothing in the code excludes such a machine, so a theorem
  would need an assumption that the code does not justify.

## 6. Where code and documents disagree

Shown by a run that expects the violation:

- **A full directory cannot be listed** (`full_directory`). `next_cluster` reports
  the end of a chain as `FileNotFound` and `read_dir` passes it on, so a directory
  without an unused slot in its last cluster is refused
  (`docs/architecture/storage-and-loading.md:114`). Name lookup is not affected.
- **ACPI tables inside the window** (`acpi_window`). `ensure_table` takes any present
  entry for a table. When the ACPI tables lie in a hole of usable memory, the window
  covers them with a large page; mapping them writes page-table entries into the RAM
  at its start and maps nothing (`memory/kernel.rs:90` promises an identity mapping),
  and every load writes them again, over whatever program owns that page.
- **A controller that is a later function** (`later_function`). The offset used for
  the PCI header type is that of the cache line size, so later functions are not
  looked at, although `pci.rs:39` says the scan covers configuration space.
- **A disk at a later port** (`later_port`). `HbaPort` is 0x70 bytes long where ports
  are 0x80 apart; `rootfs.rs:51` promises the first AHCI disk.
- **A status taken for an error** (`status_taken_for_error`). Exit statuses and spawn errors
  share one word (`liblazer/src/process.rs:52`): a child that ran and exited with one of the
  four highest statuses is reported as a spawn that failed, although
  `docs/architecture/user-kernel-interface.md:112` promises the status. The kernel hands the
  word on faithfully (`ExitStatusReachesParent`). With `FILE_NOT_FOUND` the shell would go on
  to the next program on PATH; `FirstOnPathRuns` is stated for programs that exit otherwise.

Met while modelling; the models state them as exceptions or leave them out:

- An escaped space at the end of a command is lost: `scan_segments` trims it and the
  backslash left over is refused. `ParsedAsMeant` states this as its one exception.
- An empty argument: a test of lash keeps `""` as an argument (`lash/src/lib.rs:482`), and
  the loader refuses the spawn as an invalid executable (`loader.rs:181`).
  `ArgumentsReachChild` states this as an exception; without it TLC refutes it.
- A load that fails loses the page it was working on, and with a full record of owned pages
  also the table page that `ensure_table` could not push (`loader.rs:74`, `paging.rs:104`).
  `PagesPartitioned` allows each error its pages and no more.
- A line is parsed segment by segment while it runs: an earlier command has run when a later
  one is refused (`shell.rs:66-88`). `ParsedAsMeant` is stated per segment.
- A prompt that meets a full output queue is cut; `LineOnScreen` asks for what was accepted.
- The serial port shows more than the terminal (`terminal.rs:46`): a byte is sent to
  the port before the output queue can refuse it.
- A late disk command: a read that times out leaves its command in the issue register.
  If the controller fetches it only after the next read has found the device ready,
  that read can take the completion for its own. `RightSector` excludes commands that
  were abandoned before they were fetched; without that exclusion TLC refutes it.
- A cluster chain that loops is followed for ever (`fat32.rs:296`); chains here end.
- Partition entries behind `entry_count` in the last sector of the table are read too
  (`gpt.rs:42`), and entries that do not divide a sector are cut at its end.
- Two segments that share a page keep the rights of the first (`loader.rs:72`);
  `ProgramsSeeTheirImage` states it so.
- More ACPI tables than fit the record of mappings leave no slot for the AHCI
  registers, and the boot panics (`memory/kernel.rs:195`). The machines of `memory`
  with that many tables do.
- `_S5_` written with a root prefix is not found (`power.rs:469`), and the declared
  length of a table is mapped before its checksum is known (`power.rs:273`).
- A loader that fails after leaving boot services returns to firmware it has left
  (`uefi-loader/src/main.rs:57`); a boot stack or `BootInfo` outside the window ends
  in a page fault, which `UefiBoot` has as an outcome of its own.

## 7. Not modelled

The serial port and the font are output and data. GDT, IDT and TSS set-up configures
hardware once. The user tools and the self test are straight-line clients of the
system calls; `TextSession` lets a command do all they can do to the terminal. File
calls that only pass a checked buffer to the filesystem, and the registers a system
call uses, are left out: the check is in `Startup`, the filesystem in `Fat32`. The
build scripts are not part of the running system.
