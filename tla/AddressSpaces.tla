--------------------------- MODULE AddressSpaces ---------------------------
(***************************************************************************)
(* The address spaces of the kernel and of user programs: the kernel's     *)
(* first page table and what is added to it at boot (memory/kernel.rs),    *)
(* loading a program into a space of its own (memory/loader.rs) and giving *)
(* its pages back; and, since it lives on such mappings, switching the     *)
(* machine off (power.rs).                                                 *)
(*                                                                         *)
(* A machine says where usable memory, the framebuffer (pages), the AHCI   *)
(* registers and the ACPI tables (words) lie, and how it is switched off.  *)
(* A program whose header is refused leaves no trace; the others are given *)
(* by their loadable segments.                                             *)
(***************************************************************************)
EXTENDS Power, FiniteSets

CONSTANTS
  WindowStart,         \* PHYS_WINDOW_START
  UserImageBase,       \* USER_IMAGE_BASE
  UserStackBase,       \* USER_STACK_TOP less USER_STACK_PAGES
  UserStackTop,        \* USER_STACK_TOP
  MaxSegmentPages,     \* MAX_SEGMENT_PAGES
  AhciPages,           \* pages of an AhciController (4)
  Machines,            \* machines considered
  Programs,            \* programs on the disk
  MaxLive,             \* bound: programs alive at a time
  MaxFailures          \* bound: loads that fail

ASSUME LayoutAssumption ==
  /\ UserImageBase < UserStackBase /\ UserStackBase < UserStackTop
  /\ UserStackTop <= WindowStart /\ WindowStart % PageWords = 0
  /\ AhciPages \in Nat

VARIABLES
  machine,      \* the machine this is
  phase,        \* how far the kernel has come
  m,            \* physical memory and its allocator
  kernelRoot,   \* MemoryState.kernel_space
  shared,       \* MemoryState.shared_kernel_mappings
  driver,       \* pages of the AhciController
  backend,      \* PowerState.backend
  programs,     \* the programs loaded and not ended
  failures,     \* loads that failed so far
  mayLose       \* history: pages those loads may have left without owner

spaceVars == <<machine, phase, m, kernelRoot, shared, driver, backend, programs, failures, mayLose>>

Usable(mc) == {p \in mc.usable : p >= WindowStart}
WindowEnd(mc) == AlignUp(Max(Usable(mc)) + 1, PageWords)
Window(mc) == WindowStart..(WindowEnd(mc) - 1)
Inside(mc, s, e) == s >= WindowStart /\ e <= WindowEnd(mc)

SpacesInit ==
  /\ machine \in Machines
  /\ phase = "memory"
  /\ m = Memory([p \in Pages |-> [i \in Words |-> Junk]], Usable(machine))
  /\ kernelRoot = 0
  /\ shared = <<>> /\ driver = {}
  /\ backend = [kind |-> "Uninitialized"]
  /\ programs = {}
  /\ failures = 0 /\ mayLose = 0

(* A machine that is switched off.                                         *)
SpacesRest ==
  /\ machine = CHOOSE mc \in Machines : TRUE
  /\ phase = "off"
  /\ m = Memory([p \in Pages |-> <<>>], {})
  /\ kernelRoot = 0
  /\ shared = <<>> /\ driver = {}
  /\ backend = [kind |-> "Uninitialized"]
  /\ programs = {}
  /\ failures = 0 /\ mayLose = 0

-----------------------------------------------------------------------------
(* The part of every address space that is the kernel's: the window, and   *)
(* the framebuffer if it does not lie inside.                              *)
MapWindow(n, root) ==
  LET fb == machine.framebuffer
      w == MapIdentity2M(n, root, WindowStart, WindowEnd(machine))
  IN  IF Inside(machine, fb[1], fb[2]) THEN w
      ELSE MapIdentity4K(w, root, fb[1], fb[2], TRUE)

InitMemory ==
  LET root == AllocatePage(m)
      n == MapWindow(root, root.page)
  IN  /\ phase = "memory"
      /\ m' = Settled(n)
      /\ IF Ok(n) THEN phase' = "power" /\ kernelRoot' = root.page
         ELSE phase' = "panic" /\ UNCHANGED kernelRoot
      /\ UNCHANGED <<machine, shared, driver, backend, programs, failures, mayLose>>

Kernel == [m |-> m, root |-> kernelRoot, table |-> shared]

(* power::init.                                                            *)
PowerInit ==
  LET found == Discover(Kernel, machine.acpi.tables, machine.acpi.rsdp)
  IN  /\ phase = "power"
      /\ phase' = "storage"
      /\ m' = found.d.k.m /\ shared' = found.d.k.table
      /\ backend' = found.backend
      /\ UNCHANGED <<machine, kernelRoot, driver, programs, failures, mayLose>>

(* storage::init_root_fs: the controller's registers are mapped and the    *)
(* driver's pages allocated; the kernel panics if either fails.  The rest  *)
(* of the mount is in Mount.                                               *)
AllocateDriver(n) ==
  FoldLeft(LAMBDA s, i : LET a == AllocatePage(s.m)
                         IN  [m |-> a, pages |-> IF Ok(a) THEN s.pages \cup {a.page} ELSE s.pages],
           [m |-> n, pages |-> {}], Upto(0, AhciPages))
StorageInit ==
  LET k == MapKernelRange(Kernel, machine.abar[1], machine.abar[2], TRUE)
      allocated == AllocateDriver(k.m)
  IN  /\ phase = "storage"
      /\ m' = Settled(allocated.m) /\ shared' = k.table /\ driver' = allocated.pages
      /\ phase' = IF Ok(allocated.m) THEN "run" ELSE "panic"
      /\ UNCHANGED <<machine, kernelRoot, backend, programs, failures, mayLose>>

-----------------------------------------------------------------------------
(* load_user_program.                                                      *)
MapSharedContext(n, root) == Replay(MapWindow(n, root), root, shared)

(* UserPageMap: which virtual page lies where.                             *)
Find(map, virt) == SelectInSeq(map, LAMBDA e : e.virt = virt)

(* One page of the program: allocated, mapped, noted in the map, recorded  *)
(* as owned.  After an error in the last three nobody knows the page.      *)
NotePage(map, n, virt, page) ==
  LET full == Len(map) >= MaxSegmentPages
  IN  IF ~Ok(n) THEN [m |-> n, map |-> map]
      ELSE IF full THEN [m |-> Fail(n, "SegmentOverlapCapacityExceeded"), map |-> map]
      ELSE [m |-> Push([n EXCEPT !.page = page]), map |-> Append(map, [virt |-> virt, phys |-> page])]
MapUserPage(map, n, root, virt, writable) ==
  NotePage(map, Map4K(n, root, virt, n.page, writable, TRUE), virt, n.page)
AddPage(st, root, virt, writable) ==
  MapUserPage(st.map, AllocatePage(st.m), root, virt, writable)

(* copy_into: the words of the file, page by page.                         *)
CopyInto(st, seg) ==
  IF ~Ok(st.m) THEN st
  ELSE IF seg.short THEN [st EXCEPT !.m.error = "SegmentExtendsPastFile"]
  ELSE [st EXCEPT !.m.ram =
          [p \in Pages |-> [i \in Words |->
             IF \E e \in Range(st.map) :
                  e.phys = p /\ e.virt * PageWords + i \in seg.start..(seg.start + seg.file - 1)
             THEN Data(seg.tag) ELSE @[p][i]]]]

PageRange(seg) ==
  Upto(seg.start \div PageWords, AlignUp(seg.start + seg.mem, PageWords) \div PageWords)
OutOfRange(seg) ==
  \/ seg.start < UserImageBase * PageWords
  \/ seg.start + seg.mem > UserStackBase * PageWords
  \/ seg.mem < seg.file

LoadSegment(st, root, seg) ==
  IF ~Ok(st.m) THEN st
  ELSE IF OutOfRange(seg) THEN [st EXCEPT !.m.error = "UserImageOutOfRange"]
  ELSE CopyInto(FoldLeft(LAMBDA k, v : IF Find(k.map, v) # 0 THEN k ELSE AddPage(k, root, v, seg.w),
                         st, PageRange(seg)), seg)

LoadStack(st, root) ==
  FoldLeft(LAMBDA k, v : AddPage(k, root, v, TRUE), st, Upto(UserStackBase, UserStackTop))

(* OwnedPages::release: every page recorded goes back; what a free page    *)
(* holds no longer matters.                                                *)
ReleaseNothing(n, owned) == n
Release(n, owned) ==
  [n EXCEPT !.free = @ \cup Range(owned),
            !.ram = [p \in Pages |-> IF p \in Range(owned) THEN [i \in Words |-> Junk] ELSE @[p]]]

(* The whole load, from the root table on; the startup block may not fit   *)
(* (see Startup).                                                          *)
StartupWritten(n, fits) == IF Ok(n) /\ ~fits THEN Fail(n, "StartupArgumentsTooLarge") ELSE n
LoadUnder(n, program, fits) ==
  LET base == [m |-> IF Ok(n) THEN MapSharedContext(n, n.page) ELSE n, map |-> <<>>]
      image == FoldLeft(LAMBDA st, seg : LoadSegment(st, n.page, seg), base, program)
  IN  [root |-> n.page, m |-> StartupWritten(LoadStack(image, n.page).m, fits)]
Load(program, fits) ==
  LoadUnder(Push(AllocatePage([m EXCEPT !.tracked = TRUE, !.owned = <<>>])), program, fits)

(* The pages a load may hold unrecorded when it meets an error: the page   *)
(* AddPage is working on and, if the record is full, the table page that   *)
(* ensure_table allocated beneath it and could not push.                   *)
Unrecorded(error) ==
  CASE error = "OwnedPageCapacityExceeded" -> 2
    [] error \in {"AllocatorExhausted", "SegmentOverlapCapacityExceeded"} -> 1
    [] OTHER -> 0

EndLoad(program, r) ==
  IF Ok(r.m)
  THEN /\ Cardinality(programs) < MaxLive
       /\ programs' = programs \cup {[root |-> r.root, owned |-> r.m.owned, image |-> program]}
       /\ m' = Settled(r.m)
       /\ UNCHANGED <<failures, mayLose>>
  ELSE /\ failures < MaxFailures
       /\ m' = Settled(Release(r.m, r.m.owned))
       /\ failures' = failures + 1
       /\ mayLose' = mayLose + Unrecorded(r.m.error)
       /\ UNCHANGED programs
LoadProgram(program, fits) ==
  /\ phase = "run"
  /\ EndLoad(program, Load(program, fits))
  /\ UNCHANGED <<machine, phase, kernelRoot, shared, driver, backend>>

(* The end of a program (scheduler/core.rs exit_current_process).          *)
EndProgram(p) ==
  /\ phase = "run"
  /\ programs' = programs \ {p}
  /\ m' = Release(m, p.owned)
  /\ UNCHANGED <<machine, phase, kernelRoot, shared, driver, backend, failures, mayLose>>

(* power::shutdown, when the first program ends.  The machine goes off if  *)
(* its control blocks get the sleep types it declares; else the kernel     *)
(* says why not and halts.                                                 *)
NotDeclared == [kind |-> "none"]
PowersOff(writes) ==
  machine.acpi.declared # NotDeclared /\ writes = Perform(machine.acpi.declared)
ShutDown ==
  /\ phase = "run"
  /\ phase' = IF backend.kind = "AcpiSoftOff" /\ PowersOff(Perform(backend)) THEN "off" ELSE "halted"
  /\ UNCHANGED <<machine, m, kernelRoot, shared, driver, backend, programs, failures, mayLose>>

SpacesNext ==
  \/ InitMemory \/ PowerInit \/ StorageInit
  \/ \E program \in Programs, fits \in BOOLEAN : LoadProgram(program, fits)
  \/ \E p \in programs : EndProgram(p)
  \/ ShutDown

-----------------------------------------------------------------------------
AllVirtual == 0..(PageWords * PageWords * PageWords - 1)
Covering(image, v) == {i \in DOMAIN image : v \in Range(PageRange(image[i]))}
Meant(image, a) ==
  LET filed == {i \in DOMAIN image : a \in image[i].start..(image[i].start + image[i].file - 1)}
  IN  IF filed = {} THEN Zero ELSE Data(image[Max(filed)].tag)

ImageRight(p, v) ==
  LET at == Walk(m.ram, p.root, v)
      on == Covering(p.image, v)
  IN  IF on = {} THEN at = NotMapped
      ELSE /\ at.to \in Range(p.owned) /\ at.u
           /\ at.w = p.image[Min(on)].w
           /\ \A i \in Words : m.ram[at.to][i] = Meant(p.image, v * PageWords + i)
StackRight(p, v) ==
  LET at == Walk(m.ram, p.root, v) IN at.to \in Range(p.owned) /\ at.u /\ at.w

(* As long as it lives a program sees its segments at their addresses, as  *)
(* the file has them and zero elsewhere, and a writable stack, in pages of *)
(* its own, and can reach nothing else, whatever is loaded, refused or     *)
(* ended beside it (load_user_program).  A page that two segments share    *)
(* has the rights of the first.                                            *)
ProgramsSeeTheirImage ==
  \A p \in programs :
    /\ \A v \in UserImageBase..(UserStackBase - 1) : ImageRight(p, v)
    /\ \A v \in UserStackBase..(UserStackTop - 1) : StackRight(p, v)
    /\ \A v \in AllVirtual \ (UserImageBase..(UserStackTop - 1)) : ~Walk(m.ram, p.root, v).u

DevicePages ==
  Window(machine) \cup (machine.framebuffer[1]..(machine.framebuffer[2] - 1))
    \cup (PageDown(machine.abar[1])..(PageUp(machine.abar[2]) - 1))
RecordedPages == UNION {shared[i].start..(shared[i].end - 1) : i \in DOMAIN shared}
(* Every address space shows the kernel, at their own addresses, the whole *)
(* window, the framebuffer and the AHCI registers, to read and write, and  *)
(* each recorded mapping: the kernel goes on under the page table of       *)
(* whatever program runs, and reads the disk under it                      *)
(* (map_shared_kernel_context).                                            *)
KernelSeenEverywhere ==
  phase = "run" =>
    \A root \in {kernelRoot} \cup {p.root : p \in programs} :
      /\ \A v \in DevicePages \cup RecordedPages : Walk(m.ram, root, v).to = v
      /\ \A v \in DevicePages : Walk(m.ram, root, v).w

OwnedBy(p) == Range(p.owned)
KernelPages == TablePages(m.ram, kernelRoot) \cup driver
Lost == Usable(machine) \ (m.free \cup KernelPages \cup UNION {OwnedBy(p) : p \in programs})
(* Every usable page is free, one of the kernel's tables, one of the disk  *)
(* driver's or owned by one program; the tables of a program are among its *)
(* pages, so its end returns them.  A load that fails gives back all it    *)
(* took (OwnedPages::release) but what it holds unrecorded: two pages at   *)
(* most if the record of owned pages is full, one if memory or the page    *)
(* map is, none if the image or its arguments are refused.                 *)
PagesPartitioned ==
  phase = "run" =>
    /\ m.free \cap KernelPages = {} /\ driver \cap TablePages(m.ram, kernelRoot) = {}
    /\ \A p \in programs :
         /\ OwnedBy(p) \cap (m.free \cup KernelPages) = {}
         /\ Cardinality(OwnedBy(p)) = Len(p.owned)
         /\ TablePages(m.ram, p.root) \subseteq OwnedBy(p)
         /\ \A q \in programs : p # q => OwnedBy(p) \cap OwnedBy(q) = {}
    /\ Cardinality(Lost) <= mayLose

NothingLeft == m.free = {} \/ Len(shared) = MaxSharedMappings
(* A machine that declares how it is switched off is switched off at the   *)
(* end of the session, whichever of the tables' versions say so; only when *)
(* the tables could not be mapped, because memory or the record of         *)
(* mappings was full, does the kernel halt instead (shutdown in power.rs). *)
ShutdownPowersOff ==
  LET mapped == backend.kind = "Unavailable" => backend.error # "MappingFailed"
  IN  /\ phase = "halted" /\ machine.acpi.declared # NotDeclared => ~mapped
      /\ phase = "storage" /\ ~mapped => NothingLeft
=============================================================================
