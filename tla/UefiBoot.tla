------------------------------ MODULE UefiBoot ------------------------------
(***************************************************************************)
(* From firmware to kernel: the UEFI loader (boot/uefi-loader) and the     *)
(* first thing the kernel does with what it is handed (memory/kernel.rs).  *)
(* The loader allocates from the firmware, loads the kernel's segments at  *)
(* their addresses, leaves boot services with a normalized memory map and  *)
(* jumps; the kernel then lives on its own page table, which shows the     *)
(* window over usable memory and nothing else of RAM.                      *)
(*                                                                         *)
(* The firmware is external: it may place an allocation on any free pages. *)
(* RAM holds, at each address, which byte of the file, zero or junk.       *)
(***************************************************************************)
EXTENDS Elf, FiniteSets, SequencesExt

CONSTANTS
  PageBytes,        \* PAGE_SIZE
  StackPages,       \* KERNEL_STACK_PAGES
  TableCapacity,    \* MEMORY_REGION_CAPACITY
  WindowFirst,      \* PHYS_WINDOW_START, a page
  WindowUnit,       \* pages of a 2 MiB mapping
  Firmwares         \* machines to boot on, with the kernel on their disk

(* Pages count from 0; what a program header holds is unsigned.            *)
ASSUME UefiBootAssumption ==
  /\ {PageBytes, StackPages, TableCapacity, WindowFirst, WindowUnit} \subseteq Nat \ {0}
  /\ \A f \in Firmwares :
       /\ IsFiniteSet(DOMAIN f.types) /\ DOMAIN f.types = 0..(Cardinality(DOMAIN f.types) - 1)
       /\ f.kernel.headers \in Seq(ProgramHeaders)

VARIABLES
  fw,        \* the machine
  at,        \* how far the boot has come
  types,     \* the type of each page, until boot services are left
  ram,       \* what lies at each address
  loaded,    \* program headers dealt with
  taken,     \* pages of the loader's own allocations, by name
  info,      \* BootInfo
  failure    \* BootFailure or the kernel's panic
bootVars == <<fw, at, types, ram, loaded, taken, info, failure>>

Page(a) == a \div PageBytes
PagesFrom(p, n) == p..(p + n - 1)
ZeroByte == -1
JunkByte == -2
NoInfo == [regions |-> <<>>, rsdp |-> 0]
Names == {"file", "regions", "info", "stack"}

BootInit ==
  /\ fw \in Firmwares /\ at = "read" /\ types = fw.types
  /\ ram = [a \in 0..(PageBytes * Cardinality(DOMAIN fw.types) - 1) |-> JunkByte]
  /\ loaded = 0 /\ taken = [n \in Names |-> {}] /\ info = NoInfo /\ failure = "none"

BootRests ==
  /\ fw = <<>> /\ at = "off" /\ types = <<>> /\ ram = <<>>
  /\ loaded = 0 /\ taken = <<>> /\ info = NoInfo /\ failure = "none"

Fails(error) ==
  /\ at' = "failed" /\ failure' = error
  /\ UNCHANGED <<fw, types, ram, loaded, taken, info>>
Goes(to) == at' = to /\ UNCHANGED <<fw, failure>>

(* The firmware's allocator: pages that are Conventional become            *)
(* LOADER_DATA.                                                            *)
Conventional(ps) == ps \subseteq DOMAIN types /\ \A p \in ps : types[p] = "CONVENTIONAL"
Own(ps) == types' = [p \in DOMAIN types |-> IF p \in ps THEN "LOADER_DATA" ELSE types[p]]
Runs(n) == {ps \in {PagesFrom(p, n) : p \in DOMAIN types} : Conventional(ps)}

-----------------------------------------------------------------------------
(* read_kernel_image, then ElfImage::parse.                                *)
ReadKernel ==
  /\ at = "read"
  /\ IF ~fw.readable THEN Fails("FilesystemReadFailed")
     ELSE \E ps \in Runs(1) :
            IF ParseElf(fw.kernel) # "none" THEN Fails("InvalidElf")
            ELSE /\ Goes("framebuffer") /\ Own(ps) /\ taken' = [taken EXCEPT !["file"] = ps]
                 /\ UNCHANGED <<ram, loaded, info>>

(* query_framebuffer and FramebufferInfo::is_usable.                       *)
IsUsable(g) == g.base # 0 /\ g.size # 0 /\ g.width # 0 /\ g.height # 0 /\ g.stride >= g.width
QueryFramebuffer ==
  /\ at = "framebuffer"
  /\ IF ~fw.gop.present THEN Fails("GraphicsOutputUnavailable")
     ELSE IF fw.gop.format \notin {"Rgb", "Bgr"} THEN Fails("UnsupportedPixelFormat")
     ELSE IF ~IsUsable(fw.gop) THEN Fails("InvalidFramebuffer")
     ELSE Goes("allocate") /\ UNCHANGED <<types, ram, loaded, taken, info>>

(* find_acpi_rsdp: the first table of either version.                      *)
FindAcpiRsdp(tables) ==
  LET found == SelectInSeq(tables, LAMBDA t : t.guid \in {"ACPI2_GUID", "ACPI_GUID"})
  IN  IF found = 0 THEN 0 ELSE tables[found].address

(* The vector of regions and the BootInfo, made before boot services end.  *)
Prepare ==
  /\ at = "allocate"
  /\ \E v \in Runs(1), b \in Runs(1) :
       /\ v # b
       /\ Own(v \cup b) /\ taken' = [taken EXCEPT !["regions"] = v, !["info"] = b]
  /\ info' = [info EXCEPT !.rsdp = FindAcpiRsdp(fw.tables)]
  /\ Goes("segments") /\ UNCHANGED <<ram, loaded>>

-----------------------------------------------------------------------------
(* load_kernel_segments: whole pages at the segment's own address, zeroed, *)
(* then the bytes of the file.                                             *)
Headers == fw.kernel.headers
Loadable(h) == h.load /\ h.mem # 0
SegmentPages(h) == Page(LoadAddress(h))..Page(LoadAddress(h) + h.mem - 1)
SegmentBytes(h, a) ==
  IF Page(a) \notin SegmentPages(h) THEN ram[a]
  ELSE IF a \in LoadAddress(h)..(LoadAddress(h) + h.file - 1)
  THEN h.offset + a - LoadAddress(h)
  ELSE ZeroByte

LoadKernelSegment ==
  LET h == Headers[loaded + 1]
  IN  /\ at = "segments" /\ loaded < Len(Headers)
      /\ IF ParseProgramHeader(fw.kernel) # "none" THEN Fails("InvalidElf")
         ELSE IF ~Loadable(h)
         THEN Goes("segments") /\ loaded' = loaded + 1 /\ UNCHANGED <<types, ram, taken, info>>
         ELSE IF SegmentError(fw.kernel, h) # "none" THEN Fails("InvalidElf")
         ELSE IF ~Conventional(SegmentPages(h)) THEN Fails("KernelSegmentAllocationFailed")
         ELSE IF h.file > h.mem THEN Fails("SegmentFileLargerThanMemory")
         ELSE /\ Goes("segments") /\ loaded' = loaded + 1 /\ Own(SegmentPages(h))
              /\ ram' = [a \in DOMAIN ram |-> SegmentBytes(h, a)]
              /\ UNCHANGED <<taken, info>>

AllocateKernelStack ==
  /\ at = "segments" /\ loaded = Len(Headers)
  /\ IF Runs(StackPages) = {} THEN Fails("KernelStackAllocationFailed")
     ELSE \E ps \in Runs(StackPages) :
            /\ Goes("exit") /\ Own(ps) /\ taken' = [taken EXCEPT !["stack"] = ps]
            /\ UNCHANGED <<ram, loaded, info>>

-----------------------------------------------------------------------------
(* normalize_memory_region.                                                *)
NormalizeReclaiming(type) ==
  IF type \in {"CONVENTIONAL", "LOADER_CODE", "LOADER_DATA"} THEN "Usable" ELSE "Reserved"
Normalize(type) ==
  CASE type = "CONVENTIONAL" -> "Usable"
    [] type \in {"LOADER_CODE", "LOADER_DATA"} -> "Loader"
    [] type \in {"BOOT_SERVICES_CODE", "BOOT_SERVICES_DATA"} -> "BootServices"
    [] type \in {"RUNTIME_SERVICES_CODE", "RUNTIME_SERVICES_DATA"} -> "RuntimeServices"
    [] type = "ACPI_RECLAIM" -> "AcpiReclaimable"
    [] type = "ACPI_NON_VOLATILE" -> "AcpiNvs"
    [] type \in {"MMIO", "MMIO_PORT_SPACE", "PAL_CODE"} -> "Mmio"
    [] type = "PERSISTENT_MEMORY" -> "Persistent"
    [] type = "UNUSABLE" -> "Unusable"
    [] OTHER -> "Reserved"

(* The firmware's map: one descriptor for each run of pages of one type.   *)
RunFrom(p) ==
  [start |-> p, kind |-> Normalize(types[p]),
   pages |-> Cardinality({q \in DOMAIN types : q >= p /\ \A r \in p..q : types[r] = types[p]})]
MapOfMemory ==
  LET starts == {p \in DOMAIN types : p - 1 \notin DOMAIN types \/ types[p - 1] # types[p]}
  IN  [i \in 1..Cardinality(starts) |->
         RunFrom(CHOOSE p \in starts : Cardinality({q \in starts : q <= p}) = i)]

(* exit_boot_services and the loop over the map.  An error here is met     *)
(* when the firmware that would report it is gone.                         *)
ExitBootServices ==
  /\ at = "exit"
  /\ IF Len(MapOfMemory) > TableCapacity THEN Fails("MemoryMapCapacityExceeded")
     ELSE /\ info' = [info EXCEPT !.regions = MapOfMemory]
          /\ Goes("kernel") /\ UNCHANGED <<types, ram, loaded, taken>>

-----------------------------------------------------------------------------
(* memory::init: the window from the usable regions, and its page table.   *)
RegionPages(r) == PagesFrom(r.start, r.pages)
Handed == UNION {RegionPages(r) : r \in {x \in Range(info.regions) : x.kind = "Usable"}}
Managed == {p \in Handed : p >= WindowFirst}
Shown == WindowFirst..(((Max(Managed) \div WindowUnit) + 1) * WindowUnit - 1)
Image == UNION {SegmentPages(h) : h \in {x \in Range(Headers) : Loadable(x)}}
Needed == Image \cup taken["stack"] \cup taken["info"]

EnterKernel ==
  /\ at = "kernel"
  /\ IF Managed = {} THEN Fails("NoUsableMemory")
     ELSE IF Needed \subseteq Shown
     THEN Goes("running") /\ UNCHANGED <<types, ram, loaded, taken, info>>
     ELSE Fails("PageFault")

BootNext ==
  \/ ReadKernel \/ QueryFramebuffer \/ Prepare
  \/ LoadKernelSegment \/ AllocateKernelStack \/ ExitBootServices \/ EnterKernel

-----------------------------------------------------------------------------
(* The memory the kernel takes for its own holds nothing that is still     *)
(* needed: not its image, its stack, the BootInfo or the table of regions, *)
(* nor a page of the firmware's; and no free page is withheld from it.     *)
HandoffDisjoint ==
  at \in {"kernel", "running"} =>
    /\ Handed \cap (Image \cup UNION Range(taken)) = {}
    /\ Handed \subseteq {p \in DOMAIN fw.types : fw.types[p] = "CONVENTIONAL"}
    /\ \A p \in DOMAIN fw.types :
         fw.types[p] = "CONVENTIONAL" => p \in Handed \cup Image \cup UNION Range(taken)

(* The kernel that is entered is the file's: each loadable segment at its  *)
(* address, as long in memory as the header says and zero behind the file, *)
(* untouched by what the firmware placed before and after it.              *)
KernelAsInFile ==
  at \in {"kernel", "running"} =>
    \A h \in {x \in Range(Headers) : Loadable(x)} :
      \A i \in 0..(h.mem - 1) :
        ram[LoadAddress(h) + i] = IF i < h.file THEN h.offset + i ELSE ZeroByte

(* What the kernel is handed when it is entered, wherever the firmware put *)
(* things: its own image as in the file, and as free memory exactly what   *)
(* nobody needs any more.                                                  *)
HandoffSound == HandoffDisjoint /\ KernelAsInFile
=============================================================================
