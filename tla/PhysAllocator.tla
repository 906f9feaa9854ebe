--------------------------- MODULE PhysAllocator ---------------------------
(***************************************************************************)
(* The physical page allocator (memory/allocator.rs) and its set-up from   *)
(* the loader's memory map (memory/kernel.rs initialize_allocator).  Free  *)
(* memory is a table of at most MaxFreeRanges regions; addresses are page  *)
(* numbers, regions half-open.  The kernel buffers and the pages of user   *)
(* programs are its clients: each frees what it allocated, once, in any    *)
(* order.                                                                  *)
(***************************************************************************)
EXTENDS Integers, Sequences, SequencesExt

CONSTANTS
  MapEnd,        \* highest page number of the memory map
  FirstPage,     \* PHYS_WINDOW_START
  HugePage,        \* pages in a 2 MiB mapping
  MaxFreeRanges,   \* MAX_FREE_RANGES
  MaxDonations,    \* bound: usable entries of the memory map
  Requests         \* numbers of consecutive pages asked for

ASSUME AllocatorAssumption ==
  /\ MapEnd \in Nat /\ FirstPage \in 1..MapEnd
  /\ HugePage \in Nat \ {0} /\ MaxFreeRanges \in Nat \ {0}
  /\ MaxDonations \in Nat \ {0} /\ Requests \subseteq Nat \ {0}

VARIABLES
  regions,       \* PhysicalAllocator.regions[..count]
  windowEnd,     \* MemoryState.phys_window_end; highest_end while booting
  donations,     \* entries of the memory map seen so far
  mode,         \* what the machine is doing
  held,          \* blocks the clients hold
  answer         \* the answer to the last request

allocatorVars == <<regions, windowEnd, donations, mode, held, answer>>

Region(s, e) == [start |-> s, end |-> e]
Exhausted == [start |-> 0, count |-> 0]
PagesOf(block) == block.start..(block.start + block.count - 1)
RoundUp(n, unit) == ((n + unit - 1) \div unit) * unit

-----------------------------------------------------------------------------
(* insert_range: one pass absorbs every region that touches the range as   *)
(* grown so far, and the result goes before the first region that starts   *)
(* at or after it.                                                         *)
TouchesStrictly(r, m) == ~(r.end <= m.start \/ r.start >= m.end)
Touches(r, m) == ~(r.end < m.start \/ r.start > m.end)

Absorb(rs, s, e) ==
  LET merged[n \in 0..Len(rs)] ==
        IF n = 0 THEN [start |-> s, end |-> e, rest |-> <<>>]
        ELSE LET m == merged[n - 1]
                 r == rs[n]
             IN  IF Touches(r, m)
                 THEN [start |-> IF r.start < m.start THEN r.start ELSE m.start,
                       end |-> IF r.end > m.end THEN r.end ELSE m.end,
                       rest |-> m.rest]
                 ELSE [m EXCEPT !.rest = Append(@, r)]
  IN  merged[Len(rs)]

Insert(rs, s, e) ==
  LET m == Absorb(rs, s, e)
      at == SelectInSeq(m.rest, LAMBDA r : r.start >= m.start)
  IN  InsertAt(m.rest, IF at = 0 THEN Len(m.rest) + 1 ELSE at, Region(m.start, m.end))

(* The table overflows when the range touches no region of a full table.   *)
OverflowsEarly(rs, s, e) == Len(rs) >= MaxFreeRanges
Overflows(rs, s, e) == Len(Absorb(rs, s, e).rest) >= MaxFreeRanges

InsertRange(s, e) ==
  IF s >= e THEN UNCHANGED <<regions, mode>>
  ELSE IF Overflows(regions, s, e) THEN mode' = "panic" /\ UNCHANGED regions
  ELSE regions' = Insert(regions, s, e) /\ UNCHANGED mode

(* reserve_range: what is left of each region; a region strictly around    *)
(* the range needs one more entry.                                         *)
Remains(r, s, e) ==
  IF r.end <= s \/ r.start >= e THEN <<r>>
  ELSE (IF r.start < s THEN <<Region(r.start, s)>> ELSE <<>>)
       \o (IF e < r.end THEN <<Region(e, r.end)>> ELSE <<>>)

ReserveRange(s, e) ==
  IF s >= e THEN UNCHANGED regions /\ mode' = "run"
  ELSE IF Len(regions) >= MaxFreeRanges
          /\ \E i \in DOMAIN regions : regions[i].start < s /\ e < regions[i].end
  THEN mode' = "panic" /\ UNCHANGED regions
  ELSE /\ regions' = FlattenSeq([i \in DOMAIN regions |-> Remains(regions[i], s, e)])
       /\ mode' = "run"

-----------------------------------------------------------------------------
AllocatorInit ==
  /\ regions = <<>>
  /\ windowEnd = 0
  /\ donations = 0
  /\ mode = "boot"
  /\ held = {}
  /\ answer = Exhausted

(* One usable entry of the memory map, in the order the firmware lists     *)
(* them: the part below the window is cut off.                             *)
AddRegion(first, end) ==
  LET start == IF first < FirstPage THEN FirstPage ELSE first
  IN  /\ mode = "boot" /\ donations < MaxDonations
      /\ donations' = donations + 1
      /\ IF end <= start THEN UNCHANGED <<regions, windowEnd, mode>>
         ELSE /\ InsertRange(start, end)
              /\ windowEnd' = IF end > windowEnd THEN end ELSE windowEnd
      /\ UNCHANGED <<held, answer>>

(* The end of the memory map: without usable memory the kernel panics,     *)
(* otherwise its image is taken out and the window is rounded up.          *)
FinishBoot(kernelStart, kernelEnd) ==
  /\ mode = "boot"
  /\ IF windowEnd <= FirstPage
     THEN mode' = "panic" /\ UNCHANGED <<regions, windowEnd>>
     ELSE /\ ReserveRange(kernelStart, kernelEnd)
          /\ windowEnd' = RoundUp(windowEnd, HugePage)
  /\ UNCHANGED <<donations, held, answer>>

-----------------------------------------------------------------------------
(* allocate_page and allocate_contiguous_pages: the first region that is   *)
(* large enough gives its lowest pages and goes when it is used up.        *)
CutOnePage(rs, i, n) ==
  LET r == Region(rs[i].start + 1, rs[i].end)
  IN  IF r.start >= r.end THEN RemoveAt(rs, i) ELSE [rs EXCEPT ![i] = r]
Cut(rs, i, n) ==
  LET r == Region(rs[i].start + n, rs[i].end)
  IN  IF r.start >= r.end THEN RemoveAt(rs, i) ELSE [rs EXCEPT ![i] = r]

Fits(r, n) == r.start # 0 /\ r.start + n <= r.end

FirstFit(n) == SelectInSeq(regions, LAMBDA r : Fits(r, n))

Allocate(n) ==
  LET i == FirstFit(n)
      block == [start |-> regions[i].start, count |-> n]
  IN  /\ mode = "run"
      /\ IF i = 0
         THEN answer' = Exhausted /\ UNCHANGED <<regions, held>>
         ELSE /\ answer' = block
              /\ regions' = Cut(regions, i, n)
              /\ held' = held \cup {block}
      /\ UNCHANGED <<windowEnd, donations, mode>>

(* free_contiguous_pages, from KernelBuffer::release and, page by page,    *)
(* from OwnedPages::release.                                               *)
Free(block) ==
  /\ mode = "run"
  /\ InsertRange(block.start, block.start + block.count)
  /\ held' = IF mode' = "panic" THEN held ELSE held \ {block}
  /\ UNCHANGED <<windowEnd, donations, answer>>

Panicked == mode = "panic" /\ UNCHANGED allocatorVars

AllocatorNext ==
  \/ \E s, e \in 0..MapEnd : AddRegion(s, e) \/ FinishBoot(s, e)
  \/ \E n \in Requests : Allocate(n)
  \/ \E block \in held : Free(block)
  \/ Panicked


-----------------------------------------------------------------------------
FreePages == UNION {regions[i].start..(regions[i].end - 1) : i \in DOMAIN regions}
HeldPages == UNION {PagesOf(block) : block \in held}

(* The region table is in the one form first fit relies on: sorted, no     *)
(* empty region, and never two regions that touch, whatever the order of   *)
(* the memory map and of the frees.                                        *)
RegionsCanonical ==
  /\ \A i \in DOMAIN regions : regions[i].start < regions[i].end
  /\ \A i \in 1..(Len(regions) - 1) : regions[i].end < regions[i + 1].start
  /\ Len(regions) <= MaxFreeRanges

(* No page is handed out twice or is both free and in use, and every page  *)
(* the allocator gives lies in the identity-mapped window, where           *)
(* allocate_page zeroes it.                                                *)
NoDoubleUse ==
  /\ FreePages \cap HeldPages = {}
  /\ \A a, b \in held : a # b => PagesOf(a) \cap PagesOf(b) = {}
  /\ FreePages \cup HeldPages \subseteq FirstPage..(windowEnd - 1)

(* Both, through every order of donations, requests and frees: neither is  *)
(* kept without the other, for cutting and merging rely on the form.       *)
AllocatorSound == RegionsCanonical /\ NoDoubleUse

RunStarts(S) == {p \in S : p - 1 \notin S}
(* "allocator free-range capacity exhausted" is raised only when the free  *)
(* memory with the inserted range really consists of more runs than the    *)
(* table has entries.                                                      *)
PanicOnlyWhenFragmented ==
  [][(mode = "run" /\ mode' = "panic") =>
       \E block \in held :
         Cardinality(RunStarts(FreePages \cup PagesOf(block))) > MaxFreeRanges]_allocatorVars

Pool == INSTANCE PagePool WITH
  Numbers <- FirstPage..MapEnd, free <- FreePages
(* The table implements a set of free pages: in particular a run of free   *)
(* pages is always found, because it never spans two regions.              *)
ImplementsPagePool == Pool!Spec
=============================================================================
