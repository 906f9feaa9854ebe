----------------------------- MODULE PageTables -----------------------------
(***************************************************************************)
(* Page tables in physical memory (memory/paging.rs).  Every operation     *)
(* takes the memory m of the kernel and returns it changed; after an error *)
(* the rest of a sequence of operations leaves it as it is, which is what  *)
(* `?` does.                                                               *)
(*                                                                         *)
(* A page has PageWords words, and a word is a page-table entry or data.   *)
(* The four levels of the machine are three here: the two highest differ   *)
(* only in how much they cover.  A directory entry is a table or, huge,    *)
(* PageWords pages in one piece.                                           *)
(***************************************************************************)
EXTENDS Integers, Sequences, SequencesExt, FiniteSetsExt

CONSTANTS
  PageWords,       \* entries of a table, words of a page
  LastPage,        \* highest physical page
  MaxOwnedPages    \* MAX_OWNED_PAGES

ASSUME PageTablesAssumption ==
  PageWords \in Nat \ {0} /\ LastPage \in Nat /\ MaxOwnedPages \in Nat

Pages == 0..LastPage
Words == 0..(PageWords - 1)

Data(d) == [data |-> d]
Zero == Data(0)
Junk == Data(-1)
ZeroPage == [i \in Words |-> Zero]
Entry(page, writable, user, huge) ==
  [to |-> page, w |-> writable, u |-> user, huge |-> huge]
Present(word) == "to" \in DOMAIN word

RootIndex(virt) == virt \div (PageWords * PageWords)
DirectoryIndex(virt) == (virt \div PageWords) % PageWords
TableIndex(virt) == virt % PageWords

AlignDown(n, unit) == n - (n % unit)
AlignUp(n, unit) == AlignDown(n + unit - 1, unit)
(* s, s + unit, ... below e.                                               *)
Steps(s, e, unit) ==
  [i \in 1..(IF s < e THEN (e - s + unit - 1) \div unit ELSE 0) |-> s + (i - 1) * unit]
Upto(s, e) == Steps(s, e, 1)

(* The memory: contents, free pages, the pages the builder records for a   *)
(* process (and whether it does), the page of the last answer, the error.  *)
Memory(ram, free) ==
  [ram |-> ram, free |-> free, owned |-> <<>>, tracked |-> FALSE,
   page |-> 0, error |-> "none"]
Ok(m) == m.error = "none"
Fail(m, error) == [m EXCEPT !.error = error]
Settled(m) == [m EXCEPT !.owned = <<>>, !.tracked = FALSE, !.page = 0, !.error = "none"]

-----------------------------------------------------------------------------
(* PhysicalAllocator::allocate_page: the lowest free page, zeroed.         *)
AllocatePage(m) ==
  IF ~Ok(m) THEN m
  ELSE IF m.free = {} THEN Fail(m, "AllocatorExhausted")
  ELSE LET p == Min(m.free)
       IN  [m EXCEPT !.free = @ \ {p}, !.ram[p] = ZeroPage, !.page = p]

(* OwnedPages::push of the page just answered.                             *)
Push(m) ==
  IF ~Ok(m) THEN m
  ELSE IF Len(m.owned) >= MaxOwnedPages THEN Fail(m, "OwnedPageCapacityExceeded")
  ELSE [m EXCEPT !.owned = Append(@, m.page)]

PushTracked(m) == IF m.tracked THEN Push(m) ELSE m

(* ensure_table: an entry that is present is taken for a table whatever it *)
(* is, and gains the user bit; else a new table is entered.                *)
EnterTable(m, table, index, user) ==
  IF ~Ok(m) THEN m
  ELSE [m EXCEPT !.ram[table][index] = Entry(m.page, TRUE, user, FALSE)]
EnsureTableUserLost(m, table, index, user) ==
  IF ~Ok(m) THEN m
  ELSE IF Present(m.ram[table][index]) THEN [m EXCEPT !.page = m.ram[table][index].to]
  ELSE EnterTable(PushTracked(AllocatePage(m)), table, index, user)
EnsureTable(m, table, index, user) ==
  IF ~Ok(m) THEN m
  ELSE IF Present(m.ram[table][index])
  THEN [m EXCEPT !.ram[table][index].u = @ \/ user, !.page = m.ram[table][index].to]
  ELSE EnterTable(PushTracked(AllocatePage(m)), table, index, user)

EnsureDirectory(m, root, virt, user) == EnsureTable(m, root, RootIndex(virt), user)
EnsureInDirectory(m, virt, user) == EnsureTable(m, m.page, DirectoryIndex(virt), user)
EnsurePageTable(m, root, virt, user) ==
  EnsureInDirectory(EnsureDirectory(m, root, virt, user), virt, user)

(* map_2m and map_4k: the entry is written in the table just answered.     *)
WriteEntry(m, index, entry) ==
  IF ~Ok(m) THEN m ELSE [m EXCEPT !.ram[m.page][index] = entry]
Map2M(m, root, virt, writable) ==
  WriteEntry(EnsureDirectory(m, root, virt, FALSE), DirectoryIndex(virt),
             Entry(virt, writable, FALSE, TRUE))
Map4K(m, root, virt, phys, writable, user) ==
  WriteEntry(EnsurePageTable(m, root, virt, user), TableIndex(virt),
             Entry(phys, writable, user, FALSE))

(* map_identity_2m_range and map_identity_4k_range.                        *)
MapIdentity2M(m, root, s, e) ==
  FoldLeft(LAMBDA n, v : Map2M(n, root, v, TRUE),
           m, Steps(AlignDown(s, PageWords), AlignUp(e, PageWords), PageWords))
MapIdentity4K(m, root, s, e, writable) ==
  FoldLeft(LAMBDA n, v : Map4K(n, root, v, v, writable, FALSE), m, Upto(s, e))

-----------------------------------------------------------------------------
(* The processor's walk: where a virtual page is and what may be done with *)
(* it.  A right holds only if every level grants it.                       *)
NotMapped == [to |-> -1, w |-> FALSE, u |-> FALSE]
Walk(ram, root, virt) ==
  LET r == ram[root][RootIndex(virt)]
      d == ram[r.to][DirectoryIndex(virt)]
      t == ram[d.to][TableIndex(virt)]
  IN  IF ~Present(r) \/ ~Present(d) THEN NotMapped
      ELSE IF d.huge
      THEN [to |-> d.to + TableIndex(virt), w |-> r.w /\ d.w, u |-> r.u /\ d.u]
      ELSE IF ~Present(t) THEN NotMapped
      ELSE [to |-> t.to, w |-> r.w /\ d.w /\ t.w, u |-> r.u /\ d.u /\ t.u]

(* The pages a root's tables occupy.                                       *)
Children(ram, page) == {ram[page][i].to : i \in {j \in Words : Present(ram[page][j])}}
Directories(ram, root) == Children(ram, root)
TablesOf(ram, directory) ==
  {ram[directory][i].to : i \in {j \in Words : Present(ram[directory][j]) /\ ~ram[directory][j].huge}}
TablePages(ram, root) ==
  {root} \cup Directories(ram, root)
         \cup UNION {TablesOf(ram, d) : d \in Directories(ram, root)}
=============================================================================
