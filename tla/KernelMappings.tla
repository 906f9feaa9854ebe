--------------------------- MODULE KernelMappings ---------------------------
(***************************************************************************)
(* Mappings the kernel adds to its address space after boot                *)
(* (map_kernel_identity_range in memory/kernel.rs) and the table in which  *)
(* it records them for the address spaces of programs.  The operators take *)
(* and return a kernel k: its memory, its root table and the record.       *)
(* Addresses here are addresses of words.                                  *)
(***************************************************************************)
EXTENDS PageTables

CONSTANT MaxSharedMappings   \* MAX_SHARED_KERNEL_MAPPINGS

ASSUME MaxSharedMappingsAssumption == MaxSharedMappings \in Nat

PageDown(address) == address \div PageWords
PageUp(address) == AlignUp(address, PageWords) \div PageWords

(* record_shared_kernel_mapping: nothing for a range already covered with  *)
(* the same rights, else the next slot if there is one.                    *)
Covered(table, r) ==
  \E i \in DOMAIN table :
    table[i].start <= r.start /\ table[i].end >= r.end /\ table[i].w = r.w
RecordSharedOnce(k, r) ==
  IF k.table # <<>> THEN k ELSE [k EXCEPT !.table = Append(@, r)]
RecordShared(k, r) ==
  IF ~Ok(k.m) \/ Covered(k.table, r) THEN k
  ELSE IF Len(k.table) >= MaxSharedMappings
  THEN [k EXCEPT !.m = Fail(@, "SharedKernelMappingCapacityExceeded")]
  ELSE [k EXCEPT !.table = Append(@, r)]

(* map_kernel_identity_range: the mapping stays when it cannot be recorded.*)
MapKernelRange(k, s, e, writable) ==
  LET r == [start |-> PageDown(s), end |-> PageUp(e), w |-> writable]
  IN  RecordShared([k EXCEPT !.m = MapIdentity4K(@, k.root, r.start, r.end, writable)], r)

(* replay_shared_kernel_mappings into another root.                        *)
Replay(m, root, table) ==
  FoldLeft(LAMBDA n, r : MapIdentity4K(n, root, r.start, r.end, r.w), m, table)
=============================================================================
