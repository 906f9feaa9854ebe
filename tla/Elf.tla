--------------------------------- MODULE Elf ---------------------------------
(***************************************************************************)
(* The ELF parser (libs/elf) as the boot loader uses it.  A file is its    *)
(* length, the first defect of its fixed header, the place and entry size  *)
(* of its program header table, and the entries.                           *)
(***************************************************************************)
EXTENDS Integers, Sequences

CONSTANT ProgramHeaderSize   \* size of ElfProgramHeaderLayout

ASSUME ElfAssumption == ProgramHeaderSize \in Nat

(* Program headers as they are decoded.                                    *)
ProgramHeaders ==
  [load : BOOLEAN, phys : Nat, virt : Nat, offset : Nat, file : Nat, mem : Nat]

HeaderDefects ==
  {"HeaderTooSmall", "InvalidMagic", "UnsupportedClass", "UnsupportedEncoding",
   "UnsupportedVersion", "UnsupportedType", "UnsupportedMachine"}

(* ElfHeader::parse.                                                       *)
ParseElf(f) ==
  IF f.defect \in HeaderDefects THEN f.defect
  ELSE IF f.tableAt + f.entrySize * Len(f.headers) > f.length
  THEN "ProgramHeaderTableOutOfRange"
  ELSE "none"

(* ProgramHeaderIter::next: the table lies in the file, so an entry is cut *)
(* only by its own size.                                                   *)
ParseProgramHeader(f) ==
  IF f.entrySize < ProgramHeaderSize THEN "ProgramHeaderTruncated" ELSE "none"

LoadAddress(h) == IF h.phys # 0 THEN h.phys ELSE h.virt
FileEnd(h) == h.offset + h.file
(* load_address and file_range.                                            *)
SegmentError(f, h) ==
  IF LoadAddress(h) = 0 THEN "ZeroLoadAddress"
  ELSE IF FileEnd(h) > f.length THEN "SegmentExtendsPastFile"
  ELSE "none"
=============================================================================
