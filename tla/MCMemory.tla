-------------------------- MODULE MCMemory --------------------------
(***************************************************************************)
(* Machines and programs for the modules of Memory.                        *)
(***************************************************************************)
EXTENDS Memory

(* AML as a compiler writes it: an integer, and Name(_S5, Package{a, b}).  *)
Integer(v, wide) == IF v < 2 /\ ~wide THEN <<v>> ELSE IF wide THEN <<11, v, 0>> ELSE <<10, v>>
DefineS5(lead, a, b, wide) ==
  <<NameOp, S5Name, PackageOp>> \o lead \o <<2>> \o Integer(a, wide) \o Integer(b, wide)
OtherNames == <<NameOp, 300, PackageOp, 2, 0, PackageOp, NameOp, 301, 1>>

Gas(address) == [space |-> "io", width |-> 16, address |-> address]
MemoryGas == [space |-> "memory", width |-> 32, address |-> 7]
Header(sig, length) == [sig |-> sig, length |-> length, sum |-> TRUE]

(* Control blocks 3 and 4, sleep types 5 and 6 or 1 and 0.                 *)
SoftOff(b, pair) ==
  [kind |-> "AcpiSoftOff", a |-> 3, b |-> b, typeA |-> pair[1], typeB |-> pair[2]]

Root(sig, entries) == [entries |-> entries] @@ Header(sig, HeaderWords + Len(entries))
Rsdp(revision, xsdt, rsdt) ==
  [revision |-> revision, xsdt |-> xsdt, rsdt |-> rsdt, extendedSum |-> TRUE]
    @@ Header("RSDP", RsdpWords)
Fadt(length, xDsdt, dsdt, xPm1a, pm1a, xPm1b, pm1b) ==
  [pm1Length |-> 2, xDsdt |-> xDsdt, dsdt |-> dsdt, xPm1a |-> xPm1a, pm1a |-> pm1a,
   xPm1b |-> xPm1b, pm1b |-> pm1b] @@ Header("FACP", length)
Dsdt(aml) == [aml |-> aml] @@ Header("DSDT", HeaderWords)

(* The tables in pages 44 to 46, the RSDP where the machine wants it.      *)
Tables(rsdpAt, rsdp, root, fadt, aml) ==
  (rsdpAt :> rsdp) @@ (176 :> root) @@ (180 :> fadt) @@ (186 :> Dsdt(aml))
Firmware(rsdpAt, rsdp, root, fadt, aml, declared) ==
  [rsdp |-> rsdpAt, tables |-> Tables(rsdpAt, rsdp, root, fadt, aml), declared |-> declared]
NoFirmware == [rsdp |-> 0, tables |-> (0 :> NoTable), declared |-> NotDeclared]

NewRsdp == Rsdp(2, 176, 0)
Xsdt == Root("XSDT", <<180>>)
LongFadt == Fadt(6, 186, 0, Gas(3), 0, Gas(4), 0)
PlainS5 == DefineS5(<<6>>, 5, 6, FALSE)
Modern(rsdpAt) == Firmware(rsdpAt, NewRsdp, Xsdt, LongFadt, PlainS5, SoftOff(4, <<5, 6>>))
(* Two tables on pages of their own before the FADT.                       *)
ManyTables ==
  [Modern(4) EXCEPT !.tables[176] = Root("XSDT", <<0, 188, 192, 180>>),
                    !.tables = @ @@ (188 :> Header("APIC", 2)) @@ (192 :> Header("HPET", 2))]
MoreTables == [ManyTables EXCEPT !.tables[176] = Root("XSDT", <<188, 192, 196, 180>>),
                                 !.tables = @ @@ (196 :> Header("MCFG", 2))]
MostTables == [MoreTables EXCEPT !.tables[176] = Root("XSDT", <<188, 192, 196, 224, 180>>),
                                 !.tables = @ @@ (224 :> Header("SSDT", 2))]

(* What firmware may say otherwise: the way to the root table ...          *)
Pointers ==
  {<<Rsdp(0, 9, 176), Root("RSDT", <<180>>)>>, <<Rsdp(2, 0, 176), Root("RSDT", <<0, 180>>)>>,
   <<Rsdp(2, 176, 184), Xsdt>>}
BadPointers ==
  {<<Rsdp(2, 176, 176), Root("RSDT", <<180>>)>>, <<Rsdp(0, 176, 0), Xsdt>>,
   <<[Rsdp(0, 0, 176) EXCEPT !.sum = FALSE], Root("RSDT", <<180>>)>>,
   <<[NewRsdp EXCEPT !.extendedSum = FALSE], Xsdt>>, <<[NewRsdp EXCEPT !.length = 3], Xsdt>>,
   <<NewRsdp, Root("XSDT", <<186>>)>>, <<NewRsdp, [Xsdt EXCEPT !.sum = FALSE]>>,
   <<NewRsdp, [Xsdt EXCEPT !.length = 1]>>}
(* ... the FADT, with the second control block it describes ...            *)
Fadts ==
  {<<LongFadt, 4>>, <<Fadt(3, 0, 186, Gas(0), 3, Gas(0), 4), 4>>,
   <<Fadt(4, 186, 188, Gas(0), 3, Gas(0), 0), 0>>, <<Fadt(6, 0, 186, Gas(3), 5, Gas(0), 4), 4>>,
   <<Fadt(6, 186, 0, Gas(0), 3, Gas(4), 300), 4>>, <<Fadt(5, 186, 0, Gas(3), 300, Gas(9), 0), 0>>}
BadFadts ==
  {[LongFadt EXCEPT !.sum = FALSE], [LongFadt EXCEPT !.pm1Length = 1],
   [LongFadt EXCEPT !.length = 2], [LongFadt EXCEPT !.xPm1a = MemoryGas],
   [LongFadt EXCEPT !.xPm1b = MemoryGas], Fadt(6, 0, 0, Gas(3), 0, Gas(0), 0),
   Fadt(6, 186, 0, Gas(0), 0, Gas(4), 0), Fadt(3, 0, 186, Gas(0), 300, Gas(0), 0),
   Fadt(6, 180, 0, Gas(3), 0, Gas(0), 0)}
(* ... and the DSDT, with the sleep types it defines.                      *)
Amls ==
  {<<PlainS5, <<5, 6>>>>, <<OtherNames \o DefineS5(<<70, 0>>, 1, 0, FALSE), <<1, 0>>>>,
   <<OtherNames \o DefineS5(<<8>>, 5, 6, TRUE) \o DefineS5(<<6>>, 2, 2, FALSE), <<5, 6>>>>}
BadAmls ==
  {OtherNames, <<>>, <<NameOp, S5Name, PackageOp>>,
   <<NameOp, S5Name, PackageOp, 70>>, <<NameOp, S5Name, PackageOp, 4, 2, 10>>,
   <<NameOp, S5Name, PackageOp, 4, 2, 10, 5, 255>>}
GoodFirmware ==
  {Firmware(4, p[1], p[2], f[1], a[1], SoftOff(f[2], a[2])) : p \in Pointers, f \in Fadts, a \in Amls}
BadFirmware ==
  {Firmware(4, p[1], p[2], LongFadt, PlainS5, NotDeclared) : p \in BadPointers}
  \cup {Firmware(4, NewRsdp, Xsdt, f, PlainS5, NotDeclared) : f \in BadFadts}
  \cup {Firmware(4, NewRsdp, Xsdt, LongFadt, a, NotDeclared) :
          a \in BadAmls}

Machine(usable, framebuffer, acpi, abar) ==
  [usable |-> usable, framebuffer |-> framebuffer, acpi |-> acpi, abar |-> abar]
Abar == <<204, 208>>

(* Machines on which programs run: nothing is mapped page by page inside   *)
(* the window; the framebuffer above it or in a hole of it.  The last two  *)
(* have more tables than can be recorded beside the AHCI registers.        *)
Computers ==
  {Machine(10..43, <<50, 51>>, Modern(4), Abar),
   Machine((12..23) \cup (25..39), <<24, 25>>, NoFirmware, <<181, 187>>),
   Machine(12..43, <<50, 51>>, ManyTables, Abar),
   Machine(12..43, <<50, 51>>, MoreTables, Abar), Machine(12..43, <<50, 51>>, MostTables, Abar)}
(* Machines with hardly any memory, for the firmware's sake.               *)
Boards == {Machine(12..23, <<50, 51>>, f, Abar) : f \in GoodFirmware \cup BadFirmware}
Tiny == {Machine(12..n, <<50, 51>>, Modern(4), Abar) : n \in 13..20}
AllMachines == Computers \cup Boards \cup Tiny

(* The ACPI tables in a hole of the window, as on a machine with usable    *)
(* memory above them; the large page that covers the RSDP begins with      *)
(* usable memory.                                                          *)
AcpiInWindow == {Machine((12..41) \cup (48..51), <<53, 54>>, Modern(172), <<224, 228>>)}

Segment(start, mem, file, w, short, tag) ==
  [start |-> start, mem |-> mem, file |-> file, w |-> w, short |-> short, tag |-> tag]
ReadOnly == Segment(16, 4, 4, FALSE, FALSE, 1)
SomePrograms ==
  {<<ReadOnly>>,                                        \* one full page
   <<ReadOnly, Segment(29, 5, 2, TRUE, FALSE, 2)>>,     \* data with a bss, across two tables
   <<Segment(18, 3, 3, FALSE, FALSE, 3), Segment(21, 3, 1, TRUE, FALSE, 4)>>,  \* a shared page
   <<Segment(16, 11, 9, TRUE, FALSE, 5), Segment(32, 4, 0, TRUE, FALSE, 6)>>,  \* too many pages
   <<ReadOnly, Segment(40, 5, 1, FALSE, FALSE, 7)>>,    \* ends inside the stack
   <<Segment(15, 2, 1, FALSE, FALSE, 8)>>,              \* begins below the image
   <<ReadOnly, Segment(20, 4, 4, FALSE, TRUE, 9)>>,     \* ends behind the file
   <<ReadOnly, Segment(20, 1, 2, FALSE, FALSE, 10)>>}   \* more file than memory

-----------------------------------------------------------------------------
(* Firmware to boot from: fourteen pages of two bytes, the kernel in the   *)
(* fifth page and above.                                                   *)
PtLoad(phys, virt, offset, file, mem) ==
  [load |-> TRUE, phys |-> phys, virt |-> virt, offset |-> offset, file |-> file, mem |-> mem]
Note == [PtLoad(0, 0, 0, 1, 1) EXCEPT !.load = FALSE]
Code == PtLoad(9, 9, 2, 2, 2)            \* begins inside a page
Bss == PtLoad(0, 12, 5, 1, 3)            \* no physical address; longer in memory
KernelFile(headers) ==
  [defect |-> "none", tableAt |-> 1, entrySize |-> ProgramHeaderSize, headers |-> headers, length |-> 8]
GoodKernel == KernelFile(<<Code, Note, Bss, PtLoad(0, 0, 0, 0, 0)>>)
BadKernels ==
  {[GoodKernel EXCEPT !.defect = d] : d \in HeaderDefects}
  \cup {[GoodKernel EXCEPT !.tableAt = 8], [GoodKernel EXCEPT !.entrySize = ProgramHeaderSize - 1]}
  \cup {KernelFile(<<Code, h>>) :
          h \in {PtLoad(0, 0, 2, 1, 1), PtLoad(14, 14, 7, 2, 2),  \* no address; past the file
                 PtLoad(10, 10, 4, 1, 1), PtLoad(14, 14, 2, 2, 1)}} \* Code's page; more file than memory

Gop == [present |-> TRUE, format |-> "Bgr", base |-> 40, size |-> 4, width |-> 2, height |-> 2, stride |-> 2]
ConfigTables == <<[guid |-> "SMBIOS", address |-> 3], [guid |-> "ACPI_GUID", address |-> 5],
            [guid |-> "ACPI2_GUID", address |-> 7]>>
Types(others) ==
  [p \in 0..13 |-> IF p \in DOMAIN others THEN others[p] ELSE "CONVENTIONAL"]
Plain == Types((0 :> "BOOT_SERVICES_CODE") @@ (2 :> "LOADER_CODE") @@ (13 :> "MMIO"))
Crowded == Types((1 :> "RUNTIME_SERVICES_DATA") @@ (3 :> "ACPI_RECLAIM") @@ (9 :> "ACPI_NON_VOLATILE")
                 @@ (12 :> "UNUSABLE"))
Scarce == Types((0 :> "BOOT_SERVICES_DATA") @@ (1 :> "MMIO_PORT_SPACE") @@ (2 :> "PERSISTENT_MEMORY")
                @@ (3 :> "RESERVED") @@ (12 :> "PAL_CODE") @@ (13 :> "RUNTIME_SERVICES_CODE"))
Full == [p \in 0..13 |-> IF p \in {1, 2, 12, 13} THEN "RESERVED" ELSE "CONVENTIONAL"]
BootOn(t, kernel, gop, tables) ==
  [types |-> t, readable |-> TRUE, kernel |-> kernel, gop |-> gop, tables |-> tables]
AllFirmwares ==
  {BootOn(t, GoodKernel, Gop, ConfigTables) : t \in {Plain, Crowded, Scarce, Full}}
  \cup {BootOn(Plain, k, Gop, <<>>) : k \in BadKernels}
  \cup {BootOn(Plain, GoodKernel, g, ConfigTables) :
          g \in {[Gop EXCEPT !.present = FALSE], [Gop EXCEPT !.format = "Bitmask"],
                 [Gop EXCEPT !.stride = 1]}}
  \cup {[BootOn(Plain, GoodKernel, Gop, ConfigTables) EXCEPT !.readable = FALSE]}
=============================================================================
