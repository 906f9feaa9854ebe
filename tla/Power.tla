------------------------------- MODULE Power -------------------------------
(***************************************************************************)
(* Finding out how the machine is switched off (power.rs): from the RSDP   *)
(* over the root table to the FADT, which names the PM1 control blocks,    *)
(* and the DSDT, whose _S5_ package holds the sleep types.  Every table is *)
(* mapped before it is read, and mapping can fail.                         *)
(*                                                                         *)
(* The firmware is a function from addresses to tables.  A table has its   *)
(* signature, its length in words, whether its checksum is right, and the  *)
(* fields its length has room for.                                         *)
(***************************************************************************)
EXTENDS KernelMappings

CONSTANTS
  HeaderWords,     \* SDT_HEADER_LENGTH
  RsdpWords,       \* RSDP_V2_LENGTH
  Pm1LengthEnd,    \* a FADT this long has the field at FADT_PM1_CONTROL_LENGTH_OFFSET
  XDsdtEnd,        \* ... and the one at FADT_X_DSDT_OFFSET
  XPm1aEnd,        \* ... and the one at FADT_X_PM1A_CONTROL_BLOCK_OFFSET
  XPm1bEnd,        \* ... and the one at FADT_X_PM1B_CONTROL_BLOCK_OFFSET
  MaxPort          \* u16::MAX

ASSUME TableLayoutAssumption ==
  /\ {HeaderWords, RsdpWords} \subseteq Nat \ {0}
  /\ HeaderWords < Pm1LengthEnd /\ Pm1LengthEnd < XDsdtEnd
  /\ XDsdtEnd < XPm1aEnd /\ XPm1aEnd < XPm1bEnd

NoPort == 0

(* What lies where no table is.                                            *)
NoTable == [sig |-> "none", length |-> 0, sum |-> FALSE]
TableAt(tables, address) == IF address \in DOMAIN tables THEN tables[address] ELSE NoTable

(* A discovery in progress: the kernel, the firmware's tables, the error.  *)
Discovery(k, tables) == [k |-> k, tables |-> tables, error |-> "none"]
Good(d) == d.error = "none"
Refuse(d, error) == IF Good(d) THEN [d EXCEPT !.error = error] ELSE d

(* map_bytes: what was mapped is kept when the mapping fails.              *)
Known(d, k) == [d EXCEPT !.k = [k EXCEPT !.m = Settled(@)]]
Mapped(d, k) == IF Ok(k.m) THEN Known(d, k) ELSE Refuse(Known(d, k), "MappingFailed")
MapBytes(d, address, len) ==
  IF ~Good(d) THEN d ELSE Mapped(d, MapKernelRange(d.k, address, address + len, FALSE))

TableError(sig) ==
  CASE sig = "FACP" -> "InvalidFadt" [] sig = "DSDT" -> "InvalidDsdt" [] OTHER -> "InvalidRootTable"

(* map_sdt: the header for the length, the whole, then the checks.         *)
MapWhole(d, address) ==
  LET length == TableAt(d.tables, address).length
  IN  IF length < HeaderWords THEN Refuse(d, "InvalidRootTable") ELSE MapBytes(d, address, length)
CheckSdt(d, address, sig) ==
  LET table == TableAt(d.tables, address)
  IN  IF table.sig # sig \/ ~table.sum THEN Refuse(d, TableError(sig)) ELSE d
MapSdt(d, address, sig) ==
  IF address = 0 THEN Refuse(d, "MissingRootTable")
  ELSE CheckSdt(MapWhole(MapBytes(d, address, HeaderWords), address), address, sig)

(* parse_rsdp; the checksum of the second version covers its own length.   *)
ParseRsdp(t) ==
  IF t.sig # "RSDP" \/ ~t.sum THEN [error |-> "InvalidRsdp"]
  ELSE IF t.revision >= 2 /\ (t.length # RsdpWords \/ ~t.extendedSum)
  THEN [error |-> "InvalidRsdp"]
  ELSE IF t.revision >= 2 /\ t.xsdt # 0
  THEN [error |-> "none", address |-> t.xsdt, sig |-> "XSDT"]
  ELSE IF t.rsdt = 0 THEN [error |-> "MissingRootTable"]
  ELSE [error |-> "none", address |-> t.rsdt, sig |-> "RSDT"]

(* find_fadt_address: the headers are mapped in turn until one is a FADT.  *)
IsFadt(d, address) ==
  [d |-> d, fadt |-> IF Good(d) /\ TableAt(d.tables, address).sig = "FACP" THEN address ELSE 0]
LookAt(s, address) ==
  IF s.fadt # 0 \/ ~Good(s.d) \/ address = 0 THEN s
  ELSE IsFadt(MapBytes(s.d, address, HeaderWords), address)
Found(s) == IF s.fadt = 0 THEN [s EXCEPT !.d = Refuse(@, "MissingFadt")] ELSE s
FindFadt(d, root) == Found(FoldLeft(LookAt, [d |-> d, fadt |-> 0], root.entries))

-----------------------------------------------------------------------------
(* parse_fadt.                                                             *)
SelectDsdt(t) ==
  IF t.length >= XDsdtEnd /\ t.xDsdt # 0 THEN t.xDsdt ELSE t.dsdt

(* parse_system_io_gas.                                                    *)
GasUsable(gas) == gas.space = "io" /\ gas.width >= 16 /\ gas.address <= MaxPort

(* select_pm1_control_block: 0 for none, -1 for one that cannot be used.   *)
SelectPm1Legacy(present, gas, legacy) ==
  IF legacy > MaxPort THEN -1 ELSE legacy
SelectPm1(present, gas, legacy) ==
  IF present /\ gas.address # 0 THEN IF GasUsable(gas) THEN gas.address ELSE -1
  ELSE IF legacy > MaxPort THEN -1 ELSE legacy
ParseFadt(t) ==
  LET a == SelectPm1(t.length >= XPm1aEnd, t.xPm1a, t.pm1a)
      b == SelectPm1(t.length >= XPm1bEnd, t.xPm1b, t.pm1b)
  IN  IF t.length < Pm1LengthEnd THEN [error |-> "InvalidFadt"]
      ELSE IF t.pm1Length < 2 THEN [error |-> "InvalidFadt"]
      ELSE IF SelectDsdt(t) = 0 THEN [error |-> "MissingDsdt"]
      ELSE IF a = -1 THEN [error |-> "UnsupportedPm1ControlBlock"]
      ELSE IF a = NoPort THEN [error |-> "MissingPm1ControlBlock"]
      ELSE IF b = -1 THEN [error |-> "UnsupportedPm1ControlBlock"]
      ELSE [error |-> "none", dsdt |-> SelectDsdt(t), a |-> a, b |-> b]

-----------------------------------------------------------------------------
(* The bytes of the DSDT.  A name of four characters counts as one.        *)
NameOp == 8
PackageOp == 18
RootPrefix == 92
ParentPrefix == 94
S5Name == 256
IntegerBytes == (10 :> 1) @@ (11 :> 2) @@ (12 :> 4) @@ (14 :> 8)

From(aml, i) == SubSeq(aml, i, Len(aml))

(* parse_aml_integer: the value as u16 and the bytes it took, <<>> if it   *)
(* is none.                                                                *)
ParseInteger(b) ==
  IF b = <<>> THEN <<>>
  ELSE IF b[1] \in {0, 1} THEN <<b[1], 1>>
  ELSE IF b[1] \in DOMAIN IntegerBytes /\ Len(b) > IntegerBytes[b[1]]
  THEN <<b[2] + (IF IntegerBytes[b[1]] = 1 THEN 0 ELSE 256 * b[3]), 1 + IntegerBytes[b[1]]>>
  ELSE <<>>

(* parse_package_length: how many bytes the length takes, 0 if they are    *)
(* not all there.                                                          *)
PackageLengthBytes(b) ==
  IF b = <<>> \/ Len(b) < 1 + (b[1] \div 64) THEN 0 ELSE 1 + (b[1] \div 64)

(* parse_s5_package: the first place that looks like a definition of _S5_. *)
NameStart(aml, i) ==
  IF aml[i] = NameOp THEN i + 1
  ELSE IF aml[i] \in {RootPrefix, ParentPrefix} /\ aml[i + 1] = NameOp THEN i + 2
  ELSE 0
Candidate(aml, i) ==
  LET n == NameStart(aml, i)
  IN  n # 0 /\ n < Len(aml) /\ aml[n] = S5Name /\ aml[n + 1] = PackageOp
SleepTypes(aml, i) ==
  LET length == NameStart(aml, i) + 2
      used == PackageLengthBytes(From(aml, length))
      a == ParseInteger(From(aml, length + used + 1))
      b == ParseInteger(From(aml, length + used + 1 + a[2]))
  IN  IF used = 0 \/ length + used > Len(aml) \/ a = <<>> \/ b = <<>> THEN <<>>
      ELSE <<a[1] % 8, b[1] % 8>>
ParseS5(aml) ==
  LET found == {i \in 1..(Len(aml) - 2) : Candidate(aml, i)}
      types == SleepTypes(aml, Min(found))
  IN  IF found = {} THEN [error |-> "MissingS5Package"]
      ELSE IF types = <<>> THEN [error |-> "InvalidS5Package"]
      ELSE [error |-> "none", a |-> types[1], b |-> types[2]]

-----------------------------------------------------------------------------
(* discover_acpi_shutdown: the discovery and, if it is good, the shutdown. *)
Shutdown(d, fadt, s5) ==
  [d |-> d, backend |-> [kind |-> "AcpiSoftOff", a |-> fadt.a, b |-> fadt.b,
                         typeA |-> s5.a, typeB |-> s5.b]]
Unavailable(d) == [d |-> d, backend |-> [kind |-> "Unavailable", error |-> d.error]]

(* One step for each table, each going on from the mapping of its table.   *)
DiscoverDsdt(d, fadt) ==
  LET s5 == ParseS5(TableAt(d.tables, fadt.dsdt).aml)
  IN  IF ~Good(d) THEN Unavailable(d)
      ELSE IF s5.error # "none" THEN Unavailable(Refuse(d, s5.error))
      ELSE Shutdown(d, fadt, s5)
DiscoverFadt(d, address) ==
  LET fadt == ParseFadt(TableAt(d.tables, address))
  IN  IF ~Good(d) THEN Unavailable(d)
      ELSE IF fadt.error # "none" THEN Unavailable(Refuse(d, fadt.error))
      ELSE DiscoverDsdt(MapSdt(d, fadt.dsdt, "DSDT"), fadt)
FollowFadt(s) ==
  IF ~Good(s.d) THEN Unavailable(s.d) ELSE DiscoverFadt(MapSdt(s.d, s.fadt, "FACP"), s.fadt)
DiscoverRoot(d, address) ==
  IF ~Good(d) THEN Unavailable(d) ELSE FollowFadt(FindFadt(d, TableAt(d.tables, address)))
DiscoverRsdp(d, rsdp) ==
  LET pointer == ParseRsdp(TableAt(d.tables, rsdp))
  IN  IF ~Good(d) THEN Unavailable(d)
      ELSE IF pointer.error # "none" THEN Unavailable(Refuse(d, pointer.error))
      ELSE DiscoverRoot(MapSdt(d, pointer.address, pointer.sig), pointer.address)
Discover(k, tables, rsdp) ==
  IF rsdp = 0 THEN Unavailable(Refuse(Discovery(k, tables), "MissingRsdp"))
  ELSE DiscoverRsdp(MapBytes(Discovery(k, tables), rsdp, RsdpWords), rsdp)

(* AcpiShutdown::perform: the port writes, in order.                       *)
Perform(backend) ==
  <<[port |-> backend.a, type |-> backend.typeA]>> \o
  (IF backend.b = NoPort THEN <<>> ELSE <<[port |-> backend.b, type |-> backend.typeB]>>)
=============================================================================
