------------------------------- MODULE Mount -------------------------------
(***************************************************************************)
(* From the machine to the root file system (mount_root_fs in              *)
(* storage/rootfs.rs): the scan of the PCI bus for an AHCI controller      *)
(* (pci.rs), the search for a port with a disk (storage/ahci.rs), the GPT  *)
(* (storage/gpt.rs) and the boot sector of the system partition            *)
(* (Fat32::mount).  The port's initialisation and its reads are in Ahci,   *)
(* the mapping of the registers in AddressSpaces.                          *)
(*                                                                         *)
(* Sectors count in units of 128 bytes, the smallest partition entry, and  *)
(* the registers of the controller in units of 16 bytes.                   *)
(***************************************************************************)
EXTENDS Integers, FiniteSets, SequencesExt, FiniteSetsExt

CONSTANTS
  PciSlots,        \* bound: the slots of the one bus, 0 to this
  PciFunctions,    \* bound: functions of a slot, 0 to this (7)
  Ports,           \* bound: ports of a controller, 0 to this (31)
  SectorUnits,     \* 512 / 128
  MaxPartitions,   \* length of GptPartitions.partitions
  MountMachines    \* machines considered

(* What the driver decodes: partition entries and boot sectors.            *)
PartitionEntries == [type : STRING, name : STRING, start : Nat, end : Nat]
BootSectors ==
  [bytesPerSector : Nat, perCluster : Nat, reserved : Nat, fats : Nat, rootEntries : Nat,
   total16 : Nat, fatSize16 : Nat, total32 : Nat, perFat : Nat, root : Nat]

(* Every number is unsigned; a function has its place on the bus; boot     *)
(* holds the first sector of every partition with the system's name.       *)
ASSUME MountAssumption ==
  /\ {PciSlots, PciFunctions, Ports, SectorUnits, MaxPartitions} \subseteq Nat /\ SectorUnits # 0
  /\ \A c \in MountMachines :
       /\ DOMAIN c.pci \subseteq (0..PciSlots) \X (0..PciFunctions)
       /\ c.gpt.size \in Nat /\ c.gpt.count \in Nat /\ c.gpt.entries \in Seq(PartitionEntries)
       /\ \A i \in DOMAIN c.gpt.entries :
            c.gpt.entries[i].name = "LAZERS-SYSTEM" => c.boot[c.gpt.entries[i].start] \in BootSectors

VARIABLES
  computer,     \* the machine, never written
  stage,        \* how far mount_root_fs has come
  controller,   \* where the AHCI controller sits
  portIndex,    \* AhciController.port_index
  sectorIndex,  \* sectors of the partition table read
  partitions,   \* GptPartitions.partitions
  rootFs,       \* ROOT_FS once mounted
  failure       \* the StorageError, else "none"
mountVars == <<computer, stage, controller, portIndex, sectorIndex, partitions, rootFs, failure>>

NoPlace == <<-1, -1>>
NotMounted == [start |-> -1]

MountInit ==
  /\ computer \in MountMachines
  /\ stage = "pci" /\ controller = NoPlace /\ portIndex = -1
  /\ sectorIndex = 0 /\ partitions = <<>>
  /\ rootFs = NotMounted /\ failure = "none"

Fail(error) ==
  /\ stage' = "failed" /\ failure' = error
  /\ UNCHANGED <<computer, controller, portIndex, sectorIndex, partitions, rootFs>>

-----------------------------------------------------------------------------
(* The configuration space of a function that is there: its header type is *)
(* byte 14, its cache line size byte 12.                                   *)
ConfigByte(place, offset) ==
  LET function == computer.pci[place]
  IN  IF offset = 14 THEN function.headerType ELSE IF offset = 12 THEN function.cacheLine ELSE 0
PciHeaderTypeOffset == 12
Answers(place) == place \in DOMAIN computer.pci
MultiFunction(slot) == ConfigByte(<<slot, 0>>, PciHeaderTypeOffset) \div 128 = 1
FunctionsOf(slot) == IF MultiFunction(slot) THEN 0..PciFunctions ELSE {0}

(* find_ahci_controller: the first in the order of the scan.               *)
Scanned ==
  {p \in (0..PciSlots) \X (0..PciFunctions) : Answers(<<p[1], 0>>) /\ p[2] \in FunctionsOf(p[1])}
Usable(place) == Answers(place) /\ computer.pci[place].ahci /\ computer.pci[place].abar # 0
Earlier(p, q) == p[1] < q[1] \/ (p[1] = q[1] /\ p[2] < q[2])
First(places) == CHOOSE p \in places : \A q \in places \ {p} : Earlier(p, q)
FindController ==
  LET found == {p \in Scanned : Usable(p)}
  IN  /\ stage = "pci"
      /\ IF found = {} THEN Fail("AhciControllerNotFound")
         ELSE /\ stage' = "port" /\ controller' = First(found)
              /\ UNCHANGED <<computer, portIndex, sectorIndex, partitions, rootFs, failure>>

-----------------------------------------------------------------------------
(* Port p has its registers at unit 8 * p of the port area.  The driver's  *)
(* HbaPort is 0x70 bytes long, so it looks for them at 7 * p, and only     *)
(* where that is a multiple of 8 does it see the registers of a port.      *)
PortStride == 8
HbaPortSize == 7
RealPort(index) == (index * HbaPortSize) \div PortStride
SeesPort(index) == (index * HbaPortSize) % PortStride = 0

(* port_is_sata_disk and AhciController::initialize.                       *)
Hba == computer.hba[controller]
PortIsDisk(index) == SeesPort(index) /\ RealPort(index) \in Hba.disks
FindPort ==
  LET found == {i \in 0..Ports : i \in Hba.implemented /\ PortIsDisk(i)}
  IN  /\ stage = "port"
      /\ IF found = {} THEN Fail("AhciPortNotFound")
         ELSE /\ stage' = "header" /\ portIndex' = Min(found)
              /\ UNCHANGED <<computer, controller, sectorIndex, partitions, rootFs, failure>>

-----------------------------------------------------------------------------
(* GptPartitions::read.  Entry e of the table takes size units from        *)
(* e * size on; the disk may hold more entries than the header counts.     *)
Gpt == computer.gpt
Unused == [type |-> "none", name |-> "", start |-> 0, end |-> 0]
EntryAt(unit) ==
  IF unit % Gpt.size = 0 /\ unit \div Gpt.size < Len(Gpt.entries)
  THEN Gpt.entries[1 + unit \div Gpt.size] ELSE Unused
TableSectors == (Gpt.count * Gpt.size + SectorUnits - 1) \div SectorUnits

ReadHeader ==
  /\ stage = "header"
  /\ IF ~Gpt.signature THEN Fail("InvalidGptHeader")
     ELSE IF Gpt.size < 1 THEN Fail("InvalidPartitionTable")
     ELSE /\ stage' = "table"
          /\ UNCHANGED <<computer, controller, portIndex, sectorIndex, partitions, rootFs, failure>>

(* The entries of one sector, as far as they are whole and there is room.  *)
FirstEntryInSector(i) == <<EntryAt(i * SectorUnits)>>
EntriesInSector(i) ==
  [k \in 1..(SectorUnits \div Gpt.size) |-> EntryAt(i * SectorUnits + (k - 1) * Gpt.size)]
Taken(i) ==
  LET entries == EntriesInSector(i)
      taken[k \in 0..Len(entries)] ==
        IF k = 0 THEN <<>>
        ELSE LET before == taken[k - 1]
             IN  IF entries[k].type = "none" \/ Len(partitions) + Len(before) >= MaxPartitions
                 THEN before ELSE Append(before, entries[k])
  IN  taken[Len(entries)]
ReadTable ==
  LET taken == Taken(sectorIndex)
  IN  /\ stage = "table" /\ sectorIndex < TableSectors
      /\ IF \E i \in DOMAIN taken : taken[i].end < taken[i].start THEN Fail("InvalidPartitionTable")
         ELSE /\ partitions' = partitions \o taken /\ sectorIndex' = sectorIndex + 1
              /\ UNCHANGED <<computer, stage, controller, portIndex, rootFs, failure>>

(* find_by_type and find_by_name.                                          *)
EspAt == SelectInSeq(partitions, LAMBDA e : e.type = "esp")
SystemAt == SelectInSeq(partitions, LAMBDA e : e.name = "LAZERS-SYSTEM")
FindPartitions ==
  /\ stage = "table" /\ sectorIndex = TableSectors
  /\ IF EspAt = 0 THEN Fail("MissingEspPartition")
     ELSE IF SystemAt = 0 THEN Fail("MissingSystemPartition")
     ELSE /\ stage' = "boot"
          /\ UNCHANGED <<computer, controller, portIndex, sectorIndex, partitions, rootFs, failure>>

-----------------------------------------------------------------------------
(* Fat32::mount.                                                           *)
System == partitions[SystemAt]
SectorCount(partition) == partition.end - partition.start + 1
TotalSectors(boot) == IF boot.total16 # 0 THEN boot.total16 ELSE boot.total32
Malformed(boot) ==
  \/ boot.bytesPerSector # 512 \/ boot.rootEntries # 0 \/ boot.fatSize16 # 0
  \/ 0 \in {boot.perCluster, boot.reserved, boot.fats, boot.perFat}
FirstDataSectorOneFat(partition, boot) == partition.start + boot.reserved + boot.perFat
FirstDataSector(partition, boot) == partition.start + boot.reserved + boot.fats * boot.perFat
MountFat ==
  LET boot == computer.boot[System.start]
  IN  /\ stage = "boot"
      /\ IF \/ Malformed(boot)
            \/ TotalSectors(boot) = 0
            \/ TotalSectors(boot) > SectorCount(System)
         THEN Fail("InvalidFat32BootSector")
         ELSE /\ stage' = "mounted"
              /\ rootFs' = [start |-> System.start, count |-> SectorCount(System),
                            perCluster |-> boot.perCluster, reserved |-> boot.reserved,
                            root |-> boot.root, firstData |-> FirstDataSector(System, boot)]
              /\ UNCHANGED <<computer, controller, portIndex, sectorIndex, partitions, failure>>

(* A sector that cannot be read ends the mount.                            *)
DiskFails ==
  /\ stage \in {"header", "boot"} \/ (stage = "table" /\ sectorIndex < TableSectors)
  /\ Fail("AhciCommandTimeout")

(* cluster_to_lba: the first sector of a cluster, 0 if it is refused.      *)
ClusterToLba(cluster) ==
  LET lba == rootFs.firstData + (cluster - 2) * rootFs.perCluster
  IN  IF cluster < 2 \/ lba >= rootFs.start + rootFs.count THEN 0 ELSE lba

MountNext ==
  \/ FindController \/ FindPort \/ ReadHeader \/ ReadTable \/ FindPartitions \/ MountFat
  \/ DiskFails

(* Another component at work.                                              *)
MountRests ==
  /\ computer = <<>> /\ stage = "rest" /\ controller = NoPlace /\ portIndex = -1
  /\ sectorIndex = 0 /\ partitions = <<>> /\ rootFs = NotMounted /\ failure = "none"

-----------------------------------------------------------------------------
(* What the partition table says: its entries, the first MaxPartitions     *)
(* used ones, the system partition.                                        *)
UsedAmong(n) ==
  LET used[i \in 0..n] ==
        IF i = 0 THEN <<>>
        ELSE IF Gpt.entries[i].type = "none" THEN used[i - 1] ELSE Append(used[i - 1], Gpt.entries[i])
  IN  used[n]
Declared ==
  LET used == UsedAmong(Min({Gpt.count, Len(Gpt.entries)}))
  IN  SubSeq(used, 1, Min({MaxPartitions, Len(used)}))
PlacesNamed(name) == {i \in DOMAIN Declared : Declared[i].name = name}
DeclaredSystem == Declared[Min(PlacesNamed("LAZERS-SYSTEM"))]
(* The driver reads whole sectors, so what follows the last entry counted  *)
(* in its sector must be empty.                                            *)
NothingBehind ==
  \A i \in (Gpt.count + 1)..Len(Gpt.entries) :
    (i - 1) * Gpt.size < TableSectors * SectorUnits => Gpt.entries[i].type = "none"
WellPartitioned ==
  /\ Gpt.signature /\ Gpt.size >= 1 /\ SectorUnits % Gpt.size = 0 /\ NothingBehind
  /\ \A i \in DOMAIN Declared : Declared[i].start <= Declared[i].end
  /\ \E i \in DOMAIN Declared : Declared[i].type = "esp"
  /\ PlacesNamed("LAZERS-SYSTEM") # {}
Mountable ==
  LET boot == computer.boot[DeclaredSystem.start]
  IN  ~Malformed(boot) /\ TotalSectors(boot) \in 1..SectorCount(DeclaredSystem)

(* The first controller sits at function 0 and has a disk at port 0.       *)
PlainlyAttached ==
  LET all == {p \in DOMAIN computer.pci : Usable(p)}
  IN  /\ all # {} /\ First(all)[2] = 0
      /\ 0 \in computer.hba[First(all)].implemented \cap computer.hba[First(all)].disks

(* With a disk at the first port of a controller at function 0, and unless *)
(* the disk fails, the first partition of the table with the system's name *)
(* is mounted, wherever in the table it and the EFI partition stand and    *)
(* whatever size the entries have that divides a sector, if nothing follows*)
(* the entries counted; nothing else is (mount_root_fs,                    *)
(* GptPartitions::read).                                                   *)
SystemMounted ==
  /\ stage = "failed" /\ failure # "AhciCommandTimeout"
       => ~(PlainlyAttached /\ WellPartitioned /\ Mountable)
  /\ stage = "mounted" /\ WellPartitioned =>
       rootFs.start = DeclaredSystem.start /\ rootFs.count = SectorCount(DeclaredSystem)

VolumeClusters(boot) ==
  LET sectors == TotalSectors(boot) - boot.reserved - boot.fats * boot.perFat
  IN  2..(1 + sectors \div boot.perCluster)
(* Every cluster the mounted volume has lies behind its FATs and inside    *)
(* its partition, and no two share a sector (Fat32::mount with             *)
(* cluster_to_lba).                                                        *)
ClustersInPartition ==
  stage = "mounted" =>
    LET boot == computer.boot[rootFs.start]
        sectorsOf(c) == ClusterToLba(c)..(ClusterToLba(c) + boot.perCluster - 1)
    IN  \A c \in VolumeClusters(boot) :
          /\ sectorsOf(c) \subseteq
               (rootFs.start + boot.reserved + boot.fats * boot.perFat)..(rootFs.start + TotalSectors(boot) - 1)
          /\ \A d \in VolumeClusters(boot) \ {c} : sectorsOf(c) \cap sectorsOf(d) = {}

(* "Scans conventional PCI configuration space for the first AHCI          *)
(* controller" (pci.rs): one that is there is found.                       *)
ControllerFound ==
  failure = "AhciControllerNotFound" => \A p \in DOMAIN computer.pci : ~Usable(p)

(* "Discovers the first AHCI disk" (storage/rootfs.rs): one that is        *)
(* attached to the controller is found.                                    *)
DiskFound == failure = "AhciPortNotFound" => Hba.implemented \cap Hba.disks = {}
=============================================================================
