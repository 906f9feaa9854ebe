----------------------------- MODULE MCStorage -----------------------------
(***************************************************************************)
(* Machines and disks for Storage.                                         *)
(***************************************************************************)
EXTENDS Storage

Device(ahci, abar, headerType, cacheLine) ==
  [ahci |-> ahci, abar |-> abar, headerType |-> headerType, cacheLine |-> cacheLine]
Other == Device(FALSE, 5, 0, 16)
Bridge == Device(FALSE, 0, 128, 128)
Sata(abar) == Device(TRUE, abar, 0, 0)
Controller(implemented, disks) == [implemented |-> implemented, disks |-> disks]
OneDisk == Controller({0, 1}, {0})

Partition(type, name, start, end) == [type |-> type, name |-> name, start |-> start, end |-> end]
Esp == Partition("esp", "LAZERS-ESP", 4, 9)
SystemPartition == Partition("data", "LAZERS-SYSTEM", 20, 39)
Backup == Partition("data", "LAZERS-SYSTEM", 50, 69)
Home == Partition("data", "HOME", 10, 15)
Inverted == Partition("data", "HOME", 15, 10)
Table(count, size, entries) ==
  [signature |-> TRUE, count |-> count, size |-> size, entries |-> entries]
PlainTable == Table(4, 1, <<Esp, SystemPartition>>)

Boot(perCluster, reserved, fats, perFat, total16, total32) ==
  [bytesPerSector |-> 512, perCluster |-> perCluster, reserved |-> reserved, fats |-> fats,
   rootEntries |-> 0, total16 |-> total16, fatSize16 |-> 0, total32 |-> total32,
   perFat |-> perFat, root |-> 2]
PlainBoot == Boot(2, 2, 2, 3, 0, 20)
Boots(boot) == (20 :> boot) @@ (50 :> PlainBoot)

OnBus(pci, hba, gpt, boot) ==
  [pci |-> pci, hba |-> hba, gpt |-> gpt, boot |-> Boots(boot)]
Plain(gpt, boot) ==
  OnBus((<<0, 0>> :> Other) @@ (<<1, 0>> :> Sata(8)), (<<1, 0>> :> OneDisk), gpt, boot)

(* Entry lists of up to four, over the sizes an entry may have.            *)
SomeTables ==
  {Table(n, size, entries) :
     n \in {2, 4, 5}, size \in {0, 1, 2, 3, 4, 8},
     entries \in {<<Esp, SystemPartition>>, <<SystemPartition, Unused, Esp, Backup>>,
                  <<Unused, Home, Esp, Home, SystemPartition>>, <<Home, Esp, Home, SystemPartition>>,
                  <<Esp, Home>>, <<SystemPartition>>, <<Esp, Inverted, SystemPartition>>,
                  <<Esp, SystemPartition, Home, Inverted>>, <<Esp, Home, SystemPartition>>,
                  <<Esp, SystemPartition, Inverted>>}}
  \cup {[PlainTable EXCEPT !.signature = FALSE]}
SomeBoots ==
  {Boot(c, r, f, p, t[1], t[2]) :
     c \in {0, 1, 2, 3}, r \in {0, 1, 2}, f \in {0, 1, 2}, p \in {0, 3},
     t \in {<<0, 20>>, <<19, 40>>, <<0, 21>>, <<0, 0>>}}
  \cup {[PlainBoot EXCEPT !.bytesPerSector = 1024], [PlainBoot EXCEPT !.rootEntries = 16],
        [PlainBoot EXCEPT !.fatSize16 = 3]}
(* Buses: no controller, one whose registers have no address before        *)
(* another, one behind a function that is missing, one without a disk.     *)
SomeBuses ==
  {OnBus((<<0, 0>> :> Other), (<<0, 0>> :> OneDisk), PlainTable, PlainBoot),
   OnBus((<<0, 0>> :> Sata(0)) @@ (<<1, 0>> :> Sata(8)), (<<1, 0>> :> OneDisk), PlainTable, PlainBoot),
   OnBus((<<0, 0>> :> Bridge) @@ (<<0, 2>> :> Sata(8)), (<<0, 2>> :> OneDisk), PlainTable, PlainBoot),
   OnBus((<<0, 0>> :> Sata(8)) @@ (<<1, 0>> :> Sata(9)),
         (<<0, 0>> :> OneDisk) @@ (<<1, 0>> :> Controller({}, {})), PlainTable, PlainBoot),
   OnBus((<<0, 0>> :> Sata(8)), (<<0, 0>> :> Controller({1}, {0})), PlainTable, PlainBoot),
   OnBus((<<0, 0>> :> Sata(8)), (<<0, 0>> :> Controller(0..8, {7})), PlainTable, PlainBoot)}
AllComputers ==
  SomeBuses \cup {Plain(t, PlainBoot) : t \in SomeTables} \cup {Plain(PlainTable, b) : b \in SomeBoots}

(* The controller is the third function of a chipset's slot.               *)
LaterFunction ==
  {OnBus((<<0, 0>> :> Device(FALSE, 0, 128, 0)) @@ (<<0, 2>> :> Sata(8)), (<<0, 2>> :> OneDisk),
         PlainTable, PlainBoot)}
(* The disk is attached to the second port.                                *)
LaterPort ==
  {OnBus((<<0, 0>> :> Sata(8)), (<<0, 0>> :> Controller({0, 1}, {1})), PlainTable, PlainBoot)}
=============================================================================
