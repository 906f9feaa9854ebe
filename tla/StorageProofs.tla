--------------------------- MODULE StorageProofs ---------------------------
(***************************************************************************)
(* Proofs about the storage stack, for every set of sectors, every number  *)
(* of polls, every bus, table and volume: what a sector read delivers,     *)
(* when the port's structures are changed, which partition is mounted,     *)
(* where a mounted volume has its clusters and what its file system        *)
(* answers.                                                                *)
(***************************************************************************)
EXTENDS Storage, SequenceTheorems, WellFoundedInduction, TLAPS

(* Where the driver is when it has not touched the port's structures yet,  *)
(* and when it has.                                                        *)
SettingUp == {"rest", "off", "stopping", "program", "start", "dead"}
Serving == {"idle", "ready", "prepare", "issue", "status", "completion", "copy"}

PortTypes ==
  /\ at \in SettingUp \cup Serving
  /\ st \in BOOLEAN /\ cr \in BOOLEAN /\ early \in BOOLEAN
  /\ ci \in BOOLEAN /\ busy \in BOOLEAN /\ tfes \in BOOLEAN /\ halted \in BOOLEAN
  /\ fetched \in Lbas \cup {None}
  /\ at \in Serving \ {"idle"} => lba \in Lbas
  /\ ci \/ at \in {"issue", "status", "completion", "copy"} => table \in Lbas

(* The engine stands still from the moment the driver saw it stop until it *)
(* is started again on the kernel's structures, and the start bit is set   *)
(* by firmware before and by the driver after.                             *)
EngineStopped ==
  /\ at = "off" => cr = st
  /\ at \in {"rest", "stopping", "dead"} => ~st
  /\ at \in {"program", "start"} => ~st /\ ~cr
  /\ at \in Serving \cup {"start"} => bases = "kernel"

(* What the registers say about the controller: busy while it carries a    *)
(* command out, which keeps its issue bit; after an error it takes none.   *)
ControllerInv ==
  /\ busy <=> fetched # None
  /\ fetched # None => ci
  /\ halted => fetched = None
  /\ tfes => halted
  /\ at \in SettingUp => ~ci /\ fetched = None

(* Which command the controller may still take or have taken, as long as   *)
(* none was given up before it was taken.                                  *)
CommandInv ==
  /\ at \in SettingUp => ~delivered.ok
  /\ at \in {"idle", "ready"} => ~ci \/ halted \/ fetched # None
  /\ at \in {"prepare", "issue"} => fetched = None /\ (~ci \/ halted)
  /\ at \in {"issue", "status", "completion", "copy"} => table = lba
  /\ at \in {"status", "completion"} => fetched \in {None, lba} /\ (~ci => dma = lba)
  /\ at = "copy" => ~ci /\ dma = lba
  /\ at = "idle" /\ delivered.ok => delivered.data = lba

PortInv == PortTypes /\ EngineStopped /\ ControllerInv /\ (~early => CommandInv)

-----------------------------------------------------------------------------
LEMMA PortInvInit == Init => PortInv
<1> USE DEF PortInv, PortTypes, EngineStopped, ControllerInv, CommandInv, SettingUp, Serving, None
<1>1. ASSUME PortInit PROVE PortInv
  BY <1>1 DEF PortInit
<1>2. ASSUME PortRests PROVE PortInv
  BY <1>2 DEF PortRests
<1> QED
  BY <1>1, <1>2 DEF Init

(* The driver's steps: setting the port up, then one sector read.          *)
LEMMA SettingUpKeepsPort ==
  ASSUME PortInv, StopPort \/ PollStopped \/ ProgramPort \/ StartPort
  PROVE  PortInv'
<1> USE DEF PortInv, PortTypes, EngineStopped, ControllerInv, CommandInv, SettingUp, Serving,
            port
<1>1. CASE StopPort
  BY <1>1 DEF StopPort
<1>2. CASE PollStopped
  BY <1>2 DEF PollStopped
<1>3. CASE ProgramPort
  BY <1>3 DEF ProgramPort
<1>4. CASE StartPort
  BY <1>4 DEF StartPort
<1> QED
  BY <1>1, <1>2, <1>3, <1>4

LEMMA ReadingKeepsPort ==
  ASSUME PortInv,
         \/ \E sector \in Lbas : BeginSector(sector)
         \/ PollReady \/ Prepare \/ Issue \/ PollStatus \/ PollIssue \/ CopyOut
  PROVE  PortInv'
<1> USE DEF PortInv, PortTypes, EngineStopped, ControllerInv, CommandInv, SettingUp, Serving,
            port
<1>1. CASE \E sector \in Lbas : BeginSector(sector)
  BY <1>1 DEF BeginSector
<1>2. CASE PollReady
  BY <1>2 DEF PollReady, Fails
<1>3. CASE Prepare
  BY <1>3 DEF Prepare
<1>4. CASE Issue
  BY <1>4 DEF Issue
<1>5. CASE PollStatus
  BY <1>5 DEF PollStatus, Fails
<1>6. CASE PollIssue
  BY <1>6 DEF PollIssue, Fails
<1>7. CASE CopyOut
  BY <1>7 DEF CopyOut
<1> QED
  BY <1>1, <1>2, <1>3, <1>4, <1>5, <1>6, <1>7

(* The controller's steps, at any moment between the driver's.             *)
LEMMA ControllerKeepsPort ==
  ASSUME PortInv, EngineFollows \/ Fetch \/ Transfer \/ Complete \/ TaskFileError
  PROVE  PortInv'
<1> USE AhciAssumption DEF PortInv, PortTypes, EngineStopped, ControllerInv, CommandInv,
            SettingUp, Serving, port, driver, None
<1>1. CASE EngineFollows
  BY <1>1 DEF EngineFollows
<1>2. CASE Fetch
  <2>1. PortTypes'
    BY <1>2 DEF Fetch
  <2>2. EngineStopped'
    BY <1>2 DEF Fetch
  <2>3. ControllerInv'
    BY <1>2 DEF Fetch
  <2>4. ~early' => CommandInv'
    BY <1>2 DEF Fetch
  <2> QED
    BY <2>1, <2>2, <2>3, <2>4
<1>3. CASE Transfer
  BY <1>3 DEF Transfer
<1>4. CASE Complete
  BY <1>4 DEF Complete
<1>5. CASE TaskFileError
  BY <1>5 DEF TaskFileError
<1> QED
  BY <1>1, <1>2, <1>3, <1>4, <1>5

LEMMA PortInvStep ==
  ASSUME PortInv, [Next]_vars
  PROVE  PortInv'
<1>1. CASE PortNext
  BY <1>1, SettingUpKeepsPort, ReadingKeepsPort, ControllerKeepsPort DEF PortNext
<1>2. CASE UNCHANGED portVars
  BY <1>2 DEF portVars, driver, port, PortInv, PortTypes, EngineStopped, ControllerInv, CommandInv
<1> QED
  BY <1>1, <1>2 DEF Next, vars

(* The driver and the controller agree on what the port's structures hold  *)
(* at every place of initialize_port and read_sector.                      *)
THEOREM PortInvariant == Spec => []PortInv
<1>1. PortInv /\ [Next]_vars => PortInv'
  BY PortInvStep
<1> QED
  BY PortInvInit, <1>1, PTL DEF Spec

(* A sector read that succeeds delivers the sector it was asked for, for   *)
(* any sectors and any number of polls, however late the controller        *)
(* carries out the commands that were given up (read_sector).              *)
THEOREM SectorReadsRight == Spec => []RightSector
<1>1. PortInv => RightSector
  BY DEF PortInv, PortTypes, CommandInv, RightSector
<1> QED
  BY PortInvariant, <1>1, PTL

(* The addresses of the port's structures change only while its engine     *)
(* stands still, and the engine never starts on the firmware's structures  *)
(* (initialize_port).                                                      *)
THEOREM ListChangesAtRest == Spec => EngineSeesOneList
<1>1. PortInv /\ [Next]_vars => [OneListStep]_portVars
  <2> SUFFICES ASSUME PortInv, [Next]_vars PROVE OneListStep
    OBVIOUS
  <2> USE DEF OneListStep
  <2>1. ProgramPort \/ EngineFollows \/ UNCHANGED <<bases, cr>>
    BY DEF Next, vars, portVars, PortNext, driver, port, StopPort, PollStopped, StartPort, BeginSector,
           PollReady, Prepare, Issue, PollStatus, PollIssue, CopyOut, Fetch, Transfer, Complete,
           TaskFileError
  <2>2. CASE ProgramPort
    BY <2>2 DEF PortInv, EngineStopped, ProgramPort
  <2>3. CASE EngineFollows
    BY <2>3 DEF PortInv, PortTypes, EngineStopped, SettingUp, EngineFollows
  <2> QED
    BY <2>1, <2>2, <2>3
<1> QED
  BY PortInvariant, <1>1, PTL DEF Spec, EngineSeesOneList

-----------------------------------------------------------------------------
(* The mount.  Induction over the naturals, for sets, shows what the loop  *)
(* over the entries of a sector makes of any sector.                       *)
LEMMA LeastNatural ==
  ASSUME NEW T \in SUBSET Nat, T # {} PROVE \E x \in T : \A y \in T : x <= y
<1> DEFINE R == OpToRel(<, Nat)
<1>1. IsWellFoundedOn(R, Nat)
  BY NatLessThanWellFounded
<1>2. \A x, y \in Nat : <<y, x>> \in R <=> y < x
  BY DEF OpToRel
<1> HIDE DEF R
<1>3. PICK x \in T : \A y \in T : ~(<<y, x>> \in R)
  BY <1>1, WFMin
<1>4. \A y \in T : ~(y < x)
  BY <1>2, <1>3
<1> QED  BY <1>4

LEMMA UpTo ==
  ASSUME NEW L \in Nat, NEW T, 0 \in T, \A n \in 1..L : n - 1 \in T => n \in T
  PROVE  \A n \in 0..L : n \in T
<1> DEFINE bad == {n \in 0..L : n \notin T}
<1> SUFFICES ASSUME bad # {} PROVE FALSE
  OBVIOUS
<1>1. bad \in SUBSET Nat
  OBVIOUS
<1>2. PICK n \in bad : \A k \in bad : n <= k
  BY <1>1, LeastNatural
<1>3. n \in 1..L /\ n - 1 \in 0..L /\ ~(n <= n - 1)
  BY <1>2
<1>4. n - 1 \in T
  BY <1>2, <1>3
<1> QED  BY <1>3, <1>4

Steps(L, S) == [1..L -> [S -> S]]
Chain(f, L, S, start, step) ==
  f \in [0..L -> S] /\ f[0] = start /\ \A n \in 1..L : f[n] = step[n][f[n - 1]]
LEMMA Recursion ==
  ASSUME NEW L \in Nat, NEW S, NEW start \in S, NEW step \in Steps(L, S)
  PROVE  \E f : Chain(f, L, S, start, step)
<1> DEFINE Good(f, n) == f[0] = start /\ \A i \in 1..n : f[i] = step[i][f[i - 1]]
           T == {n \in 0..L : \E f \in [0..n -> S] : Good(f, n)}
<1>1. 0 \in T
  <2>1. PICK f : f = [n \in 0..0 |-> start]
    OBVIOUS
  <2>2. f \in [0..0 -> S] /\ Good(f, 0)
    BY <2>1
  <2>3. 0 \in 0..L
    OBVIOUS
  <2> QED  BY <2>2, <2>3
<1>2. ASSUME NEW n \in 1..L, n - 1 \in T PROVE n \in T
  <2>1. PICK f \in [0..(n - 1) -> S] : Good(f, n - 1)
    BY <1>2
  <2>2. PICK h : h = [i \in 0..n |-> IF i = n THEN step[n][f[n - 1]] ELSE f[i]]
    OBVIOUS
  <2>3. \A i \in 0..(n - 1) : i \in 0..n /\ i # n /\ h[i] = f[i] /\ f[i] \in S
    BY <2>2
  <2>4. n - 1 \in 0..(n - 1) /\ n \in 0..n /\ 0 \in 0..(n - 1)
    OBVIOUS
  <2>5. step[n] \in [S -> S] /\ f[n - 1] \in S /\ h[n] = step[n][f[n - 1]]
    BY <2>2, <2>3, <2>4 DEF Steps
  <2>6. h[n] \in S /\ h[n] = step[n][h[n - 1]]
    BY <2>3, <2>4, <2>5
  <2>7. h \in [0..n -> S]
    <3>1. \A i \in 0..n : i = n \/ i \in 0..(n - 1)
      OBVIOUS
    <3>2. \A i \in 0..n : h[i] \in S
      BY <3>1, <2>3, <2>6
    <3> QED  BY <3>2, <2>2
  <2>8. Good(h, n)
    <3>1. h[0] = start
      BY <2>1, <2>3, <2>4
    <3>2. ASSUME NEW i \in 1..n PROVE h[i] = step[i][h[i - 1]]
      <4>1. CASE i = n
        BY <4>1, <2>6
      <4>2. CASE i # n
        <5>1. i \in 1..(n - 1) /\ i \in 0..(n - 1) /\ i - 1 \in 0..(n - 1)
          BY <4>2
        <5> QED  BY <5>1, <2>1, <2>3
      <4> QED  BY <4>1, <4>2
    <3> QED  BY <3>1, <3>2
  <2> QED  BY <2>7, <2>8
<1>3. L \in 0..L
  OBVIOUS
<1> HIDE DEF T
<1>4. L \in T
  BY <1>1, <1>2, <1>3, UpTo
<1> QED  BY <1>4 DEF T, Chain

(* Products and quotients.                                                 *)
LEMMA TimesMono ==
  ASSUME NEW a \in Nat, NEW b \in Nat, a <= b, NEW s \in Nat PROVE a * s \in Nat /\ a * s <= b * s
<1>1. PICK d : d = b - a
  OBVIOUS
<1>2. d \in Nat /\ b = a + d
  BY <1>1
<1>3. a * s \in Nat /\ d * s \in Nat
  BY <1>2
<1>4. b * s = a * s + d * s
  BY <1>2
<1> QED  BY <1>3, <1>4

LEMMA TimesCancel ==
  ASSUME NEW a \in Nat, NEW b \in Nat, NEW s \in Nat \ {0}, a * s <= b * s PROVE a <= b
<1> SUFFICES ASSUME b + 1 <= a PROVE FALSE
  OBVIOUS
<1>1. (b + 1) * s <= a * s
  BY TimesMono
<1>2. (b + 1) * s = b * s + s /\ b * s \in Nat /\ a * s \in Nat
  OBVIOUS
<1> QED  BY <1>1, <1>2

LEMMA DivisionIs ==
  ASSUME NEW n \in Nat, NEW s \in Nat \ {0}
  PROVE  /\ n \div s \in Nat /\ n % s \in 0..(s - 1) /\ n = s * (n \div s) + (n % s)
OBVIOUS

LEMMA WholeTimes ==
  ASSUME NEW a \in Nat, NEW s \in Nat \ {0} PROVE (a * s) % s = 0 /\ (a * s) \div s = a
<1>1. PICK n, q, r : n = a * s /\ q = n \div s /\ r = n % s
  OBVIOUS
<1>2. n \in Nat
  BY <1>1
<1>3. q \in Nat /\ r \in 0..(s - 1) /\ n = s * q + r
  BY <1>1, <1>2, DivisionIs
<1>4. q * s \in Nat /\ s * q = q * s
  BY <1>3
<1>5. q <= a
  <2>1. q * s <= a * s
    BY <1>1, <1>3, <1>4
  <2> QED  BY <2>1, <1>3, TimesCancel
<1>6. a <= q
  <2> SUFFICES ASSUME q + 1 <= a PROVE FALSE
    BY <1>3
  <2>1. (q + 1) * s <= a * s
    BY <1>3, TimesMono
  <2>2. (q + 1) * s = q * s + s
    BY <1>3
  <2> QED  BY <2>1, <2>2, <1>1, <1>3, <1>4
<1>7. q = a /\ r = 0
  BY <1>1, <1>3, <1>4, <1>5, <1>6
<1> QED  BY <1>1, <1>7

LEMMA RoundedUp ==
  ASSUME NEW x \in Nat, NEW u \in Nat \ {0}
  PROVE  (x + u - 1) \div u \in Nat /\ x <= ((x + u - 1) \div u) * u
<1>1. PICK n, q, r : n = x + u - 1 /\ q = n \div u /\ r = n % u
  OBVIOUS
<1>2. n \in Nat
  BY <1>1
<1>3. q \in Nat /\ r \in 0..(u - 1) /\ n = u * q + r
  BY <1>1, <1>2, DivisionIs
<1>4. q * u \in Nat /\ u * q = q * u
  BY <1>3
<1> QED  BY <1>1, <1>3, <1>4
(* The entries of the partition table.                                     *)
LEMMA MinIn == ASSUME NEW T \in SUBSET Nat, T # {} PROVE Min(T) \in T
  BY LeastNatural DEF Min

(* The entries the table on the disk has.                                  *)
TableEntries == {Gpt.entries[i] : i \in 1..Len(Gpt.entries)}

(* A place in the table that shows a used entry shows one of them.         *)
LEMMA UsedEntry ==
  ASSUME NEW unit \in Nat, Gpt.size \in Nat \ {0}, Gpt.entries \in Seq(PartitionEntries),
         EntryAt(unit).type # "none"
  PROVE  EntryAt(unit) \in TableEntries
<1>1. PICK q : q = unit \div Gpt.size
  OBVIOUS
<1>2. q \in Nat
  BY <1>1
<1>3. q < Len(Gpt.entries) /\ EntryAt(unit) = Gpt.entries[1 + q]
  BY <1>1 DEF EntryAt, Unused
<1>4. 1 + q \in 1..Len(Gpt.entries)
  BY <1>2, <1>3
<1> QED  BY <1>3, <1>4 DEF TableEntries

TakeStep(before, entry) ==
  IF entry.type = "none" \/ Len(partitions) + Len(before) >= MaxPartitions
  THEN before ELSE Append(before, entry)


(* The table as a row of slots, used or not.                               *)
Slot(n) == IF n <= Len(Gpt.entries) THEN Gpt.entries[n] ELSE Unused
PerSector == SectorUnits \div Gpt.size
Sized == Gpt.size \in Nat \ {0} /\ Gpt.entries \in Seq(PartitionEntries)

LEMMA SlotIs ==
  ASSUME Sized, NEW n \in Nat, n >= 1
  PROVE  Slot(n).type # "none" => Slot(n) \in TableEntries
<1>1. Len(Gpt.entries) \in Nat
  BY DEF Sized
<1>2. CASE n <= Len(Gpt.entries)
  <2>1. n \in 1..Len(Gpt.entries) /\ Slot(n) = Gpt.entries[n]
    BY <1>1, <1>2 DEF Slot
  <2> QED  BY <2>1 DEF TableEntries
<1>3. CASE ~(n <= Len(Gpt.entries))
  BY <1>3 DEF Slot, Unused
<1> QED  BY <1>2, <1>3

LEMMA SectorsWhole ==
  ASSUME Sized, SectorUnits % Gpt.size = 0
  PROVE  PerSector \in Nat /\ SectorUnits \in Nat /\ SectorUnits = PerSector * Gpt.size
<1>1. PICK u, s, q, r : u = SectorUnits /\ s = Gpt.size /\ q = u \div s /\ r = u % s
  OBVIOUS
<1>2. u \in Nat /\ s \in Nat \ {0}
  BY <1>1, MountAssumption DEF Sized
<1>3. q \in Nat /\ u = s * q + r
  <2>1. u \div s \in Nat /\ u = s * (u \div s) + (u % s)
    BY <1>2, DivisionIs, Zenon
  <2>2. q = u \div s /\ r = u % s
    BY <1>1
  <2> QED  BY <2>1, <2>2, Zenon
<1>4. r = 0
  BY <1>1
<1>5. u = q * s
  BY <1>2, <1>3, <1>4
<1> QED  BY <1>1, <1>2, <1>3, <1>5 DEF PerSector

LEMMA SlotAt ==
  ASSUME Sized, SectorUnits % Gpt.size = 0, NEW i \in Nat, NEW k \in 1..PerSector
  PROVE  /\ i * PerSector + k \in Nat /\ i * PerSector + k >= 1
         /\ EntryAt(i * SectorUnits + (k - 1) * Gpt.size) = Slot(i * PerSector + k)
<1>1. PICK s, p, a : s = Gpt.size /\ p = PerSector /\ a = i * p
  OBVIOUS
<1>2. s \in Nat \ {0} /\ p \in Nat /\ SectorUnits = p * s
  BY <1>1, SectorsWhole DEF Sized
<1>3. a \in Nat /\ k \in Nat /\ k >= 1
  BY <1>1, <1>2
<1>4. PICK n : n = a + (k - 1)
  OBVIOUS
<1>5. n \in Nat /\ 1 + n = a + k
  BY <1>3, <1>4
<1>6. i * (p * s) + (k - 1) * s = n * s
  <2>1. k - 1 \in Nat /\ n = i * p + (k - 1)
    BY <1>1, <1>3, <1>4
  <2> QED  BY <2>1, <1>2
<1>7. (n * s) % s = 0 /\ (n * s) \div s = n
  BY <1>2, <1>5, WholeTimes
<1>8. EntryAt(n * s) = IF n < Len(Gpt.entries) THEN Gpt.entries[1 + n] ELSE Unused
  BY <1>1, <1>7 DEF EntryAt
<1>9. PICK len : len = Len(Gpt.entries)
  OBVIOUS
<1>10. n < len <=> 1 + n <= len
  BY <1>5, <1>9 DEF Sized
<1>11. EntryAt(n * s) = Slot(a + k)
  BY <1>5, <1>8, <1>9, <1>10 DEF Slot
<1> QED  BY <1>1, <1>2, <1>3, <1>5, <1>6, <1>11

(* The entries of one sector, as Taken goes through them.                  *)
Takes(t, s) ==
  /\ t \in [0..PerSector -> Seq(TableEntries)] /\ t[0] = <<>>
  /\ \A k \in 1..PerSector : t[k] = TakeStep(t[k - 1], EntriesInSector(s)[k])
LEMMA TakenIs ==
  ASSUME Sized, NEW s \in Nat
  PROVE  PerSector \in Nat /\ \E t : Takes(t, s) /\ Taken(s) = t[PerSector]
<1> DEFINE entries == EntriesInSector(s)
           L == PerSector
           Is(f) == f = [n \in 0..L |-> IF n = 0 THEN <<>> ELSE TakeStep(f[n - 1], entries[n])]
<1>u. SectorUnits \in Nat /\ Gpt.size \in Nat \ {0} /\ Gpt.entries \in Seq(PartitionEntries) /\ L \in Nat
  BY MountAssumption, DivisionIs DEF PerSector, Sized
<1>l. /\ Len(entries) = L
      /\ \A k \in 1..L : entries[k] = EntryAt(s * SectorUnits + (k - 1) * Gpt.size)
  BY <1>u DEF EntriesInSector, PerSector
<1>e. ASSUME NEW k \in 1..L, entries[k].type # "none" PROVE entries[k] \in TableEntries
  <2>1. PICK unit : unit = s * SectorUnits + (k - 1) * Gpt.size
    OBVIOUS
  <2>2. s * SectorUnits \in Nat
    BY <1>u
  <2>3. (k - 1) * Gpt.size \in Nat
    <3>1. k - 1 \in Nat
      BY <1>u
    <3> QED  BY <3>1, <1>u
  <2>4. unit \in Nat
    BY <2>1, <2>2, <2>3
  <2>5. entries[k] = EntryAt(unit)
    BY <1>l, <2>1
  <2> QED  BY <1>e, <1>u, <2>4, <2>5, UsedEntry
<1>2. Taken(s) = (CHOOSE f : Is(f))[L]
  BY <1>l DEF Taken, TakeStep
<1> HIDE DEF L, entries, Is
<1>3. /\ <<>> \in Seq(TableEntries)
      /\ \A a \in Seq(TableEntries) : \A n \in 1..L : TakeStep(a, entries[n]) \in Seq(TableEntries)
  BY <1>e, AppendProperties DEF TakeStep
<1>4. PICK step : step = [n \in 1..L |-> [a \in Seq(TableEntries) |-> TakeStep(a, entries[n])]]
  OBVIOUS
<1>5. step \in Steps(L, Seq(TableEntries))
  BY <1>3, <1>4 DEF Steps
<1>6. PICK f : Chain(f, L, Seq(TableEntries), <<>>, step)
  BY <1>u, <1>3, <1>5, Recursion
<1>7. f \in [0..L -> Seq(TableEntries)] /\ f[0] = <<>> /\ \A n \in 1..L : f[n] = step[n][f[n - 1]]
  BY <1>6 DEF Chain
<1>8. ASSUME NEW n \in 1..L PROVE f[n] = TakeStep(f[n - 1], entries[n])
  <2>1. n - 1 \in 0..L
    BY <1>u
  <2>2. f[n - 1] \in Seq(TableEntries)
    BY <2>1, <1>7
  <2> QED  BY <2>2, <1>4, <1>7
<1>9. Is(f)
  <2>1. ASSUME NEW n \in 0..L PROVE f[n] = IF n = 0 THEN <<>> ELSE TakeStep(f[n - 1], entries[n])
    <3>1. CASE n = 0
      BY <3>1, <1>7
    <3>2. CASE n # 0
      <4>1. n \in 1..L
        BY <3>2, <1>u
      <4> QED  BY <3>2, <4>1, <1>8
    <3> QED  BY <3>1, <3>2
  <2> QED  BY <2>1, <1>7 DEF Is
<1>10. PICK g : g = CHOOSE e : Is(e)
  OBVIOUS
<1>11. Is(g)
  BY <1>9, <1>10
<1>12. g[0] = <<>> /\ \A n \in 1..L : g[n] = TakeStep(g[n - 1], entries[n])
  <2>1. \A n \in 0..L : g[n] = IF n = 0 THEN <<>> ELSE TakeStep(g[n - 1], entries[n])
    BY <1>11 DEF Is
  <2>2. 0 \in 0..L /\ \A n \in 1..L : n \in 0..L /\ n # 0
    BY <1>u
  <2> QED  BY <2>1, <2>2
<1> DEFINE T == {n \in 0..L : g[n] \in Seq(TableEntries)}
<1>13. 0 \in T
  <2>1. 0 \in 0..L
    BY <1>u
  <2> QED  BY <2>1, <1>3, <1>12
<1>14. ASSUME NEW n \in 1..L, n - 1 \in T PROVE n \in T
  <2>1. n \in 0..L /\ g[n - 1] \in Seq(TableEntries)
    BY <1>u, <1>14
  <2> QED  BY <2>1, <1>3, <1>12
<1> HIDE DEF T
<1>15. \A n \in 0..L : n \in T
  BY <1>u, <1>13, <1>14, UpTo
<1>16. g \in [0..L -> Seq(TableEntries)]
  <2>1. \A n \in 0..L : g[n] \in Seq(TableEntries)
    BY <1>15 DEF T
  <2>2. g = [n \in 0..L |-> g[n]]
    BY <1>11 DEF Is
  <2> QED  BY <2>1, <2>2
<1>17. Takes(g, s)
  BY <1>12, <1>16 DEF Takes, L, entries
<1> QED  BY <1>2, <1>10, <1>17, <1>u DEF L

LEMMA TakenIsFromTable ==
  ASSUME NEW s \in Nat, Gpt.size \in Nat \ {0}, Gpt.entries \in Seq(PartitionEntries)
  PROVE  Taken(s) \in Seq(TableEntries)
<1>1. PerSector \in Nat /\ \E t : Takes(t, s) /\ Taken(s) = t[PerSector]
  BY TakenIs DEF Sized
<1>2. PerSector \in 0..PerSector
  BY <1>1
<1> QED  BY <1>1, <1>2 DEF Takes

(* The slots one after the other, sector or not: what is kept of them.     *)
Keep(before, entry) ==
  IF entry.type = "none" \/ Len(before) >= MaxPartitions THEN before ELSE Append(before, entry)
Keeps(F, N) ==
  /\ F \in [0..N -> Seq(TableEntries)] /\ F[0] = <<>>
  /\ \A n \in 1..N : F[n] = Keep(F[n - 1], Slot(n))
LEMMA KeepsSomething ==
  ASSUME Sized, NEW N \in Nat PROVE \E F : Keeps(F, N)
<1>1. /\ <<>> \in Seq(TableEntries)
      /\ \A a \in Seq(TableEntries) : \A n \in 1..N : Keep(a, Slot(n)) \in Seq(TableEntries)
  <2>1. \A n \in 1..N : Slot(n).type # "none" => Slot(n) \in TableEntries
    BY SlotIs
  <2> QED  BY <2>1, AppendProperties DEF Keep
<1>2. PICK step : step = [n \in 1..N |-> [a \in Seq(TableEntries) |-> Keep(a, Slot(n))]]
  OBVIOUS
<1>3. step \in Steps(N, Seq(TableEntries))
  BY <1>1, <1>2 DEF Steps
<1>4. PICK f : Chain(f, N, Seq(TableEntries), <<>>, step)
  BY <1>1, <1>3, Recursion
<1>5. f \in [0..N -> Seq(TableEntries)] /\ f[0] = <<>> /\ \A n \in 1..N : f[n] = step[n][f[n - 1]]
  BY <1>4 DEF Chain
<1>6. ASSUME NEW n \in 1..N PROVE f[n] = Keep(f[n - 1], Slot(n))
  <2>1. n - 1 \in 0..N
    OBVIOUS
  <2>2. f[n - 1] \in Seq(TableEntries)
    BY <2>1, <1>5
  <2> QED  BY <2>2, <1>2, <1>5
<1> QED  BY <1>5, <1>6 DEF Keeps

LEMMA AppendInside ==
  ASSUME NEW S, NEW p \in Seq(S), NEW b \in Seq(S), NEW e \in S
  PROVE  p \o Append(b, e) = Append(p \o b, e)
<1>1. <<e>> \in Seq(S) /\ p \o b \in Seq(S)
  OBVIOUS
<1>2. ASSUME NEW x \in Seq(S) PROVE Append(x, e) = x \o <<e>>
  OBVIOUS
<1>3. Append(b, e) = b \o <<e>> /\ Append(p \o b, e) = (p \o b) \o <<e>>
  BY <1>1, <1>2
<1>4. (p \o b) \o <<e>> = p \o (b \o <<e>>)
  BY <1>1, ConcatAssociative
<1> QED  BY <1>3, <1>4

(* What a sector adds is what its slots add.                               *)
LEMMA SectorTaken ==
  ASSUME Sized, SectorUnits % Gpt.size = 0, NEW N \in Nat, NEW F, Keeps(F, N),
         NEW s \in Nat, (s + 1) * PerSector <= N, partitions = F[s * PerSector]
  PROVE  partitions \o Taken(s) = F[(s + 1) * PerSector]
<1>1. PerSector \in Nat /\ \E t : Takes(t, s) /\ Taken(s) = t[PerSector]
  BY TakenIs
<1>2. PICK t : Takes(t, s) /\ Taken(s) = t[PerSector]
  BY <1>1
<1>3. PICK p, a : p = PerSector /\ a = s * p
  OBVIOUS
<1>4. p \in Nat /\ a \in Nat /\ (s + 1) * p = a + p /\ a + p <= N
  <2>1. p \in Nat /\ a \in Nat /\ (s + 1) * p <= N
    BY <1>1, <1>3
  <2>2. (s + 1) * p = a + p
    BY <2>1, <1>3
  <2> QED  BY <2>1, <2>2
<1>5. partitions = F[a]
  BY <1>3
<1>6. /\ F \in [0..N -> Seq(TableEntries)]
      /\ \A n \in 1..N : F[n] = Keep(F[n - 1], Slot(n))
  BY DEF Keeps
<1>7. /\ t \in [0..p -> Seq(TableEntries)] /\ t[0] = <<>>
      /\ \A k \in 1..p : t[k] = TakeStep(t[k - 1], EntriesInSector(s)[k])
  BY <1>2, <1>3 DEF Takes
<1>8. ASSUME NEW k \in 1..p
      PROVE  EntriesInSector(s)[k] = Slot(a + k) /\ (Slot(a + k).type # "none" => Slot(a + k) \in TableEntries)
  <2>1. EntriesInSector(s)[k] = EntryAt(s * SectorUnits + (k - 1) * Gpt.size)
    BY <1>3 DEF EntriesInSector, PerSector
  <2>2. /\ a + k \in Nat /\ a + k >= 1
        /\ EntryAt(s * SectorUnits + (k - 1) * Gpt.size) = Slot(a + k)
    BY <1>3, SlotAt
  <2> QED  BY <2>1, <2>2, SlotIs
<1>9. partitions \in Seq(TableEntries)
  <2>1. a \in 0..N
    BY <1>4
  <2> QED  BY <2>1, <1>5, <1>6
<1> DEFINE T == {k \in 0..p : F[a + k] = partitions \o t[k]}
<1>10. 0 \in T
  <2>1. 0 \in 0..p /\ a + 0 = a
    BY <1>4
  <2>2. partitions \o <<>> = partitions
    BY <1>9, ConcatEmptySeq
  <2> QED  BY <2>1, <2>2, <1>5, <1>7
<1>11. ASSUME NEW k \in 1..p, k - 1 \in T PROVE k \in T
  <2>1. k \in 0..p /\ k - 1 \in 0..p /\ a + k \in 1..N /\ (a + k) - 1 = a + (k - 1)
    BY <1>4
  <2>2. PICK b, e : b = t[k - 1] /\ e = Slot(a + k)
    OBVIOUS
  <2>3. b \in Seq(TableEntries) /\ (e.type # "none" => e \in TableEntries)
    BY <2>1, <2>2, <1>7, <1>8
  <2>4. t[k] = TakeStep(b, e)
    BY <2>2, <1>7, <1>8
  <2>5. F[a + k] = Keep(partitions \o b, e)
    <3>1. F[a + k] = Keep(F[(a + k) - 1], Slot(a + k))
      BY <2>1, <1>6
    <3>2. F[a + (k - 1)] = partitions \o b
      BY <2>2, <1>11
    <3> QED  BY <3>1, <3>2, <2>1, <2>2
  <2>6. Len(partitions \o b) = Len(partitions) + Len(b)
    BY <2>3, <1>9, ConcatProperties
  <2>7. CASE e.type = "none" \/ Len(partitions) + Len(b) >= MaxPartitions
    BY <2>1, <2>4, <2>5, <2>6, <2>7 DEF Keep, TakeStep
  <2>8. CASE ~(e.type = "none" \/ Len(partitions) + Len(b) >= MaxPartitions)
    <3>1. t[k] = Append(b, e) /\ F[a + k] = Append(partitions \o b, e)
      BY <2>4, <2>5, <2>6, <2>8 DEF Keep, TakeStep
    <3>2. e \in TableEntries
      BY <2>3, <2>8
    <3>3. partitions \o Append(b, e) = Append(partitions \o b, e)
      BY ONLY <3>2, <2>3, <1>9, AppendInside
    <3> QED  BY <2>1, <3>1, <3>3
  <2> QED  BY <2>7, <2>8
<1> HIDE DEF T
<1>12. \A k \in 0..p : k \in T
  BY <1>4, <1>10, <1>11, UpTo
<1>13. p \in 0..p
  BY <1>4
<1>14. F[a + p] = partitions \o t[p]
  BY <1>12, <1>13 DEF T
<1> QED  BY <1>2, <1>3, <1>4, <1>14

(* What has been kept stays, and unused slots add nothing.                 *)
LEMMA KeptStays ==
  ASSUME Sized, NEW N \in Nat, NEW F, Keeps(F, N), NEW a \in 0..N
  PROVE  \A n \in a..N : Len(F[n]) >= Len(F[a]) /\ \A i \in 1..Len(F[a]) : F[n][i] = F[a][i]
<1>1. /\ F \in [0..N -> Seq(TableEntries)]
      /\ \A n \in 1..N : F[n] = Keep(F[n - 1], Slot(n))
  BY DEF Keeps
<1>2. PICK q, l : q = F[a] /\ l = Len(q)
  OBVIOUS
<1>3. l \in Nat
  BY <1>1, <1>2
<1> DEFINE Begins(x) == Len(x) >= l /\ \A i \in 1..l : x[i] = q[i]
           T == {d \in 0..(N - a) : Begins(F[a + d])}
<1>4. 0 \in T
  <2>1. 0 \in 0..(N - a) /\ a + 0 = a /\ l >= l
    BY <1>3
  <2> QED  BY <2>1, <1>2
<1>5. ASSUME NEW d \in 1..(N - a), d - 1 \in T PROVE d \in T
  <2>1. d \in 0..(N - a) /\ a + d \in 1..N /\ (a + d) - 1 = a + (d - 1) /\ a + (d - 1) \in 0..N
    OBVIOUS
  <2>2. PICK b, e : b = F[a + (d - 1)] /\ e = Slot(a + d)
    OBVIOUS
  <2>3. b \in Seq(TableEntries) /\ Begins(b) /\ (e.type # "none" => e \in TableEntries)
    <3>1. b \in Seq(TableEntries) /\ Begins(b)
      BY <2>1, <2>2, <1>1, <1>5
    <3>2. a + d \in Nat /\ a + d >= 1
      BY <2>1
    <3> QED  BY <3>1, <3>2, <2>2, SlotIs
  <2>4. F[a + d] = Keep(b, e)
    BY <2>1, <2>2, <1>1
  <2>5. CASE F[a + d] = b
    BY <2>1, <2>3, <2>5
  <2>6. CASE F[a + d] = Append(b, e) /\ e \in TableEntries
    <3>1. PICK x, m : x = Append(b, e) /\ m = Len(b)
      OBVIOUS
    <3>2. m \in Nat /\ m >= l /\ Len(x) = m + 1 /\ \A i \in 1..m : x[i] = b[i]
      BY <3>1, <2>3, <2>6, AppendProperties
    <3>3. \A i \in 1..l : i \in 1..m /\ b[i] = q[i]
      BY <3>2, <2>3, <1>3
    <3>4. Begins(x)
      BY <3>2, <3>3, <1>3
    <3> QED  BY <3>1, <3>4, <2>1, <2>6
  <2> QED  BY <2>3, <2>4, <2>5, <2>6 DEF Keep
<1> HIDE DEF T, Begins
<1>6. N - a \in Nat
  OBVIOUS
<1>7. \A d \in 0..(N - a) : d \in T
  BY <1>4, <1>5, <1>6, UpTo
<1>8. ASSUME NEW n \in a..N PROVE Begins(F[n])
  <2>1. n - a \in 0..(N - a) /\ a + (n - a) = n
    OBVIOUS
  <2> QED  BY <2>1, <1>7 DEF T
<1> QED  BY <1>2, <1>8 DEF Begins

LEMMA UnusedAddNothing ==
  ASSUME NEW N \in Nat, NEW F, Keeps(F, N), NEW a \in 0..N,
         \A n \in (a + 1)..N : Slot(n).type = "none"
  PROVE  F[N] = F[a]
<1>1. \A n \in 1..N : F[n] = Keep(F[n - 1], Slot(n))
  BY DEF Keeps
<1> DEFINE T == {d \in 0..(N - a) : F[a + d] = F[a]}
<1>2. 0 \in T
  <2>1. 0 \in 0..(N - a) /\ a + 0 = a
    OBVIOUS
  <2> QED  BY <2>1
<1>3. ASSUME NEW d \in 1..(N - a), d - 1 \in T PROVE d \in T
  <2>1. d \in 0..(N - a) /\ a + d \in 1..N /\ (a + d) - 1 = a + (d - 1) /\ a + d \in (a + 1)..N
    OBVIOUS
  <2>2. F[a + d] = Keep(F[(a + d) - 1], Slot(a + d)) /\ Slot(a + d).type = "none"
    BY <2>1, <1>1
  <2>3. F[a + d] = F[a + (d - 1)]
    BY <2>1, <2>2 DEF Keep
  <2> QED  BY <2>1, <2>3, <1>3
<1> HIDE DEF T
<1>4. N - a \in Nat /\ N - a \in 0..(N - a) /\ a + (N - a) = N
  OBVIOUS
<1>5. \A d \in 0..(N - a) : d \in T
  BY <1>2, <1>3, <1>4, UpTo
<1> QED  BY <1>4, <1>5 DEF T

(* The used entries of the table, and the first MaxPartitions of them.     *)
Uses(u, M) ==
  /\ u \in [0..M -> Seq(TableEntries)] /\ u[0] = <<>>
  /\ \A n \in 1..M : u[n] = IF Gpt.entries[n].type = "none" THEN u[n - 1] ELSE Append(u[n - 1], Gpt.entries[n])
LEMMA UsedIs ==
  ASSUME Sized, NEW M \in Nat, M <= Len(Gpt.entries)
  PROVE  \E u : Uses(u, M) /\ UsedAmong(M) = u[M]
<1> DEFINE Add(b, n) == IF Gpt.entries[n].type = "none" THEN b ELSE Append(b, Gpt.entries[n])
           Is(f) == f = [n \in 0..M |-> IF n = 0 THEN <<>> ELSE Add(f[n - 1], n)]
<1>1. \A n \in 1..M : Gpt.entries[n] \in TableEntries
  <2>1. Len(Gpt.entries) \in Nat
    BY DEF Sized
  <2> QED  BY <2>1 DEF TableEntries
<1>2. UsedAmong(M) = (CHOOSE f : Is(f))[M]
  BY DEF UsedAmong
<1>3. /\ <<>> \in Seq(TableEntries)
      /\ \A b \in Seq(TableEntries) : \A n \in 1..M : Add(b, n) \in Seq(TableEntries)
  BY <1>1, AppendProperties
<1>d. \A b, n : Add(b, n) = IF Gpt.entries[n].type = "none" THEN b ELSE Append(b, Gpt.entries[n])
  OBVIOUS
<1> HIDE DEF Add, Is
<1>4. PICK step : step = [n \in 1..M |-> [b \in Seq(TableEntries) |-> Add(b, n)]]
  OBVIOUS
<1>5. step \in Steps(M, Seq(TableEntries))
  BY <1>3, <1>4 DEF Steps
<1>6. PICK f : Chain(f, M, Seq(TableEntries), <<>>, step)
  BY <1>3, <1>5, Recursion
<1>7. f \in [0..M -> Seq(TableEntries)] /\ f[0] = <<>> /\ \A n \in 1..M : f[n] = step[n][f[n - 1]]
  BY <1>6 DEF Chain
<1>8. ASSUME NEW n \in 1..M PROVE f[n] = Add(f[n - 1], n)
  <2>1. n - 1 \in 0..M
    OBVIOUS
  <2>2. f[n - 1] \in Seq(TableEntries)
    BY <2>1, <1>7
  <2> QED  BY <2>2, <1>4, <1>7
<1>9. Is(f)
  <2>1. ASSUME NEW n \in 0..M PROVE f[n] = IF n = 0 THEN <<>> ELSE Add(f[n - 1], n)
    <3>1. CASE n = 0
      BY <3>1, <1>7
    <3>2. CASE n # 0
      <4>1. n \in 1..M
        BY <3>2
      <4> QED  BY <3>2, <4>1, <1>8
    <3> QED  BY <3>1, <3>2
  <2> QED  BY <2>1, <1>7 DEF Is
<1>10. PICK g : g = CHOOSE e : Is(e)
  OBVIOUS
<1>11. Is(g)
  BY <1>9, <1>10
<1>12. g[0] = <<>> /\ \A n \in 1..M : g[n] = Add(g[n - 1], n)
  <2>1. \A n \in 0..M : g[n] = IF n = 0 THEN <<>> ELSE Add(g[n - 1], n)
    BY <1>11 DEF Is
  <2>2. 0 \in 0..M /\ \A n \in 1..M : n \in 0..M /\ n # 0
    OBVIOUS
  <2> QED  BY <2>1, <2>2
<1> DEFINE T == {n \in 0..M : g[n] \in Seq(TableEntries)}
<1>13. 0 \in T
  <2>1. 0 \in 0..M
    OBVIOUS
  <2> QED  BY <2>1, <1>3, <1>12
<1>14. ASSUME NEW n \in 1..M, n - 1 \in T PROVE n \in T
  <2>1. n \in 0..M /\ g[n - 1] \in Seq(TableEntries)
    BY <1>14
  <2> QED  BY <2>1, <1>3, <1>12
<1> HIDE DEF T
<1>15. \A n \in 0..M : n \in T
  BY <1>13, <1>14, UpTo
<1>16. g \in [0..M -> Seq(TableEntries)]
  <2>1. \A n \in 0..M : g[n] \in Seq(TableEntries)
    BY <1>15 DEF T
  <2>2. g = [n \in 0..M |-> g[n]]
    BY <1>11 DEF Is
  <2> QED  BY <2>1, <2>2
<1>17. Uses(g, M)
  BY <1>12, <1>16, <1>d DEF Uses
<1> QED  BY <1>2, <1>10, <1>17

Fewer(x, y) == IF x <= y THEN x ELSE y
LEMMA MinOfTwo == ASSUME NEW x \in Nat, NEW y \in Nat PROVE Min({x, y}) = Fewer(x, y)
<1>1. PICK z : z = Fewer(x, y)
  OBVIOUS
<1>2. z \in {x, y} /\ \A v \in {x, y} : z <= v
  BY <1>1 DEF Fewer
<1>3. \A w \in {x, y} : (\A v \in {x, y} : w <= v) => w = z
  BY <1>2
<1> QED  BY <1>1, <1>2, <1>3 DEF Min

(* q is what fits of u.                                                    *)
Shown(q, u) ==
  /\ Len(q) = Fewer(MaxPartitions, Len(u)) /\ \A i \in 1..Len(q) : q[i] = u[i]
LEMMA ShownStep ==
  ASSUME NEW q \in Seq(TableEntries), NEW u \in Seq(TableEntries), Shown(q, u), NEW e \in TableEntries
  PROVE  Shown(Keep(q, e), IF e.type = "none" THEN u ELSE Append(u, e))
<1>1. CASE e.type = "none"
  BY <1>1 DEF Keep
<1>2. CASE e.type # "none"
  <2>1. PICK v, m, l : v = Append(u, e) /\ m = Len(u) /\ l = Len(q)
    OBVIOUS
  <2>2. m \in Nat /\ l \in Nat /\ Len(v) = m + 1 /\ v[m + 1] = e /\ \A i \in 1..m : v[i] = u[i]
    BY <2>1, AppendProperties
  <2>3. MaxPartitions \in Nat /\ l = Fewer(MaxPartitions, m) /\ \A i \in 1..l : q[i] = u[i]
    BY <2>1, MountAssumption DEF Shown
  <2>4. CASE l >= MaxPartitions
    <3>1. l = Fewer(MaxPartitions, m + 1) /\ l <= m
      BY <2>2, <2>3, <2>4 DEF Fewer
    <3>2. \A i \in 1..l : q[i] = v[i]
      BY <3>1, <2>2, <2>3
    <3>3. Keep(q, e) = q
      BY <2>1, <2>4 DEF Keep
    <3> QED  BY <3>1, <3>2, <3>3, <1>2, <2>1, <2>2 DEF Shown
  <2>5. CASE ~(l >= MaxPartitions)
    <3>1. l = m /\ m + 1 = Fewer(MaxPartitions, m + 1)
      BY <2>2, <2>3, <2>5 DEF Fewer
    <3>2. PICK r : r = Append(q, e)
      OBVIOUS
    <3>3. Len(r) = l + 1 /\ r[l + 1] = e /\ \A i \in 1..l : r[i] = q[i]
      BY <3>2, <2>1, AppendProperties
    <3>4. \A i \in 1..(m + 1) : i = m + 1 \/ i \in 1..m
      BY <2>2
    <3>5. \A i \in 1..(m + 1) : r[i] = v[i]
      BY <3>1, <3>3, <3>4, <2>2, <2>3
    <3>6. Keep(q, e) = r
      BY <1>2, <2>1, <2>5, <3>2 DEF Keep
    <3> QED  BY <3>1, <3>3, <3>5, <3>6, <1>2, <2>1, <2>2 DEF Shown
  <2> QED  BY <2>4, <2>5
<1> QED  BY <1>1, <1>2

LEMMA KeptIsUsed ==
  ASSUME Sized, NEW N \in Nat, NEW F, Keeps(F, N), NEW M \in 0..N, M <= Len(Gpt.entries)
  PROVE  F[M] = SubSeq(UsedAmong(M), 1, Min({MaxPartitions, Len(UsedAmong(M))}))
<1>1. PICK u : Uses(u, M) /\ UsedAmong(M) = u[M]
  BY UsedIs
<1>2. /\ F \in [0..N -> Seq(TableEntries)] /\ F[0] = <<>>
      /\ \A n \in 1..N : F[n] = Keep(F[n - 1], Slot(n))
  BY DEF Keeps
<1>3. /\ u \in [0..M -> Seq(TableEntries)] /\ u[0] = <<>>
      /\ \A n \in 1..M : u[n] = IF Gpt.entries[n].type = "none" THEN u[n - 1] ELSE Append(u[n - 1], Gpt.entries[n])
  BY <1>1 DEF Uses
<1>4. Len(Gpt.entries) \in Nat /\ MaxPartitions \in Nat
  BY MountAssumption DEF Sized
<1>5. \A n \in 1..M : Slot(n) = Gpt.entries[n] /\ Gpt.entries[n] \in TableEntries
  BY <1>4 DEF Slot, TableEntries
<1> DEFINE T == {n \in 0..M : Shown(F[n], u[n])}
<1>6. 0 \in T
  <2>1. 0 \in 0..M /\ Fewer(MaxPartitions, 0) = 0
    BY <1>4 DEF Fewer
  <2>2. Len(<<>>) = 0
    OBVIOUS
  <2>3. Shown(<<>>, <<>>)
    BY <2>1, <2>2 DEF Shown
  <2> QED  BY <2>1, <2>3, <1>2, <1>3
<1>7. ASSUME NEW n \in 1..M, n - 1 \in T PROVE n \in T
  <2>1. n \in 0..M /\ n - 1 \in 0..M /\ n \in 1..N /\ n - 1 \in 0..N
    OBVIOUS
  <2>2. PICK q, v, e : q = F[n - 1] /\ v = u[n - 1] /\ e = Gpt.entries[n]
    OBVIOUS
  <2>3. q \in Seq(TableEntries) /\ v \in Seq(TableEntries) /\ e \in TableEntries
    BY <2>1, <2>2, <1>2, <1>3, <1>5
  <2>4. Shown(q, v)
    BY <2>2, <1>7
  <2>5. F[n] = Keep(q, e) /\ u[n] = IF e.type = "none" THEN v ELSE Append(v, e)
    BY <2>1, <2>2, <1>2, <1>3, <1>5
  <2> QED  BY <2>1, <2>3, <2>4, <2>5, ShownStep
<1> HIDE DEF T
<1>8. \A n \in 0..M : n \in T
  <2>1. M \in Nat
    OBVIOUS
  <2> QED  BY <2>1, <1>6, <1>7, UpTo
<1>9. M \in 0..M /\ M \in 0..N
  OBVIOUS
<1>10. PICK q, v, l, m : q = F[M] /\ v = u[M] /\ l = Len(q) /\ m = Len(v)
  OBVIOUS
<1>11. Shown(q, v) /\ q \in Seq(TableEntries) /\ v \in Seq(TableEntries)
  BY <1>2, <1>3, <1>8, <1>9, <1>10 DEF T
<1>12. l \in Nat /\ m \in Nat /\ l = Fewer(MaxPartitions, m) /\ \A i \in 1..l : q[i] = v[i]
  BY <1>10, <1>11 DEF Shown
<1>13. l <= m /\ Min({MaxPartitions, m}) = l
  BY <1>4, <1>12, MinOfTwo DEF Fewer
<1>14. q = SubSeq(v, 1, l)
  <2>1. \A i \in 1..l : v[i] \in TableEntries
    BY <1>10, <1>11, <1>12, <1>13
  <2>2. /\ SubSeq(v, 1, l) \in Seq(TableEntries) /\ Len(SubSeq(v, 1, l)) = IF 1 <= l THEN l - 1 + 1 ELSE 0
        /\ \A i \in 1..(l - 1 + 1) : SubSeq(v, 1, l)[i] = v[1 + i - 1]
    BY <2>1, <1>12, SubSeqProperties
  <2>3. PICK w : w = SubSeq(v, 1, l)
    OBVIOUS
  <2>4. w \in Seq(TableEntries) /\ Len(w) = l /\ \A i \in 1..l : w[i] = v[i]
    BY <2>2, <2>3, <1>12
  <2>5. w \in [1..l -> TableEntries] /\ q \in [1..l -> TableEntries]
    BY <2>4, <1>10, <1>11
  <2> QED  BY <2>3, <2>4, <2>5, <1>12
<1> QED  BY <1>1, <1>10, <1>13, <1>14

(* A table that is well formed, read to its last sector, is what it        *)
(* declares.                                                               *)
LEMMA WellSized ==
  ASSUME computer \in MountMachines, WellPartitioned
  PROVE  /\ Sized /\ SectorUnits % Gpt.size = 0 /\ Gpt.count \in Nat
         /\ TableSectors \in Nat /\ PerSector \in Nat /\ Gpt.count <= TableSectors * PerSector
         /\ TableSectors * SectorUnits = (TableSectors * PerSector) * Gpt.size
<1>1. Gpt.size \in Nat /\ Gpt.count \in Nat /\ Gpt.entries \in Seq(PartitionEntries)
  BY MountAssumption DEF Gpt
<1>2. Sized /\ SectorUnits % Gpt.size = 0
  BY <1>1 DEF WellPartitioned, Sized
<1>3. PerSector \in Nat /\ SectorUnits \in Nat /\ SectorUnits = PerSector * Gpt.size
  BY <1>2, SectorsWhole
<1>4. SectorUnits # 0
  BY MountAssumption
<1>5. PICK u, s, p, c, x, t : u = SectorUnits /\ s = Gpt.size /\ p = PerSector /\ c = Gpt.count /\ x = c * s /\ t = TableSectors
  OBVIOUS
<1>6. u \in Nat \ {0} /\ s \in Nat \ {0} /\ p \in Nat /\ c \in Nat /\ u = p * s
  BY <1>1, <1>2, <1>3, <1>4, <1>5 DEF Sized
<1>7. x \in Nat
  BY <1>5, <1>6
<1>8. t = (x + u - 1) \div u
  BY <1>5 DEF TableSectors
<1>9. t \in Nat /\ x <= t * u
  BY <1>6, <1>7, <1>8, RoundedUp
<1>10. t * u = (t * p) * s /\ t * p \in Nat
  BY <1>6, <1>9
<1>11. c <= t * p
  BY <1>5, <1>6, <1>9, <1>10, TimesCancel
<1> QED  BY <1>1, <1>2, <1>5, <1>6, <1>9, <1>10, <1>11

LEMMA AllDeclared ==
  ASSUME computer \in MountMachines, WellPartitioned,
         NEW F, Keeps(F, TableSectors * PerSector)
  PROVE  F[TableSectors * PerSector] = Declared
<1>1. PICK N, s, c, L : N = TableSectors * PerSector /\ s = Gpt.size /\ c = Gpt.count /\ L = Len(Gpt.entries)
  OBVIOUS
<1>2. /\ Sized /\ N \in Nat /\ s \in Nat \ {0} /\ c \in Nat /\ L \in Nat /\ c <= N
      /\ TableSectors * SectorUnits = N * s
  BY <1>1, WellSized DEF Sized
<1>3. PICK M : M = Fewer(c, L)
  OBVIOUS
<1>4. M \in 0..N /\ M <= L /\ M = Min({c, L})
  BY <1>2, <1>3, MinOfTwo DEF Fewer
<1>5. Keeps(F, N)
  BY <1>1
<1>6. ASSUME NEW n \in (M + 1)..N PROVE Slot(n).type = "none"
  <2>1. M \in Nat /\ n \in Nat /\ n >= M + 1 /\ n <= N
    BY <1>2, <1>4
  <2>2. CASE ~(n <= L)
    BY <2>2, <1>1 DEF Slot, Unused
  <2>3. CASE n <= L
    <3>1. n \in (c + 1)..L
      BY <2>1, <2>3, <1>2, <1>3 DEF Fewer
    <3>2. (n - 1) * s < N * s
      <4>1. n - 1 \in Nat /\ n - 1 <= N - 1 /\ N - 1 \in Nat
        BY <2>1, <1>2
      <4>2. (n - 1) * s <= (N - 1) * s /\ (n - 1) * s \in Nat
        BY <4>1, <1>2, TimesMono
      <4>3. (N - 1) * s = N * s - s /\ N * s \in Nat
        BY <1>2
      <4> QED  BY <4>2, <4>3, <1>2
    <3>3. Gpt.entries[n].type = "none"
      BY <3>1, <3>2, <1>1, <1>2 DEF WellPartitioned, NothingBehind
    <3> QED  BY <3>3, <2>3, <1>1 DEF Slot
  <2> QED  BY <2>2, <2>3
<1>7. F[N] = F[M]
  BY <1>2, <1>4, <1>5, <1>6, UnusedAddNothing
<1>8. F[M] = SubSeq(UsedAmong(M), 1, Min({MaxPartitions, Len(UsedAmong(M))}))
  BY <1>1, <1>2, <1>4, <1>5, KeptIsUsed
<1> QED  BY <1>1, <1>4, <1>7, <1>8 DEF Declared

-----------------------------------------------------------------------------
(* The scan of the bus.                                                    *)
LEMMA FirstOf ==
  ASSUME NEW T \in SUBSET (Nat \X Nat), NEW p \in T, \A q \in T \ {p} : Earlier(p, q)
  PROVE  First(T) = p
<1>1. ASSUME NEW r \in T, \A q \in T \ {r} : Earlier(r, q), r # p PROVE FALSE
  <2>1. Earlier(r, p) /\ Earlier(p, r)
    BY <1>1
  <2>2. r[1] \in Nat /\ r[2] \in Nat /\ p[1] \in Nat /\ p[2] \in Nat
    OBVIOUS
  <2> QED  BY <2>1, <2>2 DEF Earlier
<1> QED  BY <1>1 DEF First

LEMMA FirstIs ==
  ASSUME NEW T \in SUBSET (Nat \X Nat), T # {}
  PROVE  First(T) \in T /\ \A q \in T \ {First(T)} : Earlier(First(T), q)
<1>1. PICK A : A = {p[1] : p \in T}
  OBVIOUS
<1>2. A \in SUBSET Nat /\ A # {}
  BY <1>1
<1>3. PICK a \in A : \A x \in A : a <= x
  BY <1>2, LeastNatural
<1>4. PICK B : B = {p[2] : p \in {r \in T : r[1] = a}}
  OBVIOUS
<1>5. B \in SUBSET Nat /\ B # {}
  BY <1>1, <1>3, <1>4
<1>6. PICK b \in B : \A y \in B : b <= y
  BY <1>5, LeastNatural
<1>7. PICK p \in T : p[1] = a /\ p[2] = b
  BY <1>4, <1>6
<1>8. ASSUME NEW q \in T, q # p PROVE Earlier(p, q)
  <2>1. q[1] \in A /\ a <= q[1] /\ (q[1] = a => q[2] \in B /\ b <= q[2])
    BY <1>1, <1>3, <1>4, <1>6
  <2>2. /\ q[1] \in Nat /\ q[2] \in Nat /\ p[1] \in Nat /\ p[2] \in Nat
        /\ (q[1] = p[1] /\ q[2] = p[2] => q = p)
    OBVIOUS
  <2> QED  BY <2>1, <2>2, <1>7, <1>8 DEF Earlier
<1>9. First(T) = p
  BY <1>8, FirstOf
<1> QED  BY <1>8, <1>9

Found == {p \in Scanned : Usable(p)}
LEMMA PlainlyFound ==
  ASSUME computer \in MountMachines, PlainlyAttached
  PROVE  /\ Found # {}
         /\ 0 \in computer.hba[First(Found)].implemented \cap computer.hba[First(Found)].disks
<1>1. PICK all : all = {p \in DOMAIN computer.pci : Usable(p)}
  OBVIOUS
<1>2. /\ all # {} /\ First(all)[2] = 0
      /\ 0 \in computer.hba[First(all)].implemented \cap computer.hba[First(all)].disks
  BY <1>1 DEF PlainlyAttached
<1>3. DOMAIN computer.pci \subseteq (0..PciSlots) \X (0..PciFunctions) /\ PciSlots \in Nat /\ PciFunctions \in Nat
  BY MountAssumption
<1>4. all \in SUBSET (Nat \X Nat)
  BY <1>1, <1>3
<1>5. PICK f : f = First(all)
  OBVIOUS
<1>6. f \in all /\ \A q \in all \ {f} : Earlier(f, q)
  BY <1>2, <1>4, <1>5, FirstIs
<1>7. f = <<f[1], 0>> /\ f \in DOMAIN computer.pci /\ f \in (0..PciSlots) \X (0..PciFunctions)
  BY <1>1, <1>2, <1>3, <1>5, <1>6
<1>8. f[2] \in FunctionsOf(f[1])
  BY <1>2, <1>3, <1>5 DEF FunctionsOf
<1>9. Answers(<<f[1], 0>>)
  BY <1>7 DEF Answers
<1>10. f \in Scanned
  BY <1>7, <1>8, <1>9 DEF Scanned
<1>11. f \in Found
  BY <1>1, <1>6, <1>10 DEF Found
<1>12. Found \subseteq all
  BY <1>1 DEF Found, Usable, Answers
<1>13. First(Found) = f
  <2>1. Found \in SUBSET (Nat \X Nat) /\ \A q \in Found \ {f} : Earlier(f, q)
    BY <1>4, <1>6, <1>12
  <2> QED  BY <2>1, <1>11, FirstOf
<1> QED  BY <1>2, <1>5, <1>11, <1>13

LEMMA PlainlyConnected ==
  ASSUME computer \in MountMachines, PlainlyAttached, controller = First(Found)
  PROVE  \E i \in 0..Ports : i \in Hba.implemented /\ PortIsDisk(i)
<1>1. 0 \in Hba.implemented /\ 0 \in Hba.disks
  BY PlainlyFound DEF Hba
<1>2. SeesPort(0) /\ RealPort(0) = 0
  BY DEF SeesPort, RealPort, HbaPortSize, PortStride
<1>3. PortIsDisk(0) /\ 0 \in 0..Ports
  BY <1>1, <1>2, MountAssumption DEF PortIsDisk
<1> QED  BY <1>1, <1>3

-----------------------------------------------------------------------------
(* What depends on the machine alone does not change.                      *)
LEMMA SameTable ==
  ASSUME computer' = computer
  PROVE  /\ Declared' = Declared /\ DeclaredSystem' = DeclaredSystem
         /\ TableSectors' = TableSectors /\ PerSector' = PerSector
         /\ WellPartitioned' = WellPartitioned /\ Mountable' = Mountable
         /\ \A F, N : Keeps(F, N)' = Keeps(F, N)
<1>1. Declared' = Declared
  BY DEF Declared, UsedAmong, Gpt
<1>2. DeclaredSystem' = DeclaredSystem
  BY <1>1 DEF DeclaredSystem, PlacesNamed
<1>3. TableSectors' = TableSectors /\ PerSector' = PerSector
  BY DEF TableSectors, PerSector, Gpt
<1>4. NothingBehind' = NothingBehind
  BY <1>3 DEF NothingBehind, Gpt
<1>5. WellPartitioned' = WellPartitioned
  BY <1>1, <1>4 DEF WellPartitioned, PlacesNamed, Gpt
<1>6. Mountable' = Mountable
  BY <1>2 DEF Mountable
<1>7. \A F, N : Keeps(F, N)' = Keeps(F, N)
  BY DEF Keeps, Keep, Slot, TableEntries, Gpt
<1> QED  BY <1>1, <1>2, <1>3, <1>5, <1>6, <1>7
LEMMA SameBus ==
  ASSUME computer' = computer
  PROVE  Found' = Found /\ PlainlyAttached' = PlainlyAttached
<1>1. \A p : Usable(p)' = Usable(p) /\ Answers(p)' = Answers(p)
  BY DEF Usable, Answers
<1>2. \A n : FunctionsOf(n)' = FunctionsOf(n)
  BY DEF FunctionsOf, MultiFunction, ConfigByte
<1>3. Scanned' = Scanned
  BY <1>1, <1>2 DEF Scanned
<1>4. Found' = Found
  BY <1>1, <1>3 DEF Found
<1>5. PlainlyAttached' = PlainlyAttached
  BY <1>1 DEF PlainlyAttached
<1> QED  BY <1>4, <1>5

-----------------------------------------------------------------------------
(* What the mount knows: the table's entries come from the disk; what was  *)
(* checked of the boot sector holds of the volume that is mounted.         *)
VolumeFits ==
  LET boot == computer.boot[rootFs.start]
  IN  /\ boot \in BootSectors /\ ~Malformed(boot)
      /\ rootFs.start \in Nat /\ rootFs.count \in Int
      /\ TotalSectors(boot) <= rootFs.count
      /\ rootFs.perCluster = boot.perCluster
      /\ rootFs.firstData = rootFs.start + boot.reserved + boot.fats * boot.perFat

MountStages == {"rest", "pci", "port", "header", "table", "boot", "mounted", "failed"}
MountInv ==
  /\ stage \in MountStages
  /\ stage # "rest" => /\ computer \in MountMachines
                       /\ sectorIndex \in Nat
                       /\ partitions \in Seq(TableEntries)
  /\ stage \in {"table", "boot"} => Gpt.size >= 1
  /\ stage = "boot" => SystemAt # 0
  /\ stage = "mounted" => VolumeFits

LEMMA SystemInTable ==
  ASSUME MountInv, stage = "boot"
  PROVE  System \in PartitionEntries /\ computer.boot[System.start] \in BootSectors
<1>1. computer \in MountMachines /\ partitions \in Seq(TableEntries) /\ SystemAt # 0
  BY DEF MountInv
<1>2. Gpt.entries \in Seq(PartitionEntries)
  BY <1>1, MountAssumption DEF Gpt
<1>3. PICK I : I = {i \in 1..Len(partitions) : partitions[i].name = "LAZERS-SYSTEM"}
  OBVIOUS
<1>t. Len(partitions) \in Nat
  BY <1>1
<1>s. I \in SUBSET Nat
  BY <1>3, <1>t
<1>4. SystemAt = IF I # {} THEN Min(I) ELSE 0
  BY <1>3 DEF SystemAt, SelectInSeq
<1>5. SystemAt \in I
  BY <1>1, <1>4, <1>s, MinIn
<1>6. SystemAt \in 1..Len(partitions) /\ System.name = "LAZERS-SYSTEM"
  BY <1>3, <1>5 DEF System
<1>7. System \in TableEntries
  BY <1>1, <1>6 DEF System
<1>8. PICK i \in 1..Len(Gpt.entries) : System = Gpt.entries[i]
  BY <1>7 DEF TableEntries
<1>9. i \in DOMAIN computer.gpt.entries /\ System = computer.gpt.entries[i] /\ System \in PartitionEntries
  BY <1>2, <1>8 DEF Gpt
<1> QED  BY <1>1, <1>6, <1>9, MountAssumption

LEMMA MountInvInit == Init => MountInv
<1>1. ASSUME MountInit PROVE MountInv
  BY <1>1 DEF MountInit, MountInv, MountStages
<1>2. ASSUME MountRests PROVE MountInv
  BY <1>2 DEF MountRests, MountInv, MountStages
<1> QED  BY <1>1, <1>2 DEF Init

LEMMA SamePartitions == ASSUME partitions' = partitions PROVE SystemAt' = SystemAt
  BY DEF SystemAt, SelectInSeq

(* A step that leaves the machine alone leaves its table alone.            *)
LEMMA SameMachine ==
  ASSUME computer' = computer PROVE Gpt' = Gpt /\ TableEntries' = TableEntries
  BY DEF Gpt, TableEntries

LEMMA FailKeepsMount ==
  ASSUME MountInv, stage # "rest", NEW error, Fail(error) PROVE MountInv'
  BY SameMachine DEF Fail, MountInv, MountStages

LEMMA MountInvStep == MountInv /\ [Next]_vars => MountInv'
<1> SUFFICES ASSUME MountInv, [Next]_vars PROVE MountInv'
  OBVIOUS
<1>0. CASE UNCHANGED mountVars
  BY <1>0, SameMachine, SamePartitions DEF mountVars, MountInv, VolumeFits
<1>1. CASE FindController
  <2>1. ASSUME NEW error, Fail(error) PROVE MountInv'
    BY <1>1, <2>1, FailKeepsMount DEF FindController
  <2>2. CASE /\ stage = "pci" /\ stage' = "port"
             /\ UNCHANGED <<computer, portIndex, sectorIndex, partitions, rootFs, failure>>
    BY <2>2, SameMachine DEF MountInv, MountStages
  <2> QED  BY <1>1, <2>1, <2>2 DEF FindController
<1>2. CASE FindPort
  <2>1. ASSUME NEW error, Fail(error) PROVE MountInv'
    BY <1>2, <2>1, FailKeepsMount DEF FindPort
  <2>2. CASE /\ stage = "port" /\ stage' = "header"
             /\ UNCHANGED <<computer, controller, sectorIndex, partitions, rootFs, failure>>
    BY <2>2, SameMachine DEF MountInv, MountStages
  <2> QED  BY <1>2, <2>1, <2>2 DEF FindPort
<1>3. CASE ReadHeader
  <2>1. ASSUME NEW error, Fail(error) PROVE MountInv'
    BY <1>3, <2>1, FailKeepsMount DEF ReadHeader
  <2>2. CASE /\ stage = "header" /\ stage' = "table" /\ ~(Gpt.size < 1)
             /\ UNCHANGED <<computer, controller, portIndex, sectorIndex, partitions, rootFs, failure>>
    <3>1. Gpt.size \in Nat
      BY <2>2, MountAssumption DEF MountInv, Gpt
    <3> QED  BY <2>2, <3>1, SameMachine DEF MountInv, MountStages
  <2> QED  BY <1>3, <2>1, <2>2 DEF ReadHeader
<1>4. CASE ReadTable
  <2>1. ASSUME NEW error, Fail(error) PROVE MountInv'
    BY <1>4, <2>1, FailKeepsMount DEF ReadTable
  <2>2. CASE /\ partitions' = partitions \o Taken(sectorIndex) /\ sectorIndex' = sectorIndex + 1
             /\ UNCHANGED <<computer, stage, controller, portIndex, rootFs, failure>>
    <3>1. stage = "table"
      BY <1>4 DEF ReadTable
    <3>2. /\ computer \in MountMachines /\ sectorIndex \in Nat /\ partitions \in Seq(TableEntries)
          /\ Gpt.size >= 1
      BY <3>1 DEF MountInv
    <3>3. Gpt.size \in Nat \ {0} /\ Gpt.entries \in Seq(PartitionEntries)
      BY <3>2, MountAssumption DEF Gpt
    <3>4. Taken(sectorIndex) \in Seq(TableEntries)
      BY <3>2, <3>3, TakenIsFromTable
    <3>5. partitions' \in Seq(TableEntries) /\ sectorIndex' \in Nat
      BY <2>2, <3>2, <3>4
    <3> QED  BY <2>2, <3>1, <3>2, <3>5, SameMachine DEF MountInv, MountStages
  <2> QED  BY <1>4, <2>1, <2>2 DEF ReadTable
<1>5. CASE FindPartitions
  <2>1. ASSUME NEW error, Fail(error) PROVE MountInv'
    BY <1>5, <2>1, FailKeepsMount DEF FindPartitions
  <2>2. CASE /\ stage = "table" /\ stage' = "boot" /\ SystemAt # 0
             /\ UNCHANGED <<computer, controller, portIndex, sectorIndex, partitions, rootFs, failure>>
    <3>1. SystemAt' = SystemAt
      BY <2>2, SamePartitions
    <3> QED  BY <2>2, <3>1, SameMachine DEF MountInv, MountStages
  <2> QED  BY <1>5, <2>1, <2>2 DEF FindPartitions
<1>6. CASE MountFat
  <2>1. ASSUME NEW error, Fail(error) PROVE MountInv'
    BY <1>6, <2>1, FailKeepsMount DEF MountFat
  <2>2. CASE ~Fail("InvalidFat32BootSector")
    <3>1. PICK boot : boot = computer.boot[System.start]
      OBVIOUS
    <3>2. /\ stage = "boot" /\ stage' = "mounted"
          /\ ~Malformed(boot) /\ ~(TotalSectors(boot) > SectorCount(System))
          /\ rootFs' = [start |-> System.start, count |-> SectorCount(System),
                        perCluster |-> boot.perCluster, reserved |-> boot.reserved,
                        root |-> boot.root, firstData |-> FirstDataSector(System, boot)]
          /\ UNCHANGED <<computer, controller, portIndex, sectorIndex, partitions, failure>>
      BY <1>6, <2>2, <3>1 DEF MountFat
    <3>3. System \in PartitionEntries /\ boot \in BootSectors
      BY <3>1, <3>2, SystemInTable
    <3>4. System.start \in Nat /\ SectorCount(System) \in Int
      BY <3>3 DEF PartitionEntries, SectorCount
    <3>5. TotalSectors(boot) \in Nat
      BY <3>3 DEF BootSectors, TotalSectors
    <3>6. /\ rootFs'.start = System.start /\ rootFs'.count = SectorCount(System)
          /\ rootFs'.perCluster = boot.perCluster
          /\ rootFs'.firstData = System.start + boot.reserved + boot.fats * boot.perFat
      BY <3>2 DEF FirstDataSector
    <3>7. computer'.boot[rootFs'.start] = boot
      BY <3>1, <3>2, <3>6
    <3>8. TotalSectors(boot) <= SectorCount(System)
      BY <3>2, <3>4, <3>5
    <3>9. VolumeFits'
      BY <3>2, <3>3, <3>4, <3>6, <3>7, <3>8 DEF VolumeFits
    <3> QED  BY <3>2, <3>9, SameMachine DEF MountInv, MountStages
  <2> QED  BY <2>1, <2>2
<1>7. CASE DiskFails
  <2>1. stage # "rest" /\ Fail("AhciCommandTimeout")
    BY <1>7 DEF DiskFails
  <2> QED  BY <2>1, FailKeepsMount
<1> QED
  BY <1>0, <1>1, <1>2, <1>3, <1>4, <1>5, <1>6, <1>7 DEF Next, MountNext, vars, mountVars

-----------------------------------------------------------------------------
(* Clusters of width units each, laid out from the first data sector on.   *)
LEMMA ClusterEnds ==
  ASSUME NEW width \in Nat \ {0}, NEW sectors \in Int, NEW c \in 2..(1 + sectors \div width)
  PROVE  (c - 2) * width + width <= sectors /\ (c - 2) * width \in Nat
<1>1. PICK q \in Int : q = sectors \div width
  OBVIOUS
<1>2. width * q <= sectors
  BY <1>1
<1>3. PICK k \in Nat : k = c - 2
  BY <1>1
<1>4. k + 1 <= q
  BY <1>1, <1>3
<1>5. (k + 1) * width <= q * width
  BY <1>1, <1>4
<1>6. (k + 1) * width = k * width + width /\ q * width = width * q /\ k * width \in Nat
  BY <1>1
<1> QED  BY <1>2, <1>3, <1>5, <1>6

LEMMA ClustersApart ==
  ASSUME NEW width \in Nat \ {0}, NEW c \in Int, NEW d \in Int, c < d
  PROVE  (c - 2) * width + width <= (d - 2) * width
<1>1. PICK i \in Int, j \in Int : i = c - 2 /\ j = d - 2 /\ i + 1 <= j
  OBVIOUS
<1>2. (i + 1) * width <= j * width
  BY <1>1
<1>3. (i + 1) * width = i * width + width
  BY <1>1
<1> QED  BY <1>1, <1>2, <1>3

(* Every cluster the mounted volume has lies behind its FATs and inside    *)
(* its partition, and no two share a sector (Fat32::mount with             *)
(* cluster_to_lba), for every boot sector and partition.                   *)
THEOREM ClustersCorrect == Spec => []ClustersInPartition
<1>1. MountInv => ClustersInPartition
  <2> SUFFICES ASSUME MountInv, stage = "mounted" PROVE ClustersInPartition
    BY DEF ClustersInPartition
  <2>1. PICK boot \in BootSectors : boot = computer.boot[rootFs.start]
    BY DEF MountInv, VolumeFits
  <2>2. /\ ~Malformed(boot) /\ rootFs.start \in Nat /\ rootFs.count \in Int
        /\ TotalSectors(boot) <= rootFs.count /\ rootFs.perCluster = boot.perCluster
        /\ rootFs.firstData = rootFs.start + boot.reserved + boot.fats * boot.perFat
    BY <2>1 DEF MountInv, VolumeFits
  <2>3. PICK width \in Nat \ {0}, total \in Nat, ahead \in Nat :
          /\ width = boot.perCluster /\ total = TotalSectors(boot)
          /\ ahead = boot.reserved + boot.fats * boot.perFat
    <3>1. /\ boot.perCluster \in Nat /\ boot.reserved \in Nat /\ boot.fats \in Nat
          /\ boot.perFat \in Nat /\ TotalSectors(boot) \in Nat
      BY <2>1 DEF BootSectors, TotalSectors
    <3>2. boot.perCluster # 0
      BY <2>2 DEF Malformed
    <3>3. PICK fatted \in Nat : fatted = boot.fats * boot.perFat
      BY <3>1
    <3>4. boot.perCluster \in Nat \ {0} /\ boot.reserved + fatted \in Nat
      BY <3>1, <3>2
    <3>5. boot.reserved + boot.fats * boot.perFat \in Nat
      BY <3>3, <3>4
    <3> QED  BY <3>1, <3>4, <3>5, Zenon
  <2>4. PICK start \in Nat, count \in Int : start = rootFs.start /\ count = rootFs.count
    BY <2>2
  <2>5. total <= count /\ rootFs.firstData = start + ahead /\ rootFs.perCluster = width
    <3>1. boot.reserved \in Nat /\ boot.fats * boot.perFat \in Int
      BY <2>1 DEF BootSectors
    <3> QED  BY <2>2, <2>3, <2>4, <3>1
  <2>6. VolumeClusters(boot) = 2..(1 + (total - ahead) \div width)
    <3>1. boot.reserved \in Nat /\ boot.fats * boot.perFat \in Int
      BY <2>1 DEF BootSectors
    <3>2. TotalSectors(boot) - boot.reserved - boot.fats * boot.perFat = total - ahead
      BY <2>3, <3>1
    <3> QED  BY <2>3, <3>2 DEF VolumeClusters
  <2>7. ASSUME NEW c \in VolumeClusters(boot)
        PROVE  /\ c \in Int /\ (c - 2) * width \in Nat
               /\ (c - 2) * width + width <= total - ahead
               /\ ClusterToLba(c) = start + ahead + (c - 2) * width
    <3>1. total - ahead \in Int /\ c \in 2..(1 + (total - ahead) \div width)
      BY <2>6
    <3>2. (c - 2) * width + width <= total - ahead /\ (c - 2) * width \in Nat
      BY <3>1, ClusterEnds
    <3>3. c \in Int /\ ~(c < 2)
      BY <3>1
    <3>4. ~(start + ahead + (c - 2) * width >= start + count)
      BY <2>5, <3>2
    <3> QED  BY <2>4, <2>5, <3>2, <3>3, <3>4 DEF ClusterToLba
  <2> DEFINE sectorsOf(c) == ClusterToLba(c)..(ClusterToLba(c) + boot.perCluster - 1)
  <2>8. ASSUME NEW c \in VolumeClusters(boot)
        PROVE  sectorsOf(c) \subseteq
                 (rootFs.start + boot.reserved + boot.fats * boot.perFat)..(rootFs.start + TotalSectors(boot) - 1)
    <3>1. rootFs.start + boot.reserved + boot.fats * boot.perFat = start + ahead
      BY <2>2, <2>5
    <3>2. rootFs.start + TotalSectors(boot) - 1 = start + total - 1
      BY <2>3, <2>4
    <3>3. PICK o \in Nat : o = (c - 2) * width /\ o + width <= total - ahead
      BY <2>7
    <3>4. sectorsOf(c) = (start + ahead + o)..(start + ahead + o + width - 1)
      BY <2>3, <2>7, <3>3
    <3>5. (start + ahead + o)..(start + ahead + o + width - 1) \subseteq (start + ahead)..(start + total - 1)
      BY <3>3
    <3> QED  BY <3>1, <3>2, <3>4, <3>5
  <2>9. ASSUME NEW c \in VolumeClusters(boot), NEW d \in VolumeClusters(boot), c < d
        PROVE  sectorsOf(c) \cap sectorsOf(d) = {}
    <3>1. PICK o \in Nat, p \in Nat : o = (c - 2) * width /\ p = (d - 2) * width
      BY <2>7
    <3>2. o + width <= p
      BY <2>7, <2>9, <3>1, ClustersApart
    <3>3. /\ sectorsOf(c) = (start + ahead + o)..(start + ahead + o + width - 1)
          /\ sectorsOf(d) = (start + ahead + p)..(start + ahead + p + width - 1)
      BY <2>3, <2>7, <3>1
    <3> HIDE DEF sectorsOf
    <3>4. (start + ahead + o)..(start + ahead + o + width - 1)
            \cap (start + ahead + p)..(start + ahead + p + width - 1) = {}
      BY <3>2
    <3> QED  BY <3>3, <3>4
  <2>10. ASSUME NEW c \in VolumeClusters(boot), NEW d \in VolumeClusters(boot) \ {c}
         PROVE  sectorsOf(c) \cap sectorsOf(d) = {}
    <3>1. c < d \/ d < c
      BY <2>7
    <3> HIDE DEF sectorsOf
    <3> QED  BY <2>9, <3>1
  <2> QED  BY <2>1, <2>8, <2>10 DEF ClustersInPartition
<1> QED  BY <1>1, MountInvInit, MountInvStep, PTL DEF Spec

-----------------------------------------------------------------------------
(* How far the mount has come: the controller is the first of the scan,    *)
(* the partitions are what is kept of the slots of the sectors read, all   *)
(* of what a well-formed table declares once it is read, and the volume is *)
(* the system partition; what failed was to fail.                          *)
TableInv ==
  /\ stage \in {"pci", "port", "header"} => sectorIndex = 0 /\ partitions = <<>>
  /\ stage = "port" => controller = First(Found)
  /\ stage = "table" /\ WellPartitioned =>
       /\ sectorIndex \in 0..TableSectors
       /\ \E F : Keeps(F, TableSectors * PerSector) /\ partitions = F[sectorIndex * PerSector]
  /\ stage \in {"boot", "mounted"} /\ WellPartitioned => partitions = Declared
  /\ stage = "mounted" => rootFs.start = System.start /\ rootFs.count = SectorCount(System)
  /\ stage = "failed" /\ failure # "AhciCommandTimeout" =>
       ~(PlainlyAttached /\ WellPartitioned /\ Mountable)

LEMMA TableInvInit == Init => TableInv
<1>1. ASSUME MountInit PROVE TableInv
  BY <1>1 DEF MountInit, TableInv
<1>2. ASSUME MountRests PROVE TableInv
  BY <1>2 DEF MountRests, TableInv
<1> QED  BY <1>1, <1>2 DEF Init

(* The search for the system partition finds the one declared.             *)
LEMMA SearchFinds ==
  ASSUME computer \in MountMachines, WellPartitioned, partitions \in Seq(TableEntries), partitions = Declared
  PROVE  EspAt # 0 /\ SystemAt # 0 /\ System = DeclaredSystem
<1>1. DOMAIN partitions = 1..Len(partitions) /\ Len(partitions) \in Nat
  OBVIOUS
<1>2. PICK I, J : /\ I = {i \in 1..Len(partitions) : partitions[i].type = "esp"}
                  /\ J = {i \in 1..Len(partitions) : partitions[i].name = "LAZERS-SYSTEM"}
  OBVIOUS
<1>3. I \in SUBSET Nat /\ J \in SUBSET Nat /\ J = PlacesNamed("LAZERS-SYSTEM")
  BY <1>1, <1>2 DEF PlacesNamed
<1>4. I # {} /\ J # {}
  BY <1>1, <1>2, <1>3 DEF WellPartitioned
<1>5. EspAt = Min(I) /\ SystemAt = Min(J)
  BY <1>2, <1>4 DEF EspAt, SystemAt, SelectInSeq
<1>6. Min(I) \in I /\ Min(J) \in J
  BY <1>3, <1>4, MinIn
<1>7. EspAt # 0 /\ SystemAt # 0
  BY <1>1, <1>2, <1>5, <1>6
<1>8. System = DeclaredSystem
  BY <1>3, <1>5 DEF System, DeclaredSystem
<1> QED  BY <1>7, <1>8

(* A failure that was to be.                                               *)
LEMMA FailKeepsTable ==
  ASSUME NEW error, Fail(error),
         error # "AhciCommandTimeout" => ~(PlainlyAttached /\ WellPartitioned /\ Mountable)
  PROVE  TableInv'
<1>1. stage' = "failed" /\ failure' = error /\ computer' = computer
  BY DEF Fail
<1>2. PlainlyAttached' = PlainlyAttached /\ WellPartitioned' = WellPartitioned /\ Mountable' = Mountable
  BY <1>1, SameTable, SameBus
<1> QED  BY <1>1, <1>2 DEF TableInv

(* A sector of the table.                                                  *)
LEMMA SectorRead ==
  ASSUME MountInv, TableInv, stage = "table", WellPartitioned, sectorIndex < TableSectors
  PROVE  /\ \A i \in DOMAIN Taken(sectorIndex) : ~(Taken(sectorIndex)[i].end < Taken(sectorIndex)[i].start)
         /\ sectorIndex + 1 \in 0..TableSectors
         /\ \E F : /\ Keeps(F, TableSectors * PerSector)
                  /\ partitions \o Taken(sectorIndex) = F[(sectorIndex + 1) * PerSector]
<1>1. computer \in MountMachines /\ sectorIndex \in Nat /\ partitions \in Seq(TableEntries)
  BY DEF MountInv
<1>2. PICK F : Keeps(F, TableSectors * PerSector) /\ partitions = F[sectorIndex * PerSector]
  BY DEF TableInv
<1>3. PICK s, t, p, N : s = sectorIndex /\ t = TableSectors /\ p = PerSector /\ N = t * p
  OBVIOUS
<1>4. Sized /\ SectorUnits % Gpt.size = 0 /\ t \in Nat /\ p \in Nat
  BY <1>1, <1>3, WellSized
<1>5. s \in Nat /\ s + 1 \in Nat /\ s + 1 <= t /\ N \in Nat
  BY <1>1, <1>3, <1>4
<1>6. (s + 1) * p \in Nat /\ (s + 1) * p <= N
  BY <1>3, <1>4, <1>5, TimesMono
<1>7. Keeps(F, N) /\ partitions = F[s * p]
  BY <1>2, <1>3
<1>8. partitions \o Taken(s) = F[(s + 1) * p]
  BY <1>3, <1>4, <1>5, <1>6, <1>7, SectorTaken
<1>9. F[N] = Declared
  BY <1>1, <1>2, <1>3, AllDeclared
<1>10. ASSUME NEW i \in DOMAIN Taken(s) PROVE ~(Taken(s)[i].end < Taken(s)[i].start)
  <2>1. PICK P, A, l, m : P = partitions /\ A = Taken(s) /\ l = Len(P) /\ m = Len(A)
    OBVIOUS
  <2>2. A \in Seq(TableEntries) /\ P \in Seq(TableEntries)
    BY <2>1, <1>1, <1>4, <1>5, TakenIsFromTable DEF Sized
  <2>3. l \in Nat /\ m \in Nat /\ i \in 1..m
    BY <2>1, <2>2, <1>10
  <2>4. /\ P \o A \in Seq(TableEntries) /\ Len(P \o A) = Len(P) + Len(A)
        /\ \A k \in 1..(Len(P) + Len(A)) : (P \o A)[k] = IF k <= Len(P) THEN P[k] ELSE A[k - Len(P)]
    BY <2>2, ConcatProperties
  <2>5. l + i \in 1..(l + m) /\ ~(l + i <= l) /\ (l + i) - l = i
    BY <2>3
  <2>6. Len(P \o A) = l + m /\ (P \o A)[l + i] = A[i]
    BY <2>1, <2>4, <2>5
  <2>7. PICK a, G : a = (s + 1) * p /\ G = F[a]
    OBVIOUS
  <2>8. a \in 0..N /\ N \in a..N /\ Len(G) = l + m /\ G[l + i] = A[i]
    BY <2>1, <2>6, <2>7, <1>5, <1>6, <1>8
  <2>9. Len(F[N]) >= Len(F[a]) /\ \A k \in 1..Len(F[a]) : F[N][k] = F[a][k]
    BY <2>8, <1>4, <1>5, <1>7, KeptStays
  <2>10. F[N] \in Seq(TableEntries)
    <3>1. N \in 0..N
      BY <1>5
    <3> QED  BY <3>1, <1>7 DEF Keeps
  <2>11. PICK D, d : D = F[N] /\ d = Len(D)
    OBVIOUS
  <2>12. d \in Nat /\ DOMAIN D = 1..d /\ d >= l + m /\ D[l + i] = A[i]
    BY <2>5, <2>7, <2>8, <2>9, <2>10, <2>11
  <2>13. l + i \in DOMAIN Declared /\ Declared[l + i] = A[i]
    BY <2>3, <2>5, <2>11, <2>12, <1>9
  <2>14. A[i].start <= A[i].end
    BY <2>13 DEF WellPartitioned
  <2>15. A[i] \in PartitionEntries
    <3>1. A[i] \in TableEntries
      BY <2>1, <2>2, <2>3
    <3> QED  BY <3>1, <1>4 DEF TableEntries, Sized
  <2>16. A[i].start \in Nat /\ A[i].end \in Nat
    BY <2>15 DEF PartitionEntries
  <2>17. ~(A[i].end < A[i].start)
    BY <2>14, <2>16
  <2> QED  BY <2>1, <2>17
<1> QED  BY <1>2, <1>3, <1>4, <1>5, <1>8, <1>10

LEMMA TableInvStep == MountInv /\ TableInv /\ [Next]_vars => TableInv'
<1> SUFFICES ASSUME MountInv, TableInv, [Next]_vars PROVE TableInv'
  OBVIOUS
<1>0. CASE UNCHANGED mountVars
  <2>1. /\ computer' = computer /\ stage' = stage /\ controller' = controller /\ sectorIndex' = sectorIndex
        /\ partitions' = partitions /\ rootFs' = rootFs /\ failure' = failure
    BY <1>0 DEF mountVars
  <2>2. System' = System /\ SectorCount(System)' = SectorCount(System)
    BY <2>1, SamePartitions DEF System, SectorCount
  <2> QED  BY <2>1, <2>2, SameTable, SameBus DEF TableInv
<1>1. CASE FindController
  <2>1. stage = "pci" /\ computer \in MountMachines
    BY <1>1 DEF FindController, MountInv
  <2>2. CASE Found = {}
    <3>1. Fail("AhciControllerNotFound")
      BY <1>1, <2>2 DEF FindController, Found
    <3>2. ~PlainlyAttached
      BY <2>1, <2>2, PlainlyFound
    <3> QED  BY <3>1, <3>2, FailKeepsTable
  <2>3. CASE Found # {}
    <3>1. /\ stage' = "port" /\ controller' = First(Found)
          /\ UNCHANGED <<computer, portIndex, sectorIndex, partitions, rootFs, failure>>
      BY <1>1, <2>3 DEF FindController, Found
    <3> QED  BY <2>1, <3>1, SameBus DEF TableInv
  <2> QED  BY <2>2, <2>3
<1>2. CASE FindPort
  <2>1. stage = "port" /\ computer \in MountMachines /\ controller = First(Found)
    BY <1>2 DEF FindPort, MountInv, TableInv
  <2>2. PICK found : found = {i \in 0..Ports : i \in Hba.implemented /\ PortIsDisk(i)}
    OBVIOUS
  <2>3. CASE found = {}
    <3>1. Fail("AhciPortNotFound")
      BY <1>2, <2>2, <2>3 DEF FindPort
    <3>2. ~PlainlyAttached
      BY <2>1, <2>2, <2>3, PlainlyConnected
    <3> QED  BY <3>1, <3>2, FailKeepsTable
  <2>4. CASE found # {}
    <3>1. stage' = "header" /\ UNCHANGED <<computer, controller, sectorIndex, partitions, rootFs, failure>>
      BY <1>2, <2>2, <2>4 DEF FindPort
    <3> QED  BY <2>1, <3>1 DEF TableInv
  <2> QED  BY <2>3, <2>4
<1>3. CASE ReadHeader
  <2>1. stage = "header" /\ computer \in MountMachines /\ sectorIndex = 0 /\ partitions = <<>>
    BY <1>3 DEF ReadHeader, MountInv, TableInv
  <2>2. ASSUME NEW error, Fail(error), ~Gpt.signature \/ Gpt.size < 1 PROVE TableInv'
    <3>1. ~WellPartitioned
      <4>1. Gpt.size \in Nat
        BY <2>1, MountAssumption DEF Gpt
      <4> QED  BY <4>1, <2>2 DEF WellPartitioned
    <3> QED  BY <3>1, <2>2, FailKeepsTable
  <2>3. CASE /\ stage' = "table"
             /\ UNCHANGED <<computer, controller, portIndex, sectorIndex, partitions, rootFs, failure>>
    <3>1. ASSUME WellPartitioned
          PROVE  /\ 0 \in 0..TableSectors
                 /\ \E F : Keeps(F, TableSectors * PerSector) /\ partitions = F[0 * PerSector]
      <4>1. Sized /\ TableSectors \in Nat /\ PerSector \in Nat /\ TableSectors * PerSector \in Nat
        BY <2>1, <3>1, WellSized
      <4>2. PICK F : Keeps(F, TableSectors * PerSector)
        BY <4>1, KeepsSomething
      <4>3. F[0] = <<>> /\ 0 * PerSector = 0
        BY <4>1, <4>2 DEF Keeps
      <4> QED  BY <2>1, <4>1, <4>2, <4>3
    <3> QED  BY <2>1, <2>3, <3>1, SameTable DEF TableInv
  <2> QED  BY <1>3, <2>2, <2>3 DEF ReadHeader
<1>4. CASE ReadTable
  <2>1. stage = "table" /\ sectorIndex < TableSectors
    BY <1>4 DEF ReadTable
  <2>2. PICK taken : taken = Taken(sectorIndex)
    OBVIOUS
  <2>3. CASE \E i \in DOMAIN taken : taken[i].end < taken[i].start
    <3>1. Fail("InvalidPartitionTable")
      BY <1>4, <2>2, <2>3 DEF ReadTable
    <3>2. ~WellPartitioned
      BY <2>1, <2>2, <2>3, SectorRead
    <3> QED  BY <3>1, <3>2, FailKeepsTable
  <2>4. CASE ~\E i \in DOMAIN taken : taken[i].end < taken[i].start
    <3>1. /\ partitions' = partitions \o taken /\ sectorIndex' = sectorIndex + 1
          /\ UNCHANGED <<computer, stage, controller, portIndex, rootFs, failure>>
      BY <1>4, <2>2, <2>4 DEF ReadTable
    <3>2. ASSUME WellPartitioned
          PROVE  /\ sectorIndex' \in 0..TableSectors
                 /\ \E F : Keeps(F, TableSectors * PerSector) /\ partitions' = F[sectorIndex' * PerSector]
      BY <2>1, <2>2, <3>1, <3>2, SectorRead
    <3> QED  BY <2>1, <3>1, <3>2, SameTable DEF TableInv
  <2> QED  BY <2>3, <2>4
<1>5. CASE FindPartitions
  <2>1. stage = "table" /\ sectorIndex = TableSectors /\ computer \in MountMachines /\ partitions \in Seq(TableEntries)
    BY <1>5 DEF FindPartitions, MountInv
  <2>2. ASSUME WellPartitioned PROVE partitions = Declared /\ EspAt # 0 /\ SystemAt # 0
    <3>1. PICK F : Keeps(F, TableSectors * PerSector) /\ partitions = F[TableSectors * PerSector]
      BY <2>1, <2>2 DEF TableInv
    <3>2. partitions = Declared
      BY <2>1, <2>2, <3>1, AllDeclared
    <3> QED  BY <2>1, <2>2, <3>2, SearchFinds
  <2>3. ASSUME NEW error, Fail(error), EspAt = 0 \/ SystemAt = 0 PROVE TableInv'
    <3>1. ~WellPartitioned
      BY <2>2, <2>3
    <3> QED  BY <3>1, <2>3, FailKeepsTable
  <2>4. CASE /\ stage' = "boot"
             /\ UNCHANGED <<computer, controller, portIndex, sectorIndex, partitions, rootFs, failure>>
    BY <2>2, <2>4, SameTable DEF TableInv
  <2> QED  BY <1>5, <2>3, <2>4 DEF FindPartitions
<1>6. CASE MountFat
  <2>1. stage = "boot" /\ computer \in MountMachines /\ partitions \in Seq(TableEntries)
    BY <1>6 DEF MountFat, MountInv
  <2>2. PICK boot : boot = computer.boot[System.start]
    OBVIOUS
  <2>3. CASE Malformed(boot) \/ TotalSectors(boot) = 0 \/ TotalSectors(boot) > SectorCount(System)
    <3>1. Fail("InvalidFat32BootSector")
      BY <1>6, <2>2, <2>3 DEF MountFat
    <3>2. ASSUME WellPartitioned, Mountable PROVE FALSE
      <4>1. System = DeclaredSystem
        BY <2>1, <3>2, SearchFinds DEF TableInv
      <4>2. ~Malformed(boot) /\ TotalSectors(boot) \in 1..SectorCount(System)
        BY <2>2, <3>2, <4>1 DEF Mountable
      <4>3. System \in PartitionEntries
        BY <2>1, SystemInTable
      <4>4. SectorCount(System) \in Int
        BY <4>3 DEF SectorCount, PartitionEntries
      <4> QED  BY <2>3, <4>2, <4>4
    <3> QED  BY <3>1, <3>2, FailKeepsTable
  <2>4. CASE ~(Malformed(boot) \/ TotalSectors(boot) = 0 \/ TotalSectors(boot) > SectorCount(System))
    <3>1. /\ stage' = "mounted" /\ rootFs'.start = System.start /\ rootFs'.count = SectorCount(System)
          /\ UNCHANGED <<computer, controller, portIndex, sectorIndex, partitions, failure>>
      BY <1>6, <2>2, <2>4 DEF MountFat
    <3>2. System' = System /\ SectorCount(System)' = SectorCount(System)
      BY <3>1, SamePartitions DEF System, SectorCount
    <3> QED  BY <2>1, <3>1, <3>2, SameTable DEF TableInv
  <2> QED  BY <2>3, <2>4
<1>7. CASE DiskFails
  <2>1. Fail("AhciCommandTimeout")
    BY <1>7 DEF DiskFails
  <2> QED  BY <2>1, FailKeepsTable
<1> QED
  BY <1>0, <1>1, <1>2, <1>3, <1>4, <1>5, <1>6, <1>7 DEF Next, MountNext, vars, mountVars

(* On a machine with a disk at the first port of a controller at function  *)
(* 0, a well-formed table with an EFI and a system partition and a sound   *)
(* boot sector mount_root_fs fails only when the disk does, and from a     *)
(* well-formed table it mounts nothing but the first partition with the    *)
(* system's name: for every size of entry that divides a sector, every     *)
(* number of entries and of partitions kept, and every bus.                *)
THEOREM SystemMountedCorrect == Spec => []SystemMounted
<1>1. MountInv /\ TableInv => SystemMounted
  <2> SUFFICES ASSUME MountInv, TableInv PROVE SystemMounted
    OBVIOUS
  <2>1. ASSUME stage = "mounted", WellPartitioned
        PROVE  rootFs.start = DeclaredSystem.start /\ rootFs.count = SectorCount(DeclaredSystem)
    <3>1. /\ computer \in MountMachines /\ partitions \in Seq(TableEntries) /\ partitions = Declared
          /\ rootFs.start = System.start /\ rootFs.count = SectorCount(System)
      BY <2>1 DEF MountInv, TableInv
    <3>2. System = DeclaredSystem
      BY <2>1, <3>1, SearchFinds
    <3> QED  BY <3>1, <3>2
  <2> QED  BY <2>1 DEF TableInv, SystemMounted
<1> QED  BY <1>1, MountInvInit, MountInvStep, TableInvInit, TableInvStep, PTL DEF Spec

(***************************************************************************)
(* Directories: what a directory of one or two clusters lists, cluster by  *)
(* cluster.                                                                *)
(***************************************************************************)
Marks == {"d", "f", "end", "skip"}
Listed(before, mark) == IF mark \in {"skip", "end"} THEN before ELSE Append(before, mark)
Lists(f, s) ==
  /\ f \in [0..Len(s) -> Seq(Marks)] /\ f[0] = <<>>
  /\ \A n \in 1..Len(s) : f[n] = Listed(f[n - 1], s[n])

LEMMA NamedIs ==
  ASSUME NEW s \in Seq(Marks) PROVE \E f : Lists(f, s) /\ Named(s) = f[Len(s)]
<1>0. PICK M : M = Len(s) /\ M \in Nat
  OBVIOUS
<1> DEFINE Is(f) == f = [n \in 0..M |-> IF n = 0 THEN <<>> ELSE Listed(f[n - 1], s[n])]
<1>1. \A n \in 1..M : s[n] \in Marks
  BY <1>0
<1>2. Named(s) = (CHOOSE f : Is(f))[M]
  BY <1>0 DEF Named, Listed
<1>3. /\ <<>> \in Seq(Marks)
      /\ \A b \in Seq(Marks) : \A n \in 1..M : Listed(b, s[n]) \in Seq(Marks)
  BY <1>1, AppendProperties DEF Listed
<1> HIDE DEF Is
<1>4. PICK step : step = [n \in 1..M |-> [b \in Seq(Marks) |-> Listed(b, s[n])]]
  OBVIOUS
<1>5. step \in Steps(M, Seq(Marks))
  BY <1>3, <1>4 DEF Steps
<1>6. PICK f : Chain(f, M, Seq(Marks), <<>>, step)
  BY <1>0, <1>3, <1>5, Recursion
<1>7. f \in [0..M -> Seq(Marks)] /\ f[0] = <<>> /\ \A n \in 1..M : f[n] = step[n][f[n - 1]]
  BY <1>6 DEF Chain
<1>8. ASSUME NEW n \in 1..M PROVE f[n] = Listed(f[n - 1], s[n])
  <2>1. n - 1 \in 0..M
    BY <1>0
  <2>2. f[n - 1] \in Seq(Marks)
    BY <2>1, <1>7
  <2> QED  BY <2>2, <1>4, <1>7
<1>9. Is(f)
  <2>1. ASSUME NEW n \in 0..M PROVE f[n] = IF n = 0 THEN <<>> ELSE Listed(f[n - 1], s[n])
    <3>1. CASE n = 0
      BY <3>1, <1>7
    <3>2. CASE n # 0
      <4>1. n \in 1..M
        BY <3>2, <1>0
      <4> QED  BY <3>2, <4>1, <1>8
    <3> QED  BY <3>1, <3>2
  <2> QED  BY <2>1, <1>7 DEF Is
<1>10. PICK g : g = CHOOSE e : Is(e)
  OBVIOUS
<1>11. Is(g)
  BY <1>9, <1>10
<1>12. g[0] = <<>> /\ \A n \in 1..M : g[n] = Listed(g[n - 1], s[n])
  <2>1. \A n \in 0..M : g[n] = IF n = 0 THEN <<>> ELSE Listed(g[n - 1], s[n])
    BY <1>11 DEF Is
  <2>2. 0 \in 0..M /\ \A n \in 1..M : n \in 0..M /\ n # 0
    BY <1>0
  <2> QED  BY <2>1, <2>2
<1> DEFINE T == {n \in 0..M : g[n] \in Seq(Marks)}
<1>13. 0 \in T
  <2>1. 0 \in 0..M
    BY <1>0
  <2> QED  BY <2>1, <1>3, <1>12
<1>14. ASSUME NEW n \in 1..M, n - 1 \in T PROVE n \in T
  <2>1. n \in 0..M /\ g[n - 1] \in Seq(Marks)
    BY <1>0, <1>14
  <2> QED  BY <2>1, <1>3, <1>12
<1> HIDE DEF T
<1>15. \A n \in 0..M : n \in T
  BY <1>0, <1>13, <1>14, UpTo
<1>16. g \in [0..M -> Seq(Marks)]
  <2>1. \A n \in 0..M : g[n] \in Seq(Marks)
    BY <1>15 DEF T
  <2>2. g = [n \in 0..M |-> g[n]]
    BY <1>11 DEF Is
  <2> QED  BY <2>1, <2>2
<1>17. Lists(g, s)
  BY <1>0, <1>12, <1>16 DEF Lists
<1> QED  BY <1>0, <1>2, <1>10, <1>17

(* What two runs of slots list together.                                   *)
LEMMA NamedJoin ==
  ASSUME NEW s \in Seq(Marks), NEW t \in Seq(Marks)
  PROVE  Named(s \o t) = Named(s) \o Named(t)
<1>0. PICK L, M, w : L = Len(s) /\ M = Len(t) /\ w = s \o t
  OBVIOUS
<1>1. /\ L \in Nat /\ M \in Nat /\ w \in Seq(Marks) /\ Len(w) = L + M
      /\ \A i \in 1..L : w[i] = s[i]
      /\ \A i \in 1..M : w[L + i] = t[i]
  BY <1>0, ConcatProperties
<1>2. PICK f : Lists(f, s) /\ Named(s) = f[L]
  BY <1>0, NamedIs
<1>3. PICK g : Lists(g, t) /\ Named(t) = g[M]
  BY <1>0, NamedIs
<1>4. PICK h : Lists(h, w) /\ Named(w) = h[L + M]
  BY <1>1, NamedIs
<1>5. /\ f \in [0..L -> Seq(Marks)] /\ f[0] = <<>> /\ \A n \in 1..L : f[n] = Listed(f[n - 1], s[n])
      /\ g \in [0..M -> Seq(Marks)] /\ g[0] = <<>> /\ \A n \in 1..M : g[n] = Listed(g[n - 1], t[n])
      /\ h[0] = <<>> /\ \A n \in 1..(L + M) : h[n] = Listed(h[n - 1], w[n])
  BY <1>0, <1>1, <1>2, <1>3, <1>4 DEF Lists
<1> DEFINE T == {n \in 0..L : h[n] = f[n]}
<1>6. 0 \in T
  <2>1. 0 \in 0..L
    BY <1>1
  <2> QED  BY <2>1, <1>5
<1>7. ASSUME NEW n \in 1..L, n - 1 \in T PROVE n \in T
  <2>1. n \in 0..L /\ n \in 1..(L + M) /\ h[n - 1] = f[n - 1]
    BY <1>1, <1>7
  <2>2. h[n] = Listed(h[n - 1], w[n]) /\ f[n] = Listed(f[n - 1], s[n]) /\ w[n] = s[n]
    BY <2>1, <1>1, <1>5
  <2> QED  BY <2>1, <2>2
<1> HIDE DEF T
<1>8. \A n \in 0..L : n \in T
  BY <1>1, <1>6, <1>7, UpTo
<1>9. L \in 0..L /\ h[L] = f[L] /\ f[L] \in Seq(Marks)
  <2>1. L \in 0..L
    BY <1>1
  <2> QED  BY <2>1, <1>5, <1>8 DEF T
<1> DEFINE U == {n \in 0..M : h[L + n] = f[L] \o g[n]}
<1>10. 0 \in U
  <2>1. 0 \in 0..M /\ L + 0 = L /\ g[0] = <<>>
    BY <1>1, <1>5
  <2>2. f[L] \o <<>> = f[L]
    BY <1>9
  <2> QED  BY <2>1, <2>2, <1>9
<1>11. ASSUME NEW n \in 1..M, n - 1 \in U PROVE n \in U
  <2>1. n \in 0..M /\ n - 1 \in 0..M /\ L + n \in 1..(L + M) /\ (L + n) - 1 = L + (n - 1)
    BY <1>1
  <2>2. h[L + n] = Listed(h[L + (n - 1)], t[n]) /\ g[n] = Listed(g[n - 1], t[n]) /\ g[n - 1] \in Seq(Marks)
    BY <2>1, <1>1, <1>5
  <2>3. h[L + n] = Listed(f[L] \o g[n - 1], t[n])
    BY <2>2, <1>11
  <2>4. PICK a, b, m : a = f[L] /\ b = g[n - 1] /\ m = t[n]
    OBVIOUS
  <2>5. a \in Seq(Marks) /\ b \in Seq(Marks) /\ m \in Marks
    BY <2>2, <2>4, <1>0, <1>1, <1>9
  <2>6. Append(a \o b, m) = a \o Append(b, m)
    <3>1. PICK c, d : c = a \o b /\ d = <<m>>
      OBVIOUS
    <3>2. c \in Seq(Marks) /\ d \in Seq(Marks)
      BY <2>5, <3>1, ConcatProperties
    <3>3. Append(c, m) = c \o d /\ Append(b, m) = b \o d
      BY <3>1, <3>2, <2>5, AppendIsConcat
    <3>4. (a \o b) \o d = a \o (b \o d)
      <4>1. a \in Seq(Marks) /\ b \in Seq(Marks) /\ d \in Seq(Marks)
        BY <3>2, <2>5
      <4> QED  BY ONLY <4>1, ConcatAssociative, SMTT(60)
    <3> QED  BY <3>1, <3>3, <3>4
  <2>7. Listed(a \o b, m) = a \o Listed(b, m)
    BY <2>6 DEF Listed
  <2> QED  BY <2>1, <2>2, <2>3, <2>4, <2>7
<1> HIDE DEF U
<1>12. \A n \in 0..M : n \in U
  BY <1>1, <1>10, <1>11, UpTo
<1>13. M \in 0..M
  BY <1>1
<1>14. h[L + M] = f[L] \o g[M]
  BY <1>12, <1>13 DEF U
<1> QED  BY <1>0, <1>2, <1>3, <1>4, <1>14

(* What is listed has a name, and every name is listed.                    *)
LEMMA NamedHas ==
  ASSUME NEW s \in Seq(Marks), NEW x, x \notin {"skip", "end"}
  PROVE  Named(s) \in Seq(Marks) /\ (Has(Named(s), x) <=> Has(s, x))
<1>0. PICK L : L = Len(s) /\ L \in Nat
  OBVIOUS
<1>1. PICK f : Lists(f, s) /\ Named(s) = f[L]
  BY <1>0, NamedIs
<1>2. f \in [0..L -> Seq(Marks)] /\ f[0] = <<>> /\ \A n \in 1..L : f[n] = Listed(f[n - 1], s[n])
  BY <1>0, <1>1 DEF Lists
<1> DEFINE Among(n) == \E i \in 1..n : s[i] = x
           T == {n \in 0..L : Has(f[n], x) <=> Among(n)}
<1>3. 0 \in T
  <2>1. 0 \in 0..L
    BY <1>0
  <2>2. ~Has(f[0], x)
    BY <1>2 DEF Has
  <2>3. ~Among(0)
    OBVIOUS
  <2> QED  BY <2>1, <2>2, <2>3
<1>4. ASSUME NEW n \in 1..L, n - 1 \in T PROVE n \in T
  <2>1. n \in 0..L /\ n - 1 \in 0..L /\ f[n] = Listed(f[n - 1], s[n]) /\ s[n] \in Marks
    BY <1>0, <1>2
  <2>2. PICK b, m, l : b = f[n - 1] /\ m = s[n] /\ l = Len(b)
    OBVIOUS
  <2>3. b \in Seq(Marks) /\ m \in Marks /\ l \in Nat
    BY <2>1, <2>2, <1>2
  <2>4. Has(b, x) <=> Among(n - 1)
    BY <2>2, <1>4
  <2>5. Among(n) <=> Among(n - 1) \/ m = x
    <3>1. \A i \in 1..n : i = n \/ i \in 1..(n - 1)
      OBVIOUS
    <3>2. \A i \in 1..(n - 1) : i \in 1..n
      OBVIOUS
    <3>3. n \in 1..n
      OBVIOUS
    <3> QED  BY <3>1, <3>2, <3>3, <2>2
  <2>6. Has(Listed(b, m), x) <=> Has(b, x) \/ m = x
    <3>1. CASE m \in {"skip", "end"}
      BY <3>1 DEF Listed
    <3>2. CASE m \notin {"skip", "end"}
      <4>1. PICK c : c = Append(b, m)
        OBVIOUS
      <4>2. c \in Seq(Marks) /\ Len(c) = l + 1 /\ c[l + 1] = m /\ \A i \in 1..l : c[i] = b[i]
        BY <4>1, <2>2, <2>3, AppendProperties
      <4>3. DOMAIN c = 1..(l + 1) /\ DOMAIN b = 1..l
        BY <4>2, <2>2, <2>3
      <4>4. \A i \in 1..(l + 1) : i = l + 1 \/ i \in 1..l
        BY <2>3
      <4>5. l + 1 \in 1..(l + 1) /\ \A i \in 1..l : i \in 1..(l + 1)
        BY <2>3
      <4>6. Has(c, x) <=> Has(b, x) \/ m = x
        BY <4>2, <4>3, <4>4, <4>5 DEF Has
      <4> QED  BY <3>2, <4>1, <4>6 DEF Listed
    <3> QED  BY <3>1, <3>2
  <2> HIDE DEF Among
  <2> QED  BY <2>1, <2>2, <2>4, <2>5, <2>6
<1> HIDE DEF T
<1>5. \A n \in 0..L : n \in T
  BY <1>0, <1>3, <1>4, UpTo
<1>6. L \in 0..L /\ L \in T
  BY <1>0, <1>5
<1>7. Has(f[L], x) <=> Among(L)
  BY <1>6 DEF T
<1>8. Has(s, x) <=> Among(L)
  BY <1>0 DEF Has
<1> QED  BY <1>1, <1>2, <1>6, <1>7, <1>8

(* The first of some marks.                                                *)
LEMMA MinLeast == ASSUME NEW T \in SUBSET Nat, T # {} PROVE \A y \in T : Min(T) <= y
  BY LeastNatural DEF Min
LEMMA StopAtIs ==
  ASSUME NEW s \in Seq(Marks), NEW names
  PROVE  \/ StopAt(s, names) = "none" /\ \A i \in 1..Len(s) : s[i] \notin names
         \/ \E i \in 1..Len(s) : /\ s[i] \in names /\ StopAt(s, names) = s[i]
                                 /\ \A j \in 1..(i - 1) : s[j] \notin names
<1>1. PICK H : H = {i \in DOMAIN s : s[i] \in names}
  OBVIOUS
<1>2. DOMAIN s = 1..Len(s) /\ Len(s) \in Nat /\ H \in SUBSET Nat
  BY <1>1
<1>3. StopAt(s, names) = IF H = {} THEN "none" ELSE s[Min(H)]
  BY <1>1 DEF StopAt
<1>4. CASE H = {}
  BY <1>1, <1>2, <1>3, <1>4
<1>5. CASE H # {}
  <2>1. PICK m : m = Min(H)
    OBVIOUS
  <2>2. m \in H /\ \A y \in H : m <= y
    BY <2>1, <1>2, <1>5, MinIn, MinLeast
  <2>3. m \in 1..Len(s) /\ s[m] \in names /\ StopAt(s, names) = s[m]
    BY <1>1, <1>2, <1>3, <1>5, <2>1, <2>2
  <2>4. ASSUME NEW j \in 1..(m - 1) PROVE s[j] \notin names
    <3>1. j \in 1..Len(s) /\ ~(m <= j)
      BY <2>3, <1>2
    <3> QED  BY <3>1, <2>2, <1>1, <1>2
  <2> QED  BY <2>3, <2>4
<1> QED  BY <1>4, <1>5

EndsAt(s, k) == k \in 1..Len(s) /\ s[k] = "end" /\ \A j \in 1..(k - 1) : s[j] # "end"
LEMMA BeforeIs ==
  ASSUME NEW s \in Seq(Marks)
  PROVE  \/ ~Has(s, "end") /\ Before(s, "end") = s
         \/ \E k : EndsAt(s, k) /\ Has(s, "end") /\ Before(s, "end") = SubSeq(s, 1, k - 1)
<1>1. PICK H : H = {i \in DOMAIN s : s[i] = "end"}
  OBVIOUS
<1>2. DOMAIN s = 1..Len(s) /\ Len(s) \in Nat /\ H \in SUBSET Nat
  BY <1>1
<1>3. H = {i \in DOMAIN s : s[i] \in {"end"}}
  BY <1>1
<1>4. CASE H = {}
  <2>1. StopAt(s, {"end"}) = "none"
    BY <1>3, <1>4 DEF StopAt
  <2> QED  BY <2>1, <1>1, <1>4 DEF Before, Has
<1>5. CASE H # {}
  <2>1. PICK m : m = Min(H)
    OBVIOUS
  <2>2. m \in H /\ \A y \in H : m <= y
    BY <2>1, <1>2, <1>5, MinIn, MinLeast
  <2>3. m \in 1..Len(s) /\ s[m] = "end" /\ Has(s, "end")
    BY <1>1, <1>2, <2>2 DEF Has
  <2>4. StopAt(s, {"end"}) = s[m]
    BY <1>3, <1>5, <2>1 DEF StopAt
  <2>5. Before(s, "end") = SubSeq(s, 1, m - 1)
    BY <2>1, <2>3, <2>4, <1>1 DEF Before
  <2>6. ASSUME NEW j \in 1..(m - 1) PROVE s[j] # "end"
    <3>1. j \in 1..Len(s) /\ ~(m <= j)
      BY <2>3, <1>2
    <3> QED  BY <3>1, <2>2, <1>1, <1>2
  <2> QED  BY <2>3, <2>5, <2>6 DEF EndsAt
<1> QED  BY <1>4, <1>5

LEMMA BeforeAt ==
  ASSUME NEW s \in Seq(Marks), NEW k, EndsAt(s, k)
  PROVE  Has(s, "end") /\ Before(s, "end") = SubSeq(s, 1, k - 1)
<1>0. PICK n : n = Len(s) /\ n \in Nat /\ DOMAIN s = 1..n
  OBVIOUS
<1>1. k \in 1..n /\ s[k] = "end" /\ Has(s, "end")
  BY <1>0 DEF EndsAt, Has
<1>2. PICK m : EndsAt(s, m) /\ Before(s, "end") = SubSeq(s, 1, m - 1)
  BY <1>1, BeforeIs
<1>3. m = k
  <2>1. m \in 1..n /\ s[m] = "end" /\ \A j \in 1..(m - 1) : s[j] # "end"
    BY <1>0, <1>2 DEF EndsAt
  <2>2. \A j \in 1..(k - 1) : s[j] # "end"
    BY DEF EndsAt
  <2>3. ~(k < m)
    <3>1. k < m => k \in 1..(m - 1)
      BY <1>0, <1>1, <2>1
    <3> QED  BY <3>1, <2>1, <1>1
  <2>4. ~(m < k)
    <3>1. m < k => m \in 1..(k - 1)
      BY <1>0, <1>1, <2>1
    <3> QED  BY <3>1, <2>1, <2>2
  <2> QED  BY <2>1, <2>3, <2>4, <1>0, <1>1
<1> QED  BY <1>1, <1>2, <1>3

LEMMA Prefix ==
  ASSUME NEW s \in Seq(Marks), NEW k \in 1..Len(s)
  PROVE  /\ SubSeq(s, 1, k - 1) \in Seq(Marks) /\ Len(SubSeq(s, 1, k - 1)) = k - 1
         /\ \A i \in 1..(k - 1) : SubSeq(s, 1, k - 1)[i] = s[i]
<1>1. Len(s) \in Nat /\ k \in Nat /\ k - 1 \in 0..Len(s) /\ \A i \in 1..(k - 1) : i \in 1..Len(s)
  OBVIOUS
<1> QED  BY <1>1, SubSeqProperties

(* What a walk over the slots of a cluster stops at.                       *)
LEMMA FoundBefore ==
  ASSUME NEW s \in Seq(Marks), NEW name, name \notin {"end", "none", "skip"}
  PROVE  /\ Before(s, "end") \in Seq(Marks)
         /\ StopAt(s, {name, "end"}) \in {"none", "end", name}
         /\ StopAt(s, {name, "end"}) = "none" =>
              ~Has(s, "end") /\ ~Has(s, name) /\ Before(s, "end") = s
         /\ StopAt(s, {name, "end"}) = "end" => Has(s, "end") /\ ~Has(Before(s, "end"), name)
         /\ StopAt(s, {name, "end"}) = name => Has(Before(s, "end"), name)
<1>0. PICK n, b, stop : n = Len(s) /\ b = Before(s, "end") /\ stop = StopAt(s, {name, "end"})
  OBVIOUS
<1>1. n \in Nat /\ DOMAIN s = 1..n
  BY <1>0
<1>2. CASE ~Has(s, "end")
  <2>1. b = s
    BY <1>0, <1>2, BeforeIs
  <2>2. \A i \in 1..n : s[i] # "end"
    BY <1>1, <1>2 DEF Has
  <2>3. CASE stop = "none" /\ \A i \in 1..n : s[i] \notin {name, "end"}
    <3>1. ~Has(s, name)
      BY <2>3, <1>1 DEF Has
    <3> QED  BY <3>1, <2>1, <2>3, <1>0, <1>2
  <2>4. ASSUME NEW i \in 1..n, s[i] \in {name, "end"}, stop = s[i]
        PROVE  stop = name /\ Has(s, name)
    BY <2>2, <2>4, <1>1 DEF Has
  <2>5. CASE ~(stop = "none" /\ \A i \in 1..n : s[i] \notin {name, "end"})
    <3>1. \E i \in 1..n : s[i] \in {name, "end"} /\ stop = s[i]
      BY <2>5, <1>0, StopAtIs
    <3>2. stop = name /\ Has(s, name)
      BY <3>1, <2>4
    <3> QED  BY <3>2, <2>1, <1>0
  <2> QED  BY <2>3, <2>5
<1>3. CASE Has(s, "end")
  <2>1. PICK k : EndsAt(s, k) /\ b = SubSeq(s, 1, k - 1)
    BY <1>0, <1>3, BeforeIs
  <2>2. k \in 1..n /\ s[k] = "end" /\ \A j \in 1..(k - 1) : s[j] # "end"
    BY <1>0, <2>1 DEF EndsAt
  <2>3. b \in Seq(Marks) /\ Len(b) = k - 1 /\ \A i \in 1..(k - 1) : b[i] = s[i]
    BY <1>0, <2>1, <2>2, Prefix
  <2>4. DOMAIN b = 1..(k - 1)
    BY <2>3
  <2>5. Has(b, name) <=> \E i \in 1..(k - 1) : s[i] = name
    BY <2>3, <2>4 DEF Has
  <2>6. ~(\A i \in 1..n : s[i] \notin {name, "end"})
    BY <2>2
  <2>7. PICK i \in 1..n : s[i] \in {name, "end"} /\ stop = s[i] /\ \A j \in 1..(i - 1) : s[j] \notin {name, "end"}
    BY <2>6, <1>0, StopAtIs
  <2>8. ~(k < i)
    <3>1. k < i => k \in 1..(i - 1)
      BY <1>1, <2>2
    <3> QED  BY <3>1, <2>2, <2>7
  <2>9. CASE s[i] = "end"
    <3>1. i = k
      <4>1. i < k => i \in 1..(k - 1)
        BY <1>1, <2>2
      <4> QED  BY <4>1, <2>2, <2>8, <2>9, <1>1
    <3>2. ~Has(b, name)
      BY <3>1, <2>5, <2>7
    <3> QED  BY <3>2, <2>3, <2>7, <2>9, <1>0, <1>3
  <2>10. CASE s[i] = name
    <3>1. i \in 1..(k - 1)
      BY <2>2, <2>8, <2>10, <1>1
    <3> QED  BY <3>1, <2>3, <2>5, <2>7, <2>10, <1>0
  <2> QED  BY <2>7, <2>9, <2>10
<1> QED  BY <1>2, <1>3

(* A chain of two clusters read as one.                                    *)
LEMMA Joined ==
  ASSUME NEW a \in Seq(Marks), NEW b \in Seq(Marks)
  PROVE  /\ \A x : Has(a \o b, x) <=> Has(a, x) \/ Has(b, x)
         /\ Has(a, "end") => Before(a \o b, "end") = Before(a, "end")
         /\ ~Has(a, "end") => Before(a \o b, "end") = a \o Before(b, "end")
<1>0. PICK l, m, w : l = Len(a) /\ m = Len(b) /\ w = a \o b
  OBVIOUS
<1>1. /\ l \in Nat /\ m \in Nat /\ w \in Seq(Marks) /\ Len(w) = l + m
      /\ DOMAIN a = 1..l /\ DOMAIN b = 1..m /\ DOMAIN w = 1..(l + m)
      /\ \A i \in 1..l : w[i] = a[i]
      /\ \A i \in 1..m : w[l + i] = b[i]
  BY <1>0, ConcatProperties
<1>2. ASSUME NEW x PROVE Has(w, x) <=> Has(a, x) \/ Has(b, x)
  <2>1. \A i \in 1..(l + m) : i \in 1..l \/ (i - l \in 1..m /\ l + (i - l) = i)
    BY <1>1
  <2>2. (\A i \in 1..l : i \in 1..(l + m)) /\ (\A i \in 1..m : l + i \in 1..(l + m))
    BY <1>1
  <2>3. ASSUME Has(w, x) PROVE Has(a, x) \/ Has(b, x)
    <3>1. PICK i \in 1..(l + m) : w[i] = x
      BY <2>3, <1>1 DEF Has
    <3>2. CASE i \in 1..l
      BY <3>1, <3>2, <1>1 DEF Has
    <3>3. CASE i - l \in 1..m /\ l + (i - l) = i
      <4>1. b[i - l] = w[l + (i - l)]
        BY <3>3, <1>1
      <4>2. b[i - l] = x
        BY <4>1, <3>1, <3>3
      <4> QED  BY <4>2, <3>3, <1>1 DEF Has
    <3> QED  BY <3>2, <3>3, <2>1
  <2>4. Has(a, x) => Has(w, x)
    BY <2>2, <1>1 DEF Has
  <2>5. Has(b, x) => Has(w, x)
    BY <2>2, <1>1 DEF Has
  <2> QED  BY <2>3, <2>4, <2>5
<1>3. ASSUME Has(a, "end") PROVE Before(w, "end") = Before(a, "end")
  <2>1. PICK k : EndsAt(a, k) /\ Before(a, "end") = SubSeq(a, 1, k - 1)
    BY <1>3, BeforeIs
  <2>2. k \in 1..l /\ a[k] = "end" /\ \A j \in 1..(k - 1) : a[j] # "end"
    BY <1>0, <2>1 DEF EndsAt
  <2>3. k \in 1..(l + m) /\ \A j \in 1..(k - 1) : j \in 1..l
    BY <1>1, <2>2
  <2>4. EndsAt(w, k)
    BY <1>1, <2>2, <2>3 DEF EndsAt
  <2>5. Before(w, "end") = SubSeq(w, 1, k - 1)
    BY <1>1, <2>4, BeforeAt
  <2>6. PICK p, q : p = SubSeq(w, 1, k - 1) /\ q = SubSeq(a, 1, k - 1)
    OBVIOUS
  <2>7. /\ p \in Seq(Marks) /\ Len(p) = k - 1 /\ \A i \in 1..(k - 1) : p[i] = w[i]
        /\ q \in Seq(Marks) /\ Len(q) = k - 1 /\ \A i \in 1..(k - 1) : q[i] = a[i]
    BY <1>0, <1>1, <2>2, <2>3, <2>6, Prefix
  <2>8. p = q
    <3>1. \A i \in 1..(k - 1) : p[i] = q[i]
      BY <2>3, <2>7, <1>1
    <3> QED  BY <3>1, <2>7, SeqEqual
  <2> QED  BY <2>1, <2>5, <2>6, <2>8
<1>4. ASSUME ~Has(a, "end") PROVE Before(w, "end") = a \o Before(b, "end")
  <2>1. \A i \in 1..l : a[i] # "end"
    BY <1>1, <1>4 DEF Has
  <2>2. CASE ~Has(b, "end")
    <3>1. ~Has(w, "end") /\ Before(b, "end") = b
      BY <2>2, <1>2, <1>4, BeforeIs
    <3> QED  BY <3>1, <1>0, <1>1, BeforeIs
  <2>3. CASE Has(b, "end")
    <3>1. PICK k : EndsAt(b, k) /\ Before(b, "end") = SubSeq(b, 1, k - 1)
      BY <2>3, BeforeIs
    <3>2. k \in 1..m /\ b[k] = "end" /\ \A j \in 1..(k - 1) : b[j] # "end"
      BY <1>0, <3>1 DEF EndsAt
    <3>3. l + k \in 1..(l + m) /\ w[l + k] = "end"
      BY <1>1, <3>2
    <3>4. ASSUME NEW j \in 1..((l + k) - 1) PROVE w[j] # "end"
      <4>1. CASE j \in 1..l
        BY <4>1, <1>1, <2>1
      <4>2. CASE j \notin 1..l
        <5>1. j - l \in 1..(k - 1) /\ j - l \in 1..m /\ l + (j - l) = j
          BY <4>2, <1>1, <3>2
        <5> QED  BY <5>1, <1>1, <3>2
      <4> QED  BY <4>1, <4>2
    <3>5. EndsAt(w, l + k)
      BY <1>1, <3>3, <3>4 DEF EndsAt
    <3>6. Before(w, "end") = SubSeq(w, 1, (l + k) - 1)
      BY <1>1, <3>5, BeforeAt
    <3>7. PICK p, q, r : p = SubSeq(w, 1, (l + k) - 1) /\ q = SubSeq(b, 1, k - 1) /\ r = a \o q
      OBVIOUS
    <3>8. /\ p \in Seq(Marks) /\ Len(p) = (l + k) - 1 /\ \A i \in 1..((l + k) - 1) : p[i] = w[i]
          /\ q \in Seq(Marks) /\ Len(q) = k - 1 /\ \A i \in 1..(k - 1) : q[i] = b[i]
      BY <1>0, <1>1, <3>2, <3>3, <3>7, Prefix
    <3>9. /\ r \in Seq(Marks) /\ Len(r) = l + (k - 1)
          /\ \A i \in 1..l : r[i] = a[i]
          /\ \A i \in 1..(k - 1) : r[l + i] = q[i]
      BY <1>0, <3>7, <3>8, ConcatProperties
    <3>10. p = r
      <4>1. Len(p) = Len(r)
        BY <1>1, <3>2, <3>8, <3>9
      <4>2. ASSUME NEW i \in 1..((l + k) - 1) PROVE p[i] = r[i]
        <5>1. i \in 1..(l + m)
          BY <1>1, <3>2
        <5>2. CASE i \in 1..l
          BY <5>1, <5>2, <1>1, <3>8, <3>9
        <5>3. CASE i \notin 1..l
          <6>1. PICK j : j = i - l
            OBVIOUS
          <6>2. j \in 1..(k - 1) /\ j \in 1..m /\ l + j = i
            BY <6>1, <5>3, <1>1, <3>2
          <6>3. w[l + j] = b[j] /\ r[l + j] = q[j] /\ q[j] = b[j]
            BY <6>2, <1>1, <3>8, <3>9
          <6> QED  BY <6>2, <6>3, <3>8
        <5> QED  BY <5>2, <5>3
      <4> QED  BY <4>1, <4>2, <3>8, <3>9, SeqEqual
    <3> QED  BY <3>1, <3>6, <3>7, <3>10
  <2> QED  BY <2>2, <2>3
<1> QED  BY <1>0, <1>2, <1>3, <1>4

(* A directory and its clusters.                                           *)
NearCluster(s) == SubSeq(s, 1, Slots)
FarCluster(s) == SubSeq(s, Slots + 1, 2 * Slots)
Directory(s, n) == n \in {1, 2} /\ s \in [1..(Slots * n) -> Marks]
Shows(s) == Named(Before(s, "end"))
LEMMA DirectoryIs ==
  ASSUME NEW s, NEW n, Directory(s, n)
  PROVE  /\ s \in Seq(Marks) /\ NearCluster(s) \in Seq(Marks)
         /\ n = 1 => NearCluster(s) = s
         /\ n = 2 => FarCluster(s) \in Seq(Marks) /\ s = NearCluster(s) \o FarCluster(s)
<1>1. Slots \in Nat /\ Slots >= 1 /\ n \in {1, 2}
  BY Fat32Assumption DEF Directory
<1>2. PICK L : L = Slots * n
  OBVIOUS
<1>3. (n = 1 => L = Slots) /\ (n = 2 => L = 2 * Slots) /\ L \in Nat /\ Slots <= L
  BY <1>1, <1>2
<1>4. s \in [1..L -> Marks]
  BY <1>2 DEF Directory
<1>5. s \in Seq(Marks) /\ Len(s) = L
  BY <1>3, <1>4
<1>6. \A i \in 1..Slots : s[i] \in Marks
  BY <1>1, <1>3, <1>4
<1>7. NearCluster(s) \in Seq(Marks)
  BY <1>1, <1>6, SubSeqProperties DEF NearCluster
<1>8. ASSUME n = 1 PROVE NearCluster(s) = s
  BY <1>3, <1>5, <1>8, SubSeqFull DEF NearCluster
<1>9. ASSUME n = 2 PROVE FarCluster(s) \in Seq(Marks) /\ s = NearCluster(s) \o FarCluster(s)
  <2>1. L = 2 * Slots /\ Slots + 1 \in Int /\ 2 * Slots \in Int
    BY <1>1, <1>3, <1>9
  <2>2. \A i \in (Slots + 1)..(2 * Slots) : s[i] \in Marks
    BY <2>1, <1>1, <1>4
  <2>3. FarCluster(s) \in Seq(Marks)
    BY <2>1, <2>2, SubSeqProperties DEF FarCluster
  <2>4. 1 \in 1..(Len(s) + 1) /\ Slots \in (1 - 1)..Len(s) /\ 2 * Slots \in Slots..Len(s)
    BY <2>1, <1>1, <1>5
  <2>5. SubSeq(s, 1, Slots) \o SubSeq(s, Slots + 1, 2 * Slots) = SubSeq(s, 1, 2 * Slots)
    BY <2>4, <1>5, ConcatAdjacentSubSeq
  <2>6. SubSeq(s, 1, 2 * Slots) = s
    BY <2>1, <1>5, SubSeqFull
  <2> QED  BY <2>3, <2>5, <2>6 DEF NearCluster, FarCluster
<1> QED  BY <1>5, <1>7, <1>8, <1>9

LEMMA BeforeTyped == ASSUME NEW s \in Seq(Marks) PROVE Before(s, "end") \in Seq(Marks)
<1>1. "d" \notin {"end", "none", "skip"}
  OBVIOUS
<1> QED  BY <1>1, FoundBefore
LEMMA NamedTyped == ASSUME NEW s \in Seq(Marks) PROVE Named(s) \in Seq(Marks)
<1>1. "d" \notin {"skip", "end"}
  OBVIOUS
<1> QED  BY <1>1, NamedHas

(* The search for a name, cluster by cluster.                              *)
Stop(s, name) == StopAt(s, {name, "end"})
LEMMA NameFound ==
  ASSUME NEW s, NEW n, Directory(s, n), NEW name, name \notin {"end", "none", "skip"}
  PROVE  /\ Stop(NearCluster(s), name) \in {"none", "end", name}
         /\ Stop(NearCluster(s), name) = name => Has(Shows(s), name)
         /\ Stop(NearCluster(s), name) = "end" => ~Has(Shows(s), name)
         /\ Stop(NearCluster(s), name) = "none" /\ n = 1 => ~Has(Shows(s), name)
         /\ Stop(NearCluster(s), name) = "none" /\ n = 2 =>
              /\ Stop(FarCluster(s), name) \in {"none", "end", name}
              /\ Stop(FarCluster(s), name) = name => Has(Shows(s), name)
              /\ Stop(FarCluster(s), name) # name => ~Has(Shows(s), name)
<1>1. PICK a, b : a = NearCluster(s) /\ b = FarCluster(s)
  OBVIOUS
<1>2. s \in Seq(Marks) /\ a \in Seq(Marks) /\ (n = 1 => a = s) /\ (n = 2 => b \in Seq(Marks) /\ s = a \o b)
  BY <1>1, DirectoryIs
<1>3. n \in {1, 2}
  BY DEF Directory
<1>4. Before(s, "end") \in Seq(Marks)
  BY <1>2, BeforeTyped
<1>5. Has(Shows(s), name) <=> Has(Before(s, "end"), name)
  BY <1>4, NamedHas DEF Shows
<1>6. /\ Stop(a, name) \in {"none", "end", name}
      /\ Stop(a, name) = "none" => ~Has(a, "end") /\ ~Has(a, name) /\ Before(a, "end") = a
      /\ Stop(a, name) = "end" => Has(a, "end") /\ ~Has(Before(a, "end"), name)
      /\ Stop(a, name) = name => Has(Before(a, "end"), name)
  BY <1>2, FoundBefore DEF Stop
<1>7. CASE n = 1
  BY <1>1, <1>2, <1>5, <1>6, <1>7
<1>8. CASE n = 2
  <2>1. /\ Stop(b, name) \in {"none", "end", name}
        /\ Stop(b, name) = "none" => ~Has(b, name) /\ Before(b, "end") = b
        /\ Stop(b, name) = "end" => ~Has(Before(b, "end"), name)
        /\ Stop(b, name) = name => Has(Before(b, "end"), name)
    BY <1>2, <1>8, FoundBefore DEF Stop
  <2>2. Before(b, "end") \in Seq(Marks)
    BY <1>2, <1>8, BeforeTyped
  <2>0. s = a \o b /\ b \in Seq(Marks)
    BY <1>2, <1>8
  <2>j. /\ ~Has(a, "end") => Before(a \o b, "end") = a \o Before(b, "end")
        /\ Has(a, "end") => Before(a \o b, "end") = Before(a, "end")
    BY <2>0, <1>2, Joined
  <2>3. ~Has(a, "end") => Before(s, "end") = a \o Before(b, "end")
    BY <2>0, <2>j
  <2>4. Has(a, "end") => Before(s, "end") = Before(a, "end")
    BY <2>0, <2>j
  <2>5. Has(a \o Before(b, "end"), name) <=> Has(a, name) \/ Has(Before(b, "end"), name)
    BY <1>2, <2>2, Joined
  <2>6. CASE Stop(a, name) = "none"
    <3>1. ~Has(a, "end") /\ ~Has(a, name)
      BY <2>6, <1>6
    <3>2. Has(Shows(s), name) <=> Has(Before(b, "end"), name)
      BY <3>1, <2>3, <2>5, <1>5
    <3>3. Stop(b, name) # name => ~Has(Shows(s), name)
      BY <3>2, <2>1
    <3>4. Stop(b, name) = name => Has(Shows(s), name)
      BY <3>2, <2>1
    <3>5. name # "none" /\ name # "end"
      OBVIOUS
    <3> QED  BY <3>3, <3>4, <3>5, <2>1, <2>6, <1>1, <1>8
  <2>7. CASE Stop(a, name) = "end"
    BY <2>4, <2>7, <1>1, <1>5, <1>6
  <2>8. CASE Stop(a, name) = name
    <3>1. CASE Has(a, "end")
      BY <3>1, <2>4, <2>8, <1>1, <1>5, <1>6
    <3>2. CASE ~Has(a, "end")
      <4>1. Before(a, "end") = a
        BY <3>2, <1>2, BeforeIs
      <4> QED  BY <4>1, <3>2, <2>3, <2>5, <2>8, <1>1, <1>5, <1>6
    <3> QED  BY <3>1, <3>2
  <2> QED  BY <2>6, <2>7, <2>8, <1>1, <1>6
<1> QED  BY <1>3, <1>7, <1>8

(* The listing, cluster by cluster.                                        *)
LEMMA ListingIs ==
  ASSUME NEW s, NEW n, Directory(s, n)
  PROVE  /\ Shows(s) \in Seq(Marks) /\ Shows(NearCluster(s)) \in Seq(Marks)
         /\ Has(NearCluster(s), "end") => Shows(s) = Shows(NearCluster(s)) /\ Has(s, "end")
         /\ ~Has(NearCluster(s), "end") => Shows(NearCluster(s)) = Named(NearCluster(s))
         /\ n = 1 /\ ~Has(NearCluster(s), "end") => ~Has(s, "end")
         /\ n = 2 /\ ~Has(NearCluster(s), "end") =>
              /\ Shows(FarCluster(s)) \in Seq(Marks)
              /\ Shows(s) = Named(NearCluster(s)) \o Shows(FarCluster(s))
              /\ Has(s, "end") <=> Has(FarCluster(s), "end")
<1>1. PICK a, b : a = NearCluster(s) /\ b = FarCluster(s)
  OBVIOUS
<1>2. s \in Seq(Marks) /\ a \in Seq(Marks) /\ (n = 1 => a = s) /\ (n = 2 => b \in Seq(Marks) /\ s = a \o b)
  BY <1>1, DirectoryIs
<1>3. n \in {1, 2}
  BY DEF Directory
<1>4. Before(s, "end") \in Seq(Marks) /\ Before(a, "end") \in Seq(Marks)
  BY <1>2, BeforeTyped
<1>5. Shows(s) \in Seq(Marks) /\ Shows(a) \in Seq(Marks)
  BY <1>4, NamedTyped DEF Shows
<1>6. ~Has(a, "end") => Shows(a) = Named(a)
  BY <1>2, BeforeIs DEF Shows
<1>7. CASE n = 1
  BY <1>1, <1>2, <1>5, <1>6, <1>7
<1>8. CASE n = 2
  <2>1. Before(b, "end") \in Seq(Marks)
    BY <1>2, <1>8, BeforeTyped
  <2>2. Shows(b) \in Seq(Marks)
    BY <2>1, NamedTyped DEF Shows
  <2>3. /\ Has(a, "end") => Before(s, "end") = Before(a, "end")
        /\ ~Has(a, "end") => Before(s, "end") = a \o Before(b, "end")
        /\ Has(s, "end") <=> Has(a, "end") \/ Has(b, "end")
    <3>1. s = a \o b /\ b \in Seq(Marks)
      BY <1>2, <1>8
    <3>2. /\ Has(a, "end") => Before(a \o b, "end") = Before(a, "end")
          /\ ~Has(a, "end") => Before(a \o b, "end") = a \o Before(b, "end")
          /\ Has(a \o b, "end") <=> Has(a, "end") \/ Has(b, "end")
      BY <3>1, <1>2, Joined
    <3> QED  BY <3>1, <3>2
  <2>4. Named(a \o Before(b, "end")) = Named(a) \o Named(Before(b, "end"))
    BY <1>2, <2>1, NamedJoin
  <2>5. ~Has(a, "end") => Shows(s) = Named(a) \o Shows(b)
    BY <2>3, <2>4 DEF Shows
  <2>6. Has(a, "end") => Shows(s) = Shows(a) /\ Has(s, "end")
    BY <2>3 DEF Shows
  <2> QED  BY <2>2, <2>3, <2>5, <2>6, <1>1, <1>5, <1>6, <1>8
<1> QED  BY <1>3, <1>7, <1>8

(***************************************************************************)
(* The walk: where resolve_absolute, read_dir and read_file are in the     *)
(* chain of a directory or a file, and what they have seen of it.          *)
(***************************************************************************)
Operations == [kind : {"read", "list", "chdir"}, path : Paths, buffer : Nat]
SearchedTo(chain, s, n, name) ==
  \/ cluster = chain[1]
  \/ cluster = chain[2] /\ n = 2 /\ Stop(NearCluster(s), name) = "none"
ListedTo(chain, s, n) ==
  \/ cluster = chain[1] /\ out = <<>>
  \/ /\ cluster = chain[2] /\ n = 2 /\ ~Has(NearCluster(s), "end")
     /\ out = Named(NearCluster(s))

FindInv ==
  pc = "resolve" /\ op.path # <<>> =>
    \/ index = 1 /\ SearchedTo(Root, disk.root, disk.rootLength, op.path[1])
    \/ /\ index = 2 /\ Len(op.path) = 2 /\ op.path[1] = "d" /\ Has(Shows(disk.root), "d")
       /\ SearchedTo(Sub, disk.sub, disk.subLength, op.path[2])
ListInv ==
  pc = "list" => /\ op.kind = "list"
                 /\ \/ op.path = <<>> /\ ListedTo(Root, disk.root, disk.rootLength)
                    \/ /\ op.path = <<"d">> /\ Has(Shows(disk.root), "d")
                       /\ ListedTo(Sub, disk.sub, disk.subLength)
ReadInv ==
  pc = "read" =>
    /\ op.kind = "read" /\ op.path = <<"d", "f">> /\ disk.file.size <= op.buffer
    /\ Has(Shows(disk.root), "d") /\ Has(Shows(disk.sub), "f")
    /\ \/ cluster = Data[1] /\ out = <<>> /\ disk.file.length # 0 /\ disk.file.size # 0
       \/ cluster = Data[2] /\ out = <<Data[1]>> /\ disk.file.length = 2 /\ disk.file.size = 2
FileInv ==
  /\ pc \in {"rest", "idle", "resolve", "list", "read", "done"}
  /\ pc # "rest" => disk \in Disks
  /\ pc \in {"resolve", "list", "read", "done"} => op \in Operations
  /\ FindInv /\ ListInv /\ ReadInv /\ AnswerRight

(* The disk.                                                               *)
LEMMA DiskIs ==
  ASSUME disk \in Disks
  PROVE  /\ Directory(disk.root, disk.rootLength) /\ Directory(disk.sub, disk.subLength)
         /\ disk.file \in Files
<1>1. PICK n \in Lengths : disk \in [root : SlotSeqs({"d", "f"}, n[1]), sub : SlotSeqs({"f"}, n[2]),
                                     rootLength : {n[1]}, subLength : {n[2]}, file : Files]
  BY DEF Disks
<1>2. n[1] \in {1, 2} /\ n[2] \in {1, 2}
  BY DEF Lengths
<1>3. PICK p, q : p = n[1] /\ q = n[2]
  OBVIOUS
<1>4. /\ disk.root \in SlotSeqs({"d", "f"}, p) /\ disk.sub \in SlotSeqs({"f"}, q)
      /\ disk.rootLength = p /\ disk.subLength = q /\ disk.file \in Files
  BY <1>1, <1>3
<1>5. disk.root \in [1..(Slots * p) -> {"d", "f"} \cup {"end", "skip"}]
  BY <1>4 DEF SlotSeqs
<1>6. disk.sub \in [1..(Slots * q) -> {"f"} \cup {"end", "skip"}]
  BY <1>4 DEF SlotSeqs
<1>7. {"d", "f"} \cup {"end", "skip"} = Marks /\ {"f"} \cup {"end", "skip"} \subseteq Marks
  BY DEF Marks
<1>8. disk.root \in [1..(Slots * p) -> Marks]
  BY <1>5, <1>7
<1>9. disk.sub \in [1..(Slots * q) -> Marks]
  BY <1>6, <1>7
<1> QED  BY <1>2, <1>3, <1>4, <1>8, <1>9 DEF Directory

LEMMA FileIs ==
  ASSUME NEW file \in Files
  PROVE  /\ file.length \in 0..2 /\ file.size \in 0..2
         /\ file.size # 0 <=> file.length # 0
         /\ file.size <= file.length => file.size = file.length /\ file.last = EndOfChain
         /\ ~(file.size <= file.length) =>
              file.size = 2 /\ file.length = 1 /\ file.last \in {EndOfChain, BadCluster}
<1>1. CASE \E n \in 0..2 : file = [length |-> n, size |-> n, last |-> EndOfChain]
  BY <1>1
<1>2. CASE \E e \in {EndOfChain, BadCluster} : file = [length |-> 1, size |-> 2, last |-> e]
  BY <1>2
<1> QED  BY <1>1, <1>2 DEF Files

LEMMA SlotsAre ==
  /\ SlotsOf(2) = NearCluster(disk.root) /\ SlotsOf(5) = FarCluster(disk.root)
  /\ SlotsOf(3) = NearCluster(disk.sub) /\ SlotsOf(6) = FarCluster(disk.sub)
<1>1. Root[1] = 2 /\ Root[2] = 5 /\ Sub[1] = 3 /\ Sub[2] = 6
  BY DEF Root, Sub
<1>2. ASSUME NEW c \in {2, 3, 5, 6}
      PROVE  SlotsOf(c) = CASE c = 2 -> NearCluster(disk.root) [] c = 5 -> FarCluster(disk.root)
                            [] c = 3 -> NearCluster(disk.sub) [] OTHER -> FarCluster(disk.sub)
  BY <1>1 DEF SlotsOf, NearCluster, FarCluster
<1> QED  BY <1>2

LEMMA LinksAre ==
  ASSUME NEW chain \in {Root, Sub, Data}, NEW last
  PROVE  /\ Links(chain, 1, last)[chain[1]] = last
         /\ Links(chain, 2, last)[chain[1]] = chain[2]
         /\ Links(chain, 2, last)[chain[2]] = last
<1>1. chain[1] # chain[2] /\ 1 \in 1..1 /\ 1 \in 1..2 /\ 2 \in 1..2
  BY DEF Root, Sub, Data
<1>2. chain[1] \in {chain[j] : j \in 1..1} /\ chain[1] \in {chain[j] : j \in 1..2} /\ chain[2] \in {chain[j] : j \in 1..2}
  BY <1>1
<1> QED  BY <1>1, <1>2 DEF Links

LEMMA FatIs ==
  ASSUME disk \in Disks
  PROVE  /\ disk.rootLength = 1 => FatEntry(2) = 8
         /\ disk.rootLength = 2 => FatEntry(2) = 5 /\ FatEntry(5) = 8
         /\ disk.subLength = 1 => FatEntry(3) = 8
         /\ disk.subLength = 2 => FatEntry(3) = 6 /\ FatEntry(6) = 8
         /\ disk.file.length = 1 => FatEntry(4) = disk.file.last
         /\ disk.file.length = 2 => FatEntry(4) = 7 /\ FatEntry(7) = disk.file.last
<1>1. /\ Root[1] = 2 /\ Root[2] = 5 /\ Sub[1] = 3 /\ Sub[2] = 6 /\ Data[1] = 4 /\ Data[2] = 7 /\ EndOfChain = 8
  BY DEF Root, Sub, Data, EndOfChain
<1>2. /\ FatEntry(2) = Links(Root, disk.rootLength, 8)[2] /\ FatEntry(5) = Links(Root, disk.rootLength, 8)[5]
      /\ FatEntry(3) = Links(Sub, disk.subLength, 8)[3] /\ FatEntry(6) = Links(Sub, disk.subLength, 8)[6]
      /\ FatEntry(4) = Links(Data, disk.file.length, disk.file.last)[4]
      /\ FatEntry(7) = Links(Data, disk.file.length, disk.file.last)[7]
  BY <1>1 DEF FatEntry
<1>3. /\ Links(Root, 1, 8)[2] = 8 /\ Links(Root, 2, 8)[2] = 5 /\ Links(Root, 2, 8)[5] = 8
      /\ Links(Sub, 1, 8)[3] = 8 /\ Links(Sub, 2, 8)[3] = 6 /\ Links(Sub, 2, 8)[6] = 8
      /\ Links(Data, 1, disk.file.last)[4] = disk.file.last /\ Links(Data, 2, disk.file.last)[4] = 7
      /\ Links(Data, 2, disk.file.last)[7] = disk.file.last
  BY <1>1, LinksAre
<1> QED  BY <1>2, <1>3

(* The paths asked for.                                                    *)
LEMMA PathsAre ==
  ASSUME NEW p \in Paths
  PROVE  /\ \/ p = <<>> \/ p = <<"d">> \/ p = <<"f">> \/ p = <<"d", "f">> \/ p = <<"f", "f">>
            \/ p = <<"d", "g">> \/ p = <<"too.many.dots">>
         /\ Has(p, "too.many.dots") <=> p = <<"too.many.dots">>
<1>1. \/ p = <<>> \/ p = <<"d">> \/ p = <<"f">> \/ p = <<"d", "f">> \/ p = <<"f", "f">>
      \/ p = <<"d", "g">> \/ p = <<"too.many.dots">>
  BY DEF Paths
<1>2. /\ ~Has(<<>>, "too.many.dots") /\ ~Has(<<"d">>, "too.many.dots") /\ ~Has(<<"f">>, "too.many.dots")
      /\ ~Has(<<"d", "f">>, "too.many.dots") /\ ~Has(<<"f", "f">>, "too.many.dots")
      /\ ~Has(<<"d", "g">>, "too.many.dots") /\ Has(<<"too.many.dots">>, "too.many.dots")
  BY DEF Has
<1>3. \A x \in {<<>>, <<"d">>, <<"f">>, <<"d", "f">>, <<"f", "f">>, <<"d", "g">>} : x # <<"too.many.dots">>
  BY <1>2
<1> QED  BY <1>1, <1>2, <1>3

LEMMA KindIs ==
  /\ Kind(<<>>) = "dir"
  /\ Kind(<<"d">>) = IF Has(Shows(disk.root), "d") THEN "dir" ELSE "none"
  /\ Kind(<<"f">>) = IF Has(Shows(disk.root), "f") THEN "file" ELSE "none"
  /\ Kind(<<"d", "f">>) = IF Has(Shows(disk.root), "d") /\ Has(Shows(disk.sub), "f") THEN "file" ELSE "none"
  /\ Kind(<<"f", "f">>) = "none" /\ Kind(<<"d", "g">>) = "none" /\ Kind(<<"too.many.dots">>) = "none"
<1>1. /\ <<>> # <<"d">> /\ <<>> # <<"f">> /\ <<>> # <<"d", "f">> /\ <<>> # <<"f", "f">> /\ <<>> # <<"d", "g">>
      /\ <<"d">> # <<"f">> /\ <<"d">> # <<"d", "f">> /\ <<"d">> # <<"f", "f">> /\ <<"d">> # <<"d", "g">>
      /\ <<"f">> # <<"d", "f">> /\ <<"f">> # <<"f", "f">> /\ <<"f">> # <<"d", "g">>
      /\ <<"d", "f">> # <<"f", "f">> /\ <<"d", "f">> # <<"d", "g">>
      /\ <<"too.many.dots">> # <<>> /\ <<"too.many.dots">> # <<"d">> /\ <<"too.many.dots">> # <<"f">>
      /\ <<"too.many.dots">> # <<"d", "f">>
  OBVIOUS
<1>2. InRoot = Shows(disk.root) /\ InSub = Shows(disk.sub)
  BY DEF InRoot, InSub, Shows
<1>3. Kind(<<>>) = "dir"
  BY DEF Kind
<1>4. Kind(<<"d">>) = IF Has(Shows(disk.root), "d") THEN "dir" ELSE "none"
  BY <1>1, <1>2 DEF Kind
<1>5. Kind(<<"f">>) = IF Has(Shows(disk.root), "f") THEN "file" ELSE "none"
  BY <1>1, <1>2 DEF Kind
<1>6. Kind(<<"d", "f">>) = IF Has(Shows(disk.root), "d") /\ Has(Shows(disk.sub), "f") THEN "file" ELSE "none"
  BY <1>1, <1>2 DEF Kind
<1>7. Kind(<<"f", "f">>) = "none"
  BY <1>1, <1>2 DEF Kind
<1>8. Kind(<<"d", "g">>) = "none"
  BY <1>1, <1>2 DEF Kind
<1>9. Kind(<<"too.many.dots">>) = "none"
  BY <1>1, <1>2 DEF Kind
<1> QED  BY <1>3, <1>4, <1>5, <1>6, <1>7, <1>8, <1>9

(* The right answer.                                                       *)
Right(answer) ==
  \/ op.kind = "list" /\ Kind(op.path) = "dir" /\ Full(op.path) /\ ~answer.ok
  \/ op.kind = "read" /\ Kind(op.path) = "file" /\ ~Whole(op.path) /\ ~answer.ok
  \/ answer = Answer(op)
Fitting(value) == IF Len(value) > op.buffer THEN Err("BufferTooSmall") ELSE Ok(value)

LEMMA AnswerIs ==
  ASSUME op \in Operations
  PROVE  /\ op.path = <<"too.many.dots">> => Answer(op) = Err("InvalidShortName")
         /\ op.path # <<"too.many.dots">> /\ Kind(op.path) = "none" => Answer(op) = Err("FileNotFound")
         /\ Kind(op.path) = "dir" /\ op.kind = "chdir" => Answer(op) = Ok(<<>>)
         /\ Kind(op.path) = "dir" /\ op.kind = "read" => Answer(op) = Err("NotAFile")
         /\ Kind(op.path) = "dir" /\ op.kind = "list" => Answer(op) = Fitting(Listing(op.path))
         /\ Kind(op.path) = "file" /\ op.kind = "read" => Answer(op) = Fitting(Content(op.path))
         /\ Kind(op.path) = "file" /\ op.kind # "read" => Answer(op) = Err("NotADirectory")
<1>1. op.path \in Paths /\ op.kind \in {"read", "list", "chdir"}
  BY DEF Operations
<1>2. Has(op.path, "too.many.dots") <=> op.path = <<"too.many.dots">>
  BY <1>1, PathsAre
<1>3. op.path = <<"too.many.dots">> => Kind(op.path) = "none"
  BY KindIs
<1> QED  BY <1>2, <1>3 DEF Answer, Fitting

(* The end of an operation.                                                *)
LEMMA FinishKeeps ==
  ASSUME FileInv, pc \in {"resolve", "list", "read"}, NEW answer, Finish(answer),
         answer = Err("Device") \/ Right(answer)
  PROVE  FileInv'
<1>1. /\ disk' = disk /\ op' = op /\ pc' = "done" /\ result' = answer
      /\ disk \in Disks /\ op \in Operations
  BY DEF Finish, FileInv
<1>2. disk' \in Disks' /\ op' \in Operations'
  BY <1>1 DEF Disks, Operations, SlotSeqs, Lengths, Files, EndOfChain, BadCluster, Paths
<1>3. InRoot' = InRoot /\ InSub' = InSub
  BY <1>1 DEF InRoot, InSub
<1>4. Kind(op.path)' = Kind(op.path) /\ Full(op.path)' = Full(op.path) /\ Whole(op.path)' = Whole(op.path)
  BY <1>1, <1>3 DEF Kind, Full, Whole
<1>5. Answer(op)' = Answer(op)
  BY <1>1, <1>3, <1>4 DEF Answer, Listing, Content
<1>6. AnswerRight'
  BY <1>1, <1>4, <1>5 DEF AnswerRight, Answered, Right
<1>7. FindInv' /\ ListInv' /\ ReadInv'
  BY <1>1 DEF FindInv, ListInv, ReadInv
<1> QED  BY <1>1, <1>2, <1>6, <1>7 DEF FileInv

(* The middle of one.                                                      *)
LEMMA WalkKeeps ==
  ASSUME FileInv, pc \in {"resolve", "list", "read"}, disk' = disk, op' = op,
         pc' \in {"resolve", "list", "read"}, FindInv', ListInv', ReadInv'
  PROVE  FileInv'
<1>1. disk \in Disks /\ op \in Operations
  BY DEF FileInv
<1>2. disk' \in Disks' /\ op' \in Operations'
  BY <1>1 DEF Disks, Operations, SlotSeqs, Lengths, Files, EndOfChain, BadCluster, Paths
<1>3. AnswerRight'
  BY DEF AnswerRight, Answered
<1> QED  BY <1>2, <1>3 DEF FileInv

(* The entry a path leads to.                                              *)
Reaches(entry) ==
  \/ op.path = <<>> /\ entry = RootEntry
  \/ /\ op.path = <<"d">> /\ Has(Shows(disk.root), "d")
     /\ entry = [first |-> Sub[1], size |-> 0, directory |-> TRUE]
  \/ /\ op.path = <<"f">> /\ Has(Shows(disk.root), "f")
     /\ entry = [first |-> 0, size |-> 0, directory |-> FALSE]
  \/ /\ op.path = <<"d", "f">> /\ Has(Shows(disk.root), "d") /\ Has(Shows(disk.sub), "f")
     /\ entry = [first |-> IF disk.file.length = 0 THEN 0 ELSE Data[1],
                 size |-> disk.file.size, directory |-> FALSE]

LEMMA ContentIs ==
  ASSUME disk.file \in Files
  PROVE  /\ Content(<<"f">>) = <<>>
         /\ disk.file.size = 0 => Content(<<"d", "f">>) = <<>>
         /\ disk.file.size = 1 => Content(<<"d", "f">>) = <<4>>
         /\ disk.file.size = 2 => Content(<<"d", "f">>) = <<4, 7>>
         /\ Len(Content(<<"d", "f">>)) = disk.file.size
<1>1. disk.file.size \in 0..2
  BY FileIs
<1>2. <<"d", "f">> # <<"f">> /\ Data = <<4, 7>>
  BY DEF Data
<1>3. Content(<<"d", "f">>) = SubSeq(<<4, 7>>, 1, disk.file.size) /\ Content(<<"f">>) = <<>>
  BY <1>2 DEF Content
<1>4. SubSeq(<<4, 7>>, 1, 0) = <<>> /\ SubSeq(<<4, 7>>, 1, 1) = <<4>> /\ SubSeq(<<4, 7>>, 1, 2) = <<4, 7>>
  <2>1. SubSeq(<<4, 7>>, 1, 0) = <<>>
    BY SubSeqEmpty
  <2>2. SubSeq(<<4, 7>>, 1, 2) = <<4, 7>>
    <3>1. <<4, 7>> \in Seq(Nat) /\ Len(<<4, 7>>) = 2
      OBVIOUS
    <3> QED  BY <3>1, SubSeqFull
  <2>3. SubSeq(<<4, 7>>, 1, 1) = <<4>>
    <3>1. PICK d, q : d = <<4, 7>> /\ q = SubSeq(<<4, 7>>, 1, 1)
      OBVIOUS
    <3>2. d[1] = 4 /\ \A i \in 1..1 : i = 1 /\ d[i] \in Nat
      BY <3>1
    <3>3. q \in Seq(Nat) /\ Len(q) = 1 /\ q[1] = 4
      <4>1. SubSeq(d, 1, 1) \in Seq(Nat) /\ Len(SubSeq(d, 1, 1)) = 1 /\ SubSeq(d, 1, 1)[1] = d[(1 + 1) - 1]
        BY <3>2, SubSeqProperties
      <4>2. (1 + 1) - 1 = 1 /\ q = SubSeq(d, 1, 1)
        BY <3>1
      <4> QED  BY <4>1, <4>2, <3>2
    <3>4. <<4>> \in Seq(Nat) /\ Len(<<4>>) = 1 /\ <<4>>[1] = 4
      OBVIOUS
    <3>5. Len(q) = Len(<<4>>) /\ \A i \in 1..Len(q) : q[i] = <<4>>[i]
      BY <3>2, <3>3, <3>4
    <3> QED  BY <3>1, <3>3, <3>4, <3>5, SeqEqual
  <2> QED  BY <2>1, <2>2, <2>3
<1>5. Len(<<>>) = 0 /\ Len(<<4>>) = 1 /\ Len(<<4, 7>>) = 2
  OBVIOUS
<1>6. disk.file.size = 0 \/ disk.file.size = 1 \/ disk.file.size = 2
  BY <1>1
<1> QED  BY <1>3, <1>4, <1>5, <1>6

LEMMA ResolvedKeeps ==
  ASSUME FileInv, pc = "resolve", NEW entry, Reaches(entry), Resolved(entry)
  PROVE  FileInv'
<1>1. disk \in Disks /\ op \in Operations /\ disk.file \in Files
  BY DiskIs DEF FileInv
<1>2. op.kind \in {"read", "list", "chdir"} /\ op.buffer \in Nat
  BY <1>1 DEF Operations
<1>3. CASE op.path \in {<<>>, <<"d">>}
  <2>1. <<>> \notin {<<"f">>, <<"d", "f">>} /\ <<"d">> \notin {<<"f">>, <<"d", "f">>} /\ <<>> # <<"d">>
    OBVIOUS
  <2>2. /\ entry.directory = TRUE
        /\ \/ op.path = <<>> /\ entry.first = 2
           \/ op.path = <<"d">> /\ Has(Shows(disk.root), "d") /\ entry.first = 3
    <3>1. /\ RootEntry.directory = TRUE /\ RootEntry.first = 2
          /\ [first |-> Sub[1], size |-> 0, directory |-> TRUE].directory = TRUE
          /\ [first |-> Sub[1], size |-> 0, directory |-> TRUE].first = 3
      BY DEF RootEntry, Root, Sub
    <3>2. op.path # <<"f">> /\ op.path # <<"d", "f">>
      BY <1>3, <2>1
    <3>3. \/ op.path = <<>> /\ entry = RootEntry
          \/ /\ op.path = <<"d">> /\ Has(Shows(disk.root), "d")
             /\ entry = [first |-> Sub[1], size |-> 0, directory |-> TRUE]
      BY <3>2 DEF Reaches
    <3> QED  BY <3>1, <3>3
  <2>3. Kind(op.path) = "dir"
    BY <2>2, KindIs
  <2>4. CASE op.kind = "read"
    <3>1. Finish(Err("NotAFile"))
      BY <2>2, <2>4 DEF Resolved
    <3>2. Right(Err("NotAFile"))
      BY <2>3, <2>4, <1>1, AnswerIs DEF Right
    <3> QED  BY <3>1, <3>2, FinishKeeps
  <2>5. CASE op.kind = "chdir"
    <3>1. Finish(Ok(<<>>))
      BY <2>2, <2>5 DEF Resolved
    <3>2. Right(Ok(<<>>))
      BY <2>3, <2>5, <1>1, AnswerIs DEF Right
    <3> QED  BY <3>1, <3>2, FinishKeeps
  <2>6. CASE op.kind = "list"
    <3>1. StartList(entry.first)
      BY <2>2, <2>6 DEF Resolved
    <3>2. pc' = "list" /\ cluster' = entry.first /\ out' = <<>> /\ disk' = disk /\ op' = op
      BY <3>1 DEF StartList
    <3>3. ListInv'
      BY <2>2, <2>6, <3>2 DEF ListInv, ListedTo, Root, Sub
    <3>4. FindInv' /\ ReadInv'
      BY <3>2 DEF FindInv, ReadInv
    <3> QED  BY <3>2, <3>3, <3>4, WalkKeeps
  <2> QED  BY <1>2, <2>4, <2>5, <2>6
<1>4. CASE op.path \notin {<<>>, <<"d">>}
  <2>1. /\ entry.directory = FALSE
        /\ \/ /\ op.path = <<"f">> /\ Has(Shows(disk.root), "f") /\ entry.size = 0
           \/ /\ op.path = <<"d", "f">> /\ Has(Shows(disk.root), "d") /\ Has(Shows(disk.sub), "f")
              /\ entry.size = disk.file.size /\ (disk.file.length # 0 => entry.first = 4)
    <3>1. \/ /\ op.path = <<"f">> /\ Has(Shows(disk.root), "f")
             /\ entry = [first |-> 0, size |-> 0, directory |-> FALSE]
          \/ /\ op.path = <<"d", "f">> /\ Has(Shows(disk.root), "d") /\ Has(Shows(disk.sub), "f")
             /\ entry = [first |-> IF disk.file.length = 0 THEN 0 ELSE Data[1],
                         size |-> disk.file.size, directory |-> FALSE]
      BY <1>4 DEF Reaches
    <3>2. Data[1] = 4
      BY DEF Data
    <3> QED  BY <3>1, <3>2
  <2>2. Kind(op.path) = "file"
    BY <2>1, KindIs
  <2>3. CASE op.kind # "read"
    <3>1. Finish(Err("NotADirectory"))
      BY <1>2, <2>1, <2>3 DEF Resolved
    <3>2. Right(Err("NotADirectory"))
      BY <2>2, <2>3, <1>1, AnswerIs DEF Right
    <3> QED  BY <3>1, <3>2, FinishKeeps
  <2>4. CASE op.kind = "read"
    <3>1. StartRead(entry)
      BY <2>1, <2>4 DEF Resolved
    <3>2. Answer(op) = Fitting(Content(op.path))
      BY <2>2, <2>4, <1>1, AnswerIs
    <3>3. /\ Len(Content(op.path)) = entry.size /\ entry.size \in 0..2
          /\ entry.size = 0 => Content(op.path) = <<>>
      <4>1. Len(<<>>) = 0 /\ disk.file.size \in 0..2
        BY <1>1, FileIs
      <4> QED  BY <4>1, <2>1, <1>1, ContentIs
    <3>4. CASE op.buffer < entry.size
      <4>1. Finish(Err("BufferTooSmall"))
        BY <3>1, <3>4 DEF StartRead
      <4>2. Right(Err("BufferTooSmall"))
        BY <3>2, <3>3, <3>4, <1>2 DEF Right, Fitting
      <4> QED  BY <4>1, <4>2, FinishKeeps
    <3>5. CASE ~(op.buffer < entry.size) /\ entry.size = 0
      <4>1. Finish(Ok(<<>>))
        BY <3>1, <3>5 DEF StartRead
      <4>2. Right(Ok(<<>>))
        BY <3>2, <3>3, <3>5, <1>2 DEF Right, Fitting
      <4> QED  BY <4>1, <4>2, FinishKeeps
    <3>6. CASE ~(op.buffer < entry.size) /\ entry.size # 0
      <4>1. /\ pc' = "read" /\ cluster' = entry.first /\ out' = <<>>
            /\ disk' = disk /\ op' = op
        BY <3>1, <3>6 DEF StartRead
      <4>2. /\ op.path = <<"d", "f">> /\ Has(Shows(disk.root), "d") /\ Has(Shows(disk.sub), "f")
            /\ entry.size = disk.file.size /\ disk.file.size # 0 /\ disk.file.length # 0 /\ entry.first = 4
            /\ disk.file.size <= op.buffer
        BY <2>1, <3>3, <3>6, <1>1, <1>2, FileIs
      <4>3. ReadInv'
        BY <4>1, <4>2, <2>4 DEF ReadInv, Data
      <4>4. FindInv' /\ ListInv'
        BY <4>1 DEF FindInv, ListInv
      <4> QED  BY <4>1, <4>3, <4>4, WalkKeeps
    <3> QED  BY <3>4, <3>5, <3>6
  <2> QED  BY <2>3, <2>4
<1> QED  BY <1>3, <1>4

(* A path that leads nowhere.                                              *)
LEMMA NotThere ==
  ASSUME FileInv, pc = "resolve", op.path # <<"too.many.dots">>, Kind(op.path) = "none", Finish(Err("FileNotFound"))
  PROVE  FileInv'
<1>1. op \in Operations
  BY DEF FileInv
<1>2. Right(Err("FileNotFound"))
  BY <1>1, AnswerIs DEF Right
<1> QED  BY <1>2, FinishKeeps

(* One cluster of a search, and one of a listing.                          *)
Walks(chain, s, n) ==
  \/ chain = Root /\ s = disk.root /\ n = disk.rootLength
  \/ chain = Sub /\ s = disk.sub /\ n = disk.subLength
LEMMA WalkIs ==
  ASSUME disk \in Disks, NEW chain, NEW s, NEW n, Walks(chain, s, n)
  PROVE  /\ Directory(s, n) /\ n \in {1, 2}
         /\ SlotsOf(chain[1]) = NearCluster(s) /\ SlotsOf(chain[2]) = FarCluster(s)
         /\ n = 1 => FatEntry(chain[1]) = 8
         /\ n = 2 => FatEntry(chain[1]) = chain[2] /\ FatEntry(chain[2]) = 8
         /\ chain[2] \in {5, 6}
<1>1. Root[1] = 2 /\ Root[2] = 5 /\ Sub[1] = 3 /\ Sub[2] = 6
  BY DEF Root, Sub
<1>2. Directory(disk.root, disk.rootLength) /\ Directory(disk.sub, disk.subLength)
  BY DiskIs
<1>3. disk.rootLength \in {1, 2} /\ disk.subLength \in {1, 2}
  BY <1>2 DEF Directory
<1>4. CASE chain = Root /\ s = disk.root /\ n = disk.rootLength
  BY <1>1, <1>2, <1>3, <1>4, SlotsAre, FatIs
<1>5. CASE chain = Sub /\ s = disk.sub /\ n = disk.subLength
  BY <1>1, <1>2, <1>3, <1>5, SlotsAre, FatIs
<1> QED  BY <1>4, <1>5 DEF Walks

LEMMA SearchStep ==
  ASSUME disk \in Disks, NEW chain, NEW s, NEW n, Walks(chain, s, n), NEW name \in {"d", "f", "g"},
         SearchedTo(chain, s, n, name), NEW hit, hit = Stop(SlotsOf(cluster), name)
  PROVE  /\ hit \in {"none", "end", name}
         /\ hit = name => Has(Shows(s), name)
         /\ hit = "end" => ~Has(Shows(s), name)
         /\ hit = "none" =>
              \/ FatEntry(cluster) = 8 /\ ~Has(Shows(s), name)
              \/ FatEntry(cluster) = chain[2] /\ n = 2 /\ Stop(NearCluster(s), name) = "none"
<1>1. name \notin {"end", "none", "skip"}
  OBVIOUS
<1>2. /\ Directory(s, n) /\ n \in {1, 2}
      /\ SlotsOf(chain[1]) = NearCluster(s) /\ SlotsOf(chain[2]) = FarCluster(s)
      /\ n = 1 => FatEntry(chain[1]) = 8
      /\ n = 2 => FatEntry(chain[1]) = chain[2] /\ FatEntry(chain[2]) = 8
  BY WalkIs
<1>3. /\ Stop(NearCluster(s), name) \in {"none", "end", name}
      /\ Stop(NearCluster(s), name) = name => Has(Shows(s), name)
      /\ Stop(NearCluster(s), name) = "end" => ~Has(Shows(s), name)
      /\ Stop(NearCluster(s), name) = "none" /\ n = 1 => ~Has(Shows(s), name)
      /\ Stop(NearCluster(s), name) = "none" /\ n = 2 =>
           /\ Stop(FarCluster(s), name) \in {"none", "end", name}
           /\ Stop(FarCluster(s), name) = name => Has(Shows(s), name)
           /\ Stop(FarCluster(s), name) # name => ~Has(Shows(s), name)
  BY <1>1, <1>2, NameFound
<1>4. CASE cluster = chain[1]
  <2>1. hit = Stop(NearCluster(s), name)
    BY <1>2, <1>4
  <2> QED  BY <2>1, <1>2, <1>3, <1>4
<1>5. CASE cluster = chain[2] /\ n = 2 /\ Stop(NearCluster(s), name) = "none"
  <2>1. hit = Stop(FarCluster(s), name)
    BY <1>2, <1>5
  <2> QED  BY <2>1, <1>1, <1>2, <1>3, <1>5
<1> QED  BY <1>4, <1>5 DEF SearchedTo

(* The search in the root directory and in d.                              *)
LEMMA PathParts ==
  ASSUME NEW p \in Paths, p # <<>>, p # <<"too.many.dots">>
  PROVE  \/ p = <<"d">> /\ Len(p) = 1 /\ p[1] = "d"
         \/ p = <<"f">> /\ Len(p) = 1 /\ p[1] = "f"
         \/ p = <<"d", "f">> /\ Len(p) = 2 /\ p[1] = "d" /\ p[2] = "f"
         \/ p = <<"f", "f">> /\ Len(p) = 2 /\ p[1] = "f" /\ p[2] = "f"
         \/ p = <<"d", "g">> /\ Len(p) = 2 /\ p[1] = "d" /\ p[2] = "g"
BY PathsAre

LEMMA FindKeepsRoot ==
  ASSUME FileInv, pc = "resolve", op.path # <<>>, op.path # <<"too.many.dots">>, FindInCluster,
         index = 1, SearchedTo(Root, disk.root, disk.rootLength, op.path[1])
  PROVE  FileInv'
<1>1. disk \in Disks /\ op \in Operations /\ op.path \in Paths
  BY DEF FileInv, Operations
<1>2. PICK name, hit : name = op.path[1] /\ hit = StopAt(SlotsOf(cluster), {name, "end"})
  OBVIOUS
<1>3. name \in {"d", "f"} /\ name \notin {"none", "end"}
  BY <1>1, <1>2, PathParts
<1>4. /\ hit \in {"none", "end", name}
      /\ hit = name => Has(Shows(disk.root), name)
      /\ hit = "end" => ~Has(Shows(disk.root), name)
      /\ hit = "none" =>
           \/ FatEntry(cluster) = 8 /\ ~Has(Shows(disk.root), name)
           \/ FatEntry(cluster) = Root[2] /\ disk.rootLength = 2 /\ Stop(NearCluster(disk.root), name) = "none"
  <2>1. Walks(Root, disk.root, disk.rootLength)
    BY DEF Walks
  <2>2. name \in {"d", "f", "g"} /\ SearchedTo(Root, disk.root, disk.rootLength, name)
    BY <1>2, <1>3
  <2>3. PICK chain, s, n : chain = Root /\ s = disk.root /\ n = disk.rootLength
    OBVIOUS
  <2>4. Walks(chain, s, n) /\ SearchedTo(chain, s, n, name)
    BY <2>1, <2>2, <2>3
  <2>5. hit = Stop(SlotsOf(cluster), name)
    BY <1>2 DEF Stop
  <2>6. /\ hit \in {"none", "end", name}
        /\ hit = name => Has(Shows(s), name)
        /\ hit = "end" => ~Has(Shows(s), name)
        /\ hit = "none" =>
             \/ FatEntry(cluster) = 8 /\ ~Has(Shows(s), name)
             \/ FatEntry(cluster) = chain[2] /\ n = 2 /\ Stop(NearCluster(s), name) = "none"
    BY <1>1, <2>2, <2>4, <2>5, SearchStep
  <2> QED  BY <2>3, <2>6
<1>5. ~Has(Shows(disk.root), name) => Kind(op.path) = "none"
  BY <1>1, <1>2, PathParts, KindIs
<1>6. hit = StopAt(SlotsOf(cluster), {op.path[index], "end"}) /\ op.path[index] = name
  BY <1>2
<1>7. CASE hit = "end"
  <2>1. Finish(Err("FileNotFound"))
    BY <1>3, <1>6, <1>7 DEF FindInCluster
  <2> QED  BY <2>1, <1>4, <1>5, <1>7, NotThere
<1>8. CASE hit = "none"
  <2>1. NextCluster(UNCHANGED <<disk, op, pc, index, out, result>>)
    BY <1>6, <1>8, <1>3 DEF FindInCluster
  <2>2. CASE FatEntry(cluster) = 8 /\ ~Has(Shows(disk.root), name)
    <3>1. Finish(Err("FileNotFound"))
      BY <2>1, <2>2 DEF NextCluster, EndOfChain, BadCluster
    <3> QED  BY <3>1, <2>2, <1>5, NotThere
  <2>3. CASE FatEntry(cluster) = Root[2] /\ disk.rootLength = 2 /\ Stop(NearCluster(disk.root), name) = "none"
    <3>1. FatEntry(cluster) = 5 /\ Root[2] = 5
      BY <2>3 DEF Root
    <3>2. cluster' = 5 /\ UNCHANGED <<disk, op, pc, index, out, result>>
      BY <2>1, <3>1 DEF NextCluster, EndOfChain, BadCluster
    <3>3. FindInv'
      BY <3>1, <3>2, <2>3, <1>2 DEF FindInv, SearchedTo, Root
    <3>4. ListInv' /\ ReadInv'
      BY <3>2 DEF ListInv, ReadInv
    <3> QED  BY <3>2, <3>3, <3>4, WalkKeeps
  <2> QED  BY <1>4, <1>8, <2>2, <2>3
<1>9. CASE hit = name
  <2>0. PICK entry : entry = Entry(cluster, name)
    OBVIOUS
  <2>1. /\ name = "d" => entry = [first |-> Sub[1], size |-> 0, directory |-> TRUE]
        /\ name = "f" => entry = [first |-> 0, size |-> 0, directory |-> FALSE]
    <3>1. cluster \in {Root[1], Root[2]}
      BY DEF SearchedTo
    <3> QED  BY <3>1, <2>0 DEF Entry
  <2>2. CASE Len(op.path) = 1
    <3>1. Resolved(entry)
      BY <1>3, <1>6, <1>9, <2>0, <2>2 DEF FindInCluster
    <3>2. Reaches(entry)
      <4>0. PICK p \in Paths : p = op.path
        BY <1>1
      <4>1. (p = <<"d">> /\ p[1] = "d") \/ (p = <<"f">> /\ p[1] = "f")
        <5>1. p # <<>> /\ p # <<"too.many.dots">> /\ Len(p) = 1
          BY <4>0, <2>2
        <5> QED  BY <5>1, PathParts
      <4> QED  BY <4>0, <4>1, <1>2, <1>4, <1>9, <2>1 DEF Reaches
    <3> QED  BY <3>1, <3>2, ResolvedKeeps
  <2>3. CASE Len(op.path) = 2 /\ name = "f"
    <3>1. entry.directory = FALSE
      BY <2>1, <2>3
    <3>2. Finish(Err("FileNotFound"))
      <4>1. index # Len(op.path) /\ index < Len(op.path)
        BY <2>3
      <4> QED  BY <3>1, <4>1, <1>3, <1>6, <1>9, <2>0 DEF FindInCluster
    <3>3. Kind(op.path) = "none"
      BY <2>3, <1>1, <1>2, PathParts, KindIs
    <3> QED  BY <3>2, <3>3, NotThere
  <2>4. CASE Len(op.path) = 2 /\ name = "d"
    <3>1. entry.directory = TRUE /\ entry.first = Sub[1]
      BY <2>1, <2>4
    <3>2. cluster' = entry.first /\ index' = index + 1 /\ UNCHANGED <<disk, op, pc, out, result>>
      <4>1. index # Len(op.path) /\ index < Len(op.path)
        BY <2>4
      <4> QED  BY <3>1, <4>1, <1>3, <1>6, <1>9, <2>0 DEF FindInCluster
    <3>3. cluster' = Sub[1] /\ index' = 2 /\ disk' = disk /\ op' = op /\ pc' = "resolve"
      BY <3>1, <3>2
    <3>4. Has(Shows(disk.root), "d") /\ op.path[1] = "d"
      BY <1>2, <1>4, <1>9, <2>4
    <3>5. FindInv'
      BY <3>3, <3>4, <2>4 DEF FindInv, SearchedTo, Sub
    <3>6. ListInv' /\ ReadInv'
      BY <3>3 DEF ListInv, ReadInv
    <3> QED  BY <3>3, <3>5, <3>6, WalkKeeps
  <2> QED  BY <1>1, <1>3, <2>2, <2>3, <2>4, PathParts
<1> QED  BY <1>4, <1>7, <1>8, <1>9

LEMMA FindKeepsSub ==
  ASSUME FileInv, pc = "resolve", op.path # <<>>, FindInCluster,
         index = 2, Len(op.path) = 2, op.path[1] = "d", Has(Shows(disk.root), "d"),
         SearchedTo(Sub, disk.sub, disk.subLength, op.path[2])
  PROVE  FileInv'
<1>1. disk \in Disks /\ op \in Operations /\ op.path \in Paths
  BY DEF FileInv, Operations
<1>2. PICK name, hit : name = op.path[2] /\ hit = StopAt(SlotsOf(cluster), {name, "end"})
  OBVIOUS
<1>0. Len(<<"too.many.dots">>) = 1
  OBVIOUS
<1>a. op.path # <<"too.many.dots">>
  BY <1>0
<1>3. /\ name \in {"f", "g"} /\ name \notin {"none", "end"}
      /\ name = "f" => op.path = <<"d", "f">>
      /\ name = "g" => op.path = <<"d", "g">>
  BY <1>1, <1>2, <1>a, PathParts
<1>4. /\ hit \in {"none", "end", name}
      /\ hit = name => Has(Shows(disk.sub), name)
      /\ hit = "end" => ~Has(Shows(disk.sub), name)
      /\ hit = "none" =>
           \/ FatEntry(cluster) = 8 /\ ~Has(Shows(disk.sub), name)
           \/ FatEntry(cluster) = Sub[2] /\ disk.subLength = 2 /\ Stop(NearCluster(disk.sub), name) = "none"
  <2>1. Walks(Sub, disk.sub, disk.subLength)
    BY DEF Walks
  <2>2. name \in {"d", "f", "g"} /\ SearchedTo(Sub, disk.sub, disk.subLength, name)
    BY <1>2, <1>3
  <2>3. PICK chain, s, n : chain = Sub /\ s = disk.sub /\ n = disk.subLength
    OBVIOUS
  <2>4. Walks(chain, s, n) /\ SearchedTo(chain, s, n, name)
    BY <2>1, <2>2, <2>3
  <2>5. hit = Stop(SlotsOf(cluster), name)
    BY <1>2 DEF Stop
  <2>6. /\ hit \in {"none", "end", name}
        /\ hit = name => Has(Shows(s), name)
        /\ hit = "end" => ~Has(Shows(s), name)
        /\ hit = "none" =>
             \/ FatEntry(cluster) = 8 /\ ~Has(Shows(s), name)
             \/ FatEntry(cluster) = chain[2] /\ n = 2 /\ Stop(NearCluster(s), name) = "none"
    BY <1>1, <2>2, <2>4, <2>5, SearchStep
  <2> QED  BY <2>3, <2>6
<1>5. ~Has(Shows(disk.sub), name) => Kind(op.path) = "none"
  BY <1>3, KindIs
<1>6. hit = StopAt(SlotsOf(cluster), {op.path[index], "end"}) /\ op.path[index] = name
  BY <1>2
<1>7. CASE hit = "end"
  <2>1. Finish(Err("FileNotFound"))
    BY <1>3, <1>6, <1>7 DEF FindInCluster
  <2> QED  BY <2>1, <1>a, <1>4, <1>5, <1>7, NotThere
<1>8. CASE hit = "none"
  <2>1. NextCluster(UNCHANGED <<disk, op, pc, index, out, result>>)
    BY <1>6, <1>8, <1>3 DEF FindInCluster
  <2>2. CASE FatEntry(cluster) = 8 /\ ~Has(Shows(disk.sub), name)
    <3>1. Finish(Err("FileNotFound"))
      BY <2>1, <2>2 DEF NextCluster, EndOfChain, BadCluster
    <3> QED  BY <3>1, <2>2, <1>a, <1>5, NotThere
  <2>3. CASE FatEntry(cluster) = Sub[2] /\ disk.subLength = 2 /\ Stop(NearCluster(disk.sub), name) = "none"
    <3>1. FatEntry(cluster) = 6 /\ Sub[2] = 6
      BY <2>3 DEF Sub
    <3>2. cluster' = 6 /\ UNCHANGED <<disk, op, pc, index, out, result>>
      BY <2>1, <3>1 DEF NextCluster, EndOfChain, BadCluster
    <3>3. FindInv'
      BY <3>1, <3>2, <2>3, <1>2 DEF FindInv, SearchedTo, Sub
    <3>4. ListInv' /\ ReadInv'
      BY <3>2 DEF ListInv, ReadInv
    <3> QED  BY <3>2, <3>3, <3>4, WalkKeeps
  <2> QED  BY <1>4, <1>8, <2>2, <2>3
<1>9. CASE hit = name
  <2>1. PICK entry : entry = Entry(cluster, name)
    OBVIOUS
  <2>2. Resolved(entry)
    BY <1>3, <1>6, <1>9, <2>1 DEF FindInCluster
  <2>3. name = "f"
    <3>1. Shows(disk.sub) \in Seq(Marks)
      <4>1. Directory(disk.sub, disk.subLength)
        BY <1>1, DiskIs
      <4> QED  BY <4>1, ListingIs
    <3>2. ~Has(Shows(disk.sub), "g")
      BY <3>1 DEF Has, Marks
    <3> QED  BY <3>2, <1>3, <1>4, <1>9
  <2>4. cluster \in {3, 6}
    BY DEF SearchedTo, Sub
  <2>5. entry = [first |-> IF disk.file.length = 0 THEN 0 ELSE Data[1],
                 size |-> disk.file.size, directory |-> FALSE]
    <3>1. cluster \notin {Root[1], Root[2]}
      BY <2>4 DEF Root
    <3> QED  BY <3>1, <2>1, <2>3 DEF Entry
  <2>6. Reaches(entry)
    BY <2>3, <2>5, <1>3, <1>4, <1>9 DEF Reaches
  <2> QED  BY <2>2, <2>6, ResolvedKeeps
<1> QED  BY <1>4, <1>7, <1>8, <1>9

LEMMA ResolveKeeps == ASSUME FileInv, Resolve PROVE FileInv'
<1>1. pc = "resolve" /\ op \in Operations /\ op.path \in Paths
  BY DEF Resolve, FileInv, Operations
<1>2. CASE op.path = <<>>
  <2>1. Resolved(RootEntry)
    BY <1>2 DEF Resolve
  <2>2. PICK entry : entry = RootEntry
    OBVIOUS
  <2>3. Reaches(entry) /\ Resolved(entry)
    BY <1>2, <2>1, <2>2 DEF Reaches
  <2> QED  BY <1>1, <2>3, ResolvedKeeps
<1>3. CASE op.path # <<>> /\ ~ValidName(op.path[index])
  <2>1. Finish(Err("InvalidShortName"))
    BY <1>3 DEF Resolve
  <2>2. op.path[index] = "too.many.dots"
    BY <1>3 DEF ValidName
  <2>3. index = 1 \/ (index = 2 /\ Len(op.path) = 2)
    BY <1>1, <1>3 DEF FileInv, FindInv
  <2>4. PICK p \in Paths : p = op.path
    BY <1>1
  <2>5. p # <<>> /\ (p[1] = "too.many.dots" \/ (Len(p) = 2 /\ p[2] = "too.many.dots"))
    BY <1>3, <2>2, <2>3, <2>4
  <2>6. p = <<"too.many.dots">>
    BY <2>5, PathParts
  <2>7. Right(Err("InvalidShortName"))
    BY <1>1, <2>4, <2>6, AnswerIs DEF Right
  <2> QED  BY <1>1, <2>1, <2>7, FinishKeeps
<1>4. CASE op.path # <<>> /\ ValidName(op.path[index])
  <2>1. FindInCluster
    BY <1>4 DEF Resolve
  <2>2. CASE index = 1 /\ SearchedTo(Root, disk.root, disk.rootLength, op.path[1])
    <3>1. op.path # <<"too.many.dots">>
      BY <1>4, <2>2 DEF ValidName
    <3> QED  BY <1>1, <1>4, <2>1, <2>2, <3>1, FindKeepsRoot
  <2>3. CASE /\ index = 2 /\ Len(op.path) = 2 /\ op.path[1] = "d" /\ Has(Shows(disk.root), "d")
             /\ SearchedTo(Sub, disk.sub, disk.subLength, op.path[2])
    BY <1>1, <1>4, <2>1, <2>3, FindKeepsSub
  <2> QED  BY <1>1, <1>4, <2>2, <2>3 DEF FileInv, FindInv
<1> QED  BY <1>2, <1>3, <1>4

(* read_dir.                                                               *)
LEMMA ListStep ==
  ASSUME disk \in Disks, NEW chain, NEW s, NEW n, Walks(chain, s, n), ListedTo(chain, s, n),
         NEW listed, listed = out \o Shows(SlotsOf(cluster))
  PROVE  /\ listed \in Seq(Marks) /\ Shows(s) \in Seq(Marks)
         /\ Has(SlotsOf(cluster), "end") => listed = Shows(s)
         /\ Has(s, "end") => Len(listed) <= Len(Shows(s))
         /\ ~Has(SlotsOf(cluster), "end") =>
              \/ FatEntry(cluster) = 8 /\ ~Has(s, "end")
              \/ /\ FatEntry(cluster) = chain[2] /\ n = 2 /\ ~Has(NearCluster(s), "end")
                 /\ listed = Named(NearCluster(s))
<1>1. /\ Directory(s, n) /\ n \in {1, 2}
      /\ SlotsOf(chain[1]) = NearCluster(s) /\ SlotsOf(chain[2]) = FarCluster(s)
      /\ n = 1 => FatEntry(chain[1]) = 8
      /\ n = 2 => FatEntry(chain[1]) = chain[2] /\ FatEntry(chain[2]) = 8
  BY WalkIs
<1>2. PICK a, b : a = NearCluster(s) /\ b = FarCluster(s)
  OBVIOUS
<1>3. /\ Shows(s) \in Seq(Marks) /\ Shows(a) \in Seq(Marks)
      /\ Has(a, "end") => Shows(s) = Shows(a) /\ Has(s, "end")
      /\ ~Has(a, "end") => Shows(a) = Named(a)
      /\ n = 1 /\ ~Has(a, "end") => ~Has(s, "end")
      /\ n = 2 /\ ~Has(a, "end") =>
           /\ Shows(b) \in Seq(Marks)
           /\ Shows(s) = Named(a) \o Shows(b)
           /\ Has(s, "end") <=> Has(b, "end")
  BY <1>1, <1>2, ListingIs
<1>4. CASE cluster = chain[1] /\ out = <<>>
  <2>1. listed = Shows(a) /\ SlotsOf(cluster) = a
    <3>1. SlotsOf(cluster) = a
      BY <1>1, <1>2, <1>4
    <3>2. <<>> \o Shows(a) = Shows(a)
      BY <1>3, ConcatEmptySeq
    <3> QED  BY <3>1, <3>2, <1>4
  <2>2. Has(s, "end") => Len(listed) <= Len(Shows(s))
    <3>1. Len(Shows(a)) \in Nat
      BY <1>3
    <3>2. CASE Has(a, "end")
      BY <3>1, <3>2, <2>1, <1>3
    <3>3. CASE ~Has(a, "end") /\ n = 2
      <4>1. Len(Shows(a) \o Shows(b)) = Len(Shows(a)) + Len(Shows(b)) /\ Len(Shows(b)) \in Nat
        BY <3>3, <1>3, ConcatProperties
      <4> QED  BY <4>1, <3>1, <3>3, <2>1, <1>3
    <3> QED  BY <3>2, <3>3, <1>1, <1>3
  <2> QED  BY <2>1, <2>2, <1>1, <1>2, <1>3, <1>4
<1>5. CASE cluster = chain[2] /\ n = 2 /\ ~Has(NearCluster(s), "end") /\ out = Named(NearCluster(s))
  <2>1. SlotsOf(cluster) = b /\ FatEntry(cluster) = 8 /\ ~Has(a, "end")
    BY <1>1, <1>2, <1>5
  <2>2. listed = Shows(s)
    BY <2>1, <1>2, <1>3, <1>5
  <2>3. Len(Shows(s)) \in Nat
    BY <1>3
  <2>4. Has(s, "end") <=> Has(SlotsOf(cluster), "end")
    BY <2>1, <1>3, <1>5
  <2>5. Len(listed) <= Len(Shows(s))
    BY <2>2, <2>3
  <2> QED  BY <2>1, <2>2, <2>4, <2>5, <1>3
<1> QED  BY <1>4, <1>5 DEF ListedTo

LEMMA EndSeen ==
  ASSUME NEW s \in Seq(Marks) PROVE StopAt(s, {"end"}) = "end" <=> Has(s, "end")
<1>1. DOMAIN s = 1..Len(s)
  OBVIOUS
<1>2. CASE StopAt(s, {"end"}) = "none" /\ \A i \in 1..Len(s) : s[i] \notin {"end"}
  BY <1>1, <1>2 DEF Has
<1>3. CASE \E i \in 1..Len(s) : s[i] \in {"end"} /\ StopAt(s, {"end"}) = s[i]
  BY <1>1, <1>3 DEF Has
<1> QED  BY <1>2, <1>3, StopAtIs

LEMMA ListKeeps ==
  ASSUME FileInv, ListCluster, NEW chain, NEW s, NEW n, Walks(chain, s, n), ListedTo(chain, s, n),
         Kind(op.path) = "dir", Listing(op.path) = Shows(s), Full(op.path) <=> ~Has(s, "end"),
         chain[2] \in {5, 6}, SlotsOf(cluster) \in Seq(Marks)
  PROVE  \/ FileInv'
         \/ /\ pc' = "list" /\ disk' = disk /\ op' = op /\ cluster' = chain[2] /\ n = 2
            /\ ~Has(NearCluster(s), "end") /\ out' = Named(NearCluster(s))
<1>1. /\ pc = "list" /\ disk \in Disks /\ op \in Operations /\ op.kind = "list" /\ op.buffer \in Nat
  BY DEF ListCluster, FileInv, ListInv, Operations
<1>2. PICK listed : listed = out \o Shows(SlotsOf(cluster))
  OBVIOUS
<1>3. /\ listed \in Seq(Marks) /\ Shows(s) \in Seq(Marks)
      /\ Has(SlotsOf(cluster), "end") => listed = Shows(s)
      /\ Has(s, "end") => Len(listed) <= Len(Shows(s))
      /\ ~Has(SlotsOf(cluster), "end") =>
           \/ FatEntry(cluster) = 8 /\ ~Has(s, "end")
           \/ /\ FatEntry(cluster) = chain[2] /\ n = 2 /\ ~Has(NearCluster(s), "end")
              /\ listed = Named(NearCluster(s))
  BY <1>1, <1>2, ListStep
<1>4. Len(listed) \in Nat /\ Len(Shows(s)) \in Nat
  BY <1>3
<1>5. IF Len(listed) > op.buffer THEN Finish(Err("BufferTooSmall"))
      ELSE IF StopAt(SlotsOf(cluster), {"end"}) = "end" THEN Finish(Ok(listed))
      ELSE NextCluster(out' = listed /\ UNCHANGED <<disk, op, pc, index, result>>)
  BY <1>2 DEF ListCluster, Shows
<1>6. StopAt(SlotsOf(cluster), {"end"}) = "end" <=> Has(SlotsOf(cluster), "end")
  BY EndSeen
<1>7. Answer(op) = Fitting(Shows(s))
  BY <1>1, AnswerIs
<1>8. \A e : Err(e).ok = FALSE
  BY DEF Err
<1>9. CASE Len(listed) > op.buffer
  <2>1. Finish(Err("BufferTooSmall"))
    BY <1>5, <1>9
  <2>2. Right(Err("BufferTooSmall"))
    <3>1. CASE Has(s, "end")
      <4>1. Len(Shows(s)) > op.buffer
        BY <3>1, <1>1, <1>3, <1>4, <1>9
      <4> QED  BY <4>1, <1>7 DEF Right, Fitting
    <3>2. CASE ~Has(s, "end")
      BY <3>2, <1>1, <1>8 DEF Right
    <3> QED  BY <3>1, <3>2
  <2> QED  BY <2>1, <2>2, <1>1, FinishKeeps
<1>10. CASE ~(Len(listed) > op.buffer) /\ Has(SlotsOf(cluster), "end")
  <2>1. PICK answer : answer = Ok(listed)
    OBVIOUS
  <2>2. Finish(answer)
    BY <1>5, <1>6, <1>10, <2>1
  <2>3. Right(answer)
    BY <1>3, <1>7, <1>10, <2>1 DEF Right, Fitting
  <2> QED  BY <2>2, <2>3, <1>1, FinishKeeps
<1>11. CASE ~(Len(listed) > op.buffer) /\ ~Has(SlotsOf(cluster), "end")
  <2>1. NextCluster(out' = listed /\ UNCHANGED <<disk, op, pc, index, result>>)
    BY <1>5, <1>6, <1>11
  <2>2. CASE FatEntry(cluster) = 8 /\ ~Has(s, "end")
    <3>1. Finish(Err("FileNotFound"))
      BY <2>1, <2>2 DEF NextCluster, EndOfChain, BadCluster
    <3>2. Right(Err("FileNotFound"))
      BY <2>2, <1>1, <1>8 DEF Right
    <3> QED  BY <3>1, <3>2, <1>1, FinishKeeps
  <2>3. CASE /\ FatEntry(cluster) = chain[2] /\ n = 2 /\ ~Has(NearCluster(s), "end")
             /\ listed = Named(NearCluster(s))
    <3>1. FatEntry(cluster) \in {5, 6}
      BY <2>3
    <3>2. cluster' = FatEntry(cluster) /\ out' = listed /\ UNCHANGED <<disk, op, pc, index, result>>
      BY <2>1, <3>1 DEF NextCluster, EndOfChain, BadCluster
    <3> QED  BY <3>2, <2>3, <1>1
  <2> QED  BY <2>2, <2>3, <1>3, <1>11
<1> QED  BY <1>9, <1>10, <1>11

LEMMA ListClusterKeeps == ASSUME FileInv, ListCluster PROVE FileInv'
<1>1. pc = "list" /\ disk \in Disks /\ op.kind = "list"
  BY DEF ListCluster, FileInv, ListInv
<1>2. /\ InRoot = Shows(disk.root) /\ InSub = Shows(disk.sub) /\ <<"d">> # <<>>
  BY DEF InRoot, InSub, Shows
<1>3. ASSUME NEW chain, NEW s, NEW n, Walks(chain, s, n), ListedTo(chain, s, n)
      PROVE  SlotsOf(cluster) \in Seq(Marks) /\ chain[2] \in {5, 6}
  <2>1. /\ Directory(s, n) /\ chain[2] \in {5, 6}
        /\ SlotsOf(chain[1]) = NearCluster(s) /\ SlotsOf(chain[2]) = FarCluster(s)
    BY <1>1, <1>3, WalkIs
  <2>2. NearCluster(s) \in Seq(Marks) /\ (n = 2 => FarCluster(s) \in Seq(Marks))
    BY <2>1, DirectoryIs
  <2> QED  BY <2>1, <2>2, <1>3 DEF ListedTo
<1>4. CASE op.path = <<>> /\ ListedTo(Root, disk.root, disk.rootLength)
  <2>1. PICK chain, s, n : chain = Root /\ s = disk.root /\ n = disk.rootLength
    OBVIOUS
  <2>2. Walks(chain, s, n) /\ ListedTo(chain, s, n)
    BY <1>4, <2>1 DEF Walks
  <2>3. Kind(op.path) = "dir" /\ Listing(op.path) = Shows(s) /\ (Full(op.path) <=> ~Has(s, "end"))
    BY <1>2, <1>4, <2>1, KindIs DEF Listing, Full
  <2>4. \/ FileInv'
        \/ /\ pc' = "list" /\ disk' = disk /\ op' = op /\ cluster' = chain[2] /\ n = 2
           /\ ~Has(NearCluster(s), "end") /\ out' = Named(NearCluster(s))
    BY <1>3, <2>2, <2>3, ListKeeps
  <2>5. ASSUME /\ pc' = "list" /\ disk' = disk /\ op' = op /\ cluster' = chain[2] /\ n = 2
               /\ ~Has(NearCluster(s), "end") /\ out' = Named(NearCluster(s))
        PROVE  FileInv'
    <3>1. ListInv'
      BY <1>1, <1>4, <2>1, <2>5 DEF ListInv, ListedTo, Root
    <3>2. FindInv' /\ ReadInv'
      BY <2>5 DEF FindInv, ReadInv
    <3> QED  BY <1>1, <2>5, <3>1, <3>2, WalkKeeps
  <2> QED  BY <2>4, <2>5
<1>5. CASE op.path = <<"d">> /\ Has(Shows(disk.root), "d") /\ ListedTo(Sub, disk.sub, disk.subLength)
  <2>1. PICK chain, s, n : chain = Sub /\ s = disk.sub /\ n = disk.subLength
    OBVIOUS
  <2>2. Walks(chain, s, n) /\ ListedTo(chain, s, n)
    BY <1>5, <2>1 DEF Walks
  <2>3. Kind(op.path) = "dir" /\ Listing(op.path) = Shows(s) /\ (Full(op.path) <=> ~Has(s, "end"))
    BY <1>2, <1>5, <2>1, KindIs DEF Listing, Full
  <2>4. \/ FileInv'
        \/ /\ pc' = "list" /\ disk' = disk /\ op' = op /\ cluster' = chain[2] /\ n = 2
           /\ ~Has(NearCluster(s), "end") /\ out' = Named(NearCluster(s))
    BY <1>3, <2>2, <2>3, ListKeeps
  <2>5. ASSUME /\ pc' = "list" /\ disk' = disk /\ op' = op /\ cluster' = chain[2] /\ n = 2
               /\ ~Has(NearCluster(s), "end") /\ out' = Named(NearCluster(s))
        PROVE  FileInv'
    <3>1. ListInv'
      BY <1>1, <1>5, <2>1, <2>5 DEF ListInv, ListedTo, Sub
    <3>2. FindInv' /\ ReadInv'
      BY <2>5 DEF FindInv, ReadInv
    <3> QED  BY <1>1, <2>5, <3>1, <3>2, WalkKeeps
  <2> QED  BY <2>4, <2>5
<1> QED  BY <1>1, <1>4, <1>5 DEF FileInv, ListInv

(* read_file.                                                              *)
LEMMA ReadClusterKeeps == ASSUME FileInv, ReadCluster PROVE FileInv'
<1>1. /\ pc = "read" /\ disk \in Disks /\ op \in Operations /\ disk.file \in Files
      /\ op.kind = "read" /\ op.path = <<"d", "f">> /\ disk.file.size <= op.buffer /\ op.buffer \in Nat
      /\ Has(Shows(disk.root), "d") /\ Has(Shows(disk.sub), "f")
  BY DiskIs DEF ReadCluster, FileInv, ReadInv, Operations
<1>2. PICK file : file = disk.file
  OBVIOUS
<1>3. /\ file.length \in 0..2 /\ file.size \in 0..2
      /\ file.size # 0 <=> file.length # 0
      /\ file.size <= file.length => file.size = file.length /\ file.last = 8
      /\ ~(file.size <= file.length) => file.size = 2 /\ file.length = 1 /\ file.last \in {8, 9}
  BY <1>1, <1>2, FileIs DEF EndOfChain, BadCluster
<1>4. Kind(op.path) = "file" /\ Answer(op) = Fitting(Content(op.path))
  <2>1. Kind(op.path) = "file"
    BY <1>1, KindIs
  <2> QED  BY <2>1, <1>1, AnswerIs
<1>5. /\ Len(Content(op.path)) = file.size
      /\ file.size = 1 => Content(op.path) = <<4>>
      /\ file.size = 2 => Content(op.path) = <<4, 7>>
  BY <1>1, <1>2, ContentIs
<1>6. Answer(op) = Ok(Content(op.path))
  BY <1>1, <1>2, <1>3, <1>4, <1>5 DEF Fitting
<1>7. Entry(Sub[1], "f").size = file.size
  <2>1. Sub[1] \notin {Root[1], Root[2]}
    BY DEF Root, Sub
  <2> QED  BY <2>1, <1>2 DEF Entry
<1>8. PICK filled : filled = Append(out, cluster)
  OBVIOUS
<1>9. IF ~Readable(cluster) THEN Finish(Err("InvalidFat32BootSector"))
      ELSE IF Len(filled) = file.size THEN Finish(Ok(filled))
      ELSE NextCluster(out' = filled /\ UNCHANGED <<disk, op, pc, index, result>>)
  BY <1>7, <1>8 DEF ReadCluster
<1>10. ASSUME Readable(cluster), Len(filled) = file.size, filled = Content(op.path) PROVE FileInv'
  <2>1. PICK answer : answer = Ok(filled)
    OBVIOUS
  <2>2. Finish(answer) /\ Right(answer)
    BY <1>6, <1>9, <1>10, <2>1 DEF Right
  <2> QED  BY <2>2, <1>1, FinishKeeps
<1>11. CASE cluster = Data[1] /\ out = <<>> /\ file.length # 0 /\ file.size # 0
  <2>1. cluster = 4 /\ filled = <<4>> /\ Len(filled) = 1 /\ Readable(cluster)
    BY <1>8, <1>11 DEF Data, Readable, Clusters
  <2>2. CASE file.size = 1
    BY <2>1, <2>2, <1>5, <1>10
  <2>3. CASE file.size # 1
    <3>1. file.size = 2 /\ NextCluster(out' = filled /\ UNCHANGED <<disk, op, pc, index, result>>)
      BY <1>3, <1>9, <1>11, <2>1, <2>3
    <3>2. CASE file.length = 2
      <4>1. FatEntry(cluster) = 7
        BY <1>1, <1>2, <2>1, <3>2, FatIs
      <4>2. cluster' = 7 /\ out' = filled /\ UNCHANGED <<disk, op, pc, index, result>>
        BY <3>1, <4>1 DEF NextCluster, EndOfChain, BadCluster
      <4>3. Data[1] = 4 /\ Data[2] = 7
        BY DEF Data
      <4>4. ReadInv'
        BY <1>1, <1>2, <2>1, <3>1, <3>2, <4>2, <4>3 DEF ReadInv
      <4>5. FindInv' /\ ListInv'
        BY <1>1, <4>2 DEF FindInv, ListInv
      <4> QED  BY <1>1, <4>2, <4>4, <4>5, WalkKeeps
    <3>3. CASE file.length = 1
      <4>1. FatEntry(cluster) \in {8, 9}
        BY <1>1, <1>2, <1>3, <2>1, <3>1, <3>3, FatIs
      <4>2. ~Whole(op.path)
        BY <1>1, <1>2, <3>1, <3>3 DEF Whole
      <4>3. \A e : Err(e).ok = FALSE
        BY DEF Err
      <4>4. Right(Err("FileNotFound")) /\ Right(Err("InvalidFat32BootSector"))
        BY <1>1, <1>4, <4>2, <4>3 DEF Right
      <4>5. Finish(Err("FileNotFound")) \/ Finish(Err("InvalidFat32BootSector"))
        BY <3>1, <4>1 DEF NextCluster, EndOfChain, BadCluster
      <4> QED  BY <1>1, <4>4, <4>5, FinishKeeps
    <3> QED  BY <1>3, <1>11, <3>2, <3>3
  <2> QED  BY <2>2, <2>3
<1>12. CASE cluster = Data[2] /\ out = <<Data[1]>> /\ file.length = 2 /\ file.size = 2
  <2>1. cluster = 7 /\ filled = <<4, 7>> /\ Len(filled) = 2 /\ Readable(cluster)
    <3>1. Data[1] = 4 /\ Data[2] = 7
      BY DEF Data
    <3>2. cluster = 7 /\ filled = Append(<<4>>, 7)
      BY <3>1, <1>8, <1>12
    <3>3. Append(<<4>>, 7) = <<4, 7>> /\ Len(<<4, 7>>) = 2
      <4>1. PICK p, q, r : p = <<4>> /\ q = Append(p, 7) /\ r = <<4, 7>>
        OBVIOUS
      <4>2. p \in Seq(Nat) /\ Len(p) = 1 /\ p[1] = 4 /\ r \in Seq(Nat) /\ Len(r) = 2 /\ r[1] = 4 /\ r[2] = 7
        BY <4>1
      <4>3. q \in Seq(Nat) /\ Len(q) = Len(p) + 1 /\ q[Len(p) + 1] = 7 /\ \A i \in 1..Len(p) : q[i] = p[i]
        BY <4>1, <4>2, AppendProperties
      <4>4. Len(q) = 2 /\ q[1] = 4 /\ q[2] = 7
        BY <4>2, <4>3
      <4>5. \A i \in 1..2 : i = 1 \/ i = 2
        OBVIOUS
      <4>6. q = r
        <5>1. Len(q) = Len(r) /\ \A i \in 1..Len(q) : q[i] = r[i]
          BY <4>2, <4>4, <4>5
        <5>2. q \in Seq(Nat) /\ r \in Seq(Nat)
          BY <4>2, <4>3
        <5> QED  BY ONLY <5>1, <5>2, SeqEqual
      <4> QED  BY <4>1, <4>2, <4>6
    <3> QED  BY <3>2, <3>3 DEF Readable, Clusters
  <2> QED  BY <2>1, <1>5, <1>10, <1>12
<1> QED  BY <1>1, <1>2, <1>11, <1>12 DEF FileInv, ReadInv

-----------------------------------------------------------------------------
LEMMA FileInvInit == Init => FileInv
<1>1. ASSUME FilesRest PROVE FileInv
  BY <1>1 DEF FilesRest, FileInv, FindInv, ListInv, ReadInv, AnswerRight, Answered
<1>2. ASSUME FileInit PROVE FileInv
  BY <1>2 DEF FileInit, FileInv, FindInv, ListInv, ReadInv, AnswerRight, Answered
<1> QED  BY <1>1, <1>2 DEF Init

LEMMA FileInvStep == FileInv /\ [Next]_vars => FileInv'
<1> SUFFICES ASSUME FileInv, [Next]_vars PROVE FileInv'
  OBVIOUS
<1>1. ASSUME NEW kind \in {"read", "list", "chdir"}, NEW path \in Paths, NEW buffer \in Nat, Begin(kind, path, buffer)
      PROVE  FileInv'
  <2>1. /\ pc = "idle" /\ pc' = "resolve" /\ disk' = disk /\ disk \in Disks
        /\ op' = [kind |-> kind, path |-> path, buffer |-> buffer]
        /\ cluster' = Root[1] /\ index' = 1
    BY <1>1 DEF Begin, FileInv
  <2>2. disk' \in Disks' /\ op' \in Operations'
    BY <1>1, <2>1 DEF Disks, Operations, SlotSeqs, Lengths, Files, EndOfChain, BadCluster, Paths
  <2>3. FindInv'
    BY <2>1 DEF FindInv, SearchedTo, Root
  <2>4. ListInv' /\ ReadInv' /\ AnswerRight'
    BY <2>1 DEF ListInv, ReadInv, AnswerRight, Answered
  <2> QED  BY <2>1, <2>2, <2>3, <2>4 DEF FileInv
<1>2. ASSUME DeviceFails PROVE FileInv'
  <2>1. pc \in {"resolve", "list", "read"} /\ Finish(Err("Device"))
    BY <1>2 DEF DeviceFails
  <2> QED  BY <2>1, FinishKeeps
<1>3. ASSUME Return PROVE FileInv'
  <2>1. pc = "done" /\ pc' = "idle" /\ disk' = disk /\ disk \in Disks
    BY <1>3 DEF Return, FileInv
  <2>2. disk' \in Disks'
    BY <2>1 DEF Disks, SlotSeqs, Lengths, Files, EndOfChain, BadCluster
  <2> QED  BY <2>1, <2>2 DEF FileInv, FindInv, ListInv, ReadInv, AnswerRight, Answered
<1>4. ASSUME UNCHANGED fileVars PROVE FileInv'
  <2>1. /\ disk' = disk /\ op' = op /\ pc' = pc /\ cluster' = cluster /\ index' = index
        /\ out' = out /\ result' = result
    BY <1>4 DEF fileVars
  <2>2. Disks' = Disks /\ Operations' = Operations
    BY DEF Disks, Operations, SlotSeqs, Lengths, Files, EndOfChain, BadCluster, Paths
  <2>3. FindInv' /\ ListInv' /\ ReadInv'
    BY <2>1 DEF FileInv, FindInv, ListInv, ReadInv, SearchedTo, ListedTo, Root, Sub, Data
  <2>4. InRoot' = InRoot /\ InSub' = InSub
    BY <2>1 DEF InRoot, InSub
  <2>5. Kind(op.path)' = Kind(op.path) /\ Full(op.path)' = Full(op.path) /\ Whole(op.path)' = Whole(op.path)
    BY <2>1, <2>4 DEF Kind, Full, Whole
  <2>6. Answer(op)' = Answer(op)
    BY <2>1, <2>4, <2>5 DEF Answer, Listing, Content
  <2>7. AnswerRight'
    BY <2>1, <2>5, <2>6 DEF FileInv, AnswerRight, Answered
  <2> QED  BY <2>1, <2>2, <2>3, <2>7 DEF FileInv
<1>5. ASSUME FileNext PROVE FileInv'
  <2>1. ASSUME NEW kind \in {"read", "list", "chdir"}, NEW path \in Paths,
               NEW buffer \in IF kind = "chdir" THEN {0} ELSE Buffers, Begin(kind, path, buffer)
        PROVE  FileInv'
    <3>1. buffer \in Nat
      BY <2>1, Fat32Assumption
    <3> QED  BY <3>1, <2>1, <1>1
  <2> QED  BY <1>5, <2>1, <1>2, <1>3, ResolveKeeps, ListClusterKeeps, ReadClusterKeeps DEF FileNext, Step
<1>6. FileNext \/ UNCHANGED fileVars
  BY DEF Next, vars
<1> QED  BY <1>4, <1>5, <1>6

(* Whatever the disk's directories hold and however many slots a cluster   *)
(* has, open_absolute, read_file, read_dir and ensure_dir answer what the  *)
(* disk holds as a tree, unless the device fails; the exceptions are the   *)
(* ones AnswerRight names.                                                 *)
THEOREM AnswersRight == Spec => []AnswerRight
<1>1. FileInv => AnswerRight
  BY DEF FileInv
<1> QED  BY <1>1, FileInvInit, FileInvStep, PTL DEF Spec
=============================================================================
