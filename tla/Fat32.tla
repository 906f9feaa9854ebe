------------------------------- MODULE Fat32 -------------------------------
(***************************************************************************)
(* The read-only FAT32 driver (storage/fat32.rs) behind the root file      *)
(* system: resolving an absolute path, reading a file, listing a           *)
(* directory, each as a walk along cluster chains with a device that may   *)
(* fail at every sector.                                                   *)
(*                                                                         *)
(* The disk is any root directory and subdirectory d of one or two         *)
(* clusters, with slots in any order: the end mark, slots to skip (deleted *)
(* entries, volume label, long names), d (in the root) and a file f.  d/f  *)
(* has a chain of up to two clusters, which may end too early or in a bad  *)
(* cluster; the f of the root is empty.  Clusters hold one sector.         *)
(***************************************************************************)
EXTENDS Integers, SequencesExt

CONSTANTS
  Slots,       \* directory entries in a cluster
  Buffers      \* bound: buffer sizes of the callers, in sectors or entries

ASSUME Fat32Assumption == Slots \in Nat \ {0} /\ Buffers \subseteq Nat

VARIABLES
  disk,     \* the partition, never written
  op,       \* the operation in progress: its kind, path and buffer
  pc,       \* "idle", "find", "list", "read", "done"
  cluster,  \* the walk's cluster
  index,    \* the path component find_in_directory looks for
  out,      \* what the caller's buffer holds so far
  result    \* the answer
fileVars == <<disk, op, pc, cluster, index, out, result>>

Root == <<2, 5>>
Sub  == <<3, 6>>
Data == <<4, 7>>
Clusters == 2..7
EndOfChain == 8
BadCluster == 9

Links(chain, length, last) ==
  [i \in {chain[j] : j \in 1..length} |-> IF i = chain[length] THEN last ELSE chain[2]]
SlotSeqs(used, length) ==
  {s \in [1..(Slots * length) -> used \cup {"end", "skip"}] :
     \A i, j \in DOMAIN s : (s[i] \in used /\ s[i] = s[j]) => i = j}
Lengths == {<<1, 1>>, <<1, 2>>, <<2, 1>>}
Files ==
  {[length |-> n, size |-> n, last |-> EndOfChain] : n \in 0..2}
    \cup {[length |-> 1, size |-> 2, last |-> e] : e \in {EndOfChain, BadCluster}}
Disks ==
  UNION {[root : SlotSeqs({"d", "f"}, n[1]), sub : SlotSeqs({"f"}, n[2]),
          rootLength : {n[1]}, subLength : {n[2]}, file : Files] : n \in Lengths}

(* Directory entries and FAT as the driver reads them.                     *)
SlotsOf(c) ==
  CASE c = Root[1] -> SubSeq(disk.root, 1, Slots)
    [] c = Root[2] -> SubSeq(disk.root, Slots + 1, 2 * Slots)
    [] c = Sub[1] -> SubSeq(disk.sub, 1, Slots)
    [] OTHER -> SubSeq(disk.sub, Slots + 1, 2 * Slots)
FatEntry(c) ==
  CASE c \in {Root[1], Root[2]} -> Links(Root, disk.rootLength, EndOfChain)[c]
    [] c \in {Sub[1], Sub[2]} -> Links(Sub, disk.subLength, EndOfChain)[c]
    [] OTHER -> Links(Data, disk.file.length, disk.file.last)[c]
Entry(c, name) ==
  CASE name = "d" -> [first |-> Sub[1], size |-> 0, directory |-> TRUE]
    [] name = "f" /\ c \in {Root[1], Root[2]} -> [first |-> 0, size |-> 0, directory |-> FALSE]
    [] OTHER -> [first |-> IF disk.file.length = 0 THEN 0 ELSE Data[1],
                 size |-> disk.file.size, directory |-> FALSE]

-----------------------------------------------------------------------------
Ok(value) == [ok |-> TRUE, error |-> "none", value |-> value]
Err(kind) == [ok |-> FALSE, error |-> kind, value |-> <<>>]
NoResult == Err("pending")

Finish(answer) ==
  /\ result' = answer /\ pc' = "done"
  /\ UNCHANGED <<disk, op, cluster, index, out>>

(* The start of open_absolute + read_file, ensure_dir and read_dir;        *)
(* resolve_absolute answers an empty path at once.                         *)
StartList(c) ==
  /\ pc' = "list" /\ cluster' = c /\ out' = <<>>
  /\ UNCHANGED <<disk, op, index, result>>
StartRead(entry) ==
  IF op.buffer < entry.size THEN Finish(Err("BufferTooSmall"))
  ELSE IF entry.size = 0 THEN Finish(Ok(<<>>))
  ELSE /\ pc' = "read" /\ cluster' = entry.first /\ out' = <<>>
       /\ UNCHANGED <<disk, op, index, result>>

Resolved(entry) ==
  CASE op.kind = "read" /\ entry.directory -> Finish(Err("NotAFile"))
    [] op.kind = "read" /\ ~entry.directory -> StartRead(entry)
    [] op.kind = "chdir" -> Finish(IF entry.directory THEN Ok(<<>>) ELSE Err("NotADirectory"))
    [] op.kind = "list" /\ entry.directory -> StartList(entry.first)
    [] op.kind = "list" /\ ~entry.directory -> Finish(Err("NotADirectory"))

RootEntry == [first |-> Root[1], size |-> 0, directory |-> TRUE]
Paths == {<<>>, <<"d">>, <<"f">>, <<"d", "f">>, <<"f", "f">>, <<"d", "g">>, <<"too.many.dots">>}
Begin(kind, path, buffer) ==
  /\ pc = "idle"
  /\ op' = [kind |-> kind, path |-> path, buffer |-> buffer]
  /\ pc' = "resolve"
  /\ cluster' = Root[1] /\ index' = 1
  /\ UNCHANGED <<disk, out, result>>

-----------------------------------------------------------------------------
(* cluster_to_lba and read_sector.                                         *)
Readable(c) == c \in Clusters

(* next_cluster reads a sector of the FAT.                                 *)
NextCluster(continue) ==
  CASE FatEntry(cluster) = EndOfChain -> Finish(Err("FileNotFound"))
    [] FatEntry(cluster) \in {0, 1, BadCluster} -> Finish(Err("InvalidFat32BootSector"))
    [] OTHER -> cluster' = FatEntry(cluster) /\ continue

StopAt(slots, names) ==
  LET hits == {i \in DOMAIN slots : slots[i] \in names}
  IN  IF hits = {} THEN "none" ELSE slots[Min(hits)]

ValidName(name) == name # "too.many.dots"

(* find_in_directory, one cluster; resolve_absolute continues with the     *)
(* next component.                                                         *)
FindIgnoringEnd ==
  LET name == op.path[index]
      hit == StopAt(SlotsOf(cluster), {name})
      entry == Entry(cluster, name)
  IN  CASE hit = "none" -> NextCluster(UNCHANGED <<disk, op, pc, index, out, result>>)
        [] hit = name /\ index = Len(op.path) -> Resolved(entry)
        [] hit = name /\ index < Len(op.path) /\ ~entry.directory -> Finish(Err("FileNotFound"))
        [] hit = name /\ index < Len(op.path) /\ entry.directory ->
             /\ cluster' = entry.first /\ index' = index + 1
             /\ UNCHANGED <<disk, op, pc, out, result>>
FindInCluster ==
  LET name == op.path[index]
      hit == StopAt(SlotsOf(cluster), {name, "end"})
      entry == Entry(cluster, name)
  IN  CASE hit = "end" -> Finish(Err("FileNotFound"))
        [] hit = "none" -> NextCluster(UNCHANGED <<disk, op, pc, index, out, result>>)
        [] hit = name /\ index = Len(op.path) -> Resolved(entry)
        [] hit = name /\ index < Len(op.path) /\ ~entry.directory -> Finish(Err("FileNotFound"))
        [] hit = name /\ index < Len(op.path) /\ entry.directory ->
             /\ cluster' = entry.first /\ index' = index + 1
             /\ UNCHANGED <<disk, op, pc, out, result>>

Resolve ==
  /\ pc = "resolve"
  /\ IF op.path = <<>> THEN Resolved(RootEntry)
     ELSE IF ~ValidName(op.path[index]) THEN Finish(Err("InvalidShortName"))
     ELSE FindInCluster

(* read_dir, one cluster.                                                  *)
Before(slots, name) ==
  IF StopAt(slots, {name}) = "none" THEN slots
  ELSE SubSeq(slots, 1, Min({i \in DOMAIN slots : slots[i] = name}) - 1)
Named(slots) ==
  LET named[n \in 0..Len(slots)] ==
        IF n = 0 THEN <<>>
        ELSE IF slots[n] \in {"skip", "end"} THEN named[n - 1]
        ELSE Append(named[n - 1], slots[n])
  IN  named[Len(slots)]
ListCluster ==
  LET slots == SlotsOf(cluster)
      listed == out \o Named(Before(slots, "end"))
  IN  /\ pc = "list"
      /\ IF Len(listed) > op.buffer THEN Finish(Err("BufferTooSmall"))
         ELSE IF StopAt(slots, {"end"}) = "end" THEN Finish(Ok(listed))
         ELSE NextCluster(out' = listed /\ UNCHANGED <<disk, op, pc, index, result>>)

(* read_file, one cluster.                                                 *)
ReadCluster ==
  LET filled == Append(out, cluster)
      entry == Entry(Sub[1], "f")
  IN  /\ pc = "read"
      /\ IF ~Readable(cluster) THEN Finish(Err("InvalidFat32BootSector"))
         ELSE IF Len(filled) = entry.size THEN Finish(Ok(filled))
         ELSE NextCluster(out' = filled /\ UNCHANGED <<disk, op, pc, index, result>>)

(* A sector that cannot be read ends any operation.                        *)
DeviceFails ==
  /\ pc \in {"resolve", "list", "read"} /\ (pc = "resolve" => op.path # <<>>)
  /\ Finish(Err("Device"))

Return ==
  /\ pc = "done"
  /\ pc' = "idle" /\ result' = NoResult
  /\ out' = <<>> /\ cluster' = Root[1] /\ index' = 1
  /\ op' = [kind |-> "none", path |-> <<>>, buffer |-> 0]
  /\ UNCHANGED disk

-----------------------------------------------------------------------------
FileInit ==
  /\ disk \in Disks
  /\ op = [kind |-> "none", path |-> <<>>, buffer |-> 0]
  /\ pc = "idle" /\ cluster = Root[1] /\ index = 1 /\ out = <<>> /\ result = NoResult
(* Another component at work.                                              *)
FilesRest ==
  /\ disk = <<>> /\ op = [kind |-> "none", path |-> <<>>, buffer |-> 0]
  /\ pc = "rest" /\ cluster = Root[1] /\ index = 1 /\ out = <<>> /\ result = NoResult

Step == Resolve \/ ListCluster \/ ReadCluster
FileNext ==
  \/ \E kind \in {"read", "list", "chdir"}, path \in Paths :
       \E buffer \in IF kind = "chdir" THEN {0} ELSE Buffers : Begin(kind, path, buffer)
  \/ Step \/ DeviceFails \/ Return

-----------------------------------------------------------------------------
(* What the disk holds, read as a tree.                                    *)
InRoot == Named(Before(disk.root, "end"))
InSub == Named(Before(disk.sub, "end"))
Has(names, n) == \E i \in DOMAIN names : names[i] = n
Kind(path) ==
  CASE path = <<>> -> "dir"
    [] path = <<"d">> /\ Has(InRoot, "d") -> "dir"
    [] path = <<"f">> /\ Has(InRoot, "f") -> "file"
    [] path = <<"d", "f">> /\ Has(InRoot, "d") /\ Has(InSub, "f") -> "file"
    [] OTHER -> "none"
Listing(path) == IF path = <<>> THEN InRoot ELSE InSub
Content(path) == IF path = <<"f">> THEN <<>> ELSE SubSeq(Data, 1, disk.file.size)
Whole(path) == path = <<"d", "f">> => disk.file.size <= disk.file.length
Full(path) == IF path = <<>> THEN ~Has(disk.root, "end") ELSE ~Has(disk.sub, "end")

Answer(o) ==
  LET sized(value) == IF Len(value) > o.buffer THEN Err("BufferTooSmall") ELSE Ok(value)
  IN  CASE Has(o.path, "too.many.dots") -> Err("InvalidShortName")
        [] ~Has(o.path, "too.many.dots") /\ Kind(o.path) = "none" -> Err("FileNotFound")
        [] Kind(o.path) = "dir" /\ o.kind = "chdir" -> Ok(<<>>)
        [] Kind(o.path) = "dir" /\ o.kind = "read" -> Err("NotAFile")
        [] Kind(o.path) = "dir" /\ o.kind = "list" -> sized(Listing(o.path))
        [] Kind(o.path) = "file" -> IF o.kind = "read" THEN sized(Content(o.path))
                                    ELSE Err("NotADirectory")
Answered == pc = "done" /\ result # Err("Device")

(* Unless the device fails, a caller gets what the disk holds as a tree: a *)
(* name is found wherever it stands in the chain of its directory and not  *)
(* behind the end mark, a file comes whole or not at all, and the errors   *)
(* name what is wrong.  The exception is a directory that fills its        *)
(* clusters and has no end mark: it is never listed (see DirectoryListed). *)
AnswerRight ==
  Answered =>
    \/ op.kind = "list" /\ Kind(op.path) = "dir" /\ Full(op.path) /\ ~result.ok
    \/ op.kind = "read" /\ Kind(op.path) = "file" /\ ~Whole(op.path) /\ ~result.ok
    \/ result = Answer(op)

(* "`ls` resolves a directory and lists it" (storage-and-loading.md): so   *)
(* does a directory that fills its clusters and has no end mark.           *)
DirectoryListed ==
  (Answered /\ op.kind = "list" /\ Kind(op.path) = "dir") => result = Answer(op)
=============================================================================
