-------------------------------- MODULE Lash --------------------------------
(***************************************************************************)
(* How lash executes one parsed line (shell.rs, commands.rs, builtins.rs,  *)
(* paths.rs): the segments from left to right under &&, || and ;, each a   *)
(* built-in, a command with a path of its own, or a bare name looked up    *)
(* along PATH by trying to spawn one candidate after the other.  `where`   *)
(* walks the same candidates and reads instead of spawning.                *)
(*                                                                         *)
(* A command name stands for one file per directory; what is found there   *)
(* is all the shell can tell apart.  Result codes share one word with the  *)
(* exit statuses, as in kernel_abi.                                        *)
(***************************************************************************)
EXTENDS Integers, SequencesExt

CONSTANTS
  Dirs,          \* directories, absolute paths
  Disks,         \* what the name stands for in each directory
  Statuses,      \* exit statuses of the programs
  MaxWord,       \* usize::MAX
  MaxEntries,    \* bound: entries of PATH
  MaxSegments,   \* bound: segments of the line
  Commands,      \* bound: the commands of a segment
  HomeDir        \* the first cwd

(* An entry of PATH that is empty or relative.                             *)
NotAbsolute == "not absolute"

ASSUME LashAssumption ==
  /\ IsFiniteSet(Dirs) /\ HomeDir \in Dirs /\ NotAbsolute \notin Dirs
  /\ MaxWord \in Nat /\ MaxWord > 4 /\ Statuses \subseteq 0..MaxWord
  /\ MaxEntries \in Nat /\ MaxSegments \in Nat
  /\ Disks \subseteq [Dirs -> {"absent", "program", "junk", "misnamed", "unreadable"}]

VARIABLES
  line,       \* segments: the operator before each, and its command
  path,       \* entries of the PATH variable, <<>> when it is unset
  cwd,        \* directory of the shell's process
  disk,       \* what the commands' name stands for in each directory
  index,      \* segment the loop is at
  last,       \* last_status
  pc,         \* "segment", "run" and "where" in the search, "exited"
  entry,      \* entry of PATH the search is at
  started,    \* directories whose program this segment started
  shown,      \* directories this segment's `where` printed
  history     \* what became of the segments before index
lashVars == <<line, path, cwd, disk, index, last, pc, entry, started, shown, history>>

Paths == BoundedSeq(Dirs \cup {NotAbsolute}, MaxEntries)
Segments == [op : {"And", "Or", "Sequence"}, cmd : Commands]

INVALID_PATH == MaxWord
FILE_NOT_FOUND == MaxWord - 1
INVALID_EXECUTABLE == MaxWord - 2
RESOURCE_UNAVAILABLE == MaxWord - 3

(* The answers of spawn_wait: a program runs, or the kernel has no room.   *)
Spawned(file) ==
  CASE file = "absent" -> {[run |-> FALSE, word |-> FILE_NOT_FOUND]}
    [] file = "misnamed" -> {[run |-> FALSE, word |-> INVALID_PATH]}
    [] file = "junk" -> {[run |-> FALSE, word |-> INVALID_EXECUTABLE]}
    [] file = "unreadable" -> {[run |-> FALSE, word |-> RESOURCE_UNAVAILABLE]}
    [] file = "program" -> {[run |-> TRUE, word |-> s] : s \in Statuses}
                             \cup {[run |-> FALSE, word |-> RESOURCE_UNAVAILABLE]}
StatusOf(word) ==
  IF word \in {INVALID_PATH, FILE_NOT_FOUND, INVALID_EXECUTABLE, RESOURCE_UNAVAILABLE}
  THEN 1 ELSE word
(* probe_path: a file that cannot be read at all is an error.              *)
Probed(file) ==
  CASE file = "absent" -> "Continue"
    [] file \in {"program", "junk"} -> "Matched"
    [] OTHER -> "Return"

-----------------------------------------------------------------------------
LashInit ==
  /\ line \in {l \in BoundedSeq(Segments, MaxSegments) : l # <<>> => l[1].op = "Sequence"}
  /\ path = SetToSeq(Dirs)
  /\ cwd = HomeDir
  /\ disk \in Disks
  /\ last \in (IF line = <<>> THEN {0, 1} ELSE {0})   \* scan_segments refuses the line
  /\ index = 1 /\ pc = "segment" /\ entry = 1
  /\ started = <<>> /\ shown = <<>> /\ history = <<>>

Session == <<line, disk>>
Search == <<entry, started, shown>>
Record(ran, status) ==
  [ran |-> ran, status |-> status, started |-> started', shown |-> shown',
   path |-> path, cwd |-> cwd]
Finish(status) ==
  /\ last' = status
  /\ history' = Append(history, Record(TRUE, status))
  /\ index' = index + 1
  /\ pc' = "segment" /\ entry' = 1

ShouldRun ==
  \/ index = 1
  \/ line[index].op = "Sequence"
  \/ line[index].op = "And" /\ last = 0
  \/ line[index].op = "Or" /\ last # 0
Reached == pc = "segment" /\ index <= Len(line)
Begins(cmd) ==
  /\ Reached /\ ShouldRun /\ line[index].cmd = cmd
  /\ UNCHANGED Session

Quiet == started' = <<>> /\ shown' = <<>>
SkipClearsStatus ==
  /\ Reached /\ ~ShouldRun /\ Quiet /\ last' = 0
  /\ history' = Append(history, Record(FALSE, last))
  /\ index' = index + 1
  /\ UNCHANGED <<Session, path, cwd, pc, entry>>
SkipSegment ==
  /\ Reached /\ ~ShouldRun /\ Quiet
  /\ history' = Append(history, Record(FALSE, last))
  /\ index' = index + 1
  /\ UNCHANGED <<Session, path, cwd, last, pc, entry>>

(* TokenizedCommand::parse fails, or the first word is empty.              *)
Malformed == Begins("malformed") /\ Quiet /\ Finish(1) /\ UNCHANGED <<path, cwd>>

(* cd, env, set and unset answer 1 to wrong usage and to a kernel error.   *)
RunCd ==
  /\ Begins("cd") /\ Quiet /\ UNCHANGED path
  /\ \/ cwd' \in Dirs /\ Finish(0)
     \/ UNCHANGED cwd /\ Finish(1)
RunSet ==
  /\ Begins("set") /\ Quiet /\ UNCHANGED cwd
  /\ \/ path' \in Paths /\ Finish(0)
     \/ UNCHANGED path /\ Finish(1)
RunUnset ==
  /\ Begins("unset") /\ Quiet /\ UNCHANGED cwd
  /\ \/ path' = <<>> /\ Finish(0)
     \/ UNCHANGED path /\ (Finish(0) \/ Finish(1))
RunEnv == Begins("env") /\ Quiet /\ (Finish(0) \/ Finish(1)) /\ UNCHANGED <<path, cwd>>
RunExit ==
  /\ Begins("exit") /\ Quiet
  /\ pc' = "exited" /\ last' = 0
  /\ UNCHANGED <<path, cwd, index, entry, history>>

(* run_command_at_path, here with a path relative to the cwd.              *)
RunAtPath ==
  /\ Begins("explicit") /\ shown' = <<>> /\ UNCHANGED <<path, cwd>>
  /\ \E answer \in Spawned(disk[cwd]) :
       /\ started' = IF answer.run THEN <<cwd>> ELSE <<>>
       /\ Finish(StatusOf(answer.word))

(* print_explicit_where.                                                   *)
WhereAtPath ==
  /\ Begins("where_explicit") /\ started' = <<>> /\ UNCHANGED <<path, cwd>>
  /\ shown' = IF Probed(disk[cwd]) = "Matched" THEN <<cwd>> ELSE <<>>
  /\ Finish(IF Probed(disk[cwd]) = "Matched" THEN 0 ELSE 1)

StartSearch ==
  /\ Quiet /\ UNCHANGED <<path, cwd, index, last, history>>
  /\ entry' = 1
  /\ \/ Begins("bare") /\ pc' = "run"
     \/ Begins("where") /\ pc' = "where"

(* with_path_candidates: only absolute entries are candidates.             *)
Searching(kind) == pc = kind /\ entry <= Len(path) /\ UNCHANGED <<Session, path, cwd>>
Continue == entry' = entry + 1 /\ UNCHANGED <<index, last, pc, history>>
SkipEntry ==
  /\ \E kind \in {"run", "where"} : Searching(kind)
  /\ path[entry] = NotAbsolute
  /\ Continue /\ UNCHANGED <<started, shown>>
TryCandidateAnyError ==
  /\ Searching("run") /\ path[entry] \in Dirs /\ UNCHANGED shown
  /\ \E answer \in Spawned(disk[path[entry]]) :
       /\ started' = IF answer.run THEN Append(started, path[entry]) ELSE started
       /\ IF answer.word >= RESOURCE_UNAVAILABLE THEN Continue ELSE Finish(StatusOf(answer.word))
TryCandidate ==
  /\ Searching("run") /\ path[entry] \in Dirs /\ UNCHANGED shown
  /\ \E answer \in Spawned(disk[path[entry]]) :
       /\ started' = IF answer.run THEN Append(started, path[entry]) ELSE started
       /\ IF answer.word = FILE_NOT_FOUND THEN Continue ELSE Finish(StatusOf(answer.word))
ProbeCandidateReplacing ==
  /\ Searching("where") /\ path[entry] \in Dirs /\ UNCHANGED started
  /\ LET step == Probed(disk[path[entry]])
     IN  /\ shown' = IF step = "Matched" THEN <<path[entry]>> ELSE shown
         /\ IF step = "Return" THEN Finish(1) ELSE Continue
ProbeCandidate ==
  /\ Searching("where") /\ path[entry] \in Dirs /\ UNCHANGED started
  /\ LET step == Probed(disk[path[entry]])
     IN  /\ shown' = IF step = "Matched" THEN Append(shown, path[entry]) ELSE shown
         /\ IF step = "Return" THEN Finish(1) ELSE Continue
EndSearch ==
  /\ pc \in {"run", "where"} /\ entry > Len(path)
  /\ UNCHANGED <<Session, path, cwd, started, shown>>
  /\ Finish(IF pc = "where" /\ shown # <<>> THEN 0 ELSE 1)

(* lash -c: the status of the line is the shell's own exit status.         *)
ExitBatch ==
  /\ pc = "segment" /\ index > Len(line)
  /\ pc' = "exited"
  /\ UNCHANGED <<Session, path, cwd, index, last, Search, history>>

LashNext ==
  \/ SkipSegment
  \/ Malformed
  \/ RunCd
  \/ RunSet
  \/ RunUnset
  \/ RunEnv
  \/ RunExit
  \/ RunAtPath
  \/ WhereAtPath
  \/ StartSearch
  \/ SkipEntry
  \/ TryCandidate
  \/ ProbeCandidate
  \/ EndSearch
  \/ ExitBatch

-----------------------------------------------------------------------------
Ran == {i \in DOMAIN history : history[i].ran}

(* A segment runs exactly when the nearest earlier segment that ran ended  *)
(* the way its operator asks for, however many were skipped in between,    *)
(* and the line's status is that of the last segment that ran.             *)
OperatorsHonoured ==
  /\ \A i \in DOMAIN history :
       LET before == {j \in Ran : j < i}
           left == IF before = {} THEN 0 ELSE history[Max(before)].status
       IN  history[i].ran <=> \/ i = 1
                              \/ line[i].op = "Sequence"
                              \/ line[i].op = "And" /\ left = 0
                              \/ line[i].op = "Or" /\ left # 0
  /\ Ran # {} /\ pc = "segment" => last = history[Max(Ran)].status

Holding(p) == {k \in DOMAIN p : p[k] \in Dirs /\ disk[p[k]] # "absent"}
(* A bare name starts one program at most, the one in the first absolute   *)
(* entry of the PATH in force where a file of that name is found, and none *)
(* when that file is no program; wherever the shell stands then.  This is  *)
(* about programs whose exit status is not FILE_NOT_FOUND (Statuses has it *)
(* not): after one that is, liblazer reports a missing file and the search *)
(* goes on along PATH.                                                     *)
FirstOnPathRuns ==
  \A i \in Ran : line[i].cmd = "bare" =>
    LET h == history[i]
    IN  IF Holding(h.path) # {} /\ disk[h.path[Min(Holding(h.path))]] = "program"
        THEN \/ h.started = <<h.path[Min(Holding(h.path))]>>
             \/ h.started = <<>> /\ h.status = 1
        ELSE h.started = <<>> /\ h.status = 1

(* `where` tells what would run: when the next segment runs the same name, *)
(* the program it starts is the first one `where` printed.                 *)
WhereTellsWhatRuns ==
  \A i \in Ran : i + 1 \in Ran =>
    \/ <<line[i].cmd, line[i + 1].cmd>> \notin {<<"where", "bare">>, <<"where_explicit", "explicit">>}
    \/ history[i + 1].started = <<>>
    \/ history[i].shown # <<>> /\ history[i + 1].started = <<Head(history[i].shown)>>
=============================================================================
