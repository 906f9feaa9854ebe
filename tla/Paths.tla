------------------------------- MODULE Paths -------------------------------
(***************************************************************************)
(* Path resolution: normalize_path of the kernel (storage/path.rs), which  *)
(* every file syscall and chdir applies to the caller's cwd, and           *)
(* normalize_command_path of lash (paths.rs), which `where` applies to     *)
(* name the program the kernel would run.  Paths are sequences of bytes;   *)
(* both resolvers cut and extend a buffer in place, each in its own way.   *)
(***************************************************************************)
EXTENDS Integers, SequencesExt

CONSTANTS
  Capacity,        \* MAX_CWD_LEN and LINE_CAPACITY, 256 both
  MaxComponents,   \* MAX_PATH_COMPONENTS
  Bytes,           \* bytes of the paths
  MaxPath          \* bound: length of the paths

ASSUME PathsAssumption ==
  Capacity \in Nat \ {0} /\ MaxComponents \in Nat \ {0} /\ MaxPath \in Nat

VARIABLES
  cwd,             \* Process.cwd[..cwd_len]
  asked            \* the path being resolved and the cwd it starts from
pathVars == <<cwd, asked>>

Slash == "/"
Dot == <<".">>
DotDot == <<".", ".">>
PathSet == BoundedSeq(Bytes, MaxPath)

Resolved(path) == [ok |-> TRUE, path |-> path]
Refused == [ok |-> FALSE, path |-> <<>>]

(* str::split('/').                                                        *)
SplitByte(parts, b) ==
  IF b = Slash THEN Append(parts, <<>>) ELSE Append(Front(parts), Append(Last(parts), b))
Split(path) ==
  LET parts[n \in 0..Len(path)] ==
        IF n = 0 THEN <<<<>>>> ELSE SplitByte(parts[n - 1], path[n])
  IN  parts[Len(path)]

-----------------------------------------------------------------------------
(* normalize_path_parts, one component: out is the buffer up to            *)
(* normalized_len, starts the lengths to go back to.                       *)
Start == [ok |-> TRUE, out |-> <<Slash>>, starts |-> <<>>]
Joined(out, part) == IF Len(out) = 1 THEN out \o part ELSE Append(out, Slash) \o part

PartWithoutClamp(k, part) ==
  CASE ~k.ok \/ part \in {<<>>, Dot} -> k
    [] k.ok /\ part = DotDot ->
         IF k.starts = <<>> THEN [k EXCEPT !.ok = FALSE]
         ELSE [k EXCEPT !.out = SubSeq(@, 1, Last(k.starts)), !.starts = Front(@)]
    [] OTHER ->
         IF Len(k.starts) >= MaxComponents \/ Len(Joined(k.out, part)) > Capacity
         THEN [k EXCEPT !.ok = FALSE]
         ELSE [k EXCEPT !.out = Joined(@, part), !.starts = Append(@, Len(k.out))]
Part(k, part) ==
  CASE ~k.ok \/ part \in {<<>>, Dot} -> k
    [] k.ok /\ part = DotDot ->
         IF k.starts = <<>> THEN k
         ELSE [k EXCEPT !.out = SubSeq(@, 1, Last(k.starts)), !.starts = Front(@)]
    [] OTHER ->
         IF Len(k.starts) >= MaxComponents \/ Len(Joined(k.out, part)) > Capacity
         THEN [k EXCEPT !.ok = FALSE]
         ELSE [k EXCEPT !.out = Joined(@, part), !.starts = Append(@, Len(k.out))]
Parts(k, path) ==
  LET parts == Split(path)
      after[n \in 0..Len(parts)] == IF n = 0 THEN k ELSE Part(after[n - 1], parts[n])
  IN  after[Len(parts)]

NormalizePath(base, path) ==
  LET k == IF path[1] = Slash THEN Parts(Start, path) ELSE Parts(Parts(Start, base), path)
  IN  IF path = <<>> THEN Refused
      ELSE IF k.ok THEN Resolved(k.out) ELSE Refused

-----------------------------------------------------------------------------
(* normalize_command_path, one segment: ".." goes back to the last slash.  *)
Slashes(out) == {i \in DOMAIN out : out[i] = Slash}
ParentKeepsSlash(out) ==
  IF Len(out) <= 1 THEN out ELSE SubSeq(out, 1, Max(Slashes(out)))
Parent(out) ==
  IF Len(out) <= 1 THEN out
  ELSE LET cut == Max(Slashes(out) \cup {1})
       IN  IF cut = 1 THEN <<Slash>> ELSE SubSeq(out, 1, cut - 1)
Extended(out, part) ==
  IF Len(out) > 1 /\ Last(out) # Slash THEN Append(out, Slash) \o part ELSE out \o part
Segment(l, part) ==
  CASE ~l.ok \/ part \in {<<>>, Dot} -> l
    [] l.ok /\ part = DotDot -> Resolved(Parent(l.path))
    [] OTHER -> IF Len(Extended(l.path, part)) > Capacity THEN Refused
                ELSE Resolved(Extended(l.path, part))
Segments(l, path) ==
  LET parts == Split(path)
      after[n \in 0..Len(parts)] == IF n = 0 THEN l ELSE Segment(after[n - 1], parts[n])
  IN  after[Len(parts)]
NormalizeCommandPath(base, path) ==
  Segments(Resolved(IF path # <<>> /\ path[1] = Slash THEN <<Slash>> ELSE base), path)

-----------------------------------------------------------------------------
Kernel == NormalizePath(asked.base, asked.path)
Lash == NormalizeCommandPath(asked.base, asked.path)

(* current_process_chdir: resolve, check the directory, install.  Other    *)
(* calls stop after the resolution.                                        *)
Root == <<Slash>>
Idle == [base |-> Root, path |-> Root]
PathInit == cwd = Root /\ asked = Idle
Resolve(path) ==
  /\ asked = Idle /\ path # <<>>
  /\ asked' = [base |-> cwd, path |-> path]
  /\ UNCHANGED cwd
Install == Kernel.ok /\ cwd' = Kernel.path /\ asked' = Idle
GiveUp == asked' = Idle /\ UNCHANGED cwd
PathNext == (\E path \in PathSet : Resolve(path)) \/ Install \/ GiveUp

-----------------------------------------------------------------------------
(* The reference: a path is a list of names.                               *)
Named(names, part) ==
  CASE part \in {<<>>, Dot} -> names
    [] part = DotDot -> IF names = <<>> THEN names ELSE Front(names)
    [] OTHER -> Append(names, part)
NamesIn(path) ==
  LET parts == Split(path)
      names[n \in 0..Len(parts)] == IF n = 0 THEN <<>> ELSE Named(names[n - 1], parts[n])
  IN  names[Len(parts)]
Meant(base, path) == NamesIn(IF path[1] = Slash THEN path ELSE Append(base, Slash) \o path)
Spelled(names) ==
  LET spelled[n \in 0..Len(names)] ==
        IF n = 0 THEN <<>> ELSE Append(spelled[n - 1], Slash) \o names[n]
  IN  IF names = <<>> THEN <<Slash>> ELSE spelled[Len(names)]

(* Where a path starts.                                                    *)
Whence(base, path) == IF path[1] = Slash THEN Root ELSE base
(* From every cwd that chdir can install, the kernel's in-place resolver   *)
(* yields the one canonical spelling of the names the path stands for, and *)
(* refuses only a path that, with the cwd before it unless it is absolute, *)
(* outgrows the buffer or the component table.                             *)
ResolvesAsMeant ==
  LET from == Whence(asked.base, asked.path)
  IN  /\ Kernel.ok => Kernel.path = Spelled(Meant(asked.base, asked.path))
      /\ ~Kernel.ok => \/ Len(from) + Len(asked.path) + 1 > Capacity
                       \/ Len(NamesIn(from)) + Len(Split(asked.path)) > MaxComponents

(* `where` names the program the kernel runs: lash's resolver and the      *)
(* kernel's agree on every path the kernel accepts, and lash refuses none  *)
(* of those.                                                               *)
ResolversAgree == Kernel.ok => Lash = Kernel
=============================================================================
