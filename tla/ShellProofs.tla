----------------------------- MODULE ShellProofs -----------------------------
(***************************************************************************)
(* Proofs about Shell: how lash steps through a line, for every list of    *)
(* segments, every PATH, every disk and every set of exit statuses.        *)
(*                                                                         *)
(* The actions of lash have three effects.  A segment is settled: a record *)
(* of what became of it is added to the history and the loop moves on.  A  *)
(* search goes one candidate further.  Or the shell ends.                  *)
(*                                                                         *)
(* The last parts are about the buffers a spawn names to the kernel, about *)
(* the environment, and about the arguments that reach a program.          *)
(***************************************************************************)
EXTENDS Shell, FiniteSetTheorems, SequenceTheorems, WellFoundedInduction, TLAPS

-----------------------------------------------------------------------------
Results == Statuses \cup {0, 1}
Entries == Dirs \cup {NotAbsolute}
Records ==
  [ran : BOOLEAN, status : Results, started : Seq(Dirs), shown : Seq(Dirs),
   path : Seq(Entries), cwd : Dirs]

LashType ==
  /\ line \in Seq(Segments) /\ disk \in Disks
  /\ path \in Seq(Entries) /\ cwd \in Dirs
  /\ index \in Nat \ {0} /\ entry \in Nat \ {0}
  /\ last \in Results
  /\ pc \in {"segment", "run", "where", "exited"}
  /\ started \in Seq(Dirs) /\ shown \in Seq(Dirs)
  /\ history \in Seq(Records)

(* The history tells of the segments before index; a search is for a       *)
(* segment that runs.                                                      *)
Looking ==
  pc \in {"run", "where"} =>
    /\ index <= Len(line) /\ ShouldRun
    /\ line[index].cmd = IF pc = "run" THEN "bare" ELSE "where"
LashShape ==
  /\ Len(history) = index - 1
  /\ Looking

(* m is the nearest segment before i that ran.                             *)
Nearest(m, i) == m \in Ran /\ m < i /\ \A j \in Ran : j < i => j <= m
Asked(op, status) ==
  \/ op = "Sequence"
  \/ op = "And" /\ status = 0
  \/ op = "Or" /\ status # 0

(* Each segment but the first has such a one, and ran as its operator asks *)
(* for; the loop's last_status is that of the nearest one.                 *)
RanAsAsked ==
  \A i \in 1..Len(history) :
    IF i = 1 THEN history[i].ran
    ELSE \E m \in 1..(i - 1) :
           Nearest(m, i) /\ (history[i].ran <=> Asked(line[i].op, history[m].status))
LastFollows ==
  index > 1 =>
    \E m \in 1..(index - 1) :
      Nearest(m, index) /\ (pc # "exited" => last = history[m].status)

OrderInv == LashType /\ LashShape /\ RanAsAsked /\ LastFollows

-----------------------------------------------------------------------------
(* The three effects.                                                      *)
Typed ==
  /\ path' \in Seq(Entries) /\ cwd' \in Dirs /\ entry' \in Nat \ {0}
  /\ started' \in Seq(Dirs) /\ shown' \in Seq(Dirs)
Settles(rec) ==
  /\ rec \in Records /\ Typed /\ UNCHANGED Session
  /\ pc # "exited" /\ index <= Len(line) /\ (rec.ran <=> ShouldRun)
  /\ history' = Append(history, rec) /\ index' = index + 1 /\ pc' = "segment"
  /\ last' = IF rec.ran THEN rec.status ELSE last
  /\ rec.started = started' /\ rec.shown = shown' /\ rec.path = path /\ rec.cwd = cwd
Seeks ==
  /\ Typed /\ UNCHANGED Session
  /\ pc # "exited" /\ UNCHANGED <<index, last, history>>
  /\ pc' \in {"run", "where"}
  /\ index <= Len(line) /\ ShouldRun
  /\ line[index].cmd = IF pc' = "run" THEN "bare" ELSE "where"
Stops ==
  /\ Typed /\ UNCHANGED Session
  /\ pc' = "exited" /\ last' \in Results /\ UNCHANGED <<index, history>>

-----------------------------------------------------------------------------
(* The PATH lash starts with is a sequence of the directories.             *)
LEMMA FirstPath == SetToSeq(Dirs) \in Seq(Entries)
<1>1. Cardinality(Dirs) \in Nat /\ Bijection(1..Cardinality(Dirs), Dirs) # {}
  BY FS_CardinalityType, LashAssumption DEF ExistsBijection
<1>2. PICK f \in [1..Cardinality(Dirs) -> Dirs] : IsInjective(f)
  BY <1>1 DEF Bijection, Injection
<1>3. SetToSeq(Dirs) \in [1..Cardinality(Dirs) -> Dirs]
  BY <1>2 DEF SetToSeq
<1> QED  BY <1>1, <1>3, SeqDef DEF Entries

LEMMA BoundedIsSeq == ASSUME NEW S, NEW n \in Nat, NEW s \in BoundedSeq(S, n)
                      PROVE  s \in Seq(S)
  BY SeqDef DEF BoundedSeq, SeqOf

LEMMA InitOrder == LashInit => OrderInv
<1> SUFFICES ASSUME LashInit PROVE OrderInv
  OBVIOUS
<1>1. LashType
  BY FirstPath, BoundedIsSeq, LashAssumption DEF LashInit, LashType, Results
<1>2. Len(history) = 0 /\ index = 1 /\ pc = "segment"
  BY DEF LashInit
<1> QED  BY <1>1, <1>2 DEF OrderInv, LashShape, Looking, RanAsAsked, LastFollows

-----------------------------------------------------------------------------
(* The steps of lash, by their effect.                                     *)
LEMMA SettledRecord ==
  ASSUME OrderInv, Typed, NEW s \in Results, Finish(s), UNCHANGED Session,
         pc # "exited", index <= Len(line), ShouldRun
  PROVE  Settles(Record(TRUE, s))
<1>1. Record(TRUE, s) \in Records
  BY DEF Record, Records, OrderInv, LashType, Typed
<1> QED  BY <1>1 DEF Settles, Finish, Record

LEMMA Answers ==
  ASSUME NEW file \in {"absent", "program", "junk", "misnamed", "unreadable"},
         NEW answer \in Spawned(file)
  PROVE  /\ StatusOf(answer.word) \in Results
         /\ answer.run => file = "program"
         /\ file # "absent" /\ FILE_NOT_FOUND \notin Statuses => answer.word # FILE_NOT_FOUND
         /\ file = "absent" => answer.word = FILE_NOT_FOUND
         /\ ~answer.run => StatusOf(answer.word) = 1
<1> USE LashAssumption DEF Spawned, StatusOf, Results, INVALID_PATH, FILE_NOT_FOUND,
                           INVALID_EXECUTABLE, RESOURCE_UNAVAILABLE
<1>1. CASE file = "absent"  BY <1>1
<1>2. CASE file = "program"  BY <1>2
<1>3. CASE file = "junk"  BY <1>3
<1>4. CASE file = "misnamed"  BY <1>4
<1>5. CASE file = "unreadable"  BY <1>5
<1> QED  BY <1>1, <1>2, <1>3, <1>4, <1>5

LEMMA Found == ASSUME disk \in Disks, NEW d \in Dirs
               PROVE  disk[d] \in {"absent", "program", "junk", "misnamed", "unreadable"}
  BY LashAssumption

Effect == (\E rec \in Records : Settles(rec)) \/ Seeks \/ Stops
LEMMA Effects == OrderInv /\ LashNext => Effect
<1> SUFFICES ASSUME OrderInv, LashNext PROVE Effect
  OBVIOUS
<1> USE DEF OrderInv, LashType
<1>ok. 0 \in Results /\ 1 \in Results /\ <<>> \in Seq(Dirs) /\ <<>> \in Seq(Entries)
  BY DEF Results
<1>rec. ASSUME NEW s \in Results, Typed, Finish(s), UNCHANGED Session,
               pc # "exited", index <= Len(line), ShouldRun
        PROVE  Effect
  BY <1>rec, SettledRecord DEF Effect, Settles
<1>beg. ASSUME NEW cmd, Begins(cmd)
        PROVE  UNCHANGED Session /\ pc # "exited" /\ index <= Len(line) /\ ShouldRun
  BY <1>beg DEF Begins, Reached
<1>fin. ASSUME NEW s, Finish(s) PROVE entry' \in Nat \ {0}
  BY <1>fin DEF Finish
<1>qui. ASSUME Quiet PROVE started' \in Seq(Dirs) /\ shown' \in Seq(Dirs)
  BY <1>qui, <1>ok DEF Quiet
<1>0. CASE SkipSegment
  <2>1. Record(FALSE, last) \in Records
    BY <1>0, <1>ok DEF SkipSegment, Quiet, Record, Records
  <2>2. Settles(Record(FALSE, last))
    BY <1>0, <2>1, <1>ok DEF SkipSegment, Quiet, Settles, Reached, Record, Typed
  <2> QED  BY <2>1, <2>2 DEF Effect
<1>1. CASE Malformed
  <2>1. Typed
    BY <1>1, <1>fin, <1>qui DEF Malformed, Typed
  <2> QED  BY <1>1, <2>1, <1>beg, <1>ok, <1>rec DEF Malformed
<1>2. CASE RunCd
  <2>2. path' \in Seq(Entries) /\ cwd' \in Dirs
    BY <1>2 DEF RunCd
  <2>3. Typed
    BY <1>2, <2>2, <1>fin, <1>qui DEF RunCd, Typed
  <2> QED  BY <1>2, <2>3, <1>beg, <1>ok, <1>rec DEF RunCd
<1>3. CASE RunSet
  <2>1. ASSUME NEW p \in Paths PROVE p \in Seq(Entries)
    BY <2>1, BoundedIsSeq, LashAssumption DEF Paths, Entries
  <2>2. path' \in Seq(Entries) /\ cwd' \in Dirs
    BY <1>3, <2>1 DEF RunSet
  <2>3. Typed
    BY <1>3, <2>2, <1>fin, <1>qui DEF RunSet, Typed
  <2> QED  BY <1>3, <2>3, <1>beg, <1>ok, <1>rec DEF RunSet
<1>4. CASE RunUnset
  <2>2. path' \in Seq(Entries) /\ cwd' \in Dirs
    BY <1>4, <1>ok DEF RunUnset
  <2>3. Typed
    BY <1>4, <2>2, <1>fin, <1>qui DEF RunUnset, Typed
  <2> QED  BY <1>4, <2>3, <1>beg, <1>ok, <1>rec DEF RunUnset
<1>5. CASE RunEnv
  <2>2. path' \in Seq(Entries) /\ cwd' \in Dirs
    BY <1>5 DEF RunEnv
  <2>3. Typed
    BY <1>5, <2>2, <1>fin, <1>qui DEF RunEnv, Typed
  <2> QED  BY <1>5, <2>3, <1>beg, <1>ok, <1>rec DEF RunEnv
<1>6. CASE RunExit
  BY <1>6, <1>ok DEF RunExit, Begins, Quiet, Effect, Stops, Typed
<1>7. CASE RunAtPath
  <2>1. PICK answer \in Spawned(disk[cwd]) :
          /\ started' = IF answer.run THEN <<cwd>> ELSE <<>>
          /\ Finish(StatusOf(answer.word))
    BY <1>7 DEF RunAtPath
  <2>2. Typed /\ UNCHANGED Session /\ pc # "exited" /\ index <= Len(line) /\ ShouldRun
    BY <1>7, <2>1, <1>ok DEF RunAtPath, Begins, Reached, Typed, Finish
  <2> QED  BY <2>1, <2>2, <1>rec, Answers, Found
<1>8. CASE WhereAtPath
  <2>2. Typed /\ UNCHANGED Session /\ pc # "exited" /\ index <= Len(line) /\ ShouldRun
    BY <1>8, <1>ok DEF WhereAtPath, Begins, Reached, Typed, Finish
  <2> QED  BY <1>8, <2>2, <1>ok, <1>rec DEF WhereAtPath
<1>9. CASE StartSearch
  BY <1>9, <1>ok DEF StartSearch, Begins, Reached, Quiet, Effect, Seeks, Typed
<1>in. ASSUME NEW kind \in {"run", "where"}, Searching(kind)
       PROVE  /\ pc # "exited" /\ index <= Len(line) /\ ShouldRun /\ UNCHANGED <<Session, path, cwd>>
              /\ line[index].cmd = IF pc = "run" THEN "bare" ELSE "where"
              /\ pc = kind
  BY <1>in DEF Searching, LashShape, Looking
<1>10. CASE SkipEntry
  <2>1. PICK kind \in {"run", "where"} : Searching(kind)
    BY <1>10 DEF SkipEntry
  <2> QED  BY <1>10, <2>1, <1>in DEF SkipEntry, Continue, Effect, Seeks, Typed
<1>11. CASE TryCandidate
  <2>1. PICK answer \in Spawned(disk[path[entry]]) :
          /\ started' = IF answer.run THEN Append(started, path[entry]) ELSE started
          /\ IF answer.word = FILE_NOT_FOUND THEN Continue ELSE Finish(StatusOf(answer.word))
    BY <1>11 DEF TryCandidate
  <2>2. started' \in Seq(Dirs)
    BY <1>11, <2>1 DEF TryCandidate
  <2>3. CASE Continue
    BY <1>11, <2>2, <2>3, <1>in DEF TryCandidate, Continue, Effect, Seeks, Typed
  <2>4. CASE Finish(StatusOf(answer.word))
    <3>1. Typed /\ UNCHANGED Session /\ pc # "exited" /\ index <= Len(line) /\ ShouldRun
      BY <1>11, <2>2, <2>4, <1>in DEF TryCandidate, Finish, Typed
    <3>2. path[entry] \in Dirs
      BY <1>11 DEF TryCandidate
    <3> QED  BY <2>4, <3>1, <3>2, <1>rec, Answers, Found
  <2> QED  BY <2>1, <2>3, <2>4
<1>12. CASE ProbeCandidate
  <2>1. shown' \in Seq(Dirs)
    BY <1>12 DEF ProbeCandidate
  <2>2. CASE Continue
    BY <1>12, <2>1, <2>2, <1>in DEF ProbeCandidate, Continue, Effect, Seeks, Typed
  <2>3. CASE Finish(1)
    <3>1. Typed /\ UNCHANGED Session /\ pc # "exited" /\ index <= Len(line) /\ ShouldRun
      BY <1>12, <2>1, <2>3, <1>in DEF ProbeCandidate, Finish, Typed
    <3> QED  BY <2>3, <3>1, <1>rec, <1>ok
  <2> QED  BY <1>12, <2>2, <2>3 DEF ProbeCandidate
<1>13. CASE EndSearch
  <2>1. Typed /\ UNCHANGED Session /\ pc # "exited" /\ index <= Len(line) /\ ShouldRun
    BY <1>13, <1>ok DEF EndSearch, Finish, Typed, LashShape, Looking
  <2> QED  BY <1>13, <2>1, <1>rec, <1>ok DEF EndSearch
<1>14. CASE ExitBatch
  BY <1>14 DEF ExitBatch, Search, Effect, Stops, Typed
<1> QED
  BY <1>0, <1>1, <1>2, <1>3, <1>4, <1>5, <1>6, <1>7, <1>8, <1>9, <1>10, <1>11, <1>12, <1>13, <1>14
     DEF LashNext

-----------------------------------------------------------------------------
(* A settled segment leaves the earlier records and who ran among them.    *)
LEMMA Settled ==
  ASSUME OrderInv, NEW rec \in Records, Settles(rec)
  PROVE  /\ history' \in Seq(Records) /\ Len(history') = index
         /\ \A i \in 1..(index - 1) : history'[i] = history[i]
         /\ history'[index] = rec
         /\ Ran \subseteq 1..(index - 1)
         /\ \A j : j \in Ran' <=> j \in Ran \/ (rec.ran /\ j = index)
<1> USE DEF OrderInv, LashType, LashShape, Settles
<1>1. /\ history' \in Seq(Records) /\ Len(history') = index
      /\ \A i \in 1..(index - 1) : history'[i] = history[i]
      /\ history'[index] = rec
  OBVIOUS
<1>2. DOMAIN history = 1..(index - 1) /\ DOMAIN history' = 1..index
  BY <1>1
<1>3. Ran = {i \in 1..(index - 1) : history[i].ran}
  BY <1>2 DEF Ran
<1>4. Ran' = {i \in 1..index : history'[i].ran}
  BY <1>2 DEF Ran
<1> QED  BY <1>1, <1>3, <1>4

LEMMA SettlesKeepsOrder ==
  ASSUME OrderInv, NEW rec \in Records, Settles(rec) PROVE OrderInv'
<1> USE DEF OrderInv
<1>1. LashType'
  <2>1. rec.status \in Results
    BY DEF Records
  <2> QED  BY <2>1, Settled DEF LashType, Settles, Typed, Session
<1>2. LashShape'
  BY Settled DEF LashShape, Looking, Settles, LashType
<1>3. RanAsAsked'
  <2> SUFFICES ASSUME NEW i \in 1..index
               PROVE  IF i = 1 THEN history'[i].ran
                      ELSE \E m \in 1..(i - 1) :
                             /\ Nearest(m, i)'
                             /\ history'[i].ran <=> Asked(line[i].op, history'[m].status)
    <3>1. line' = line
      BY DEF Settles, Session
    <3> QED  BY <3>1, Settled DEF RanAsAsked, Asked
  <2>0. index \in Nat \ {0} /\ Len(history) = index - 1
    BY DEF LashType, LashShape
  <2>1. CASE i < index
    <3>1. CASE i = 1
      BY <2>0, <2>1, <3>1, Settled DEF RanAsAsked
    <3>2. CASE i # 1
      <4>1. PICK m \in 1..(i - 1) :
              Nearest(m, i) /\ (history[i].ran <=> Asked(line[i].op, history[m].status))
        BY <2>0, <2>1, <3>2 DEF RanAsAsked
      <4>s. /\ \A j : j \in Ran' => j \in Ran \/ j = index
            /\ \A j : j \in Ran => j \in Ran' /\ j \in 1..(index - 1)
        BY Settled
      <4>n. m \in Ran /\ \A j \in Ran : j < i => j <= m
        BY <4>1 DEF Nearest
      <4>2. Nearest(m, i)'
        BY <2>0, <2>1, <4>1, <4>s, <4>n DEF Nearest
      <4> QED  BY <2>0, <2>1, <3>2, <4>1, <4>2, Settled
    <3> QED  BY <3>1, <3>2
  <2>2. CASE i = index /\ i = 1
    BY <2>2, Settled DEF Settles, ShouldRun
  <2>3. CASE i = index /\ i # 1
    <3>1. PICK m \in 1..(index - 1) : Nearest(m, index) /\ last = history[m].status
      BY <2>0, <2>3 DEF LastFollows, Settles
    <3>s. /\ \A j : j \in Ran' => j \in Ran \/ j = index
          /\ \A j : j \in Ran => j \in Ran' /\ j \in 1..(index - 1)
      BY Settled
    <3>n. m \in Ran /\ \A j \in Ran : j < index => j <= m
      BY <3>1 DEF Nearest
    <3>2. Nearest(m, i)'
      BY <2>0, <2>3, <3>1, <3>s, <3>n DEF Nearest
    <3>3. history'[i].ran <=> Asked(line[i].op, history'[m].status)
      BY <2>0, <2>3, <3>1, Settled DEF Settles, ShouldRun, Asked
    <3> QED  BY <2>3, <3>1, <3>2, <3>3
  <2> QED  BY <2>0, <2>1, <2>2, <2>3
<1>4. LastFollows'
  <2>0. index \in Nat \ {0} /\ Len(history) = index - 1 /\ index' = index + 1
    BY DEF LashType, LashShape, Settles
  <2>1. CASE rec.ran
    <3>1. PICK k \in 1..index : k = index
      BY <2>0
    <3>2. Nearest(k, k + 1)' /\ last' = history'[k].status
      BY <2>0, <2>1, <3>1, Settled DEF Nearest, Settles
    <3>3. k \in 1..(index' - 1) /\ index' = k + 1
      BY <2>0, <3>1
    <3> QED  BY <3>2, <3>3 DEF LastFollows, Nearest
  <2>2. CASE ~rec.ran
    <3>1. index > 1
      BY <2>0, <2>2 DEF Settles, ShouldRun
    <3>2. PICK m \in 1..(index - 1) : Nearest(m, index) /\ last = history[m].status
      BY <2>0, <3>1 DEF LastFollows, Settles
    <3>3. PICK k \in 1..index : k = index
      BY <2>0
    <3>s. /\ \A j : j \in Ran' <=> j \in Ran
          /\ \A j \in Ran : j \in 1..(index - 1)
      BY <2>2, Settled
    <3>n. m \in Ran /\ \A j \in Ran : j < index => j <= m
      BY <3>2 DEF Nearest
    <3>t. last' = history'[m].status
      BY <2>2, <3>2, Settled DEF Settles
    <3>4. Nearest(m, k + 1)' /\ last' = history'[m].status
      <4>1. \A j \in Ran : j < index
        BY <2>0, <3>s
      <4>2. \A j \in Ran' : j <= m
        BY <4>1, <3>s, <3>n
      <4>3. m \in Ran' /\ m < k + 1
        BY <2>0, <3>3, <3>s, <3>n
      <4> QED  BY <4>2, <4>3, <3>t DEF Nearest
    <3>5. m \in 1..(index' - 1) /\ index' = k + 1
      BY <2>0, <3>2, <3>3
    <3> QED  BY <3>4, <3>5 DEF LastFollows, Nearest
  <2> QED  BY <2>1, <2>2
<1> QED  BY <1>1, <1>2, <1>3, <1>4

LEMMA OthersKeepOrder == OrderInv /\ (Seeks \/ Stops \/ UNCHANGED lashVars) => OrderInv'
<1> SUFFICES ASSUME OrderInv, Seeks \/ Stops \/ UNCHANGED lashVars PROVE OrderInv'
  OBVIOUS
<1> USE DEF OrderInv
<1>1. UNCHANGED <<Session, index, history>>
  BY DEF Seeks, Stops, lashVars, Session
<1>2. RanAsAsked'
  BY <1>1 DEF RanAsAsked, Nearest, Ran, Asked, Session
<1>3. LastFollows'
  BY <1>1 DEF LastFollows, Nearest, Ran, Session, Seeks, Stops, lashVars
<1>4. LashType'
  BY DEF LashType, Seeks, Stops, lashVars, Typed, Session
<1>5. LashShape'
  BY <1>1 DEF LashShape, Looking, ShouldRun, Seeks, Stops, lashVars, Session
<1> QED  BY <1>2, <1>3, <1>4, <1>5

LEMMA NextKeepsOrder == OrderInv /\ [Next]_vars => OrderInv'
<1> SUFFICES ASSUME OrderInv, [Next]_vars PROVE OrderInv'
  OBVIOUS
<1>1. LashNext \/ UNCHANGED lashVars
  BY DEF Next, Execute, UseEnvironment, PassArguments, vars
<1> QED  BY <1>1, Effects, SettlesKeepsOrder, OthersKeepOrder DEF Effect

(* The order of segments in every state of the shell: what ran, why, and   *)
(* which status the next segment is measured by.                           *)
THEOREM OrderInvariant == Spec => []OrderInv
<1>1. Init => OrderInv
  BY InitOrder DEF Init
<1> QED  BY <1>1, NextKeepsOrder, PTL DEF Spec

LEMMA MaxOf == ASSUME NEW S \in SUBSET Nat, NEW m \in S, \A j \in S : j <= m
               PROVE  Max(S) = m
<1>1. \A x \in S : (\A y \in S : x >= y) <=> x = m
  OBVIOUS
<1> QED  BY <1>1 DEF Max

LEMMA OrderImplies == OrderInv => OperatorsHonoured
<1> SUFFICES ASSUME OrderInv PROVE OperatorsHonoured
  OBVIOUS
<1> USE DEF OrderInv
<1>0. DOMAIN history = 1..Len(history) /\ Len(history) = index - 1 /\ Ran \subseteq 1..Len(history)
  BY DEF LashType, LashShape, Ran
<1>1. ASSUME NEW i \in DOMAIN history
      PROVE  LET before == {j \in Ran : j < i}
                 left == IF before = {} THEN 0 ELSE history[Max(before)].status
             IN  history[i].ran <=> \/ i = 1
                                    \/ line[i].op = "Sequence"
                                    \/ line[i].op = "And" /\ left = 0
                                    \/ line[i].op = "Or" /\ left # 0
  <2>1. CASE i = 1
    BY <1>0, <1>1, <2>1 DEF RanAsAsked
  <2>2. CASE i # 1
    <3>1. PICK m \in 1..(i - 1) :
            Nearest(m, i) /\ (history[i].ran <=> Asked(line[i].op, history[m].status))
      BY <1>0, <1>1, <2>2 DEF RanAsAsked
    <3>2. m \in {j \in Ran : j < i} /\ Max({j \in Ran : j < i}) = m
      BY <1>0, <3>1, MaxOf DEF Nearest
    <3> QED  BY <2>2, <3>1, <3>2 DEF Asked
  <2> QED  BY <2>1, <2>2
<1>2. ASSUME Ran # {}, pc = "segment" PROVE last = history[Max(Ran)].status
  <2>0. index \in Nat \ {0}
    BY DEF LashType
  <2>1. index > 1
    <3>1. PICK r : r \in Ran
      BY <1>2
    <3>2. r \in 1..(index - 1)
      BY <1>0, <3>1
    <3> QED  BY <2>0, <3>2
  <2>2. PICK m \in 1..(index - 1) : Nearest(m, index) /\ last = history[m].status
    BY <1>2, <2>1 DEF LastFollows
  <2>3. Max(Ran) = m
    BY <1>0, <2>0, <2>2, MaxOf DEF Nearest
  <2> QED  BY <2>2, <2>3
<1> QED  BY <1>1, <1>2 DEF OperatorsHonoured

(* &&, || and ; are honoured over any number of segments and skips: each   *)
(* segment is measured by the nearest one before it that ran (shell.rs).   *)
THEOREM OperatorsCorrect == Spec => []OperatorsHonoured
  BY OrderInvariant, OrderImplies, PTL

-----------------------------------------------------------------------------
(* What a settled segment of each kind has to show for itself, read off    *)
(* the disk.  First(m, p): the first entry of p where the name is found.   *)
First(m, p) == m \in Holding(p) /\ \A k \in Holding(p) : m <= k
BareSound(h) ==
  \/ Holding(h.path) = {} /\ h.started = <<>> /\ h.status = 1
  \/ \E m \in DOMAIN h.path :
       /\ First(m, h.path)
       /\ \/ disk[h.path[m]] = "program" /\ h.started = <<h.path[m]>>
          \/ h.started = <<>> /\ h.status = 1
WhereSound(h) ==
  \A m \in DOMAIN h.path :
    First(m, h.path) /\ disk[h.path[m]] = "program"
      => h.shown # <<>> /\ Head(h.shown) = h.path[m]
Sound(cmd, h) ==
  /\ cmd = "bare" => BareSound(h)
  /\ cmd = "where" => WhereSound(h)
  /\ cmd = "explicit" =>
       h.started = <<>> \/ (h.started = <<h.cwd>> /\ disk[h.cwd] = "program")
  /\ cmd = "where_explicit" => (disk[h.cwd] = "program" => h.shown = <<h.cwd>>)

(* `where` leaves PATH and the directory as they are for the next segment. *)
Tells == {"where", "where_explicit"}
RecordSound(i) == history[i].ran => Sound(line[i].cmd, history[i])
Stands(i) ==
  history[i].ran /\ line[i].cmd \in Tells =>
    IF i = Len(history) THEN path = history[i].path /\ cwd = history[i].cwd
    ELSE history[i + 1].path = history[i].path /\ history[i + 1].cwd = history[i].cwd

(* A search that has come to `entry`: nothing is started yet, and nothing  *)
(* was found before; or `where` has printed what it found first.           *)
NothingBefore == \A k \in Holding(path) : k >= entry
SearchInv ==
  /\ pc = "run" => started = <<>> /\ NothingBefore
  /\ pc = "where" =>
       \/ shown = <<>> /\ NothingBefore
       \/ \E m \in DOMAIN path : First(m, path) /\ shown # <<>> /\ Head(shown) = path[m]

FoundInv ==
  /\ \A i \in 1..Len(history) : RecordSound(i) /\ Stands(i)
  /\ SearchInv

LEMMA InitFound == LashInit => FoundInv
  BY DEF LashInit, FoundInv, SearchInv

(* A step that settles a segment that runs settles it soundly.             *)
LEMMA SettlesSoundly ==
  ASSUME OrderInv, SearchInv, LashNext, index' = index + 1, ShouldRun,
         FILE_NOT_FOUND \notin Statuses
  PROVE  /\ Sound(line[index].cmd, Record(TRUE, last'))
         /\ line[index].cmd \in Tells => UNCHANGED <<path, cwd>>
<1> DEFINE cmd == line[index].cmd
           h == Record(TRUE, last')
<1> USE DEF OrderInv, LashType
<1>0. index + 1 # index
  OBVIOUS
<1>h. /\ h.path = path /\ h.cwd = cwd /\ h.started = started' /\ h.shown = shown' /\ h.status = last'
  BY DEF Record
<1>fin. ASSUME NEW s, Finish(s) PROVE last' = s
  BY <1>fin DEF Finish
<1> HIDE DEF h
<1>1. CASE \E c \in {"malformed", "cd", "set", "unset", "env"} : Begins(c)
  BY <1>1 DEF Begins, Sound, Tells
<1>2. CASE RunAtPath
  <2>1. PICK answer \in Spawned(disk[cwd]) : started' = IF answer.run THEN <<cwd>> ELSE <<>>
    BY <1>2 DEF RunAtPath
  <2>2. answer.run => disk[cwd] = "program"
    BY Answers, Found
  <2> QED  BY <1>2, <1>h, <2>1, <2>2 DEF RunAtPath, Begins, Sound, Tells, h
<1>3. CASE WhereAtPath
  <2>1. disk[cwd] = "program" => shown' = <<cwd>>
    BY <1>3 DEF WhereAtPath, Probed
  <2> QED  BY <1>3, <1>h, <2>1 DEF WhereAtPath, Begins, Sound, Tells, h
<1>4. CASE TryCandidate
  <2>1. PICK answer \in Spawned(disk[path[entry]]) :
          /\ started' = IF answer.run THEN Append(started, path[entry]) ELSE started
          /\ IF answer.word = FILE_NOT_FOUND THEN Continue ELSE Finish(StatusOf(answer.word))
    BY <1>4 DEF TryCandidate
  <2>2. cmd = "bare" /\ started = <<>> /\ NothingBefore /\ path[entry] \in Dirs /\ entry \in DOMAIN path
    BY <1>4 DEF TryCandidate, Searching, LashShape, Looking, SearchInv
  <2>3. answer.word # FILE_NOT_FOUND /\ last' = StatusOf(answer.word)
    BY <1>0, <2>1, <1>fin DEF Continue
  <2>4. disk[path[entry]] # "absent" /\ First(entry, path)
    BY <2>2, <2>3, Answers, Found DEF First, Holding, NothingBefore
  <2>5. IF answer.run THEN disk[path[entry]] = "program" /\ started' = <<path[entry]>>
        ELSE started' = <<>> /\ last' = 1
    <3>1. Append(<<>>, path[entry]) = <<path[entry]>>
      OBVIOUS
    <3>2. disk[path[entry]] \in {"absent", "program", "junk", "misnamed", "unreadable"}
      BY <2>2, Found
    <3>3. IF answer.run THEN disk[path[entry]] = "program" ELSE StatusOf(answer.word) = 1
      BY <2>1, <3>2, Answers
    <3> QED  BY <2>1, <2>2, <2>3, <3>1, <3>3
  <2>6. BareSound(h)
    BY <1>h, <2>2, <2>4, <2>5 DEF BareSound
  <2> QED  BY <2>2, <2>6 DEF Sound, Tells, h
<1>5. CASE ProbeCandidate
  <2>1. cmd = "where" /\ path[entry] \in Dirs /\ entry \in DOMAIN path /\ UNCHANGED <<path, cwd>>
    BY <1>5 DEF ProbeCandidate, Searching, LashShape, Looking
  <2>2. Probed(disk[path[entry]]) = "Return" /\ shown' = shown
    BY <1>0, <1>5 DEF ProbeCandidate, Continue
  <2>3. disk[path[entry]] # "absent" /\ disk[path[entry]] # "program"
    BY <2>2 DEF Probed
  <2>4. ASSUME NEW m \in DOMAIN path, First(m, path), disk[path[m]] = "program"
        PROVE  shown # <<>> /\ Head(shown) = path[m]
    <3>1. CASE NothingBefore
      <4>1. entry \in Holding(path)
        BY <2>1, <2>3 DEF Holding
      <4>2. m = entry
        BY <2>4, <3>1, <4>1 DEF First, NothingBefore
      <4> QED  BY <2>3, <2>4, <4>2
    <3>2. CASE \E n \in DOMAIN path : First(n, path) /\ shown # <<>> /\ Head(shown) = path[n]
      BY <2>4, <3>2 DEF First
    <3> QED  BY <1>5, <3>1, <3>2 DEF SearchInv, ProbeCandidate, Searching
  <2>5. WhereSound(h)
    BY <1>h, <2>2, <2>4 DEF WhereSound
  <2> QED  BY <2>1, <2>5 DEF Sound, Tells, h
<1>6. CASE EndSearch
  <2>1. UNCHANGED <<path, cwd, started, shown>> /\ pc \in {"run", "where"} /\ DOMAIN path = 1..Len(path)
    BY <1>6 DEF EndSearch
  <2>2. ASSUME NothingBefore PROVE Holding(path) = {}
    BY <1>6, <2>1, <2>2 DEF NothingBefore, Holding, EndSearch
  <2>3. CASE pc = "run"
    <3>1. cmd = "bare" /\ started = <<>> /\ NothingBefore /\ last' = 1
      BY <1>6, <1>fin, <2>3 DEF EndSearch, LashShape, Looking, SearchInv
    <3>2. BareSound(h)
      BY <1>h, <2>1, <2>2, <3>1 DEF BareSound
    <3> QED  BY <3>1, <3>2 DEF Sound, Tells, h
  <2>4. CASE pc = "where"
    <3>1. cmd = "where"
      BY <2>4 DEF LashShape, Looking
    <3>2. WhereSound(h)
      BY <1>h, <2>1, <2>2, <2>4 DEF WhereSound, SearchInv, First
    <3> QED  BY <2>1, <3>1, <3>2 DEF Sound, Tells, h
  <2> QED  BY <2>1, <2>3, <2>4
<1>7. CASE SkipSegment \/ RunExit \/ StartSearch \/ SkipEntry \/ ExitBatch
  BY <1>0, <1>7 DEF SkipSegment, RunExit, StartSearch, SkipEntry, Continue, ExitBatch
<1> QED
  BY <1>1, <1>2, <1>3, <1>4, <1>5, <1>6, <1>7
     DEF LashNext, Malformed, RunCd, RunSet, RunUnset, RunEnv

(* Every other step leaves PATH, the directory and the history, and a      *)
(* search knows as much of the entries behind it as before.                *)
LEMMA SeeksSoundly ==
  ASSUME OrderInv, SearchInv, LashNext, index' = index, FILE_NOT_FOUND \notin Statuses
  PROVE  UNCHANGED <<Session, path, cwd, history>> /\ SearchInv'
<1> USE DEF OrderInv, LashType
<1>0. index + 1 # index
  OBVIOUS
<1>fin. ASSUME NEW s, Finish(s) PROVE FALSE
  BY <1>0, <1>fin DEF Finish
<1>1. CASE RunExit \/ ExitBatch
  BY <1>1 DEF RunExit, Begins, ExitBatch, SearchInv
<1>2. CASE StartSearch
  <2>1. UNCHANGED <<Session, path, cwd, history>> /\ started' = <<>> /\ shown' = <<>> /\ entry' = 1
    BY <1>2 DEF StartSearch, Begins, Quiet
  <2>2. NothingBefore'
    BY <2>1 DEF NothingBefore, Holding, Session
  <2> QED  BY <2>1, <2>2 DEF SearchInv
<1>n. ASSUME NothingBefore, entry \notin Holding(path), Continue, UNCHANGED <<Session, path>>
      PROVE  NothingBefore'
  <2>1. \A k \in Holding(path) : k \in Nat /\ k >= entry /\ k # entry
    BY <1>n DEF NothingBefore, Holding
  <2>2. Holding(path)' = Holding(path) /\ entry' = entry + 1
    BY <1>n DEF Holding, Session, Continue
  <2> QED  BY <2>1, <2>2 DEF NothingBefore
<1>f. ASSUME NEW m \in DOMAIN path, First(m, path), UNCHANGED <<Session, path>>
      PROVE  First(m, path)'
  BY <1>f DEF First, Holding, Session
<1>3. CASE SkipEntry
  <2>1. UNCHANGED <<Session, path, cwd, started, shown, history, pc>> /\ Continue
    BY <1>3 DEF SkipEntry, Searching, Continue
  <2>2. entry \notin Holding(path)
    BY <1>3, LashAssumption DEF SkipEntry, Holding
  <2>3. NothingBefore => NothingBefore'
    BY <2>1, <2>2, <1>n
  <2> QED  BY <2>1, <2>3, <1>f DEF SearchInv
<1>4. CASE TryCandidate
  <2>1. PICK answer \in Spawned(disk[path[entry]]) :
          /\ started' = IF answer.run THEN Append(started, path[entry]) ELSE started
          /\ IF answer.word = FILE_NOT_FOUND THEN Continue ELSE Finish(StatusOf(answer.word))
    BY <1>4 DEF TryCandidate
  <2>2. UNCHANGED <<Session, path, cwd, history, pc>> /\ Continue /\ pc = "run"
    BY <1>4, <2>1, <1>fin DEF TryCandidate, Searching, Continue
  <2>3. disk[path[entry]] = "absent" /\ started' = started
    <3>1. path[entry] \in Dirs /\ answer.word = FILE_NOT_FOUND
      BY <1>4, <2>1, <1>fin DEF TryCandidate
    <3>2. disk[path[entry]] \in {"absent", "program", "junk", "misnamed", "unreadable"}
      BY <3>1, Found
    <3>3. disk[path[entry]] = "absent" /\ ~answer.run
      BY <2>1, <3>1, <3>2, Answers
    <3> QED  BY <2>1, <3>3
  <2>4. NothingBefore'
    BY <2>2, <2>3, <1>n DEF Holding, SearchInv
  <2> QED  BY <2>2, <2>3, <2>4 DEF SearchInv
<1>5. CASE ProbeCandidate
  <2>1. UNCHANGED <<Session, path, cwd, history, pc>> /\ Continue /\ pc = "where"
    BY <1>5, <1>fin DEF ProbeCandidate, Searching, Continue
  <2>2. path[entry] \in Dirs /\ entry \in DOMAIN path
    BY <1>5 DEF ProbeCandidate, Searching
  <2>3. CASE disk[path[entry]] = "absent"
    <3>1. shown' = shown
      BY <1>5, <2>3 DEF ProbeCandidate, Probed
    <3>2. entry \notin Holding(path)
      BY <2>3 DEF Holding
    <3>3. NothingBefore => NothingBefore'
      BY <2>1, <3>2, <1>n
    <3> QED  BY <2>1, <3>1, <3>3, <1>f DEF SearchInv
  <2>4. CASE disk[path[entry]] # "absent"
    <3>1. shown' = Append(shown, path[entry])
      <4>1. Probed(disk[path[entry]]) # "Return"
        BY <1>5, <1>fin DEF ProbeCandidate
      <4>2. Probed(disk[path[entry]]) = "Matched"
        BY <2>2, <2>4, <4>1, Found DEF Probed
      <4> QED  BY <1>5, <4>2 DEF ProbeCandidate
    <3>2. shown' # <<>> /\ Head(shown') = IF shown = <<>> THEN path[entry] ELSE Head(shown)
      BY <2>2, <3>1
    <3>3. CASE shown = <<>> /\ NothingBefore
      <4>1. First(entry, path)
        BY <2>2, <2>4, <3>3 DEF First, Holding, NothingBefore
      <4>2. PICK m \in DOMAIN path : m = entry
        BY <2>2
      <4>3. First(m, path)' /\ Head(shown') = path'[m]
        BY <2>1, <3>2, <3>3, <4>1, <4>2, <1>f
      <4> QED  BY <2>1, <3>2, <4>3 DEF SearchInv
    <3>4. CASE \E m \in DOMAIN path : First(m, path) /\ shown # <<>> /\ Head(shown) = path[m]
      BY <2>1, <3>2, <3>4, <1>f DEF SearchInv
    <3> QED  BY <2>1, <3>3, <3>4 DEF SearchInv
  <2> QED  BY <2>3, <2>4
<1>6. CASE SkipSegment
  BY <1>0, <1>6 DEF SkipSegment
<1> QED
  BY <1>1, <1>2, <1>3, <1>4, <1>5, <1>6, <1>fin
     DEF LashNext, Malformed, RunCd, RunSet, RunUnset, RunEnv, RunAtPath, WhereAtPath, EndSearch

LEMMA NextKeepsFound ==
  ASSUME FILE_NOT_FOUND \notin Statuses
  PROVE  OrderInv /\ FoundInv /\ [Next]_vars => FoundInv'
<1> SUFFICES ASSUME OrderInv, FoundInv, [Next]_vars PROVE FoundInv'
  OBVIOUS
<1>0. LashNext \/ UNCHANGED lashVars
  BY DEF Next, Execute, UseEnvironment, PassArguments, vars
<1>1. ASSUME UNCHANGED <<Session, path, cwd, history>>, SearchInv' PROVE FoundInv'
  BY <1>1 DEF FoundInv, RecordSound, Stands, Sound, BareSound, WhereSound, First, Holding, Session
<1>2. CASE UNCHANGED lashVars
  <2>1. UNCHANGED <<Session, path, cwd, history>>
    BY <1>2 DEF lashVars, Session
  <2>2. SearchInv'
    BY <1>2 DEF FoundInv, SearchInv, NothingBefore, First, Holding, lashVars
  <2> QED  BY <1>1, <2>1, <2>2
<1>3. CASE LashNext /\ index' = index
  BY <1>1, <1>3, SeeksSoundly DEF FoundInv
<1>4. CASE LashNext /\ index' # index
  <2>1. PICK rec \in Records : Settles(rec)
    BY <1>4, Effects DEF Effect, Seeks, Stops
  <2>2. UNCHANGED Session /\ index' = index + 1 /\ pc' = "segment" /\ (rec.ran <=> ShouldRun)
    BY <2>1 DEF Settles
  <2>3. SearchInv'
    BY <2>2 DEF SearchInv
  <2>4. /\ rec.path = path /\ rec.cwd = cwd
        /\ rec.ran => rec = Record(TRUE, last')
    BY <2>1 DEF Settles, Record, Records
  <2>5. /\ rec.ran => Sound(line[index].cmd, rec)
        /\ rec.ran /\ line[index].cmd \in Tells => UNCHANGED <<path, cwd>>
    BY <1>4, <2>2, <2>4, SettlesSoundly DEF FoundInv
  <2>6. index \in Nat \ {0} /\ Len(history) = index - 1
    BY DEF OrderInv, LashType, LashShape
  <2>7. ASSUME NEW cmd, NEW h PROVE Sound(cmd, h)' <=> Sound(cmd, h)
    BY <2>2 DEF Sound, BareSound, WhereSound, First, Holding, Session
  <2>8. ASSUME NEW i \in 1..index PROVE RecordSound(i)' /\ Stands(i)'
    <3>1. CASE i < index
      <4>1. RecordSound(i) /\ Stands(i) /\ history'[i] = history[i] /\ i \in 1..(index - 1)
        BY <2>1, <2>6, <3>1, Settled DEF FoundInv
      <4>2. RecordSound(i)'
        BY <2>2, <2>7, <4>1 DEF RecordSound, Session
      <4>3. /\ Len(history') = index
            /\ IF i = Len(history) THEN history'[i + 1] = rec ELSE history'[i + 1] = history[i + 1]
        BY <2>1, <2>6, <3>1, Settled
      <4>4. Stands(i)'
        BY <2>2, <2>4, <2>6, <3>1, <4>1, <4>3 DEF Stands, Session
      <4> QED  BY <4>2, <4>4
    <3>2. CASE i = index
      <4>1. history'[i] = rec /\ Len(history') = i
        BY <2>1, <3>2, Settled
      <4>2. RecordSound(i)'
        BY <2>2, <2>5, <2>7, <3>2, <4>1 DEF RecordSound, Session
      <4>3. Stands(i)'
        BY <2>2, <2>4, <2>5, <3>2, <4>1 DEF Stands, Session
      <4> QED  BY <4>2, <4>3
    <3> QED  BY <2>6, <3>1, <3>2
  <2>9. Len(history') = index
    BY <2>1, Settled
  <2> QED  BY <2>3, <2>8, <2>9 DEF FoundInv
<1> QED  BY <1>0, <1>2, <1>3, <1>4

LEMMA MinOf == ASSUME NEW S \in SUBSET Nat, NEW m \in S, \A j \in S : m <= j
               PROVE  Min(S) = m
<1>1. \A x \in S : (\A y \in S : x <= y) <=> x = m
  OBVIOUS
<1> QED  BY <1>1 DEF Min

LEMMA FirstIsMin ==
  ASSUME NEW p \in Seq(Entries), NEW m, First(m, p)
  PROVE  Holding(p) # {} /\ Min(Holding(p)) = m
<1>1. Holding(p) \in SUBSET Nat
  BY DEF Holding
<1> QED  BY <1>1, MinOf DEF First

LEMMA FoundImplies == OrderInv /\ FoundInv => FirstOnPathRuns /\ WhereTellsWhatRuns
<1> SUFFICES ASSUME OrderInv, FoundInv PROVE FirstOnPathRuns /\ WhereTellsWhatRuns
  OBVIOUS
<1>0. /\ \A i \in Ran : i \in 1..Len(history) /\ history[i].ran /\ history[i] \in Records
      /\ Len(history) \in Nat
  BY DEF OrderInv, LashType, Ran
<1>1. \A i \in Ran : Sound(line[i].cmd, history[i]) /\ Stands(i) /\ history[i].path \in Seq(Entries)
  BY <1>0 DEF FoundInv, RecordSound, Records
<1>2. FirstOnPathRuns
  <2> SUFFICES ASSUME NEW i \in Ran, line[i].cmd = "bare"
               PROVE  LET h == history[i]
                      IN  IF Holding(h.path) # {} /\ disk[h.path[Min(Holding(h.path))]] = "program"
                          THEN \/ h.started = <<h.path[Min(Holding(h.path))]>>
                               \/ h.started = <<>> /\ h.status = 1
                          ELSE h.started = <<>> /\ h.status = 1
    BY DEF FirstOnPathRuns
  <2>1. BareSound(history[i])
    BY <1>1 DEF Sound
  <2> QED  BY <1>1, <2>1, FirstIsMin DEF BareSound
<1>3. WhereTellsWhatRuns
  <2> SUFFICES ASSUME NEW i \in Ran, i + 1 \in Ran, history[i + 1].started # <<>>,
                      \/ line[i].cmd = "where" /\ line[i + 1].cmd = "bare"
                      \/ line[i].cmd = "where_explicit" /\ line[i + 1].cmd = "explicit"
               PROVE  history[i].shown # <<>> /\ history[i + 1].started = <<Head(history[i].shown)>>
    BY DEF WhereTellsWhatRuns
  <2>1. history[i + 1].path = history[i].path /\ history[i + 1].cwd = history[i].cwd
    BY <1>0, <1>1 DEF Stands, Tells
  <2>2. CASE line[i].cmd = "where" /\ line[i + 1].cmd = "bare"
    <3>1. BareSound(history[i + 1]) /\ WhereSound(history[i])
      BY <1>1, <2>2 DEF Sound
    <3> QED  BY <2>1, <3>1 DEF BareSound, WhereSound
  <2>3. CASE line[i].cmd = "where_explicit" /\ line[i + 1].cmd = "explicit"
    <3>1. history[i + 1].started = <<history[i].cwd>> /\ history[i].shown = <<history[i].cwd>>
      BY <1>1, <2>1, <2>3 DEF Sound
    <3>2. <<history[i].cwd>> # <<>> /\ Head(<<history[i].cwd>>) = history[i].cwd
      OBVIOUS
    <3> QED  BY <3>1, <3>2
  <2> QED  BY <2>2, <2>3
<1> QED  BY <1>2, <1>3

LEMMA FoundInvariant == ASSUME FILE_NOT_FOUND \notin Statuses PROVE Spec => [](OrderInv /\ FoundInv)
<1>1. Init => FoundInv
  BY InitFound DEF Init
<1>2. OrderInv /\ FoundInv /\ [Next]_vars => FoundInv'
  BY NextKeepsFound
<1> QED  BY <1>1, <1>2, OrderInvariant, PTL DEF Spec

(* PATH lookup: provided no program exits with the word that spawn_wait    *)
(* returns for a missing file, a bare name starts the first program found  *)
(* and nothing else (run_path_command in commands.rs, paths.rs).           *)
THEOREM FirstOnPathCorrect ==
  ASSUME FILE_NOT_FOUND \notin Statuses PROVE Spec => []FirstOnPathRuns
<1>1. OrderInv /\ FoundInv => FirstOnPathRuns
  BY FoundImplies
<1> QED  BY <1>1, FoundInvariant, PTL

(* Under the same condition `where` names the program that the same word   *)
(* as a command starts (run_where in builtins.rs, paths.rs).               *)
THEOREM WhereCorrect ==
  ASSUME FILE_NOT_FOUND \notin Statuses PROVE Spec => []WhereTellsWhatRuns
<1>1. OrderInv /\ FoundInv => WhereTellsWhatRuns
  BY FoundImplies
<1> QED  BY <1>1, FoundInvariant, PTL

-----------------------------------------------------------------------------
(* User buffers.  Induction over the naturals, for sets, shows what the    *)
(* loop of serialize_spawn_args makes of any list of arguments.            *)
LEMMA LeastNatural ==
  ASSUME NEW T \in SUBSET Nat, T # {} PROVE \E x \in T : \A y \in T : x <= y
<1> DEFINE R == OpToRel(<, Nat)
<1>1. IsWellFoundedOn(R, Nat)
  BY NatLessThanWellFounded
<1>2. \A x, y \in Nat : <<y, x>> \in R <=> y < x
  BY DEF OpToRel
<1> HIDE DEF R
<1>3. PICK x \in T : \A y \in T : ~(<<y, x>> \in R)
  BY <1>1, WFMin
<1>4. \A y \in T : ~(y < x)
  BY <1>2, <1>3
<1> QED  BY <1>4

(* Induction and recursion up to a bound.                                  *)
LEMMA UpTo ==
  ASSUME NEW L \in Nat, NEW T, 0 \in T, \A n \in 1..L : n - 1 \in T => n \in T
  PROVE  \A n \in 0..L : n \in T
<1> DEFINE bad == {n \in 0..L : n \notin T}
<1> SUFFICES ASSUME bad # {} PROVE FALSE
  OBVIOUS
<1>1. bad \in SUBSET Nat
  OBVIOUS
<1>2. PICK n \in bad : \A k \in bad : n <= k
  BY <1>1, LeastNatural
<1>3. n \in 1..L /\ n - 1 \in 0..L /\ ~(n <= n - 1)
  BY <1>2
<1>4. n - 1 \in T
  BY <1>2, <1>3
<1> QED  BY <1>3, <1>4

Steps(L, S) == [1..L -> [S -> S]]
Chain(f, L, S, start, succ) ==
  f \in [0..L -> S] /\ f[0] = start /\ \A n \in 1..L : f[n] = succ[n][f[n - 1]]
LEMMA Recursion ==
  ASSUME NEW L \in Nat, NEW S, NEW start \in S, NEW succ \in Steps(L, S)
  PROVE  \E f : Chain(f, L, S, start, succ)
<1> DEFINE Good(f, n) == f[0] = start /\ \A i \in 1..n : f[i] = succ[i][f[i - 1]]
           T == {n \in 0..L : \E f \in [0..n -> S] : Good(f, n)}
<1>1. 0 \in T
  <2>1. PICK f : f = [n \in 0..0 |-> start]
    OBVIOUS
  <2>2. f \in [0..0 -> S] /\ Good(f, 0)
    BY <2>1
  <2>3. 0 \in 0..L
    OBVIOUS
  <2> QED  BY <2>2, <2>3
<1>2. ASSUME NEW n \in 1..L, n - 1 \in T PROVE n \in T
  <2>1. PICK f \in [0..(n - 1) -> S] : Good(f, n - 1)
    BY <1>2
  <2>2. PICK h : h = [i \in 0..n |-> IF i = n THEN succ[n][f[n - 1]] ELSE f[i]]
    OBVIOUS
  <2>3. \A i \in 0..(n - 1) : i \in 0..n /\ i # n /\ h[i] = f[i] /\ f[i] \in S
    BY <2>2
  <2>4. n - 1 \in 0..(n - 1) /\ n \in 0..n /\ 0 \in 0..(n - 1)
    OBVIOUS
  <2>5. succ[n] \in [S -> S] /\ f[n - 1] \in S /\ h[n] = succ[n][f[n - 1]]
    BY <2>2, <2>3, <2>4 DEF Steps
  <2>6. h[n] \in S /\ h[n] = succ[n][h[n - 1]]
    BY <2>3, <2>4, <2>5
  <2>7. h \in [0..n -> S]
    <3>1. \A i \in 0..n : i = n \/ i \in 0..(n - 1)
      OBVIOUS
    <3>2. \A i \in 0..n : h[i] \in S
      BY <3>1, <2>3, <2>6
    <3> QED  BY <3>2, <2>2
  <2>8. Good(h, n)
    <3>1. h[0] = start
      BY <2>1, <2>3, <2>4
    <3>2. ASSUME NEW i \in 1..n PROVE h[i] = succ[i][h[i - 1]]
      <4>1. CASE i = n
        BY <4>1, <2>6
      <4>2. CASE i # n
        <5>1. i \in 1..(n - 1) /\ i \in 0..(n - 1) /\ i - 1 \in 0..(n - 1)
          BY <4>2
        <5> QED  BY <5>1, <2>1, <2>3
      <4> QED  BY <4>1, <4>2
    <3> QED  BY <3>1, <3>2
  <2> QED  BY <2>7, <2>8
<1>3. L \in 0..L
  OBVIOUS
<1> HIDE DEF T
<1>4. L \in T
  BY <1>1, <1>2, <1>3, UpTo
<1> QED  BY <1>4 DEF T, Chain

PayloadErrors == {"none", "InvalidPath", "ResourceUnavailable"}
Payload == [bytes : Seq(Nat), error : PayloadErrors]
PackStep(b, arg) ==
  IF b.error # "none" THEN b
  ELSE IF Contains(arg, Nul) THEN [b EXCEPT !.error = "InvalidPath"]
  ELSE IF Len(b.bytes) + Len(arg) + 1 > MaxPayload
  THEN [b EXCEPT !.error = "ResourceUnavailable"]
  ELSE [b EXCEPT !.bytes = @ \o Append(arg, Nul)]

LEMMA PackStepType ==
  ASSUME NEW b \in Payload, NEW arg \in Seq(Nat) PROVE PackStep(b, arg) \in Payload
<1>1. b.bytes \in Seq(Nat) /\ b.error \in PayloadErrors
  BY DEF Payload
<1>2. Append(arg, Nul) \in Seq(Nat)
  BY DEF Nul
<1>3. b.bytes \o Append(arg, Nul) \in Seq(Nat)
  BY <1>1, <1>2
<1>4. [b EXCEPT !.bytes = @ \o Append(arg, Nul)] \in Payload
  BY <1>3 DEF Payload
<1>5. [b EXCEPT !.error = "InvalidPath"] \in Payload /\ [b EXCEPT !.error = "ResourceUnavailable"] \in Payload
  BY DEF Payload, PayloadErrors
<1> QED  BY <1>4, <1>5 DEF PackStep

NoPayload == [bytes |-> <<>>, error |-> "none"]
(* What the loop of serialize_spawn_args makes of a list, argument by      *)
(* argument.                                                               *)
LEMMA SerializeIs ==
  ASSUME NEW args \in Seq(Seq(Nat))
  PROVE  \E f \in [0..Len(args) -> Payload] :
           /\ Serialize(args) = f[Len(args)] /\ f[0] = NoPayload
           /\ \A n \in 1..Len(args) : f[n] = PackStep(f[n - 1], args[n])
<1> DEFINE L == Len(args)
           Is(f) == f = [n \in 0..L |-> IF n = 0 THEN NoPayload ELSE PackStep(f[n - 1], args[n])]
<1>1. L \in Nat /\ \A n \in 1..L : args[n] \in Seq(Nat)
  BY StartupAssumption
<1>d. Serialize(args) = (CHOOSE f : Is(f))[Len(args)]
  BY DEF Serialize, PackStep, NoPayload
<1>2. \A e \in Payload : \A n \in 1..L : PackStep(e, args[n]) \in Payload
  BY <1>1, PackStepType
<1>3. PICK succ : succ = [n \in 1..L |-> [e \in Payload |-> PackStep(e, args[n])]]
  OBVIOUS
<1>4. succ \in Steps(L, Payload)
  BY <1>2, <1>3 DEF Steps
<1>s. NoPayload \in Payload
  BY <1>1 DEF Payload, PayloadErrors, NoPayload
<1> HIDE DEF L, Is
<1>5. PICK f : Chain(f, L, Payload, NoPayload, succ)
  BY <1>1, <1>4, <1>s, Recursion
<1>6. f \in [0..L -> Payload] /\ f[0] = NoPayload /\ \A n \in 1..L : f[n] = succ[n][f[n - 1]]
  BY <1>5 DEF Chain
<1>7. ASSUME NEW n \in 1..L PROVE f[n] = PackStep(f[n - 1], args[n])
  <2>1. n - 1 \in 0..L
    BY <1>1
  <2>2. f[n - 1] \in Payload
    BY <2>1, <1>6
  <2> QED  BY <2>2, <1>3, <1>6
<1>8. Is(f)
  <2>1. ASSUME NEW n \in 0..L PROVE f[n] = IF n = 0 THEN NoPayload ELSE PackStep(f[n - 1], args[n])
    <3>1. CASE n = 0
      BY <3>1, <1>6
    <3>2. CASE n # 0
      <4>1. n \in 1..L
        BY <3>2, <1>1
      <4> QED  BY <3>2, <4>1, <1>7
    <3> QED  BY <3>1, <3>2
  <2> QED  BY <2>1, <1>6 DEF Is
<1>9. PICK g : g = CHOOSE h : Is(h)
  OBVIOUS
<1>10. Is(g)
  BY <1>8, <1>9
<1>11. g[0] = NoPayload /\ \A n \in 1..L : g[n] = PackStep(g[n - 1], args[n])
  <2>1. \A n \in 0..L : g[n] = IF n = 0 THEN NoPayload ELSE PackStep(g[n - 1], args[n])
    BY <1>10 DEF Is
  <2>2. 0 \in 0..L /\ \A n \in 1..L : n \in 0..L /\ n # 0
    BY <1>1
  <2> QED  BY <2>1, <2>2
<1> DEFINE T == {n \in 0..L : g[n] \in Payload}
<1>12. 0 \in T
  BY <1>1, <1>s, <1>11
<1>13. ASSUME NEW n \in 1..L, n - 1 \in T PROVE n \in T
  <2>1. n \in 0..L /\ g[n - 1] \in Payload
    BY <1>1, <1>13
  <2>2. g[n] = PackStep(g[n - 1], args[n])
    BY <1>11
  <2>3. PackStep(g[n - 1], args[n]) \in Payload
    BY <2>1, <1>2
  <2> QED  BY <2>1, <2>2, <2>3
<1> HIDE DEF T
<1>14. \A n \in 0..L : n \in T
  BY <1>1, <1>12, <1>13, UpTo
<1>15. g \in [0..L -> Payload]
  <2>1. \A n \in 0..L : g[n] \in Payload
    BY <1>14 DEF T
  <2>2. g = [n \in 0..L |-> g[n]]
    BY <1>10 DEF Is
  <2> QED  BY <2>1, <2>2
<1> QED  BY <1>9, <1>11, <1>15, <1>d DEF L

LEMMA SerializeType ==
  ASSUME NEW args \in Seq(Seq(Nat)) PROVE Serialize(args) \in Payload
<1>1. PICK f \in [0..Len(args) -> Payload] : Serialize(args) = f[Len(args)]
  BY SerializeIs
<1>2. Len(args) \in 0..Len(args)
  OBVIOUS
<1> QED  BY <1>1, <1>2

(* What is checked stays as it was checked.                                *)
Checked == step \notin {"parent", "syscall"} /\ verdict \in {"none", "ran"}
CallInv ==
  /\ call \in [path : Buffers, args : Buffers]
  /\ step \in {"parent", "syscall", "load"} => verdict = "none"
  /\ Checked => Valid(call.path) /\ Valid(call.args)

LEMMA CallInvStep == CallInv /\ [Next]_vars => CallInv'
<1> SUFFICES ASSUME CallInv, [Next]_vars PROVE CallInv'
  OBVIOUS
<1>1. CASE UNCHANGED startupVars
  BY <1>1 DEF startupVars, CallInv, Checked, Valid
<1>2. ASSUME NEW path_ \in Executables, NEW args \in ArgumentLists, SpawnWait(path_, args) PROVE CallInv'
  <2>1. PICK payload : payload = Serialize(args)
    OBVIOUS
  <2>2. payload.bytes \in Seq(Nat) /\ payload.error \in PayloadErrors
    BY <2>1, SerializeType, StartupAssumption DEF Payload
  <2>3. CASE payload.error # "none"
    BY <1>2, <2>1, <2>2, <2>3 DEF SpawnWait, Ends, CallInv, Checked, PayloadErrors
  <2>4. CASE payload.error = "none"
    <3>1. /\ call' = [path |-> [at |-> ImageBase, bytes |-> path_],
                      args |-> [at |-> StackTop - MaxPayload, bytes |-> payload.bytes]]
          /\ step' = "syscall" /\ step = "parent" /\ verdict' = verdict
      BY <1>2, <2>1, <2>4 DEF SpawnWait
    <3>2. ImageBase \in Int /\ StackTop - MaxPayload \in Int /\ path_ \in Seq(Nat)
      BY StartupAssumption
    <3> QED  BY <2>2, <3>1, <3>2 DEF CallInv, Checked, Buffers
  <2> QED  BY <2>3, <2>4
<1>3. ASSUME NEW c \in RawCalls, CallKernel(c) PROVE CallInv'
  BY <1>3, StartupAssumption DEF CallKernel, CallInv, Checked
<1>4. CASE SyscallSpawnWait
  BY <1>4 DEF SyscallSpawnWait, Ends, CallInv, Checked, Valid
<1>5. CASE LoadUserProgram
  <2>1. /\ call' = call /\ step = "load" /\ step' \in {"child", "ended"}
        /\ verdict' \in {"ran", "InvalidExecutable"}
    BY <1>5 DEF LoadUserProgram, Ends
  <2> QED  BY <2>1 DEF CallInv, Checked, Valid
<1>6. CASE Initialize \/ NextArg \/ EndOfArgs
  BY <1>6 DEF Initialize, NextArg, EndOfArgs, CallInv, Checked, Valid
<1>7. CASE StartupNext
  BY <1>2, <1>3, <1>4, <1>5, <1>6, <1>7 DEF StartupNext
<1> QED  BY <1>1, <1>7 DEF Next, Execute, UseEnvironment, PassArguments, vars

(* The range check of validate_user_buffer keeps a buffer on one side of   *)
(* the border between image and stack.                                     *)
LEMMA ValidStays ==
  ASSUME NEW buffer \in Buffers, Valid(buffer)
  PROVE  \/ Touched(buffer) \subseteq ImageBase..(StackBase - 1)
         \/ Touched(buffer) \subseteq StackBase..(StackTop - 1)
<1>a. ImageBase \in Nat /\ StackBase \in Nat /\ StackTop \in Nat /\ AddressLimit \in Nat /\ 0 < ImageBase
  BY StartupAssumption
<1>1. buffer.at \in Int /\ buffer.bytes \in Seq(Nat)
  BY DEF Buffers
<1>2. PICK b \in Int, n \in Nat : b = buffer.at /\ n = Len(buffer.bytes) /\ DOMAIN buffer.bytes = 1..n
  BY <1>1
<1>3. Touched(buffer) = {(b + i - 1) % AddressLimit : i \in 1..n}
  BY <1>2 DEF Touched
<1>4. CASE n = 0
  <2>1. \A i \in 1..n : FALSE
    BY <1>4
  <2> QED  BY <1>3, <2>1
<1>5. CASE n # 0
  <2>1. /\ b + n < AddressLimit /\ b >= ImageBase /\ b + n <= StackTop
        /\ ~(b + n > StackBase /\ b < StackBase)
    BY <1>2, <1>5 DEF Valid, ValidateUserBuffer
  <2>2. ASSUME NEW i \in 1..n PROVE (b + i - 1) % AddressLimit = b + i - 1
    <3>1. PICK x : x = b + i - 1
      OBVIOUS
    <3>2. x \in Nat /\ x < AddressLimit
      BY <1>a, <2>1, <3>1
    <3>3. x % AddressLimit = x
      BY <1>a, <3>2
    <3> QED  BY <3>1, <3>3
  <2>3. Touched(buffer) = {b + i - 1 : i \in 1..n}
    BY <1>3, <2>2
  <2>4. CASE b + n <= StackBase
    <3>1. \A i \in 1..n : b + i - 1 \in ImageBase..(StackBase - 1)
      BY <1>a, <2>1, <2>4
    <3> QED  BY <2>3, <3>1
  <2>5. CASE b >= StackBase
    <3>1. \A i \in 1..n : b + i - 1 \in StackBase..(StackTop - 1)
      BY <1>a, <2>1, <2>5
    <3> QED  BY <2>3, <3>1
  <2> QED  BY <1>a, <2>1, <2>4, <2>5
<1> QED  BY <1>4, <1>5

(* No pair of address and length that validate_user_buffer accepts makes   *)
(* the kernel touch a byte outside the user's image and stack, whether     *)
(* liblazer packed the call or the program made it up.                     *)
THEOREM UserBuffersCorrect == Spec => []BuffersInUserSpace
<1>1. Init => CallInv
  BY DEF Init, StartupInit, CallInv, Checked, Empty, Buffers
<1>2. CallInv => BuffersInUserSpace
  BY ValidStays DEF CallInv, Checked, BuffersInUserSpace
<1> QED  BY <1>1, <1>2, CallInvStep, PTL DEF Spec

-----------------------------------------------------------------------------
(* The environment.  The compacted table of variables behaves like a map   *)
(* with insertion order (EnvMap), for every size of the table, every key   *)
(* and value a program may pass and every depth of the chain of processes. *)
(*                                                                         *)
(* The inductive invariant: the keys of a table in use are distinct and    *)
(* every entry is one that set would accept.  Without it a removal could   *)
(* uncover an older value, and the copy into a child could fail.           *)
Entry == [key : Keys, value : Values]
Table(e) ==
  /\ e \in [entries : [1..MaxVars -> Entry], len : 0..MaxVars]
  /\ \A i \in 1..e.len : KeyStatus(e.entries[i].key) = "OK" /\ Fitting(e.entries[i].value)
  /\ \A i, j \in 1..e.len : e.entries[i].key = e.entries[j].key => i = j

Tables == {e \in [entries : [1..MaxVars -> Entry], len : 0..MaxVars] : Table(e)}

ChainInv == chain \in Seq(Tables) /\ chain # <<>>

-----------------------------------------------------------------------------
(* Induction over the naturals, for sets.                                  *)
LEMMA BoundedIsSequence ==
  ASSUME NEW S, NEW n \in Nat, NEW s \in BoundedSeq(S, n) PROVE s \in Seq(S)
  BY SeqDef DEF BoundedSeq, SeqOf

LEMMA ValueTypes == /\ \A v \in Values : v \in Seq(ValueBytes)
                    /\ EmptyEntry \in Entry
                    /\ MaxVars \in Nat \ {0}
<1>1. MaxVars \in Nat \ {0} /\ MaxKey \in Nat /\ MaxValue + 1 \in Nat
  BY EnvironmentAssumption
<1>2. \A v \in Values : v \in Seq(ValueBytes)
  BY <1>1, BoundedIsSequence DEF Values
<1>3. \A S : \A n \in Nat : <<>> \in BoundedSeq(S, n)
  <2> SUFFICES ASSUME NEW S, NEW n \in Nat PROVE <<>> \in BoundedSeq(S, n)
    OBVIOUS
  <2>1. <<>> \in [1..0 -> S] /\ 0 \in 0..n
    OBVIOUS
  <2> QED  BY <2>1 DEF BoundedSeq, SeqOf
<1>4. EmptyEntry \in Entry
  BY <1>1, <1>3 DEF EmptyEntry, Entry, Keys, Values
<1> QED  BY <1>1, <1>2, <1>4

-----------------------------------------------------------------------------
(* find_index finds the one place of a key.                                *)
LEMMA FindsPlace ==
  ASSUME NEW e, Table(e), NEW key
  PROVE  /\ \A i \in 1..e.len : e.entries[i].key = key => FindIndex(e, key) = i
         /\ key \notin KeysOf(e) => FindIndex(e, key) = 0
         /\ key \in KeysOf(e) => /\ FindIndex(e, key) \in 1..e.len
                                 /\ e.entries[FindIndex(e, key)].key = key
<1> DEFINE at == {i \in 1..e.len : e.entries[i].key = key}
<1>1. FindIndex(e, key) = IF at = {} THEN 0 ELSE Min(at)
  BY DEF FindIndex
<1>2. ASSUME NEW i \in 1..e.len, e.entries[i].key = key PROVE FindIndex(e, key) = i
  <2>1. at = {i} /\ i \in Int
    BY <1>2 DEF Table
  <2>2. Min({i}) = i
    BY <2>1 DEF Min
  <2> QED  BY <1>1, <2>1, <2>2
<1> HIDE DEF at
<1>3. key \notin KeysOf(e) => at = {}
  BY DEF KeysOf, at
<1>4. key \in KeysOf(e) => \E i \in 1..e.len : e.entries[i].key = key
  BY DEF KeysOf
<1> QED  BY <1>1, <1>2, <1>3, <1>4

(* As many keys as entries.                                                *)
LEMMA AsManyKeys ==
  ASSUME NEW e, Table(e) PROVE Cardinality(KeysOf(e)) = e.len
<1> DEFINE f == [i \in 1..e.len |-> e.entries[i].key]
<1>1. e.len \in Nat
  BY ValueTypes DEF Table
<1>2. f \in Bijection(1..e.len, KeysOf(e))
  BY DEF Table, KeysOf, Bijection, Injection, IsInjective, Surjection
<1> QED  BY <1>1, <1>2, FS_CountingElements DEF ExistsBijection

(* A table as a map and as a list of keys.                                 *)
KeyList(e) == [j \in 1..e.len |-> e.entries[j].key]
LEMMA MapAt ==
  ASSUME NEW e, Table(e)
  PROVE  /\ DOMAIN MapOf(e) = KeysOf(e)
         /\ \A i \in 1..e.len : /\ e.entries[i].key \in KeysOf(e)
                               /\ MapOf(e)[e.entries[i].key] = e.entries[i].value
         /\ \A k \in KeysOf(e) : \E i \in 1..e.len : e.entries[i].key = k
  BY FindsPlace DEF MapOf, KeysOf

LEMMA MapIs ==
  ASSUME NEW e, Table(e), NEW g, g = [k \in KeysOf(e) |-> g[k]],
         \A i \in 1..e.len : g[e.entries[i].key] = e.entries[i].value
  PROVE  MapOf(e) = g
<1>1. \A k \in KeysOf(e) : MapOf(e)[k] = g[k]
  BY MapAt
<1>2. MapOf(e) = [k \in KeysOf(e) |-> MapOf(e)[k]]
  BY DEF MapOf
<1> QED  BY <1>1, <1>2

LEMMA LenIsNat == ASSUME NEW e, Table(e) PROVE e.len \in Nat /\ e.len <= MaxVars
  BY ValueTypes DEF Table

(* Environment::set, in its four outcomes.                                 *)
Accepts(key, value) == KeyStatus(key) = "OK" /\ Fitting(value)
LEMMA SetRefuses ==
  ASSUME NEW e, Table(e), NEW key, NEW value
  PROVE  LET r == SetEntry(e, key, value)
         IN  /\ KeyStatus(key) # "OK" => r = Outcome(KeyStatus(key), e)
             /\ KeyStatus(key) = "OK" /\ ~Fitting(value) => r = Outcome("VALUE_TOO_LONG", e)
             /\ Accepts(key, value) /\ key \notin KeysOf(e) /\ e.len = MaxVars
                  => r = Outcome("CAPACITY_EXCEEDED", e)
  BY FindsPlace DEF SetEntry, Accepts

LEMMA SetUpdates ==
  ASSUME NEW e, Table(e), NEW key \in Keys, NEW value \in Values,
         Accepts(key, value), key \in KeysOf(e)
  PROVE  LET r == SetEntry(e, key, value)
         IN  /\ r.status = "OK" /\ Table(r.env)
             /\ KeyList(r.env) = KeyList(e)
             /\ MapOf(r.env) = [k \in KeysOf(e) |-> IF k = key THEN value ELSE MapOf(e)[k]]
<1>1. PICK x \in 1..e.len : x = FindIndex(e, key) /\ e.entries[x].key = key
  BY FindsPlace
<1> DEFINE r == SetEntry(e, key, value)
           g == [k \in KeysOf(e) |-> IF k = key THEN value ELSE MapOf(e)[k]]
<1>2. x # 0 /\ x \in 1..MaxVars
  BY LenIsNat, ValueTypes
<1>3. r = Outcome("OK", [e EXCEPT !.entries[x].value = value])
  BY <1>1, <1>2 DEF SetEntry, Accepts
<1> DEFINE t == [e EXCEPT !.entries[x].value = value]
<1>4. /\ t.len = e.len /\ t \in [entries : [1..MaxVars -> Entry], len : 0..MaxVars]
      /\ \A i \in 1..MaxVars : /\ t.entries[i].key = e.entries[i].key
                               /\ t.entries[i].value = IF i = x THEN value ELSE e.entries[i].value
  <2>1. e \in [entries : [1..MaxVars -> Entry], len : 0..MaxVars]
    BY DEF Table
  <2>2. PICK f \in [1..MaxVars -> Entry] : f = e.entries
    BY <2>1
  <2>3. PICK v : v = [f[x] EXCEPT !.value = value]
    OBVIOUS
  <2>4. f[x] \in Entry
    BY <1>2
  <2>5. v \in Entry /\ v.key = f[x].key /\ v.value = value
    BY <2>3, <2>4 DEF Entry
  <2>6. t = [e EXCEPT !.entries = [f EXCEPT ![x] = v]]
    BY <2>1, <2>2, <2>3
  <2> HIDE DEF t
  <2>7. t.len = e.len /\ t.entries = [f EXCEPT ![x] = v]
    BY <2>1, <2>6
  <2>8. [f EXCEPT ![x] = v] \in [1..MaxVars -> Entry]
    BY <1>2, <2>5
  <2>9. t \in [entries : [1..MaxVars -> Entry], len : 0..MaxVars]
    BY <2>1, <2>6, <2>8
  <2>10. \A i \in 1..MaxVars : t.entries[i] = IF i = x THEN v ELSE f[i]
    BY <1>2, <2>2, <2>7
  <2> QED  BY <2>2, <2>5, <2>7, <2>9, <2>10
<1> HIDE DEF t
<1>n. e.len \in Nat /\ e.len <= MaxVars /\ MaxVars \in Nat
  BY LenIsNat, ValueTypes
<1>5. Table(t)
  BY <1>4, <1>n DEF Table, Accepts
<1>6. KeysOf(t) = KeysOf(e) /\ KeyList(t) = KeyList(e)
  BY <1>4, <1>n DEF KeysOf, KeyList
<1>7. \A i \in 1..t.len : g[t.entries[i].key] = t.entries[i].value
  <2> SUFFICES ASSUME NEW i \in 1..e.len PROVE g[t.entries[i].key] = t.entries[i].value
    BY <1>4
  <2>1. t.entries[i].key = e.entries[i].key /\ e.entries[i].key \in KeysOf(e)
    BY <1>4, <1>n, MapAt
  <2>2. e.entries[i].key = key <=> i = x
    BY <1>1 DEF Table
  <2> QED  BY <1>4, <1>n, <2>1, <2>2, MapAt
<1>8. g = [k \in KeysOf(t) |-> g[k]]
  BY <1>6
<1> HIDE DEF g
<1>9. MapOf(t) = g
  BY <1>5, <1>7, <1>8, MapIs
<1> QED  BY <1>3, <1>5, <1>6, <1>9 DEF Outcome, t, g

LEMMA SetPlaces ==
  ASSUME NEW e, Table(e), NEW key, NEW value,
         Accepts(key, value), key \notin KeysOf(e), e.len # MaxVars
  PROVE  SetEntry(e, key, value)
           = Outcome("OK", [entries |-> [e.entries EXCEPT ![e.len + 1] = [key |-> key, value |-> value]],
                            len |-> e.len + 1])
  BY FindsPlace DEF SetEntry, Accepts

LEMMA SetAppends ==
  ASSUME NEW e, Table(e), NEW key \in Keys, NEW value \in Values,
         Accepts(key, value), key \notin KeysOf(e), e.len # MaxVars
  PROVE  LET r == SetEntry(e, key, value)
         IN  /\ r.status = "OK" /\ Table(r.env)
             /\ KeyList(r.env) = Append(KeyList(e), key)
             /\ MapOf(r.env) = [k \in KeysOf(e) \cup {key} |-> IF k = key THEN value ELSE MapOf(e)[k]]
<1> DEFINE r == SetEntry(e, key, value)
           g == [k \in KeysOf(e) \cup {key} |-> IF k = key THEN value ELSE MapOf(e)[k]]
           t == [entries |-> [e.entries EXCEPT ![e.len + 1] = [key |-> key, value |-> value]],
                 len |-> e.len + 1]
<1>1. r = Outcome("OK", t)
  BY SetPlaces
<1>n. e.len \in Nat /\ e.len + 1 \in 1..MaxVars /\ MaxVars \in Nat
  BY LenIsNat, ValueTypes
<1>4. /\ t.len = e.len + 1 /\ t \in [entries : [1..MaxVars -> Entry], len : 0..MaxVars]
      /\ \A i \in 1..MaxVars : t.entries[i] = IF i = e.len + 1 THEN [key |-> key, value |-> value]
                                              ELSE e.entries[i]
  BY <1>n DEF Table, Entry
<1> HIDE DEF t
<1>k. \A i \in 1..e.len : /\ t.entries[i] = e.entries[i] /\ e.entries[i].key # key
                          /\ e.entries[i].key \in KeysOf(e)
  BY <1>4, <1>n DEF KeysOf
<1>l. t.entries[e.len + 1].key = key /\ t.entries[e.len + 1].value = value
  BY <1>4, <1>n
<1>d. \A i \in 1..(e.len + 1) : i \in 1..e.len \/ i = e.len + 1
  BY <1>n
<1>5. Table(t)
  BY <1>4, <1>n, <1>k, <1>l, <1>d DEF Table, Accepts
<1>6. KeysOf(t) = KeysOf(e) \cup {key}
  <2>1. ASSUME NEW k \in KeysOf(t) PROVE k \in KeysOf(e) \cup {key}
    BY <2>1, <1>4, <1>k, <1>l, <1>d DEF KeysOf
  <2>2. ASSUME NEW k \in KeysOf(e) PROVE k \in KeysOf(t)
    BY <2>2, <1>4, <1>k, <1>n, SMTT(30) DEF KeysOf
  <2>3. key \in KeysOf(t)
    BY <1>4, <1>l, <1>n DEF KeysOf
  <2> QED  BY <2>1, <2>2, <2>3
<1>7. KeyList(t) = Append(KeyList(e), key)
  <2>1. KeyList(e) \in Seq(Keys) /\ Len(KeyList(e)) = e.len
    <3>1. \A j \in 1..e.len : e.entries[j].key \in Keys
      BY <1>n DEF Table, Entry
    <3> QED  BY <1>n, <3>1 DEF KeyList
  <2>2. \A i \in 1..e.len : KeyList(t)[i] = KeyList(e)[i]
    BY <1>4, <1>k, <1>n DEF KeyList
  <2>3. KeyList(t)[e.len + 1] = key /\ DOMAIN KeyList(t) = 1..(e.len + 1)
    BY <1>4, <1>l, <1>n DEF KeyList
  <2>4. KeyList(t) = [j \in 1..(e.len + 1) |-> KeyList(t)[j]]
    BY <1>4 DEF KeyList
  <2> DEFINE a == Append(KeyList(e), key)
  <2>5. /\ a \in Seq(Keys) /\ Len(a) = e.len + 1 /\ a[e.len + 1] = key
        /\ \A i \in 1..e.len : a[i] = KeyList(e)[i]
    BY <1>n, <2>1
  <2> HIDE DEF a
  <2>6. a = [j \in 1..(e.len + 1) |-> a[j]]
    BY <2>5
  <2>7. \A j \in 1..(e.len + 1) : a[j] = KeyList(t)[j]
    BY <1>d, <2>2, <2>3, <2>5
  <2> QED  BY <2>4, <2>6, <2>7 DEF a
<1>8. \A i \in 1..t.len : g[t.entries[i].key] = t.entries[i].value
  BY <1>4, <1>k, <1>l, <1>d, MapAt
<1>9. g = [k \in KeysOf(t) |-> g[k]]
  BY <1>6
<1> HIDE DEF g
<1>10. MapOf(t) = g
  BY <1>5, <1>8, <1>9, MapIs
<1>11. r.status = "OK" /\ r.env = t
  BY <1>1 DEF Outcome
<1> QED  BY <1>5, <1>7, <1>10, <1>11 DEF g

-----------------------------------------------------------------------------
(* Environment::remove: the entries behind the removed one move up.        *)
LEMMA RemoveRefuses ==
  ASSUME NEW e, Table(e), NEW key
  PROVE  LET r == RemoveEntry(e, key)
         IN  /\ KeyStatus(key) # "OK" => r = Outcome("INVALID_KEY", e)
             /\ KeyStatus(key) = "OK" /\ key \notin KeysOf(e) => r = Outcome("NOT_FOUND", e)
  BY FindsPlace DEF RemoveEntry

LEMMA RemoveCloses ==
  ASSUME NEW e, Table(e), NEW key, KeyStatus(key) = "OK", key \in KeysOf(e)
  PROVE  LET r == RemoveEntry(e, key)
         IN  /\ r.status = "OK" /\ Table(r.env)
             /\ KeyList(r.env) = RemoveAt(KeyList(e), FindIndex(e, key))
             /\ MapOf(r.env) = [k \in KeysOf(e) \ {key} |-> MapOf(e)[k]]
<1>1. PICK x \in 1..e.len : x = FindIndex(e, key) /\ e.entries[x].key = key
  BY FindsPlace
<1> DEFINE r == RemoveEntry(e, key)
           g == [k \in KeysOf(e) \ {key} |-> MapOf(e)[k]]
           t == [entries |-> [i \in 1..MaxVars |->
                                IF i = e.len THEN EmptyEntry
                                ELSE IF i \in x..(e.len - 1) THEN e.entries[i + 1]
                                ELSE e.entries[i]],
                 len |-> e.len - 1]
           from(i) == IF i < x THEN i ELSE i + 1
<1>n. e.len \in Nat /\ e.len <= MaxVars /\ MaxVars \in Nat /\ x \in 1..e.len /\ x # 0
  BY LenIsNat, ValueTypes
<1>2. r = Outcome("OK", t)
  BY <1>1, <1>n DEF RemoveEntry
<1>4. /\ t.len = e.len - 1 /\ t \in [entries : [1..MaxVars -> Entry], len : 0..MaxVars]
      /\ \A i \in 1..(e.len - 1) : t.entries[i] = e.entries[from(i)]
  <2>1. t.len = e.len - 1 /\ t.len \in 0..MaxVars
    BY <1>n
  <2>2. t.entries \in [1..MaxVars -> Entry]
    BY <1>n, ValueTypes DEF Table
  <2>3. \A i \in 1..(e.len - 1) : t.entries[i] = e.entries[from(i)]
    BY <1>n
  <2> QED  BY <2>1, <2>2, <2>3
<1> HIDE DEF t
<1>f. /\ \A i \in 1..(e.len - 1) : from(i) \in 1..e.len /\ from(i) # x
      /\ \A i, j \in 1..(e.len - 1) : from(i) = from(j) => i = j
      /\ \A k \in 1..e.len : k # x => \E i \in 1..(e.len - 1) : from(i) = k
  <2>1. ASSUME NEW k \in 1..e.len, k # x PROVE \E i \in 1..(e.len - 1) : from(i) = k
    <3>1. CASE k < x
      BY <3>1, <1>n
    <3>2. CASE k > x
      <4>1. k - 1 \in 1..(e.len - 1) /\ from(k - 1) = k
        BY <3>2, <1>n
      <4> QED  BY <4>1
    <3> QED  BY <2>1, <3>1, <3>2, <1>n
  <2> QED  BY <2>1, <1>n
<1>u. \A i, j \in 1..e.len : e.entries[i].key = e.entries[j].key => i = j
  BY DEF Table
<1> HIDE DEF from
<1>5. Table(t)
  <2>1. \A i \in 1..t.len : KeyStatus(t.entries[i].key) = "OK" /\ Fitting(t.entries[i].value)
    BY <1>4, <1>f DEF Table
  <2>2. \A i, j \in 1..t.len : t.entries[i].key = t.entries[j].key => i = j
    BY <1>4, <1>f, <1>u
  <2> QED  BY <1>4, <2>1, <2>2 DEF Table
<1>6. KeysOf(t) = KeysOf(e) \ {key}
  <2>1. ASSUME NEW k \in KeysOf(t) PROVE k \in KeysOf(e) \ {key}
    <3>1. PICK i \in 1..(e.len - 1) : k = t.entries[i].key
      BY <1>4 DEF KeysOf
    <3>2. k = e.entries[from(i)].key /\ from(i) \in 1..e.len /\ from(i) # x
      BY <1>4, <1>f, <3>1
    <3> QED  BY <1>1, <1>u, <3>2 DEF KeysOf
  <2>2. ASSUME NEW k \in KeysOf(e) \ {key} PROVE k \in KeysOf(t)
    <3>1. PICK j \in 1..e.len : k = e.entries[j].key
      BY DEF KeysOf
    <3>2. PICK i \in 1..(e.len - 1) : from(i) = j
      BY <1>1, <1>f, <3>1
    <3> QED  BY <1>4, <3>1, <3>2 DEF KeysOf
  <2> QED  BY <2>1, <2>2
<1>7. KeyList(t) = RemoveAt(KeyList(e), x)
  <2>1. KeyList(e) \in Seq(Keys) /\ Len(KeyList(e)) = e.len /\ \A j \in 1..e.len : KeyList(e)[j] = e.entries[j].key
    <3>1. \A j \in 1..e.len : e.entries[j].key \in Keys
      BY <1>n DEF Table, Entry
    <3> QED  BY <1>n, <3>1 DEF KeyList
  <2> DEFINE a == RemoveAt(KeyList(e), x)
             front == SubSeq(KeyList(e), 1, x - 1)
             back == SubSeq(KeyList(e), x + 1, e.len)
  <2>2. front \in Seq(Keys) /\ Len(front) = x - 1 /\ \A i \in 1..(x - 1) : front[i] = KeyList(e)[i]
    BY <1>n, <2>1
  <2>3. back \in Seq(Keys) /\ Len(back) = e.len - x /\ \A i \in 1..(e.len - x) : back[i] = KeyList(e)[x + i]
    BY <1>n, <2>1
  <2>4. a = front \o back
    BY <2>1 DEF RemoveAt
  <2> HIDE DEF a, front, back
  <2>5. a \in Seq(Keys) /\ Len(a) = e.len - 1
    <3>1. a \in Seq(Keys) /\ Len(a) = Len(front) + Len(back)
      BY <2>2, <2>3, <2>4, ConcatProperties
    <3>2. (x - 1) + (e.len - x) = e.len - 1
      BY <1>n
    <3> QED  BY <2>2, <2>3, <3>1, <3>2
  <2>6. \A i \in 1..(e.len - 1) : a[i] = KeyList(e)[from(i)]
    <3> SUFFICES ASSUME NEW i \in 1..(e.len - 1) PROVE a[i] = KeyList(e)[from(i)]
      OBVIOUS
    <3>1. CASE i < x
      BY <1>n, <2>2, <2>3, <2>4, <3>1 DEF from
    <3>2. CASE ~(i < x)
      <4>0. i - (x - 1) \in 1..(e.len - x) /\ i \in 1..((x - 1) + (e.len - x)) /\ ~(i <= x - 1)
        BY <1>n, <3>2
      <4>1. a[i] = back[i - (x - 1)] /\ i - (x - 1) \in 1..(e.len - x)
        BY <2>2, <2>3, <2>4, <4>0, ConcatProperties, SMTT(30)
      <4>2. x + (i - (x - 1)) = i + 1
        BY <1>n
      <4> QED  BY <2>3, <3>2, <4>1, <4>2 DEF from
    <3> QED  BY <3>1, <3>2
  <2>7. a = [j \in 1..(e.len - 1) |-> a[j]]
    BY <2>5
  <2>8. \A j \in 1..(e.len - 1) : a[j] = t.entries[j].key
    BY <1>4, <1>f, <2>1, <2>6, SMTT(30)
  <2> QED  BY <1>4, <2>7, <2>8 DEF KeyList, a
<1>8. \A i \in 1..t.len : g[t.entries[i].key] = t.entries[i].value
  <2> SUFFICES ASSUME NEW i \in 1..(e.len - 1) PROVE g[t.entries[i].key] = t.entries[i].value
    BY <1>4
  <2>1. t.entries[i] = e.entries[from(i)] /\ from(i) \in 1..e.len /\ t.entries[i].key \in KeysOf(t)
    BY <1>4, <1>f DEF KeysOf
  <2> QED  BY <1>6, <2>1, MapAt
<1>9. g = [k \in KeysOf(t) |-> g[k]]
  BY <1>6
<1> HIDE DEF g
<1>10. MapOf(t) = g
  BY <1>5, <1>8, <1>9, MapIs
<1> QED  BY <1>1, <1>2, <1>5, <1>7, <1>10 DEF Outcome, g

-----------------------------------------------------------------------------
(* Environment::inherit_into: after n entries the child has the first n of *)
(* its parent's.                                                           *)
Prefix(e, n) ==
  [entries |-> [i \in 1..MaxVars |-> IF i <= n THEN e.entries[i] ELSE EmptyEntry], len |-> n]

LEMMA PrefixTable ==
  ASSUME NEW e, Table(e), NEW n \in 0..e.len
  PROVE  /\ Table(Prefix(e, n)) /\ Prefix(e, n).len = n
         /\ \A i \in 1..n : Prefix(e, n).entries[i] = e.entries[i]
<1>n. e.len \in Nat /\ e.len <= MaxVars /\ MaxVars \in Nat /\ EmptyEntry \in Entry
  BY LenIsNat, ValueTypes
<1>1. /\ Prefix(e, n).len = n /\ n \in 0..MaxVars
      /\ \A i \in 1..n : Prefix(e, n).entries[i] = e.entries[i]
  BY <1>n DEF Prefix
<1>2. Prefix(e, n).entries \in [1..MaxVars -> Entry]
  BY <1>n DEF Prefix, Table
<1>3. Prefix(e, n) \in [entries : [1..MaxVars -> Entry], len : 0..MaxVars]
  BY <1>1, <1>2 DEF Prefix
<1>4. \A i \in 1..n : i \in 1..e.len
  BY <1>n
<1> QED  BY <1>1, <1>3, <1>4 DEF Table

LEMMA PrefixStep ==
  ASSUME NEW e, Table(e), NEW n \in 1..e.len
  PROVE  SetEntry(Prefix(e, n - 1), e.entries[n].key, e.entries[n].value)
           = Outcome("OK", Prefix(e, n))
<1> DEFINE p == Prefix(e, n - 1)
           key == e.entries[n].key
           value == e.entries[n].value
<1>n. e.len \in Nat /\ e.len <= MaxVars /\ MaxVars \in Nat /\ n - 1 \in 0..e.len /\ n \in Nat
  BY LenIsNat, ValueTypes
<1>1. Table(p) /\ p.len = n - 1 /\ \A i \in 1..(n - 1) : p.entries[i] = e.entries[i]
  BY <1>n, PrefixTable
<1>2. e.entries[n] \in Entry /\ Accepts(key, value)
  BY <1>n DEF Table, Accepts
<1>3. key \in Keys /\ value \in Values /\ e.entries[n] = [key |-> key, value |-> value]
  BY <1>2 DEF Entry
<1>4. key \notin KeysOf(p)
  <2>1. \A i \in 1..(n - 1) : i \in 1..e.len /\ i # n
    BY <1>n
  <2> QED  BY <1>1, <2>1 DEF KeysOf, Table
<1>5. p.len # MaxVars /\ p.len + 1 = n
  BY <1>1, <1>n
<1>p. p.entries = [i \in 1..MaxVars |-> IF i <= n - 1 THEN e.entries[i] ELSE EmptyEntry]
  BY DEF Prefix
<1> HIDE DEF p, key, value
<1>6. SetEntry(p, key, value)
        = Outcome("OK", [entries |-> [p.entries EXCEPT ![n] = [key |-> key, value |-> value]], len |-> n])
  BY <1>1, <1>2, <1>4, <1>5, SetPlaces, ZenonT(60)
<1>7. [p.entries EXCEPT ![n] = e.entries[n]]
        = [i \in 1..MaxVars |-> IF i <= n THEN e.entries[i] ELSE EmptyEntry]
  <2>1. \A i \in 1..MaxVars : i # n => (i <= n - 1 <=> i <= n)
    BY <1>n
  <2>2. \A i \in 1..MaxVars :
          [p.entries EXCEPT ![n] = e.entries[n]][i] = IF i <= n THEN e.entries[i] ELSE EmptyEntry
    BY <1>n, <1>p, <2>1
  <2> QED  BY <1>p, <2>2
<1> QED  BY <1>3, <1>6, <1>7 DEF Prefix, p, key, value

LEMMA InheritsAll ==
  ASSUME NEW e, Table(e)
  PROVE  InheritInto(e) = Outcome("OK", Prefix(e, e.len))
<1> DEFINE Good(f) ==
             f = [n \in 0..e.len |->
                    IF n = 0 THEN Outcome("OK", NewEnvironment)
                    ELSE IF f[n - 1].status # "OK" THEN f[n - 1]
                    ELSE SetEntry(f[n - 1].env, e.entries[n].key, e.entries[n].value)]
           g == [n \in 0..e.len |-> Outcome("OK", Prefix(e, n))]
           f == CHOOSE f : Good(f)
<1>n. e.len \in Nat /\ e.len <= MaxVars /\ MaxVars \in Nat
  BY LenIsNat, ValueTypes
<1>0. Prefix(e, 0) = NewEnvironment
  <2>1. \A i \in 1..MaxVars : ~(i <= 0)
    BY <1>n
  <2> QED  BY <2>1 DEF Prefix, NewEnvironment
<1>o. \A n : Outcome("OK", Prefix(e, n)).status = "OK" /\ Outcome("OK", Prefix(e, n)).env = Prefix(e, n)
  BY DEF Outcome
<1>1. Good(g)
  <2>1. ASSUME NEW n \in 0..e.len, n # 0
        PROVE  /\ g[n - 1].status = "OK" /\ g[n - 1].env = Prefix(e, n - 1)
               /\ g[n] = SetEntry(g[n - 1].env, e.entries[n].key, e.entries[n].value)
    <3>1. n - 1 \in 0..e.len /\ n \in 1..e.len
      BY <1>n, <2>1
    <3>2. g[n - 1] = Outcome("OK", Prefix(e, n - 1)) /\ g[n] = Outcome("OK", Prefix(e, n))
      BY <3>1
    <3> QED  BY <1>o, <3>1, <3>2, PrefixStep
  <2>2. \A n \in 0..e.len :
          g[n] = IF n = 0 THEN Outcome("OK", NewEnvironment)
                 ELSE IF g[n - 1].status # "OK" THEN g[n - 1]
                 ELSE SetEntry(g[n - 1].env, e.entries[n].key, e.entries[n].value)
    BY <1>0, <2>1
  <2> QED  BY <2>2
<1>2. Good(f)
  BY <1>1
<1>3. InheritInto(e) = f[e.len]
  BY DEF InheritInto
<1>e. \A n \in 0..e.len :
        f[n] = IF n = 0 THEN Outcome("OK", NewEnvironment)
               ELSE IF f[n - 1].status # "OK" THEN f[n - 1]
               ELSE SetEntry(f[n - 1].env, e.entries[n].key, e.entries[n].value)
  BY <1>2
<1> HIDE DEF f, g, Good
<1>4. \A n \in 0..e.len : f[n] = Outcome("OK", Prefix(e, n))
  <2> DEFINE bad == {n \in 0..e.len : f[n] # Outcome("OK", Prefix(e, n))}
  <2> SUFFICES ASSUME bad # {} PROVE FALSE
    OBVIOUS
  <2>1. bad \in SUBSET Nat
    BY <1>n
  <2>2. PICK n \in bad : \A k \in bad : n <= k
    BY <2>1, LeastNatural
  <2>3. n # 0
    BY <1>0, <1>e, <1>n
  <2>4. n - 1 \in 0..e.len /\ n \in 1..e.len /\ ~(n <= n - 1)
    BY <1>n, <2>3
  <2>5. f[n - 1] = Outcome("OK", Prefix(e, n - 1))
    BY <2>2, <2>4
  <2>6. f[n] = Outcome("OK", Prefix(e, n))
    BY <1>e, <1>o, <2>3, <2>4, <2>5, PrefixStep
  <2> QED  BY <2>6
<1> QED  BY <1>3, <1>4, <1>n

-----------------------------------------------------------------------------
(* The mapping, table by table.                                            *)
Maps(c) == [i \in DOMAIN c |-> MapOf(c[i])]
Orders(c) == [i \in DOMAIN c |-> KeyList(c[i])]

LEMMA FrontOf ==
  ASSUME NEW S, NEW s \in Seq(S), s # <<>>
  PROVE  /\ Len(s) \in Nat \ {0} /\ Last(s) = s[Len(s)] /\ Last(s) \in S
         /\ Front(s) \in Seq(S) /\ Len(Front(s)) = Len(s) - 1
         /\ \A i \in 1..(Len(s) - 1) : Front(s)[i] = s[i]
<1>1. Len(s) \in Nat \ {0}
  OBVIOUS
<1>2. Last(s) = s[Len(s)] /\ Last(s) \in S
  BY <1>1 DEF Last
<1>3. \A i \in 1..(Len(s) - 1) : i \in 1..Len(s) /\ s[i] \in S
  BY <1>1
<1>4. Front(s) = [i \in 1..(Len(s) - 1) |-> s[i]]
  BY <1>1, <1>3 DEF Front
<1>5. Len(s) - 1 \in Nat
  BY <1>1
<1> QED  BY <1>1, <1>2, <1>3, <1>4, <1>5

(* Two sequences are equal if they agree everywhere.                       *)
LEMMA SameSequence ==
  ASSUME NEW S, NEW s \in Seq(S), NEW t \in Seq(S), Len(s) = Len(t),
         \A i \in 1..Len(s) : s[i] = t[i]
  PROVE  s = t
  OBVIOUS

(* A function applied along a sequence.                                    *)
Along(F, c) == [i \in DOMAIN c |-> F[c[i]]]
LEMMA AlongIs ==
  ASSUME NEW F, NEW c \in Seq(DOMAIN F)
  PROVE  /\ Along(F, c) \in Seq(Range(F)) /\ Len(Along(F, c)) = Len(c)
         /\ \A i \in 1..Len(c) : Along(F, c)[i] = F[c[i]]
<1>1. \A i \in 1..Len(c) : c[i] \in DOMAIN F /\ F[c[i]] \in Range(F)
  BY DEF Range
<1>2. Along(F, c) = [i \in 1..Len(c) |-> F[c[i]]]
  BY DEF Along
<1> QED  BY <1>1, <1>2

LEMMA AlongCommutes ==
  ASSUME NEW F, NEW c \in Seq(DOMAIN F), c # <<>>, NEW t \in DOMAIN F
  PROVE  /\ Len(Along(F, c)) = Len(c) /\ Last(Along(F, c)) = F[Last(c)]
         /\ Along(F, Append(Front(c), t)) = Append(Front(Along(F, c)), F[t])
         /\ Along(F, Append(c, t)) = Append(Along(F, c), F[t])
         /\ Along(F, Front(c)) = Front(Along(F, c))
<1>1. Along(F, c) \in Seq(Range(F)) /\ Len(Along(F, c)) = Len(c) /\ \A i \in 1..Len(c) : Along(F, c)[i] = F[c[i]]
  BY AlongIs
<1>2. /\ Len(c) \in Nat \ {0} /\ Last(c) = c[Len(c)] /\ Front(c) \in Seq(DOMAIN F) /\ Len(Front(c)) = Len(c) - 1
      /\ \A i \in 1..(Len(c) - 1) : Front(c)[i] = c[i] /\ i \in 1..Len(c)
  BY FrontOf
<1>3. Along(F, c) # <<>>
  BY <1>1, <1>2
<1>4. /\ Last(Along(F, c)) = Along(F, c)[Len(c)]
      /\ Front(Along(F, c)) \in Seq(Range(F)) /\ Len(Front(Along(F, c))) = Len(c) - 1
      /\ \A i \in 1..(Len(c) - 1) : Front(Along(F, c))[i] = Along(F, c)[i]
  BY <1>1, <1>3, FrontOf
<1>5. Last(Along(F, c)) = F[Last(c)]
  BY <1>1, <1>2, <1>4
<1>6. Along(F, Front(c)) = Front(Along(F, c))
  <2>1. /\ Along(F, Front(c)) \in Seq(Range(F)) /\ Len(Along(F, Front(c))) = Len(c) - 1
        /\ \A i \in 1..(Len(c) - 1) : Along(F, Front(c))[i] = F[Front(c)[i]]
    BY <1>2, AlongIs
  <2>2. \A i \in 1..(Len(c) - 1) : Along(F, Front(c))[i] = Front(Along(F, c))[i]
    BY <1>1, <1>2, <1>4, <2>1
  <2> QED  BY <1>4, <2>1, <2>2, SameSequence
<1>7. ASSUME NEW d \in Seq(DOMAIN F) PROVE Along(F, Append(d, t)) = Append(Along(F, d), F[t])
  <2>1. /\ Append(d, t) \in Seq(DOMAIN F) /\ Len(Append(d, t)) = Len(d) + 1 /\ Append(d, t)[Len(d) + 1] = t
        /\ \A i \in 1..Len(d) : Append(d, t)[i] = d[i]
    OBVIOUS
  <2>2. /\ Along(F, Append(d, t)) \in Seq(Range(F)) /\ Len(Along(F, Append(d, t))) = Len(d) + 1
        /\ \A i \in 1..(Len(d) + 1) : Along(F, Append(d, t))[i] = F[Append(d, t)[i]]
    <3>1. PICK a : a = Append(d, t)
      OBVIOUS
    <3>2. /\ Along(F, a) \in Seq(Range(F)) /\ Len(Along(F, a)) = Len(a)
          /\ \A i \in 1..Len(a) : Along(F, a)[i] = F[a[i]]
      BY <2>1, <3>1, AlongIs, ZenonT(60)
    <3> QED  BY <2>1, <3>1, <3>2
  <2>3. Along(F, d) \in Seq(Range(F)) /\ Len(Along(F, d)) = Len(d) /\ \A i \in 1..Len(d) : Along(F, d)[i] = F[d[i]]
    BY AlongIs
  <2>r. F[t] \in Range(F)
    BY DEF Range
  <2>4. /\ Append(Along(F, d), F[t]) \in Seq(Range(F)) /\ Len(Append(Along(F, d), F[t])) = Len(d) + 1
        /\ Append(Along(F, d), F[t])[Len(d) + 1] = F[t]
        /\ \A i \in 1..Len(d) : Append(Along(F, d), F[t])[i] = Along(F, d)[i]
    BY <2>3, <2>r
  <2>5. \A i \in 1..(Len(d) + 1) : i \in 1..Len(d) \/ i = Len(d) + 1
    OBVIOUS
  <2>6. \A i \in 1..(Len(d) + 1) : Along(F, Append(d, t))[i] = Append(Along(F, d), F[t])[i]
    BY <2>1, <2>2, <2>3, <2>4, <2>5
  <2> QED  BY <2>2, <2>4, <2>6, SameSequence
<1> QED  BY <1>1, <1>2, <1>5, <1>6, <1>7

MapFn == [e \in Tables |-> MapOf(e)]
ListFn == [e \in Tables |-> KeyList(e)]
LEMMA MapsAlong ==
  ASSUME NEW c \in Seq(Tables)
  PROVE  Maps(c) = Along(MapFn, c) /\ Orders(c) = Along(ListFn, c)
<1>1. \A i \in DOMAIN c : c[i] \in Tables
  OBVIOUS
<1> QED  BY <1>1 DEF Maps, Orders, Along, MapFn, ListFn

LEMMA TablesCommute ==
  ASSUME NEW c \in Seq(Tables), c # <<>>, NEW t \in Tables
  PROVE  /\ Len(Maps(c)) = Len(c) /\ Last(Maps(c)) = MapOf(Last(c))
         /\ Maps(Append(Front(c), t)) = Append(Front(Maps(c)), MapOf(t))
         /\ Maps(Append(c, t)) = Append(Maps(c), MapOf(t))
         /\ Maps(Front(c)) = Front(Maps(c))
         /\ Last(Orders(c)) = KeyList(Last(c))
         /\ Orders(Append(Front(c), t)) = Append(Front(Orders(c)), KeyList(t))
         /\ Orders(Append(c, t)) = Append(Orders(c), KeyList(t))
         /\ Orders(Front(c)) = Front(Orders(c))
         /\ Last(c) \in Tables
<1>1. Front(c) \in Seq(Tables) /\ Append(Front(c), t) \in Seq(Tables) /\ Append(c, t) \in Seq(Tables)
  BY FrontOf
<1>2. Last(c) \in Tables
  BY FrontOf
<1>3. DOMAIN MapFn = Tables
  BY DEF MapFn
<1>4. DOMAIN ListFn = Tables
  BY DEF ListFn
<1>5. MapFn[t] = MapOf(t) /\ MapFn[Last(c)] = MapOf(Last(c)) /\ ListFn[t] = KeyList(t) /\ ListFn[Last(c)] = KeyList(Last(c))
  BY <1>2 DEF MapFn, ListFn
<1>6. /\ Maps(c) = Along(MapFn, c) /\ Maps(Front(c)) = Along(MapFn, Front(c))
      /\ Maps(Append(Front(c), t)) = Along(MapFn, Append(Front(c), t))
      /\ Maps(Append(c, t)) = Along(MapFn, Append(c, t))
  BY <1>1, MapsAlong
<1>7. /\ Orders(c) = Along(ListFn, c) /\ Orders(Front(c)) = Along(ListFn, Front(c))
      /\ Orders(Append(Front(c), t)) = Along(ListFn, Append(Front(c), t))
      /\ Orders(Append(c, t)) = Along(ListFn, Append(c, t))
  BY <1>1, MapsAlong
<1>8. /\ Len(Along(MapFn, c)) = Len(c) /\ Last(Along(MapFn, c)) = MapFn[Last(c)]
      /\ Along(MapFn, Append(Front(c), t)) = Append(Front(Along(MapFn, c)), MapFn[t])
      /\ Along(MapFn, Append(c, t)) = Append(Along(MapFn, c), MapFn[t])
      /\ Along(MapFn, Front(c)) = Front(Along(MapFn, c))
  BY <1>3, AlongCommutes
<1>9. /\ Last(Along(ListFn, c)) = ListFn[Last(c)]
      /\ Along(ListFn, Append(Front(c), t)) = Append(Front(Along(ListFn, c)), ListFn[t])
      /\ Along(ListFn, Append(c, t)) = Append(Along(ListFn, c), ListFn[t])
      /\ Along(ListFn, Front(c)) = Front(Along(ListFn, c))
  BY <1>4, AlongCommutes
<1> QED  BY <1>2, <1>5, <1>6, <1>7, <1>8, <1>9

-----------------------------------------------------------------------------
LEMMA NewIsEmpty ==
  NewEnvironment \in Tables /\ MapOf(NewEnvironment) = <<>> /\ KeyList(NewEnvironment) = <<>>
<1>1. NewEnvironment \in [entries : [1..MaxVars -> Entry], len : 0..MaxVars] /\ NewEnvironment.len = 0
  BY ValueTypes DEF NewEnvironment
<1>2. NewEnvironment \in Tables
  BY <1>1 DEF Tables, Table
<1>3. KeysOf(NewEnvironment) = {}
  BY <1>1 DEF KeysOf
<1> QED  BY <1>1, <1>2, <1>3 DEF MapOf, KeyList

LEMMA InitMaps == EnvInit => ChainInv /\ Abstract!Init
<1> SUFFICES ASSUME EnvInit PROVE ChainInv /\ Abstract!Init
  OBVIOUS
<1>1. chain = <<NewEnvironment>> /\ reply = <<"none">>
  BY DEF EnvInit
<1>2. ChainInv
  BY <1>1, NewIsEmpty DEF ChainInv
<1>3. Maps(chain) = <<<<>>>> /\ Orders(chain) = <<<<>>>>
  BY <1>1, NewIsEmpty DEF Maps, Orders
<1> QED  BY <1>1, <1>2, <1>3 DEF Abstract!Init, Maps, Orders, KeyList

(* The abstract state, read off the chain.                                 *)
LEMMA Reads ==
  ASSUME ChainInv
  PROVE  /\ Current \in Tables /\ Table(Current)
         /\ Abstract!Mine = MapOf(Current) /\ DOMAIN MapOf(Current) = KeysOf(Current)
         /\ Last(Orders(chain)) = KeyList(Current)
         /\ \A key : Abstract!Known(key) <=> key \in KeysOf(Current)
         /\ Abstract!Full <=> Current.len = MaxVars
<1>1. Current \in Tables /\ Last(Maps(chain)) = MapOf(Current) /\ Last(Orders(chain)) = KeyList(Current)
  BY NewIsEmpty, TablesCommute DEF ChainInv, Current
<1>2. Table(Current)
  BY <1>1 DEF Tables
<1>3. Abstract!Mine = MapOf(Current)
  BY <1>1 DEF Abstract!Mine, Maps, Abstract!Last, Last
<1>4. DOMAIN MapOf(Current) = KeysOf(Current)
  BY <1>2, MapAt
<1>5. Cardinality(KeysOf(Current)) = Current.len
  BY <1>2, AsManyKeys
<1>6. \A S : Abstract!Cardinality(S) = Cardinality(S)
  BY DEF Abstract!Cardinality, Cardinality
<1>7. Abstract!Full <=> Current.len = MaxVars
  BY <1>3, <1>4, <1>5, <1>6 DEF Abstract!Full
<1> QED  BY <1>1, <1>2, <1>3, <1>4, <1>7 DEF Abstract!Known

(* A call that leaves the tables, and one that replaces the current one.   *)
LEMMA SameLast ==
  ASSUME NEW S, NEW s \in Seq(S), s # <<>>
  PROVE  Append(Front(s), Last(s)) = s
<1> DEFINE f == Front(s)
           c == Append(f, Last(s))
<1>1. /\ Len(s) \in Nat \ {0} /\ Last(s) = s[Len(s)] /\ Last(s) \in S
      /\ f \in Seq(S) /\ Len(f) = Len(s) - 1
      /\ \A i \in 1..(Len(s) - 1) : f[i] = s[i]
  BY FrontOf
<1> HIDE DEF f
<1>2. /\ c \in Seq(S) /\ Len(c) = Len(s) /\ c[Len(s)] = Last(s)
      /\ \A i \in 1..(Len(s) - 1) : c[i] = f[i]
  BY <1>1
<1> HIDE DEF c
<1>3. \A i \in 1..Len(s) : c[i] = s[i]
  BY <1>1, <1>2
<1>4. c = s
  BY <1>2, <1>3, SameSequence
<1> QED  BY <1>4 DEF c, f

LEMMA UnchangedTable ==
  ASSUME ChainInv, Update(Current) PROVE ChainInv' /\ chain' = chain
<1>1. chain' = Append(Front(chain), Last(chain))
  BY DEF Update, Current
<1>2. Append(Front(chain), Last(chain)) = chain
  BY SameLast DEF ChainInv
<1>3. chain' = chain
  BY <1>1, <1>2
<1>4. ChainInv'
  BY <1>3 DEF ChainInv
<1>5. QED
  BY <1>3, <1>4

LEMMA Replaces ==
  ASSUME ChainInv, NEW t \in Tables, Update(t)
  PROVE  /\ ChainInv'
         /\ Maps(chain)' = Append(Front(Maps(chain)), MapOf(t))
         /\ Orders(chain)' = Append(Front(Orders(chain)), KeyList(t))
<1>1. chain' = Append(Front(chain), t) /\ chain \in Seq(Tables) /\ chain # <<>>
  BY DEF Update, ChainInv
<1>2. Front(chain) \in Seq(Tables)
  BY <1>1, FrontOf
<1>3. ChainInv'
  BY <1>1, <1>2 DEF ChainInv
<1> QED  BY <1>1, <1>3, TablesCommute

(* setenv and unsetenv.                                                    *)
LEMMA ReplacedIs ==
  ASSUME NEW s, NEW e PROVE Abstract!Replaced(s, e) = Append(Front(s), e)
  BY DEF Abstract!Replaced, Abstract!Front, Front

LEMMA SetStep ==
  ASSUME ChainInv, NEW key \in Keys, NEW value \in Values, SetEnv(key, value)
  PROVE  ChainInv' /\ Abstract!Set(key, value)
<1> DEFINE e == Current
<1>1. PICK r : r = SetEntry(e, key, value)
  OBVIOUS
<1>2. Update(r.env) /\ reply' = <<r.status>>
  BY <1>1 DEF SetEnv
<1>3. /\ Table(e) /\ Abstract!Mine = MapOf(e) /\ DOMAIN MapOf(e) = KeysOf(e)
      /\ Last(Orders(chain)) = KeyList(e)
      /\ (Abstract!Known(key) <=> key \in KeysOf(e)) /\ (Abstract!Full <=> e.len = MaxVars)
  BY Reads
<1>4. ASSUME NEW status, r = Outcome(status, e) PROVE ChainInv' /\ Abstract!Refuse(status)
  <2>1. Update(Current) /\ reply' = <<status>>
    BY <1>2, <1>4 DEF Outcome
  <2>2. ChainInv' /\ chain' = chain
    BY <2>1, UnchangedTable
  <2>3. QED  BY <2>1, <2>2 DEF Abstract!Refuse
<1> DEFINE g == [k \in KeysOf(e) \cup {key} |-> IF k = key THEN value ELSE MapOf(e)[k]]
<1>5. ASSUME r.status = "OK", Table(r.env), MapOf(r.env) = g
      PROVE  /\ ChainInv' /\ reply' = <<"OK">>
             /\ Maps(chain)' = Append(Front(Maps(chain)), g)
             /\ Orders(chain)' = Append(Front(Orders(chain)), KeyList(r.env))
  <2>1. PICK t \in Tables : t = r.env
    BY <1>5 DEF Tables, Table
  <2>2. Update(t)
    BY <1>2, <2>1
  <2>3. QED  BY <1>2, <1>5, <2>1, <2>2, Replaces
<1>6. CASE ~Accepts(key, value)
  BY <1>1, <1>3, <1>4, <1>6, SetRefuses DEF Abstract!Set, Accepts
<1>7. CASE Accepts(key, value) /\ key \notin KeysOf(e) /\ e.len = MaxVars
  BY <1>1, <1>3, <1>4, <1>7, SetRefuses DEF Abstract!Set, Accepts
<1>8. CASE Accepts(key, value) /\ key \in KeysOf(e)
  <2>1. KeysOf(e) = KeysOf(e) \cup {key}
    BY <1>8
  <2>2. r.status = "OK" /\ Table(r.env) /\ KeyList(r.env) = KeyList(e) /\ MapOf(r.env) = g
    BY <1>1, <1>3, <1>8, <2>1, SetUpdates
  <2>3. /\ ChainInv' /\ reply' = <<"OK">>
        /\ Maps(chain)' = Append(Front(Maps(chain)), g)
        /\ Orders(chain)' = Append(Front(Orders(chain)), Last(Orders(chain)))
    BY <1>3, <1>5, <2>2
  <2>4. Orders(chain)' = Orders(chain)
    <3>1. chain \in Seq(Tables) /\ chain # <<>> /\ NewEnvironment \in Tables
      BY NewIsEmpty DEF ChainInv
    <3>2. Orders(chain) = Along(ListFn, chain) /\ DOMAIN ListFn = Tables
      BY <3>1, MapsAlong DEF ListFn
    <3>3. Orders(chain) \in Seq(Range(ListFn)) /\ Orders(chain) # <<>>
      BY <3>1, <3>2, AlongIs
    <3>4. QED  BY <2>3, <3>3, SameLast
  <2>5. Maps(chain)' = Abstract!Replaced(Maps(chain), g)
    BY <2>3, ReplacedIs
  <2>6. QED  BY <1>3, <1>8, <2>3, <2>4, <2>5 DEF Abstract!Set, Accepts, Maps, Orders, KeyList
<1>9. CASE Accepts(key, value) /\ key \notin KeysOf(e) /\ e.len # MaxVars
  <2>2. r.status = "OK" /\ Table(r.env) /\ KeyList(r.env) = Append(KeyList(e), key) /\ MapOf(r.env) = g
    BY <1>1, <1>3, <1>9, SetAppends
  <2>3. /\ ChainInv' /\ reply' = <<"OK">>
        /\ Maps(chain)' = Append(Front(Maps(chain)), g)
        /\ Orders(chain)' = Append(Front(Orders(chain)), Append(Last(Orders(chain)), key))
    BY <1>3, <1>5, <2>2
  <2>5. /\ Maps(chain)' = Abstract!Replaced(Maps(chain), g)
        /\ Orders(chain)' = Abstract!Replaced(Orders(chain), Append(Last(Orders(chain)), key))
    BY <2>3, ReplacedIs
  <2>6. QED  BY <1>3, <1>9, <2>3, <2>5 DEF Abstract!Set, Accepts, Maps, Orders, KeyList, Abstract!Last, Last
<1>10. QED  BY <1>6, <1>7, <1>8, <1>9

LEMMA KnownIsOk ==
  ASSUME NEW e, Table(e), NEW key \in KeysOf(e)
  PROVE  KeyStatus(key) = "OK"
  BY FindsPlace DEF Table

LEMMA PositionIs ==
  ASSUME ChainInv, NEW key \in KeysOf(Current)
  PROVE  Abstract!Position(key) = FindIndex(Current, key)
<1>1. Table(Current) /\ Last(Orders(chain)) = KeyList(Current)
  BY Reads
<1>2. PICK l : l = KeyList(Current)
  OBVIOUS
<1>3. PICK x \in 1..Current.len : x = FindIndex(Current, key) /\ Current.entries[x].key = key
  BY <1>1, FindsPlace
<1>4. DOMAIN l = 1..Current.len /\ \A i \in 1..Current.len : l[i] = Current.entries[i].key
  BY <1>2 DEF KeyList
<1>5. \A i \in DOMAIN l : l[i] = key <=> i = x
  BY <1>1, <1>3, <1>4 DEF Table
<1>6. (CHOOSE i \in DOMAIN l : l[i] = key) = x
  BY <1>3, <1>4, <1>5
<1>7. Abstract!Position(key) = CHOOSE i \in DOMAIN l : l[i] = key
  BY <1>1, <1>2 DEF Abstract!Position, Abstract!Last, Last, Orders, KeyList
<1>8. QED  BY <1>3, <1>6, <1>7

LEMMA UnsetStep ==
  ASSUME ChainInv, NEW key \in Keys, UnsetEnv(key)
  PROVE  ChainInv' /\ Abstract!Unset(key)
<1> DEFINE e == Current
<1>1. PICK r : r = RemoveEntry(e, key)
  OBVIOUS
<1>2. Update(r.env) /\ reply' = <<r.status>>
  BY <1>1 DEF UnsetEnv
<1>3. /\ Table(e) /\ Abstract!Mine = MapOf(e) /\ DOMAIN MapOf(e) = KeysOf(e)
      /\ Last(Orders(chain)) = KeyList(e)
      /\ (Abstract!Known(key) <=> key \in KeysOf(e))
  BY Reads
<1>4. ASSUME NEW status, r = Outcome(status, e) PROVE ChainInv' /\ Abstract!Refuse(status)
  <2>1. Update(Current) /\ reply' = <<status>>
    BY <1>2, <1>4 DEF Outcome
  <2>2. ChainInv' /\ chain' = chain
    BY <2>1, UnchangedTable
  <2>3. QED  BY <2>1, <2>2 DEF Abstract!Refuse
<1>5. CASE KeyStatus(key) # "OK"
  BY <1>1, <1>3, <1>4, <1>5, RemoveRefuses DEF Abstract!Unset
<1>6. CASE KeyStatus(key) = "OK" /\ key \notin KeysOf(e)
  BY <1>1, <1>3, <1>4, <1>6, RemoveRefuses DEF Abstract!Unset
<1>7. CASE KeyStatus(key) = "OK" /\ key \in KeysOf(e)
  <2> DEFINE g == [k \in KeysOf(e) \ {key} |-> MapOf(e)[k]]
  <2>1. /\ r.status = "OK" /\ Table(r.env) /\ MapOf(r.env) = g
        /\ KeyList(r.env) = RemoveAt(KeyList(e), FindIndex(e, key))
    BY <1>1, <1>3, <1>7, RemoveCloses
  <2>2. PICK t \in Tables : t = r.env
    BY <2>1 DEF Tables, Table
  <2>3. Update(t)
    BY <1>2, <2>2
  <2>4. /\ ChainInv'
        /\ Maps(chain)' = Append(Front(Maps(chain)), g)
        /\ Orders(chain)' = Append(Front(Orders(chain)), RemoveAt(KeyList(e), FindIndex(e, key)))
    BY <2>1, <2>2, <2>3, Replaces
  <2>5. FindIndex(e, key) = Abstract!Position(key)
    BY <1>7, PositionIs
  <2>6. \A s, i : Abstract!RemoveAt(s, i) = RemoveAt(s, i)
    BY DEF Abstract!RemoveAt, RemoveAt
  <2>7. /\ Maps(chain)' = Abstract!Replaced(Maps(chain), g)
        /\ Orders(chain)' = Abstract!Replaced(Orders(chain),
                               Abstract!RemoveAt(Last(Orders(chain)), Abstract!Position(key)))
    BY <1>3, <2>4, <2>5, <2>6, ReplacedIs
  <2>8. reply' = <<"OK">>
    BY <1>2, <2>1
  <2>9. QED  BY <1>3, <1>7, <2>4, <2>7, <2>8 DEF Abstract!Unset, Maps, Orders, KeyList, Abstract!Last, Last
<1>8. QED  BY <1>5, <1>6, <1>7

(* getenv and the listing.                                                 *)
LEMMA GetStep ==
  ASSUME ChainInv, NEW key \in Keys, NEW size \in Sizes, GetEnv(key, size)
  PROVE  ChainInv' /\ Abstract!Get(key, size)
<1> DEFINE e == Current
           x == FindIndex(e, key)
<1>1. chain' = chain
  BY DEF GetEnv
<1>2. ChainInv'
  BY <1>1 DEF ChainInv
<1>3. /\ Table(e) /\ Abstract!Mine = MapOf(e) /\ DOMAIN MapOf(e) = KeysOf(e)
      /\ (Abstract!Known(key) <=> key \in KeysOf(e))
  BY Reads
<1>4. \A st : reply' = <<st>> => Abstract!Refuse(st)
  BY <1>1 DEF Abstract!Refuse
<1>5. CASE KeyStatus(key) # "OK"
  <2>1. reply' = <<"INVALID_KEY">>
    BY <1>5 DEF GetEnv
  <2>2. QED  BY <1>2, <1>4, <1>5, <2>1 DEF Abstract!Get
<1>6. CASE KeyStatus(key) = "OK" /\ key \notin KeysOf(e)
  <2>1. x = 0
    BY <1>3, <1>6, FindsPlace
  <2>2. reply' = <<"NOT_FOUND">>
    BY <1>6, <2>1 DEF GetEnv
  <2>3. QED  BY <1>2, <1>3, <1>4, <1>6, <2>2 DEF Abstract!Get
<1>7. CASE KeyStatus(key) = "OK" /\ key \in KeysOf(e)
  <2>1. x \in 1..e.len /\ e.entries[x].key = key /\ e.len \in Nat /\ e.len <= MaxVars /\ MaxVars \in Nat
    BY <1>3, <1>7, FindsPlace, LenIsNat, ValueTypes
  <2>2. PICK value : value = e.entries[x].value
    OBVIOUS
  <2>3. x # 0 /\ x \in 1..MaxVars /\ Abstract!Mine[key] = value
    BY <1>3, <2>1, <2>2, MapAt
  <2>4. value \in Values
    <3>1. e.entries \in [1..MaxVars -> Entry]
      BY <1>3 DEF Table
    <3>2. e.entries[x] \in Entry
      BY <2>3, <3>1
    <3>3. QED  BY <2>2, <3>2 DEF Entry
  <2>5. Len(value) \in Nat /\ size \in Nat
    BY <2>4, ValueTypes, EnvironmentAssumption
  <2>6. CASE size < Len(value)
    <3>1. reply' = <<"BUFFER_TOO_SMALL">>
      BY <1>7, <2>2, <2>3, <2>6 DEF GetEnv
    <3>2. QED  BY <1>2, <1>3, <1>4, <1>7, <2>3, <2>5, <2>6, <3>1 DEF Abstract!Get
  <2>7. CASE ~(size < Len(value))
    <3>1. reply' = <<"value", value>>
      BY <1>7, <2>2, <2>3, <2>7 DEF GetEnv
    <3>2. QED  BY <1>1, <1>2, <1>3, <1>7, <2>3, <2>5, <2>7, <3>1 DEF Abstract!Get
  <2>8. QED  BY <2>6, <2>7
<1>8. QED  BY <1>5, <1>6, <1>7

LEMMA ListStep ==
  ASSUME ChainInv, NEW size \in Sizes, ListEnv(size)
  PROVE  ChainInv' /\ Abstract!List(size)
<1> DEFINE e == Current
<1>1. chain' = chain
  BY DEF ListEnv
<1>2. ChainInv'
  BY <1>1 DEF ChainInv
<1>3. Table(e) /\ Abstract!Mine = MapOf(e) /\ Last(Orders(chain)) = KeyList(e)
  BY Reads
<1>4. PICK l, m : l = KeyList(e) /\ m = MapOf(e)
  OBVIOUS
<1>5. Abstract!Listing = [i \in DOMAIN l |-> <<l[i], m[l[i]]>>]
  <2>1. [i \in DOMAIN chain |-> [j \in 1..chain[i].len |-> chain[i].entries[j].key]] = Orders(chain)
    BY DEF Orders, KeyList
  <2>2. Abstract!Last(Orders(chain)) = l
    BY <1>3, <1>4 DEF Abstract!Last, Last
  <2>3. QED  BY <1>3, <1>4, <2>1, <2>2 DEF Abstract!Listing
<1>6. DOMAIN l = 1..e.len /\ \A i \in 1..e.len : l[i] = e.entries[i].key /\ m[l[i]] = e.entries[i].value
  <2>1. DOMAIN l = 1..e.len /\ \A i \in 1..e.len : l[i] = e.entries[i].key
    BY <1>4 DEF KeyList
  <2>2. QED  BY <1>3, <1>4, <2>1, MapAt
<1>7. Abstract!Listing = Pairs(e)
  BY <1>5, <1>6 DEF Pairs
<1>8. reply' = IF ListingSize(Pairs(e)) > size THEN <<"BUFFER_TOO_SMALL">> ELSE <<"list", Pairs(e)>>
  BY DEF ListEnv
<1>9. QED  BY <1>1, <1>2, <1>7, <1>8 DEF Abstract!List

(* spawn copies every variable, and exit uncovers the parent's table.      *)
LEMMA SpawnStep ==
  ASSUME ChainInv, Spawn PROVE ChainInv' /\ Abstract!Spawn
<1> DEFINE e == Current
<1>1. PICK p : p = Prefix(e, e.len)
  OBVIOUS
<1>2. /\ Table(e) /\ Abstract!Mine = MapOf(e) /\ Last(Orders(chain)) = KeyList(e)
  BY Reads
<1>3. e.len \in Nat /\ e.len \in 0..e.len
  BY <1>2, LenIsNat
<1>4. Table(p) /\ p.len = e.len /\ \A i \in 1..e.len : p.entries[i] = e.entries[i]
  BY <1>1, <1>2, <1>3, PrefixTable
<1>5. KeyList(p) = KeyList(e) /\ KeysOf(p) = KeysOf(e)
  BY <1>4 DEF KeyList, KeysOf
<1>6. MapOf(p) = MapOf(e)
  <2>1. PICK m : m = MapOf(e)
    OBVIOUS
  <2>2. m = [k \in KeysOf(p) |-> m[k]]
    BY <1>5, <2>1 DEF MapOf
  <2>3. \A i \in 1..p.len : m[p.entries[i].key] = p.entries[i].value
    BY <1>2, <1>4, <2>1, MapAt
  <2>4. QED  BY <1>4, <2>1, <2>2, <2>3, MapIs
<1>7. InheritInto(e).status = "OK" /\ InheritInto(e).env = p
  BY <1>1, <1>2, InheritsAll DEF Outcome
<1>8. Len(chain) < MaxDepth /\ chain' = Append(chain, p) /\ reply' = <<"OK">>
  BY <1>7 DEF Spawn
<1>9. p \in Tables /\ chain \in Seq(Tables) /\ chain # <<>>
  BY <1>4 DEF Tables, Table, ChainInv
<1>10. ChainInv'
  BY <1>8, <1>9 DEF ChainInv
<1>11. /\ Len(Maps(chain)) = Len(chain)
       /\ Maps(Append(chain, p)) = Append(Maps(chain), MapOf(p))
       /\ Orders(Append(chain, p)) = Append(Orders(chain), KeyList(p))
  BY <1>9, TablesCommute
<1>12. /\ Maps(chain)' = Append(Maps(chain), MapOf(e))
       /\ Orders(chain)' = Append(Orders(chain), Last(Orders(chain)))
  BY <1>2, <1>5, <1>6, <1>8, <1>11
<1>13. Len(Maps(chain)) < MaxDepth
  BY <1>8, <1>11
<1>14. QED
  BY <1>2, <1>8, <1>10, <1>12, <1>13 DEF Abstract!Spawn, Maps, Orders, KeyList, Abstract!Last, Last

LEMMA ExitStep ==
  ASSUME ChainInv, Exit PROVE ChainInv' /\ Abstract!Exit
<1>1. /\ chain \in Seq(Tables) /\ chain # <<>> /\ NewEnvironment \in Tables
      /\ Len(chain) > 1 /\ chain' = Front(chain) /\ reply' = <<"OK">>
  BY NewIsEmpty DEF ChainInv, Exit
<1>2. Front(chain) \in Seq(Tables) /\ Len(Front(chain)) = Len(chain) - 1 /\ Len(chain) \in Nat
  BY <1>1, FrontOf
<1>3. Front(chain) # <<>>
  BY <1>1, <1>2
<1>4. ChainInv'
  BY <1>1, <1>2, <1>3 DEF ChainInv
<1>5. Len(Maps(chain)) = Len(chain) /\ Maps(Front(chain)) = Front(Maps(chain))
      /\ Orders(Front(chain)) = Front(Orders(chain))
  BY <1>1, TablesCommute
<1>6. Maps(chain)' = Front(Maps(chain)) /\ Orders(chain)' = Front(Orders(chain))
  BY <1>1, <1>5
<1>7. Len(Maps(chain)) > 1
  BY <1>1, <1>5
<1>8. QED
  BY <1>1, <1>4, <1>6, <1>7 DEF Abstract!Exit, Maps, Orders, KeyList, Abstract!Front, Front

-----------------------------------------------------------------------------
LEMMA EnvironmentStep ==
  ASSUME ChainInv, EnvNext PROVE ChainInv' /\ Abstract!Next
<1>1. ASSUME NEW key \in Keys, NEW value \in Values, SetEnv(key, value)
      PROVE  ChainInv' /\ Abstract!Next
  BY <1>1, SetStep DEF Abstract!Next
<1>2. ASSUME NEW key \in Keys, UnsetEnv(key) PROVE ChainInv' /\ Abstract!Next
  BY <1>2, UnsetStep DEF Abstract!Next
<1>3. ASSUME NEW key \in Keys, NEW size \in Sizes, GetEnv(key, size)
      PROVE  ChainInv' /\ Abstract!Next
  BY <1>3, GetStep DEF Abstract!Next
<1>4. ASSUME NEW size \in Sizes, ListEnv(size) PROVE ChainInv' /\ Abstract!Next
  BY <1>4, ListStep DEF Abstract!Next
<1>5. CASE Spawn
  BY <1>5, SpawnStep DEF Abstract!Next
<1>6. CASE Exit
  BY <1>6, ExitStep DEF Abstract!Next
<1>7. QED  BY <1>1, <1>2, <1>3, <1>4, <1>5, <1>6 DEF EnvNext

LEMMA ShellStep ==
  ASSUME ChainInv, [Next]_vars
  PROVE  ChainInv' /\ (Abstract!Next \/ (chain' = chain /\ reply' = reply))
<1>1. CASE EnvNext
  BY <1>1, EnvironmentStep
<1>2. CASE chain' = chain /\ reply' = reply
  BY <1>2 DEF ChainInv
<1>3. QED
  BY <1>1, <1>2 DEF Next, Execute, UseEnvironment, PassArguments, vars, envVars

(* Every table in the chain holds distinct keys and only entries that set  *)
(* accepts, however variables are set, removed and inherited.              *)
THEOREM ChainInvariant == Spec => []ChainInv
<1>1. Init => ChainInv
  BY InitMaps DEF Init
<1>2. ChainInv /\ [Next]_vars => ChainInv'
  BY ShellStep
<1>3. QED  BY <1>1, <1>2, PTL DEF Spec

(* The environment syscalls implement a map with insertion order: what was *)
(* set is read, listed and inherited, a removal disturbs no other          *)
(* variable, and the copy of a parent's table into a child never fails.    *)
THEOREM EnvironmentImplementsMap == Spec => ImplementsEnvMap
<1>1. Init => Abstract!Init
  BY InitMaps DEF Init
<1>2. ChainInv /\ [Next]_vars => [Abstract!vars' # Abstract!vars /\ Abstract!Next]_(Abstract!vars)
  <2> SUFFICES ASSUME ChainInv, [Next]_vars
               PROVE  Abstract!Next \/ Abstract!vars' = Abstract!vars
    OBVIOUS
  <2>1. CASE Abstract!Next
    BY <2>1
  <2>2. CASE chain' = chain /\ reply' = reply
    BY <2>2 DEF Abstract!vars
  <2>3. QED  BY <2>1, <2>2, ShellStep
<1>3. QED  BY <1>1, <1>2, ChainInvariant, PTL DEF Spec, ImplementsEnvMap, Abstract!Spec

-----------------------------------------------------------------------------
(* How its arguments reach a program: what the recursive functions of      *)
(* Startup compute, the words and strings of the block, and the invariant  *)
(* of the call.                                                            *)
(* A number shifted by whole bytes.                                        *)
LEMMA ShiftedIs ==
  ASSUME NEW number \in Nat
  PROVE  \E f \in [0..Word -> Nat] :
           Shifted(number) = f /\ f[0] = number /\ \A n \in 1..Word : f[n] = f[n - 1] \div 256
<1> DEFINE L == Word
           Is(f) == f = [n \in 0..L |-> IF n = 0 THEN number ELSE f[n - 1] \div 256]
<1>1. L \in Nat
  BY StartupAssumption
<1>d. Shifted(number) = (CHOOSE f : Is(f))
  BY DEF Shifted
<1>2. \A e \in Nat : \A n \in 1..L : e \div 256 \in Nat
  BY <1>1
<1>3. PICK succ : succ = [n \in 1..L |-> [e \in Nat |-> e \div 256]]
  OBVIOUS
<1>4. succ \in Steps(L, Nat)
  BY <1>2, <1>3 DEF Steps
<1>s. number \in Nat
  BY <1>1
<1> HIDE DEF L, Is
<1>5. PICK f : Chain(f, L, Nat, number, succ)
  BY <1>1, <1>4, <1>s, Recursion
<1>6. f \in [0..L -> Nat] /\ f[0] = number /\ \A n \in 1..L : f[n] = succ[n][f[n - 1]]
  BY <1>5 DEF Chain
<1>7. ASSUME NEW n \in 1..L PROVE f[n] = f[n - 1] \div 256
  <2>1. n - 1 \in 0..L
    BY <1>1
  <2>2. f[n - 1] \in Nat
    BY <2>1, <1>6
  <2> QED  BY <2>2, <1>3, <1>6
<1>8. Is(f)
  <2>1. ASSUME NEW n \in 0..L PROVE f[n] = IF n = 0 THEN number ELSE f[n - 1] \div 256
    <3>1. CASE n = 0
      BY <3>1, <1>6
    <3>2. CASE n # 0
      <4>1. n \in 1..L
        BY <3>2, <1>1
      <4> QED  BY <3>2, <4>1, <1>7
    <3> QED  BY <3>1, <3>2
  <2> QED  BY <2>1, <1>6 DEF Is
<1>9. PICK g : g = CHOOSE h : Is(h)
  OBVIOUS
<1>10. Is(g)
  BY <1>8, <1>9
<1>11. g[0] = number /\ \A n \in 1..L : g[n] = g[n - 1] \div 256
  <2>1. \A n \in 0..L : g[n] = IF n = 0 THEN number ELSE g[n - 1] \div 256
    BY <1>10 DEF Is
  <2>2. 0 \in 0..L /\ \A n \in 1..L : n \in 0..L /\ n # 0
    BY <1>1
  <2> QED  BY <2>1, <2>2
<1> DEFINE T == {n \in 0..L : g[n] \in Nat}
<1>12. 0 \in T
  BY <1>1, <1>s, <1>11
<1>13. ASSUME NEW n \in 1..L, n - 1 \in T PROVE n \in T
  <2>1. n \in 0..L /\ g[n - 1] \in Nat
    BY <1>1, <1>13
  <2>2. g[n] = g[n - 1] \div 256
    BY <1>11
  <2>3. g[n - 1] \div 256 \in Nat
    BY <2>1, <1>2
  <2> QED  BY <2>1, <2>2, <2>3
<1> HIDE DEF T
<1>14. \A n \in 0..L : n \in T
  BY <1>1, <1>12, <1>13, UpTo
<1>15. g \in [0..L -> Nat]
  <2>1. \A n \in 0..L : g[n] \in Nat
    BY <1>14 DEF T
  <2>2. g = [n \in 0..L |-> g[n]]
    BY <1>10 DEF Is
  <2> QED  BY <2>1, <2>2
<1> QED  BY <1>9, <1>11, <1>15, <1>d DEF L

(* The word that bytes of the stack make.                                  *)
LEMMA ReadWordIs ==
  ASSUME NEW at \in Int, \A k \in 0..(Word - 1) : stack[at + k] \in Nat
  PROVE  \E f \in [0..Word -> Nat] :
           ReadWord(at) = f[Word] /\ f[0] = 0 /\ \A n \in 1..Word : f[n] = 256 * f[n - 1] + stack[at + Word - n]
<1> DEFINE L == Word
           Is(f) == f = [n \in 0..L |-> IF n = 0 THEN 0 ELSE 256 * f[n - 1] + stack[at + Word - n]]
<1>1. L \in Nat /\ Word \in Nat
  BY StartupAssumption
<1>d. ReadWord(at) = (CHOOSE f : Is(f))[Word]
  BY DEF ReadWord
<1>2. \A e \in Nat : \A n \in 1..L : 256 * e + stack[at + Word - n] \in Nat
  BY <1>1
<1>3. PICK succ : succ = [n \in 1..L |-> [e \in Nat |-> 256 * e + stack[at + Word - n]]]
  OBVIOUS
<1>4. succ \in Steps(L, Nat)
  BY <1>2, <1>3 DEF Steps
<1>s. 0 \in Nat
  BY <1>1
<1> HIDE DEF L, Is
<1>5. PICK f : Chain(f, L, Nat, 0, succ)
  BY <1>1, <1>4, <1>s, Recursion
<1>6. f \in [0..L -> Nat] /\ f[0] = 0 /\ \A n \in 1..L : f[n] = succ[n][f[n - 1]]
  BY <1>5 DEF Chain
<1>7. ASSUME NEW n \in 1..L PROVE f[n] = 256 * f[n - 1] + stack[at + Word - n]
  <2>1. n - 1 \in 0..L
    BY <1>1
  <2>2. f[n - 1] \in Nat
    BY <2>1, <1>6
  <2> QED  BY <2>2, <1>3, <1>6
<1>8. Is(f)
  <2>1. ASSUME NEW n \in 0..L PROVE f[n] = IF n = 0 THEN 0 ELSE 256 * f[n - 1] + stack[at + Word - n]
    <3>1. CASE n = 0
      BY <3>1, <1>6
    <3>2. CASE n # 0
      <4>1. n \in 1..L
        BY <3>2, <1>1
      <4> QED  BY <3>2, <4>1, <1>7
    <3> QED  BY <3>1, <3>2
  <2> QED  BY <2>1, <1>6 DEF Is
<1>9. PICK g : g = CHOOSE h : Is(h)
  OBVIOUS
<1>10. Is(g)
  BY <1>8, <1>9
<1>11. g[0] = 0 /\ \A n \in 1..L : g[n] = 256 * g[n - 1] + stack[at + Word - n]
  <2>1. \A n \in 0..L : g[n] = IF n = 0 THEN 0 ELSE 256 * g[n - 1] + stack[at + Word - n]
    BY <1>10 DEF Is
  <2>2. 0 \in 0..L /\ \A n \in 1..L : n \in 0..L /\ n # 0
    BY <1>1
  <2> QED  BY <2>1, <2>2
<1> DEFINE T == {n \in 0..L : g[n] \in Nat}
<1>12. 0 \in T
  BY <1>1, <1>s, <1>11
<1>13. ASSUME NEW n \in 1..L, n - 1 \in T PROVE n \in T
  <2>1. n \in 0..L /\ g[n - 1] \in Nat
    BY <1>1, <1>13
  <2>2. g[n] = 256 * g[n - 1] + stack[at + Word - n]
    BY <1>11
  <2>3. 256 * g[n - 1] + stack[at + Word - n] \in Nat
    BY <2>1, <1>2
  <2> QED  BY <2>1, <2>2, <2>3
<1> HIDE DEF T
<1>14. \A n \in 0..L : n \in T
  BY <1>1, <1>12, <1>13, UpTo
<1>15. g \in [0..L -> Nat]
  <2>1. \A n \in 0..L : g[n] \in Nat
    BY <1>14 DEF T
  <2>2. g = [n \in 0..L |-> g[n]]
    BY <1>10 DEF Is
  <2> QED  BY <2>1, <2>2
<1> QED  BY <1>9, <1>11, <1>15, <1>d DEF L

Cuts == [args : Seq(Seq(Nat)), rest : Seq(Nat)]
CutStep(c, byte) ==
  IF byte = Nul THEN [args |-> Append(c.args, c.rest), rest |-> <<>>]
  ELSE [args |-> c.args, rest |-> Append(c.rest, byte)]
NoCut == [args |-> <<>>, rest |-> <<>>]
LEMMA CutStepType == ASSUME NEW c \in Cuts, NEW byte \in Nat PROVE CutStep(c, byte) \in Cuts
<1>1. c.args \in Seq(Seq(Nat)) /\ c.rest \in Seq(Nat)
  BY DEF Cuts
<1>2. Append(c.args, c.rest) \in Seq(Seq(Nat)) /\ Append(c.rest, byte) \in Seq(Nat) /\ <<>> \in Seq(Nat)
  BY <1>1
<1> QED  BY <1>1, <1>2 DEF Cuts, CutStep

(* The cutting of the tail, byte by byte.                                   *)
LEMMA SplitIs ==
  ASSUME NEW tail \in Seq(Nat)
  PROVE  \E f \in [0..Len(tail) -> Cuts] :
           Split(tail) = f[Len(tail)].args /\ f[0] = NoCut /\ \A n \in 1..Len(tail) : f[n] = CutStep(f[n - 1], tail[n])
<1> DEFINE L == Len(tail)
           Is(f) == f = [n \in 0..L |-> IF n = 0 THEN NoCut ELSE CutStep(f[n - 1], tail[n])]
<1>1. L \in Nat /\ \A n \in 1..L : tail[n] \in Nat
  BY StartupAssumption
<1>d. Split(tail) = (CHOOSE f : Is(f))[Len(tail)].args
  BY DEF Split, CutStep, NoCut
<1>2. \A e \in Cuts : \A n \in 1..L : CutStep(e, tail[n]) \in Cuts
  BY <1>1, CutStepType
<1>3. PICK succ : succ = [n \in 1..L |-> [e \in Cuts |-> CutStep(e, tail[n])]]
  OBVIOUS
<1>4. succ \in Steps(L, Cuts)
  BY <1>2, <1>3 DEF Steps
<1>s. NoCut \in Cuts
  BY <1>1 DEF Cuts, NoCut
<1> HIDE DEF L, Is
<1>5. PICK f : Chain(f, L, Cuts, NoCut, succ)
  BY <1>1, <1>4, <1>s, Recursion
<1>6. f \in [0..L -> Cuts] /\ f[0] = NoCut /\ \A n \in 1..L : f[n] = succ[n][f[n - 1]]
  BY <1>5 DEF Chain
<1>7. ASSUME NEW n \in 1..L PROVE f[n] = CutStep(f[n - 1], tail[n])
  <2>1. n - 1 \in 0..L
    BY <1>1
  <2>2. f[n - 1] \in Cuts
    BY <2>1, <1>6
  <2> QED  BY <2>2, <1>3, <1>6
<1>8. Is(f)
  <2>1. ASSUME NEW n \in 0..L PROVE f[n] = IF n = 0 THEN NoCut ELSE CutStep(f[n - 1], tail[n])
    <3>1. CASE n = 0
      BY <3>1, <1>6
    <3>2. CASE n # 0
      <4>1. n \in 1..L
        BY <3>2, <1>1
      <4> QED  BY <3>2, <4>1, <1>7
    <3> QED  BY <3>1, <3>2
  <2> QED  BY <2>1, <1>6 DEF Is
<1>9. PICK g : g = CHOOSE h : Is(h)
  OBVIOUS
<1>10. Is(g)
  BY <1>8, <1>9
<1>11. g[0] = NoCut /\ \A n \in 1..L : g[n] = CutStep(g[n - 1], tail[n])
  <2>1. \A n \in 0..L : g[n] = IF n = 0 THEN NoCut ELSE CutStep(g[n - 1], tail[n])
    BY <1>10 DEF Is
  <2>2. 0 \in 0..L /\ \A n \in 1..L : n \in 0..L /\ n # 0
    BY <1>1
  <2> QED  BY <2>1, <2>2
<1> DEFINE T == {n \in 0..L : g[n] \in Cuts}
<1>12. 0 \in T
  BY <1>1, <1>s, <1>11
<1>13. ASSUME NEW n \in 1..L, n - 1 \in T PROVE n \in T
  <2>1. n \in 0..L /\ g[n - 1] \in Cuts
    BY <1>1, <1>13
  <2>2. g[n] = CutStep(g[n - 1], tail[n])
    BY <1>11
  <2>3. CutStep(g[n - 1], tail[n]) \in Cuts
    BY <2>1, <1>2
  <2> QED  BY <2>1, <2>2, <2>3
<1> HIDE DEF T
<1>14. \A n \in 0..L : n \in T
  BY <1>1, <1>12, <1>13, UpTo
<1>15. g \in [0..L -> Cuts]
  <2>1. \A n \in 0..L : g[n] \in Cuts
    BY <1>14 DEF T
  <2>2. g = [n \in 0..L |-> g[n]]
    BY <1>10 DEF Is
  <2> QED  BY <2>1, <2>2
<1> QED  BY <1>9, <1>11, <1>15, <1>d DEF L

(* A number up to the top of the stack is what its bytes make again.       *)
LEMMA DividesUp == ASSUME NEW a \in Nat, NEW b \in Nat, a <= b
                   PROVE  a \div 256 <= b \div 256 /\ a \div 256 \in Nat /\ a = 256 * (a \div 256) + (a % 256)
  OBVIOUS

LEMMA FitsWord == ASSUME NEW number \in Nat, number <= StackTop
                  PROVE  Shifted(number)[Word] = 0
<1>1. StackTop \in Nat /\ Word \in Nat /\ Shifted(StackTop)[Word] = 0
  BY StartupAssumption
<1>2. PICK f \in [0..Word -> Nat] :
        Shifted(number) = f /\ f[0] = number /\ \A n \in 1..Word : f[n] = f[n - 1] \div 256
  BY ShiftedIs
<1>t. PICK top \in Nat : top = StackTop
  BY <1>1
<1>g. PICK g \in [0..Word -> Nat] :
        Shifted(top) = g /\ g[0] = top /\ \A n \in 1..Word : g[n] = g[n - 1] \div 256
  BY ShiftedIs
<1>3. Shifted(StackTop) = g /\ g[0] = StackTop /\ \A n \in 1..Word : g[n] = g[n - 1] \div 256
  BY <1>t, <1>g
<1> DEFINE T == {n \in 0..Word : f[n] <= g[n]}
<1>4. 0 \in T
  BY <1>1, <1>2, <1>3
<1>5. ASSUME NEW n \in 1..Word, n - 1 \in T PROVE n \in T
  <2>1. n \in 0..Word /\ n - 1 \in 0..Word /\ f[n - 1] <= g[n - 1]
    BY <1>1, <1>5
  <2>2. f[n - 1] \in Nat /\ g[n - 1] \in Nat
    BY <2>1, <1>2, <1>3
  <2>3. f[n - 1] \div 256 <= g[n - 1] \div 256
    BY <2>1, <2>2, DividesUp
  <2> QED  BY <2>1, <2>3, <1>2, <1>3
<1> HIDE DEF T
<1>6. \A n \in 0..Word : n \in T
  BY <1>1, <1>4, <1>5, UpTo
<1>7. Word \in 0..Word
  BY <1>1
<1>8. f[Word] <= g[Word] /\ f[Word] \in Nat
  BY <1>6, <1>7, <1>2 DEF T
<1> QED  BY <1>1, <1>2, <1>3, <1>8

LEMMA WordReadBack ==
  ASSUME NEW number \in Nat, number <= StackTop, NEW at \in Int,
         \A k \in 0..(Word - 1) : stack[at + k] = Shifted(number)[k] % 256
  PROVE  ReadWord(at) = number
<1>1. Word \in Nat
  BY StartupAssumption
<1>2. PICK f \in [0..Word -> Nat] :
        Shifted(number) = f /\ f[0] = number /\ \A n \in 1..Word : f[n] = f[n - 1] \div 256
  BY ShiftedIs
<1>3. \A k \in 0..(Word - 1) : f[k] \in Nat /\ stack[at + k] = f[k] % 256
  <2> SUFFICES ASSUME NEW k \in 0..(Word - 1) PROVE f[k] \in Nat /\ stack[at + k] = f[k] % 256
    OBVIOUS
  <2>1. k \in 0..Word
    BY <1>1
  <2> QED  BY <2>1, <1>2
<1>4. \A k \in 0..(Word - 1) : stack[at + k] \in Nat
  BY <1>3
<1>5. PICK w \in [0..Word -> Nat] :
        ReadWord(at) = w[Word] /\ w[0] = 0 /\ \A n \in 1..Word : w[n] = 256 * w[n - 1] + stack[at + Word - n]
  BY <1>4, ReadWordIs
<1>6. f[Word] = 0
  BY <1>2, FitsWord
<1> DEFINE T == {n \in 0..Word : w[n] = f[Word - n]}
<1>7. 0 \in T
  BY <1>1, <1>5, <1>6
<1>8. ASSUME NEW n \in 1..Word, n - 1 \in T PROVE n \in T
  <2>1. n \in 0..Word /\ n - 1 \in 0..Word /\ w[n - 1] = f[Word - (n - 1)]
    BY <1>1, <1>8
  <2>2. PICK k \in 0..(Word - 1) : k = Word - n
    BY <1>1
  <2>3. k + 1 \in 1..Word /\ (k + 1) - 1 = k /\ Word - (n - 1) = k + 1 /\ at + Word - n = at + k
    BY <1>1, <2>2
  <2>4. f[k + 1] = f[k] \div 256
    BY <2>3, <1>2
  <2>5. f[k] \in Nat /\ stack[at + k] = f[k] % 256
    BY <1>3
  <2>6. f[k] = 256 * (f[k] \div 256) + (f[k] % 256)
    BY <2>5, DividesUp
  <2>7. w[n] = 256 * w[n - 1] + stack[at + k]
    BY <1>5, <2>3
  <2>8. w[n] = f[k]
    <3>1. PICK x \in Nat, y \in Nat : x = f[k] /\ y = x \div 256
      BY <2>5, DividesUp
    <3>2. w[n - 1] = y
      BY <2>1, <2>3, <2>4, <3>1
    <3>3. w[n] = 256 * y + (x % 256) /\ x = 256 * y + (x % 256)
      BY <2>5, <2>6, <2>7, <3>1, <3>2
    <3> QED  BY <3>1, <3>3
  <2> QED  BY <2>1, <2>2, <2>8
<1> HIDE DEF T
<1>9. \A n \in 0..Word : n \in T
  BY <1>1, <1>7, <1>8, UpTo
<1>10. Word \in 0..Word /\ Word - Word = 0
  BY <1>1
<1>11. w[Word] = f[Word - Word]
  BY <1>9, <1>10 DEF T
<1> QED  BY <1>2, <1>5, <1>10, <1>11

(* A list of arguments is packed one after the other.                      *)
Flattens(P, ss) ==
  /\ P \in [0..Len(ss) -> Seq(Nat)]
  /\ P[0] = <<>> /\ \A n \in 1..Len(ss) : P[n] = P[n - 1] \o ss[n]
LEMMA FlattenIs ==
  ASSUME NEW ss \in Seq(Seq(Nat))
  PROVE  \E P : Flattens(P, ss) /\ FlattenSeq(ss) = P[Len(ss)]
<1> DEFINE L == Len(ss)
           S == Seq(Nat)
           Is(f) == f = [i \in 1..L |-> IF i = 1 THEN ss[i] ELSE f[i - 1] \o ss[i]]
<1>1. L \in Nat /\ \A n \in 1..L : ss[n] \in S
  OBVIOUS
<1>d. FlattenSeq(ss) = IF L = 0 THEN ss ELSE (CHOOSE f : Is(f))[L]
  BY DEF FlattenSeq
<1>2. \A e \in S : \A n \in 1..L : e \o ss[n] \in S
  BY <1>1
<1>3. PICK succ : succ = [n \in 1..L |-> [e \in S |-> e \o ss[n]]]
  OBVIOUS
<1>4. succ \in Steps(L, S)
  BY <1>2, <1>3 DEF Steps
<1>s. <<>> \in S
  OBVIOUS
<1>e. \A e \in S : <<>> \o e = e
  OBVIOUS
<1>z. L = 0 => ss = <<>>
  OBVIOUS
<1>p. ASSUME NEW P PROVE Flattens(P, ss) <=>
        P \in [0..L -> S] /\ P[0] = <<>> /\ \A n \in 1..L : P[n] = P[n - 1] \o ss[n]
  BY DEF Flattens
<1> HIDE DEF L, Is, S
<1>5. PICK P : Chain(P, L, S, <<>>, succ)
  BY <1>1, <1>4, <1>s, Recursion
<1>6. P \in [0..L -> S] /\ P[0] = <<>> /\ \A n \in 1..L : P[n] = succ[n][P[n - 1]]
  BY <1>5 DEF Chain
<1>7. ASSUME NEW n \in 1..L PROVE P[n] = P[n - 1] \o ss[n]
  <2>1. n - 1 \in 0..L
    BY <1>1
  <2>2. P[n - 1] \in S
    BY <2>1, <1>6
  <2> QED  BY <2>2, <1>3, <1>6
<1>8. Flattens(P, ss)
  BY <1>6, <1>7, <1>p
<1>9. CASE L = 0
  BY <1>9, <1>6, <1>8, <1>d, <1>z DEF L
<1>10. CASE L # 0
  <2>1. PICK f : f = [i \in 1..L |-> P[i]]
    OBVIOUS
  <2>2. Is(f)
    <3>1. ASSUME NEW i \in 1..L PROVE f[i] = IF i = 1 THEN ss[i] ELSE f[i - 1] \o ss[i]
      <4>1. CASE i = 1
        <5>0. 1 \in 1..L /\ 1 - 1 = 0
          BY <1>1, <1>10
        <5>1. f[1] = P[0] \o ss[1]
          BY <2>1, <5>0, <1>7
        <5> QED  BY <5>1, <4>1, <1>1, <1>6, <1>e
      <4>2. CASE i # 1
        <5>1. i - 1 \in 1..L
          BY <4>2, <1>1
        <5> QED  BY <5>1, <4>2, <2>1, <1>7
      <4> QED  BY <4>1, <4>2
    <3> QED  BY <3>1, <2>1 DEF Is
  <2>3. PICK g : g = CHOOSE h : Is(h)
    OBVIOUS
  <2>4. Is(g)
    BY <2>2, <2>3
  <2>5. \A i \in 1..L : g[i] = IF i = 1 THEN ss[i] ELSE g[i - 1] \o ss[i]
    BY <2>4 DEF Is
  <2> DEFINE T == {n \in 0..L : n = 0 \/ g[n] = P[n]}
  <2>6. 0 \in T
    BY <1>1
  <2>7. ASSUME NEW n \in 1..L, n - 1 \in T PROVE n \in T
    <3>0. n \in 0..L /\ n # 0
      BY <1>1
    <3>1. CASE n = 1
      <4>0. 1 \in 1..L /\ 1 - 1 = 0
        BY <1>1, <1>10
      <4>1. g[n] = ss[n] /\ P[n] = P[0] \o ss[n]
        BY <3>1, <4>0, <2>5, <1>7
      <4>2. P[n] = ss[n]
        BY <4>1, <1>1, <1>6, <1>e
      <4> QED  BY <3>0, <4>1, <4>2
    <3>2. CASE n # 1
      <4>1. g[n - 1] = P[n - 1]
        BY <2>7, <3>2, <3>0
      <4>2. g[n] = g[n - 1] \o ss[n] /\ P[n] = P[n - 1] \o ss[n]
        BY <3>2, <2>5, <1>7
      <4> QED  BY <3>0, <4>1, <4>2
    <3> QED  BY <3>1, <3>2
  <2> HIDE DEF T
  <2>8. \A n \in 0..L : n \in T
    BY <1>1, <2>6, <2>7, UpTo
  <2>9. g[L] = P[L]
    <3>1. L \in 0..L
      BY <1>1
    <3> QED  BY <3>1, <2>8, <1>10 DEF T
  <2> QED  BY <2>3, <2>9, <1>8, <1>10, <1>d DEF L
<1> QED  BY <1>9, <1>10

AgreeUpTo(ss, tt, m) == m <= Len(ss) /\ m <= Len(tt) /\ \A i \in 1..m : ss[i] = tt[i]
LEMMA FlattensOnce ==
  ASSUME NEW ss \in Seq(Seq(Nat)), NEW tt \in Seq(Seq(Nat)), NEW P, NEW Q, Flattens(P, ss), Flattens(Q, tt),
         NEW m \in Nat, AgreeUpTo(ss, tt, m)
  PROVE  \A n \in 0..m : P[n] = Q[n]
<1> DEFINE T == {n \in 0..m : P[n] = Q[n]}
<1>1. Len(ss) \in Nat /\ Len(tt) \in Nat /\ m <= Len(ss) /\ m <= Len(tt) /\ \A i \in 1..m : ss[i] = tt[i]
  BY DEF AgreeUpTo
<1>2. P[0] = <<>> /\ Q[0] = <<>>
  BY DEF Flattens
<1>3. \A n \in 1..m : P[n] = P[n - 1] \o ss[n] /\ Q[n] = Q[n - 1] \o tt[n]
  <2> SUFFICES ASSUME NEW n \in 1..m PROVE P[n] = P[n - 1] \o ss[n] /\ Q[n] = Q[n - 1] \o tt[n]
    OBVIOUS
  <2>1. n \in 1..Len(ss) /\ n \in 1..Len(tt)
    BY <1>1
  <2> QED  BY <2>1 DEF Flattens
<1>4. 0 \in T
  BY <1>2
<1>5. ASSUME NEW n \in 1..m, n - 1 \in T PROVE n \in T
  <2>1. n \in 0..m /\ P[n - 1] = Q[n - 1]
    BY <1>5
  <2> QED  BY <2>1, <1>1, <1>3
<1> HIDE DEF T
<1>6. \A n \in 0..m : n \in T
  BY <1>4, <1>5, UpTo
<1> QED  BY <1>6 DEF T

(* P[n] is what the first n arguments are packed into.                     *)
Terminated(args) == [i \in DOMAIN args |-> Append(args[i], Nul)]
LEMMA TerminatedType ==
  ASSUME NEW args \in Seq(Seq(Nat))
  PROVE  /\ Terminated(args) \in Seq(Seq(Nat)) /\ Len(Terminated(args)) = Len(args)
         /\ \A i \in 1..Len(args) : Terminated(args)[i] = Append(args[i], Nul)
         /\ Packed(args) = FlattenSeq(Terminated(args))
<1>1. \A i \in 1..Len(args) : Append(args[i], Nul) \in Seq(Nat)
  BY DEF Nul
<1>2. Terminated(args) = [i \in 1..Len(args) |-> Append(args[i], Nul)]
  BY DEF Terminated
<1>3. PICK n \in Nat : n = Len(args)
  OBVIOUS
<1> QED  BY <1>1, <1>2, <1>3 DEF Packed, Terminated

Packs(P, args) ==
  /\ P \in [0..Len(args) -> Seq(Nat)]
  /\ P[0] = <<>> /\ \A n \in 1..Len(args) : P[n] = P[n - 1] \o Append(args[n], Nul)
LEMMA PackedIs ==
  ASSUME NEW args \in Seq(Seq(Nat))
  PROVE  \E P : /\ Packs(P, args) /\ Packed(args) = P[Len(args)]
                /\ \A n \in 0..Len(args) : Packed(SubSeq(args, 1, n)) = P[n]
<1>s. PICK ss : ss = Terminated(args)
  OBVIOUS
<1>1. /\ ss \in Seq(Seq(Nat)) /\ Len(ss) = Len(args)
      /\ \A i \in 1..Len(args) : ss[i] = Append(args[i], Nul)
      /\ Packed(args) = FlattenSeq(ss)
  BY <1>s, TerminatedType
<1>2. PICK P : Flattens(P, ss) /\ FlattenSeq(ss) = P[Len(ss)]
  BY <1>1, FlattenIs
<1>3. Packs(P, args) /\ Packed(args) = P[Len(args)]
  BY <1>1, <1>2 DEF Packs, Flattens
<1>4. ASSUME NEW n \in 0..Len(args) PROVE Packed(SubSeq(args, 1, n)) = P[n]
  <2>1. PICK part : part = SubSeq(args, 1, n)
    OBVIOUS
  <2>2. part \in Seq(Seq(Nat)) /\ Len(part) = n /\ \A i \in 1..n : part[i] = args[i]
    BY <2>1
  <2>3. PICK tt : tt = Terminated(part)
    OBVIOUS
  <2>4. /\ tt \in Seq(Seq(Nat)) /\ Len(tt) = n /\ Packed(part) = FlattenSeq(tt)
        /\ \A i \in 1..n : tt[i] = Append(part[i], Nul)
    BY <2>2, <2>3, TerminatedType
  <2>5. PICK Q : Flattens(Q, tt) /\ FlattenSeq(tt) = Q[Len(tt)]
    BY <2>4, FlattenIs
  <2>6. n \in Nat /\ n <= Len(ss) /\ n <= Len(tt) /\ n \in 0..n
    BY <1>1, <2>4
  <2>7. \A i \in 1..n : ss[i] = tt[i]
    <3> SUFFICES ASSUME NEW i \in 1..n PROVE ss[i] = tt[i]
      OBVIOUS
    <3>1. i \in 1..Len(args) /\ part[i] = args[i]
      BY <2>2
    <3> QED  BY <3>1, <1>1, <2>4
  <2>8. \A i \in 0..n : P[i] = Q[i]
    <3>1. /\ ss \in Seq(Seq(Nat)) /\ tt \in Seq(Seq(Nat)) /\ Flattens(P, ss) /\ Flattens(Q, tt)
          /\ n \in Nat /\ AgreeUpTo(ss, tt, n)
      BY <1>1, <1>2, <2>4, <2>5, <2>6, <2>7 DEF AgreeUpTo
    <3> QED  BY ONLY <3>1, FlattensOnce
  <2> QED  BY <2>1, <2>4, <2>5, <2>6, <2>8
<1> QED  BY <1>3, <1>4

LEMMA PackedAppend ==
  ASSUME NEW args \in Seq(Seq(Nat)), NEW a \in Seq(Nat)
  PROVE  /\ Packed(Append(args, a)) = Packed(args) \o Append(a, Nul)
         /\ Packed(args) \in Seq(Nat)
<1>1. PICK more : more = Append(args, a)
  OBVIOUS
<1>2. PICK n \in Nat : n = Len(args)
  OBVIOUS
<1>3. /\ more \in Seq(Seq(Nat)) /\ Len(more) = n + 1 /\ more[n + 1] = a
      /\ SubSeq(more, 1, n) = args
  BY <1>1, <1>2
<1>4. PICK P : /\ Packs(P, more) /\ Packed(more) = P[Len(more)]
               /\ \A i \in 0..Len(more) : Packed(SubSeq(more, 1, i)) = P[i]
  BY <1>3, PackedIs
<1>5. n \in 0..(n + 1) /\ n + 1 \in 1..(n + 1) /\ (n + 1) - 1 = n
  BY <1>2
<1>6. Packed(args) = P[n] /\ P[n] \in Seq(Nat)
  BY <1>3, <1>4, <1>5 DEF Packs
<1>7. P[n + 1] = P[n] \o Append(a, Nul)
  BY <1>3, <1>4, <1>5 DEF Packs
<1> QED  BY <1>1, <1>3, <1>4, <1>6, <1>7

LEMMA PackedEmpty == Packed(<<>>) = <<>>
<1>1. <<>> \in Seq(Seq(Nat)) /\ Len(<<>>) = 0
  OBVIOUS
<1>2. PICK P : Packs(P, <<>>) /\ Packed(<<>>) = P[Len(<<>>)]
  BY <1>1, PackedIs
<1> QED  BY <1>1, <1>2 DEF Packs

(* The k-th argument in the packed bytes: after the earlier ones, whole,   *)
(* with its NUL.                                                           *)
Grows(P, args, k) ==
  /\ P[k - 1] \in Seq(Nat) /\ P[k] \in Seq(Nat) /\ args[k] \in Seq(Nat)
  /\ Len(P[k]) = Len(P[k - 1]) + Len(args[k]) + 1
  /\ \A j \in 1..Len(P[k - 1]) : P[k][j] = P[k - 1][j]
  /\ \A j \in 1..Len(args[k]) : P[k][Len(P[k - 1]) + j] = args[k][j]
  /\ P[k][Len(P[k])] = Nul
LEMMA PackedGrows ==
  ASSUME NEW args \in Seq(Seq(Nat)), NEW P, Packs(P, args), NEW k \in 1..Len(args)
  PROVE  Grows(P, args, k)
<1>1. k \in 0..Len(args) /\ k - 1 \in 0..Len(args)
  OBVIOUS
<1>2. PICK p, a, q : p = P[k - 1] /\ a = args[k] /\ q = P[k]
  OBVIOUS
<1>3. p \in Seq(Nat) /\ q \in Seq(Nat) /\ a \in Seq(Nat) /\ q = p \o Append(a, Nul)
  <2>1. P \in [0..Len(args) -> Seq(Nat)] /\ P[k] = P[k - 1] \o Append(args[k], Nul)
    BY DEF Packs
  <2>2. args[k] \in Seq(Nat)
    OBVIOUS
  <2>3. P[k - 1] \in Seq(Nat) /\ P[k] \in Seq(Nat)
    BY <1>1, <2>1
  <2> QED  BY <1>2, <2>1, <2>2, <2>3
<1>4. PICK m \in Nat, n \in Nat : m = Len(p) /\ n = Len(a)
  BY <1>3
<1>5. PICK t : t = Append(a, Nul)
  OBVIOUS
<1>6. t \in Seq(Nat) /\ Len(t) = n + 1 /\ t[n + 1] = Nul /\ \A j \in 1..n : t[j] = a[j]
  BY <1>3, <1>4, <1>5 DEF Nul
<1>7. /\ Len(q) = m + n + 1
      /\ \A j \in 1..m : q[j] = p[j]
      /\ \A j \in 1..(n + 1) : q[m + j] = t[j]
  <2>q. q = p \o t
    BY <1>3, <1>5
  <2>1. p \in Seq(Nat) /\ t \in Seq(Nat) /\ m = Len(p) /\ Len(t) = n + 1 /\ m \in Nat /\ n \in Nat
    BY <1>3, <1>4, <1>6
  <2>2. Len(p \o t) = m + n + 1
    <3>1. Len(p \o t) = Len(p) + Len(t)
      BY <2>1, ConcatProperties
    <3>2. Len(p \o t) = m + (n + 1) /\ m + (n + 1) = m + n + 1
      BY <2>1, <3>1
    <3> QED  BY <3>2
  <2>3. \A j \in 1..m : (p \o t)[j] = p[j]
    BY ONLY <2>1
  <2>4. \A j \in 1..(n + 1) : (p \o t)[m + j] = t[j]
    BY ONLY <2>1
  <2> QED  BY <2>q, <2>2, <2>3, <2>4
<1>8. q[m + n + 1] = Nul /\ \A j \in 1..n : q[m + j] = a[j]
  <2>1. n + 1 \in 1..(n + 1) /\ m + (n + 1) = m + n + 1 /\ \A j \in 1..n : j \in 1..(n + 1)
    OBVIOUS
  <2> QED  BY <2>1, <1>6, <1>7
<1> QED  BY <1>2, <1>3, <1>4, <1>7, <1>8 DEF Grows

StartsWith(q, p) == Len(p) <= Len(q) /\ \A j \in 1..Len(p) : q[j] = p[j]
LEMMA PackedBegins ==
  ASSUME NEW args \in Seq(Seq(Nat)), NEW P, Packs(P, args), NEW k \in 0..Len(args)
  PROVE  \A n \in k..Len(args) : StartsWith(P[n], P[k])
<1> DEFINE L == Len(args)
           T == {n \in 0..L : n >= k => StartsWith(P[n], P[k])}
<1>1. L \in Nat /\ \A n \in 0..L : P[n] \in Seq(Nat)
  <2>1. P \in [0..Len(args) -> Seq(Nat)]
    BY DEF Packs
  <2> QED  BY <2>1
<1>2. 0 \in T
  <2>1. 0 \in 0..L
    BY <1>1
  <2>2. 0 >= k => k = 0
    OBVIOUS
  <2>3. P[0] \in Seq(Nat)
    BY <2>1, <1>1
  <2>4. StartsWith(P[0], P[0])
    BY <2>3 DEF StartsWith
  <2> QED  BY <2>1, <2>2, <2>4
<1>3. ASSUME NEW n \in 1..L, n - 1 \in T PROVE n \in T
  <2>0. n \in 0..L /\ n - 1 \in 0..L
    BY <1>1
  <2>1. CASE n < k
    BY <2>0, <2>1
  <2>2. CASE n = k
    <3>1. StartsWith(P[n], P[n])
      BY <1>1, <2>0 DEF StartsWith
    <3> QED  BY <2>0, <2>2, <3>1
  <2>3. CASE n > k
    <3>1. n - 1 >= k
      BY <2>3, <2>0
    <3>2. StartsWith(P[n - 1], P[k])
      BY <3>1, <1>3
    <3>3. PICK p, q, s : p = P[k] /\ q = P[n - 1] /\ s = P[n]
      OBVIOUS
    <3>4. /\ q \in Seq(Nat) /\ args[n] \in Seq(Nat) /\ p \in Seq(Nat)
          /\ Len(s) = Len(q) + Len(args[n]) + 1 /\ \A j \in 1..Len(q) : s[j] = q[j]
      <4>1. /\ P[n - 1] \in Seq(Nat) /\ args[n] \in Seq(Nat)
            /\ Len(P[n]) = Len(P[n - 1]) + Len(args[n]) + 1
            /\ \A j \in 1..Len(P[n - 1]) : P[n][j] = P[n - 1][j]
        <5>1. Grows(P, args, n)
          BY PackedGrows
        <5> QED  BY <5>1 DEF Grows
      <4> QED  BY <4>1, <3>3, <1>1
    <3>5. Len(p) <= Len(q) /\ \A j \in 1..Len(p) : q[j] = p[j]
      BY <3>2, <3>3 DEF StartsWith
    <3>6. PICK x \in Nat, y \in Nat, z \in Nat : x = Len(p) /\ y = Len(q) /\ z = Len(args[n])
      BY <3>4
    <3>7. x <= y + z + 1 /\ \A j \in 1..x : j \in 1..y
      BY <3>5, <3>6
    <3>8. StartsWith(s, p)
      BY <3>4, <3>5, <3>6, <3>7 DEF StartsWith
    <3> QED  BY <2>0, <3>3, <3>8
  <2> QED  BY <2>0, <2>1, <2>2, <2>3
<1>h. \A n \in k..L : n \in 0..L /\ n >= k
  BY <1>1
<1> HIDE DEF T, L
<1>4. \A n \in 0..L : n \in T
  BY <1>1, <1>2, <1>3, UpTo
<1> QED  BY <1>4, <1>h DEF T, L

Place(p, P, args, k) ==
  /\ Len(P[k - 1]) \in Nat /\ Len(P[k]) = Len(P[k - 1]) + Len(args[k]) + 1 /\ Len(P[k]) <= Len(p)
  /\ \A j \in 1..Len(args[k]) : p[Len(P[k - 1]) + j] = args[k][j]
  /\ p[Len(P[k])] = Nul
LEMMA PackedAt ==
  ASSUME NEW args \in Seq(Seq(Nat)), NEW P, Packs(P, args), NEW k \in 1..Len(args)
  PROVE  Place(P[Len(args)], P, args, k)
<1>1. PICK p, q, s, a : p = P[k - 1] /\ q = P[k] /\ s = P[Len(args)] /\ a = args[k]
  OBVIOUS
<1>2. /\ p \in Seq(Nat) /\ q \in Seq(Nat) /\ a \in Seq(Nat)
      /\ Len(q) = Len(p) + Len(a) + 1
      /\ \A j \in 1..Len(a) : q[Len(p) + j] = a[j]
      /\ q[Len(q)] = Nul
  <2>1. /\ P[k - 1] \in Seq(Nat) /\ P[k] \in Seq(Nat) /\ args[k] \in Seq(Nat)
        /\ Len(P[k]) = Len(P[k - 1]) + Len(args[k]) + 1
        /\ \A j \in 1..Len(args[k]) : P[k][Len(P[k - 1]) + j] = args[k][j]
        /\ P[k][Len(P[k])] = Nul
    <3>1. Grows(P, args, k)
      BY PackedGrows
    <3> QED  BY <3>1 DEF Grows
  <2> QED  BY <2>1, <1>1
<1>3. k \in 0..Len(args) /\ Len(args) \in k..Len(args)
  OBVIOUS
<1>4. StartsWith(s, q)
  BY <1>1, <1>3, PackedBegins
<1>5. PICK m \in Nat, n \in Nat : m = Len(p) /\ n = Len(a)
  BY <1>2
<1>6. Len(q) = m + n + 1 /\ m + n + 1 \in 1..Len(q) /\ \A j \in 1..n : m + j \in 1..Len(q)
  <2>1. Len(q) = m + n + 1
    BY <1>2, <1>5
  <2>2. m + n + 1 \in 1..(m + n + 1) /\ \A j \in 1..n : m + j \in 1..(m + n + 1)
    BY ONLY m \in Nat, n \in Nat
  <2> QED  BY <2>1, <2>2
<1>7. Len(q) <= Len(s) /\ \A j \in 1..Len(q) : s[j] = q[j]
  BY <1>4 DEF StartsWith
<1>8. \A j \in 1..n : s[m + j] = a[j]
  BY <1>2, <1>5, <1>6, <1>7
<1>9. s[m + n + 1] = Nul
  BY <1>2, <1>6, <1>7
<1> QED  BY <1>1, <1>2, <1>5, <1>6, <1>7, <1>8, <1>9 DEF Place

-----------------------------------------------------------------------------
(* Cutting at the NULs undoes packing: c says how s is cut.                *)
NulFree(args) == \A i \in 1..Len(args) : ~Contains(args[i], Nul)
CutOf(c, s) == Packed(c.args) \o c.rest = s /\ NulFree(c.args) /\ ~Contains(c.rest, Nul)
Cut(a, r) == [args |-> a, rest |-> r]
LEMMA CutFields ==
  /\ \A c \in Cuts : c = Cut(c.args, c.rest) /\ c.args \in Seq(Seq(Nat)) /\ c.rest \in Seq(Nat)
  /\ \A a \in Seq(Seq(Nat)) : \A r \in Seq(Nat) :
       Cut(a, r) \in Cuts /\ Cut(a, r).args = a /\ Cut(a, r).rest = r
  BY DEF Cuts, Cut
LEMMA PackedType == ASSUME NEW args \in Seq(Seq(Nat)) PROVE Packed(args) \in Seq(Nat)
<1>1. <<>> \in Seq(Nat)
  OBVIOUS
<1> QED  BY <1>1, PackedAppend

LEMMA NulFreeAppend ==
  ASSUME NEW args \in Seq(Seq(Nat)), NEW a \in Seq(Nat)
  PROVE  NulFree(Append(args, a)) <=> NulFree(args) /\ ~Contains(a, Nul)
<1>1. PICK n \in Nat : n = Len(args)
  OBVIOUS
<1>2. PICK m : m = Append(args, a)
  OBVIOUS
<1>3. Len(m) = n + 1 /\ m[n + 1] = a /\ \A i \in 1..n : m[i] = args[i]
  BY <1>1, <1>2
<1>4. \A i : i \in 1..(n + 1) <=> i \in 1..n \/ i = n + 1
  BY <1>1
<1>5. NulFree(m) <=> NulFree(args) /\ ~Contains(a, Nul)
  BY <1>1, <1>3, <1>4 DEF NulFree
<1> QED  BY <1>2, <1>5
LEMMA ContainsAppend ==
  ASSUME NEW s \in Seq(Nat), NEW b \in Nat
  PROVE  Contains(Append(s, b), Nul) <=> Contains(s, Nul) \/ b = Nul
<1>1. PICK n \in Nat : n = Len(s)
  OBVIOUS
<1>2. PICK m : m = Append(s, b)
  OBVIOUS
<1>3. Len(m) = n + 1 /\ m[n + 1] = b /\ \A i \in 1..n : m[i] = s[i]
  BY <1>1, <1>2
<1>4. \A i : i \in 1..(n + 1) <=> i \in 1..n \/ i = n + 1
  BY <1>1
<1>5. Contains(m, Nul) <=> Contains(s, Nul) \/ b = Nul
  BY <1>1, <1>3, <1>4 DEF Contains
<1> QED  BY <1>2, <1>5

LEMMA AppendOver ==
  ASSUME NEW p \in Seq(Nat), NEW r \in Seq(Nat), NEW b \in Nat
  PROVE  p \o Append(r, b) = Append(p \o r, b) /\ p \o r \in Seq(Nat)
  OBVIOUS

LEMMA CutForward ==
  ASSUME NEW c \in Cuts, NEW s \in Seq(Nat), NEW b \in Nat, CutOf(c, s)
  PROVE  CutOf(CutStep(c, b), Append(s, b))
<1>1. PICK a \in Seq(Seq(Nat)), r \in Seq(Nat) : c = Cut(a, r) /\ c.args = a /\ c.rest = r
  BY CutFields
<1>2. Packed(a) \o r = s /\ NulFree(a) /\ ~Contains(r, Nul) /\ Packed(a) \in Seq(Nat)
  BY <1>1, PackedType DEF CutOf
<1>3. CASE b = Nul
  <2>1. PICK a2 : a2 = Append(a, r)
    OBVIOUS
  <2>2. a2 \in Seq(Seq(Nat)) /\ NulFree(a2) /\ Packed(a2) = Packed(a) \o Append(r, Nul)
    <3>1. Append(a, r) \in Seq(Seq(Nat))
      OBVIOUS
    <3>2. NulFree(Append(a, r))
      BY <1>2, NulFreeAppend
    <3>3. Packed(Append(a, r)) = Packed(a) \o Append(r, Nul)
      BY PackedAppend
    <3> QED  BY <2>1, <3>1, <3>2, <3>3
  <2>3. Packed(a2) = Append(s, b)
    BY <1>2, <1>3, <2>2, AppendOver
  <2>4. CutStep(c, b) = Cut(a2, <<>>) /\ <<>> \in Seq(Nat)
    BY <1>1, <1>3, <2>1 DEF CutStep, Cut
  <2>5. Cut(a2, <<>>).args = a2 /\ Cut(a2, <<>>).rest = <<>>
    BY DEF Cut
  <2>6. ~Contains(<<>>, Nul)
    BY DEF Contains
  <2>7. Packed(a2) \o <<>> = Packed(a2)
    BY <2>2, PackedType
  <2> QED  BY <2>2, <2>3, <2>4, <2>5, <2>6, <2>7 DEF CutOf
<1>4. CASE b # Nul
  <2>1. PICK r2 : r2 = Append(r, b)
    OBVIOUS
  <2>2. r2 \in Seq(Nat) /\ ~Contains(r2, Nul)
    BY <1>2, <1>4, <2>1, ContainsAppend
  <2>3. Packed(a) \o r2 = Append(s, b)
    BY <1>2, <2>1, AppendOver
  <2>4. CutStep(c, b) = Cut(a, r2)
    BY <1>1, <1>4, <2>1 DEF CutStep, Cut
  <2>5. Cut(a, r2).args = a /\ Cut(a, r2).rest = r2
    BY DEF Cut
  <2> QED  BY <1>2, <2>2, <2>3, <2>4, <2>5 DEF CutOf
<1> QED  BY <1>3, <1>4

LEMMA CutBack ==
  ASSUME NEW c \in Cuts, NEW s \in Seq(Nat), NEW b \in Nat, CutOf(c, Append(s, b))
  PROVE  /\ \E d \in Cuts : CutOf(d, s) /\ c = CutStep(d, b)
         /\ b = Nul => c.rest = <<>>
<1>1. PICK a \in Seq(Seq(Nat)), r \in Seq(Nat) : c = Cut(a, r) /\ c.args = a /\ c.rest = r
  BY CutFields
<1>2. Packed(a) \o r = Append(s, b) /\ NulFree(a) /\ ~Contains(r, Nul) /\ Packed(a) \in Seq(Nat)
  BY <1>1, PackedType DEF CutOf
<1>3. CASE r = <<>>
  <2>1. Packed(a) = Append(s, b)
    BY <1>2, <1>3
  <2>2. a # <<>>
    <3>1. Append(s, b) # <<>>
      OBVIOUS
    <3> QED  BY <2>1, <3>1, PackedEmpty
  <2>3. PICK a2 \in Seq(Seq(Nat)), x \in Seq(Nat) : a = Append(a2, x)
    BY <2>2, SequenceEmptyOrAppend
  <2>4. Packed(a2) \in Seq(Nat) /\ Packed(a) = Packed(a2) \o Append(x, Nul) /\ Nul \in Nat
    BY <2>3, PackedAppend DEF Nul
  <2>5. Packed(a) = Append(Packed(a2) \o x, Nul) /\ Packed(a2) \o x \in Seq(Nat)
    <3>1. PICK p \in Seq(Nat), z \in Nat : p = Packed(a2) /\ z = Nul
      BY <2>4
    <3>t. p \in Seq(Nat) /\ x \in Seq(Nat) /\ z \in Nat
      BY <2>3, <3>1
    <3>2. p \o Append(x, z) = Append(p \o x, z) /\ p \o x \in Seq(Nat)
      BY ONLY <3>t, AppendOver
    <3> QED  BY <2>4, <3>1, <3>2
  <2>6. b = Nul /\ s = Packed(a2) \o x
    <3>1. PICK p \in Seq(Nat), z \in Nat : p = Packed(a2) \o x /\ z = Nul
      BY <2>4, <2>5
    <3>2. Append(s, b) = Append(p, z)
      BY <2>1, <2>5, <3>1
    <3>3. s = p /\ b = z
      BY ONLY <3>2, s \in Seq(Nat), b \in Nat, p \in Seq(Nat), z \in Nat, AppendInjective
    <3> QED  BY <3>1, <3>3
  <2>7. NulFree(a2) /\ ~Contains(x, Nul)
    BY <1>2, <2>3, NulFreeAppend
  <2>8. PICK d \in Cuts : d = Cut(a2, x) /\ d.args = a2 /\ d.rest = x
    BY <2>3, CutFields
  <2>9. CutOf(d, s)
    BY <2>6, <2>7, <2>8 DEF CutOf
  <2>10. c = CutStep(d, b)
    BY <1>1, <1>3, <2>3, <2>6, <2>8 DEF CutStep, Cut
  <2> QED  BY <1>1, <1>3, <2>9, <2>10
<1>4. CASE r # <<>>
  <2>1. PICK r2 \in Seq(Nat), y \in Nat : r = Append(r2, y)
    BY <1>4, SequenceEmptyOrAppend
  <2>2. Append(Packed(a) \o r2, y) = Append(s, b) /\ Packed(a) \o r2 \in Seq(Nat)
    <3>1. PICK p \in Seq(Nat) : p = Packed(a)
      BY <1>2
    <3>t. p \in Seq(Nat) /\ r2 \in Seq(Nat) /\ y \in Nat
      BY <2>1, <3>1
    <3>2. p \o Append(r2, y) = Append(p \o r2, y) /\ p \o r2 \in Seq(Nat)
      BY ONLY <3>t, AppendOver
    <3> QED  BY <1>2, <2>1, <3>1, <3>2
  <2>3. y = b /\ s = Packed(a) \o r2
    <3>1. PICK p \in Seq(Nat) : p = Packed(a) \o r2
      BY <2>2
    <3>2. Append(s, b) = Append(p, y)
      BY <2>2, <3>1
    <3>3. s = p /\ b = y
      BY ONLY <3>2, s \in Seq(Nat), b \in Nat, p \in Seq(Nat), y \in Nat, AppendInjective
    <3> QED  BY <3>1, <3>3
  <2>4. ~Contains(r2, Nul) /\ b # Nul
    BY <1>2, <2>1, <2>3, ContainsAppend
  <2>5. PICK d \in Cuts : d = Cut(a, r2) /\ d.args = a /\ d.rest = r2
    BY <2>1, CutFields
  <2>6. CutOf(d, s)
    BY <1>2, <2>3, <2>4, <2>5 DEF CutOf
  <2>7. c = CutStep(d, b)
    BY <1>1, <2>1, <2>3, <2>4, <2>5 DEF CutStep, Cut
  <2> QED  BY <2>4, <2>6, <2>7
<1> QED  BY <1>3, <1>4

LEMMA CutNothing ==
  /\ NoCut \in Cuts /\ CutOf(NoCut, <<>>)
  /\ \A c \in Cuts : CutOf(c, <<>>) => c = NoCut
<1>1. <<>> \in Seq(Seq(Nat)) /\ <<>> \in Seq(Nat) /\ <<>> \o <<>> = <<>>
  OBVIOUS
<1>2. NoCut = Cut(<<>>, <<>>) /\ NoCut.args = <<>> /\ NoCut.rest = <<>>
  BY DEF NoCut, Cut
<1>3. NulFree(<<>>) /\ ~Contains(<<>>, Nul)
  BY DEF NulFree, Contains
<1>4. NoCut \in Cuts /\ CutOf(NoCut, <<>>)
  BY <1>1, <1>2, <1>3, PackedEmpty, CutFields DEF CutOf
<1>5. ASSUME NEW c \in Cuts, CutOf(c, <<>>) PROVE c = NoCut
  <2>1. PICK a \in Seq(Seq(Nat)), r \in Seq(Nat) : c = Cut(a, r) /\ c.args = a /\ c.rest = r
    BY CutFields
  <2>2. Packed(a) \o r = <<>> /\ Packed(a) \in Seq(Nat)
    BY <1>5, <2>1, PackedType DEF CutOf
  <2>3. Packed(a) = <<>> /\ r = <<>>
    BY <2>2
  <2>4. a = <<>>
    <3> SUFFICES ASSUME a # <<>> PROVE FALSE
      OBVIOUS
    <3>1. PICK a2 \in Seq(Seq(Nat)), x \in Seq(Nat) : a = Append(a2, x)
      BY SequenceEmptyOrAppend
    <3>2. PICK p \in Seq(Nat) : p = Packed(a2) /\ Packed(a) = p \o Append(x, Nul)
      BY <3>1, PackedAppend
    <3>3. Nul \in Nat /\ p \o Append(x, Nul) = Append(p \o x, Nul)
      BY <3>1, <3>2, AppendOver DEF Nul
    <3>4. Append(p \o x, Nul) # <<>>
      BY <3>1, <3>2, <3>3
    <3> QED  BY <2>3, <3>2, <3>3, <3>4
  <2> QED  BY <1>2, <2>1, <2>3, <2>4
<1> QED  BY <1>4, <1>5


OnlyCut(c, s) == CutOf(c, s) /\ \A d \in Cuts : CutOf(d, s) => d = c
LEMMA OnlyCutForward ==
  ASSUME NEW c \in Cuts, NEW s \in Seq(Nat), NEW b \in Nat, OnlyCut(c, s)
  PROVE  OnlyCut(CutStep(c, b), Append(s, b))
<1>1. CutOf(CutStep(c, b), Append(s, b))
  BY CutForward DEF OnlyCut
<1>2. ASSUME NEW d \in Cuts, CutOf(d, Append(s, b)) PROVE d = CutStep(c, b)
  <2>1. PICK e \in Cuts : CutOf(e, s) /\ d = CutStep(e, b)
    BY <1>2, CutBack
  <2> QED  BY <2>1 DEF OnlyCut
<1> QED  BY <1>1, <1>2 DEF OnlyCut

LEMMA SplitCuts ==
  ASSUME NEW tail \in Seq(Nat)
  PROVE  \E c \in Cuts : Split(tail) = c.args /\ OnlyCut(c, tail)
<1>1. PICK f \in [0..Len(tail) -> Cuts] :
        /\ Split(tail) = f[Len(tail)].args /\ f[0] = NoCut
        /\ \A n \in 1..Len(tail) : f[n] = CutStep(f[n - 1], tail[n])
  BY SplitIs
<1> DEFINE L == Len(tail)
           T == {n \in 0..L : OnlyCut(f[n], SubSeq(tail, 1, n))}
<1>2. L \in Nat /\ L \in 0..L /\ SubSeq(tail, 1, L) = tail /\ SubSeq(tail, 1, 0) = <<>> /\ 0 \in 0..L
  OBVIOUS
<1>3. 0 \in T
  <2>1. OnlyCut(NoCut, <<>>)
    BY CutNothing DEF OnlyCut
  <2> QED  BY <2>1, <1>1, <1>2
<1>4. ASSUME NEW n \in 1..L, n - 1 \in T PROVE n \in T
  <2>1. PICK c, s, b : c = f[n - 1] /\ s = SubSeq(tail, 1, n - 1) /\ b = tail[n]
    OBVIOUS
  <2>2. n \in 0..L /\ n - 1 \in 0..L /\ tail[n] \in Nat
    BY <1>2
  <2>3. f[n - 1] \in Cuts
    BY <2>2, <1>1
  <2>4. SubSeq(tail, 1, n - 1) \in Seq(Nat)
    BY <2>2
  <2>5. c \in Cuts /\ s \in Seq(Nat) /\ b \in Nat /\ OnlyCut(c, s)
    BY <2>1, <2>2, <2>3, <2>4, <1>4
  <2>6. OnlyCut(CutStep(c, b), Append(s, b))
    BY <2>5, OnlyCutForward
  <2>7. SubSeq(tail, 1, n) = Append(s, b)
    BY <2>1, <2>2
  <2>8. f[n] = CutStep(c, b)
    BY <1>1, <2>1
  <2> QED  BY <2>2, <2>6, <2>7, <2>8
<1> HIDE DEF T
<1>5. \A n \in 0..L : n \in T
  BY <1>2, <1>3, <1>4, UpTo
<1>6. OnlyCut(f[L], tail)
  BY <1>2, <1>5 DEF T
<1>7. f[L] \in Cuts
  BY <1>1, <1>2
<1> QED  BY <1>1, <1>6, <1>7

LEMMA SplitType ==
  ASSUME NEW tail \in Seq(Nat) PROVE Split(tail) \in Seq(Seq(Nat)) /\ NulFree(Split(tail))
<1>1. PICK c \in Cuts : Split(tail) = c.args /\ OnlyCut(c, tail)
  BY SplitCuts
<1> QED  BY <1>1, CutFields DEF OnlyCut, CutOf

LEMMA SplitOfPacked ==
  ASSUME NEW args \in Seq(Seq(Nat)), NulFree(args) PROVE Split(Packed(args)) = args
<1>1. PICK s \in Seq(Nat) : s = Packed(args)
  BY PackedType
<1>2. PICK c \in Cuts : Split(s) = c.args /\ OnlyCut(c, s)
  BY SplitCuts
<1>3. <<>> \in Seq(Nat) /\ s \o <<>> = s /\ ~Contains(<<>>, Nul)
  BY DEF Contains
<1>4. PICK d \in Cuts : d.args = args /\ d.rest = <<>>
  <2>1. PICK r \in Seq(Nat) : r = <<>>
    BY <1>3
  <2>2. Cut(args, r) \in Cuts /\ Cut(args, r).args = args /\ Cut(args, r).rest = r
    BY <2>1, CutFields
  <2> QED  BY <2>1, <2>2
<1>5. CutOf(d, s)
  BY <1>1, <1>3, <1>4 DEF CutOf
<1>6. d = c
  BY <1>2, <1>5 DEF OnlyCut
<1> QED  BY <1>1, <1>2, <1>4, <1>6

LEMMA PackedOfSplit ==
  ASSUME NEW tail \in Seq(Nat), tail = <<>> \/ Last(tail) = Nul
  PROVE  Packed(Split(tail)) = tail
<1>1. PICK c \in Cuts : Split(tail) = c.args /\ CutOf(c, tail)
  BY SplitCuts DEF OnlyCut
<1>2. c.rest = <<>>
  <2>1. CASE tail = <<>>
    <3>1. c = NoCut
      BY <1>1, <2>1, CutNothing
    <3> QED  BY <3>1 DEF NoCut
  <2>2. CASE tail # <<>>
    <3>1. PICK s \in Seq(Nat), b \in Nat : tail = Append(s, b)
      BY <2>2, SequenceEmptyOrAppend
    <3>2. Last(tail) = b
      BY <3>1 DEF Last
    <3>3. b = Nul
      BY <3>2, <2>2
    <3> QED  BY <1>1, <3>1, <3>3, CutBack
  <2> QED  BY <2>1, <2>2
<1>3. c.args \in Seq(Seq(Nat))
  BY CutFields
<1>4. Packed(c.args) \in Seq(Nat)
  BY <1>3, PackedType
<1>5. Packed(c.args) \o <<>> = tail
  BY <1>1, <1>2 DEF CutOf
<1> QED  BY <1>1, <1>4, <1>5

-----------------------------------------------------------------------------
(* liblazer packs a list whole, or it has a NUL or is too long.            *)
Whole(b, p, args, n) ==
  IF b.error = "none" THEN b.bytes = p /\ Len(p) <= MaxPayload /\ \A i \in 1..n : ~Contains(args[i], Nul)
  ELSE (\E i \in 1..n : Contains(args[i], Nul)) \/ Len(p) > MaxPayload
LEMMA WholeStep ==
  ASSUME NEW b \in Payload, NEW p \in Seq(Nat), NEW args \in Seq(Seq(Nat)), NEW n \in 1..Len(args),
         Whole(b, p, args, n - 1)
  PROVE  Whole(PackStep(b, args[n]), p \o Append(args[n], Nul), args, n)
<1>1. PICK a, q : a = args[n] /\ q = p \o Append(a, Nul)
  OBVIOUS
<1>2. a \in Seq(Nat)
  BY <1>1
<1>3. PICK x \in Nat, y \in Nat : x = Len(p) /\ y = Len(a)
  BY <1>2
<1>4. Len(q) = x + y + 1
  BY <1>1, <1>2, <1>3 DEF Nul
<1>5. MaxPayload \in Nat /\ n - 1 \in Nat /\ \A i : i \in 1..n <=> i \in 1..(n - 1) \/ i = n
  <2>1. MaxPayload \in Nat
    BY StartupAssumption
  <2>2. n \in Nat /\ n >= 1
    OBVIOUS
  <2>3. n - 1 \in Nat /\ \A i : i \in 1..n <=> i \in 1..(n - 1) \/ i = n
    BY ONLY <2>2
  <2> QED  BY <2>1, <2>3
<1>6. b.error \in PayloadErrors /\ b.bytes \in Seq(Nat)
  BY DEF Payload
<1>7. CASE b.error # "none"
  <2>1. (\E i \in 1..(n - 1) : Contains(args[i], Nul)) \/ x > MaxPayload
    BY <1>3, <1>7 DEF Whole
  <2>2. (\E i \in 1..n : Contains(args[i], Nul)) \/ Len(q) > MaxPayload
    BY <2>1, <1>4, <1>5
  <2> QED  BY <2>2, <1>1, <1>7 DEF Whole, PackStep
<1>8. CASE b.error = "none" /\ Contains(a, Nul)
  <2>1. PackStep(b, a).error = "InvalidPath"
    BY <1>6, <1>8 DEF PackStep, Payload
  <2>2. n \in 1..n /\ Contains(args[n], Nul)
    BY <1>1, <1>8
  <2> QED  BY <2>1, <2>2, <1>1 DEF Whole
<1>9. CASE b.error = "none" /\ ~Contains(a, Nul)
  <2>1. b.bytes = p /\ \A i \in 1..(n - 1) : ~Contains(args[i], Nul)
    BY <1>9 DEF Whole
  <2>2. CASE x + y + 1 > MaxPayload
    <3>1. PackStep(b, a).error = "ResourceUnavailable"
      BY <1>3, <1>9, <2>1, <2>2 DEF PackStep, Payload
    <3> QED  BY <3>1, <2>2, <1>1, <1>4 DEF Whole
  <2>3. CASE ~(x + y + 1 > MaxPayload)
    <3>1. PackStep(b, a) = [b EXCEPT !.bytes = @ \o Append(a, Nul)]
      BY <1>3, <1>9, <2>1, <2>3 DEF PackStep
    <3>2. PackStep(b, a).error = "none" /\ PackStep(b, a).bytes = q
      BY <3>1, <2>1, <1>1, <1>9 DEF Payload
    <3>3. Len(q) <= MaxPayload /\ \A i \in 1..n : ~Contains(args[i], Nul)
      BY <2>1, <2>3, <1>1, <1>4, <1>5, <1>9
    <3> QED  BY <3>2, <3>3, <1>1 DEF Whole
  <2> QED  BY <2>2, <2>3
<1> QED  BY <1>7, <1>8, <1>9

LEMMA SerializeMeans ==
  ASSUME NEW args \in Seq(Seq(Nat))
  PROVE  Serialize(args) \in Payload /\ Whole(Serialize(args), Packed(args), args, Len(args))
<1>1. PICK f \in [0..Len(args) -> Payload] :
        /\ Serialize(args) = f[Len(args)] /\ f[0] = NoPayload
        /\ \A n \in 1..Len(args) : f[n] = PackStep(f[n - 1], args[n])
  BY SerializeIs
<1>2. PICK P : Packs(P, args) /\ Packed(args) = P[Len(args)]
  BY PackedIs
<1>3. P \in [0..Len(args) -> Seq(Nat)]
  BY <1>2 DEF Packs
<1>p. P[0] = <<>> /\ \A n \in 1..Len(args) : P[n] = P[n - 1] \o Append(args[n], Nul)
  BY <1>2 DEF Packs
<1> DEFINE L == Len(args)
           T == {n \in 0..L : Whole(f[n], P[n], args, n)}
<1>4. L \in Nat /\ L \in 0..L /\ 0 \in 0..L
  OBVIOUS
<1>5. 0 \in T
  <2>1. NoPayload.error = "none" /\ NoPayload.bytes = <<>> /\ Len(<<>>) = 0 /\ 0 <= MaxPayload
    BY StartupAssumption DEF NoPayload
  <2>2. \A i \in 1..0 : FALSE
    OBVIOUS
  <2>3. Whole(NoPayload, <<>>, args, 0)
    BY <2>1, <2>2 DEF Whole
  <2> QED  BY <2>3, <1>1, <1>4, <1>p
<1>6. ASSUME NEW n \in 1..L, n - 1 \in T PROVE n \in T
  <2>1. n \in 0..L /\ n - 1 \in 0..L
    BY <1>4
  <2>2. PICK b, p : b = f[n - 1] /\ p = P[n - 1]
    OBVIOUS
  <2>3. b \in Payload /\ p \in Seq(Nat) /\ Whole(b, p, args, n - 1)
    BY <2>1, <2>2, <1>1, <1>3, <1>6
  <2>4. Whole(PackStep(b, args[n]), p \o Append(args[n], Nul), args, n)
    BY <2>3, WholeStep
  <2>5. f[n] = PackStep(b, args[n]) /\ P[n] = p \o Append(args[n], Nul)
    BY <1>1, <1>p, <2>2
  <2> QED  BY <2>1, <2>4, <2>5
<1> HIDE DEF T
<1>7. \A n \in 0..L : n \in T
  BY <1>4, <1>5, <1>6, UpTo
<1>8. Whole(f[L], P[L], args, L)
  BY <1>4, <1>7 DEF T
<1> QED  BY <1>1, <1>2, <1>4, <1>8

-----------------------------------------------------------------------------
(* The layout of the block: words of one size from the stack pointer on.   *)
LEMMA Multiples ==
  ASSUME NEW u \in Nat, NEW a \in Int, NEW b \in Int, a < b PROVE a * u + u <= b * u
<1>1. PICK d \in Nat : b = a + 1 + d
  <2>1. b - a - 1 \in Nat /\ b = a + 1 + (b - a - 1)
    OBVIOUS
  <2> QED  BY <2>1
<1>2. b * u = a * u + u + d * u
  BY <1>1
<1>3. d * u >= 0
  OBVIOUS
<1> QED  BY <1>2, <1>3

LEMMA DivisionOnce ==
  ASSUME NEW u \in Nat \ {0}, NEW a \in Int, NEW b \in Int, NEW r \in 0..(u - 1), NEW s \in 0..(u - 1),
         a * u + r = b * u + s
  PROVE  a = b /\ r = s
<1>1. u \in Nat /\ r \in Int /\ s \in Int /\ 0 <= r /\ r < u /\ 0 <= s /\ s < u
  OBVIOUS
<1>2. PICK x \in Int, y \in Int : x = a * u /\ y = b * u /\ x + r = y + s
  OBVIOUS
<1>3. ~(a < b)
  <2>1. a < b => x + u <= y
    BY <1>1, <1>2, Multiples
  <2> QED  BY <1>1, <1>2, <2>1
<1>4. ~(b < a)
  <2>1. b < a => y + u <= x
    BY <1>1, <1>2, Multiples
  <2> QED  BY <1>1, <1>2, <2>1
<1>5. a = b
  BY <1>3, <1>4
<1> QED  BY <1>1, <1>2, <1>5

LEMMA Division ==
  ASSUME NEW u \in Nat \ {0}, NEW n \in Int
  PROVE  n \div u \in Int /\ n % u \in 0..(u - 1) /\ n = (n \div u) * u + (n % u)
  OBVIOUS

LEMMA Index ==
  ASSUME NEW u \in Nat \ {0}, NEW k \in Int, NEW j \in 0..(u - 1)
  PROVE  (k * u + j) \div u = k /\ (k * u + j) % u = j
<1>1. PICK n \in Int : n = k * u + j
  OBVIOUS
<1>2. PICK q \in Int, r \in 0..(u - 1) : q = n \div u /\ r = n % u /\ n = q * u + r
  BY Division
<1>3. q * u + r = k * u + j
  BY <1>1, <1>2
<1>4. q = k /\ r = j
  BY ONLY <1>3, u \in Nat \ {0}, k \in Int, j \in 0..(u - 1), q \in Int, r \in 0..(u - 1), DivisionOnce
<1> QED  BY <1>1, <1>2, <1>4

LEMMA AlignedDown ==
  ASSUME NEW u \in Nat \ {0}, NEW n \in Int
  PROVE  AlignDown(n, u) \in Int /\ AlignDown(n, u) <= n /\ AlignDown(n, u) % u = 0
<1>1. PICK q \in Int, r \in 0..(u - 1) : q = n \div u /\ n = q * u + r
  BY Division
<1>2. AlignDown(n, u) = q * u
  BY <1>1 DEF AlignDown
<1>3. q * u \in Int /\ q * u <= n
  <2>1. PICK x \in Int : x = q * u
    OBVIOUS
  <2>2. n = x + r /\ r >= 0
    BY <1>1, <2>1
  <2> QED  BY <2>1, <2>2
<1>4. 0 \in 0..(u - 1)
  OBVIOUS
<1>5. (q * u + 0) % u = 0
  BY <1>4, Index
<1>6. q * u + 0 = q * u
  BY <1>3
<1> QED  BY <1>2, <1>3, <1>5, <1>6

Words(args) ==
  <<Len(args)>> \o [i \in DOMAIN args |-> StringsStart(args) + Len(Packed(SubSeq(args, 1, i - 1)))] \o <<0>>
LEMMA WrittenIs ==
  ASSUME NEW args
  PROVE  Written(args) =
           [a \in StackBase..(StackTop - 1) |->
              IF a >= StringsStart(args) THEN Packed(args)[a - StringsStart(args) + 1]
              ELSE IF a \in StackStart(args)..(StackStart(args) + Len(Words(args)) * Word - 1)
              THEN Shifted(Words(args)[((a - StackStart(args)) \div Word) + 1])[(a - StackStart(args)) % Word] % 256
              ELSE 0]
  BY DEF Written, Words

(* A list with room on the stack: where its strings, its words and its     *)
(* stack pointer are.                                                      *)
Room(args, n, total, strings, base) ==
  /\ n = Len(args) /\ total = Len(Packed(args)) /\ strings = StringsStart(args) /\ base = StackStart(args)
  /\ n \in Nat /\ total \in Nat /\ strings \in Nat /\ base \in Nat
  /\ strings + total = StackTop
  /\ StackBase <= base /\ base + (n + 2) * Word <= strings
  /\ base % (2 * Word) = 0
LEMMA RoomThere ==
  ASSUME NEW args \in Seq(Seq(Nat)), StackStart(args) >= StackBase
  PROVE  \E n, total, strings, base : Room(args, n, total, strings, base)
<1>1. PICK n \in Nat, total \in Nat : n = Len(args) /\ total = Len(Packed(args))
  BY PackedType
<1>2. PICK W \in Nat \ {0}, top \in Nat : W = Word /\ top = StackTop /\ StackBase \in Nat
  BY StartupAssumption
<1>3. PICK strings \in Int : strings = top - total /\ strings = StringsStart(args)
  <2>1. StringsStart(args) = StackTop - Len(Packed(args))
    BY DEF StringsStart
  <2>2. PICK x : x = StringsStart(args)
    OBVIOUS
  <2>3. x = top - total /\ top - total \in Int
    BY <1>1, <1>2, <2>1, <2>2
  <2> QED  BY <2>2, <2>3
<1>4. PICK m \in Int : m = (n + 1) * W
  BY <1>1, <1>2
<1>5. PICK d \in Int : d = strings - m /\ PointersStart(args) = AlignDown(d, W)
  BY <1>1, <1>2, <1>3, <1>4 DEF PointersStart
<1>6. PICK p \in Int : p = PointersStart(args) /\ p <= d
  BY <1>2, <1>5, AlignedDown
<1>7. 2 * W \in Nat \ {0} /\ p - W \in Int
  BY <1>2, <1>6
<1>8. PICK base \in Int : base = StackStart(args) /\ base <= p - W /\ base % (2 * W) = 0
  <2>1. PICK v \in Nat \ {0}, e \in Int : v = 2 * W /\ e = p - W
    BY <1>7
  <2>2. AlignDown(e, v) \in Int /\ AlignDown(e, v) <= e /\ AlignDown(e, v) % v = 0
    BY <2>1, AlignedDown
  <2>3. StackStart(args) = AlignDown(e, v)
    BY <1>2, <1>6, <2>1 DEF StackStart
  <2> QED  BY <2>1, <2>2, <2>3
<1>9. (n + 2) * W = m + W /\ m >= 0
  BY <1>1, <1>2, <1>4
<1>10. base + (n + 2) * W <= strings /\ base \in Nat /\ strings \in Nat
  <2>1. PICK x \in Int : x = (n + 2) * W /\ x = m + W
    BY <1>2, <1>9
  <2>2. base + x <= strings /\ base >= 0 /\ strings >= base
    BY <1>2, <1>5, <1>6, <1>8, <1>9, <2>1
  <2> QED  BY <2>1, <2>2
<1>11. strings + total = StackTop /\ StackBase <= base
  BY <1>1, <1>2, <1>3, <1>8
<1>12. base + (n + 2) * Word <= strings /\ base % (2 * Word) = 0
  BY <1>2, <1>8, <1>10
<1>13. Room(args, n, total, strings, base)
  BY <1>1, <1>3, <1>8, <1>10, <1>11, <1>12 DEF Room
<1> QED  BY <1>13

LEMMA WordsAre ==
  ASSUME NEW args \in Seq(Seq(Nat)), NEW P, Packs(P, args),
         \A i \in 0..Len(args) : Packed(SubSeq(args, 1, i)) = P[i],
         NEW n, NEW total, NEW strings, NEW base, Room(args, n, total, strings, base)
  PROVE  /\ Words(args) \in Seq(Nat) /\ Len(Words(args)) = n + 2
         /\ Words(args)[1] = n /\ Words(args)[n + 2] = 0
         /\ \A k \in 1..n : Words(args)[k + 1] = strings + Len(P[k - 1])
<1>1. n \in Nat /\ n = Len(args) /\ strings \in Nat /\ strings = StringsStart(args)
  BY DEF Room
<1>2. PICK pointer : pointer = [i \in 1..n |-> strings + Len(P[i - 1])]
  OBVIOUS
<1>3. \A i \in 1..n : Len(P[i - 1]) \in Nat /\ Packed(SubSeq(args, 1, i - 1)) = P[i - 1]
  <2> SUFFICES ASSUME NEW i \in 1..n
               PROVE  Len(P[i - 1]) \in Nat /\ Packed(SubSeq(args, 1, i - 1)) = P[i - 1]
    OBVIOUS
  <2>1. i - 1 \in 0..Len(args)
    BY <1>1
  <2>2. P[i - 1] \in Seq(Nat)
    BY <2>1 DEF Packs
  <2> QED  BY <2>1, <2>2
<1>4. pointer \in Seq(Nat) /\ Len(pointer) = n /\ \A i \in 1..n : pointer[i] = strings + Len(P[i - 1])
  BY <1>1, <1>2, <1>3
<1>5. pointer = [i \in DOMAIN args |-> StringsStart(args) + Len(Packed(SubSeq(args, 1, i - 1)))]
  <2>1. DOMAIN args = 1..n
    BY <1>1
  <2> QED  BY <1>1, <1>2, <1>3, <2>1
<1>6. Words(args) = <<n>> \o pointer \o <<0>>
  BY <1>1, <1>5 DEF Words
<1>7. PICK w : w = <<n>> \o pointer \o <<0>>
  OBVIOUS
<1>8. PICK v : v = <<n>> \o pointer
  OBVIOUS
<1>9. v \in Seq(Nat) /\ Len(v) = n + 1 /\ v[1] = n /\ \A k \in 1..n : v[k + 1] = pointer[k]
  BY <1>1, <1>4, <1>8
<1>10. w = v \o <<0>>
  BY <1>7, <1>8
<1>11. w \in Seq(Nat) /\ Len(w) = n + 2 /\ w[n + 2] = 0 /\ \A k \in 1..(n + 1) : w[k] = v[k]
  BY <1>1, <1>9, <1>10
<1>12. w[1] = n /\ \A k \in 1..n : w[k + 1] = pointer[k]
  <2>1. 1 \in 1..(n + 1) /\ \A k \in 1..n : k + 1 \in 1..(n + 1)
    BY <1>1
  <2> QED  BY <2>1, <1>9, <1>11
<1> QED  BY <1>4, <1>6, <1>7, <1>11, <1>12

(* What the child finds there.                                             *)
LEMMA WordFound ==
  ASSUME NEW args \in Seq(Seq(Nat)), stack = Written(args),
         NEW n, NEW total, NEW strings, NEW base, Room(args, n, total, strings, base),
         Words(args) \in Seq(Nat), Len(Words(args)) = n + 2,
         NEW k \in 0..(n + 1), Words(args)[k + 1] <= StackTop
  PROVE  ReadWord(base + k * Word) = Words(args)[k + 1]
<1>1. /\ n \in Nat /\ total \in Nat /\ strings \in Nat /\ base \in Nat
      /\ strings = StringsStart(args) /\ base = StackStart(args)
      /\ strings + total = StackTop /\ StackBase <= base
  BY DEF Room
<1>r. base + (n + 2) * Word <= strings
  BY DEF Room
<1>2. Word \in Nat \ {0} /\ StackBase \in Nat /\ StackTop \in Nat
  BY StartupAssumption
<1>3. PICK w : w = Words(args)
  OBVIOUS
<1>4. k + 1 \in 1..Len(w) /\ k \in Int
  BY <1>1, <1>3
<1>5. PICK value \in Nat : value = w[k + 1] /\ value <= StackTop
  BY <1>3, <1>4
<1>6. PICK at \in Int : at = base + k * Word
  BY <1>1, <1>2
<1>7. ASSUME NEW j \in 0..(Word - 1) PROVE stack[at + j] = Shifted(value)[j] % 256
  <2>1. PICK x \in Int, y \in Int : x = k * Word /\ y = (n + 2) * Word
    BY <1>1, <1>2, <1>4
  <2>2. 0 <= x /\ x + Word <= y
    <3>1. Word \in Nat /\ n + 2 \in Int /\ k < n + 2
      BY <1>1, <1>2
    <3>2. x + Word <= y
      BY <1>4, <2>1, <3>1, Multiples
    <3>3. 0 <= x
      BY <1>2, <2>1
    <3> QED  BY <3>2, <3>3
  <2>l. /\ strings \in Nat /\ base \in Nat /\ total \in Nat /\ strings + total = StackTop /\ StackBase <= base
        /\ StackBase \in Nat /\ StackTop \in Nat /\ Word \in Nat /\ j \in Int /\ 0 <= j /\ j < Word
    BY <1>1, <1>2
  <2>x. at = base + x /\ base + y <= strings /\ x \in Int /\ y \in Int /\ at \in Int
    BY <1>6, <1>r, <2>1
  <2>3. PICK a \in Int : a = at + j
    BY <1>2
  <2>4. a - base = x + j
    BY ONLY <2>l, <2>x, <2>3
  <2>5. a >= base /\ a <= base + y - 1 /\ a < strings
    BY ONLY <2>l, <2>x, <2>2, <2>3, <2>4
  <2>6. a \in StackBase..(StackTop - 1) /\ ~(a >= strings) /\ a \in base..(base + y - 1)
    BY ONLY <2>l, <2>x, <2>3, <2>5
  <2>7. (a - base) \div Word = k /\ (a - base) % Word = j
    <3>1. (k * Word + j) \div Word = k /\ (k * Word + j) % Word = j
      BY <1>2, <1>4, Index
    <3> QED  BY <2>1, <2>4, <3>1
  <2>8. Len(w) * Word = y
    BY <1>3, <2>1
  <2>9. stack[a] = IF a >= strings THEN Packed(args)[a - strings + 1]
                   ELSE IF a \in base..(base + Len(w) * Word - 1)
                   THEN Shifted(w[((a - base) \div Word) + 1])[(a - base) % Word] % 256
                   ELSE 0
    BY <1>1, <1>3, <2>6, WrittenIs
  <2>10. stack[a] = Shifted(w[((a - base) \div Word) + 1])[(a - base) % Word] % 256
    BY <2>6, <2>8, <2>9
  <2> QED  BY <1>5, <2>3, <2>7, <2>10
<1>8. ReadWord(at) = value
  BY <1>5, <1>7, WordReadBack
<1> QED  BY <1>3, <1>5, <1>6, <1>8

LEMMA ByteFound ==
  ASSUME NEW args \in Seq(Seq(Nat)), stack = Written(args),
         NEW n, NEW total, NEW strings, NEW base, Room(args, n, total, strings, base),
         NEW i \in 1..total
  PROVE  stack[strings + i - 1] = Packed(args)[i]
<1>1. /\ n \in Nat /\ total \in Nat /\ strings \in Nat /\ base \in Nat
      /\ strings = StringsStart(args)
      /\ strings + total = StackTop /\ StackBase <= base
  BY DEF Room
<1>r. base + (n + 2) * Word <= strings
  BY DEF Room
<1>2. Word \in Nat /\ StackBase \in Nat /\ StackTop \in Nat
  BY StartupAssumption
<1>3. PICK y \in Nat : base + y <= strings
  <2>1. PICK y \in Nat : y = (n + 2) * Word
    BY <1>1, <1>2
  <2> QED  BY <1>r, <2>1
<1>4. PICK a \in Int : a = strings + i - 1
  BY <1>1
<1>5. a \in StackBase..(StackTop - 1) /\ a >= strings /\ a - strings + 1 = i
  <2>1. /\ strings \in Nat /\ total \in Nat /\ base \in Nat /\ y \in Nat /\ StackBase \in Nat /\ StackTop \in Nat
        /\ strings + total = StackTop /\ StackBase <= base /\ base + y <= strings
        /\ a = strings + i - 1 /\ i \in Nat /\ 1 <= i /\ i <= total
    BY <1>1, <1>2, <1>3, <1>4
  <2> QED  BY ONLY <2>1
<1>6. stack[a] = Packed(args)[a - strings + 1]
  BY <1>1, <1>5, WrittenIs
<1> QED  BY <1>4, <1>5, <1>6

(* One argument read through its pointer.                                  *)
LEMMA StringFound ==
  ASSUME NEW args \in Seq(Seq(Nat)), stack = Written(args), NEW P, Packs(P, args), Packed(args) = P[Len(args)],
         NEW n, NEW total, NEW strings, NEW base, Room(args, n, total, strings, base),
         NEW k \in 1..n, ~Contains(args[k], Nul)
  PROVE  CString(strings + Len(P[k - 1])) = args[k]
<1>1. /\ n \in Nat /\ total \in Nat /\ strings \in Nat /\ n = Len(args) /\ total = Len(Packed(args))
      /\ strings + total = StackTop
  BY DEF Room
<1>2. PICK a, s : a = args[k] /\ s = Packed(args)
  OBVIOUS
<1>3. a \in Seq(Nat) /\ s \in Seq(Nat) /\ total = Len(s)
  BY <1>1, <1>2, PackedType
<1>4. PICK len \in Nat, off \in Nat : len = Len(a) /\ off = Len(P[k - 1])
  <2>1. Place(P[Len(args)], P, args, k)
    BY <1>1, PackedAt
  <2> QED  BY <1>2, <1>3, <2>1 DEF Place
<1>5. /\ off + len + 1 <= total
      /\ \A j \in 1..len : s[off + j] = a[j]
      /\ s[off + len + 1] = Nul
  <2>1. Place(s, P, args, k)
    BY <1>1, <1>2, PackedAt
  <2>2. Len(P[k]) = off + len + 1
    BY <1>2, <1>4, <2>1 DEF Place
  <2> QED  BY <1>2, <1>3, <1>4, <2>1, <2>2 DEF Place
<1>6. PICK at \in Nat : at = strings + off
  BY <1>1
<1>7. \A m \in 0..(StackTop - at - 1) : stack[at + m] = s[off + m + 1]
  <2> SUFFICES ASSUME NEW m \in 0..(StackTop - at - 1) PROVE stack[at + m] = s[off + m + 1]
    OBVIOUS
  <2>1. PICK i \in 1..total : i = off + m + 1
    BY <1>1, <1>6
  <2>2. stack[strings + i - 1] = s[i]
    BY <1>2, ByteFound
  <2>3. strings + i - 1 = at + m
    BY <1>1, <1>6, <2>1
  <2> QED  BY <2>1, <2>2, <2>3
<1>8. PICK top \in Nat : top = StackTop - at /\ len + 1 <= top
  BY <1>1, <1>5, <1>6
<1>9. \A j \in 1..len : s[off + j] # Nul
  BY <1>2, <1>4, <1>5 DEF Contains
<1>10. PICK ends : ends = {m \in 0..(top - 1) : stack[at + m] = Nul}
  OBVIOUS
<1>11. len \in ends /\ \A m \in ends : len <= m
  <2>t. len \in Nat /\ top \in Nat /\ top = StackTop - at /\ len + 1 <= top
    BY <1>4, <1>8
  <2>s. len \in 0..(top - 1) /\ len \in 0..(StackTop - at - 1)
    BY ONLY <2>t
  <2>1. len \in 0..(top - 1) /\ stack[at + len] = Nul
    BY <1>5, <1>7, <2>s
  <2>2. ASSUME NEW m \in ends, m < len PROVE FALSE
    <3>1. m \in 0..(top - 1) /\ stack[at + m] = Nul
      BY <1>10, <2>2
    <3>2. PICK j \in 1..len : j = m + 1
      BY <2>2, <3>1
    <3>3. s[off + j] = Nul
      <4>1. off + m + 1 = off + j
        BY <3>1, <3>2
      <4> QED  BY <1>7, <1>8, <3>1, <4>1
    <3> QED  BY <1>9, <3>3
  <2>3. \A m \in ends : m \in Nat
    BY <1>10
  <2> QED  BY <1>10, <2>1, <2>2, <2>3
<1>12. Min(ends) = len
  <2>1. ends \in SUBSET Nat
    BY <1>10
  <2> QED  BY <1>11, <2>1, MinOf
<1>13. PICK bytes : bytes = [i \in 1..top |-> stack[at + i - 1]]
  OBVIOUS
<1>14. \A i \in 1..top : bytes[i] = s[off + i] /\ s[off + i] \in Nat
  <2> SUFFICES ASSUME NEW i \in 1..top PROVE bytes[i] = s[off + i] /\ s[off + i] \in Nat
    OBVIOUS
  <2>1. PICK m \in 0..(StackTop - at - 1) : m = i - 1
    BY <1>8
  <2>2. bytes[i] = stack[at + m] /\ off + m + 1 = off + i
    <3>1. at + i - 1 = at + m
      BY <2>1
    <3> QED  BY <1>13, <2>1, <3>1
  <2>t. /\ strings \in Nat /\ total \in Nat /\ strings + total = StackTop /\ off \in Nat /\ at = strings + off
        /\ top \in Nat /\ top = StackTop - at /\ i \in Nat /\ 1 <= i /\ i <= top
    BY <1>1, <1>4, <1>6, <1>8
  <2>u. off + i \in 1..total
    BY ONLY <2>t
  <2>3. off + i \in 1..Len(s)
    BY <1>3, <2>u
  <2>4. s[off + i] \in Nat
    BY <1>3, <2>3
  <2>5. stack[at + m] = s[off + m + 1]
    BY <1>7, <2>1
  <2> QED  BY <2>2, <2>4, <2>5
<1>15. bytes \in Seq(Nat) /\ Len(bytes) = top
  <2>1. \A i \in 1..top : bytes[i] \in Nat
    BY <1>14
  <2>2. top \in Nat
    BY <1>8
  <2>3. bytes = [i \in 1..top |-> bytes[i]]
    BY <1>13
  <2>4. bytes \in [1..top -> Nat] /\ DOMAIN bytes = 1..top
    BY <2>1, <2>3
  <2> QED  BY ONLY <2>2, <2>4
<1>16. PICK read : read = SubSeq(bytes, 1, len)
  OBVIOUS
<1>17. read \in Seq(Nat) /\ Len(read) = len /\ \A i \in 1..len : read[i] = bytes[i]
  BY <1>8, <1>15, <1>16
<1>18. \A i \in 1..len : read[i] = a[i]
  <2>1. \A i \in 1..len : i \in 1..top
    BY <1>8
  <2> QED  BY <1>5, <1>14, <1>17, <2>1
<1>19. read = a
  BY <1>3, <1>4, <1>17, <1>18, SeqEqual
<1>20. CString(at) = SubSeq(bytes, 1, Min(ends))
  BY <1>8, <1>10, <1>13 DEF CString
<1> QED  BY <1>2, <1>4, <1>6, <1>12, <1>16, <1>19, <1>20

(* The block as its reader finds it: argc, argv, the null pointer, and the *)
(* strings in one piece up to the top.                                     *)
ArgFound(args, at, k) ==
  LET p == ReadWord(at + k * Word)
  IN  /\ p \in Nat /\ at + (Len(args) + 2) * Word <= p /\ p < StackTop
      /\ CString(p) = args[k]
      /\ k = Len(args) => p + Len(args[k]) + 1 = StackTop
      /\ k < Len(args) => ReadWord(at + (k + 1) * Word) = p + Len(args[k]) + 1
BlockFound(args, at) ==
  /\ ReadWord(at) = Len(args)
  /\ ReadWord(at + (Len(args) + 1) * Word) = 0
  /\ \A k \in 1..Len(args) : ArgFound(args, at, k)
LEMMA BlockReadBack ==
  ASSUME NEW args \in Seq(Seq(Nat)), NulFree(args), StackStart(args) >= StackBase, stack = Written(args)
  PROVE  BlockFound(args, StackStart(args)) /\ StackStart(args) % (2 * Word) = 0 /\ StackStart(args) \in Nat
<1>1. PICK n, total, strings, base : Room(args, n, total, strings, base)
  BY RoomThere
<1>2. /\ n \in Nat /\ total \in Nat /\ strings \in Nat /\ base \in Nat
      /\ n = Len(args) /\ total = Len(Packed(args)) /\ base = StackStart(args)
      /\ strings + total = StackTop
  BY <1>1 DEF Room
<1>3. Word \in Nat \ {0} /\ StackTop \in Nat /\ StackBase \in Nat
  BY StartupAssumption
<1>4. PICK P : /\ Packs(P, args) /\ Packed(args) = P[Len(args)]
               /\ \A i \in 0..Len(args) : Packed(SubSeq(args, 1, i)) = P[i]
  BY PackedIs
<1>5. PICK w : w = Words(args)
  OBVIOUS
<1>6. /\ w \in Seq(Nat) /\ Len(w) = n + 2 /\ w[1] = n /\ w[n + 2] = 0
      /\ \A k \in 1..n : w[k + 1] = strings + Len(P[k - 1])
  <2>1. /\ Words(args) \in Seq(Nat) /\ Len(Words(args)) = n + 2
        /\ Words(args)[1] = n /\ Words(args)[n + 2] = 0
        /\ \A k \in 1..n : Words(args)[k + 1] = strings + Len(P[k - 1])
    BY <1>1, <1>4, WordsAre
  <2> QED  BY <1>5, <2>1
<1>7. PICK y \in Nat : y = (n + 2) * Word /\ base + y <= strings /\ n <= y
  <2>1. PICK y \in Nat : y = (n + 2) * Word
    BY <1>2, <1>3
  <2>2. base + y <= strings
    BY <1>1, <2>1 DEF Room
  <2>3. n <= y
    <3>1. PICK v \in Nat : Word = v + 1
      <4>1. Word - 1 \in Nat /\ Word = (Word - 1) + 1
        BY <1>3
      <4> QED  BY <4>1
    <3>2. PICK z \in Nat : z = (n + 2) * v
      BY <1>2, <3>1
    <3>3. y = z + n + 2
      BY <1>2, <2>1, <3>1, <3>2
    <3> QED  BY <1>2, <3>2, <3>3
  <2> QED  BY <2>1, <2>2, <2>3
<1>8. \A k \in 1..n : /\ Len(P[k - 1]) \in Nat /\ Len(args[k]) \in Nat
                      /\ Len(P[k]) = Len(P[k - 1]) + Len(args[k]) + 1 /\ Len(P[k]) <= total
  <2> SUFFICES ASSUME NEW k \in 1..n
               PROVE  /\ Len(P[k - 1]) \in Nat /\ Len(args[k]) \in Nat
                      /\ Len(P[k]) = Len(P[k - 1]) + Len(args[k]) + 1 /\ Len(P[k]) <= total
    OBVIOUS
  <2>1. k \in 1..Len(args) /\ args[k] \in Seq(Nat)
    BY <1>2
  <2>2. Place(Packed(args), P, args, k)
    BY <1>4, <2>1, PackedAt
  <2>3. /\ Len(P[k - 1]) \in Nat /\ Len(P[k]) = Len(P[k - 1]) + Len(args[k]) + 1
        /\ Len(P[k]) <= Len(Packed(args))
    BY <2>2 DEF Place
  <2>4. Len(args[k]) \in Nat
    BY <2>1
  <2> QED  BY <1>2, <2>3, <2>4
<1>9. \A k \in 1..n : w[k + 1] <= StackTop /\ w[k + 1] \in Nat
  <2> SUFFICES ASSUME NEW k \in 1..n PROVE w[k + 1] <= StackTop /\ w[k + 1] \in Nat
    OBVIOUS
  <2>1. PICK off \in Nat, len \in Nat : off = Len(P[k - 1]) /\ len = Len(args[k]) /\ off + len + 1 <= total
    BY <1>8
  <2>2. w[k + 1] = strings + off
    BY <1>6, <2>1
  <2>3. /\ strings \in Nat /\ total \in Nat /\ strings + total = StackTop
        /\ off \in Nat /\ len \in Nat /\ off + len + 1 <= total
    BY <1>2, <2>1
  <2>4. strings + off \in Nat /\ strings + off <= StackTop
    BY ONLY <2>3
  <2> QED  BY <2>2, <2>4
<1>10. \A k \in 0..(n + 1) : w[k + 1] <= StackTop
  <2> SUFFICES ASSUME NEW k \in 0..(n + 1) PROVE w[k + 1] <= StackTop
    OBVIOUS
  <2>1. CASE k = 0
    <3>1. n <= StackTop
      BY <1>2, <1>7
    <3>2. k + 1 = 1
      BY <2>1
    <3> QED  BY <1>6, <3>1, <3>2
  <2>2. CASE k = n + 1
    <3>1. k + 1 = n + 2
      BY <1>2, <2>2
    <3> QED  BY <1>3, <1>6, <3>1
  <2>3. CASE k # 0 /\ k # n + 1
    <3>1. k \in 1..n
      BY <1>2, <2>3
    <3> QED  BY <1>9, <3>1
  <2> QED  BY <2>1, <2>2, <2>3
<1>11. \A k \in 0..(n + 1) : ReadWord(base + k * Word) = w[k + 1]
  <2> SUFFICES ASSUME NEW k \in 0..(n + 1) PROVE ReadWord(base + k * Word) = w[k + 1]
    OBVIOUS
  <2>1. Words(args)[k + 1] <= StackTop /\ Words(args) \in Seq(Nat) /\ Len(Words(args)) = n + 2
    BY <1>5, <1>6, <1>10
  <2>2. ReadWord(base + k * Word) = Words(args)[k + 1]
    BY <1>1, <2>1, WordFound
  <2> QED  BY <1>5, <2>2
<1>12. ReadWord(base) = n
  <2>1. 0 \in 0..(n + 1) /\ base + 0 * Word = base /\ 0 + 1 = 1
    BY <1>2, <1>3
  <2>2. ReadWord(base + 0 * Word) = w[0 + 1]
    BY <1>11, <2>1
  <2> QED  BY <1>6, <2>1, <2>2
<1>13. ReadWord(base + (n + 1) * Word) = 0
  <2>1. n + 1 \in 0..(n + 1) /\ (n + 1) + 1 = n + 2
    BY <1>2
  <2> QED  BY <1>6, <1>11, <2>1
<1>14. ASSUME NEW k \in 1..n PROVE ArgFound(args, base, k)
  <2>0. PICK off \in Nat : off = Len(P[k - 1])
    BY <1>8
  <2>1. PICK p \in Nat : p = strings + Len(P[k - 1]) /\ p = strings + off
    BY <1>2, <2>0
  <2>2. ReadWord(base + k * Word) = p
    <3>1. k \in 0..(n + 1)
      BY <1>2
    <3> QED  BY <1>6, <1>11, <2>1, <3>1
  <2>3. CString(p) = args[k]
    <3>1. ~Contains(args[k], Nul)
      BY <1>2 DEF NulFree
    <3>2. CString(strings + Len(P[k - 1])) = args[k]
      BY <1>1, <1>4, <3>1, StringFound
    <3> QED  BY <2>1, <3>2
  <2>4. base + (Len(args) + 2) * Word <= p /\ p < StackTop
    <3>1. PICK len \in Nat : off + len + 1 <= total
      BY <1>8, <2>0
    <3>2. base + y <= strings /\ y \in Nat
      BY <1>7
    <3>3. base + y <= p /\ p < StackTop
      <4>1. /\ strings \in Nat /\ total \in Nat /\ strings + total = StackTop /\ StackTop \in Nat
            /\ off \in Nat /\ len \in Nat /\ off + len + 1 <= total /\ p = strings + off
            /\ base \in Nat /\ y \in Nat /\ base + y <= strings
        BY <1>2, <1>3, <2>0, <2>1, <3>1, <3>2
      <4> QED  BY ONLY <4>1
    <3> QED  BY <1>2, <1>7, <3>3
  <2>5. k = Len(args) => p + Len(args[k]) + 1 = StackTop
    <3> SUFFICES ASSUME k = Len(args) PROVE p + Len(args[k]) + 1 = StackTop
      OBVIOUS
    <3>1. Len(P[k]) = total
      BY <1>2, <1>4
    <3>2. PICK len \in Nat : len = Len(args[k]) /\ off + len + 1 = total
      BY <1>8, <2>0, <3>1
    <3>3. p + len + 1 = StackTop
      <4>1. /\ strings \in Nat /\ total \in Nat /\ strings + total = StackTop
            /\ off \in Nat /\ len \in Nat /\ off + len + 1 = total /\ p = strings + off
        BY <1>2, <2>0, <2>1, <3>2
      <4>2. StackTop \in Nat
        BY <1>3
      <4> QED  BY ONLY <4>1, <4>2
    <3> QED  BY <3>2, <3>3
  <2>6. k < Len(args) => ReadWord(base + (k + 1) * Word) = p + Len(args[k]) + 1
    <3> SUFFICES ASSUME k < Len(args) PROVE ReadWord(base + (k + 1) * Word) = p + Len(args[k]) + 1
      OBVIOUS
    <3>1. k + 1 \in 0..(n + 1) /\ k + 1 \in 1..n /\ (k + 1) - 1 = k
      BY <1>2
    <3>2. ReadWord(base + (k + 1) * Word) = strings + Len(P[k])
      BY <1>6, <1>11, <3>1
    <3>3. PICK len \in Nat : len = Len(args[k]) /\ Len(P[k]) = off + len + 1
      BY <1>8, <2>0
    <3>4. strings + (off + len + 1) = p + len + 1
      <4>1. strings \in Nat /\ off \in Nat /\ len \in Nat /\ p = strings + off
        BY <1>2, <2>0, <2>1, <3>3
      <4> QED  BY ONLY <4>1
    <3> QED  BY <3>2, <3>3, <3>4
  <2> QED  BY <2>2, <2>3, <2>4, <2>5, <2>6 DEF ArgFound
<1>15. base % (2 * Word) = 0
  BY <1>1 DEF Room
<1> QED  BY <1>2, <1>12, <1>13, <1>14, <1>15 DEF BlockFound

-----------------------------------------------------------------------------
(* The arguments a call asks for, and what holds of them from step to step *)
(* of the call.                                                            *)
ArgsOf(argv0, tail) == <<argv0>> \o Split(tail)
CallArgs == ArgsOf(call.path.bytes, call.args.bytes)
Failed == verdict \notin {"none", "ran"}
FromSpawnWait ==
  /\ given.args \in ArgumentLists /\ NulFree(given.args) /\ Len(Packed(given.args)) <= MaxPayload
  /\ call.path.bytes \in Executables /\ call.path.at = ImageBase
  /\ call.args.bytes = Packed(given.args) /\ call.args.at = StackTop - MaxPayload
NotCarried == <<>> \in Range(given.args) \/ ~Carried(call.path.bytes, given.args)
LaidOut ==
  /\ ~Refused(call.path.bytes, call.args.bytes)
  /\ stack = Written(CallArgs) /\ sp = StackStart(CallArgs)
StartInv ==
  /\ step \in {"parent", "syscall", "load", "child", "reading", "ended"}
  /\ step = "parent" => given.packed = FALSE
  /\ step \in {"parent", "syscall", "load"} => verdict = "none"
  /\ step \in {"child", "reading"} => verdict = "ran"
  /\ step = "ended" => verdict # "none"
  /\ given.packed /\ ~Failed => FromSpawnWait
  /\ given.packed /\ Failed => NotCarried
  /\ verdict = "ran" => LaidOut
  /\ step \notin {"reading", "ended"} => seen = <<>>
  /\ step = "reading" => /\ argv = [argc |-> Len(CallArgs), at |-> sp + Word]
                         /\ Len(seen) \in 0..Len(CallArgs) /\ seen = SubSeq(CallArgs, 1, Len(seen))
  /\ step = "ended" /\ verdict = "ran" => seen = CallArgs

LEMMA StackStartType == ASSUME NEW args \in Seq(Seq(Nat)) PROVE StackStart(args) \in Int
<1>1. PICK W \in Nat \ {0} : W = Word /\ StackTop \in Nat
  BY StartupAssumption
<1>2. Len(args) \in Nat /\ Len(Packed(args)) \in Nat
  BY PackedType
<1>3. PICK d \in Int : d = StringsStart(args) - (Len(args) + 1) * Word
  <2>0. StringsStart(args) = StackTop - Len(Packed(args))
    BY DEF StringsStart
  <2>t. StackTop - Len(Packed(args)) \in Int
    BY ONLY <1>1, <1>2
  <2>1. PICK x \in Int : x = StringsStart(args)
    BY <2>0, <2>t
  <2>2. PICK n \in Nat, y \in Int : n = Len(args) /\ y = (n + 1) * Word
    BY <1>1, <1>2
  <2>3. x - y \in Int
    BY <2>1, <2>2
  <2> QED  BY <2>1, <2>2, <2>3
<1>4. PointersStart(args) \in Int
  <2>1. AlignDown(d, W) \in Int
    BY AlignedDown
  <2> QED  BY <1>1, <1>3, <2>1 DEF PointersStart
<1>5. PICK e \in Int, v \in Nat \ {0} : e = PointersStart(args) - Word /\ v = 2 * Word
  BY <1>1, <1>4
<1>6. AlignDown(e, v) \in Int
  BY <1>5, AlignedDown
<1> QED  BY <1>5, <1>6 DEF StackStart

ArgsAre(args, argv0, t) ==
  /\ args \in Seq(Seq(Nat)) /\ Len(args) = Len(t) + 1 /\ Len(t) \in Nat
  /\ args[1] = argv0 /\ \A i \in 1..Len(t) : args[i + 1] = t[i]
  /\ args # <<>> /\ Head(args) = argv0 /\ Tail(args) = t
LEMMA ArgsOfType ==
  ASSUME NEW argv0 \in Seq(Nat), NEW tail \in Seq(Nat), NEW args, args = ArgsOf(argv0, tail)
  PROVE  ArgsAre(args, argv0, Split(tail))
<1>1. PICK t \in Seq(Seq(Nat)) : t = Split(tail)
  BY SplitType
<1>2. args = <<argv0>> \o t
  BY <1>1 DEF ArgsOf
<1>3. PICK n \in Nat : n = Len(t)
  OBVIOUS
<1>4. /\ args \in Seq(Seq(Nat)) /\ Len(args) = n + 1 /\ args[1] = argv0
      /\ \A i \in 1..n : args[i + 1] = t[i]
  BY <1>2, <1>3
<1>5. args # <<>> /\ Head(args) = argv0
  BY <1>3, <1>4
<1>6. Tail(args) = t
  <2>1. Tail(args) \in Seq(Seq(Nat)) /\ Len(Tail(args)) = n /\ \A i \in 1..n : Tail(args)[i] = args[i + 1]
    BY <1>3, <1>4, <1>5
  <2>2. PICK u : u = Tail(args)
    OBVIOUS
  <2>3. u \in Seq(Seq(Nat)) /\ t \in Seq(Seq(Nat)) /\ Len(u) = Len(t) /\ \A i \in 1..Len(u) : u[i] = t[i]
    BY <1>3, <1>4, <2>1, <2>2
  <2>4. u = t
    BY ONLY <2>3, SameSequence
  <2> QED  BY <2>2, <2>4
<1> QED  BY <1>1, <1>3, <1>4, <1>5, <1>6 DEF ArgsAre

(* What is not refused.                                                    *)
Startable(args) ==
  /\ args \in Seq(Seq(Nat)) /\ Len(args) \in 1..MaxArgs
  /\ NulFree(args) /\ \A i \in 1..Len(args) : IsUtf8(args[i])
  /\ StackStart(args) >= StackBase
LEMMA NotRefused ==
  ASSUME NEW argv0 \in Seq(Nat), NEW tail \in Seq(Nat), NEW args, args = ArgsOf(argv0, tail),
         ~Refused(argv0, tail)
  PROVE  Startable(args) /\ Packed(Tail(args)) = tail
<1>1. /\ args \in Seq(Seq(Nat)) /\ Len(args) = Len(Split(tail)) + 1 /\ Len(Split(tail)) \in Nat
      /\ args[1] = argv0 /\ \A i \in 1..Len(Split(tail)) : args[i + 1] = Split(tail)[i]
      /\ Tail(args) = Split(tail)
  <2>1. ArgsAre(args, argv0, Split(tail))
    BY ArgsOfType
  <2> QED  BY <2>1 DEF ArgsAre
<1>2. /\ ~\E i \in DOMAIN args : ~IsUtf8(args[i]) \/ (i > 1 /\ args[i] = <<>>)
      /\ ~Contains(argv0, Nul) /\ ~(tail # <<>> /\ Last(tail) # Nul)
      /\ ~(Len(args) > MaxArgs) /\ ~(StackStart(args) < StackBase)
  BY DEF Refused, ArgsOf
<1>3. MaxArgs \in Nat /\ StackBase \in Nat /\ StackStart(args) \in Int
  BY <1>1, StartupAssumption, StackStartType
<1>4. NulFree(args)
  <2>1. NulFree(Split(tail))
    BY SplitType
  <2>2. PICK t : t = Split(tail)
    OBVIOUS
  <2>n. PICK n \in Nat : n = Len(t)
    BY <1>1, <2>2
  <2>3. ASSUME NEW i \in 1..Len(args) PROVE ~Contains(args[i], Nul)
    <3>1. CASE i = 1
      BY <1>1, <1>2, <3>1
    <3>2. CASE i # 1
      <4>1. PICK j \in 1..n : i = j + 1
        <5>1. i - 1 \in 1..n /\ i = (i - 1) + 1
          BY <1>1, <2>2, <2>n, <3>2
        <5> QED  BY <5>1
      <4>2. args[j + 1] = t[j]
        BY <1>1, <2>2, <2>n
      <4>3. ~Contains(t[j], Nul)
        BY <2>1, <2>2, <2>n DEF NulFree
      <4> QED  BY <4>1, <4>2, <4>3
    <3> QED  BY <3>1, <3>2
  <2> QED  BY <2>3 DEF NulFree
<1>5. Packed(Split(tail)) = tail
  BY <1>2, PackedOfSplit
<1>6. Len(args) \in 1..MaxArgs /\ StackStart(args) >= StackBase
  BY <1>1, <1>2, <1>3
<1>7. \A i \in 1..Len(args) : IsUtf8(args[i])
  <2>1. DOMAIN args = 1..Len(args)
    BY <1>1
  <2> QED  BY <1>2, <2>1
<1> QED  BY <1>1, <1>4, <1>5, <1>6, <1>7 DEF Startable

LEMMA PackedEndsWithNul ==
  ASSUME NEW args \in Seq(Seq(Nat)), Packed(args) # <<>> PROVE Last(Packed(args)) = Nul
<1>1. args # <<>>
  BY PackedEmpty
<1>2. PICK a \in Seq(Seq(Nat)), x \in Seq(Nat) : args = Append(a, x)
  BY <1>1, SequenceEmptyOrAppend
<1>3. PICK p \in Seq(Nat) : p = Packed(a) /\ Packed(args) = p \o Append(x, Nul)
  BY <1>2, PackedAppend
<1>4. Nul \in Nat /\ p \o Append(x, Nul) = Append(p \o x, Nul) /\ p \o x \in Seq(Nat)
  <2>1. PICK z \in Nat : z = Nul
    BY DEF Nul
  <2>t. p \in Seq(Nat) /\ x \in Seq(Nat) /\ z \in Nat
    BY <1>2, <1>3, <2>1
  <2>2. p \o Append(x, z) = Append(p \o x, z) /\ p \o x \in Seq(Nat)
    BY ONLY <2>t, AppendOver
  <2> QED  BY <2>1, <2>2
<1>5. Last(Append(p \o x, Nul)) = Nul
  BY <1>4 DEF Last
<1> QED  BY <1>3, <1>4, <1>5

(* A list that liblazer packed is refused only when it cannot be carried.  *)
LEMMA RefusedCannot ==
  ASSUME NEW argv0 \in Executables, NEW args \in ArgumentLists, NulFree(args),
         Refused(argv0, Packed(args)), <<>> \notin Range(args)
  PROVE  ~Carried(argv0, args)
<1>1. argv0 \in Seq(Nat) /\ args \in Seq(Seq(Nat)) /\ MaxArgs \in Nat /\ StackBase \in Nat
  BY StartupAssumption
<1>2. IsUtf8(argv0) /\ ~Contains(argv0, Nul) /\ \A i \in DOMAIN args : IsUtf8(args[i])
  BY StartupAssumption
<1>3. Split(Packed(args)) = args /\ Packed(args) \in Seq(Nat)
  BY <1>1, SplitOfPacked, PackedType
<1>4. PICK all : all = <<argv0>> \o args
  OBVIOUS
<1>5. PICK n \in Nat : n = Len(args)
  BY <1>1
<1>6. all \in Seq(Seq(Nat)) /\ Len(all) = n + 1 /\ all[1] = argv0 /\ \A i \in 1..n : all[i + 1] = args[i]
  BY <1>1, <1>4, <1>5
<1>7. ~\E i \in DOMAIN all : ~IsUtf8(all[i]) \/ (i > 1 /\ all[i] = <<>>)
  <2> SUFFICES ASSUME NEW i \in DOMAIN all PROVE IsUtf8(all[i]) /\ ~(i > 1 /\ all[i] = <<>>)
    OBVIOUS
  <2>1. i \in 1..(n + 1)
    BY <1>6
  <2>2. CASE i = 1
    BY <1>2, <1>6, <2>2
  <2>3. CASE i # 1
    <3>1. PICK j \in 1..n : i = j + 1
      <4>1. i - 1 \in 1..n /\ i = (i - 1) + 1
        BY <1>5, <2>1, <2>3
      <4> QED  BY <4>1
    <3>2. all[i] = args[j] /\ j \in DOMAIN args
      BY <1>1, <1>5, <1>6, <3>1
    <3>3. args[j] # <<>>
      BY <3>2 DEF Range
    <3> QED  BY <1>2, <3>2, <3>3
  <2> QED  BY <2>2, <2>3
<1>8. ~(Packed(args) # <<>> /\ Last(Packed(args)) # Nul)
  BY <1>1, PackedEndsWithNul
<1>9. Len(all) > MaxArgs \/ StackStart(all) < StackBase
  BY <1>2, <1>3, <1>4, <1>7, <1>8 DEF Refused
<1>10. StackStart(all) \in Int
  BY <1>6, StackStartType
<1>11. ~(n < MaxArgs) \/ ~(StackStart(all) >= StackBase)
  BY <1>1, <1>5, <1>6, <1>9, <1>10
<1> QED  BY <1>4, <1>5, <1>11 DEF Carried

LEMMA SpawnKeepsStart ==
  ASSUME CallInv, StartInv, NEW path_ \in Executables, NEW args \in ArgumentLists, SpawnWait(path_, args)
  PROVE  StartInv'
<1>1. args \in Seq(Seq(Nat)) /\ MaxPayload \in Nat /\ DOMAIN args = 1..Len(args)
  BY StartupAssumption
<1>2. PICK payload \in Payload : payload = Serialize(args) /\ Whole(payload, Packed(args), args, Len(args))
  BY <1>1, SerializeMeans
<1>3. step = "parent" /\ verdict = "none" /\ seen = <<>> /\ given' = [packed |-> TRUE, args |-> args] /\ seen' = seen
  BY DEF SpawnWait, StartInv, Ends
<1>4. given'.packed /\ given'.args = args
  BY <1>3
<1>5. CASE payload.error # "none"
  <2>1. step' = "ended" /\ verdict' = payload.error /\ verdict' \notin {"none", "ran"}
    BY <1>2, <1>5 DEF SpawnWait, Ends, Payload, PayloadErrors
  <2>2. (\E i \in 1..Len(args) : Contains(args[i], Nul)) \/ Len(Packed(args)) > MaxPayload
    BY <1>2, <1>5 DEF Whole
  <2>3. Len(Packed(args)) \in Nat
    BY <1>1, PackedType
  <2>4. ~(Len(Packed(args)) > MaxPayload) \/ ~(Len(Packed(args)) <= MaxPayload)
    BY <1>1, <2>3
  <2>5. ~Carried(call'.path.bytes, args)
    BY <1>1, <2>2, <2>4 DEF Carried
  <2> QED  BY <1>4, <2>1, <2>5 DEF StartInv, Failed, NotCarried
<1>6. CASE payload.error = "none"
  <2>1. /\ call' = [path |-> [at |-> ImageBase, bytes |-> path_],
                    args |-> [at |-> StackTop - MaxPayload, bytes |-> payload.bytes]]
        /\ step' = "syscall" /\ verdict' = "none"
    BY <1>2, <1>3, <1>6 DEF SpawnWait
  <2>2. payload.bytes = Packed(args) /\ Len(Packed(args)) <= MaxPayload /\ NulFree(args)
    BY <1>2, <1>6 DEF Whole, NulFree
  <2>3. FromSpawnWait'
    BY <1>4, <2>1, <2>2 DEF FromSpawnWait
  <2> QED  BY <1>3, <1>4, <2>1, <2>3 DEF StartInv, Failed
<1> QED  BY <1>5, <1>6

LEMMA KernelKeepsStart ==
  ASSUME StartInv, NEW c \in RawCalls, CallKernel(c)
  PROVE  StartInv'
<1>1. /\ step = "parent" /\ step' = "syscall" /\ given' = given /\ verdict' = verdict /\ seen' = seen
      /\ given.packed = FALSE /\ verdict = "none" /\ seen = <<>>
  BY DEF CallKernel, StartInv
<1> QED  BY <1>1 DEF StartInv, Failed

LEMMA PassesChecks ==
  ASSUME FromSpawnWait
  PROVE  Valid(call.path) /\ Valid(call.args) /\ IsUtf8(call.path.bytes)
<1>1. /\ ImageBase \in Nat /\ StackBase \in Nat /\ StackTop \in Nat /\ AddressLimit \in Nat /\ MaxPayload \in Nat
      /\ ImageBase < StackBase /\ StackBase < StackTop /\ StackTop < AddressLimit
      /\ MaxPayload <= StackTop - StackBase
  BY StartupAssumption
<1>2. PICK p : p = call.path.bytes /\ p \in Executables
  BY DEF FromSpawnWait
<1>3. p \in Seq(Nat) /\ IsUtf8(p) /\ Len(p) <= StackBase - ImageBase
  BY <1>2, StartupAssumption
<1>4. PICK n \in Nat : n = Len(p) /\ n <= StackBase - ImageBase
  BY <1>3
<1>5. ValidateUserBuffer(ImageBase, n)
  BY <1>1, <1>4 DEF ValidateUserBuffer
<1>6. Valid(call.path)
  BY <1>2, <1>4, <1>5 DEF Valid, FromSpawnWait
<1>7. given.args \in Seq(Seq(Nat))
  BY StartupAssumption DEF FromSpawnWait
<1>8. Len(Packed(given.args)) \in Nat
  BY <1>7, PackedType
<1>9. PICK m \in Nat : m = Len(Packed(given.args)) /\ m <= MaxPayload
  BY <1>8 DEF FromSpawnWait
<1>10. ValidateUserBuffer(StackTop - MaxPayload, m)
  BY <1>1, <1>9 DEF ValidateUserBuffer
<1>11. Valid(call.args)
  BY <1>9, <1>10 DEF Valid, FromSpawnWait
<1> QED  BY <1>2, <1>3, <1>6, <1>11

LEMMA SyscallKeepsStart == ASSUME StartInv, SyscallSpawnWait PROVE StartInv'
<1>1. /\ step = "syscall" /\ verdict = "none" /\ given' = given /\ call' = call /\ seen' = seen /\ seen = <<>>
      /\ given.packed => FromSpawnWait
  BY DEF SyscallSpawnWait, StartInv, Failed, Ends
<1>2. CASE step' = "load" /\ verdict' = verdict
  <2>1. given.packed => FromSpawnWait'
    BY <1>1 DEF FromSpawnWait
  <2> QED  BY <1>1, <1>2, <2>1 DEF StartInv, Failed
<1>3. CASE /\ step' = "ended" /\ verdict' \in {"InvalidPath", "ResourceUnavailable"}
           /\ ~Valid(call.path) \/ ~IsUtf8(call.path.bytes) \/ ~Valid(call.args)
  <2>1. ~given.packed
    BY <1>1, <1>3, PassesChecks
  <2> QED  BY <1>1, <1>3, <2>1 DEF StartInv, Failed
<1> QED  BY <1>2, <1>3 DEF SyscallSpawnWait, Ends

LEMMA LoadKeepsStart == ASSUME StartInv, LoadUserProgram PROVE StartInv'
<1>1. /\ step = "load" /\ verdict = "none" /\ given' = given /\ call' = call /\ seen' = seen /\ seen = <<>>
      /\ given.packed => FromSpawnWait
  BY DEF LoadUserProgram, StartInv, Failed, Ends
<1>2. CASE Refused(call.path.bytes, call.args.bytes)
  <2>1. step' = "ended" /\ verdict' = "InvalidExecutable"
    BY <1>2 DEF LoadUserProgram, Ends
  <2>2. given.packed => NotCarried
    <3> SUFFICES ASSUME given.packed PROVE NotCarried
      OBVIOUS
    <3>1. PICK g, p : g = given.args /\ p = call.path.bytes
      OBVIOUS
    <3>2. /\ g \in ArgumentLists /\ NulFree(g) /\ p \in Executables
          /\ call.args.bytes = Packed(g)
      BY <1>1, <3>1 DEF FromSpawnWait
    <3>3. Refused(p, Packed(g))
      BY <1>2, <3>1, <3>2
    <3>4. <<>> \in Range(g) \/ ~Carried(p, g)
      BY <3>2, <3>3, RefusedCannot
    <3> QED  BY <3>1, <3>4 DEF NotCarried
  <2>3. given.packed => NotCarried'
    BY <1>1, <2>2 DEF NotCarried
  <2> QED  BY <1>1, <2>1, <2>3 DEF StartInv, Failed
<1>3. CASE ~Refused(call.path.bytes, call.args.bytes)
  <2>1. step' = "child" /\ verdict' = "ran" /\ stack' = Written(CallArgs) /\ sp' = StackStart(CallArgs)
    BY <1>3 DEF LoadUserProgram, CallArgs, ArgsOf
  <2>2. LaidOut'
    BY <1>1, <1>3, <2>1 DEF LaidOut, CallArgs
  <2>3. given.packed => FromSpawnWait'
    BY <1>1 DEF FromSpawnWait
  <2> QED  BY <1>1, <2>1, <2>2, <2>3 DEF StartInv, Failed
<1> QED  BY <1>2, <1>3

(* What the child finds in its block.                                      *)
LEMMA BlockThere ==
  ASSUME CallInv, LaidOut, NEW args, args = CallArgs
  PROVE  /\ Startable(args) /\ BlockFound(args, sp) /\ sp \in Nat /\ sp % (2 * Word) = 0 /\ sp >= StackBase
         /\ Packed(Tail(args)) = call.args.bytes
         /\ args # <<>> /\ Head(args) = call.path.bytes /\ Tail(args) = Split(call.args.bytes)
<1>1. PICK p, t : p = call.path.bytes /\ t = call.args.bytes
  OBVIOUS
<1>2. p \in Seq(Nat) /\ t \in Seq(Nat)
  BY <1>1 DEF CallInv, Buffers
<1>3. args = ArgsOf(p, t) /\ ~Refused(p, t) /\ stack = Written(args) /\ sp = StackStart(args)
  BY <1>1 DEF LaidOut, CallArgs
<1>4. Startable(args) /\ Packed(Tail(args)) = t
  BY <1>2, <1>3, NotRefused
<1>5. args \in Seq(Seq(Nat)) /\ NulFree(args) /\ StackStart(args) >= StackBase
  BY <1>4 DEF Startable
<1>6. BlockFound(args, StackStart(args)) /\ StackStart(args) % (2 * Word) = 0 /\ StackStart(args) \in Nat
  BY <1>3, <1>5, BlockReadBack
<1>7. ArgsAre(args, p, Split(t))
  BY <1>2, <1>3, ArgsOfType
<1>8. args # <<>> /\ Head(args) = p /\ Tail(args) = Split(t)
  BY <1>7 DEF ArgsAre
<1> QED  BY <1>1, <1>3, <1>4, <1>5, <1>6, <1>8

LEMMA ChildKeepsStart ==
  ASSUME CallInv, StartInv, Initialize \/ NextArg \/ EndOfArgs
  PROVE  StartInv'
<1>1. /\ verdict = "ran" /\ verdict' = verdict /\ given' = given /\ call' = call /\ stack' = stack /\ sp' = sp
      /\ LaidOut /\ (given.packed => FromSpawnWait)
  BY DEF Initialize, NextArg, EndOfArgs, StartInv, Failed
<1>2. LaidOut' /\ (given'.packed => FromSpawnWait') /\ ~Failed' /\ CallArgs' = CallArgs
  BY <1>1 DEF LaidOut, FromSpawnWait, Failed, CallArgs
<1>3. PICK args : args = CallArgs
  OBVIOUS
<1>4. Startable(args) /\ BlockFound(args, sp) /\ sp \in Nat
  BY <1>1, <1>3, BlockThere
<1>5. args \in Seq(Seq(Nat)) /\ Len(args) \in Nat /\ \A i \in 1..Len(args) : IsUtf8(args[i])
  BY <1>4 DEF Startable
<1>6. Word \in Nat
  BY StartupAssumption
<1>7. CASE Initialize
  <2>1. step = "child" /\ step' = "reading" /\ seen' = seen /\ argv' = [argc |-> ReadWord(sp), at |-> sp + Word]
    BY <1>7 DEF Initialize
  <2>2. ReadWord(sp) = Len(args) /\ seen = <<>>
    BY <1>4, <2>1 DEF BlockFound, StartInv
  <2>3. Len(seen) \in 0..Len(args) /\ seen = SubSeq(args, 1, Len(seen))
    BY <1>5, <2>2
  <2> QED  BY <1>1, <1>2, <1>3, <2>1, <2>2, <2>3 DEF StartInv
<1>8. CASE NextArg
  <2>1. /\ step = "reading" /\ argv = [argc |-> Len(args), at |-> sp + Word]
        /\ Len(seen) \in 0..Len(args) /\ seen = SubSeq(args, 1, Len(seen))
        /\ argv' = argv /\ Len(seen) < argv.argc
    BY <1>3, <1>8 DEF NextArg, StartInv
  <2>2. PICK k : k = Len(seen)
    OBVIOUS
  <2>3. PICK a : a = CString(ReadWord(argv.at + Len(seen) * Word))
    OBVIOUS
  <2>4. IF IsUtf8(a) THEN seen' = Append(seen, a) /\ step' = step ELSE step' = "ended" /\ seen' = seen
    BY <1>8, <2>3 DEF NextArg
  <2>5. k \in Nat /\ k + 1 \in 1..Len(args)
    <3>1. k < Len(args) /\ k \in 0..Len(args)
      BY <2>1, <2>2
    <3> QED  BY <1>5, <3>1
  <2>6. a = args[k + 1]
    <3>1. argv.at + k * Word = sp + (k + 1) * Word
      <4>1. argv.at = sp + Word
        BY <2>1
      <4>2. (k + 1) * Word = k * Word + Word /\ k * Word \in Int
        BY <1>6, <2>5
      <4> QED  BY <1>4, <1>6, <4>1, <4>2
    <3>2. ArgFound(args, sp, k + 1)
      BY <1>4, <2>5 DEF BlockFound
    <3>3. CString(ReadWord(sp + (k + 1) * Word)) = args[k + 1]
      BY <3>2 DEF ArgFound
    <3> QED  BY <2>2, <2>3, <3>1, <3>3
  <2>7. IsUtf8(a)
    BY <1>5, <2>5, <2>6
  <2>8. seen' = Append(seen, a) /\ step' = "reading"
    BY <2>1, <2>4, <2>7
  <2>9. Len(seen') = k + 1 /\ seen' = SubSeq(args, 1, k + 1)
    <3>1. SubSeq(args, 1, k + 1) = Append(SubSeq(args, 1, k), args[k + 1]) /\ Len(SubSeq(args, 1, k + 1)) = k + 1
      BY <1>5, <2>5
    <3>2. seen = SubSeq(args, 1, k)
      BY <2>1, <2>2
    <3> QED  BY <2>6, <2>8, <3>1, <3>2
  <2>10. Len(seen') \in 0..Len(args) /\ seen' = SubSeq(args, 1, Len(seen'))
    BY <1>5, <2>5, <2>9
  <2> QED  BY <1>1, <1>2, <1>3, <2>1, <2>8, <2>10 DEF StartInv
<1>9. CASE EndOfArgs
  <2>1. /\ step = "reading" /\ step' = "ended" /\ seen' = seen
        /\ argv = [argc |-> Len(args), at |-> sp + Word] /\ Len(seen) >= argv.argc
        /\ Len(seen) \in 0..Len(args) /\ seen = SubSeq(args, 1, Len(seen))
    BY <1>3, <1>9 DEF EndOfArgs, StartInv
  <2>2. PICK k : k = Len(seen)
    OBVIOUS
  <2>3. k >= Len(args) /\ k \in 0..Len(args) /\ seen = SubSeq(args, 1, k)
    BY <2>1, <2>2
  <2>4. seen = args
    <3>1. k = Len(args)
      BY <1>5, <2>3
    <3> QED  BY <1>5, <2>3, <3>1
  <2> QED  BY <1>1, <1>2, <1>3, <2>1, <2>4 DEF StartInv
<1> QED  BY <1>7, <1>8, <1>9

LEMMA StartInvStep == CallInv /\ StartInv /\ [Next]_vars => StartInv'
<1> SUFFICES ASSUME CallInv, StartInv, [Next]_vars PROVE StartInv'
  OBVIOUS
<1>1. CASE UNCHANGED startupVars
  BY <1>1 DEF startupVars, StartInv, Failed, FromSpawnWait, NotCarried, LaidOut, CallArgs
<1>2. CASE StartupNext
  BY <1>2, SpawnKeepsStart, KernelKeepsStart, SyscallKeepsStart, LoadKeepsStart, ChildKeepsStart DEF StartupNext
<1> QED  BY <1>1, <1>2 DEF Next, Execute, UseEnvironment, PassArguments, vars

LEMMA StartInvInit == StartupInit => StartInv
  BY DEF StartupInit, StartInv, NotPacked, Failed

LEMMA StartInvariant == Spec => [](CallInv /\ StartInv)
<1>1. Init => CallInv /\ StartInv
  <2>1. Init => CallInv
    BY DEF Init, StartupInit, CallInv, Checked, Buffers, Empty
  <2> QED  BY <2>1, StartInvInit DEF Init
<1>2. CallInv /\ StartInv /\ [Next]_vars => (CallInv /\ StartInv)'
  BY CallInvStep, StartInvStep
<1> QED  BY <1>1, <1>2, PTL DEF Spec

(* A child reads the path and the arguments that its parent passed, each   *)
(* one whole and in order, and what spawn_wait can carry is not refused:   *)
(* what serialize_spawn_args packs, the loader cuts and writes, and Args   *)
(* reads back is the same list, for every size of the stack and of a word. *)
THEOREM ArgumentsCorrect == Spec => []ArgumentsReachChild
<1>1. CallInv /\ StartInv => ArgumentsReachChild
  <2> SUFFICES ASSUME CallInv, StartInv, step = "ended" PROVE ArgumentsReachChild
    BY DEF ArgumentsReachChild
  <2>1. ASSUME verdict = "ran"
        PROVE  /\ seen # <<>> /\ Head(seen) = call.path.bytes
               /\ Packed(Tail(seen)) = call.args.bytes
               /\ given.packed => Tail(seen) = given.args
    <3>1. LaidOut /\ seen = CallArgs /\ (given.packed => FromSpawnWait)
      BY <2>1 DEF StartInv, Failed
    <3>2. /\ Packed(Tail(seen)) = call.args.bytes
          /\ seen # <<>> /\ Head(seen) = call.path.bytes /\ Tail(seen) = Split(call.args.bytes)
      BY <3>1, BlockThere
    <3>3. given.packed => Tail(seen) = given.args
      <4> SUFFICES ASSUME given.packed PROVE Tail(seen) = given.args
        OBVIOUS
      <4>1. PICK g : g = given.args
        OBVIOUS
      <4>2. g \in Seq(Seq(Nat)) /\ NulFree(g) /\ call.args.bytes = Packed(g)
        BY <3>1, <4>1, StartupAssumption DEF FromSpawnWait
      <4>3. Split(Packed(g)) = g
        BY <4>2, SplitOfPacked
      <4> QED  BY <3>2, <4>1, <4>2, <4>3
    <3> QED  BY <3>2, <3>3
  <2>2. given.packed /\ verdict # "ran" =>
          <<>> \in Range(given.args) \/ ~Carried(call.path.bytes, given.args)
    BY DEF StartInv, Failed, NotCarried
  <2> QED  BY <2>1, <2>2 DEF ArgumentsReachChild
<1> QED  BY <1>1, StartInvariant, PTL

(* Every program that runs starts on a block of the layout that _start and *)
(* the ABI of C rely on: aligned, inside the stack, argc and argv below    *)
(* the strings, and the strings one after the other up to the top.         *)
THEOREM StartupBlockCorrect == Spec => []StartupBlockSound
<1>1. CallInv /\ StartInv => StartupBlockSound
  <2> SUFFICES ASSUME CallInv, StartInv, verdict = "ran" PROVE StartupBlockSound
    BY DEF StartupBlockSound
  <2>1. LaidOut
    BY DEF StartInv
  <2>2. PICK args : args = CallArgs
    OBVIOUS
  <2>3. Startable(args) /\ BlockFound(args, sp) /\ sp \in Nat /\ sp % (2 * Word) = 0 /\ sp >= StackBase
    BY <2>1, <2>2, BlockThere
  <2>4. PICK n \in 1..MaxArgs : n = Len(args) /\ args \in Seq(Seq(Nat))
    BY <2>3 DEF Startable
  <2>5. ReadWord(sp) = n /\ ReadWord(sp + (n + 1) * Word) = 0
    BY <2>3, <2>4 DEF BlockFound
  <2>6. ASSUME NEW k \in 1..n
        PROVE  /\ ReadWord(sp + k * Word) >= sp + (n + 2) * Word /\ ReadWord(sp + k * Word) < StackTop
               /\ CString(ReadWord(sp + k * Word)) = args[k]
               /\ k = n => ReadWord(sp + k * Word) + Len(args[k]) + 1 = StackTop
               /\ k < n => ReadWord(sp + (k + 1) * Word) = ReadWord(sp + k * Word) + Len(args[k]) + 1
    <3>1. ArgFound(args, sp, k)
      BY <2>3, <2>4 DEF BlockFound
    <3>2. PICK p \in Nat : p = ReadWord(sp + k * Word)
      BY <3>1 DEF ArgFound
    <3>3. /\ sp + (n + 2) * Word <= p /\ p < StackTop /\ CString(p) = args[k]
          /\ k = n => p + Len(args[k]) + 1 = StackTop
          /\ k < n => ReadWord(sp + (k + 1) * Word) = p + Len(args[k]) + 1
      BY <2>4, <3>1, <3>2 DEF ArgFound
    <3>4. PICK x \in Int : x = sp + (n + 2) * Word
      BY <2>3, <2>4, StartupAssumption
    <3>5. p >= x
      BY <3>2, <3>3, <3>4
    <3> QED  BY <3>2, <3>3, <3>4, <3>5
  <2>7. ASSUME NEW k \in 1..n, k > 1
        PROVE  ReadWord(sp + k * Word) =
                 ReadWord(sp + (k - 1) * Word) + Len(CString(ReadWord(sp + (k - 1) * Word))) + 1
    <3>1. PICK j \in 1..n : j = k - 1 /\ j < n /\ k = j + 1
      <4>1. k - 1 \in 1..n /\ k - 1 < n /\ k = (k - 1) + 1
        BY <2>4, <2>7
      <4> QED  BY <4>1
    <3>2. ReadWord(sp + (j + 1) * Word) = ReadWord(sp + j * Word) + Len(args[j]) + 1
      BY <2>6, <3>1
    <3>3. CString(ReadWord(sp + j * Word)) = args[j]
      BY <2>6
    <3> QED  BY <3>1, <3>2, <3>3
  <2>8. ReadWord(sp + n * Word) + Len(CString(ReadWord(sp + n * Word))) + 1 = StackTop
    <3>1. n \in 1..n
      BY <2>4
    <3> QED  BY <2>6, <3>1
  <2>9. /\ sp % (2 * Word) = 0 /\ sp >= StackBase /\ n \in 1..MaxArgs
    BY <2>3, <2>4
  <2> QED  BY <2>5, <2>6, <2>7, <2>8, <2>9 DEF StartupBlockSound
<1> QED  BY <1>1, StartInvariant, PTL
=============================================================================
