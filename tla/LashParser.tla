----------------------------- MODULE LashParser -----------------------------
(***************************************************************************)
(* The shell's parser (lash lib.rs): scan_segments cuts a line at &&, ||   *)
(* and ; into commands, TokenizedCommand::parse cuts a command into words. *)
(* Both follow quotes and escapes, each with its own loop.  The loops are  *)
(* checked against a definition that decides once for each byte whether    *)
(* it is quoted.                                                           *)
(***************************************************************************)
EXTENDS Integers, SequencesExt

CONSTANTS
  MaxSegments,    \* MAX_CHAIN_SEGMENTS
  MaxArgs,        \* MAX_COMMAND_ARGS
  LineCapacity,   \* LINE_CAPACITY, the bytes of a command's words
  Alphabet,       \* bytes of the lines that are parsed
  MaxLine         \* bound: their length

ASSUME LashParserAssumption ==
  /\ MaxSegments \in Nat \ {0} /\ MaxArgs \in Nat \ {0}
  /\ LineCapacity \in Nat /\ MaxLine \in Nat

VARIABLES
  line,     \* the line as typed
  result    \* its commands with the operators before them, or an error
lineVars == <<line, result>>

Single == "single"
Double == "double"
Escape == "backslash"
Err(kind) == [ok |-> FALSE, error |-> kind, value |-> <<>>]
Ok(value) == [ok |-> TRUE, error |-> "none", value |-> value]
Unmatched(state) == IF state = Single THEN Err("UnmatchedSingleQuote") ELSE Err("UnmatchedDoubleQuote")

(* The operator at i, by its bytes.                                        *)
OperatorAt(l, i) ==
  CASE l[i] = ";" -> <<";">>
    [] l[i] \in {"&", "|"} /\ i < Len(l) /\ l[i + 1] = l[i] -> <<l[i], l[i]>>
    [] OTHER -> <<>>

-----------------------------------------------------------------------------
(* trim_spaces_range                                                       *)
Trim(l, from, to) ==
  LET text == {i \in from..to : l[i] # " "}
  IN  IF text = {} THEN <<>> ELSE SubSeq(l, Min(text), Max(text))

PushSegmentEarly(segments, command, op) ==
  IF Len(segments) >= MaxSegments - 1 THEN Err("ResourceUnavailable")
  ELSE Ok(Append(segments, [command |-> command, op |-> op]))
PushSegment(segments, command, op) ==
  IF Len(segments) >= MaxSegments \/ (op # <<>> /\ Len(segments) >= MaxSegments - 1)
  THEN Err("ResourceUnavailable")
  ELSE Ok(Append(segments, [command |-> command, op |-> op]))

(* The loop of scan_segments: a turn takes one byte, or two behind an      *)
(* escape and at && and ||.  found has each segment with the operator that *)
(* ends it, or the error that ended the loop.                              *)
ScanStart == [i |-> 1, state |-> "plain", start |-> 1, found |-> Ok(<<>>)]
ScanByte(l, k) ==
  LET byte == l[k.i]
      op == OperatorAt(l, k.i)
      command == Trim(l, k.start, k.i - 1)
      next(n, state) == [k EXCEPT !.i = @ + n, !.state = state]
  IN  CASE k.state # Single /\ byte = Escape ->
             IF k.i = Len(l) THEN [k EXCEPT !.found = Err("TrailingBackslash")] ELSE next(2, k.state)
        [] k.state = "plain" /\ byte \in {Single, Double} -> next(1, byte)
        [] k.state = "plain" /\ op # <<>> ->
             IF command = <<>> THEN [k EXCEPT !.found = Err("InvalidSyntax")]
             ELSE [k EXCEPT !.i = @ + Len(op), !.start = k.i + Len(op),
                            !.found = PushSegment(@.value, command, op)]
        [] k.state # "plain" /\ byte = k.state -> next(1, "plain")
        [] OTHER -> next(1, k.state)

(* The turns of a loop over l, as many as are needed: from the index k.i   *)
(* to the end or the first error.                                          *)
Looped(Turn(_, _), l, first) ==
  FoldLeft(LAMBDA k, byte : IF k.found.ok /\ k.i <= Len(l) THEN Turn(l, k) ELSE k, first, l)

(* scan_segments: the last segment ends with the line.                     *)
ScanSegments(l) ==
  LET k == Looped(ScanByte, l, ScanStart)
      command == Trim(l, k.start, Len(l))
  IN  IF ~k.found.ok THEN k.found
      ELSE IF k.state # "plain" THEN Unmatched(k.state)
      ELSE IF command # <<>> THEN PushSegment(k.found.value, command, <<>>)
      ELSE IF k.found.value = <<>> THEN k.found ELSE Err("InvalidSyntax")

(* The loop of TokenizedCommand::parse.  A word is started by its first    *)
(* byte or quote and counted when it is finished.                          *)
TokenStart == [i |-> 1, state |-> "plain", active |-> FALSE, found |-> Ok(<<>>)]
TokenByte(l, k) ==
  LET byte == l[k.i]
      words == k.found.value
      started == IF k.active THEN words ELSE Append(words, <<>>)
      noRoom == ~k.active /\ Len(words) >= MaxArgs
      next(n, state, active, found) ==
        [i |-> k.i + n, state |-> state, active |-> active, found |-> found]
      put(n) == next(n, k.state, TRUE,
                     IF noRoom \/ Len(FlattenSeq(words)) >= LineCapacity THEN Err("ResourceUnavailable")
                     ELSE Ok(Append(Front(started), Append(Last(started), l[k.i + n - 1]))))
  IN  CASE k.state = "plain" /\ byte = " " -> next(1, k.state, FALSE, k.found)
        [] k.state = "plain" /\ byte \in {Single, Double} ->
             next(1, byte, TRUE, IF noRoom THEN Err("ResourceUnavailable") ELSE Ok(started))
        [] k.state # "plain" /\ byte = k.state -> next(1, "plain", TRUE, k.found)
        [] k.state # Single /\ byte = Escape ->
             IF k.i = Len(l) THEN [k EXCEPT !.found = Err("TrailingBackslash")] ELSE put(2)
        [] OTHER -> put(1)

(* TokenizedCommand::parse.                                                *)
Tokenize(l) ==
  LET k == Looped(TokenByte, l, TokenStart)
  IN  IF k.found.ok /\ k.state # "plain" THEN Unmatched(k.state) ELSE k.found

(* execute_line and execute_segment up to the commands themselves.         *)
Commands(l) ==
  LET scan == ScanSegments(l)
      words == [i \in DOMAIN scan.value |-> Tokenize(scan.value[i].command)]
  IN  IF ~scan.ok THEN scan
      ELSE Ok([i \in DOMAIN words |->
                 [words |-> words[i], op |-> IF i = 1 THEN <<>> ELSE scan.value[i - 1].op]])

-----------------------------------------------------------------------------
LineInit == line = <<>> /\ result = Ok(<<>>)
Type(b) ==
  /\ Len(line) < MaxLine
  /\ line' = Append(line, b)
  /\ result' = Commands(line')
LineNext == \E b \in Alphabet : Type(b)

-----------------------------------------------------------------------------
(* The reference: the state in front of each byte, once for the line.      *)
Before(l) ==
  FoldLeft(LAMBDA states, b :
      LET s == Last(states)
      IN  Append(states,
            CASE s \in {"escape", "escape in quotes"} -> IF s = "escape" THEN "plain" ELSE Double
              [] s = "plain" /\ b \in {Single, Double} -> b
              [] s # Single /\ b = Escape /\ s \notin {"escape", "escape in quotes"} ->
                   IF s = "plain" THEN "escape" ELSE "escape in quotes"
              [] s \in {Single, Double} /\ b = s -> "plain"
              [] OTHER -> s),
    <<"plain">>, l)

(* Bytes that only steer the parser, and plain bytes that separate.        *)
Steers(states, l, i) == states[i + 1] # states[i] /\ states[i] \notin {"escape", "escape in quotes"}
Plain(states, l, i, b) == states[i] = "plain" /\ l[i] = b
Cuts(states, l) ==
  LET first(i) == states[i] = "plain" /\ OperatorAt(l, i) # <<>>
      pairs == FoldLeft(LAMBDA taken, i :
                 IF first(i) /\ i \notin UNION {j..(j + Len(OperatorAt(l, j)) - 1) : j \in taken}
                 THEN taken \cup {i} ELSE taken, {}, [i \in 1..Len(l) |-> i])
  IN  pairs
WordOf(states, l, from, to) ==
  LET kept == {i \in from..to : ~Steers(states, l, i)}
  IN  [n \in 1..Cardinality(kept) |->
         l[CHOOSE i \in kept : Cardinality({j \in kept : j < i}) = n - 1]]
WordStarts(states, l, from, to) ==
  {i \in from..to : ~Plain(states, l, i, " ") /\ (i > from => Plain(states, l, i - 1, " "))}
WordEnd(states, l, from, to) ==
  Max({j \in from..to : \A i \in from..j : ~Plain(states, l, i, " ")})
WordsBetween(states, l, from, to) ==
  LET starts == SetToSortSeq(WordStarts(states, l, from, to), <)
  IN  [n \in DOMAIN starts |->
         WordOf(states, l, starts[n], WordEnd(states, l, starts[n], to))]
EndsInEscapedSpace(states, l, from, to) ==
  \E i \in from..to : /\ states[i] = "escape" /\ l[i] = " "
                      /\ \A j \in (i + 1)..to : Plain(states, l, j, " ")
Meaning(l) ==
  LET states == Before(l)
      cuts == SetToSortSeq(Cuts(states, l), <)
      from(n) == IF n = 1 THEN 1 ELSE cuts[n - 1] + Len(OperatorAt(l, cuts[n - 1]))
      to(n) == IF n > Len(cuts) THEN Len(l) ELSE cuts[n] - 1
  IN  [n \in 1..(Len(cuts) + 1) |->
         [words |-> WordsBetween(states, l, from(n), to(n)),
          op |-> IF n = 1 THEN <<>> ELSE OperatorAt(l, cuts[n - 1]),
          spaced |-> EndsInEscapedSpace(states, l, from(n), to(n))]]
EmptyLine(m) == Len(m) = 1 /\ m[1].words = <<>>
WellFormed(l, m) ==
  Last(Before(l)) = "plain" /\ (EmptyLine(m) \/ \A n \in DOMAIN m : m[n].words # <<>>)

(* What may become of one command.  A command that ends in an escaped      *)
(* space is trimmed without regard to the escape, and the backslash left   *)
(* at its end is refused.                                                  *)
Fits(m) == Len(m.words) <= MaxArgs /\ Len(FlattenSeq(m.words)) <= LineCapacity
Verdicts(m) ==
  (IF m.spaced THEN {Err("TrailingBackslash")} ELSE {})
    \cup (IF Fits(m) THEN {} ELSE {Err("ResourceUnavailable")})
    \cup (IF Fits(m) /\ ~m.spaced THEN {Ok(m.words)} ELSE {})

(* The two loops of the parser agree with each other and with the          *)
(* reference.  execute_line starts the commands of exactly those lines     *)
(* that are well formed and have no more segments than the table holds,    *)
(* and of any other line none.  The commands and operators are the ones    *)
(* outside quotes and escapes.  Each command is judged on its own, when    *)
(* its turn comes and earlier ones have run: it gets exactly the words     *)
(* that are meant, or is refused because they do not fit or because it     *)
(* ends in an escaped space, and is never run with its words cut short.    *)
ParsedAsMeant ==
  LET m == Meaning(line)
      good == WellFormed(line, m)
  IN  /\ result.ok <=> good /\ Len(m) <= MaxSegments
      /\ (good /\ ~result.ok) => result.error = "ResourceUnavailable"
      /\ result.ok =>
           IF EmptyLine(m) THEN result.value = <<>>
           ELSE /\ DOMAIN result.value = DOMAIN m
                /\ \A n \in DOMAIN m : /\ result.value[n].op = m[n].op
                                       /\ result.value[n].words \in Verdicts(m[n])
=============================================================================
