---------------------------- MODULE TextSession ----------------------------
(***************************************************************************)
(* An interactive session: the shell's line editor (lash repl.rs), the     *)
(* commands it runs, the terminal endpoint's queues (terminal.rs), and the *)
(* terminal thread that delivers keys and flushes output to the screen     *)
(* (main.rs).                                                              *)
(*                                                                         *)
(* One CPU: the terminal thread runs only when a program yields.  Starting *)
(* a command and returning from it do not yield, so a command may write    *)
(* more than the output queue holds before the terminal thread empties it. *)
(***************************************************************************)
EXTENDS Ring, Screen

CONSTANTS
  InputCapacity,    \* TERMINAL_INPUT_CAPACITY
  OutputCapacity,   \* TERMINAL_OUTPUT_CAPACITY
  LineCapacity,     \* LINE_CAPACITY of lash
  MaxKeys,          \* bound: keys delivered in one behaviour
  MaxWrites,        \* bound: writes of the commands of one behaviour
  MaxWrite          \* bound: bytes of one write of a command

ASSUME TextSessionAssumption ==
  /\ {InputCapacity, OutputCapacity, LineCapacity} \subseteq Nat \ {0}
  /\ {MaxKeys, MaxWrites, MaxWrite} \subseteq Nat

VARIABLES
  input,      \* TerminalEndpointState.input
  output,     \* TerminalEndpointState.output
  screen,     \* bytes shown on the screen, as a list of lines
  line,       \* Shell.line[..len]
  pc,         \* what runs: "terminal", "read", "execute" (lash), "off"
  user,       \* where the program continues when the terminal yields
  prompted,   \* what the screen shows once the last prompt is flushed
  keys,       \* keys delivered so far
  writes,     \* writes of commands so far
  said        \* history: bytes accepted since the last flush, behind what was shown

vars == <<input, output, screen, line, pc, user, prompted, keys, writes, said>>

Printable == {"a", "b"}
Keys == Printable \cup {"enter", "delete"}

-----------------------------------------------------------------------------
(* Lines are as long as they are written: Console has the wrapping.        *)
Extend(doc, s) == Append(Front(doc), Last(doc) \o s)
ShowByte(doc, b) ==
  CASE b = "newline" -> NewLine(doc)
    [] b = "delete" -> RubOut(doc, 1)
    [] OTHER -> Extend(doc, <<b>>)
Show(doc, bytes) ==
  LET shown[n \in 0..Len(bytes)] == IF n = 0 THEN doc ELSE ShowByte(shown[n - 1], bytes[n])
  IN  shown[Len(bytes)]

(* The screen once the output queue is flushed, and what the bytes that    *)
(* programs were told are written make of it: the history is kept from     *)
(* what write accepts, not from the ring.                                  *)
Flushed == Show(screen, Contents(output))
Due == Show(said.doc, said.queue)
EmptyOutput == [output EXCEPT !.read = output.write, !.len = 0]

(* Process::write stops at the first byte the queue refuses.  print! makes *)
(* one write of each piece of its text and ignores what was refused.       *)
Room(q) == q.capacity - q.len
Accepted(q, bytes) == SubSeq(bytes, 1, Min({Len(bytes), Room(q)}))
PushAll(q, bytes) ==
  LET pushed[n \in 0..Len(bytes)] == IF n = 0 THEN q ELSE Push(pushed[n - 1], bytes[n])
  IN  pushed[Len(bytes)]
Write(bytes) ==
  /\ output' = PushAll(output, Accepted(output, bytes))
  /\ said' = [said EXCEPT !.queue = @ \o Accepted(output, bytes)]
Silent == UNCHANGED <<output, said>>

-----------------------------------------------------------------------------
(* A round of the terminal thread: keys become input bytes, refused by a   *)
(* full queue, and all output is shown.                                    *)
TerminalRound ==
  /\ pc = "terminal"
  /\ \E typed \in {<<>>} \cup {<<k>> : k \in Keys} \cup {<<k, "enter">> : k \in Keys} :
       /\ keys + Len(typed) <= MaxKeys
       /\ keys' = keys + Len(typed)
       /\ input' = PushAll(input, typed)
  /\ screen' = Flushed
  /\ output' = EmptyOutput
  /\ said' = [doc |-> Due, queue |-> <<>>]
  /\ pc' = user
  /\ UNCHANGED <<line, user, prompted, writes>>

Yield(resume) == pc' = "terminal" /\ user' = resume
Take == input' = Pop(input)

(* run_interactive: one byte at a time, and a yield after each.            *)
ReadNothing ==
  /\ pc = "read" /\ IsEmpty(input)
  /\ Yield("read")
  /\ Silent /\ UNCHANGED <<input, screen, line, prompted, keys, writes>>

AppendRetriesWhenFull ==
  /\ pc = "read" /\ ~IsEmpty(input) /\ Oldest(input) \in Printable
  /\ Yield("read")
  /\ IF Len(line) >= LineCapacity THEN Silent /\ UNCHANGED <<input, line>>
     ELSE Take /\ line' = Append(line, Oldest(input)) /\ Write(<<Oldest(input)>>)
  /\ UNCHANGED <<screen, prompted, keys, writes>>
AppendPrintable ==
  /\ pc = "read" /\ ~IsEmpty(input) /\ Oldest(input) \in Printable
  /\ Take /\ Yield("read")
  /\ IF Len(line) >= LineCapacity THEN Silent /\ UNCHANGED line
     ELSE line' = Append(line, Oldest(input)) /\ Write(<<Oldest(input)>>)
  /\ UNCHANGED <<screen, prompted, keys, writes>>

BackspaceAnyway ==
  /\ pc = "read" /\ ~IsEmpty(input) /\ Oldest(input) = "delete"
  /\ Take /\ Yield("read")
  /\ line' = IF line = <<>> THEN line ELSE Front(line)
  /\ Write(<<"delete">>)
  /\ UNCHANGED <<screen, prompted, keys, writes>>
Backspace ==
  /\ pc = "read" /\ ~IsEmpty(input) /\ Oldest(input) = "delete"
  /\ Take /\ Yield("read")
  /\ IF line = <<>> THEN Silent /\ UNCHANGED line
     ELSE line' = Front(line) /\ Write(<<"delete">>)
  /\ UNCHANGED <<screen, prompted, keys, writes>>

SubmitLine ==
  /\ pc = "read" /\ ~IsEmpty(input) /\ Oldest(input) = "enter"
  /\ Take
  /\ Write(<<"newline">>)
  /\ pc' = "execute"
  /\ UNCHANGED <<screen, line, user, prompted, keys, writes>>

-----------------------------------------------------------------------------
(* What execute_line does on the way: writes of lash or of a command, and  *)
(* the yields of a command.                                                *)
CommandWrites ==
  /\ pc = "execute" /\ writes < MaxWrites
  /\ writes' = writes + 1
  /\ \E n \in 1..MaxWrite, last \in {"o", "newline"} :
       Write(Append([i \in 1..(n - 1) |-> "o"], last))
  /\ UNCHANGED <<input, screen, line, pc, user, prompted, keys>>

CommandYields ==
  /\ pc = "execute"
  /\ Yield("execute")
  /\ Silent /\ UNCHANGED <<input, screen, line, prompted, keys, writes>>

(* rust_trap_entry writes its message to the console itself, ahead of the  *)
(* output that is still queued.                                            *)
CommandTraps ==
  /\ pc = "execute" /\ writes < MaxWrites
  /\ writes' = writes + 1
  /\ screen' = Show(screen, <<"t", "newline">>)
  /\ said' = [said EXCEPT !.doc = Show(@, <<"t", "newline">>)]
  /\ UNCHANGED <<input, output, line, pc, user, prompted, keys>>

(* execute_line returns: the prompt is written in two pieces, "{}" and     *)
(* " > ", and the loop of run_interactive yields.                          *)
Pieces == <<<<"/">>, <<">">>>>
PrintPrompt ==
  LET first == PushAll(output, Accepted(output, Pieces[1]))
  IN  /\ output' = PushAll(first, Accepted(first, Pieces[2]))
      /\ said' = [said EXCEPT
           !.queue = @ \o Accepted(output, Pieces[1]) \o Accepted(first, Pieces[2])]
      /\ prompted' = Show(screen, Contents(output'))
LineDone ==
  /\ pc = "execute"
  /\ line' = <<>>
  /\ PrintPrompt
  /\ Yield("read")
  /\ UNCHANGED <<input, screen, keys, writes>>

(* The exit built-in: exit_current_process of the bootstrap process        *)
(* flushes and powers off.                                                 *)
ExitWithoutFlush ==
  /\ pc = "execute" /\ pc' = "off"
  /\ UNCHANGED <<input, output, screen, line, user, prompted, keys, writes, said>>
ExitShell ==
  /\ pc = "execute"
  /\ screen' = Flushed
  /\ output' = EmptyOutput
  /\ pc' = "off"
  /\ UNCHANGED <<input, line, user, prompted, keys, writes, said>>
Off == pc = "off" /\ UNCHANGED vars

-----------------------------------------------------------------------------
(* run_interactive has printed its first prompt.                           *)
Init ==
  /\ input = NewRing(InputCapacity, "none")
  /\ output = NewRing(OutputCapacity, "none")
  /\ screen = <<<<"/", ">">>>> /\ prompted = screen
  /\ line = <<>>
  /\ pc = "terminal" /\ user = "read"
  /\ keys = 0 /\ writes = 0
  /\ said = [doc |-> screen, queue |-> <<>>]

Editor == ReadNothing \/ AppendPrintable \/ Backspace \/ SubmitLine
Command == CommandWrites \/ CommandYields \/ CommandTraps \/ LineDone \/ ExitShell
Next == TerminalRound \/ Editor \/ Command \/ Off
Spec == Init /\ [][Next]_vars

(* lash and the terminal thread never wait; a command ends.                *)
FairSpec ==
  Spec /\ WF_vars(TerminalRound) /\ WF_vars(Editor) /\ SF_vars(LineDone \/ ExitShell)

-----------------------------------------------------------------------------
(* What the user sees behind the prompt is the line that will be executed: *)
(* an echo is never refused by a full queue and never rubs out the prompt, *)
(* however much the command before it wrote and however many keys came at  *)
(* once.                                                                   *)
LineOnScreen == (pc = "read" \/ user = "read") /\ pc # "execute" /\ pc # "off"
                  => Flushed = Extend(prompted, line)

(* When power goes off the screen shows all that programs wrote: every     *)
(* byte that a write accepted, since the last round of the terminal thread *)
(* and before, is shown once and in order, and a trap's message where it   *)
(* was printed (exit_current_process flushes, then shuts down).            *)
AllShownAtShutdown == pc = "off" => screen = Due

Entered == \E i \in 1..input.len : Contents(input)[i] = "enter"
(* The editor gets to every line that was entered, past whatever was       *)
(* typed before it and whatever the commands before it wrote, unless the   *)
(* session ends.                                                           *)
EnteredLineIsRead ==
  Entered ~> \/ pc = "read" /\ Oldest(input) = "enter"
             \/ pc = "off"
=============================================================================
