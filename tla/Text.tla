-------------------------------- MODULE Text --------------------------------
(***************************************************************************)
(* Text at its stations: keystrokes on their way to a program, bytes on    *)
(* their way to the screen, a line given to the shell's parser and a path  *)
(* to the resolver, each against its reference.  They share no state, so   *)
(* each is taken through its states while the others rest.  TextSession    *)
(* has the terminal's parts at work together.                              *)
(***************************************************************************)
EXTENDS TerminalInput, Console, LashParser, Paths

vars == <<inputVars, consoleVars, lineVars, pathVars>>

Keyboard ==
  ConsoleInit /\ LineInit /\ PathInit /\ InputNext /\ UNCHANGED <<consoleVars, lineVars, pathVars>>
Display ==
  InputInit /\ LineInit /\ PathInit /\ ConsoleNext /\ UNCHANGED <<inputVars, lineVars, pathVars>>
TypeLine ==
  InputInit /\ ConsoleInit /\ PathInit /\ LineNext /\ UNCHANGED <<inputVars, consoleVars, pathVars>>
ChangeDirectory ==
  InputInit /\ ConsoleInit /\ LineInit /\ PathNext /\ UNCHANGED <<inputVars, consoleVars, lineVars>>

Init == InputInit /\ ConsoleInit /\ LineInit /\ PathInit
Next == Keyboard \/ Display \/ TypeLine \/ ChangeDirectory
Spec == Init /\ [][Next]_vars
=============================================================================
