------------------------------ MODULE Shell ------------------------------
(***************************************************************************)
(* What a command goes through: lash executes a line and searches PATH,    *)
(* the environment is kept and inherited, the arguments are carried to the *)
(* program.  Between them they meet only in what Lash says of spawn_wait   *)
(* and of PATH, so each is taken through its states while the others rest. *)
(***************************************************************************)
EXTENDS Lash, Environment, Startup

vars == <<lashVars, envVars, startupVars>>

(* Where lash rests: no line was typed.                                    *)
LashRests ==
  line = <<>> /\ pc = "segment" /\ last = 0 /\ \A d \in Dirs : disk[d] = "absent"

Execute == EnvInit /\ StartupInit /\ LashNext /\ UNCHANGED <<envVars, startupVars>>
UseEnvironment == LashRests /\ StartupInit /\ EnvNext /\ UNCHANGED <<lashVars, startupVars>>
PassArguments == LashRests /\ EnvInit /\ StartupNext /\ UNCHANGED <<lashVars, envVars>>

Init == LashInit /\ EnvInit /\ StartupInit
Next == Execute \/ UseEnvironment \/ PassArguments
Spec == Init /\ [][Next]_vars
=============================================================================
