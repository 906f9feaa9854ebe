----------------------------- MODULE MCShell -----------------------------
(***************************************************************************)
(* Disks for Lash.  Arguments for Startup: short lists of short arguments, *)
(* empty and with a NUL too, one more than a program may have; and calls   *)
(* with buffers at and across every edge of the user's address space.      *)
(***************************************************************************)
EXTENDS Shell

(* What a command's name stands for in the directories: at most one of     *)
(* them has a file that is no program.                                     *)
SomeDisks ==
  {d \in [Dirs -> {"absent", "program", "junk", "misnamed"}] :
     \E x \in Dirs : d[x] \in {"absent", "program"}}

Program == <<47, 98>>
SomeExecutables == {Program}
SomeArguments == BoundedSeq({<<>>, <<97>>, <<98, 99>>, <<97, Nul>>}, MaxArgs)

Long == [i \in 1..24 |-> IF i = 24 THEN Nul ELSE 97]
Payloads == BoundedSeq({97, Nul, NoText}, 4) \cup {Long}
Buffer(at, bytes) == [at |-> at, bytes |-> bytes]
Edges == {0, ImageBase - 1, ImageBase, StackBase - 1, StackBase, StackTop - 1, StackTop, AddressLimit - 2}
SomeCalls ==
  {[path |-> Buffer(p, Program), args |-> Buffer(a, t)] :
     p \in Edges, a \in Edges, t \in {<<>>, <<97, Nul>>, <<97, 97, Nul>>}}
  \cup {[path |-> Buffer(ImageBase, Program), args |-> Buffer(StackBase, t)] : t \in Payloads}
  \cup {[path |-> Buffer(ImageBase, <<NoText>>), args |-> Buffer(StackBase, <<>>)]}
=============================================================================
