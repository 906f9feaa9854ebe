------------------------------ MODULE PagePool ------------------------------
(***************************************************************************)
(* What the kernel expects of its physical allocator: a set of free pages. *)
(* A request for n consecutive pages is answered with the lowest run of n  *)
(* free pages, and is refused only if there is none; a block goes back     *)
(* whole.                                                                  *)
(***************************************************************************)
EXTENDS Integers, FiniteSetsExt

CONSTANTS
  Numbers,    \* page numbers
  Requests    \* numbers of consecutive pages asked for

VARIABLES
  free,       \* free pages
  held,       \* blocks handed out
  answer      \* the answer to the last request

pool == <<free, held, answer>>

Exhausted == [start |-> 0, count |-> 0]
PagesOf(block) == block.start..(block.start + block.count - 1)
Runs(n) == {s \in Numbers : s..(s + n - 1) \subseteq free}

Init == free = {} /\ held = {} /\ answer = Exhausted

(* Boot: memory is donated, then the kernel image is taken out.            *)
Donate(S) == free' = free \cup S /\ UNCHANGED <<held, answer>>
Withhold(S) == free' = free \ S /\ UNCHANGED <<held, answer>>

Grant(n) ==
  LET block == [start |-> Min(Runs(n)), count |-> n]
  IN  /\ Runs(n) # {}
      /\ answer' = block
      /\ held' = held \cup {block}
      /\ free' = free \ PagesOf(block)
Refuse(n) == Runs(n) = {} /\ answer' = Exhausted /\ UNCHANGED <<free, held>>

Return(block) ==
  /\ block \in held
  /\ held' = held \ {block}
  /\ free' = free \cup PagesOf(block)
  /\ UNCHANGED answer

Next ==
  \/ \E S \in SUBSET Numbers : Donate(S) \/ Withhold(S)
  \/ \E n \in Requests : Grant(n) \/ Refuse(n)
  \/ \E block \in held : Return(block)

Spec == Init /\ [][pool' # pool /\ Next]_pool
=============================================================================
