-------------------------------- MODULE Ring --------------------------------
(***************************************************************************)
(* The kernel's fixed ring buffers: ByteQueue of terminal.rs and           *)
(* EventQueue of keyboard.rs.  A push into a full ring is refused and      *)
(* changes nothing.                                                        *)
(***************************************************************************)
EXTENDS Integers, Sequences

NewRing(capacity, filler) ==
  [slots |-> [i \in 0..(capacity - 1) |-> filler], capacity |-> capacity,
   read |-> 0, write |-> 0, len |-> 0]

IsFull(q) == q.len >= q.capacity
IsEmpty(q) == q.len = 0

Push(q, x) ==
  IF IsFull(q) THEN q
  ELSE [q EXCEPT !.slots[q.write] = x, !.write = (@ + 1) % q.capacity, !.len = @ + 1]

Oldest(q) == q.slots[q.read]
Pop(q) == [q EXCEPT !.read = (@ + 1) % q.capacity, !.len = @ - 1]

(* The queued elements, oldest first.                                      *)
Contents(q) == [i \in 1..q.len |-> q.slots[(q.read + i - 1) % q.capacity]]
=============================================================================
