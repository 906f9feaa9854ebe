------------------------------- MODULE Memory -------------------------------
(***************************************************************************)
(* Memory from the firmware on: the loader's handoff, the allocator of     *)
(* physical pages, and the address spaces built from its pages.  Each has  *)
(* its own scale and knows of the others only what it is handed, so each   *)
(* is taken through its states while the others rest.                      *)
(***************************************************************************)
EXTENDS UefiBoot, PhysAllocator, AddressSpaces

vars == <<bootVars, allocatorVars, spaceVars>>

Init ==
  \/ BootInit /\ AllocatorInit /\ SpacesRest
  \/ BootRests /\ AllocatorInit /\ SpacesInit
  \/ BootRests /\ AllocatorInit /\ SpacesRest
Boot == BootNext /\ UNCHANGED <<allocatorVars, spaceVars>>
Allocator == BootRests /\ SpacesRest /\ AllocatorNext /\ UNCHANGED <<bootVars, spaceVars>>
Spaces == SpacesNext /\ UNCHANGED <<bootVars, allocatorVars>>
Next == Boot \/ Allocator \/ Spaces
Spec == Init /\ [][Next]_vars
=============================================================================
