------------------------------ MODULE Storage ------------------------------
(***************************************************************************)
(* The storage stack: the AHCI port, the mount and the file system.  They  *)
(* meet only in sectors read and in a device that fails, so each is taken  *)
(* through its states while the others rest.                               *)
(***************************************************************************)
EXTENDS Ahci, Mount, Fat32

vars == <<portVars, mountVars, fileVars>>

Init ==
  \/ PortInit /\ MountRests /\ FilesRest
  \/ PortRests /\ MountInit /\ FilesRest
  \/ PortRests /\ MountRests /\ FileInit
Next ==
  \/ PortNext /\ UNCHANGED <<mountVars, fileVars>>
  \/ MountNext /\ UNCHANGED <<portVars, fileVars>>
  \/ FileNext /\ UNCHANGED <<portVars, mountVars>>
Spec == Init /\ [][Next]_vars
=============================================================================
