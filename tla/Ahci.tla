-------------------------------- MODULE Ahci --------------------------------
(***************************************************************************)
(* The AHCI driver (storage/ahci.rs) and the controller it polls: the port *)
(* is stopped, given the kernel's structures and started, and then one     *)
(* command slot, one command table and one DMA page serve every sector     *)
(* read.  The driver gives a command up after 1,000,000 polls; the         *)
(* controller knows nothing of that and may carry it out later.            *)
(*                                                                         *)
(* The controller is external: it takes a command from the table and turns *)
(* busy in one step, writes the DMA page, then clears the busy and the     *)
(* issue bit in one step, or reports a task-file error and halts with the  *)
(* issue bit still set.                                                    *)
(***************************************************************************)
EXTENDS Integers

CONSTANTS
  Lbas,        \* sectors that are read
  MaxSpins     \* bound: polls before the driver gives up, 1_000_000

ASSUME AhciAssumption == MaxSpins \in Nat /\ Lbas \subseteq Nat

None == -1

VARIABLES
  at,          \* where the driver is
  spins,       \* polls of the current loop
  lba,         \* sector asked for
  table,       \* sector named in the command table
  dma,         \* sector whose data the DMA page holds
  delivered,   \* what the last read_sector returned, and with which data
  st, cr,      \* PORT_CMD start bit, and engine running
  bases,       \* whose command list the port registers point to
  ci, busy, tfes,  \* PORT_CI bit 0, PORT_TFD busy bit, PORT_IS task-file error
  halted,      \* controller stopped after an error
  fetched,     \* sector of the command the controller carries out
  early        \* a command was given up before the controller had taken it
driver == <<at, spins, lba, table, delivered, early>>
port == <<st, cr, bases, ci, busy, tfes, halted>>
portVars == <<driver, port, dma, fetched>>

PortInit ==
  /\ at = "off" /\ spins = 0 /\ lba = None /\ table = None /\ dma = None
  /\ delivered = [ok |-> FALSE, data |-> None] /\ early = FALSE
  /\ st \in BOOLEAN /\ cr = st /\ bases = "firmware"
  /\ ci = FALSE /\ busy = FALSE /\ tfes = FALSE /\ halted = FALSE /\ fetched = None

(* Another component at work.                                              *)
PortRests ==
  /\ at = "rest" /\ spins = 0 /\ lba = None /\ table = None /\ dma = None
  /\ delivered = [ok |-> FALSE, data |-> None] /\ early = FALSE
  /\ st = FALSE /\ cr = FALSE /\ bases = "firmware"
  /\ ci = FALSE /\ busy = FALSE /\ tfes = FALSE /\ halted = FALSE /\ fetched = None

-----------------------------------------------------------------------------
(* initialize_port.                                                        *)
StopPort ==
  /\ at = "off"
  /\ at' = "stopping" /\ st' = FALSE
  /\ UNCHANGED <<spins, lba, table, delivered, early, cr, bases, ci, busy, tfes, halted, dma, fetched>>
PollStoppedAnyway ==
  /\ at = "stopping"
  /\ at' = "program" /\ UNCHANGED <<spins, lba, table, delivered, early, port, dma, fetched>>
PollStopped ==
  /\ at = "stopping"
  /\ at' = IF ~cr THEN "program" ELSE IF spins + 1 > MaxSpins THEN "dead" ELSE at
  /\ spins' = IF cr THEN spins + 1 ELSE 0
  /\ UNCHANGED <<lba, table, delivered, early, port, dma, fetched>>
ProgramPort ==
  /\ at = "program"
  /\ at' = "start" /\ bases' = "kernel" /\ tfes' = FALSE
  /\ UNCHANGED <<spins, lba, table, delivered, early, st, cr, ci, busy, halted, dma, fetched>>
StartPort ==
  /\ at = "start"
  /\ at' = "idle" /\ st' = TRUE
  /\ UNCHANGED <<spins, lba, table, delivered, early, cr, bases, ci, busy, tfes, halted, dma, fetched>>

-----------------------------------------------------------------------------
(* read_sector.                                                            *)
BeginSector(sector) ==
  /\ at = "idle"
  /\ at' = "ready" /\ lba' = sector /\ spins' = 0
  /\ UNCHANGED <<table, delivered, early, port, dma, fetched>>
Fails == at' = "idle" /\ delivered' = [ok |-> FALSE, data |-> None]
PollReadyAnyway ==
  /\ at = "ready"
  /\ at' = "prepare" /\ spins' = 0 /\ UNCHANGED <<lba, table, delivered, early, port, dma, fetched>>
PollReady ==
  /\ at = "ready"
  /\ \/ ~busy /\ at' = "prepare" /\ spins' = 0 /\ UNCHANGED delivered
     \/ busy /\ spins < MaxSpins /\ spins' = spins + 1 /\ UNCHANGED <<at, delivered>>
     \/ busy /\ spins >= MaxSpins /\ Fails /\ UNCHANGED spins
  /\ UNCHANGED <<lba, table, early, port, dma, fetched>>
Prepare ==
  /\ at = "prepare"
  /\ at' = "issue" /\ tfes' = FALSE /\ table' = lba
  /\ UNCHANGED <<spins, lba, delivered, early, st, cr, bases, ci, busy, halted, dma, fetched>>
Issue ==
  /\ at = "issue"
  /\ at' = "status" /\ ci' = TRUE
  /\ UNCHANGED <<spins, lba, table, delivered, early, st, cr, bases, busy, tfes, halted, dma, fetched>>
PollStatus ==
  /\ at = "status"
  /\ \/ tfes /\ Fails
     \/ ~tfes /\ at' = "completion" /\ UNCHANGED delivered
  /\ UNCHANGED <<spins, lba, table, early, port, dma, fetched>>
PollIssue ==
  /\ at = "completion"
  /\ \/ ~ci /\ at' = "copy" /\ UNCHANGED <<spins, delivered, early>>
     \/ ci /\ spins < MaxSpins /\ at' = "status" /\ spins' = spins + 1 /\ UNCHANGED <<delivered, early>>
     \/ ci /\ spins >= MaxSpins /\ Fails /\ early' = (early \/ fetched = None) /\ UNCHANGED spins
  /\ UNCHANGED <<lba, table, port, dma, fetched>>
CopyOut ==
  /\ at = "copy"
  /\ at' = "idle" /\ delivered' = [ok |-> TRUE, data |-> dma]
  /\ UNCHANGED <<spins, lba, table, early, port, dma, fetched>>

-----------------------------------------------------------------------------
(* The controller.                                                         *)
EngineFollows ==
  /\ cr # st /\ cr' = st
  /\ UNCHANGED <<driver, st, bases, ci, busy, tfes, halted, dma, fetched>>
Fetch ==
  /\ cr /\ ci /\ ~halted /\ fetched = None
  /\ fetched' = table /\ busy' = TRUE
  /\ UNCHANGED <<driver, st, cr, bases, ci, tfes, halted, dma>>
Transfer ==
  /\ fetched # None /\ dma # fetched
  /\ dma' = fetched
  /\ UNCHANGED <<driver, port, fetched>>
Complete ==
  /\ fetched # None /\ dma = fetched
  /\ fetched' = None /\ busy' = FALSE /\ ci' = FALSE
  /\ UNCHANGED <<driver, st, cr, bases, tfes, halted, dma>>
TaskFileError ==
  /\ fetched # None
  /\ fetched' = None /\ busy' = FALSE /\ tfes' = TRUE /\ halted' = TRUE
  /\ UNCHANGED <<driver, st, cr, bases, ci, dma>>

PortNext ==
  \/ StopPort
  \/ PollStopped
  \/ ProgramPort
  \/ StartPort
  \/ \E sector \in Lbas : BeginSector(sector)
  \/ PollReady
  \/ Prepare
  \/ Issue
  \/ PollStatus
  \/ PollIssue
  \/ CopyOut
  \/ EngineFollows
  \/ Fetch
  \/ Transfer
  \/ Complete
  \/ TaskFileError

-----------------------------------------------------------------------------
(* A read that succeeds delivers the sector it was asked for, although the *)
(* DMA page and the table are shared by all reads and commands that were   *)
(* given up finish later.  What saves it is that a command in progress     *)
(* keeps the port busy; a command given up before the controller took it   *)
(* is not busy, and the statement leaves that case out.                    *)
RightSector == ~early /\ at = "idle" /\ delivered.ok => delivered.data = lba

OneListStep ==
  /\ bases' # bases => ~cr /\ ~cr'
  /\ cr' /\ ~cr => bases' = "kernel"
(* The port's list and FIS addresses change only while its engine is not   *)
(* running, and once stopped the engine starts only on the kernel's list:  *)
(* firmware may have left it running, and it follows the start bit late.   *)
EngineSeesOneList == [][OneListStep]_portVars
=============================================================================
