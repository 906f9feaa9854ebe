CONSTANTS
  Slots = 2
  Buffers = {1, 4}
  Lbas = {1, 2, 3}
  MaxSpins = 2
  PciSlots = 1
  PciFunctions = 2
  Ports = 8
  SectorUnits = 4
  MaxPartitions = 3
  MountMachines <- LaterPort
SPECIFICATION Spec
INVARIANT DiskFound
CHECK_DEADLOCK FALSE
