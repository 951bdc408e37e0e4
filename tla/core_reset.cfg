\* A task faults on an application processor that nobody commands.
SPECIFICATION Spec
CONSTANTS
  Controllers <- BSP
  MaxPosts = 0
PROPERTY FaultedCoreIsReset
CHECK_DEADLOCK FALSE
