SPECIFICATION AvmfSpec
CONSTANTS
  Cpus = {1}
  Pages = 4
  Sizes = {1, 2}
  LowFrames = 2
  PhysFrames = 5
  PerPage = 4
  MaxTables = 1
INVARIANT FreeFinds
CHECK_DEADLOCK FALSE
