SPECIFICATION Spec
CONSTANTS
  Cpus = {1, 2}
  Pages = 3
  Sizes = {1, 2}
  LowFrames = 2
  PhysFrames = 3
  PerPage = 3
  MaxTables = 1
  BootPages = 6
  BootSpace = 64
  MaxDescs = 4
  Privileged = 1
  FileBytes = {0, 1}
  ZeroByte = 0
  Chunk = 2
  Functions = 3
  TableStep = 2
  MaxMessages = 3
  MaxFormats = 1
  PreCap = 2
  EarlyTables = 2
  LateTables = 1
  Targets = {10}
  Page = 2
  FileSize = 3
  TopAddress = 10
  Addrs = {0, 1, 2, 3}
  SegmentSizes = {1, 2}
  FileSizes = {0, 1, 2}
  Offsets = {0, 1}
  Aligns = {2}
  MaxHeaders = 2
  EntryPoints = {0, 3}
  Occupied = {0}
  ListedKernels = 3
  ViewRows = 3
  EditKernels = 4
  Colours = 2
  Addresses = 2
  MaxEdits = 1
 
INVARIANT WritesKept
 
INVARIANT DiskRight
 
 
INVARIANT LoaderTrue
 
 
INVARIANT MessagesWhole
CHECK_DEADLOCK FALSE
