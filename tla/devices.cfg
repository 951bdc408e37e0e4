SPECIFICATION Spec
CONSTANTS
  Commands = {c1, c2, c3, c4}
  AdminSize = 2
  IoSize = 3
  None = None
  Drives = {d1, d2, d3}
  Callers = {p1, p2}
  Requests = {r1, r2, r3}
  Frames = {f1, f2}
  Step = 2
  MaxNvme = 3
  MaxNamespaces = 2
  PortSlots = 2
  Ports = 2
  MaxSata = 2
  Trbs = 3
  MaxCommands = 6
  MaxPortEvents = 4
  QueueSize = 4
  CmdBuffers = 2
  MaxContexts = 2
  Digit = 2
  MaxCalls = 2
  Cap = 48
  NarrowTurn = 2
  WideTurn = 4
  MaxDelay = 2
  ClockDigit = 3
  LastYear = 2104
INVARIANT OutstandingCids
INVARIANT NothingUnseen
INVARIANT StructuresWhole
 
INVARIANT SuccessMeansExecuted
INVARIANT AtaTrue
INVARIANT AnswerIsOwn
INVARIANT DescriptorsOwned
 
 
INVARIANT TablesTrue
INVARIANT ClockRight
PROPERTY ImplementsCommandService
CHECK_DEADLOCK FALSE
