\* The boot processor commands an application processor whose tasks may fault.
SPECIFICATION Spec
CONSTANTS
  Controllers <- BSP
  MaxPosts = 4
INVARIANT TypeOK
INVARIANT AckMatches
INVARIANT StoppedBeforeFreed
INVARIANT ReservationVisible
 
\* A core that was shut down or has halted, and a machine that reboots, stop.
CHECK_DEADLOCK FALSE
