----------------------------- MODULE MC_Devices -----------------------------
(***************************************************************************)
(* The device drivers, each in small: a behaviour is about one of them,    *)
(* `driver', and the others stay as they begin.                            *)
(***************************************************************************)
EXTENDS NvmeQueue

CONSTANTS Drives, Callers, Requests, Frames,
          Step, MaxNvme, MaxNamespaces,           \* NvmeController
          PortSlots, Ports, MaxSata,              \* SataPort, SataController
          Trbs, MaxCommands, MaxPortEvents,       \* Xhci
          QueueSize, CmdBuffers,                  \* Virtqueue
          MaxContexts,                            \* Pyrion
          Digit, MaxCalls,                        \* Ata
          Cap,                                    \* CommandStream
          NarrowTurn, WideTurn, MaxDelay,         \* Acpi
          ClockDigit, LastYear                    \* Clock

VARIABLE driver
VARIABLES cTable, cCap, cIdx, cMem, cAt, cNn
VARIABLES sPc, sReq, sSlot, sLock, sSt, sCr, sCi, sError, sTable, sWork, sLive, sResult,
          sExecuted
VARIABLES aTable, aCap, aIdx, aMem, aOn, aStuck, aPort
VARIABLES xAt, xMem, xGiven, xRunning, xHalting, xCmdRing, xCmdIndex, xCmdCycle, xEvRing,
          xEvIndex, xEvCycle, xSent, xAnswer, xDIndex, xDCycle, xEIndex,
          xECycle, xErdp, xPorts
VARIABLES qPc, qReq, qSlot, qChain, qWatched, qBusy, qBuf, qFree, qNext, qMore, qAddr,
          qOwner, qAvail, qUsed, qLast, qFetched, qDevice, qResult, qExecuted,
          qMixed
VARIABLES gOp, gAt, gKnown, gValid, gActive, gMem, gStatus, gQueue, gAgain
VARIABLES pAccelerated, pCtx, pNxt, pLive, pContexts, pRes, pFont, pLate
VARIABLES vVirgl, vPicture, vStream, vNeeded, vDropped, vLate, vScissor, vTarget, vScreen
VARIABLES dLock, dPc, dReq, dI, dData, dResult, dRegs, dDev, dCache, dLate, dCalls
VARIABLES fMap, fBios, fAt, fI, fRsdp, fTables, fMadt, fIds, fFadt, fEcam, fNow, fBegun,
          fLast, fElapsed, fNeeded
VARIABLES tTime, tUip, tBinary, tAt, tClear, tBegun, tLow, tSec, tStamp, tDate, tDays

Controller == INSTANCE NvmeController WITH
  Devices <- Drives, MaxControllers <- MaxNvme,
  table <- cTable, cap <- cCap, idx <- cIdx, mem <- cMem, at <- cAt, nn <- cNn
controllerAll ==
  <<cTable, cCap, cIdx, cMem, cAt, cNn>>

Sata == INSTANCE SataPort WITH
  Slots <- PortSlots, pc <- sPc, req <- sReq, slot <- sSlot, lock <- sLock, st <- sSt,
  cr <- sCr, ci <- sCi, error <- sError, table <- sTable, work <- sWork, live <- sLive,
  result <- sResult, executed <- sExecuted
sataAll ==
  <<sPc, sReq, sSlot, sLock, sSt, sCr, sCi, sError, sTable, sWork, sLive, sResult,
    sExecuted>>

Ahci == INSTANCE SataController WITH
  Modules <- Drives, MaxControllers <- MaxSata, table <- aTable,
  cap <- aCap, idx <- aIdx, mem <- aMem, on <- aOn, stuck <- aStuck, port <- aPort
ahciAll ==
  <<aTable, aCap, aIdx, aMem, aOn, aStuck, aPort>>

Usb == INSTANCE Xhci WITH
  at <- xAt, mem <- xMem,
  given <- xGiven, running <- xRunning, halting <- xHalting, cmdRing <- xCmdRing,
  cmdIndex <- xCmdIndex, cmdCycle <- xCmdCycle, evRing <- xEvRing, evIndex <- xEvIndex,
  evCycle <- xEvCycle, sent <- xSent, answer <- xAnswer, dIndex <- xDIndex,
  dCycle <- xDCycle, eIndex <- xEIndex, eCycle <- xECycle, erdp <- xErdp,
  ports <- xPorts
usbAll ==
  <<xAt, xMem, xGiven, xRunning, xHalting, xCmdRing, xCmdIndex, xCmdCycle, xEvRing,
    xEvIndex, xEvCycle, xSent, xAnswer, xDIndex, xDCycle, xEIndex, xECycle, xErdp,
    xPorts>>

Ring == INSTANCE Virtqueue WITH
  Buffers <- CmdBuffers, pc <- qPc, req <- qReq, slot <- qSlot, chain <- qChain,
  watched <- qWatched, busy <- qBusy, buf <- qBuf, free <- qFree, next <- qNext,
  more <- qMore, addr <- qAddr, owner <- qOwner, avail <- qAvail, used <- qUsed,
  last <- qLast, fetched <- qFetched, device <- qDevice, result <- qResult,
  executed <- qExecuted, mixed <- qMixed
ringAll ==
  <<qPc, qReq, qSlot, qChain, qWatched, qBusy, qBuf, qFree, qNext, qMore, qAddr, qOwner,
    qAvail, qUsed, qLast, qFetched, qDevice, qResult, qExecuted, qMixed>>

Gpu == INSTANCE VirtioDevice WITH
  op <- gOp, at <- gAt, known <- gKnown, valid <- gValid, active <- gActive,
  mem <- gMem, status <- gStatus, queue <- gQueue, again <- gAgain
gpuAll ==
  <<gOp, gAt, gKnown, gValid, gActive, gMem, gStatus, gQueue, gAgain>>

Contexts == INSTANCE Pyrion WITH
  accelerated <- pAccelerated, ctx <- pCtx, nxt <- pNxt,
  live <- pLive, contexts <- pContexts, res <- pRes, font <- pFont, late <- pLate
contextsAll ==
  <<pAccelerated, pCtx, pNxt, pLive, pContexts, pRes, pFont, pLate>>

Stream == INSTANCE CommandStream WITH
  Colours <- Frames, virgl <- vVirgl, picture <- vPicture, stream <- vStream,
  needed <- vNeeded, dropped <- vDropped, late <- vLate, scissor <- vScissor,
  target <- vTarget, screen <- vScreen
streamAll ==
  <<vVirgl, vPicture, vStream, vNeeded, vDropped, vLate, vScissor, vTarget, vScreen>>

Disk == INSTANCE Ata WITH
  Clients <- Callers, lock <- dLock, pc <- dPc, req <- dReq,
  i <- dI, data <- dData, result <- dResult, regs <- dRegs, dev <- dDev,
  cache <- dCache, late <- dLate, calls <- dCalls
diskAll ==
  <<dLock, dPc, dReq, dI, dData, dResult, dRegs, dDev, dCache, dLate, dCalls>>

Firmware == INSTANCE Acpi WITH
  Low <- NarrowTurn, High <- WideTurn, map <- fMap, bios <- fBios, at <- fAt, i <- fI,
  rsdp <- fRsdp, tables <- fTables, madt <- fMadt, ids <- fIds, fadt <- fFadt,
  ecam <- fEcam, now <- fNow, begun <- fBegun, last <- fLast, elapsed <- fElapsed,
  needed <- fNeeded
firmwareAll ==
  <<fMap, fBios, fAt, fI, fRsdp, fTables, fMadt, fIds, fFadt, fEcam, fNow, fBegun,
    fLast, fElapsed, fNeeded>>

Time == INSTANCE Clock WITH
  Digit <- ClockDigit, time <- tTime, uip <- tUip, binary <- tBinary,
  at <- tAt, clear <- tClear, begun <- tBegun, low <- tLow, sec <- tSec,
  stamp <- tStamp, date <- tDate, days <- tDays
timeAll ==
  <<tTime, tUip, tBinary, tAt, tClear, tBegun, tLow, tSec, tStamp, tDate, tDays>>

Drivers ==
  {"nvme", "nvme start", "sata", "sata start", "xhci", "virtqueue", "virtio",
   "pyrion", "stream", "ata", "acpi", "clock"}

Init ==
  /\ driver \in Drivers
  /\ NvmeInit
  /\ Controller!Init /\ Sata!Init /\ Ahci!Init /\ Usb!Init
  /\ Ring!Init /\ Gpu!Init /\ Contexts!Init /\ Stream!Init
  /\ Disk!Init /\ Firmware!Init /\ Time!Init
  /\ driver # "acpi" => fMap = <<>> /\ fBios = "other"
  /\ driver # "clock" => tTime = 0 /\ tUip /\ tBinary
  /\ driver # "nvme" => ring = "io"
  /\ driver # "xhci" => ~xRunning
  /\ driver # "virtio" => gStatus = "reset"
  /\ driver # "pyrion" => pAccelerated
  /\ driver # "stream" => vVirgl /\ vPicture["dot"] = CHOOSE f \in Frames : TRUE

OthersKeep(d) ==
  /\ d # "nvme" => UNCHANGED nvmeVars
  /\ d # "nvme start" => UNCHANGED controllerAll
  /\ d # "sata" => UNCHANGED sataAll
  /\ d # "sata start" => UNCHANGED ahciAll
  /\ d # "xhci" => UNCHANGED usbAll
  /\ d # "virtqueue" => UNCHANGED ringAll
  /\ d # "virtio" => UNCHANGED gpuAll
  /\ d # "pyrion" => UNCHANGED contextsAll
  /\ d # "stream" => UNCHANGED streamAll
  /\ d # "ata" => UNCHANGED diskAll
  /\ d # "acpi" => UNCHANGED firmwareAll
  /\ d # "clock" => UNCHANGED timeAll
  /\ UNCHANGED driver

Next ==
  \/ driver = "nvme" /\ NvmeNext /\ OthersKeep("nvme")
  \/ driver = "nvme start" /\ Controller!Next /\ OthersKeep("nvme start")
  \/ driver = "sata" /\ Sata!Next /\ OthersKeep("sata")
  \/ driver = "sata start" /\ Ahci!Next /\ OthersKeep("sata start")
  \/ driver = "xhci" /\ Usb!Next /\ OthersKeep("xhci")
  \/ driver = "virtqueue" /\ Ring!Next /\ OthersKeep("virtqueue")
  \/ driver = "virtio" /\ Gpu!Next /\ OthersKeep("virtio")
  \/ driver = "pyrion" /\ Contexts!Next /\ OthersKeep("pyrion")
  \/ driver = "stream" /\ Stream!Next /\ OthersKeep("stream")
  \/ driver = "ata" /\ Disk!Next /\ OthersKeep("ata")
  \/ driver = "acpi" /\ Firmware!Next /\ OthersKeep("acpi")
  \/ driver = "clock" /\ Time!Next /\ OthersKeep("clock")

Spec ==
  Init /\ [][Next]_<<driver, nvmeVars, controllerAll, sataAll, ahciAll, usbAll, ringAll,
                      gpuAll, contextsAll, streamAll, diskAll,
                      firmwareAll, timeAll>>

\* The properties of the modules, each looked at where its module is at work. Several that say
\* the same of different devices are one here.

\* What the driver hands over is what the device sees.
NothingUnseen ==
  /\ driver = "nvme" => NothingOverlooked
  /\ driver = "xhci" => Usb!SentIsVisible

\* A controller in the table has all its structures, and a failed one has left none behind.
StructuresWhole ==
  /\ driver = "nvme start" => Controller!ControllersWhole
  /\ driver = "sata start" => Ahci!PortsWhole

\* While an engine runs, what it reaches is held.
HeldWhileRunning ==
  /\ driver = "sata" => Sata!DmaIntoLive
  /\ driver = "sata start" => Ahci!EngineOverHeld
  /\ driver = "xhci" => Usb!HeldWhileRunning

\* sata_exec reports success only for what the disk has executed.
SuccessMeansExecuted == driver = "sata" => Sata!SuccessMeansExecuted

\* A PIO transfer that succeeds is the one asked for (io.c).
AtaTrue == driver = "ata" => Disk!AtaTrue

\* An answer is about the command it is taken for.
AnswerIsOwn ==
  /\ driver = "xhci" => Usb!AnswerIsOwn
  /\ driver = "virtqueue" => Ring!AnsweredAlone

\* A descriptor of the virtqueue is free or in one chain.
DescriptorsOwned == driver = "virtqueue" => Ring!DescriptorsOwned

\* What can be drawn on is mapped, attached and held.
UsableMeansHeld ==
  /\ driver = "virtio" => Gpu!UsableMeansMapped
  /\ driver = "pyrion" => Contexts!BackingHeld

\* Two live contexts have different resource numbers (virtio.c 1188).
ResourceIdsDiffer == Contexts!ResourceIdsDiffer

\* After a flush the screen shows the last picture drawn (virtio.c 1600-1668).
ShownMeansDrawn == driver = "stream" => Stream!ShownMeansDrawn

\* The tables found are the firmware's, and a delay lasts as long as asked (acpi.c).
TablesTrue == driver = "acpi" => Firmware!TablesTrue

\* The time stamp of ktimer_calibrate is the time there was (kfuncs.c).
ClockRight == driver = "clock" => Time!ClockRight
=============================================================================
