----------------------------- MODULE MC_Services -----------------------------
(***************************************************************************)
(* The kernel's services and the boot loader, each in small: a behaviour   *)
(* is about one of them, `service', and the others stay as they begin.     *)
(***************************************************************************)
EXTENDS Avmf, Bootloader

CONSTANTS FileBytes, ZeroByte, Chunk,              \* FileHandle
          Functions, TableStep,                    \* ModuleRegistry
          MaxMessages, MaxFormats, PreCap,         \* Volume
          EarlyTables, LateTables, Targets         \* Pager

VARIABLE service
VARIABLES hKind, hDisk, hWant, hState, hH, hSeek, hFailed
VARIABLES rBus, rBoot, rPos, rReg, rCap, rLive, rReady, rWorks, rDrive, rAny, rGpu
VARIABLES vAt, vWorks, vMounted, vMount, vFs, vLog, vSaid, vFile, vKept, vKflag, vEnded,
          vPanic, vStale
VARIABLES pMem, pUsed, pReady, pJob, pTold, pBlocked, pBroken
VARIABLES cCall, cAnswer
VARIABLES tMode, tHeld, tCapsOn, tCodes, tLshift, tRshift, tCapslock, tWrong, tLine,
          tCells, tX, tY, tAstray, tKeys
VARIABLES oTodo, oLocks, oOut, oLog, oStarted, oMixed, oMessages
VARIABLES sAt, sOwn, sX, sY, sLine, sShown, sLastCmd, sReload, sBefore
VARIABLES fAt, fChar, fTable, fBlob, fSize, fAtlas, fOut, fFallback, fHeap, fShort

Handle == INSTANCE FileHandle WITH
  Bytes <- FileBytes, Zero <- ZeroByte, kind <- hKind, disk <- hDisk, want <- hWant,
  state <- hState, h <- hH, seek <- hSeek, failed <- hFailed
handleAll ==
  <<hKind, hDisk, hWant, hState, hH, hSeek, hFailed>>

Drivers == INSTANCE ModuleRegistry WITH
  Step <- TableStep, bus <- rBus, boot <- rBoot, pos <- rPos, reg <- rReg,
  cap <- rCap, live <- rLive, ready <- rReady, works <- rWorks, drive <- rDrive,
  any <- rAny, gpu <- rGpu
driversAll ==
  <<rBus, rBoot, rPos, rReg, rCap, rLive, rReady, rWorks, rDrive, rAny, rGpu>>

Disk == INSTANCE Volume WITH
  at <- vAt, works <- vWorks,
  mounted <- vMounted, mount <- vMount, fs <- vFs, log <- vLog, said <- vSaid,
  file <- vFile, kept <- vKept, kflag <- vKflag, ended <- vEnded, panic <- vPanic,
  stale <- vStale
diskAll ==
  <<vAt, vWorks, vMounted, vMount, vFs, vLog, vSaid, vFile, vKept, vKflag, vEnded,
    vPanic, vStale>>

Tables == INSTANCE Pager WITH
  mem <- pMem, used <- pUsed,
  ready <- pReady, job <- pJob, told <- pTold, blocked <- pBlocked, broken <- pBroken
tablesAll ==
  <<pMem, pUsed, pReady, pJob, pTold, pBlocked, pBroken>>

Calls == INSTANCE Library WITH
  Bits <- 4, Word <- 2, MaxLen <- 3, call <- cCall, answer <- cAnswer
callsAll ==
  <<cCall, cAnswer>>

Shell == INSTANCE Terminal WITH
  Cols <- 3, Rows <- 2, MaxLine <- 5, MaxAhead <- 2, MaxKeys <- 5, mode <- tMode,
  held <- tHeld, capsOn <- tCapsOn, codes <- tCodes, lshift <- tLshift,
  rshift <- tRshift, capslock <- tCapslock, wrong <- tWrong, line <- tLine,
  cells <- tCells, x <- tX, y <- tY, astray <- tAstray, keys <- tKeys
shellAll ==
  <<tMode, tHeld, tCapsOn, tCodes, tLshift, tRshift, tCapslock, tWrong, tLine, tCells,
    tX, tY, tAstray, tKeys>>

Output == INSTANCE Console WITH
  Printers <- {"p1", "p2"}, MaxMessages <- 2, todo <- oTodo, locks <- oLocks,
  out <- oOut, log <- oLog, started <- oStarted, mixed <- oMixed, messages <- oMessages
outputAll ==
  <<oTodo, oLocks, oOut, oLog, oStarted, oMixed, oMessages>>

Visible == INSTANCE VisibleShell WITH
  Width <- 4, Height <- 6, MaxLine <- 2, at <- sAt, own <- sOwn, x <- sX, y <- sY,
  line <- sLine, shown <- sShown, lastCmd <- sLastCmd, reload <- sReload,
  before <- sBefore
visibleAll ==
  <<sAt, sOwn, sX, sY, sLine, sShown, sLastCmd, sReload, sBefore>>

Font == INSTANCE FontFile WITH
  Width <- 4, Step <- 3, MaxHeight <- 9, Widths <- {1, 4}, Heights <- {1, 3},
  Formats <- {"a8", "gray4"}, at <- fAt, char <- fChar, table <- fTable, blob <- fBlob,
  size <- fSize, atlas <- fAtlas, out <- fOut, fallback <- fFallback, heap <- fHeap,
  short <- fShort
fontAll ==
  <<fAt, fChar, fTable, fBlob, fSize, fAtlas, fOut, fFallback, fHeap, fShort>>

Services ==
  {"memory", "map", "file", "drivers", "disk", "pager", "menu", "settings",
   "library", "terminal", "console", "vshell", "fonts", "elf"}

Init ==
  /\ service \in Services
  /\ service # "file" => hKind = "plain" /\ hDisk = <<>>
  /\ service # "drivers" => rBoot = 1 /\ rWorks = {}
  /\ service # "menu" => mConfig = [top |-> TRUE, normal |-> 0, safe |-> 0,
                                     panic |-> 0, check |-> 0]
  /\ service # "map" =>
       /\ bDescs = <<Map!Desc(0, 1, "loader"), Map!Desc(1, BootPages - 1, "conventional")>>
       /\ bM = 1
  /\ service # "settings" =>
       eBase = [values |-> Editor!Default, crc |-> Editor!Default, head |-> TRUE]
  /\ service # "elf" => lTaken = {} /\ lImage = Loader!Refused
  /\ service # "terminal" => tMode = "vga"
  /\ AvmfInit
  /\ Map!Init /\ Handle!Init /\ Drivers!Init /\ Disk!Init
  /\ Tables!Init /\ Menu!Init /\ Editor!Init /\ Calls!Init
  /\ Shell!Init /\ Output!Init /\ Visible!Init /\ Font!Init
  /\ Loader!Init

OthersKeep(d) ==
  /\ d # "memory" => UNCHANGED avmfVars
  /\ d # "map" => UNCHANGED mapAll
  /\ d # "file" => UNCHANGED handleAll
  /\ d # "drivers" => UNCHANGED driversAll
  /\ d # "disk" => UNCHANGED diskAll
  /\ d # "pager" => UNCHANGED tablesAll
  /\ d # "menu" => UNCHANGED menuAll
  /\ d # "settings" => UNCHANGED editorAll
  /\ d # "library" => UNCHANGED callsAll
  /\ d # "terminal" => UNCHANGED shellAll
  /\ d # "console" => UNCHANGED outputAll
  /\ d # "vshell" => UNCHANGED visibleAll
  /\ d # "fonts" => UNCHANGED fontAll
  /\ d # "elf" => UNCHANGED loaderAll
  /\ UNCHANGED service

Next ==
  \/ service = "memory" /\ AvmfNext /\ OthersKeep("memory")
  \/ service = "map" /\ Map!Next /\ OthersKeep("map")
  \/ service = "file" /\ Handle!Next /\ OthersKeep("file")
  \/ service = "drivers" /\ Drivers!Next /\ OthersKeep("drivers")
  \/ service = "disk" /\ Disk!Next /\ OthersKeep("disk")
  \/ service = "pager" /\ Tables!Next /\ OthersKeep("pager")
  \/ service = "menu" /\ Menu!Next /\ OthersKeep("menu")
  \/ service = "settings" /\ Editor!Next /\ OthersKeep("settings")
  \/ service = "library" /\ Calls!Next /\ OthersKeep("library")
  \/ service = "terminal" /\ Shell!Next /\ OthersKeep("terminal")
  \/ service = "console" /\ Output!Next /\ OthersKeep("console")
  \/ service = "vshell" /\ Visible!Next /\ OthersKeep("vshell")
  \/ service = "fonts" /\ Font!Next /\ OthersKeep("fonts")
  \/ service = "elf" /\ Loader!Next /\ OthersKeep("elf")

Spec ==
  Init /\ [][Next]_<<service, avmfVars, mapAll, handleAll, driversAll, diskAll, tablesAll,
                      menuAll, editorAll, callsAll, shellAll,
                      outputAll, visibleAll, fontAll, loaderAll>>

\* The properties of the modules, each looked at where its module is at work. Two that are
\* about one part of the loader are one here.

\* What was written to a file handle is read back and reaches the disk (fs.c).
WritesKept == service = "file" => Handle!WritesKept

\* The table of drivers is whole and the boot drive is found (module.c, drive.c).
DriversRight == service = "drivers" => Drivers!DriversRight

\* The log on the disk keeps what was saved, and a crash is noticed (io.c, aos.c).
DiskRight == service = "disk" => Disk!DiskRight

\* Every address translates as was last asked for (pager.c).
TranslationsKept == service = "pager" => Tables!TranslationsKept

\* What the loader hands the kernel: the memory map and the image.
HandedOverWhole ==
  /\ service = "map" => Map!MapFaithful
  /\ service = "elf" => Loader!ImageWhole

\* What the loader shows and keeps: the menu and the settings.
LoaderTrue ==
  /\ service = "menu" => Menu!MenuTrue
  /\ service = "settings" => Editor!SettingsKept

\* Each call of the library returns what its reference definition says (kfuncs.c).
LibraryRight == service = "library" => Calls!LibraryRight

\* What is typed is what can be read, with the kernel's screen and with the GPU's text.
TextShown ==
  /\ service = "terminal" => Shell!EchoShown
  /\ service = "vshell" => Visible!ShellTrue
  /\ service = "fonts" => Font!FontTrue

\* Messages of different processors stay apart (io.c).
MessagesWhole == service = "console" => Output!MessagesWhole
=============================================================================
