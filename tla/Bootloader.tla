----------------------------- MODULE Bootloader -----------------------------
(***************************************************************************)
(* The parts of the boot loader next to each other: the memory map it      *)
(* makes, the ELF file it loads, its menu and its settings. Each has its   *)
(* variables here; MC_Services says when each of them is at work.          *)
(***************************************************************************)
CONSTANTS BootPages, BootSpace, MaxDescs, Privileged,    \* BootMap
          Page, FileSize, TopAddress, Addrs, SegmentSizes, FileSizes, Offsets, Aligns, MaxHeaders,
          EntryPoints, Occupied,                         \* ElfLoader
          ListedKernels, ViewRows,                       \* BootMenu
          EditKernels, Colours, Addresses, MaxEdits      \* Settings

VARIABLES bDescs, bCore, bM, bOff, bMmap, bLast, bAt, bRegions
VARIABLES mAt, mConfig, mKernels, mMode, mSelected, mOld, mScroll, mRedraw, mSettings,
          mPopup, mScreen, mChosen
VARIABLES eBase, eBackup, eDisk, ePlace, eAt, eTab, eRow, eKernel, eChanges, eBefore,
          eReset, eEdits, eScreen
VARIABLES lImage, lAt, lI, lLow, lHigh, lEntryOk, lTaken, lOwn, lMem, lResult

Map == INSTANCE BootMap WITH
  Pages <- BootPages, Space <- BootSpace, descs <- bDescs, core <- bCore, m <- bM,
  off <- bOff, mmap <- bMmap, last <- bLast, at <- bAt, regions <- bRegions
mapAll ==
  <<bDescs, bCore, bM, bOff, bMmap, bLast, bAt, bRegions>>

Menu == INSTANCE BootMenu WITH
  MaxKernels <- ListedKernels, Rows <- ViewRows, at <- mAt, config <- mConfig, kernels <- mKernels,
  mode <- mMode, selected <- mSelected, old <- mOld, scroll <- mScroll,
  redraw <- mRedraw, settings <- mSettings, popup <- mPopup, screen <- mScreen,
  chosen <- mChosen
menuAll ==
  <<mAt, mConfig, mKernels, mMode, mSelected, mOld, mScroll, mRedraw, mSettings, mPopup,
    mScreen, mChosen>>

Editor == INSTANCE Settings WITH
  MaxKernels <- EditKernels, base <- eBase,
  backup <- eBackup, disk <- eDisk, place <- ePlace, at <- eAt, tab <- eTab,
  row <- eRow, kernel <- eKernel, changes <- eChanges, before <- eBefore,
  reset <- eReset, edits <- eEdits, screen <- eScreen
editorAll ==
  <<eBase, eBackup, eDisk, ePlace, eAt, eTab, eRow, eKernel, eChanges, eBefore, eReset,
    eEdits, eScreen>>

Loader == INSTANCE ElfLoader WITH
  Top <- TopAddress, Sizes <- SegmentSizes, image <- lImage, at <- lAt, i <- lI, low <- lLow,
  high <- lHigh, entryOk <- lEntryOk, taken <- lTaken, own <- lOwn, mem <- lMem,
  result <- lResult
loaderAll ==
  <<lImage, lAt, lI, lLow, lHigh, lEntryOk, lTaken, lOwn, lMem, lResult>>
=============================================================================
