------------------------------- MODULE Volume -------------------------------
(***************************************************************************)
(* The system's disk over many runs of the kernel: the crash flag that the *)
(* boot loader sets and an orderly halt clears, the mount, the kernel log  *)
(* and the shell commands that reach the disk (aos.c, io.c 30-230, and     *)
(* bootloader_uefi.c 575-592, 930-936). PBFS is external: each call of it  *)
(* may fail, and it adds no file that exists already.                      *)
(***************************************************************************)
EXTENDS Integers, Sequences, SequencesExt, FiniteSets

CONSTANTS MaxMessages,    \* bound: messages ever logged
          MaxFormats,     \* bound: formats of the disk
          PreCap          \* messages the log holds before a disk is mounted

VARIABLES at,             \* "loader", "start", "shell", "halted"
          works, mounted, \* current_drive_works, current_drive_mounted
          mount,          \* g_pbfs_mnt: the file system it was made for, or Inactive
          fs,             \* the file system on the disk: how often it was formatted
          log,            \* klog, klog_present
          said,           \* messages so far
          file,           \* klog.log, or NoFile
          kept,           \* what klog.log has held since the format
          kflag, ended,   \* the flag on the disk; how the last run ended, if it did
          panic,          \* current_mode at the loader
          stale           \* who wrote through the mount of a file system that is gone

volumeVars ==
  <<at, works, mounted, mount, fs, log, said, file, kept, kflag, ended, panic, stale>>

Inactive == -1
NoFile == <<-1>>
Garbage == 0
Empty == [buf |-> "pre", text |-> <<>>, present |-> FALSE]

Init ==
  /\ at = "loader" /\ works = FALSE /\ mounted = FALSE /\ mount = Inactive
  /\ fs = 0 /\ log = Empty /\ said = 0 /\ file = NoFile /\ kept = {}
  /\ kflag = FALSE /\ ended = "orderly" /\ panic = FALSE /\ stale = {}

-----------------------------------------------------------------------------
(* The boot loader, with crash_verification_mode 2. *)

\* Mutant of FlagAtStart: the kernel is started with the flag it was found with.
FlagKept == kflag

FlagAtStart == TRUE

\* The write of the flag is not looked at; a disk that refuses it is not claimed about.
LoadKernel ==
  /\ at = "loader" /\ at' = "start"
  /\ panic' = kflag /\ kflag' = FlagAtStart
  /\ log' = Empty /\ mounted' = FALSE /\ mount' = Inactive
  /\ works' \in BOOLEAN         \* the search for the drive and the test read
  /\ ended' = "crashed"          \* unless it halts
  /\ UNCHANGED <<fs, said, file, kept, stale>>

-----------------------------------------------------------------------------
(* The kernel log *)

\* klog_printc: a message finds room, after klog_realloc perhaps, or is dropped.
Say ==
  /\ at \in {"start", "shell"} /\ said < MaxMessages
  /\ said' = said + 1
  /\ \/ /\ log.buf # "none"
        /\ log.buf = "pre" => Len(log.text) < PreCap
        /\ log' = [log EXCEPT !.text = Append(@, said + 1)]
     \/ (log.buf = "pre" => Len(log.text) >= PreCap) /\ UNCHANGED log
  /\ UNCHANGED <<at, works, mounted, mount, fs, file, kept, kflag, ended, panic, stale>>

\* Mutant of PresentIf: a log file is taken for read as soon as it has a size.
PresentBySize(read) == file # NoFile

PresentIf(read) == read

\* serial_init_klog: what was said so far goes before the file's contents; a file that
\* could not be read leaves a hole of its size. Without memory there is no log.
InitKlog ==
  {[buf |-> "none", text |-> log.text, present |-> log.present]}
  \cup {[buf |-> "heap", present |-> PresentIf(read),
         text |-> log.text \o
           (CASE file = NoFile -> <<>>
              [] read -> file
              [] OTHER -> [i \in 1..Len(file) |-> Garbage])]
        : read \in IF file = NoFile THEN {FALSE} ELSE BOOLEAN}

\* serial_flush_klog: the file is updated if it was read at the start, and added if not.
Flushed(l) ==
  IF l.buf = "none" \/ l.text = <<>> THEN {file}
  ELSE {file} \cup (IF l.present = (file # NoFile) THEN {l.text} ELSE {})

SaidIn(f) == IF f = NoFile THEN {} ELSE ToSet(f) \ {Garbage}

\* What a flush through the mount does; through a stale one the file is not claimed.
FlushThrough(l, who) ==
  IF mount = fs
  THEN /\ file' \in Flushed(l) /\ kept' = kept \cup SaidIn(file')
       /\ UNCHANGED stale
  ELSE /\ stale' = IF Flushed(l) = {file} THEN stale ELSE stale \cup {who}
       /\ UNCHANGED <<file, kept>>

\* kernel_main: without a mount the log stays in memory; rooting may fail afterwards.
Mount ==
  /\ at = "start" /\ at' = "shell"
  /\ \/ UNCHANGED <<mounted, mount, log, file, kept>>       \* no drive, or no file system
     \/ /\ works /\ mount' = fs
        /\ log' \in InitKlog
        /\ file' \in Flushed(log') /\ kept' = kept \cup SaidIn(file')
        /\ mounted' \in BOOLEAN
  /\ UNCHANGED <<works, fs, said, kflag, ended, panic, stale>>

-----------------------------------------------------------------------------
(* The shell *)

\* Mutant of AfterFormat: the formatted disk counts as mounted still.
StillMounted == mounted

AfterFormat == FALSE

\* pbfsctl-fmt
Format ==
  /\ at = "shell" /\ works /\ fs < MaxFormats
  /\ fs' = fs + 1 /\ file' = NoFile /\ kept' = {}
  /\ mounted' = AfterFormat /\ kflag' \in BOOLEAN
  /\ ended' = "unknown"
  /\ UNCHANGED <<at, works, mount, log, said, panic, stale>>

\* pbfsctl-mnt; the log is not begun again.
Remount ==
  /\ at = "shell" /\ works
  /\ \/ mount' = fs /\ mounted' = TRUE
     \/ mounted' = FALSE /\ UNCHANGED mount
  /\ UNCHANGED <<at, works, fs, log, said, file, kept, kflag, ended, panic, stale>>

\* mkdir
MakeDir ==
  /\ at = "shell" /\ works /\ mounted
  /\ stale' = IF mount = fs THEN stale ELSE stale \cup {"command"}
  /\ UNCHANGED <<at, works, mounted, mount, fs, log, said, file, kept, kflag, ended, panic>>

FlushKlog ==
  /\ at = "shell" /\ works /\ mounted /\ mount # Inactive
  /\ FlushThrough(log, "command")
  /\ UNCHANGED <<at, works, mounted, mount, fs, log, said, kflag, ended, panic>>

\* aos_pre_halt_system, before a shutdown, a reboot and the reboot of a panic: the log goes
\* to the mount although it is not mounted any more, the flag only to one that is.
Halt ==
  /\ at \in {"start", "shell"} /\ at' = "halted"
  /\ kflag' \in IF works /\ mounted THEN {FALSE, kflag} ELSE {kflag}
  /\ ended' = "orderly"
  /\ IF mount # Inactive
     THEN FlushThrough(log, "halt") /\ log' = [Empty EXCEPT !.buf = "none", !.present = TRUE]
     ELSE UNCHANGED <<file, kept, stale, log>>
  /\ UNCHANGED <<works, mounted, mount, fs, said, panic>>

\* The machine is switched off, or starts again.
Crash ==
  /\ at # "loader" /\ at' = "loader"
  /\ UNCHANGED <<works, mounted, mount, fs, log, said, file, kept, kflag, ended, panic, stale>>

Next ==
  LoadKernel \/ Say \/ Mount \/ Format \/ Remount \/ MakeDir \/ FlushKlog \/ Halt \/ Crash
-----------------------------------------------------------------------------
(***************************************************************************)
(* What klog.log has held it keeps until the disk is formatted, over any   *)
(* number of runs, failed reads and short memory; and no command writes    *)
(* through the mount of a file system that a format has replaced. (The halt*)
(* does: see the README.)                                                  *)
(***************************************************************************)
LogKept == kept \subseteq SaidIn(file)
StaleUnused == "command" \notin stale
DiskKept == LogKept /\ StaleUnused

(***************************************************************************)
(* A run that was cut off is noticed: the loader finds the flag set.       *)
(***************************************************************************)
CrashNoticed == at = "loader" /\ ended = "crashed" => kflag

\* Both: what was saved is there after any crash, and the crash is known.
DiskRight == DiskKept /\ CrashNoticed
=============================================================================
