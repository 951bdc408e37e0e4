----------------------------- MODULE FileHandle -----------------------------
(***************************************************************************)
(* An open file (fs.c): a cache of at most one chunk, filled from PBFS when*)
(* it is wanted and written back by the flush.  Several callers share the  *)
(* handle; file_lock and handle_lock make each call one step, but fs_close *)
(* takes file_lock three times and the others come in between.             *)
(***************************************************************************)
EXTENDS Integers, Sequences, SequencesExt

CONSTANTS Bytes, Zero, Chunk         \* AOS_FS_CHUNK_SIZE

VARIABLES kind,              \* a plain file or a system file
          disk,              \* what PBFS keeps
          want,              \* the contents with every write that returned TRUE
          state,             \* "none", "open", "closing", "flushed"
          h,                 \* aos_dmm_handler
          seek,              \* cur_seek
          failed             \* the last update PBFS was asked for failed

fileVars == <<kind, disk, want, state, h, seek, failed>>

NoHandle == [have |-> FALSE, cache |-> <<>>, refresh |-> TRUE, pending |-> FALSE]

Contents == SeqOf(Bytes, Chunk)

Init ==
  /\ kind \in {"plain", "zero"}
  /\ disk \in IF kind = "plain" THEN Contents ELSE {[i \in 1..Chunk |-> Zero]}
  /\ want = disk /\ state = "none" /\ h = NoHandle /\ seek = 0 /\ failed = FALSE

-----------------------------------------------------------------------------
(* Filling the cache, with the size the caller asks for. *)

Prefix(s, n) == SubSeq(s, 1, IF n < Len(s) THEN n ELSE Len(s))

\* fs_pbfs_sysfile_accessed: a system file is served for reading, never for writing.
Served(usage) == kind = "plain" \/ usage = "read"

\* The handles that may come of it, and whether the call goes on.
Refreshed(n) ==
  IF h.have /\ ~h.refresh
  THEN {[h |-> h, ok |-> TRUE]}
  ELSE {[h |-> [h EXCEPT !.have = TRUE, !.cache = Prefix(disk, n), !.refresh = FALSE],
         ok |-> Served("read")],
        [h |-> [h EXCEPT !.have = TRUE, !.cache = <<>>], ok |-> FALSE]}    \* PBFS fails
       \cup (IF h.have THEN {} ELSE {[h |-> h, ok |-> FALSE]})             \* no memory

Usable == state = "open"             \* not closed

Refuse(r) == h' = r.h /\ UNCHANGED <<kind, disk, want, state, seek, failed>>

InFile(r, n) == r.ok /\ seek <= Len(r.h.cache) /\ n <= Len(r.h.cache) - seek

\* read_file: it fills the cache with no more than it reads itself.
Read(n) ==
  /\ Usable
  /\ \E r \in Refreshed(n) :
       \/ ~InFile(r, n) /\ Refuse(r)
       \/ InFile(r, n) /\ h' = r.h /\ seek' = seek + n
          /\ UNCHANGED <<kind, disk, want, state, failed>>

Over(s, b) == [i \in 1..Len(s) |-> IF i \in seek + 1..seek + Len(b) THEN b[i - seek] ELSE s[i]]

\* Mutant of MayWrite: a closed file is still written to.
WritesAnyway == state # "none"

MayWrite == Usable

\* write_file: within the file, which it never makes longer.
Write(b) ==
  /\ MayWrite
  /\ \E r \in Refreshed(Chunk) :
       \/ ~InFile(r, Len(b)) /\ Refuse(r)
       \/ /\ InFile(r, Len(b))
          /\ h' = [r.h EXCEPT !.cache = Over(r.h.cache, b), !.pending = TRUE]
          /\ want' = Over(want, b) /\ seek' = seek + Len(b)
          /\ UNCHANGED <<kind, disk, state, failed>>

\* Where a seek leads from a file of size n; -1: nowhere.
Target(mode, to, n) ==
  CASE to > n -> -1
    [] mode = "set" -> to
    [] mode = "end" -> n - to
    [] mode = "cur" -> IF seek <= n /\ to > n - seek THEN -1 ELSE seek + to

\* seek_file; beyond a cache that became shorter, "cur" wraps and the sum refuses.
Seek(mode, to) ==
  /\ Usable
  /\ \E r \in Refreshed(Chunk) :
       LET n == Len(r.h.cache)
           t == Target(mode, to, n) IN
       \/ (~r.ok \/ t \notin 0..n) /\ Refuse(r)
       \/ r.ok /\ t \in 0..n /\ seek' = t /\ h' = r.h
          /\ UNCHANGED <<kind, disk, want, state, failed>>

-----------------------------------------------------------------------------
(* flush_file, which a closed file allows; the cache goes once PBFS has it. *)

FlushSteps ==
  \/ ~h.pending /\ UNCHANGED <<disk, h, failed>>
  \/ /\ h.pending /\ Served("write")
     /\ disk' = h.cache /\ h' = NoHandle /\ failed' = FALSE
  \/ h.pending /\ failed' = TRUE /\ UNCHANGED <<disk, h>>

Flush ==
  /\ state # "none" /\ FlushSteps
  /\ UNCHANGED <<kind, want, state, seek>>

\* fs_open: the handle is given out although its cache could not be filled.
Open ==
  /\ state = "none"
  /\ state' = "open" /\ seek' = 0 /\ failed' = FALSE
  /\ h' \in {NoHandle, [NoHandle EXCEPT !.have = TRUE]}
            \cup (IF Served("read")
                  THEN {[NoHandle EXCEPT !.have = TRUE, !.cache = Prefix(disk, Chunk),
                                         !.refresh = FALSE]}
                  ELSE {})
  /\ UNCHANGED <<kind, disk, want>>

CloseMark ==
  /\ state = "open" /\ state' = "closing"
  /\ UNCHANGED <<kind, disk, want, h, seek, failed>>

\* The result of the flush is not looked at.
CloseFlush ==
  /\ state = "closing" /\ state' = "flushed" /\ FlushSteps
  /\ UNCHANGED <<kind, want, seek>>

\* What PBFS refused to take is gone with the handle.
CloseFree ==
  /\ state = "flushed" /\ state' = "none"
  /\ h' = NoHandle
  /\ want' = IF failed THEN disk ELSE want
  /\ UNCHANGED <<kind, disk, seek, failed>>

Next ==
  \/ \E n \in 1..Chunk : Read(n)
  \/ \E b \in Contents \ {<<>>} : Write(b)
  \/ \E mode \in {"cur", "set", "end"}, to \in 0..Chunk : Seek(mode, to)
  \/ Flush \/ Open \/ CloseMark \/ CloseFlush \/ CloseFree

-----------------------------------------------------------------------------
(***************************************************************************)
(* A write that returned TRUE is in the cache until PBFS has it, and after *)
(* that on the disk, whatever is read, sought, flushed and closed around   *)
(* it; the file may lose its end to a shorter reload, never a byte of what *)
(* is left.  The one exception is a close whose update PBFS refused.       *)
(***************************************************************************)
WritesKept ==
  IF h.pending THEN IsPrefix(h.cache, want) ELSE IsPrefix(disk, want)
=============================================================================
