------------------------------ MODULE SataPort ------------------------------
(***************************************************************************)
(* Commands on one AHCI port (sata.c 50-130, 328-510, 666-839): the bounce *)
(* buffer, the command slot, the wait and the abort, with an engine that   *)
(* may answer late, fail, or not stop when told to.  By the AHCI rules     *)
(* PxCI is reset when software clears PxCMD.ST; a bit set while ST is clear*)
(* stays set and is not acted on.                                          *)
(***************************************************************************)
EXTENDS Integers, FiniteSets

CONSTANTS Callers, Requests, None, Slots

VARIABLES pc, req, slot,      \* per caller: place, request (a chunk of a transfer), slot
          lock,               \* holder of drive_lock
          st, cr,             \* PxCMD.ST and FRE, and the engine running
          ci, error,          \* PxCI and PxIS.TFES
          table,              \* per slot: the buffer its command table names
          work,               \* <<slot, buffer>> the engine is transferring
          live,               \* allocated bounce buffers, named by their request
          result, executed    \* per request: what was returned; done by the disk

sataVars == <<pc, req, slot, lock, st, cr, ci, error, table, work, live, result, executed>>
device == <<st, cr, ci, error, table, work, executed>>

\* A port that sata_port_init has started.
Init ==
  /\ pc = [p \in Callers |-> "out"] /\ req = [p \in Callers |-> None]
  /\ slot = [p \in Callers |-> 0] /\ lock = None
  /\ st = TRUE /\ cr = TRUE /\ ci = {} /\ error = FALSE
  /\ table = [s \in 0 .. Slots - 1 |-> None] /\ work = {} /\ live = {}
  /\ result = [r \in Requests |-> "new"] /\ executed = {}

-----------------------------------------------------------------------------
(* A caller: sata_read_blk, sata_write_blk, sata_flush, sata_get_info. *)

Goto(p, l) == pc' = [pc EXCEPT ![p] = l]

\* Mutant of LockFree: drive_lock is not taken.
LockIgnored == TRUE
\* drive_lock is held for the whole of the command.
LockFree == lock = None

Enter(p, r) ==
  /\ pc[p] = "out" /\ LockFree /\ result[r] = "new"
  /\ \A q \in Callers : req[q] # r
  /\ lock' = p /\ Goto(p, "busy")
  /\ req' = [req EXCEPT ![p] = r]
  /\ UNCHANGED <<slot, live, result, device>>

Returns(p, answer) ==
  /\ result' = [result EXCEPT ![req[p]] = answer]
  /\ req' = [req EXCEPT ![p] = None]
  /\ lock' = None /\ Goto(p, "out")

\* PxTFD stays busy for a second, no slot is free, or there is no memory.
FreeSlot(s) == s \notin ci /\ \A t \in 0 .. s - 1 : t \in ci

Unable(p) ==
  /\ pc[p] = "busy"
  /\ Returns(p, "failed")
  /\ UNCHANGED <<slot, live, device>>

Issue(p) ==
  /\ pc[p] = "busy"
  /\ \E s \in 0 .. Slots - 1 :
       /\ FreeSlot(s)
       /\ slot' = [slot EXCEPT ![p] = s]
       /\ table' = [table EXCEPT ![s] = req[p]]
       /\ ci' = ci \cup {s}
  /\ live' = live \cup {req[p]}
  /\ error' = FALSE
  /\ Goto(p, "poll")
  /\ UNCHANGED <<req, lock, st, cr, work, result, executed>>

\* The bit in PxCI is clear: the data is copied out and the buffer freed.
Finished(p) ==
  /\ pc[p] = "poll" /\ slot[p] \notin ci
  /\ live' = live \ {req[p]}
  /\ Returns(p, "done")
  /\ UNCHANGED <<slot, device>>

\* A disk error, or more than 1000 ms, which is looked at before PxCI:
\* sata_abort_command clears ST and FRE.
AbortBegin(p) ==
  /\ pc[p] = "poll"
  /\ st' = FALSE
  /\ ci' = IF st THEN {} ELSE ci
  /\ Goto(p, "stop")
  /\ UNCHANGED <<req, slot, lock, cr, error, table, work, live, result, executed>>

\* CR and FR are clear within their second each.
Stopped(p) ==
  /\ pc[p] = "stop" /\ ~cr
  /\ error' = FALSE
  /\ live' = live \ {req[p]}
  /\ Returns(p, "failed")
  /\ UNCHANGED <<slot, st, cr, ci, table, work, executed>>

\* Mutant of StuckKeeps: the buffer is freed although the engine runs.
StuckFrees(p) == live' = live \ {req[p]}
\* They are not clear: the buffer is left to the engine for good.
StuckKeeps(p) == UNCHANGED live

Stuck(p) ==
  /\ pc[p] = "stop" /\ cr
  /\ StuckKeeps(p)
  /\ Returns(p, "failed")
  /\ UNCHANGED <<slot, device>>

-----------------------------------------------------------------------------
(* The engine. *)

Take(s) ==
  /\ st /\ cr /\ ~error /\ s \in ci /\ \A w \in work : w[1] # s
  /\ work' = work \cup {<<s, table[s]>>}
  /\ UNCHANGED <<pc, req, slot, lock, st, cr, ci, error, table, live, result, executed>>

Complete ==
  /\ cr /\ ~error
  /\ \E w \in work :
       /\ work' = work \ {w}
       /\ executed' = executed \cup {w[2]}
       /\ ci' = IF st THEN ci \ {w[1]} ELSE ci
  /\ UNCHANGED <<pc, req, slot, lock, st, cr, error, table, live, result>>

DiskError ==
  /\ cr /\ ~error /\ work # {}
  /\ error' = TRUE
  /\ UNCHANGED <<pc, req, slot, lock, st, cr, ci, table, work, live, result, executed>>

EngineStops ==
  /\ ~st /\ cr
  /\ cr' = FALSE /\ work' = {}
  /\ UNCHANGED <<pc, req, slot, lock, st, ci, error, table, live, result, executed>>

Next ==
  \/ \E p \in Callers :
       \/ \E r \in Requests : Enter(p, r)
       \/ Unable(p) \/ Issue(p) \/ Finished(p)
       \/ AbortBegin(p) \/ Stopped(p) \/ Stuck(p)
  \/ \E s \in 0 .. Slots - 1 : Take(s)
  \/ Complete \/ DiskError \/ EngineStops

-----------------------------------------------------------------------------
(***************************************************************************)
(* The engine transfers to and from bounce buffers that are allocated, also*)
(* after a time-out, and also if it does not stop: neither the buffer it   *)
(* has in hand nor the one the command table was rewritten to is freed.    *)
(***************************************************************************)
DmaIntoLive ==
  \A w \in work : w[2] \in live /\ table[w[1]] \in live

(***************************************************************************)
(* A read or write that reports success was carried out by the disk, and   *)
(* the next caller's wait is not ended by the command of an earlier one.   *)
(***************************************************************************)
SuccessMeansExecuted == \A r \in Requests : result[r] = "done" => r \in executed
=============================================================================
