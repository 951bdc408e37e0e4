------------------------------ MODULE NvmeQueue ------------------------------
(***************************************************************************)
(* One queue pair of the NVMe driver (nvme.c): a submission ring the       *)
(* driver fills and a completion ring it polls, and a device that fetches  *)
(* in order, completes in any order or never, and may fail.  The code has  *)
(* every function twice, for the admin and for the I/O queue; `ring' says  *)
(* which pair a behaviour is about.                                        *)
(***************************************************************************)
EXTENDS Integers, FiniteSets

CONSTANTS Commands, None, AdminSize, IoSize

ASSUME SizeAssumption ==
  AdminSize \in Nat \ {0, 1} /\ IoSize \in Nat \ {0, 1} /\ None \notin Commands
\* A zeroed place of a ring holds no entry.
ASSUME NoneAssumption ==
  None \notin [cmd : Commands, cid : Nat] \cup [cmd : Commands, cid : Nat, phase : 0 .. 1]

VARIABLES ring,                       \* "admin" or "io"
          sq, tail, count, next, used,  \* submission ring, its end, entries not
                                        \* completed, next CID to try, CIDs taken
          cq, head, phase,            \* completion ring, next entry, phase of new ones
          cur, curCid, sent,          \* the command being waited for; doorbell rung
          outcome,                    \* what the caller was told of each command
          sqDb, cqDb,                 \* the doorbell registers
          dHead, dTail, dPhase,       \* the device's places in the two rings
          running, executed, fatal    \* fetched entries, work done, CSTS.CFS

driverVars == <<tail, count, next, used, head, phase, cur, curCid, sent, outcome>>
deviceVars == <<dHead, dTail, dPhase, running, executed, fatal>>
nvmeVars == <<ring, sq, cq, sqDb, cqDb, driverVars, deviceVars>>

Size == IF ring = "admin" THEN AdminSize ELSE IoSize
Slots == 0 .. Size - 1
After(i) == IF i + 1 >= Size THEN 0 ELSE i + 1
Entries == [cmd : Commands, cid : Slots]
Completions == [cmd : Commands, cid : Slots, phase : 0 .. 1]

\* Rings zeroed, tail, head and next_cid at 0, phase 1.
NvmeInit ==
  /\ ring \in {"admin", "io"}
  /\ sq = [i \in Slots |-> None] /\ cq = [i \in Slots |-> None]
  /\ tail = 0 /\ count = 0 /\ next = 0 /\ used = {}
  /\ head = 0 /\ phase = 1
  /\ cur = None /\ curCid = 0 /\ sent = FALSE
  /\ outcome = [c \in Commands |-> "new"]
  /\ sqDb = 0 /\ cqDb = 0
  /\ dHead = 0 /\ dTail = 0 /\ dPhase = 1
  /\ running = {} /\ executed = {} /\ fatal = FALSE

-----------------------------------------------------------------------------
(* The driver. *)

\* The search for a CID begins at next_cid and goes once around.
Unused(id) == id \in Slots \ used
Distance(id) == IF id >= next THEN id - next ELSE id + Size - next
\* Mutant of FirstUnused: next_cid is taken to be free.
AnyCid(id) == id = next
FirstUnused(id) == Unused(id) /\ \A j \in Slots : Unused(j) => Distance(id) <= Distance(j)

Send(c) ==
  /\ cur = None /\ outcome[c] = "new" /\ count < Size
  /\ \E id \in Slots :
       /\ FirstUnused(id)
       /\ used' = used \cup {id}
       /\ next' = After(id)
       /\ sq' = [sq EXCEPT ![tail] = [cmd |-> c, cid |-> id]]
       /\ curCid' = id
  /\ tail' = After(tail)
  /\ count' = count + 1
  /\ cur' = c /\ sent' = FALSE
  /\ outcome' = [outcome EXCEPT ![c] = "asked"]
  /\ UNCHANGED <<ring, cq, head, phase, sqDb, cqDb, deviceVars>>

\* No entry or no CID is free: the send returns FALSE.
Refuse(c) ==
  /\ cur = None /\ outcome[c] = "new"
  /\ count >= Size \/ Slots \subseteq used
  /\ outcome' = [outcome EXCEPT ![c] = "failed"]
  /\ UNCHANGED <<ring, sq, cq, tail, count, next, used, head, phase, cur, curCid, sent,
                 sqDb, cqDb, deviceVars>>

\* Mutant of DoorbellValue: the doorbell is rung before the tail has moved.
StaleDoorbell == IF tail = 0 THEN Size - 1 ELSE tail - 1
DoorbellValue == tail

Notify ==
  /\ cur # None /\ ~sent
  /\ sqDb' = DoorbellValue
  /\ sent' = TRUE
  /\ UNCHANGED <<ring, sq, cq, tail, count, next, used, head, phase, cur, curCid, outcome,
                 cqDb, deviceVars>>

NextPhase == IF head + 1 >= Size THEN 1 - phase ELSE phase

\* One entry of the completion ring; cid_bitmap and sq_count are given back for
\* whatever command it names, the call returns TRUE if it is its own.
TakeEntry ==
  LET e == cq[head] IN
  /\ cur # None /\ sent
  /\ e # None /\ e.phase = phase
  /\ head' = After(head) /\ phase' = NextPhase
  /\ count' = IF count > 0 THEN count - 1 ELSE 0
  /\ used' = used \ {e.cid}
  /\ cqDb' = After(head)
  /\ IF e.cid = curCid
       THEN cur' = None /\ outcome' = [outcome EXCEPT ![cur] = "done"]
       ELSE UNCHANGED <<cur, outcome>>
  /\ UNCHANGED <<ring, sq, cq, tail, next, curCid, sent, sqDb, deviceVars>>

\* Mutant of KeepsCid: a command that timed out gives its CID back.
ReturnsCid == used' = used \ {curCid}
\* Controller fatal status, or more than 10000 ms.  The CID stays taken.
KeepsCid == UNCHANGED used

GiveUp ==
  /\ cur # None /\ sent
  /\ cur' = None /\ outcome' = [outcome EXCEPT ![cur] = "failed"]
  /\ KeepsCid
  /\ UNCHANGED <<ring, sq, cq, tail, count, next, head, phase, curCid, sent, sqDb, cqDb,
                 deviceVars>>

AdminSend(c) == ring = "admin" /\ (Send(c) \/ Refuse(c))
AdminNotify == ring = "admin" /\ Notify
AdminPoll == ring = "admin" /\ (TakeEntry \/ GiveUp)
IoSend(c) == ring = "io" /\ (Send(c) \/ Refuse(c))
IoNotify == ring = "io" /\ Notify
IoPoll == ring = "io" /\ (TakeEntry \/ GiveUp)

-----------------------------------------------------------------------------
(* The device. *)

Fetch ==
  /\ ~fatal /\ dHead # sqDb /\ sq[dHead] # None
  /\ running' = running \cup {sq[dHead]}
  /\ dHead' = After(dHead)
  /\ UNCHANGED <<ring, sq, cq, driverVars, sqDb, cqDb, dTail, dPhase, executed, fatal>>

Complete ==
  /\ ~fatal /\ After(dTail) # cqDb
  /\ \E e \in running :
       /\ running' = running \ {e}
       /\ executed' = executed \cup {e.cmd}
       /\ cq' = [cq EXCEPT ![dTail] = [cmd |-> e.cmd, cid |-> e.cid, phase |-> dPhase]]
  /\ dTail' = After(dTail)
  /\ dPhase' = IF dTail + 1 >= Size THEN 1 - dPhase ELSE dPhase
  /\ UNCHANGED <<ring, sq, driverVars, sqDb, cqDb, dHead, fatal>>

Fail ==
  /\ ~fatal /\ fatal' = TRUE
  /\ UNCHANGED <<ring, sq, cq, driverVars, sqDb, cqDb, dHead, dTail, dPhase, running, executed>>

NvmeNext ==
  \/ \E c \in Commands : AdminSend(c) \/ IoSend(c)
  \/ AdminNotify \/ IoNotify
  \/ AdminPoll \/ IoPoll
  \/ Fetch \/ Complete \/ Fail

NvmeSpec == NvmeInit /\ [][NvmeNext]_nvmeVars

-----------------------------------------------------------------------------
NvmeTypeOK ==
  /\ ring \in {"admin", "io"}
  /\ sq \in [Slots -> Entries \cup {None}] /\ cq \in [Slots -> Completions \cup {None}]
  /\ tail \in Slots /\ next \in Slots /\ head \in Slots /\ curCid \in Slots
  /\ count \in 0 .. Size /\ used \in SUBSET Slots /\ phase \in 0 .. 1
  /\ cur \in Commands \cup {None} /\ sent \in BOOLEAN
  /\ outcome \in [Commands -> {"new", "asked", "done", "failed"}]
  /\ sqDb \in Slots /\ cqDb \in Slots /\ dHead \in Slots /\ dTail \in Slots
  /\ dPhase \in 0 .. 1 /\ running \in SUBSET Entries
  /\ executed \in SUBSET Commands /\ fatal \in BOOLEAN

\* Places from i up to, not including, j in a ring; all of them if full.
Between(i, j) == {k \in Slots : IF i <= j THEN i <= k /\ k < j ELSE k >= i \/ k < j}
Unfetched == IF dHead = tail /\ count = Size /\ running = {} /\ Between(head, dTail) = {}
               THEN Slots ELSE Between(dHead, tail)
Unread == IF head = dTail /\ phase # dPhase THEN Slots ELSE Between(head, dTail)

(***************************************************************************)
(* Commands that were sent and whose completion was not read, in the       *)
(* submission ring, in the device or in the completion ring, have CIDs of  *)
(* their own, and these are the ones marked in cid_bitmap, also when some  *)
(* of them timed out long ago; sq_count is their number.                   *)
(***************************************************************************)
OutstandingCids ==
  LET inSq == {sq[i] : i \in Unfetched}
      inCq == {[cmd |-> cq[i].cmd, cid |-> cq[i].cid] : i \in Unread}
      all == inSq \cup running \cup inCq
  IN /\ None \notin inSq
     /\ Cardinality(all) = count /\ {e.cid : e \in all} = used
     /\ Cardinality(used) = count

(***************************************************************************)
(* A command that was announced is visible to the device.  The exception is*)
(* a ring filled to the last entry (sq_count = 64): head and tail are equal*)
(* then and the device sees none of the 64.                                *)
(***************************************************************************)
NothingOverlooked == sent /\ Unfetched # {} /\ count < Size => dHead # sqDb

(***************************************************************************)
(* The caller is answered about its own command, once the device has       *)
(* executed it, whatever completions of commands given up arrive meanwhile.*)
(***************************************************************************)
Service == INSTANCE CommandService WITH Commands <- Commands,
                                       outcome <- outcome, executed <- executed

ImplementsCommandService == Service!Spec
=============================================================================
