-------------------------------- MODULE Ata --------------------------------
(***************************************************************************)
(* The ATA driver of last resort (io.c, drive.c): callers on any processor *)
(* share one lock, the registers of the bus, each of which keeps what was  *)
(* written to it before (the high byte of a 48-bit address goes first),    *)
(* and a device that is busy for as long as it likes. A disk block and a   *)
(* sector count are two digits; a sector's content is its address.         *)
(***************************************************************************)
EXTENDS Integers, Sequences

CONSTANTS Clients,
          Digit,          \* values of a byte of an address: 256
          MaxCalls        \* bound: calls made

VARIABLES lock,           \* ata_lock: who holds it
          pc, req, i,     \* per client: where it is, what it asked for, sectors done
          data,           \* per client: the buffer: sectors that were read
          result,         \* per client: what the call returned
          regs,           \* the address registers: [before, now]
          dev,            \* the device: state, command, next sector and how many are left
          cache,          \* sectors the device has been given
          late,           \* history: the device has been busy for a second
          calls           \* counts up to MaxCalls

ataVars == <<lock, pc, req, i, data, result, regs, dev, cache, late, calls>>

\* Bound: the requests made.
Transfers ==
  [op : {"read", "write"}, lba : {1, Digit, Digit + 1}, count : 1..2]
    \cup [op : {"identify"}, lba : {0}, count : {1}]

Nobody == "nobody"
Idle == [state |-> "ready", op |-> "none", lba |-> 0, left |-> 0, failed |-> FALSE]
NoRequest == [op |-> "none", lba |-> 0, count |-> 0]

Init ==
  /\ lock = Nobody
  /\ pc = [c \in Clients |-> "out"]
  /\ req = [c \in Clients |-> NoRequest]
  /\ i = [c \in Clients |-> 0]
  /\ data = [c \in Clients |-> <<>>]
  /\ result = [c \in Clients |-> "none"]
  /\ regs = [before |-> 0, now |-> 0]
  /\ dev = Idle /\ cache = {} /\ late = FALSE /\ calls = 0

Busy == dev.state = "busy"
Drq == dev.state = "drq"

Goto(c, place) == pc' = [pc EXCEPT ![c] = place]

-----------------------------------------------------------------------------
(* A call: ata_read_sectors, ata_write_sectors, ata_identify_device *)

\* Mutant of LockFree: the spin is left out.
LockTaken == lock = Nobody \/ lock # Nobody

LockFree == lock = Nobody

Enter(c) ==
  /\ pc[c] = "out" /\ LockFree /\ calls < MaxCalls
  /\ \E r \in Transfers : req' = [req EXCEPT ![c] = r]
  /\ lock' = c /\ calls' = calls + 1
  /\ i' = [i EXCEPT ![c] = 0] /\ data' = [data EXCEPT ![c] = <<>>]
  /\ result' = [result EXCEPT ![c] = "none"]
  /\ Goto(c, IF req'[c].op = "identify" THEN "high" ELSE "ready")
  /\ UNCHANGED <<regs, dev, cache, late>>

Returns(c, answer) ==
  /\ result' = [result EXCEPT ![c] = answer]
  /\ Goto(c, "out") /\ lock' = Nobody

\* _ata_wait_ready ends after a second as well, and does not say which it was.
WaitReady(c, from, to) ==
  /\ pc[c] = from /\ Goto(c, to)
  /\ late' = (late \/ Busy)
  /\ UNCHANGED <<lock, req, i, data, result, regs, dev, cache, calls>>

Written(value) == regs' = [before |-> regs.now, now |-> value]

\* Each register is written twice, the high byte first.
High(c) ==
  /\ pc[c] = "high" /\ Goto(c, "low")
  /\ Written(req[c].lba \div Digit)
  /\ UNCHANGED <<lock, req, i, data, result, dev, cache, late, calls>>

Low(c) ==
  /\ pc[c] = "low" /\ Goto(c, "issue")
  /\ Written(req[c].lba % Digit)
  /\ UNCHANGED <<lock, req, i, data, result, dev, cache, late, calls>>

\* A device that is busy does not take the command.
Issue(c) ==
  /\ pc[c] = "issue" /\ Goto(c, "sector ready")
  /\ dev' = IF Busy THEN dev
            ELSE [state |-> "busy", op |-> req[c].op, lba |-> regs.before * Digit + regs.now,
                  left |-> req[c].count, failed |-> FALSE]
  /\ UNCHANGED <<lock, req, i, data, result, regs, cache, late, calls>>

CheckError(c) ==
  /\ pc[c] = "status"
  /\ IF dev.failed
     THEN Returns(c, IF req[c].op = "identify" THEN "absent" ELSE "error")
     ELSE Goto(c, "drq") /\ UNCHANGED <<result, lock>>
  /\ UNCHANGED <<req, i, data, regs, dev, cache, late, calls>>

DrqTimeOut(c) ==
  /\ pc[c] = "drq" /\ ~Drq
  /\ Returns(c, "error") /\ late' = TRUE
  /\ UNCHANGED <<req, i, data, regs, dev, cache, calls>>

\* 256 words in or out; the device goes on with the next sector.
Transfer(c) ==
  /\ pc[c] = "drq" /\ Drq
  /\ dev' = [dev EXCEPT !.state = IF dev.left > 1 \/ dev.op = "write" THEN "busy" ELSE "ready",
                        !.lba = @ + 1, !.left = @ - 1]
  /\ data' = [data EXCEPT ![c] = IF req[c].op = "write" THEN @ ELSE Append(@, dev.lba)]
  /\ cache' = IF dev.op = "write" THEN cache \cup {<<dev.lba, req[c].lba + i[c]>>} ELSE cache
  /\ i' = [i EXCEPT ![c] = @ + 1]
  /\ IF i[c] + 1 < req[c].count
     THEN Goto(c, "sector ready") /\ UNCHANGED <<result, lock>>
     ELSE IF req[c].op = "write"
     THEN Goto(c, "flush") /\ UNCHANGED <<result, lock>>
     ELSE Returns(c, "ok")
  /\ UNCHANGED <<req, regs, late, calls>>

\* The flush is waited for, and its outcome is not looked at.
Flush(c) ==
  /\ pc[c] = "flush" /\ Goto(c, "flushed")
  /\ dev' = IF Busy THEN dev ELSE [Idle EXCEPT !.state = "busy", !.op = "flush"]
  /\ UNCHANGED <<lock, req, i, data, result, regs, cache, late, calls>>

Flushed(c) ==
  /\ pc[c] = "flushed"
  /\ late' = (late \/ Busy)
  /\ Returns(c, "ok")
  /\ UNCHANGED <<req, i, data, regs, dev, cache, calls>>

-----------------------------------------------------------------------------
(* The device *)

Ready ==
  /\ Busy
  /\ dev' = [dev EXCEPT !.state = IF dev.left > 0 THEN "drq" ELSE "ready"]
  /\ UNCHANGED <<lock, pc, req, i, data, result, regs, cache, late, calls>>

Fail ==
  /\ Busy
  /\ dev' = [dev EXCEPT !.state = "ready", !.left = 0, !.failed = TRUE]
  /\ UNCHANGED <<lock, pc, req, i, data, result, regs, cache, late, calls>>

Next ==
  \/ \E c \in Clients :
       \/ Enter(c) \/ WaitReady(c, "ready", "high") \/ High(c) \/ Low(c) \/ Issue(c)
       \/ WaitReady(c, "sector ready", "status") \/ CheckError(c) \/ DrqTimeOut(c)
       \/ Transfer(c) \/ Flush(c) \/ Flushed(c)
  \/ Ready \/ Fail

Spec == Init /\ [][Next]_ataVars

-----------------------------------------------------------------------------
(***************************************************************************)
(* A call that succeeds has read the sectors it asked for, in their order, *)
(* or given the device each of its own for the place it belongs to; and    *)
(* whenever nobody is in a call the lock is free. After a device has been  *)
(* late only the lock is promised: its old answer is taken for the next.   *)
(***************************************************************************)
AtaTrue ==
  /\ (lock = Nobody) = \A c \in Clients : pc[c] = "out"
  /\ ~late => \A c \in Clients : result[c] = "ok" =>
       /\ req[c].op = "read" => data[c] = [k \in 1..req[c].count |-> req[c].lba + k - 1]
       /\ req[c].op = "write" =>
            \A k \in 0..req[c].count - 1 : <<req[c].lba + k, req[c].lba + k>> \in cache
  /\ ~late => \A s \in cache : s[1] = s[2]
=============================================================================
