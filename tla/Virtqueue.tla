----------------------------- MODULE Virtqueue -----------------------------
(***************************************************************************)
(* The one virtqueue of the VirtIO GPU driver (virtio.c): command slots,   *)
(* descriptor chains taken from a free list, the two rings, and the wait.  *)
(* The device completes in any order or never.  No core is reserved for    *)
(* asynchronous commands (virtio_setup_cmd_core gives up), so that         *)
(* virtio_submit_async waits like virtio_submit_sync.                      *)
(***************************************************************************)
EXTENDS Integers, Sequences, FiniteSets

CONSTANTS Callers, Requests, None,
          QueueSize,              \* descriptors
          Buffers                 \* MAX_CMD_RESP_BUFS

VARIABLES pc, req, slot, chain,   \* per caller: place, command, its buffer, head sent
          watched,                \* per caller: the buffer its wait will free
          busy, buf,              \* buf_busy; the command in each buffer
          free, next, more, addr, \* free_head; per descriptor: next, F_NEXT, buffer
          owner,                  \* desc_to_buf
          avail, used, last,      \* the two rings so far; last_used_idx
          fetched, device,        \* ring entries seen by the device; in its hands
          result, executed,       \* per command: what was returned; done by the device
          mixed                   \* commands that were not alone in the driver

ringVars == <<free, next, more, addr, owner, avail, last>>
virtqueueVars == <<pc, req, slot, chain, watched, busy, buf, ringVars, used, fetched, device,
                   result, executed, mixed>>

Descs == 1 .. QueueSize
End == 0                          \* 0xFFFF

\* virtio_setup_queues: every descriptor in the free list, in order.
Init ==
  /\ pc = [p \in Callers |-> "out"] /\ req = [p \in Callers |-> None]
  /\ slot = [p \in Callers |-> 0] /\ chain = slot /\ watched = slot
  /\ busy = {} /\ buf = [b \in 1 .. Buffers |-> None]
  /\ free = 1 /\ next = [d \in Descs |-> IF d = QueueSize THEN End ELSE d + 1]
  /\ more = {} /\ addr = [d \in Descs |-> 0] /\ owner = [d \in Descs |-> 0]
  /\ avail = <<>> /\ used = <<>> /\ last = 0 /\ fetched = 0 /\ device = {}
  /\ result = [r \in Requests |-> "new"] /\ executed = {} /\ mixed = {}

Goto(p, l) == pc' = [pc EXCEPT ![p] = l]

\* The descriptor n - 1 places behind the first free one; commands need three at most.
After(d) == IF d = End THEN End ELSE next[d]
Nth(n) == IF n = 1 THEN free ELSE IF n = 2 THEN After(free) ELSE After(After(free))

\* What is reached from d along next, going on from the descriptors in `through': the least
\* set with d that next does not leave.
Reached(d, through) ==
  {e \in Descs : \A S \in SUBSET Descs :
     /\ d \in S \cup {End}
     /\ \A x \in S \cap through : next[x] \in S \cup {End}
     => e \in S}

\* A chain as the device and the driver walk it, its last descriptor, and the free list.
Walk(h) == Reached(h, more)
TailOf(h) == CHOOSE d \in Walk(h) : d \notin more
FreeList == Reached(free, Descs)

Pending == {avail[i] : i \in fetched + 1 .. Len(avail)} \cup {e[1] : e \in device}
             \cup {used[i] : i \in last + 1 .. Len(used)}

-----------------------------------------------------------------------------
(* wait_for_free_buf, and the command written into the buffer. *)
Company(p) == {req[q] : q \in {x \in Callers \ {p} : pc[x] # "out"}}
                \cup {buf[addr[h]] : h \in Pending}

Claim(p, r) ==
  /\ pc[p] = "out" /\ result[r] = "new" /\ \A q \in Callers : req[q] # r
  /\ \E b \in 1 .. Buffers \ busy :
       /\ \A c \in 1 .. b - 1 : c \in busy
       /\ busy' = busy \cup {b} /\ buf' = [buf EXCEPT ![b] = r]
       /\ slot' = [slot EXCEPT ![p] = b]
  /\ req' = [req EXCEPT ![p] = r] /\ Goto(p, "send")
  /\ mixed' = IF Company(p) = {} THEN mixed ELSE mixed \cup Company(p) \cup {r}
  /\ UNCHANGED <<chain, watched, ringVars, used, fetched, device, result, executed>>

\* virtio_send_ex with n descriptors, under virtq_lock.  Too few are free: those
\* taken are not given back, and neither is the buffer.
Chain(n) == [i \in 1 .. n |-> Nth(i)]

SendEx(p, n) ==
  /\ pc[p] = "send"
  /\ LET ds == Chain(n) IN
       /\ ds[n] # End
       /\ free' = next[ds[n]]
       /\ next' = [next EXCEPT ![ds[n]] = End]
       /\ more' = (more \cup {ds[i] : i \in 1 .. n - 1}) \ {ds[n]}
       /\ addr' = [addr EXCEPT ![ds[1]] = slot[p]]
       /\ avail' = Append(avail, ds[1])
       /\ chain' = [chain EXCEPT ![p] = ds[1]]
  /\ Goto(p, "sent")
  /\ UNCHANGED <<req, slot, watched, busy, buf, owner, used, last, fetched, device, result,
                 executed, mixed>>

Leaves(p, answer) ==
  /\ result' = [result EXCEPT ![req[p]] = answer]
  /\ req' = [req EXCEPT ![p] = None] /\ Goto(p, "out")

\* The chain is not published, its descriptors are overwritten one by one.
SendFails(p, n) ==
  /\ pc[p] = "send" /\ Nth(n) = End
  /\ free' = End
  /\ LET got == {Nth(i) : i \in 1 .. n} \ {End} IN
       more' = more \cup got
  /\ Leaves(p, "failed")
  /\ UNCHANGED <<slot, chain, watched, busy, buf, next, addr, owner, avail, used, last,
                 fetched, device, executed, mixed>>

\* desc_to_buf, the doorbell, and the start of the wait: the buffer it watches is
\* that of the newest entry in the ring, or anything if its sender has not yet
\* written it into the array, which is not cleared.
Notify(p) ==
  /\ pc[p] = "sent"
  /\ owner' = [owner EXCEPT ![chain[p]] = slot[p]]
  /\ LET newest == owner'[avail[Len(avail)]] IN
       \E b \in IF newest = 0 THEN 0 .. Buffers ELSE {newest} :
         /\ watched' = [watched EXCEPT ![p] = b]
         /\ busy' = (busy \cup {b}) \ {0}
  /\ Goto(p, "wait")
  /\ UNCHANGED <<req, slot, chain, buf, free, next, more, addr, avail, used, last, fetched,
                 device, result, executed, mixed>>

\* More than 10 s: the buffer stays busy for good, the chain in the ring.
TimeOut(p) ==
  /\ pc[p] = "wait" /\ Len(used) = last
  /\ Leaves(p, "failed")
  /\ UNCHANGED <<slot, chain, watched, busy, buf, ringVars, used, fetched, device, executed,
                 mixed>>

\* Mutant of NewUsed: any used entry, also one collected before, ends the wait.
AnyUsed == Len(used) >= last
NewUsed == Len(used) # last

SeesUsed(p) ==
  /\ pc[p] = "wait" /\ NewUsed
  /\ Goto(p, "collect")
  /\ UNCHANGED <<req, slot, chain, watched, busy, buf, ringVars, used, fetched, device,
                 result, executed, mixed>>

\* Mutant of Collected: off by one.
CollectsAgain == (IF last = 0 THEN 1 ELSE last) .. Len(used)
Collected == last + 1 .. Len(used)

\* The chains go to the front of the free list one by one. None of them is walked through
\* the last descriptor of another, so that only the order of the writes matters.
InFront(i) == IF i - 1 \in Collected THEN used[i - 1] ELSE free
Freed ==
  [d \in Descs |->
     LET ends == {i \in Collected : TailOf(used[i]) = d} IN
       IF ends = {} THEN next[d]
       ELSE InFront(CHOOSE i \in ends : \A j \in ends : j <= i)]

\* Under virtq_lock every used chain goes back to the front of the free list,
\* whoever sent it; the call succeeds also if another has collected them all.
WaitComplete(p) ==
  /\ pc[p] = "collect"
  /\ next' = Freed
  /\ free' = IF Collected = {} THEN free ELSE used[Len(used)]
  /\ last' = Len(used)
  /\ busy' = busy \ {watched[p]}
  /\ Leaves(p, "done")
  /\ UNCHANGED <<slot, chain, watched, buf, more, addr, owner, avail, used, fetched, device,
                 executed, mixed>>

-----------------------------------------------------------------------------
(* The device reads a chain, and later answers it. *)

Fetch ==
  /\ fetched < Len(avail)
  /\ LET h == avail[fetched + 1] IN device' = device \cup {<<h, buf[addr[h]]>>}
  /\ fetched' = fetched + 1
  /\ UNCHANGED <<pc, req, slot, chain, watched, busy, buf, ringVars, used, result, executed,
                 mixed>>

Complete ==
  /\ \E e \in device :
       /\ device' = device \ {e}
       /\ executed' = executed \cup {e[2]}
       /\ used' = Append(used, e[1])
  /\ UNCHANGED <<pc, req, slot, chain, watched, busy, buf, ringVars, fetched, result, mixed>>

Next ==
  \/ \E p \in Callers :
       \/ \E r \in Requests : Claim(p, r)
       \/ \E n \in {2, 3} : SendEx(p, n) \/ SendFails(p, n)
       \/ Notify(p) \/ TimeOut(p) \/ SeesUsed(p) \/ WaitComplete(p)
  \/ Fetch \/ Complete

-----------------------------------------------------------------------------
(***************************************************************************)
(* A descriptor is in the free list once (it follows one other at most,    *)
(* and the first follows none), or in one chain that the device has or     *)
(* that is not collected yet, or lost; never in two of these, with two     *)
(* callers, time-outs and chains that could not be completed.              *)
(***************************************************************************)
DescriptorsOwned ==
  /\ \A d, e \in FreeList : next[d] = next[e] /\ next[d] # End => d = e
  /\ \A d \in FreeList : next[d] # free
  /\ \A h \in Pending : Walk(h) \cap FreeList = {}
  /\ \A h, k \in Pending : h # k => Walk(h) \cap Walk(k) = {}

(***************************************************************************)
(* A command that was alone in the driver, with none pending from before,  *)
(* succeeds only when it was carried out, and its buffer is busy until     *)
(* then.  (One that follows a time-out, or has company, may be answered by *)
(* the other's completion.)                                                *)
(***************************************************************************)
AnsweredAlone ==
  /\ \A r \in Requests \ mixed : result[r] = "done" => r \in executed
  /\ \A p \in Callers : pc[p] # "out" /\ req[p] \notin mixed =>
       slot[p] \in busy /\ buf[slot[p]] = req[p]
=============================================================================
