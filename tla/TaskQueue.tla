----------------------------- MODULE TaskQueue -----------------------------
(***************************************************************************)
(* The task queue of one application processor of the AOS kernel           *)
(* (Kernel/drivers/core/smp.c): smp_push_task on any core, and on the      *)
(* target core the scheduling loop of ap_kernel_entry, the task it runs    *)
(* and smp_yield.                                                          *)
(*                                                                         *)
(* A step is one critical section of queue_lock or of one thread_lock, or  *)
(* the code between two of them.  queue_lock is never held over two steps, *)
(* so it has no variable; a thread_lock is held by a scanning pusher       *)
(* across several, which tlock records.                                    *)
(***************************************************************************)
EXTENDS Naturals, FiniteSets

CONSTANTS Threads,      \* the struct thread_state objects the heap can supply
          Pushers,      \* processors that call smp_push_task on this core
          Tasks,        \* entry/arg pairs to be run, each pushed at most once
          Nil,          \* the NULL pointer
          Caller        \* what callers check before they push, see MayPush

ASSUME CallerAssumption == Caller \in {"any", "reserved", "drained"}
ASSUME NilAssumption == Nil \notin Threads \cup Pushers \cup Tasks
ASSUME TasksAssumption == Tasks \cap {"live", "yield", "none"} = {}

VARIABLES status,       \* thread->status; "unused" is memory not allocated yet
          next, prev,   \* thread->next, thread->prev
          frame,        \* what thread->rsp points at, see Frames
          tlock,        \* holder of thread->thread_lock between steps
          rq,           \* core->ready_list and ready_list_end
          fq,           \* core->finished_list and finished_list_end
          coreStatus,   \* core->status
          ipi,          \* a wake-up IPI has been sent and not yet taken
          pc, cur, pred, job,   \* smp_push_task: place, cur_t, prev_t, entry
          apc, cand,            \* target core: place, next (or cur in smp_yield)
          pushed, starts        \* history: calls made, entries reached

threadVars == <<status, next, prev, frame, tlock>>
pushVars   == <<pc, cur, pred, job>>
vars == <<threadVars, rq, fq, coreStatus, ipi, pushVars, apc, cand, pushed, starts>>

(***************************************************************************)
(* The saved context of a thread: the frame built for a task, no saved     *)
(* context because the thread is on the processor, the inside of smp_yield,*)
(* or nothing.                                                             *)
(***************************************************************************)
Frames == Tasks \cup {"live", "yield", "none"}

Links == Threads \cup {Nil}
Queue == [head : Links, end : Links]

Free(t) == tlock[t] = Nil

waiting == {k \in pushed : starts[k] = 0}   \* pushed, and not started yet

(***************************************************************************)
(* Appending at the tail, as push and yield both write it: the old tail is *)
(* linked forward, the new element backward, and next of the new element   *)
(* is left as it was.                                                      *)
(***************************************************************************)
LinkTail(q, t) ==
  /\ next' = IF q.end = Nil THEN next ELSE [next EXCEPT ![q.end] = t]
  /\ prev' = [prev EXCEPT ![t] = q.end]

WithTail(q, t) == [head |-> IF q.head = Nil THEN t ELSE q.head, end |-> t]

(***************************************************************************)
(* Taking t out at the ends, as pop and reuse both write it.               *)
(***************************************************************************)
WithoutEnd(q, t) == IF q.end = t THEN prev[t] ELSE q.end
----------------------------------------------------------------------------
Init ==
  /\ status = [t \in Threads |-> "unused"]
  /\ next = [t \in Threads |-> Nil]
  /\ prev = [t \in Threads |-> Nil]
  /\ frame = [t \in Threads |-> "none"]
  /\ tlock = [t \in Threads |-> Nil]
  /\ rq = [head |-> Nil, end |-> Nil]
  /\ fq = [head |-> Nil, end |-> Nil]
  /\ coreStatus = "RUNNING"
  /\ ipi = FALSE
  /\ pc = [p \in Pushers |-> "out"]
  /\ cur = [p \in Pushers |-> Nil]
  /\ pred = [p \in Pushers |-> Nil]
  /\ job = [p \in Pushers |-> Nil]
  /\ apc = "check"
  /\ cand = Nil
  /\ pushed = {}
  /\ starts = [k \in Tasks |-> 0]
----------------------------------------------------------------------------
(***************************************************************************)
(* smp_push_task                                                           *)
(***************************************************************************)

(***************************************************************************)
(* Who pushes when.  "reserved" is virtio_submit_async, which pushes if it *)
(* reads CORE_STATUS_RESERVED from smp_get_core_status; "drained" also     *)
(* waits until its earlier tasks have run; "any" pushes without looking.   *)
(***************************************************************************)
MayPush ==
  CASE Caller = "any"      -> TRUE
    [] Caller = "reserved" -> coreStatus = "RESERVED"
    [] Caller = "drained"  -> coreStatus = "RESERVED" /\ waiting = {}

Call(p, k) ==
  /\ pc[p] = "out" /\ k \notin pushed /\ MayPush
  /\ pc' = [pc EXCEPT ![p] = "lookup"]
  /\ job' = [job EXCEPT ![p] = k]
  /\ pushed' = pushed \cup {k}
  /\ UNCHANGED <<threadVars, rq, fq, coreStatus, ipi, cur, pred, apc, cand, starts>>

\* Mutant of Lookup: the head is not locked before queue_lock is dropped.
LookupUnlocked(p) ==
  /\ pc[p] = "lookup"
  /\ cur' = [cur EXCEPT ![p] = fq.head]
  /\ pred' = [pred EXCEPT ![p] = Nil]
  /\ pc' = [pc EXCEPT ![p] = IF fq.head = Nil THEN "create" ELSE "scan"]
  /\ UNCHANGED <<threadVars, rq, fq, coreStatus, ipi, job, apc, cand, pushed, starts>>

\* Mutant of Lookup: finished threads are not looked for.
LookupNothing(p) ==
  /\ pc[p] = "lookup"
  /\ pc' = [pc EXCEPT ![p] = "create"]
  /\ UNCHANGED <<threadVars, rq, fq, coreStatus, ipi, cur, pred, job, apc, cand, pushed,
                 starts>>

(***************************************************************************)
(* Under queue_lock: the head of the finished list, locked before          *)
(* queue_lock is dropped.                                                  *)
(***************************************************************************)
Lookup(p) ==
  /\ pc[p] = "lookup"
  /\ \/ /\ fq.head = Nil
        /\ pc' = [pc EXCEPT ![p] = "create"]
        /\ UNCHANGED <<cur, pred, tlock>>
     \/ /\ fq.head # Nil /\ Free(fq.head)
        /\ tlock' = [tlock EXCEPT ![fq.head] = p]
        /\ cur' = [cur EXCEPT ![p] = fq.head]
        /\ pred' = [pred EXCEPT ![p] = Nil]
        /\ pc' = [pc EXCEPT ![p] = "scan"]
  /\ UNCHANGED <<status, next, prev, frame, rq, fq, coreStatus, ipi, job, apc, cand,
                 pushed, starts>>

(***************************************************************************)
(* A locked element that is not DEAD is stepped over: its next is read and *)
(* its lock dropped before the next element is locked.                     *)
(***************************************************************************)
StepOver(p) ==
  /\ pc[p] = "scan" /\ status[cur[p]] # "DEAD"
  /\ tlock' = [tlock EXCEPT ![cur[p]] = Nil]
  /\ pred' = [pred EXCEPT ![p] = cur[p]]
  /\ cur' = [cur EXCEPT ![p] = next[cur[p]]]
  /\ pc' = [pc EXCEPT ![p] = IF next[cur[p]] = Nil THEN "create" ELSE "lock"]
  /\ UNCHANGED <<status, next, prev, frame, rq, fq, coreStatus, ipi, job, apc, cand,
                 pushed, starts>>

LockNext(p) ==
  /\ pc[p] = "lock" /\ Free(cur[p])
  /\ tlock' = [tlock EXCEPT ![cur[p]] = p]
  /\ pc' = [pc EXCEPT ![p] = "scan"]
  /\ UNCHANGED <<status, next, prev, frame, rq, fq, coreStatus, ipi, cur, pred, job,
                 apc, cand, pushed, starts>>

\* Mutant of UnlinkPrev: whatever is on the finished list is taken to be finished.
UnlinkPrevAny(p) ==
  /\ pc[p] = "scan"
  /\ pred[p] # Nil => Free(pred[p])
  /\ next' = IF pred[p] = Nil THEN next ELSE [next EXCEPT ![pred[p]] = next[cur[p]]]
  /\ pc' = [pc EXCEPT ![p] = "unlink"]
  /\ UNCHANGED <<status, prev, frame, tlock, rq, fq, coreStatus, ipi, cur, pred, job,
                 apc, cand, pushed, starts>>

(***************************************************************************)
(* A DEAD element is taken for the new task and unlinked from its          *)
(* neighbours, each under its own thread_lock; then its lock is dropped    *)
(* with the status still DEAD.                                             *)
(***************************************************************************)
UnlinkPrev(p) ==
  /\ pc[p] = "scan" /\ status[cur[p]] = "DEAD"
  /\ pred[p] # Nil => Free(pred[p])
  /\ next' = IF pred[p] = Nil THEN next ELSE [next EXCEPT ![pred[p]] = next[cur[p]]]
  /\ pc' = [pc EXCEPT ![p] = "unlink"]
  /\ UNCHANGED <<status, prev, frame, tlock, rq, fq, coreStatus, ipi, cur, pred, job,
                 apc, cand, pushed, starts>>

UnlinkNext(p) ==
  /\ pc[p] = "unlink"
  /\ LET n == next[cur[p]] IN
     /\ n # Nil => Free(n)
     /\ prev' = IF n = Nil THEN prev ELSE [prev EXCEPT ![n] = pred[p]]
  /\ tlock' = [tlock EXCEPT ![cur[p]] = Nil]
  /\ pc' = [pc EXCEPT ![p] = "dequeue"]
  /\ UNCHANGED <<status, next, frame, rq, fq, coreStatus, ipi, cur, pred, job, apc,
                 cand, pushed, starts>>

\* Mutant of Dequeue: the tail of the finished list is forgotten.
DequeueHeadOnly(p) ==
  /\ pc[p] = "dequeue"
  /\ fq' = [fq EXCEPT !.head = IF @ = cur[p] THEN next[cur[p]] ELSE @]
  /\ pc' = [pc EXCEPT ![p] = "frame"]
  /\ UNCHANGED <<threadVars, rq, coreStatus, ipi, cur, pred, job, apc, cand, pushed,
                 starts>>

(***************************************************************************)
(* Under queue_lock: the ends of the finished list, if the element is one. *)
(***************************************************************************)
Dequeue(p) ==
  /\ pc[p] = "dequeue"
  /\ fq' = [head |-> IF fq.head = cur[p] THEN next[cur[p]] ELSE fq.head,
            end  |-> WithoutEnd(fq, cur[p])]
  /\ pc' = [pc EXCEPT ![p] = "frame"]
  /\ UNCHANGED <<threadVars, rq, coreStatus, ipi, cur, pred, job, apc, cand, pushed,
                 starts>>

(***************************************************************************)
(* Under thread_lock: rsp is reset to the top of the stack and the frame   *)
(* of the new task is built there.                                         *)
(***************************************************************************)
BuildFrame(p) ==
  /\ pc[p] = "frame" /\ Free(cur[p])
  /\ frame' = [frame EXCEPT ![cur[p]] = job[p]]
  /\ pc' = [pc EXCEPT ![p] = "ready"]
  /\ UNCHANGED <<status, next, prev, tlock, rq, fq, coreStatus, ipi, cur, pred, job,
                 apc, cand, pushed, starts>>

(***************************************************************************)
(* create_thread, when the finished list had no DEAD element.  The heap is *)
(* taken to hold a thread for every task, so that it never fails.          *)
(***************************************************************************)
Create(p) ==
  /\ pc[p] = "create"
  /\ \E t \in Threads :
       /\ status[t] = "unused"
       /\ status' = [status EXCEPT ![t] = "READY"]
       /\ frame' = [frame EXCEPT ![t] = job[p]]
       /\ cur' = [cur EXCEPT ![p] = t]
  /\ pc' = [pc EXCEPT ![p] = "ready"]
  /\ UNCHANGED <<next, prev, tlock, rq, fq, coreStatus, ipi, pred, job, apc, cand,
                 pushed, starts>>

MarkReady(p) ==
  /\ pc[p] = "ready" /\ Free(cur[p])
  /\ status' = [status EXCEPT ![cur[p]] = "READY"]
  /\ pc' = [pc EXCEPT ![p] = "append"]
  /\ UNCHANGED <<next, prev, frame, tlock, rq, fq, coreStatus, ipi, cur, pred, job, apc,
                 cand, pushed, starts>>

Enqueue(p) ==
  /\ pc[p] = "append"
  /\ LinkTail(rq, cur[p])
  /\ rq' = WithTail(rq, cur[p])
  /\ pc' = [pc EXCEPT ![p] = "wake"]
  /\ UNCHANGED <<status, frame, tlock, fq, coreStatus, ipi, cur, pred, job, apc, cand,
                 pushed, starts>>

Return(p) ==
  /\ pc' = [pc EXCEPT ![p] = "out"]
  /\ cur' = [cur EXCEPT ![p] = Nil]
  /\ pred' = [pred EXCEPT ![p] = Nil]
  /\ job' = [job EXCEPT ![p] = Nil]

\* Mutant of Wake: a push that sends no IPI is taken to have failed, and is repeated.
WakeOrRetry(p) ==
  /\ pc[p] = "wake"
  /\ pc' = [pc EXCEPT ![p] = IF coreStatus = "RUNNING" THEN "lookup" ELSE "send"]
  /\ UNCHANGED <<threadVars, rq, fq, coreStatus, ipi, cur, pred, job, apc, cand, pushed,
                 starts>>

(***************************************************************************)
(* The core's status, read with no lock, decides on the wake-up IPI.       *)
(***************************************************************************)
Wake(p) ==
  /\ pc[p] = "wake"
  /\ \/ /\ coreStatus = "RUNNING"
        /\ Return(p)
     \/ /\ coreStatus # "RUNNING"
        /\ pc' = [pc EXCEPT ![p] = "send"]
        /\ UNCHANGED <<cur, pred, job>>
  /\ UNCHANGED <<threadVars, rq, fq, coreStatus, ipi, apc, cand, pushed, starts>>

SendIpi(p) ==
  /\ pc[p] = "send"
  /\ ipi' = TRUE
  /\ Return(p)
  /\ UNCHANGED <<threadVars, rq, fq, coreStatus, apc, cand, pushed, starts>>

Push(p) ==
  \/ Lookup(p) \/ StepOver(p) \/ LockNext(p) \/ UnlinkPrev(p) \/ UnlinkNext(p)
  \/ Dequeue(p) \/ BuildFrame(p) \/ Create(p) \/ MarkReady(p) \/ Enqueue(p) \/ Wake(p)
  \/ SendIpi(p)
----------------------------------------------------------------------------
(***************************************************************************)
(* The target core                                                         *)
(***************************************************************************)

(***************************************************************************)
(* The top of the loop, interrupts off: is there a list at all?            *)
(***************************************************************************)
Check ==
  /\ apc = "check"
  /\ cand' = rq.head
  /\ apc' = IF rq.head = Nil THEN "idle" ELSE "skip"
  /\ UNCHANGED <<threadVars, rq, fq, coreStatus, ipi, pushVars, pushed, starts>>

(***************************************************************************)
(* Interrupts on: a thread that is not READY, its status read with no lock,*)
(* is passed by; its next is then read under its thread_lock.              *)
(***************************************************************************)
Skip ==
  /\ apc = "skip" /\ cand # Nil /\ status[cand] # "READY"
  /\ apc' = "pass"
  /\ UNCHANGED <<threadVars, rq, fq, coreStatus, ipi, pushVars, cand, pushed, starts>>

Pass ==
  /\ apc = "pass" /\ Free(cand)
  /\ cand' = next[cand]
  /\ apc' = "skip"
  /\ UNCHANGED <<threadVars, rq, fq, coreStatus, ipi, pushVars, pushed, starts>>

SkippedAll ==
  /\ apc = "skip" /\ cand = Nil
  /\ apc' = "idle_sti"
  /\ UNCHANGED <<threadVars, rq, fq, coreStatus, ipi, pushVars, cand, pushed, starts>>

Pop ==
  /\ apc = "skip" /\ cand # Nil /\ status[cand] = "READY"
  /\ rq' = [head |-> next[cand], end |-> WithoutEnd(rq, cand)]
  /\ apc' = "mark"
  /\ UNCHANGED <<threadVars, fq, coreStatus, ipi, pushVars, cand, pushed, starts>>

MarkRunning ==
  /\ apc = "mark" /\ Free(cand)
  /\ status' = [status EXCEPT ![cand] = "RUNNING"]
  /\ apc' = "switch"
  /\ UNCHANGED <<next, prev, frame, tlock, rq, fq, coreStatus, ipi, pushVars, cand,
                 pushed, starts>>

(***************************************************************************)
(* thread_context_switch(idle, next).  Anything but the frame of a task is *)
(* the stack of a finished task, partly overwritten: the core returns into *)
(* it and faults.                                                          *)
(***************************************************************************)
SwitchIn ==
  /\ apc = "switch"
  /\ \/ /\ frame[cand] \in Tasks
        /\ starts' = [starts EXCEPT ![frame[cand]] = @ + 1]
        /\ apc' = "run"
     \/ /\ frame[cand] \notin Tasks
        /\ apc' = "fault"
        /\ UNCHANGED starts
  /\ frame' = [frame EXCEPT ![cand] = "live"]
  /\ UNCHANGED <<status, next, prev, tlock, rq, fq, coreStatus, ipi, pushVars, cand,
                 pushed>>

\* Mutant of YieldDead: BLOCKED, the status smp_shutdown_core gives to dying threads.
YieldBlocked ==
  /\ apc = "run" /\ Free(cand)
  /\ status' = [status EXCEPT ![cand] = "BLOCKED"]
  /\ next' = [next EXCEPT ![cand] = Nil]
  /\ apc' = "retire"
  /\ UNCHANGED <<prev, frame, tlock, rq, fq, coreStatus, ipi, pushVars, cand, pushed,
                 starts>>

(***************************************************************************)
(* The task ends in smp_yield: DEAD under thread_lock, onto the finished   *)
(* list under queue_lock, and only then off its stack.                     *)
(***************************************************************************)
YieldDead ==
  /\ apc = "run" /\ Free(cand)
  /\ status' = [status EXCEPT ![cand] = "DEAD"]
  /\ next' = [next EXCEPT ![cand] = Nil]
  /\ apc' = "retire"
  /\ UNCHANGED <<prev, frame, tlock, rq, fq, coreStatus, ipi, pushVars, cand, pushed,
                 starts>>

YieldRetire ==
  /\ apc = "retire"
  /\ LinkTail(fq, cand)
  /\ fq' = WithTail(fq, cand)
  /\ apc' = "leave"
  /\ UNCHANGED <<status, frame, tlock, rq, coreStatus, ipi, pushVars, cand, pushed,
                 starts>>

(***************************************************************************)
(* thread_context_switch(cur, idle) stores rsp in the thread last of all.  *)
(***************************************************************************)
SwitchOut ==
  /\ apc = "leave"
  /\ frame' = [frame EXCEPT ![cand] = "yield"]
  /\ cand' = Nil
  /\ apc' = "check"
  /\ UNCHANGED <<status, next, prev, tlock, rq, fq, coreStatus, ipi, pushVars, pushed,
                 starts>>

(***************************************************************************)
(* Nothing to do: the status is published and the core halts.              *)
(***************************************************************************)
Halt ==
  /\ apc \in {"idle", "idle_sti"}
  /\ coreStatus' = "RESERVED"
  /\ apc' = "hlt"
  /\ UNCHANGED <<threadVars, rq, fq, ipi, pushVars, cand, pushed, starts>>

\* Mutant of WokenByTimer: the local APIC timer was not started on this core.
NoTimer == FALSE

Resume ==
  /\ apc = "hlt"
  /\ coreStatus' = "RUNNING"
  /\ apc' = "check"
  /\ UNCHANGED <<threadVars, rq, fq, pushVars, cand, pushed, starts>>

WokenByIpi   == ipi /\ Resume /\ ipi' = FALSE
WokenByTimer == Resume /\ UNCHANGED ipi

(***************************************************************************)
(* A TLB request (module Shootdown) ends the halt too, but need not come.  *)
(***************************************************************************)
WokenByTlbIpi == Resume /\ UNCHANGED ipi

(***************************************************************************)
(* An IPI that finds the core awake with interrupts on is acknowledged and *)
(* forgotten.                                                              *)
(***************************************************************************)
AckAwake ==
  /\ ipi /\ apc \notin {"check", "idle", "hlt"}
  /\ ipi' = FALSE
  /\ UNCHANGED <<threadVars, rq, fq, coreStatus, pushVars, apc, cand, pushed, starts>>

Core ==
  \/ Check \/ Skip \/ Pass \/ SkippedAll \/ Pop \/ MarkRunning \/ SwitchIn
  \/ YieldDead \/ YieldRetire \/ SwitchOut \/ Halt
  \/ WokenByIpi \/ WokenByTimer \/ AckAwake

Next ==
  \/ \E p \in Pushers : (\E k \in Tasks : Call(p, k)) \/ Push(p)
  \/ Core
  \/ WokenByTlbIpi

(***************************************************************************)
(* Processors keep executing; whether a caller pushes at all is its own    *)
(* choice.  The timer interrupt (lapic_timer_start) is part of Core.       *)
(***************************************************************************)
Fairness == WF_vars(Core) /\ \A p \in Pushers : WF_vars(Push(p))

Safety == Init /\ [][Next]_vars
Spec   == Safety /\ Fairness
----------------------------------------------------------------------------
(***************************************************************************)
(* Type invariant.                                                         *)
(***************************************************************************)
PlacesPush == {"out", "lookup", "scan", "lock", "unlink", "dequeue", "frame", "create",
               "ready", "append", "wake", "send"}
PlacesCore == {"check", "skip", "pass", "mark", "switch", "run", "retire", "leave", "idle",
               "idle_sti", "hlt", "fault"}

TypeOK ==
  /\ status \in [Threads -> {"unused", "READY", "RUNNING", "DEAD"}]
  /\ next \in [Threads -> Links]
  /\ prev \in [Threads -> Links]
  /\ frame \in [Threads -> Frames]
  /\ tlock \in [Threads -> Pushers \cup {Nil}]
  /\ rq \in Queue
  /\ fq \in Queue
  /\ coreStatus \in {"RUNNING", "RESERVED"}
  /\ ipi \in BOOLEAN
  /\ pc \in [Pushers -> PlacesPush]
  /\ cur \in [Pushers -> Links]
  /\ pred \in [Pushers -> Links]
  /\ job \in [Pushers -> Tasks \cup {Nil}]
  /\ apc \in PlacesCore
  /\ cand \in Links
  /\ pushed \subseteq Tasks
  /\ starts \in [Tasks -> Nat]

(***************************************************************************)
(* A thread_lock is held from one step to the next by a pusher that        *)
(* inspects or unlinks that very element of the finished list, and by      *)
(* nobody else.                                                            *)
(***************************************************************************)
LockedWhereScanned ==
  \A p \in Pushers, t \in Threads :
    tlock[t] = p <=> pc[p] \in {"scan", "unlink"} /\ cur[p] = t

(***************************************************************************)
(* smp_push_task, smp_yield and the loop share no single lock, yet a thread*)
(* that a pusher is unlinking for reuse is DEAD and its task has left it   *)
(* for smp_yield, whatever the other processors do meanwhile.  (From the   *)
(* unlock on this is no longer so.)                                        *)
(***************************************************************************)
ChosenIsDead ==
  \A p \in Pushers : pc[p] = "unlink" =>
    /\ status[cur[p]] = "DEAD"
    /\ ~(apc \in {"mark", "switch", "run"} /\ cand = cur[p])

(***************************************************************************)
(* While the core is in a task, no pusher rebuilds the stack under it.     *)
(* Holds when one processor does the pushing.                              *)
(***************************************************************************)
RunningLeftAlone ==
  apc = "run" =>
    \A p \in Pushers : pc[p] \in {"unlink", "dequeue", "frame"} => cur[p] # cand

(***************************************************************************)
(* The contract of smp_push_task (module TaskService).  Its safety part: no*)
(* task is started twice, or without having been pushed.                   *)
(***************************************************************************)
Service == INSTANCE TaskService WITH Tasks <- Tasks, waiting <- waiting, starts <- starts

StartsAtMostOnce == Service!Safety

(***************************************************************************)
(* The whole contract: each task pushed is also started in the end.        *)
(***************************************************************************)
ImplementsTaskService == Service!Spec

(***************************************************************************)
(* When the core has halted and nobody is pushing, the ready list is empty *)
(* at both ends, and the finished list holds every thread ever created, in *)
(* both directions.                                                        *)
(***************************************************************************)
AtRest == apc = "hlt" /\ waiting = {} /\ \A p \in Pushers : pc[p] = "out"

ListsAtRest ==
  AtRest =>
    /\ rq = [head |-> Nil, end |-> Nil]
    /\ fq.head = Nil <=> fq.end = Nil
    /\ fq.head # Nil => prev[fq.head] = Nil /\ next[fq.end] = Nil
    /\ \A t \in Threads :
         status[t] # "unused" =>
           /\ status[t] = "DEAD"
           /\ t # fq.head => prev[t] # Nil /\ next[prev[t]] = t
           /\ t # fq.end => next[t] # Nil /\ prev[next[t]] = t

(***************************************************************************)
(* A caller that keeps one task in flight makes do with one thread: the    *)
(* finished one is found and reused, and none is leaked.                   *)
(***************************************************************************)
ThreadsRecycled == Cardinality({t \in Threads : status[t] # "unused"}) <= 1

(***************************************************************************)
(* "Dead threads can be reused" (smp.c:757): the core switches to a thread *)
(* that was reused for a task with the frame of that task in place, not    *)
(* with what is left of the stack of the task before it.                   *)
(***************************************************************************)
ReusedThreadRunsItsTask == apc = "switch" => frame[cand] \in Tasks
============================================================================
