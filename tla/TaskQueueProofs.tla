-------------------------- MODULE TaskQueueProofs --------------------------
(***************************************************************************)
(* Proofs about TaskQueue, for any number of threads, pushers and tasks    *)
(* and every kind of caller.                                               *)
(***************************************************************************)
EXTENDS TaskQueue, FiniteSetTheorems, TLAPS

(***************************************************************************)
(* Inside smp_push_task there is a task, and once one is chosen or created *)
(* a thread; the core has a thread from the pop until it is off its stack. *)
(***************************************************************************)
LocalsSet ==
  /\ \A p \in Pushers : pc[p] # "out" => job[p] \in Tasks
  /\ \A p \in Pushers : pc[p] \notin {"out", "lookup", "create"} => cur[p] \in Threads
  /\ apc \in {"pass", "mark", "switch", "run", "retire", "leave"} => cand \in Threads

(***************************************************************************)
(* A TLB request wakes the core the way the timer does.                    *)
(***************************************************************************)
LEMMA TlbIpiAsTimer == WokenByTlbIpi => Core
BY DEF WokenByTlbIpi, WokenByTimer, Core

LEMMA TypeInit == Init => TypeOK /\ LocalsSet
<1> USE DEF Init, Links, Queue, Frames
<1>1. Init => /\ rq \in Queue /\ fq \in Queue
              /\ next \in [Threads -> Links] /\ prev \in [Threads -> Links]
  OBVIOUS
<1>2. Init => /\ status \in [Threads -> {"unused", "READY", "RUNNING", "DEAD"}]
              /\ frame \in [Threads -> Frames]
              /\ tlock \in [Threads -> Pushers \cup {Nil}]
  OBVIOUS
<1>3. Init => /\ pc \in [Pushers -> PlacesPush] /\ cur \in [Pushers -> Links]
              /\ pred \in [Pushers -> Links] /\ job \in [Pushers -> Tasks \cup {Nil}]
  BY DEF PlacesPush
<1>4. Init => starts \in [Tasks -> Nat] /\ pushed \subseteq Tasks
  OBVIOUS
<1>5. Init => LocalsSet
  BY DEF LocalsSet
<1> QED BY <1>1, <1>2, <1>3, <1>4, <1>5 DEF TypeOK, PlacesCore

LEMMA TypePush ==
  ASSUME TypeOK, LocalsSet, NEW p \in Pushers, Push(p)
  PROVE  TypeOK' /\ LocalsSet'
<1> USE NilAssumption DEF TypeOK, LocalsSet, Links, Queue, Frames, PlacesPush, PlacesCore,
        Free, threadVars, pushVars
<1>1. CASE Lookup(p)      BY <1>1 DEF Lookup
<1>2. CASE StepOver(p)    BY <1>2 DEF StepOver
<1>3. CASE LockNext(p)    BY <1>3 DEF LockNext
<1>4. CASE UnlinkPrev(p)  BY <1>4 DEF UnlinkPrev
<1>5. CASE UnlinkNext(p)  BY <1>5 DEF UnlinkNext
<1>6. CASE Dequeue(p)     BY <1>6 DEF Dequeue, WithoutEnd
<1>7. CASE BuildFrame(p)  BY <1>7 DEF BuildFrame
<1>8. CASE Create(p)      BY <1>8 DEF Create
<1>9. CASE MarkReady(p)   BY <1>9 DEF MarkReady
<1>10. CASE Enqueue(p)    BY <1>10 DEF Enqueue, LinkTail, WithTail
<1>11. CASE Wake(p)       BY <1>11 DEF Wake, Return
<1>12. CASE SendIpi(p)    BY <1>12 DEF SendIpi, Return
<1> QED BY <1>1, <1>2, <1>3, <1>4, <1>5, <1>6, <1>7, <1>8, <1>9, <1>10, <1>11, <1>12 DEF Push

LEMMA TypeCore ==
  ASSUME TypeOK, LocalsSet, Core
  PROVE  TypeOK' /\ LocalsSet'
<1> USE NilAssumption DEF TypeOK, LocalsSet, Links, Queue, Frames, PlacesPush, PlacesCore,
        Free, threadVars, pushVars
<1>1. CASE Check          BY <1>1 DEF Check
<1>2. CASE Skip           BY <1>2 DEF Skip
<1>13. CASE Pass          BY <1>13 DEF Pass
<1>3. CASE SkippedAll     BY <1>3 DEF SkippedAll
<1>4. CASE Pop            BY <1>4 DEF Pop, WithoutEnd
<1>5. CASE MarkRunning    BY <1>5 DEF MarkRunning
<1>6. CASE SwitchIn       BY <1>6 DEF SwitchIn
<1>7. CASE YieldDead      BY <1>7 DEF YieldDead
<1>8. CASE YieldRetire    BY <1>8 DEF YieldRetire, LinkTail, WithTail
<1>9. CASE SwitchOut      BY <1>9 DEF SwitchOut
<1>10. CASE Halt          BY <1>10 DEF Halt
<1>11. CASE WokenByIpi \/ WokenByTimer BY <1>11 DEF WokenByIpi, WokenByTimer, Resume
<1>12. CASE AckAwake      BY <1>12 DEF AckAwake
<1> QED BY <1>1, <1>2, <1>3, <1>4, <1>5, <1>6, <1>7, <1>8, <1>9, <1>10, <1>11, <1>12, <1>13 DEF Core

LEMMA TypeCall ==
  ASSUME TypeOK, LocalsSet, NEW p \in Pushers, NEW k \in Tasks, Call(p, k)
  PROVE  TypeOK' /\ LocalsSet'
BY DEF TypeOK, LocalsSet, Links, Queue, Frames, PlacesPush, PlacesCore, Call, threadVars

(***************************************************************************)
(* Type correctness.                                                       *)
(***************************************************************************)
THEOREM TypeCorrect == Safety => [](TypeOK /\ LocalsSet)
<1>1. TypeOK /\ LocalsSet /\ [Next]_vars => (TypeOK /\ LocalsSet)'
  <2> SUFFICES ASSUME TypeOK, LocalsSet, [Next]_vars
               PROVE  TypeOK' /\ LocalsSet'
    OBVIOUS
  <2>1. CASE UNCHANGED vars
    BY <2>1 DEF TypeOK, LocalsSet, vars, threadVars, pushVars
  <2>2. CASE Next
    BY <2>2, TypePush, TypeCore, TypeCall, TlbIpiAsTimer DEF Next
  <2> QED BY <2>1, <2>2
<1> QED BY <1>1, TypeInit, PTL DEF Safety
----------------------------------------------------------------------------
(***************************************************************************)
(* The thread_lock discipline, and what it protects: while a pusher holds  *)
(* the lock of a DEAD thread the status cannot change, because every write *)
(* of a status takes that lock.                                            *)
(***************************************************************************)
PoppedNotDead ==
  apc \in {"mark", "switch", "run"} => status[cand] \in {"READY", "RUNNING"}

LockInv == LockedWhereScanned /\ ChosenIsDead /\ PoppedNotDead

LEMMA LockPush ==
  ASSUME TypeOK, LocalsSet, LockInv, NEW p \in Pushers, Push(p)
  PROVE  LockInv'
<1> USE NilAssumption DEF TypeOK, LocalsSet, LockInv, LockedWhereScanned, ChosenIsDead,
        PoppedNotDead, Links, Free, threadVars, pushVars
<1>1. CASE Lookup(p)
  <2>1. LockedWhereScanned'
    BY <1>1 DEF Lookup, Queue
  <2> QED BY <1>1, <2>1 DEF Lookup
<1>2. CASE StepOver(p)    BY <1>2 DEF StepOver
<1>3. CASE LockNext(p)    BY <1>3 DEF LockNext
<1>4. CASE UnlinkPrev(p)  BY <1>4 DEF UnlinkPrev
<1>5. CASE UnlinkNext(p)  BY <1>5 DEF UnlinkNext
<1>6. CASE Dequeue(p)     BY <1>6 DEF Dequeue
<1>7. CASE BuildFrame(p)  BY <1>7 DEF BuildFrame
<1>8. CASE Create(p)
  <2> PICK t \in Threads : /\ status[t] = "unused"
                           /\ status' = [status EXCEPT ![t] = "READY"]
                           /\ cur' = [cur EXCEPT ![p] = t]
    BY <1>8 DEF Create
  <2>1. LockedWhereScanned'  BY <1>8 DEF Create
  <2>2. ChosenIsDead'        BY <1>8 DEF Create
  <2>3. PoppedNotDead'       BY <1>8 DEF Create
  <2> QED BY <2>1, <2>2, <2>3
<1>9. CASE MarkReady(p)
  <2>1. LockedWhereScanned'  BY <1>9 DEF MarkReady
  <2>2. ChosenIsDead'        BY <1>9 DEF MarkReady
  <2>3. PoppedNotDead'       BY <1>9 DEF MarkReady
  <2> QED BY <2>1, <2>2, <2>3
<1>10. CASE Enqueue(p)    BY <1>10 DEF Enqueue
<1>11. CASE Wake(p)       BY <1>11 DEF Wake, Return
<1>12. CASE SendIpi(p)    BY <1>12 DEF SendIpi, Return
<1> QED BY <1>1, <1>2, <1>3, <1>4, <1>5, <1>6, <1>7, <1>8, <1>9, <1>10, <1>11, <1>12 DEF Push

LEMMA LockCore ==
  ASSUME TypeOK, LocalsSet, LockInv, Core
  PROVE  LockInv'
<1> USE NilAssumption DEF TypeOK, LocalsSet, LockInv, LockedWhereScanned, ChosenIsDead,
        PoppedNotDead, Links, Free, threadVars, pushVars
<1>1. CASE Check          BY <1>1 DEF Check
<1>2. CASE Skip           BY <1>2 DEF Skip
<1>13. CASE Pass          BY <1>13 DEF Pass
<1>3. CASE SkippedAll     BY <1>3 DEF SkippedAll
<1>4. CASE Pop            BY <1>4 DEF Pop
<1>5. CASE MarkRunning    BY <1>5 DEF MarkRunning
<1>6. CASE SwitchIn       BY <1>6 DEF SwitchIn
<1>7. CASE YieldDead      BY <1>7 DEF YieldDead
<1>8. CASE YieldRetire    BY <1>8 DEF YieldRetire
<1>9. CASE SwitchOut      BY <1>9 DEF SwitchOut
<1>10. CASE Halt          BY <1>10 DEF Halt
<1>11. CASE WokenByIpi \/ WokenByTimer BY <1>11 DEF WokenByIpi, WokenByTimer, Resume
<1>12. CASE AckAwake      BY <1>12 DEF AckAwake
<1> QED BY <1>1, <1>2, <1>3, <1>4, <1>5, <1>6, <1>7, <1>8, <1>9, <1>10, <1>11, <1>12, <1>13 DEF Core

LEMMA LockCall ==
  ASSUME TypeOK, LocalsSet, LockInv, NEW p \in Pushers, NEW k \in Tasks, Call(p, k)
  PROVE  LockInv'
BY DEF TypeOK, LocalsSet, LockInv, LockedWhereScanned, ChosenIsDead, PoppedNotDead, Call,
       threadVars

(***************************************************************************)
(* The lock discipline is kept by any number of pushers and the core.      *)
(***************************************************************************)
THEOREM LocksHold == Safety => []LockInv
<1>1. Init => LockInv
  BY NilAssumption DEF Init, LockInv, LockedWhereScanned, ChosenIsDead, PoppedNotDead
<1>2. TypeOK /\ LocalsSet /\ LockInv /\ [Next]_vars => LockInv'
  <2> SUFFICES ASSUME TypeOK, LocalsSet, LockInv, [Next]_vars
               PROVE  LockInv'
    OBVIOUS
  <2>1. CASE UNCHANGED vars
    BY <2>1 DEF LockInv, LockedWhereScanned, ChosenIsDead, PoppedNotDead, vars, threadVars, pushVars
  <2>2. CASE Next
    BY <2>2, LockPush, LockCore, LockCall, TlbIpiAsTimer DEF Next
  <2> QED BY <2>1, <2>2
<1> QED BY <1>1, <1>2, TypeCorrect, PTL DEF Safety

(***************************************************************************)
(* A thread_lock is held by the pusher that inspects or unlinks the thread *)
(* and by nobody else.                                                     *)
(***************************************************************************)
THEOREM LocksWhereScanned == Safety => []LockedWhereScanned
BY LocksHold, PTL DEF LockInv

(***************************************************************************)
(* A thread being unlinked for reuse is DEAD and not in its task.          *)
(***************************************************************************)
THEOREM LocksCorrect == Safety => []ChosenIsDead
BY LocksHold, PTL DEF LockInv
----------------------------------------------------------------------------
(***************************************************************************)
(* Why no task starts twice, whatever becomes of the lists: the frame of a *)
(* task is built once, by the one push that carries the task, and the      *)
(* switch that uses it consumes it.  Pending are the pushes that have not  *)
(* built theirs yet.                                                       *)
(***************************************************************************)
Pending(p) == pc[p] \notin {"out", "ready", "append", "wake", "send"}

FrameInv ==
  /\ \A k \in Tasks : starts[k] # 0 => k \in pushed
  /\ \A t \in Threads : frame[t] \in Tasks => frame[t] \in waiting
  /\ \A t, u \in Threads : frame[t] \in Tasks /\ frame[t] = frame[u] => t = u
  /\ \A p \in Pushers : Pending(p) =>
       /\ job[p] \in waiting
       /\ \A t \in Threads : frame[t] # job[p]
  /\ \A p, q \in Pushers : Pending(p) /\ Pending(q) /\ job[p] = job[q] => p = q

LEMMA FramePush ==
  ASSUME TypeOK, LocalsSet, FrameInv, NEW p \in Pushers, Push(p)
  PROVE  FrameInv' /\ pushed' = pushed /\ starts' = starts
<1> USE NilAssumption DEF TypeOK, LocalsSet, FrameInv, Pending, waiting, PlacesPush, Links,
        threadVars, pushVars
<1>1. CASE Lookup(p)      BY <1>1 DEF Lookup
<1>2. CASE StepOver(p)    BY <1>2 DEF StepOver
<1>3. CASE LockNext(p)    BY <1>3 DEF LockNext
<1>4. CASE UnlinkPrev(p)  BY <1>4 DEF UnlinkPrev
<1>5. CASE UnlinkNext(p)  BY <1>5 DEF UnlinkNext
<1>6. CASE Dequeue(p)     BY <1>6 DEF Dequeue
<1>7. CASE BuildFrame(p)  BY <1>7 DEF BuildFrame
<1>8. CASE Create(p)      BY <1>8 DEF Create
<1>9. CASE MarkReady(p)   BY <1>9 DEF MarkReady
<1>10. CASE Enqueue(p)    BY <1>10 DEF Enqueue
<1>11. CASE Wake(p)       BY <1>11 DEF Wake, Return
<1>12. CASE SendIpi(p)    BY <1>12 DEF SendIpi, Return
<1> QED BY <1>1, <1>2, <1>3, <1>4, <1>5, <1>6, <1>7, <1>8, <1>9, <1>10, <1>11, <1>12 DEF Push

(***************************************************************************)
(* Every step of the core but SwitchIn leaves the tasks started alone, and *)
(* at most turns a thread's saved context into the inside of smp_yield.    *)
(***************************************************************************)
LEMMA FrameCore ==
  ASSUME TypeOK, LocalsSet, FrameInv, Core, ~SwitchIn
  PROVE  FrameInv' /\ pushed' = pushed /\ starts' = starts
<1> USE NilAssumption, TasksAssumption DEF TypeOK, LocalsSet, FrameInv, Pending, waiting, Links,
        threadVars, pushVars
<1>1. CASE Check          BY <1>1 DEF Check
<1>2. CASE Skip           BY <1>2 DEF Skip
<1>13. CASE Pass          BY <1>13 DEF Pass
<1>3. CASE SkippedAll     BY <1>3 DEF SkippedAll
<1>4. CASE Pop            BY <1>4 DEF Pop
<1>5. CASE MarkRunning    BY <1>5 DEF MarkRunning
<1>7. CASE YieldDead      BY <1>7 DEF YieldDead
<1>8. CASE YieldRetire    BY <1>8 DEF YieldRetire
<1>9. CASE SwitchOut      BY <1>9 DEF SwitchOut
<1>10. CASE Halt          BY <1>10 DEF Halt
<1>11. CASE WokenByIpi \/ WokenByTimer BY <1>11 DEF WokenByIpi, WokenByTimer, Resume
<1>12. CASE AckAwake      BY <1>12 DEF AckAwake
<1> QED BY <1>1, <1>2, <1>3, <1>4, <1>5, <1>7, <1>8, <1>9, <1>10, <1>11, <1>12, <1>13 DEF Core

LEMMA FrameSwitchIn ==
  ASSUME TypeOK, LocalsSet, FrameInv, SwitchIn
  PROVE  FrameInv' /\ (Service!Next \/ UNCHANGED <<pushed, starts>>)
<1> USE NilAssumption, TasksAssumption DEF TypeOK, LocalsSet, FrameInv, Pending, waiting, Links,
        pushVars
<1>1. CASE frame[cand] \in Tasks
  <2> PICK k \in Tasks : frame[cand] = k
    BY <1>1
  <2>1. starts' = [starts EXCEPT ![k] = @ + 1] /\ pushed' = pushed
    BY <1>1 DEF SwitchIn
  <2>2. k \in waiting /\ waiting' = waiting \ {k}
    <3>1. cand \in Threads
      BY DEF SwitchIn
    <3>2. k \in waiting
      BY <1>1, <3>1
    <3>3. \A j \in pushed : starts'[j] = IF j = k THEN starts[j] + 1 ELSE starts[j]
      BY <2>1, <3>2
    <3>4. starts[k] \in Nat /\ starts[k] = 0
      BY <3>2
    <3> QED BY <2>1, <3>2, <3>3, <3>4
  <2>3. FrameInv'
    BY <2>1, <2>2 DEF SwitchIn
  <2>4. Service!Start(k)
    BY <2>1, <2>2 DEF SwitchIn, Service!Start
  <2> QED BY <2>3, <2>4 DEF Service!Next
<1>2. CASE frame[cand] \notin Tasks
  <2>1. /\ cand \in Threads
        /\ frame' = [frame EXCEPT ![cand] = "live"]
        /\ UNCHANGED <<pushed, starts, pc, job>>
    BY <1>2 DEF SwitchIn
  <2>2. \A t \in Threads : frame'[t] = frame[t] \/ frame'[t] \notin Tasks
    BY <2>1
  <2>3. waiting' = waiting /\ waiting \subseteq Tasks
    BY <2>1
  <2>4. FrameInv'
    BY <2>1, <2>2, <2>3
  <2> QED BY <2>1, <2>4
<1> QED BY <1>1, <1>2

LEMMA FrameCall ==
  ASSUME TypeOK, LocalsSet, FrameInv, NEW p \in Pushers, NEW k \in Tasks, Call(p, k)
  PROVE  FrameInv' /\ Service!Next
<1>1. FrameInv'
  BY DEF TypeOK, LocalsSet, FrameInv, Pending, waiting, Call, threadVars
<1>2. Service!Submit(k)
  <2>1. starts[k] = 0 /\ k \notin waiting /\ waiting' = waiting \cup {k} /\ starts' = starts
    BY DEF TypeOK, FrameInv, Call, waiting
  <2> QED BY <2>1 DEF Service!Submit
<1> QED BY <1>1, <1>2 DEF Service!Next

LEMMA FrameInit == Init => FrameInv
BY TasksAssumption DEF Init, FrameInv, Pending, waiting

(***************************************************************************)
(* Every step is a submission, a start or a stutter of TaskService.        *)
(***************************************************************************)
LEMMA FrameStep ==
  ASSUME TypeOK, LocalsSet, FrameInv, [Next]_vars
  PROVE  FrameInv' /\ [Service!Next]_Service!vars
<1> USE DEF Service!vars
<1>1. CASE UNCHANGED vars
  BY <1>1 DEF FrameInv, Pending, waiting, vars, threadVars, pushVars
<1>2. ASSUME NEW p \in Pushers, Push(p)
      PROVE  FrameInv' /\ [Service!Next]_Service!vars
  BY <1>2, FramePush DEF waiting
<1>3. CASE Core
  BY <1>3, FrameCore, FrameSwitchIn DEF waiting
<1>4. ASSUME NEW p \in Pushers, NEW k \in Tasks, Call(p, k)
      PROVE  FrameInv' /\ [Service!Next]_Service!vars
  BY <1>4, FrameCall
<1> QED BY <1>1, <1>2, <1>3, <1>4, TlbIpiAsTimer DEF Next

(***************************************************************************)
(* smp_push_task implements the safety part of its contract: no task is    *)
(* started twice, or without having been pushed.                           *)
(***************************************************************************)
THEOREM StartsOnce == Safety => StartsAtMostOnce
<1>1. TypeOK /\ LocalsSet /\ FrameInv /\ [Next]_vars => FrameInv' /\ [Service!Next]_Service!vars
  BY FrameStep
<1>2. Init => Service!Init
  BY DEF Init, Service!Init, waiting
<1> QED BY <1>1, <1>2, FrameInit, TypeCorrect, PTL DEF Safety, StartsAtMostOnce, Service!Safety
----------------------------------------------------------------------------
(***************************************************************************)
(* With one pusher, the thread it rebuilds stays DEAD until it says READY: *)
(* the unlock in between, which lets a second pusher choose the same       *)
(* thread, does no harm.                                                   *)
(***************************************************************************)
OnePusher == \A p, q \in Pushers : p = q

RebuiltIsDead ==
  \A p \in Pushers : pc[p] \in {"unlink", "dequeue", "frame"} => status[cur[p]] = "DEAD"

THEOREM OnePusherSafe == OnePusher => (Safety => []RunningLeftAlone)
<1> SUFFICES ASSUME OnePusher
             PROVE  Safety => []RunningLeftAlone
  OBVIOUS
<1>1. Init => RebuiltIsDead /\ LockInv
  BY NilAssumption
  DEF Init, RebuiltIsDead, LockInv, LockedWhereScanned, ChosenIsDead, PoppedNotDead
<1>2. TypeOK /\ LocalsSet /\ LockInv /\ RebuiltIsDead /\ [Next]_vars => (LockInv /\ RebuiltIsDead)'
  <2> SUFFICES ASSUME TypeOK, LocalsSet, LockInv, RebuiltIsDead, [Next]_vars
               PROVE  LockInv' /\ RebuiltIsDead'
    OBVIOUS
  <2> USE DEF RebuiltIsDead
  <2>1. CASE UNCHANGED vars
    BY <2>1 DEF LockInv, LockedWhereScanned, ChosenIsDead, PoppedNotDead, vars, threadVars, pushVars
  <2>2. ASSUME NEW p \in Pushers, Push(p)
        PROVE  RebuiltIsDead'
    <3> USE <2>2 DEF TypeOK, LocalsSet, OnePusher, Links, threadVars, pushVars
    <3>1. \A q \in Pushers : q = p
      OBVIOUS
    <3> QED
      BY <3>1 DEF Push, Lookup, StepOver, LockNext, UnlinkPrev, UnlinkNext, Dequeue, BuildFrame,
                  Create, MarkReady, Enqueue, Wake, SendIpi, Return
  <2>3. ASSUME Core
        PROVE  RebuiltIsDead'
    <3>1. \A p \in Pushers : pc[p] \in {"unlink", "dequeue", "frame"} => cur[p] \in Threads
      BY DEF LocalsSet
    <3>2. CASE MarkRunning
      <4>1. cand \in Threads /\ status[cand] # "DEAD"
        BY <3>2 DEF MarkRunning, LockInv, PoppedNotDead, LocalsSet
      <4>2. /\ status' = [status EXCEPT ![cand] = "RUNNING"]
            /\ pc' = pc /\ cur' = cur
        BY <3>2 DEF MarkRunning, pushVars
      <4> QED BY <3>1, <4>1, <4>2 DEF TypeOK
    <3>3. CASE YieldDead
      <4>1. /\ status' = [status EXCEPT ![cand] = "DEAD"]
            /\ pc' = pc /\ cur' = cur
        BY <3>3 DEF YieldDead, pushVars
      <4> QED BY <3>1, <4>1 DEF TypeOK
    <3>4. CASE UNCHANGED <<status, pc, cur>>
      BY <3>4
    <3>5. MarkRunning \/ YieldDead \/ UNCHANGED <<status, pc, cur>>
      BY <2>3 DEF Core, Check, Skip, Pass, SkippedAll, Pop, SwitchIn, YieldRetire, SwitchOut, Halt,
                  WokenByIpi, WokenByTimer, Resume, AckAwake, threadVars, pushVars
    <3> QED BY <3>2, <3>3, <3>4, <3>5
  <2>4. ASSUME NEW p \in Pushers, NEW k \in Tasks, Call(p, k)
        PROVE  RebuiltIsDead'
    BY <2>4 DEF TypeOK, Call, threadVars
  <2> QED BY <2>1, <2>2, <2>3, <2>4, LockPush, LockCore, LockCall, TlbIpiAsTimer DEF Next
<1>3. LockInv /\ RebuiltIsDead => RunningLeftAlone
  BY DEF LockInv, PoppedNotDead, RebuiltIsDead, RunningLeftAlone
<1> QED BY <1>1, <1>2, <1>3, TypeCorrect, PTL DEF Safety
----------------------------------------------------------------------------
(***************************************************************************)
(* Callers that wait until their tasks have run and the core has halted.   *)
(* Then there is one thread at most, always in one place: with the pusher  *)
(* that makes it ready, on one of the lists by itself, or on the core.     *)
(***************************************************************************)
NoList  == [head |-> Nil, end |-> Nil]
Only(t) == [head |-> t, end |-> t]

Used == {t \in Threads : status[t] # "unused"}

Busy(p)   == pc[p] \notin {"out", "wake", "send"}
Rebuilds(p) == pc[p] \in {"frame", "ready", "append"}

Quiet  == {"check", "idle", "hlt"}
InTask == {"mark", "switch", "run", "retire"}

OneThread ==
  /\ \A t \in Threads : next[t] = Nil /\ prev[t] = Nil
  /\ \A t, u \in Used : t = u
  /\ \A t \in Used :
       \/ t \in {fq.head, rq.head}
       \/ apc \in InTask /\ cand = t
       \/ \E p \in Pushers : Rebuilds(p) /\ cur[p] = t

OneCaller ==
  /\ \A p \in Pushers : pc[p] # "lock" /\ pred[p] = Nil
  /\ \A p, q \in Pushers : Busy(p) /\ Busy(q) => p = q
  /\ \A p \in Pushers : Busy(p) => apc \in Quiet /\ rq = NoList
  /\ \A p \in Pushers : pc[p] \in {"scan", "unlink", "dequeue"} => fq.head = cur[p]
  /\ \A p \in Pushers : pc[p] \in {"create", "frame", "ready", "append"} => fq = NoList
  /\ \A p \in Pushers : pc[p] = "create" => Used = {}
  /\ \A p \in Pushers : Rebuilds(p) =>
       /\ cur[p] \in Used
       /\ pc[p] # "frame" => frame[cur[p]] \in Tasks
       /\ pc[p] = "append" => status[cur[p]] = "READY"

OnReady ==
  rq # NoList =>
    /\ rq.head \in Used /\ rq = Only(rq.head) /\ fq = NoList
    /\ status[rq.head] = "READY" /\ frame[rq.head] \in Tasks
    /\ apc \in Quiet \cup {"skip"}

OnFinished ==
  fq # NoList =>
    /\ fq.head \in Used /\ fq = Only(fq.head) /\ status[fq.head] = "DEAD"
    /\ apc \in Quiet \cup {"leave"}

OnCore ==
  /\ apc \in Quiet \cup InTask \cup {"skip", "leave"}
  /\ coreStatus = IF apc = "hlt" THEN "RESERVED" ELSE "RUNNING"
  /\ apc = "skip" => cand # Nil /\ rq.head = cand
  /\ apc \in InTask => cand \in Used /\ rq = NoList /\ fq = NoList
  /\ apc \in {"mark", "switch"} => frame[cand] \in Tasks
  /\ apc = "retire" => status[cand] = "DEAD"

DrainedInv == OneThread /\ OneCaller /\ OnReady /\ OnFinished /\ OnCore

LEMMA DrainedCall ==
  ASSUME Caller = "drained", TypeOK, LocalsSet, FrameInv, DrainedInv,
         NEW p \in Pushers, NEW k \in Tasks, Call(p, k)
  PROVE  DrainedInv'
<1>1. apc = "hlt" /\ waiting = {}
  BY DEF Call, MayPush, DrainedInv, OnCore
<1>2. \A q \in Pushers : ~Busy(q)
  <2>1. SUFFICES ASSUME NEW q \in Pushers, Busy(q)
                 PROVE  FALSE
    OBVIOUS
  <2>2. ~Pending(q)
    BY <1>1 DEF FrameInv
  <2>3. frame[cur[q]] \in Tasks /\ cur[q] \in Threads
    BY <2>1, <2>2 DEF Pending, Busy, DrainedInv, OneCaller, Rebuilds, Used
  <2> QED BY <1>1, <2>3 DEF FrameInv
<1>3. rq = NoList
  BY <1>1 DEF DrainedInv, OnReady, Used, FrameInv
<1> QED BY <1>1, <1>2, <1>3 DEF Call, TypeOK, DrainedInv, OneThread, OneCaller, OnReady,
           OnFinished, OnCore, Busy, Rebuilds, Quiet, InTask, Used, threadVars

LEMMA DrainedPush ==
  ASSUME TypeOK, LocalsSet, DrainedInv, NEW p \in Pushers, Push(p)
  PROVE  DrainedInv'
<1> USE NilAssumption DEF TypeOK, LocalsSet, Queue, Links, DrainedInv, OneThread, OneCaller,
        OnReady, OnFinished, OnCore, Busy, Rebuilds, Quiet, InTask, Used, NoList, Only,
        threadVars, pushVars
<1>1. CASE Lookup(p)      BY <1>1 DEF Lookup
<1>2. CASE StepOver(p)    BY <1>2 DEF StepOver
<1>3. CASE LockNext(p)    BY <1>3 DEF LockNext
<1>4. CASE UnlinkPrev(p)  BY <1>4 DEF UnlinkPrev
<1>5. CASE UnlinkNext(p)  BY <1>5 DEF UnlinkNext
<1>6. CASE Dequeue(p)     BY <1>6 DEF Dequeue, WithoutEnd
<1>7. CASE BuildFrame(p)  BY <1>7 DEF BuildFrame
<1>8. CASE Create(p)      BY <1>8 DEF Create
<1>9. CASE MarkReady(p)   BY <1>9 DEF MarkReady
<1>10. CASE Enqueue(p)    BY <1>10 DEF Enqueue, LinkTail, WithTail
<1>11. CASE Wake(p)       BY <1>11 DEF Wake, Return
<1>12. CASE SendIpi(p)    BY <1>12 DEF SendIpi, Return
<1> QED BY <1>1, <1>2, <1>3, <1>4, <1>5, <1>6, <1>7, <1>8, <1>9, <1>10, <1>11, <1>12 DEF Push

LEMMA DrainedCore ==
  ASSUME TypeOK, LocalsSet, DrainedInv, Core
  PROVE  DrainedInv'
<1> USE NilAssumption, TasksAssumption DEF TypeOK, LocalsSet, Queue, Links, DrainedInv, OneThread,
        OneCaller, OnReady, OnFinished, OnCore, Busy, Rebuilds, Quiet, InTask, Used, NoList,
        Only, threadVars, pushVars
<1>1. CASE Check          BY <1>1 DEF Check
<1>2. CASE Skip           BY <1>2 DEF Skip
<1>3. CASE Pass           BY <1>3 DEF Pass
<1>4. CASE SkippedAll     BY <1>4 DEF SkippedAll
<1>5. CASE Pop            BY <1>5 DEF Pop, WithoutEnd
<1>6. CASE MarkRunning    BY <1>6 DEF MarkRunning
<1>7. CASE SwitchIn       BY <1>7 DEF SwitchIn
<1>8. CASE YieldDead      BY <1>8 DEF YieldDead
<1>9. CASE YieldRetire    BY <1>9 DEF YieldRetire, LinkTail, WithTail
<1>10. CASE SwitchOut     BY <1>10 DEF SwitchOut
<1>11. CASE Halt          BY <1>11 DEF Halt
<1>12. CASE WokenByIpi \/ WokenByTimer BY <1>12 DEF WokenByIpi, WokenByTimer, Resume
<1>13. CASE AckAwake      BY <1>13 DEF AckAwake
<1> QED BY <1>1, <1>2, <1>3, <1>4, <1>5, <1>6, <1>7, <1>8, <1>9, <1>10, <1>11, <1>12, <1>13
        DEF Core

(***************************************************************************)
(* The inductive invariant of the drained queue.                           *)
(***************************************************************************)
THEOREM DrainedInductive == Caller = "drained" => (Safety => [](DrainedInv /\ FrameInv))
<1> SUFFICES ASSUME Caller = "drained"
             PROVE  Safety => [](DrainedInv /\ FrameInv)
  OBVIOUS
<1>1. Init => DrainedInv
  BY NilAssumption
  DEF Init, DrainedInv, OneThread, OneCaller, OnReady, OnFinished, OnCore, Busy, Rebuilds, Quiet,
      InTask, Used, NoList
<1>2. TypeOK /\ LocalsSet /\ FrameInv /\ DrainedInv /\ [Next]_vars => FrameInv' /\ DrainedInv'
  <2> SUFFICES ASSUME TypeOK, LocalsSet, FrameInv, DrainedInv, [Next]_vars
               PROVE  FrameInv' /\ DrainedInv'
    OBVIOUS
  <2>1. CASE UNCHANGED vars
    BY <2>1, FrameStep DEF DrainedInv, OneThread, OneCaller, OnReady, OnFinished, OnCore, Busy,
       Rebuilds, Used, vars, threadVars, pushVars
  <2>2. CASE Next
    BY <2>2, FrameStep, DrainedCall, DrainedPush, DrainedCore, TlbIpiAsTimer DEF Next
  <2> QED BY <2>1, <2>2
<1> QED BY <1>1, <1>2, FrameInit, TypeCorrect, PTL DEF Safety

(***************************************************************************)
(* Callers that keep one task in flight never need a second thread.        *)
(***************************************************************************)
THEOREM OneThreadIsEnough == Caller = "drained" => (Safety => []ThreadsRecycled)
<1>1. DrainedInv => ThreadsRecycled
  <2> SUFFICES ASSUME DrainedInv
               PROVE  Cardinality(Used) <= 1
    BY DEF ThreadsRecycled, Used
  <2>1. CASE Used = {}
    BY <2>1, FS_EmptySet
  <2>2. ASSUME NEW t \in Used
        PROVE  Cardinality(Used) <= 1
    <3>1. Used = {t}
      BY DEF DrainedInv, OneThread
    <3>2. Cardinality({t}) = 1
      BY FS_Singleton
    <3> QED BY <3>1, <3>2
  <2> QED BY <2>1, <2>2
<1> QED BY <1>1, DrainedInductive, PTL

(***************************************************************************)
(* Whenever the core rests, the lists are what the next push expects: the  *)
(* ready list empty, the finished one with the one thread there is.        *)
(***************************************************************************)
THEOREM ListsIntact == Caller = "drained" => (Safety => []ListsAtRest)
<1>1. TypeOK /\ FrameInv /\ DrainedInv => ListsAtRest
  <2> SUFFICES ASSUME TypeOK, FrameInv, DrainedInv, AtRest
               PROVE  ListsAtRest
    BY DEF ListsAtRest
  <2>1. rq = NoList
    BY DEF AtRest, FrameInv, DrainedInv, OnReady, Used
  <2>2. ~\E p \in Pushers : Rebuilds(p)
    BY DEF AtRest, Rebuilds
  <2>3. apc \notin InTask
    BY DEF AtRest, InTask
  <2>4. \A t \in Threads : status[t] # "unused" => t = fq.head
    BY <2>1, <2>2, <2>3, NilAssumption DEF DrainedInv, OneThread, Used, NoList
  <2>5. CASE fq = NoList
    BY <2>1, <2>4, <2>5, NilAssumption DEF ListsAtRest, NoList
  <2>6. CASE fq # NoList
    <3>1. fq.head \in Threads /\ fq.end = fq.head /\ status[fq.head] = "DEAD"
      BY <2>6 DEF DrainedInv, OnFinished, Used, Only
    <3> QED BY <2>1, <2>4, <3>1, NilAssumption DEF ListsAtRest, NoList, DrainedInv, OneThread
  <2> QED BY <2>5, <2>6
<1> QED BY <1>1, DrainedInductive, TypeCorrect, PTL

(***************************************************************************)
(* What "Dead threads can be reused" takes: if the core has halted before  *)
(* the next push, the thread it switches to has the frame of its task.     *)
(***************************************************************************)
THEOREM ReuseIsSafeWhenDrained ==
  Caller = "drained" => (Safety => []ReusedThreadRunsItsTask)
<1>1. DrainedInv => ReusedThreadRunsItsTask
  BY DEF DrainedInv, OnCore, ReusedThreadRunsItsTask
<1> QED BY <1>1, DrainedInductive, PTL
============================================================================
