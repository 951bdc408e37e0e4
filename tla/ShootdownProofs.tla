-------------------------- MODULE ShootdownProofs --------------------------
(***************************************************************************)
(* Proofs about Shootdown, for any number of application processors, any   *)
(* set of pages and any set of cores that free them.                       *)
(***************************************************************************)
EXTENDS Shootdown, TLAPS

Asking == {"cmd", "addr", "wait", "check"}      \* under command_lock of the target
Inside == Asking \cup {"lock", "leave"}         \* under avmf_lock

(***************************************************************************)
(* Who holds which lock, and whose page a free is about.                   *)
(***************************************************************************)
LocksHeld ==
  /\ \A c \in Cores : pc[c] \in Inside <=> avmfLock = c
  /\ \A t \in APs, c \in Cores :
       commandLock[t] = c <=> pc[c] \in Asking /\ target[c] = t

(***************************************************************************)
(* A core waits for avmf_lock with the page that it frees.                 *)
(***************************************************************************)
Chosen == \A c \in Cores : pc[c] = "want" => page[c] \in Pages

PagesHeld ==
  /\ \A c \in Cores : pc[c] \in Inside => page[c] \in gone
  /\ \A c \in Cores : pc[c] \notin Inside => target[c] = 1
  /\ \A c \in Cores : pc[c] = "leave" => target[c] = N

(***************************************************************************)
(* An AP that has seen every request that was given up works only for the  *)
(* core that now waits for it, on the address of that core, and has        *)
(* answered only once the page is out of its TLB.                          *)
(***************************************************************************)
WorksFor(c, t) ==
  /\ pc[c] = "wait" => tlbAddr[t] = page[c]
  /\ pc[c] \in {"cmd", "addr"} => ~tlbResp[t]
  /\ pc[c] # "wait" => ~ipi[t] /\ handler[t] \in {"none", "clear"}
  /\ tlbResp[t] => ~ipi[t] /\ handler[t] \in {"none", "clear"}
  /\ pc[c] = "wait" /\ (tlbResp[t] \/ handler[t] = "ack") => page[c] \notin tlb[t]
  /\ ipi[t] => handler[t] \in {"none", "clear"}

InStep ==
  \A t \in APs \ behind :
    /\ commandLock[t] = Nil => ~ipi[t] /\ handler[t] \in {"none", "clear"}
    /\ commandLock[t] # Nil => WorksFor(commandLock[t], t)

(***************************************************************************)
(* As long as every request was answered, a page that is gone may be left  *)
(* in the TLB of an AP only for the free that has not come to that AP yet. *)
(***************************************************************************)
ToCome(c, t) ==
  target[c] < t \/ (target[c] = t /\ pc[c] \in {"lock", "cmd", "addr", "wait"})

LeftOver ==
  ~missed =>
    /\ behind = {} /\ ~givenUp
    /\ \A t \in APs : \A p \in tlb[t] \cap gone :
         avmfLock # Nil /\ page[avmfLock] = p /\ ToCome(avmfLock, t)

(***************************************************************************)
(* The inductive invariant.                                                *)
(***************************************************************************)
IInv == TypeOK /\ Chosen /\ LocksHeld /\ PagesHeld /\ InStep /\ LeftOver
----------------------------------------------------------------------------
LEMMA FreeingAreCores == Freeing \subseteq Cores
BY FreeingAssumption, NAssumption DEF Cores, APs

LEMMA TypeInit == Init => TypeOK /\ Chosen
<1> SUFFICES ASSUME Init
             PROVE  TypeOK /\ Chosen
  OBVIOUS
<1>1. /\ tlb \in [Cores -> SUBSET Pages] /\ gone \subseteq Pages /\ behind \subseteq APs
      /\ avmfLock \in Cores \cup {Nil} /\ commandLock \in [APs -> Cores \cup {Nil}]
  BY DEF Init
<1>2. /\ tlbCmd \in [APs -> BOOLEAN] /\ tlbResp \in [APs -> BOOLEAN]
      /\ tlbAddr \in [APs -> Pages \cup {Nil}] /\ ipi \in [APs -> BOOLEAN]
      /\ {missed, silent, givenUp} \subseteq BOOLEAN
  BY DEF Init
<1>3. target \in [Cores -> APs] /\ waited \in [Cores -> 0 .. 2]
  BY NAssumption DEF Init, APs
<1>4. /\ handler \in [Cores -> {"none", "flush", "ack", "clear"}]
      /\ pc \in [Cores -> {"run", "top", "halted", "want", "lock", "cmd", "addr", "wait",
                           "check", "leave"}]
      /\ page \in [Cores -> Pages \cup {Nil}]
  BY DEF Init
<1>5. Chosen
  BY DEF Init, Chosen
<1> QED BY <1>1, <1>2, <1>3, <1>4, <1>5 DEF TypeOK

LEMMA TypeCall ==
  ASSUME TypeOK, Chosen, NEW c \in Freeing, (\E p \in Pages : Free(c, p)) \/ Call(c)
  PROVE  TypeOK' /\ Chosen'
<1> c \in Cores
  BY FreeingAreCores
<1> USE DEF TypeOK, Chosen, lockVars, mailVars, callVars, histVars
<1>1. CASE \E p \in Pages : Free(c, p)
  BY <1>1 DEF Free
<1>2. CASE Unmap(c)
  BY <1>2 DEF Unmap
<1>3. CASE LockTarget(c)
  BY <1>3 DEF LockTarget
<1>4. CASE PostCmd(c)
  BY <1>4 DEF PostCmd
<1>5. CASE PostAddr(c)
  BY <1>5 DEF PostAddr
<1>6. CASE Tick(c)
  BY <1>6 DEF Tick
<1>7. CASE WaitEnds(c)
  BY <1>7 DEF WaitEnds
<1>8. CASE Check(c)
  <2>1. target[c] < N => target[c] + 1 \in APs
    BY NAssumption DEF APs
  <2> QED BY <1>8, <2>1 DEF Check
<1>9. CASE Leave(c)
  BY <1>9, NAssumption DEF Leave, APs
<1> QED BY <1>1, <1>2, <1>3, <1>4, <1>5, <1>6, <1>7, <1>8, <1>9 DEF Call

LEMMA TypeHandler ==
  ASSUME TypeOK, Chosen, NEW t \in APs, Handle(t) \/ LoopTop(t) \/ LoopOn(t)
  PROVE  TypeOK' /\ Chosen'
<1> USE DEF TypeOK, Chosen, APs, Cores, lockVars, mailVars, callVars, histVars, Interruptible
<1>1. CASE TakeIpi(t)
  BY <1>1 DEF TakeIpi
<1>2. CASE Flush(t)
  BY <1>2 DEF Flush
<1>3. CASE AckFlush(t)
  BY <1>3 DEF AckFlush
<1>4. CASE ClearCmd(t)
  BY <1>4 DEF ClearCmd
<1>5. CASE LoopTop(t)
  BY <1>5 DEF LoopTop
<1>6. CASE LoopOn(t)
  BY <1>6 DEF LoopOn
<1> QED BY <1>1, <1>2, <1>3, <1>4, <1>5, <1>6 DEF Handle

(***************************************************************************)
(* Type correctness.  In particular the loop of smp_tlb never names a core *)
(* that is not there.                                                      *)
(***************************************************************************)
THEOREM TypeCorrect == Safety => []TypeOK
<1>1. TypeOK /\ Chosen /\ [Next]_vars => TypeOK' /\ Chosen'
  <2> SUFFICES ASSUME TypeOK, Chosen, [Next]_vars
               PROVE  TypeOK' /\ Chosen'
    OBVIOUS
  <2>1. CASE UNCHANGED vars
    BY <2>1 DEF TypeOK, Chosen, vars, lockVars, mailVars, callVars, histVars
  <2>2. ASSUME NEW c \in Freeing, (\E p \in Pages : Free(c, p)) \/ Call(c)
        PROVE  TypeOK' /\ Chosen'
    BY <2>2, TypeCall
  <2>3. ASSUME NEW t \in APs, Handle(t) \/ LoopTop(t) \/ LoopOn(t)
        PROVE  TypeOK' /\ Chosen'
    BY <2>3, TypeHandler
  <2> QED BY <2>1, <2>2, <2>3 DEF Next
<1> QED BY <1>1, TypeInit, PTL DEF Safety
----------------------------------------------------------------------------
(***************************************************************************)
(* The locks exclude: one core at a time is inside avmf_free, and the      *)
(* command_lock of an AP belongs to the core that asks that AP, if any.    *)
(***************************************************************************)
LEMMA LocksCall ==
  ASSUME TypeOK, Chosen, LocksHeld, PagesHeld,
         NEW c \in Freeing, (\E p \in Pages : Free(c, p)) \/ Call(c)
  PROVE  LocksHeld' /\ PagesHeld'
<1> c \in Cores /\ Nil \notin Cores /\ N \in Nat /\ N >= 1 /\ target[c] \in APs
  BY FreeingAreCores, NAssumption, NilAssumption DEF Cores, APs, TypeOK
<1> USE DEF TypeOK, Chosen, LocksHeld, PagesHeld, Inside, Asking, lockVars, mailVars,
        callVars, histVars
<1>1. CASE \E p \in Pages : Free(c, p)
  BY <1>1 DEF Free, Interruptible
<1>2. CASE Unmap(c)
  BY <1>2 DEF Unmap
<1>3. CASE LockTarget(c)
  BY <1>3 DEF LockTarget
<1>4. CASE PostCmd(c)
  BY <1>4 DEF PostCmd
<1>5. CASE PostAddr(c)
  BY <1>5 DEF PostAddr
<1>6. CASE Tick(c)
  BY <1>6 DEF Tick
<1>7. CASE WaitEnds(c)
  BY <1>7 DEF WaitEnds
<1>8. CASE Check(c)
  <2>1. ~(target[c] < N) => target[c] = N
    BY DEF APs
  <2>2. target[c] < N => target[c] + 1 \in APs
    BY DEF APs
  <2> QED BY <1>8, <2>1, <2>2 DEF Check
<1>9. CASE Leave(c)
  BY <1>9 DEF Leave
<1> QED BY <1>1, <1>2, <1>3, <1>4, <1>5, <1>6, <1>7, <1>8, <1>9 DEF Call

LEMMA LocksHandler ==
  ASSUME TypeOK, LocksHeld, PagesHeld,
         NEW t \in APs, Handle(t) \/ LoopTop(t) \/ LoopOn(t)
  PROVE  LocksHeld' /\ PagesHeld'
<1> t \in Cores
  BY DEF Cores
<1> USE DEF TypeOK, LocksHeld, PagesHeld, Inside, Asking, lockVars, mailVars, callVars,
        histVars
<1>1. CASE Handle(t)
  BY <1>1 DEF Handle, TakeIpi, Flush, AckFlush, ClearCmd
<1>2. CASE LoopTop(t)
  BY <1>2 DEF LoopTop, Interruptible
<1>3. CASE LoopOn(t)
  BY <1>3 DEF LoopOn
<1> QED BY <1>1, <1>2, <1>3
----------------------------------------------------------------------------
(***************************************************************************)
(* The mailbox protocol: who may answer, and for which request.            *)
(***************************************************************************)
LEMMA InStepCall ==
  ASSUME TypeOK, Chosen, LocksHeld, PagesHeld, InStep,
         NEW c \in Freeing, (\E p \in Pages : Free(c, p)) \/ Call(c)
  PROVE  InStep'
<1> c \in Cores /\ Nil \notin Cores /\ target[c] \in APs /\ APs \subseteq Cores
  BY FreeingAreCores, NilAssumption DEF Cores, APs, TypeOK
<1> USE DEF TypeOK, Chosen, LocksHeld, PagesHeld, Inside, Asking, InStep, WorksFor, lockVars,
        mailVars, callVars, histVars
<1>1. CASE \E p \in Pages : Free(c, p)
  BY <1>1 DEF Free, Interruptible
<1>2. CASE Unmap(c)
  BY <1>2 DEF Unmap
<1>3. CASE LockTarget(c)
  BY <1>3 DEF LockTarget
<1>4. CASE PostCmd(c)
  BY <1>4 DEF PostCmd
<1>5. CASE PostAddr(c)
  BY <1>5 DEF PostAddr
<1>6. CASE Tick(c)
  BY <1>6 DEF Tick
<1>7. CASE WaitEnds(c)
  BY <1>7 DEF WaitEnds
<1>8. CASE Check(c)
  BY <1>8 DEF Check
<1>9. CASE Leave(c)
  BY <1>9 DEF Leave
<1> QED BY <1>1, <1>2, <1>3, <1>4, <1>5, <1>6, <1>7, <1>8, <1>9 DEF Call

LEMMA InStepHandler ==
  ASSUME TypeOK, Chosen, LocksHeld, PagesHeld, InStep,
         NEW t \in APs, Handle(t) \/ LoopTop(t) \/ LoopOn(t)
  PROVE  InStep'
<1> t \in Cores /\ Nil \notin Cores /\ APs \subseteq Cores
  BY NilAssumption DEF Cores, APs
<1> USE DEF TypeOK, LocksHeld, PagesHeld, Inside, Asking, InStep, WorksFor, lockVars,
        mailVars, callVars, histVars
<1>1. CASE TakeIpi(t)
  BY <1>1 DEF TakeIpi, Interruptible
<1>2. CASE Flush(t)
  BY <1>2 DEF Flush
<1>3. CASE AckFlush(t)
  BY <1>3 DEF AckFlush
<1>4. CASE ClearCmd(t)
  BY <1>4 DEF ClearCmd
<1>5. CASE LoopTop(t)
  BY <1>5 DEF LoopTop, Interruptible
<1>6. CASE LoopOn(t)
  BY <1>6 DEF LoopOn
<1> QED BY <1>1, <1>2, <1>3, <1>4, <1>5, <1>6 DEF Handle

(***************************************************************************)
(* What is left to flush.                                                  *)
(***************************************************************************)
LEMMA LeftOverCall ==
  ASSUME TypeOK, Chosen, LocksHeld, PagesHeld, InStep, LeftOver,
         NEW c \in Freeing, (\E p \in Pages : Free(c, p)) \/ Call(c)
  PROVE  LeftOver'
<1> c \in Cores /\ Nil \notin Cores /\ target[c] \in APs /\ APs \subseteq Cores
  BY FreeingAreCores, NilAssumption DEF Cores, APs, TypeOK
<1> USE DEF TypeOK, Chosen, LocksHeld, PagesHeld, Inside, Asking, LeftOver, ToCome, lockVars,
        mailVars, callVars, histVars
<1>1. CASE \E p \in Pages : Free(c, p)
  BY <1>1 DEF Free, Interruptible
<1>2. CASE Unmap(c)
  BY <1>2, NAssumption DEF Unmap, APs
<1>3. CASE LockTarget(c)
  BY <1>3 DEF LockTarget
<1>4. CASE PostCmd(c)
  BY <1>4 DEF PostCmd
<1>5. CASE PostAddr(c)
  BY <1>5 DEF PostAddr
<1>6. CASE Tick(c)
  BY <1>6 DEF Tick
<1>7. CASE WaitEnds(c)
  BY <1>7 DEF WaitEnds, InStep, WorksFor
<1>8. CASE Check(c)
  <2>1. avmfLock = c
    BY <1>8 DEF Check
  <2>2. ASSUME NEW t \in APs, ToCome(c, t)
        PROVE  ToCome(c, t)'
    <3>1. target[c] \in Nat /\ t \in Nat /\ N \in Nat /\ t <= N /\ target[c] < t
      BY <1>8, <2>2, NAssumption DEF Check, APs
    <3>2. target[c] < N /\ (target[c] + 1 < t \/ target[c] + 1 = t)
      BY <3>1
    <3> QED BY <1>8, <3>2 DEF Check
  <2> HIDE DEF ToCome
  <2> QED BY <1>8, <2>1, <2>2 DEF Check
<1>9. CASE Leave(c)
  <2>1. avmfLock = c /\ \A t \in APs : ~ToCome(c, t)
    BY <1>9, NAssumption DEF Leave, APs
  <2> HIDE DEF ToCome
  <2> QED BY <1>9, <2>1 DEF Leave
<1> QED BY <1>1, <1>2, <1>3, <1>4, <1>5, <1>6, <1>7, <1>8, <1>9 DEF Call

LEMMA LeftOverHandler ==
  ASSUME TypeOK, LocksHeld, LeftOver, NEW t \in APs, Handle(t) \/ LoopTop(t) \/ LoopOn(t)
  PROVE  LeftOver'
<1> t \in Cores /\ Nil \notin Cores /\ APs \subseteq Cores
  BY NilAssumption DEF Cores, APs
<1> USE DEF TypeOK, LocksHeld, Inside, LeftOver, ToCome, lockVars, mailVars, callVars, histVars
<1>1. CASE Handle(t)
  BY <1>1 DEF Handle, TakeIpi, Flush, AckFlush, ClearCmd
<1>2. CASE LoopTop(t)
  BY <1>2 DEF LoopTop, Interruptible, Asking
<1>3. CASE LoopOn(t)
  BY <1>3 DEF LoopOn, Asking
<1> QED BY <1>1, <1>2, <1>3
----------------------------------------------------------------------------
(***************************************************************************)
(* The inductive invariant.  AnswerMeansFlushed alone is not inductive: it *)
(* says nothing of the answer that a handler is about to give, nor of whom *)
(* that handler works for.                                                 *)
(***************************************************************************)
THEOREM Inductive == Safety => []IInv
<1>1. Init => IInv
  <2> SUFFICES ASSUME Init
               PROVE  IInv
    OBVIOUS
  <2>1. TypeOK /\ Chosen
    BY TypeInit
  <2>2. LocksHeld /\ PagesHeld
    BY NilAssumption DEF Init, LocksHeld, PagesHeld, Inside, Asking, APs, Cores
  <2>3. InStep /\ LeftOver
    BY DEF Init, InStep, LeftOver, Cores
  <2> QED BY <2>1, <2>2, <2>3 DEF IInv
<1>2. IInv /\ [Next]_vars => IInv'
  <2> SUFFICES ASSUME IInv, [Next]_vars
               PROVE  IInv'
    OBVIOUS
  <2>1. CASE UNCHANGED vars
    BY <2>1 DEF IInv, TypeOK, Chosen, LocksHeld, PagesHeld, InStep, WorksFor, LeftOver, ToCome,
       vars, lockVars, mailVars, callVars, histVars
  <2>2. ASSUME NEW c \in Freeing, (\E p \in Pages : Free(c, p)) \/ Call(c)
        PROVE  IInv'
    BY <2>2, TypeCall, LocksCall, InStepCall, LeftOverCall DEF IInv
  <2>3. ASSUME NEW t \in APs, Handle(t) \/ LoopTop(t) \/ LoopOn(t)
        PROVE  IInv'
    BY <2>3, TypeHandler, LocksHandler, InStepHandler, LeftOverHandler DEF IInv
  <2> QED BY <2>1, <2>2, <2>3 DEF Next
<1> QED BY <1>1, <1>2, PTL DEF Safety

(***************************************************************************)
(* An answer that ends a wait means that the page is out of the target's   *)
(* TLB, for any number of cores that free pages at the same time.          *)
(***************************************************************************)
THEOREM AnswersAreTrue == Safety => []AnswerMeansFlushed
<1>1. IInv => AnswerMeansFlushed
  <2> SUFFICES ASSUME IInv, NEW c \in Cores, pc[c] = "wait", target[c] \notin behind
               PROVE  tlbResp[target[c]] => page[c] \notin tlb[target[c]]
    BY DEF AnswerMeansFlushed
  <2>1. target[c] \in APs \ behind /\ commandLock[target[c]] = c /\ c # Nil
    BY NilAssumption, NAssumption DEF IInv, TypeOK, LocksHeld, Asking, Cores, APs
  <2> QED BY <2>1 DEF IInv, InStep, WorksFor
<1> QED BY <1>1, Inductive, PTL

(***************************************************************************)
(* While avmf_lock is free and every request was answered no AP can reach  *)
(* a frame that was given back.                                            *)
(***************************************************************************)
THEOREM ReusableIsFlushed == Safety => []FlushedWhenReusable
<1>1. IInv => FlushedWhenReusable
  BY DEF IInv, LeftOver, FlushedWhenReusable
<1> QED BY <1>1, Inductive, PTL
============================================================================
