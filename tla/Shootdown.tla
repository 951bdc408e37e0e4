----------------------------- MODULE Shootdown -----------------------------
(***************************************************************************)
(* Giving memory back on a multiprocessor: avmf_free (Kernel/mm/avmf.c)    *)
(* clears a page of the page table (mm/pager.c) and then asks one          *)
(* application processor after the other to drop the page from its TLB     *)
(* (smp_tlb, drivers/core/smp.c), by a mailbox and an interrupt per core.  *)
(* All of it happens under avmf_lock, and each request under command_lock  *)
(* of its target, with interrupts off; a core that spins for either lock   *)
(* cannot answer.                                                          *)
(***************************************************************************)
EXTENDS Naturals

CONSTANTS N,            \* number of application processors
          Pages,        \* pages that are freed, each once
          Freeing,      \* the cores that free pages
          Nil           \* no page; no holder

ASSUME NAssumption == N \in Nat \ {0}
ASSUME FreeingAssumption == Freeing \subseteq 0 .. N
ASSUME NilAssumption == Nil \notin Pages \cup Nat

APs   == 1 .. N
Cores == {0} \cup APs   \* 0 is the boot processor

VARIABLES tlb,          \* pages whose translation a core may still have
          gone,         \* pages cleared in the page table
          avmfLock, commandLock,        \* holders
          tlbCmd, tlbResp, tlbAddr,     \* the mailbox of each AP
          ipi,          \* SMP_TLB_IPI_VECTOR is pending at an AP
          handler,      \* where smp_tlb_ipi_handler is on an AP
          pc,           \* where each core is
          page, target, \* of its avmf_free
          waited,       \* kget_ms_passed() - timeout, see Tick
          missed, silent,       \* history: some request was given up; without a message
          givenUp,      \* history: the last request was
          behind        \* history: APs that had a given-up request yet to see

mailVars == <<tlbCmd, tlbResp, tlbAddr, ipi>>
lockVars == <<avmfLock, commandLock>>
callVars == <<page, target, waited>>
histVars == <<missed, silent, givenUp, behind>>
vars == <<tlb, gone, lockVars, mailVars, handler, pc, callVars, histVars>>

(***************************************************************************)
(* A core with interrupts on: in a task, or halted for want of one.        *)
(***************************************************************************)
Interruptible(t) == pc[t] = "run" /\ handler[t] = "none"
----------------------------------------------------------------------------
Init ==
  /\ tlb = [c \in Cores |-> Pages]
  /\ gone = {}
  /\ avmfLock = Nil
  /\ commandLock = [t \in APs |-> Nil]
  /\ tlbCmd = [t \in APs |-> FALSE]
  /\ tlbResp = [t \in APs |-> FALSE]
  /\ tlbAddr = [t \in APs |-> Nil]
  /\ ipi = [t \in APs |-> FALSE]
  /\ handler = [c \in Cores |-> "none"]
  /\ pc = [c \in Cores |-> "run"]
  /\ page = [c \in Cores |-> Nil]
  /\ target = [c \in Cores |-> 1]
  /\ waited = [c \in Cores |-> 0]
  /\ missed = FALSE /\ silent = FALSE /\ givenUp = FALSE
  /\ behind = {}
----------------------------------------------------------------------------
(***************************************************************************)
(* avmf_free and pager_unmap                                               *)
(***************************************************************************)
Free(c, p) ==
  /\ Interruptible(c)
  /\ p \notin gone /\ \A d \in Cores : page[d] # p
  /\ page' = [page EXCEPT ![c] = p]
  /\ pc' = [pc EXCEPT ![c] = "want"]
  /\ UNCHANGED <<tlb, gone, lockVars, mailVars, handler, target, waited, histVars>>

(***************************************************************************)
(* Under avmf_lock: the entry is cleared and the own TLB flushed.          *)
(***************************************************************************)
Unmap(c) ==
  /\ pc[c] = "want" /\ avmfLock = Nil
  /\ avmfLock' = c
  /\ gone' = gone \cup {page[c]}
  /\ tlb' = [tlb EXCEPT ![c] = @ \ {page[c]}]
  /\ pc' = [pc EXCEPT ![c] = "lock"]
  /\ UNCHANGED <<commandLock, mailVars, handler, callVars, histVars>>

(***************************************************************************)
(* smp_tlb_core: the three words of the mailbox in the order written.      *)
(***************************************************************************)
LockTarget(c) ==
  /\ pc[c] = "lock" /\ commandLock[target[c]] = Nil
  /\ commandLock' = [commandLock EXCEPT ![target[c]] = c]
  /\ tlbResp' = [tlbResp EXCEPT ![target[c]] = FALSE]
  /\ behind' = {t \in behind : t = target[c] => ipi[t] \/ handler[t] # "none"}
  /\ pc' = [pc EXCEPT ![c] = "cmd"]
  /\ UNCHANGED <<tlb, gone, avmfLock, tlbCmd, tlbAddr, ipi, handler, callVars, missed,
                 silent, givenUp>>

\* Mutant of PostCmd: the interrupt goes out with the command, before the address.
PostCmdAndIpi(c) ==
  /\ pc[c] = "cmd"
  /\ tlbCmd' = [tlbCmd EXCEPT ![target[c]] = TRUE]
  /\ ipi' = [ipi EXCEPT ![target[c]] = TRUE]
  /\ pc' = [pc EXCEPT ![c] = "addr"]
  /\ UNCHANGED <<tlb, gone, lockVars, tlbResp, tlbAddr, handler, callVars, histVars>>

PostCmd(c) ==
  /\ pc[c] = "cmd"
  /\ tlbCmd' = [tlbCmd EXCEPT ![target[c]] = TRUE]
  /\ pc' = [pc EXCEPT ![c] = "addr"]
  /\ UNCHANGED <<tlb, gone, lockVars, tlbResp, tlbAddr, ipi, handler, callVars, histVars>>

PostAddr(c) ==
  /\ pc[c] = "addr"
  /\ tlbAddr' = [tlbAddr EXCEPT ![target[c]] = page[c]]
  /\ ipi' = [ipi EXCEPT ![target[c]] = TRUE]
  /\ waited' = [waited EXCEPT ![c] = 0]
  /\ pc' = [pc EXCEPT ![c] = "wait"]
  /\ UNCHANGED <<tlb, gone, lockVars, tlbCmd, tlbResp, handler, page, target, histVars>>

(***************************************************************************)
(* waited is 0 below 1000 ms, 1 at 1000 ms and 2 above.  A second is longer*)
(* than a handler takes, so it passes only while the target is deaf or has *)
(* been and gone without an answer.                                        *)
(***************************************************************************)
Tick(c) ==
  /\ \/ /\ pc[c] = "wait" /\ handler[target[c]] = "none"
        /\ ~(ipi[target[c]] /\ Interruptible(target[c]))
     \/ pc[c] = "check"
  /\ waited[c] < 2
  /\ waited' = [waited EXCEPT ![c] = @ + 1]
  /\ UNCHANGED <<tlb, gone, lockVars, mailVars, handler, pc, page, target, histVars>>

\* Mutant of WaitEnds: the wait has no time limit.
WaitEndsAnswered(c) ==
  /\ pc[c] = "wait" /\ tlbResp[target[c]]
  /\ pc' = [pc EXCEPT ![c] = "check"]
  /\ UNCHANGED <<tlb, gone, lockVars, mailVars, handler, callVars, histVars>>

WaitEnds(c) ==
  /\ pc[c] = "wait"
  /\ \/ /\ tlbResp[target[c]]
        /\ givenUp' = FALSE
        /\ UNCHANGED <<missed, behind>>
     \/ /\ ~tlbResp[target[c]] /\ waited[c] > 0
        /\ givenUp' = TRUE /\ missed' = TRUE
        /\ behind' = IF ipi[target[c]] \/ handler[target[c]] # "none"
                     THEN behind \cup {target[c]} ELSE behind
  /\ pc' = [pc EXCEPT ![c] = "check"]
  /\ UNCHANGED <<tlb, gone, lockVars, mailVars, handler, callVars, silent>>

\* Mutant of Check: the loop of smp_tlb ends one core early.
CheckStopsEarly(c) ==
  /\ pc[c] = "check"
  /\ silent' = (silent \/ (givenUp /\ waited[c] < 2))
  /\ commandLock' = [commandLock EXCEPT ![target[c]] = Nil]
  /\ IF target[c] + 1 < N
     THEN /\ target' = [target EXCEPT ![c] = @ + 1]
          /\ pc' = [pc EXCEPT ![c] = "lock"]
     ELSE /\ pc' = [pc EXCEPT ![c] = "leave"]
          /\ UNCHANGED target
  /\ UNCHANGED <<tlb, gone, avmfLock, mailVars, handler, page, waited, missed, givenUp,
                 behind>>

\* Mutant of Check: it ends one core late.
CheckStopsLate(c) ==
  /\ pc[c] = "check"
  /\ commandLock' = [commandLock EXCEPT ![target[c]] = Nil]
  /\ target' = [target EXCEPT ![c] = @ + 1]
  /\ pc' = [pc EXCEPT ![c] = IF target[c] <= N THEN "lock" ELSE "leave"]
  /\ UNCHANGED <<tlb, gone, avmfLock, mailVars, handler, page, waited, histVars>>

(***************************************************************************)
(* The clock is read again for the error message; then the next core.      *)
(***************************************************************************)
Check(c) ==
  /\ pc[c] = "check"
  /\ silent' = (silent \/ (givenUp /\ waited[c] < 2))
  /\ commandLock' = [commandLock EXCEPT ![target[c]] = Nil]
  /\ IF target[c] < N
     THEN /\ target' = [target EXCEPT ![c] = @ + 1]
          /\ pc' = [pc EXCEPT ![c] = "lock"]
     ELSE /\ pc' = [pc EXCEPT ![c] = "leave"]
          /\ UNCHANGED target
  /\ UNCHANGED <<tlb, gone, avmfLock, mailVars, handler, page, waited, missed, givenUp,
                 behind>>

Leave(c) ==
  /\ pc[c] = "leave"
  /\ avmfLock' = Nil
  /\ pc' = [pc EXCEPT ![c] = "run"]
  /\ page' = [page EXCEPT ![c] = Nil]
  /\ target' = [target EXCEPT ![c] = 1]
  /\ waited' = [waited EXCEPT ![c] = 0]
  /\ UNCHANGED <<tlb, gone, commandLock, mailVars, handler, histVars>>

Call(c) ==
  Unmap(c) \/ LockTarget(c) \/ PostCmd(c) \/ PostAddr(c) \/ Tick(c) \/ WaitEnds(c)
  \/ Check(c) \/ Leave(c)
----------------------------------------------------------------------------
(***************************************************************************)
(* smp_tlb_ipi_handler on AP t                                             *)
(***************************************************************************)
TakeIpi(t) ==
  /\ Interruptible(t) /\ ipi[t]
  /\ ipi' = [ipi EXCEPT ![t] = FALSE]
  /\ tlbResp' = [tlbResp EXCEPT ![t] = FALSE]
  /\ handler' = [handler EXCEPT ![t] = IF tlbCmd[t] THEN "flush" ELSE "clear"]
  /\ UNCHANGED <<tlb, gone, lockVars, tlbCmd, tlbAddr, pc, callVars, histVars>>

Flush(t) ==
  /\ handler[t] = "flush"
  /\ tlb' = [tlb EXCEPT ![t] = @ \ {tlbAddr[t]}]
  /\ handler' = [handler EXCEPT ![t] = "ack"]
  /\ UNCHANGED <<gone, lockVars, mailVars, pc, callVars, histVars>>

AckFlush(t) ==
  /\ handler[t] = "ack"
  /\ tlbResp' = [tlbResp EXCEPT ![t] = TRUE]
  /\ handler' = [handler EXCEPT ![t] = "clear"]
  /\ UNCHANGED <<tlb, gone, lockVars, tlbCmd, tlbAddr, ipi, pc, callVars, histVars>>

(***************************************************************************)
(* The command is cleared after the answer is out: it may be the next one. *)
(***************************************************************************)
ClearCmd(t) ==
  /\ handler[t] = "clear"
  /\ tlbCmd' = [tlbCmd EXCEPT ![t] = FALSE]
  /\ handler' = [handler EXCEPT ![t] = "none"]
  /\ UNCHANGED <<tlb, gone, lockVars, tlbResp, tlbAddr, ipi, pc, callVars, histVars>>

Handle(t) == TakeIpi(t) \/ Flush(t) \/ AckFlush(t) \/ ClearCmd(t)

(***************************************************************************)
(* The top of the loop of ap_kernel_entry, interrupts off, takes           *)
(* command_lock too; there the core may find that it is to halt for good.  *)
(***************************************************************************)
LoopTop(t) ==
  /\ Interruptible(t)
  /\ pc' = [pc EXCEPT ![t] = "top"]
  /\ UNCHANGED <<tlb, gone, lockVars, mailVars, handler, callVars, histVars>>

LoopOn(t) ==
  /\ pc[t] = "top" /\ commandLock[t] = Nil
  /\ \E place \in {"run", "halted"} : pc' = [pc EXCEPT ![t] = place]
  /\ UNCHANGED <<tlb, gone, lockVars, mailVars, handler, callVars, histVars>>

Next ==
  \/ \E c \in Freeing : (\E p \in Pages : Free(c, p)) \/ Call(c)
  \/ \E t \in APs : Handle(t) \/ LoopTop(t) \/ LoopOn(t)

(***************************************************************************)
(* Every core executes, and an interrupt that can be taken is taken.       *)
(***************************************************************************)
Fairness ==
  /\ \A c \in Freeing : WF_vars(Call(c))
  /\ \A t \in APs : WF_vars(Handle(t)) /\ WF_vars(LoopOn(t))

Safety == Init /\ [][Next]_vars
Spec   == Safety /\ Fairness
----------------------------------------------------------------------------
(***************************************************************************)
(* Type invariant.                                                         *)
(***************************************************************************)
TypeOK ==
  /\ tlb \in [Cores -> SUBSET Pages]
  /\ gone \subseteq Pages
  /\ avmfLock \in Cores \cup {Nil}
  /\ commandLock \in [APs -> Cores \cup {Nil}]
  /\ tlbCmd \in [APs -> BOOLEAN]
  /\ tlbResp \in [APs -> BOOLEAN]
  /\ tlbAddr \in [APs -> Pages \cup {Nil}]
  /\ ipi \in [APs -> BOOLEAN]
  /\ handler \in [Cores -> {"none", "flush", "ack", "clear"}]
  /\ pc \in [Cores -> {"run", "top", "halted", "want", "lock", "cmd", "addr", "wait",
                       "check", "leave"}]
  /\ page \in [Cores -> Pages \cup {Nil}]
  /\ target \in [Cores -> APs]
  /\ waited \in [Cores -> 0 .. 2]
  /\ {missed, silent, givenUp} \subseteq BOOLEAN
  /\ behind \subseteq APs

(***************************************************************************)
(* The answer that ends a wait is to the request that was made: the page   *)
(* is out of the target's TLB, although the handler may still be at work on*)
(* the request before, and clear the new command.  Only a core that still  *)
(* had a given-up request to see may answer for that one instead.          *)
(***************************************************************************)
AnswerMeansFlushed ==
  \A c \in Cores :
    pc[c] = "wait" /\ tlbResp[target[c]] /\ target[c] \notin behind =>
      page[c] \notin tlb[target[c]]

(***************************************************************************)
(* The frame of a page is free for reuse once avmf_lock is.  If no request *)
(* went unanswered, no AP can then reach the frame through a TLB.          *)
(***************************************************************************)
FlushedWhenReusable ==
  avmfLock = Nil /\ ~missed => \A t \in APs : tlb[t] \cap gone = {}

(***************************************************************************)
(* Cores that wait for each other's answers, or for themselves, with       *)
(* interrupts off and locks held, get out of it: avmf_free returns.        *)
(***************************************************************************)
FreeReturns == \A c \in Freeing : pc[c] = "want" ~> pc[c] = "run"

(***************************************************************************)
(* "failed to check in on TLB Flush/Invlpage!" (smp.c:922): a request that *)
(* was given up has been reported by the time the lock is dropped.         *)
(***************************************************************************)
MissedShootdownReported == ~silent
============================================================================
