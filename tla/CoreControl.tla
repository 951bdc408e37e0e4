---------------------------- MODULE CoreControl ----------------------------
(***************************************************************************)
(* Commanding an application processor (Kernel/drivers/core/smp.c): one    *)
(* command and one response word per core, written under command_lock and  *)
(* read without it.  Controllers reserve, release, reset and shut down the *)
(* core; the core answers at the top of its loop, between two tasks, and   *)
(* commands itself when a task faults (src/kexceptions.c).                 *)
(*                                                                         *)
(* A step is one critical section of command_lock or the code between two. *)
(* Which tasks run is module TaskQueue; here a task begins, ends or faults.*)
(***************************************************************************)
EXTENDS Naturals

CONSTANTS Controllers,  \* processors that command this core
          MaxPosts      \* bound on the commands posted

ASSUME MaxPostsAssumption == MaxPosts \in Nat

VARIABLES command, response,    \* core->command, core->response
          status,       \* core->status
          idleStatus,   \* idle_status in ap_kernel_entry
          present,      \* cores[core_idx] # NULL
          ipi,          \* a wake-up IPI has been sent and not yet taken
          panics,       \* panic_depth[core_idx]
          apc,          \* where the core is
          pc,           \* where each controller is
          waited,       \* kget_ms_passed() - timeout of each, see Elapsed
          holds,        \* history: smp_reserve_core returned, not given back
          posts         \* history: number of commands posted

coreVars == <<idleStatus, panics, apc>>
vars == <<command, response, status, present, ipi, coreVars, pc, waited, holds, posts>>

Orders == {"SHUTDOWN", "RESERVE", "UNRESERVE"}

(***************************************************************************)
(* The waiting time of a controller: up to 1000 ms, up to 10000 ms, more.  *)
(***************************************************************************)
Elapsed == 0 .. 2
Late    == 2

----------------------------------------------------------------------------
(***************************************************************************)
(* smp_init has brought the core up.                                       *)
(***************************************************************************)
Init ==
  /\ command = "none" /\ response = "none"
  /\ status = "RUNNING" /\ idleStatus = "READY"
  /\ present = TRUE
  /\ ipi = FALSE
  /\ panics = 0
  /\ apc = "top"
  /\ pc = [c \in Controllers |-> "out"]
  /\ waited = [c \in Controllers |-> 0]
  /\ holds = [c \in Controllers |-> FALSE]
  /\ posts = 0
----------------------------------------------------------------------------
\* Mutant of Post: the answer to the command before is left in place.
PostKeepsResponse(order) ==
  /\ posts < MaxPosts
  /\ posts' = posts + 1
  /\ command' = order /\ UNCHANGED response
  /\ ipi' = (ipi \/ status # "RUNNING")

(***************************************************************************)
(* A command is written over whatever was there, and the core is woken     *)
(* unless it says that it is RUNNING.                                      *)
(***************************************************************************)
Post(order) ==
  /\ posts < MaxPosts
  /\ posts' = posts + 1
  /\ command' = order /\ response' = "none"
  /\ ipi' = (ipi \/ status # "RUNNING")

(***************************************************************************)
(* smp_reserve_core of a core that smp_get_first_free_core has found READY:*)
(* waits, without limit, for any answer.                                   *)
(***************************************************************************)
FindFree(c) ==
  /\ pc[c] = "out" /\ ~holds[c]
  /\ present /\ status = "READY"
  /\ pc' = [pc EXCEPT ![c] = "found"]
  /\ UNCHANGED <<command, response, status, present, ipi, coreVars, waited, holds, posts>>

Reserve(c) ==
  /\ pc[c] = "found" /\ present
  /\ Post("RESERVE")
  /\ pc' = [pc EXCEPT ![c] = "reserve"]
  /\ UNCHANGED <<status, present, coreVars, waited, holds>>

Reserved(c) ==
  /\ pc[c] = "reserve" /\ response # "none"
  /\ pc' = [pc EXCEPT ![c] = "out"]
  /\ holds' = [holds EXCEPT ![c] = TRUE]
  /\ UNCHANGED <<command, response, status, present, ipi, coreVars, waited, posts>>

(***************************************************************************)
(* smp_unreserve_core.                                                     *)
(***************************************************************************)
Unreserve(c) ==
  /\ pc[c] = "out" /\ holds[c] /\ present
  /\ Post("UNRESERVE")
  /\ pc' = [pc EXCEPT ![c] = "unreserve"]
  /\ holds' = [holds EXCEPT ![c] = FALSE]
  /\ UNCHANGED <<status, present, coreVars, waited>>

Unreserved(c) ==
  /\ pc[c] = "unreserve" /\ response # "none"
  /\ pc' = [pc EXCEPT ![c] = "out"]
  /\ UNCHANGED <<command, response, status, present, ipi, coreVars, waited, holds, posts>>

(***************************************************************************)
(* smp_shutdown_core and smp_reset_core begin alike: they wait for any     *)
(* answer for 10 s, then look at the clock again and take more than 1 s    *)
(* for a failure.                                                          *)
(***************************************************************************)
Stop(c) ==
  /\ pc[c] = "out" /\ present
  /\ Post("SHUTDOWN")
  /\ \E goal \in {"shutdown", "reset"} : pc' = [pc EXCEPT ![c] = goal]
  /\ waited' = [waited EXCEPT ![c] = 0]
  /\ UNCHANGED <<status, present, coreVars, holds>>

Tick(c) ==
  /\ pc[c] \in {"shutdown", "reset", "check_shutdown", "check_reset"}
  /\ waited[c] < Late
  /\ waited' = [waited EXCEPT ![c] = @ + 1]
  /\ UNCHANGED <<command, response, status, present, ipi, coreVars, pc, holds, posts>>

StopWaitEnds(c) ==
  /\ pc[c] \in {"shutdown", "reset"}
  /\ response # "none" \/ waited[c] = Late
  /\ pc' = [pc EXCEPT ![c] = IF @ = "reset" THEN "check_reset" ELSE "check_shutdown"]
  /\ UNCHANGED <<command, response, status, present, ipi, coreVars, waited, holds, posts>>

\* Mutant of StopChecked: the clock is not looked at.
StopUnchecked(c) ==
  /\ pc[c] \in {"check_shutdown", "check_reset"}
  /\ pc' = [pc EXCEPT ![c] = IF @ = "check_shutdown" THEN "free" ELSE "init"]
  /\ UNCHANGED <<command, response, status, present, ipi, coreVars, waited, holds, posts>>

StopChecked(c) ==
  /\ pc[c] \in {"check_shutdown", "check_reset"}
  /\ pc' = [pc EXCEPT ![c] = IF waited[c] > 0 THEN "out"
                             ELSE IF @ = "check_shutdown" THEN "free" ELSE "init"]
  /\ UNCHANGED <<command, response, status, present, ipi, coreVars, waited, holds, posts>>

(***************************************************************************)
(* The rest of smp_shutdown_core: threads and stacks are freed, the core   *)
(* is held in INIT, its core_state freed.                                  *)
(***************************************************************************)
FreeStacks(c) ==
  /\ pc[c] = "free"
  /\ pc' = [pc EXCEPT ![c] = "park"]
  /\ UNCHANGED <<command, response, status, present, ipi, coreVars, waited, holds, posts>>

Park(c) ==
  /\ pc[c] = "park"
  /\ apc' = "off"
  /\ pc' = [pc EXCEPT ![c] = "remove"]
  /\ UNCHANGED <<command, response, status, present, ipi, idleStatus, panics, waited,
                 holds, posts>>

Remove(c) ==
  /\ pc[c] = "remove"
  /\ present' = FALSE
  /\ pc' = [pc EXCEPT ![c] = "out"]
  /\ holds' = [d \in Controllers |-> FALSE]
  /\ UNCHANGED <<command, response, status, ipi, coreVars, waited, posts>>

(***************************************************************************)
(* The rest of smp_reset_core: INIT, then READY and no command, written    *)
(* with no lock, and the start-up IPI.  Whether the core checks in or not, *)
(* the caller goes on.                                                     *)
(***************************************************************************)
InitIpi(c) ==
  /\ pc[c] = "init"
  /\ apc' = "off"
  /\ ipi' = FALSE
  /\ pc' = [pc EXCEPT ![c] = "revive"]
  /\ UNCHANGED <<command, response, status, present, idleStatus, panics, waited, holds,
                 posts>>

Revive(c) ==
  /\ pc[c] = "revive"
  /\ status' = "READY"
  /\ command' = "none"
  /\ holds' = [d \in Controllers |-> FALSE]
  /\ pc' = [pc EXCEPT ![c] = "sipi"]
  /\ UNCHANGED <<response, present, ipi, coreVars, waited, posts>>

StartupIpi(c) ==
  /\ pc[c] = "sipi"
  /\ apc' = IF apc = "off" THEN "boot" ELSE apc
  /\ pc' = [pc EXCEPT ![c] = "checkin"]
  /\ UNCHANGED <<command, response, status, present, ipi, idleStatus, panics, waited,
                 holds, posts>>

CheckIn(c) ==
  /\ pc[c] = "checkin"
  /\ pc' = [pc EXCEPT ![c] = "out"]
  /\ UNCHANGED <<command, response, status, present, ipi, coreVars, waited, holds, posts>>

Answered(c) == Reserved(c) \/ Unreserved(c) \/ Tick(c) \/ StopWaitEnds(c) \/ StopChecked(c)

Carry(c) ==
  FreeStacks(c) \/ Park(c) \/ Remove(c) \/ InitIpi(c) \/ Revive(c) \/ StartupIpi(c) \/ CheckIn(c)

Controller(c) ==
  FindFree(c) \/ Reserve(c) \/ Unreserve(c) \/ Stop(c) \/ Answered(c) \/ Carry(c)
----------------------------------------------------------------------------
(***************************************************************************)
(* The core                                                                *)
(***************************************************************************)
Boot ==
  /\ apc = "boot"
  /\ status' = "RUNNING" /\ idleStatus' = "READY"
  /\ apc' = "top"
  /\ UNCHANGED <<command, response, present, ipi, panics, pc, waited, holds, posts>>

Ack == [SHUTDOWN |-> "ACK_SHUTDOWN", RESERVE |-> "ACK_RESERVE",
        UNRESERVE |-> "ACK_UNRESERVE"]

(***************************************************************************)
(* Under command_lock, interrupts off.  The command is not cleared, so it  *)
(* is obeyed and answered again in every round of the loop.                *)
(***************************************************************************)
Obey ==
  /\ apc = "top"
  /\ response' = IF command = "none" THEN response ELSE Ack[command]
  /\ idleStatus' = CASE command = "RESERVE"   -> "RESERVED"
                     [] command = "UNRESERVE" -> "READY"
                     [] OTHER                 -> idleStatus
  /\ apc' = IF command = "SHUTDOWN" THEN "halted" ELSE "look"
  /\ UNCHANGED <<command, status, present, ipi, panics, pc, waited, holds, posts>>

BeginTask ==
  /\ apc = "look"
  /\ apc' = "task"
  /\ UNCHANGED <<command, response, status, present, ipi, idleStatus, panics, pc, waited,
                 holds, posts>>

\* Mutant of Idle: an idle core is READY, whoever has reserved it.
IdleReady ==
  /\ apc = "look"
  /\ status' = "READY"
  /\ apc' = "hlt"
  /\ UNCHANGED <<command, response, present, ipi, idleStatus, panics, pc, waited, holds,
                 posts>>

Idle ==
  /\ apc = "look"
  /\ status' = idleStatus
  /\ apc' = "hlt"
  /\ UNCHANGED <<command, response, present, ipi, idleStatus, panics, pc, waited, holds,
                 posts>>

Awake ==
  /\ apc = "hlt"
  /\ status' = "RUNNING"
  /\ apc' = "top"
  /\ UNCHANGED <<command, response, present, idleStatus, panics, pc, waited, holds, posts>>

\* Mutant of WokenByTimer: the local APIC timer was not started on this core.
NoTimer == FALSE

WokenByIpi   == ipi /\ Awake /\ ipi' = FALSE
WokenByTimer == Awake /\ UNCHANGED ipi

(***************************************************************************)
(* An IPI that finds the core in a task is acknowledged and forgotten.     *)
(***************************************************************************)
AckInTask ==
  /\ apc = "task" /\ ipi
  /\ ipi' = FALSE
  /\ UNCHANGED <<command, response, status, present, coreVars, pc, waited, holds, posts>>

EndTask ==
  /\ apc = "task"
  /\ apc' = "top"
  /\ UNCHANGED <<command, response, status, present, ipi, idleStatus, panics, pc, waited,
                 holds, posts>>

\* Mutant of Fault: nested panics are not counted.
FaultUncounted ==
  /\ apc = "task"
  /\ panics' = panics + 1
  /\ command' = "SHUTDOWN" /\ response' = "none"
  /\ apc' = "self"
  /\ UNCHANGED <<status, present, ipi, idleStatus, pc, waited, holds, posts>>

(***************************************************************************)
(* aos_system_exception on this core: the first one makes the core call    *)
(* smp_reset_core on itself, a second one reboots the machine.  The post   *)
(* is not counted in posts: there is one at most.                          *)
(***************************************************************************)
Fault ==
  /\ apc = "task"
  /\ panics' = panics + 1
  /\ \/ /\ panics = 0
        /\ command' = "SHUTDOWN" /\ response' = "none"
        /\ apc' = "self"
     \/ /\ panics = 1
        /\ apc' = "reboot"
        /\ UNCHANGED <<command, response>>
  /\ UNCHANGED <<status, present, ipi, idleStatus, pc, waited, holds, posts>>

(***************************************************************************)
(* Only the core itself could answer, so it waits until the 10 s are over; *)
(* smp_reset_core gives up and smp_yield leads back to the loop.           *)
(***************************************************************************)
GiveUp ==
  /\ apc = "self" /\ response = "none"
  /\ apc' = "top"
  /\ UNCHANGED <<command, response, status, present, ipi, idleStatus, panics, pc, waited,
                 holds, posts>>

Core ==
  \/ Boot \/ Obey \/ BeginTask \/ Idle \/ WokenByIpi \/ WokenByTimer
  \/ AckInTask \/ EndTask \/ Fault \/ GiveUp

Next ==
  /\ apc # "reboot"
  /\ Core \/ \E c \in Controllers : Controller(c)

(***************************************************************************)
(* The core executes and its tasks end; a controller that has begun a call *)
(* goes on with it, and time passes.                                       *)
(***************************************************************************)
Fairness ==
  /\ WF_vars(Next /\ Core)
  /\ WF_vars(Next /\ (EndTask \/ Fault))
  /\ \A c \in Controllers : WF_vars(Next /\ (Answered(c) \/ Carry(c)))

Safety == Init /\ [][Next]_vars
Spec   == Safety /\ Fairness
----------------------------------------------------------------------------
(***************************************************************************)
(* Type invariant.                                                         *)
(***************************************************************************)
PlacesCore == {"top", "look", "task", "self", "hlt", "halted", "off", "boot", "reboot"}
PlacesControl == {"out", "found", "reserve", "unreserve", "shutdown", "reset",
                  "check_shutdown", "check_reset", "free", "park", "remove", "init",
                  "revive", "sipi", "checkin"}

TypeOK ==
  /\ command \in Orders \cup {"none"}
  /\ response \in {Ack[order] : order \in Orders} \cup {"none"}
  /\ status \in {"READY", "RESERVED", "RUNNING"}
  /\ idleStatus \in {"READY", "RESERVED"}
  /\ present \in BOOLEAN
  /\ ipi \in BOOLEAN
  /\ panics \in 0 .. 2
  /\ apc \in PlacesCore
  /\ pc \in [Controllers -> PlacesControl]
  /\ waited \in [Controllers -> Elapsed]
  /\ holds \in [Controllers -> BOOLEAN]
  /\ posts \in 0 .. MaxPosts

(***************************************************************************)
(* Everyone waits for "response # 0", not for its own answer.  It comes to *)
(* the same: a response never outlives the command it answers.             *)
(***************************************************************************)
AckMatches == command # "none" /\ response # "none" => response = Ack[command]

(***************************************************************************)
(* The stack, the threads and the core_state of a core are freed, and the  *)
(* core is put through INIT, only when it has left its loop for good: not  *)
(* while it runs a task, and not on an answer to something else.           *)
(* Holds when one processor does the commanding.                           *)
(***************************************************************************)
StoppedBeforeFreed ==
  \A c \in Controllers :
    pc[c] \in {"free", "park", "remove", "init"} => apc \in {"halted", "off"}

(***************************************************************************)
(* Once smp_reserve_core has returned, no smp_get_first_free_core finds    *)
(* the core, although the loop publishes a new status in every round.      *)
(***************************************************************************)
ReservationVisible == \A c \in Controllers : holds[c] => status # "READY"

(***************************************************************************)
(* A core that is waiting for itself is never answered.                    *)
(***************************************************************************)
SelfResetUnanswered == apc = "self" => response = "none"

(***************************************************************************)
(* smp_reserve_core, which has no time limit, returns, unless a fault has  *)
(* stopped the core or the machine.  The wake-up IPI alone would not do:   *)
(* the core publishes its status after the controller has looked.          *)
(***************************************************************************)
ReserveAnswered ==
  \A c \in Controllers :
    pc[c] = "reserve" ~> pc[c] # "reserve" \/ apc \in {"halted", "reboot"}

(***************************************************************************)
(* "RESETTING CORE" (kexceptions.c:232): after its first exception a core  *)
(* is taken through a reset and starts again.                              *)
(***************************************************************************)
FaultedCoreIsReset == apc = "self" ~> apc = "boot"
============================================================================
