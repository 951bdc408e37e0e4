-------------------------------- MODULE Xhci --------------------------------
(***************************************************************************)
(* The xHCI driver (xhci-core.c): bringing one controller up, undoing it   *)
(* at any point, and its command and event rings with their cycle bits.    *)
(* The controller consumes commands in order and produces completions and  *)
(* port events.  The command ring ends in a link TRB whose cycle bit is    *)
(* set once, to 1; the controller follows it while that is its own cycle.  *)
(***************************************************************************)
EXTENDS Integers, FiniteSets

CONSTANTS Trbs,          \* trbs_per_page
          MaxCommands, MaxPortEvents

VARIABLES at,                          \* step of xhci_init; "up", "off"
          mem, given,                  \* structures allocated; told to the controller
          running, halting,            \* the controller runs; was told to stop
          cmdRing, cmdIndex, cmdCycle, \* TRBs as <<number, cycle>>; next; producer cycle
          evRing, evIndex, evCycle,    \* likewise, as <<kind, number, cycle>>
          sent, answer,                \* commands sent; last completion taken
          dIndex, dCycle,              \* the controller: next command, its cycle
          eIndex, eCycle, erdp, ports  \* next event, its cycle, ERDP; port events so far

ringVars == <<cmdRing, cmdIndex, cmdCycle, evRing, evIndex, evCycle, sent, answer,
              dIndex, dCycle, eIndex, eCycle, erdp, ports>>
xhciVars == <<at, mem, given, running, halting, ringVars>>

Structures == {"dcbaa", "commands", "events", "erst"}
CommandTrbs == 0 .. Trbs - 2              \* the link TRB is the last
Events == 0 .. Trbs - 1
Link == Trbs - 1

Init ==
  /\ at = "map" /\ mem = {} /\ given = FALSE /\ running \in BOOLEAN /\ halting = FALSE
  /\ cmdRing = [i \in CommandTrbs |-> <<0, 0>>] /\ evRing = [i \in Events |-> <<"none", 0, 0>>]
  /\ cmdIndex = 0 /\ cmdCycle = 1 /\ evIndex = 0 /\ evCycle = 1
  /\ sent = 0 /\ answer = 0
  /\ dIndex = 0 /\ dCycle = 1 /\ eIndex = 0 /\ eCycle = 1 /\ erdp = 0 /\ ports = 0

-----------------------------------------------------------------------------
Goes(from, to) == at = from /\ at' = to

\* destroy_n_unmap_xhci: RS is cleared; if HCH does not follow in 10 s, nothing
\* that the controller may still use is freed.
Unmapped == at' = "off" /\ UNCHANGED <<mem, given, running, halting>>
\* Mutant of StopTimesOut: everything is freed after the time-out as well.
FreesAnyway == at' = "off" /\ halting' = TRUE /\ mem' = {} /\ UNCHANGED <<given, running>>
StopTimesOut == at' = "off" /\ halting' = TRUE /\ UNCHANGED <<mem, given, running>>

Destroy == \/ /\ running' = FALSE /\ mem' = {} /\ at' = "off" /\ halting' = TRUE
              /\ UNCHANGED given
           \/ running /\ StopTimesOut

Fails(from) == at = from /\ Destroy /\ UNCHANGED ringVars

\* op_regs may not be known yet: then nothing is stopped, nothing was allocated.
MapMmio ==
  \/ Goes("map", "reset") /\ UNCHANGED <<mem, given, running, halting, ringVars>>
  \/ at = "map" /\ Unmapped /\ UNCHANGED ringVars
  \/ Fails("map")

Reset ==
  \/ Goes("reset", "dcbaa") /\ running' = FALSE /\ UNCHANGED <<mem, given, halting, ringVars>>
  \/ Fails("reset")

Allocate(from, what, to) ==
  \/ Goes(from, to) /\ mem' = mem \cup {what} /\ UNCHANGED <<given, running, halting, ringVars>>
  \/ Fails(from)

AllocateAll ==
  \/ Allocate("dcbaa", "dcbaa", "commands")
  \/ Allocate("commands", "commands", "events")
  \/ Allocate("events", "events", "erst")
  \/ Allocate("erst", "erst", "run")

\* RS set: the controller may run from here on, also if it is late.
Run == /\ Goes("run", "running") /\ given' = TRUE /\ running' = TRUE
       /\ UNCHANGED <<mem, halting, ringVars>>
Started == \/ Goes("running", "enable") /\ UNCHANGED <<mem, given, running, halting, ringVars>>
           \/ Fails("running")

\* Mutant of TogglesAtLink: cmd_cycle is not flipped where the ring wraps.
TogglesNever(c) == c
TogglesAtLink(c) == IF cmdIndex + 1 = Link THEN 1 - c ELSE c

\* xhci_send_cmd
SendCmd(from, to) ==
  /\ Goes(from, to) /\ sent < MaxCommands
  /\ cmdRing' = [cmdRing EXCEPT ![cmdIndex] = <<sent + 1, cmdCycle>>]
  /\ cmdIndex' = IF cmdIndex + 1 = Link THEN 0 ELSE cmdIndex + 1
  /\ cmdCycle' = TogglesAtLink(cmdCycle)
  /\ sent' = sent + 1 /\ answer' = 0
  /\ UNCHANGED <<mem, given, running, halting, evRing, evIndex, evCycle,
                 dIndex, dCycle, eIndex, eCycle, erdp, ports>>

EnableSlot == SendCmd("enable", "enabling")
Command == SendCmd("up", "waiting")

\* Mutant of EventToggles: event_cycle is not flipped where the ring wraps.
EventKept(c) == c
EventToggles(c) == IF evIndex + 1 = Trbs THEN 1 - c ELSE c

\* xhci_next_event: one event is taken and the ring handed back up to there.
NextEvent ==
  /\ evRing[evIndex][3] = evCycle
  /\ evIndex' = IF evIndex + 1 = Trbs THEN 0 ELSE evIndex + 1
  /\ evCycle' = EventToggles(evCycle)
  /\ erdp' = evIndex'
  /\ UNCHANGED <<mem, given, running, halting, cmdRing, cmdIndex, cmdCycle, evRing, sent,
                 dIndex, dCycle, eIndex, eCycle, ports>>

\* xhci_wait_cmd: other events are dropped, 5 s are the limit.
WaitCmd(from, to) ==
  \/ /\ at = from /\ NextEvent
     /\ IF evRing[evIndex][1] = "done"
          THEN answer' = evRing[evIndex][2] /\ at' = to
          ELSE UNCHANGED <<answer, at>>
  \/ Fails(from)

WaitSlot == WaitCmd("enabling", "ports")
WaitCommand == WaitCmd("waiting", "up")

\* The completion code is not 1, no device, or a port that does not come up.
FindPort == \/ Goes("ports", "up") /\ UNCHANGED <<mem, given, running, halting, ringVars>>
            \/ Fails("ports")

-----------------------------------------------------------------------------
(* The controller. *)

\* Where it goes on after following the link TRB, if it can.
AtLink == dIndex = Link
Produce(kind, n) ==
  /\ (IF eIndex + 1 = Trbs THEN 0 ELSE eIndex + 1) # erdp
  /\ evRing' = [evRing EXCEPT ![eIndex] = <<kind, n, eCycle>>]
  /\ eIndex' = IF eIndex + 1 = Trbs THEN 0 ELSE eIndex + 1
  /\ eCycle' = IF eIndex + 1 = Trbs THEN 1 - eCycle ELSE eCycle

FollowLink ==
  /\ running /\ AtLink /\ dCycle = 1
  /\ dIndex' = 0 /\ dCycle' = 0
  /\ UNCHANGED <<at, mem, given, running, halting, cmdRing, cmdIndex, cmdCycle, evRing, evIndex,
                 evCycle, sent, answer, eIndex, eCycle, erdp, ports>>

Execute ==
  /\ running /\ ~AtLink /\ sent > 0 /\ cmdRing[dIndex][2] = dCycle
  /\ Produce("done", cmdRing[dIndex][1])
  /\ dIndex' = dIndex + 1
  /\ UNCHANGED <<at, mem, given, running, halting, cmdRing, cmdIndex, cmdCycle, evIndex,
                 evCycle, sent, answer, dCycle, erdp, ports>>

PortEvent ==
  /\ running /\ at \notin {"map", "reset", "dcbaa"} /\ ports < MaxPortEvents
  /\ Produce("port", 0)
  /\ ports' = ports + 1
  /\ UNCHANGED <<at, mem, given, running, halting, cmdRing, cmdIndex, cmdCycle, evIndex,
                 evCycle, sent, answer, dIndex, dCycle, erdp>>

Halt ==
  /\ running /\ halting /\ running' = FALSE
  /\ UNCHANGED <<at, mem, given, halting, ringVars>>

Next ==
  \/ MapMmio \/ Reset \/ AllocateAll \/ Run \/ Started
  \/ EnableSlot \/ WaitSlot \/ FindPort \/ Command \/ WaitCommand
  \/ FollowLink \/ Execute \/ PortEvent \/ Halt

-----------------------------------------------------------------------------
(***************************************************************************)
(* Once the driver has handed the controller its rings, they stay allocated*)
(* for as long as the controller may run, wherever the start-up fails.     *)
(***************************************************************************)
HeldWhileRunning == running /\ given => mem = Structures

(***************************************************************************)
(* xhci_wait_cmd takes any command completion for its own; it is its own,  *)
(* across the ends of both rings and whatever port events come between.    *)
(***************************************************************************)
AnswerIsOwn == at \in {"up", "ports"} => answer = sent

(***************************************************************************)
(* A command that was sent can be seen by the controller, until the link   *)
(* TRB is met for the second time (510 commands): its cycle bit is then the*)
(* one of the first lap, and the controller stops there.                   *)
(***************************************************************************)
SentIsVisible ==
  at \in {"enabling", "waiting"} /\ answer = 0 /\ sent <= 2 * Cardinality(CommandTrbs) =>
    \/ \E i \in Events : evRing[i] = <<"done", sent, evRing[i][3]>>
    \/ IF AtLink THEN dCycle = 1 /\ cmdRing[0] = <<sent, 0>>
                 ELSE cmdRing[dIndex] = <<sent, dCycle>>
=============================================================================
