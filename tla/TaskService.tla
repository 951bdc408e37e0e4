---------------------------- MODULE TaskService ----------------------------
(***************************************************************************)
(* What smp_push_task promises its caller, and nothing of how: a task that *)
(* was handed to a core is started there, once.  The order in which a core *)
(* starts its tasks is left open.                                          *)
(***************************************************************************)
EXTENDS Naturals

CONSTANT Tasks

VARIABLES waiting,      \* handed over and not yet started
          starts        \* how often entry(arg) was called on the target core

vars == <<waiting, starts>>

Init == waiting = {} /\ starts = [k \in Tasks |-> 0]

Submit(k) == /\ k \notin waiting /\ starts[k] = 0
             /\ waiting' = waiting \cup {k}
             /\ UNCHANGED starts

Start(k) == /\ k \in waiting
            /\ waiting' = waiting \ {k}
            /\ starts' = [starts EXCEPT ![k] = @ + 1]

Next == \E k \in Tasks : Submit(k) \/ Start(k)

Safety == Init /\ [][Next]_vars

(***************************************************************************)
(* Every task that waits is eventually started.                            *)
(***************************************************************************)
Spec == Safety /\ \A k \in Tasks : WF_vars(Start(k))
============================================================================
