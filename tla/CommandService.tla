--------------------------- MODULE CommandService ---------------------------
(***************************************************************************)
(* What a synchronous command of a storage driver promises: the caller     *)
(* gets an answer only to its own command and only after the device has    *)
(* executed it; a command given up may still be executed, once.            *)
(***************************************************************************)
CONSTANT Commands

VARIABLES outcome,      \* per command: "new", "asked", "done" or "failed"
          executed      \* the commands the device has executed

vars == <<outcome, executed>>

Init == outcome = [c \in Commands |-> "new"] /\ executed = {}

Ask(c) == /\ outcome[c] = "new"
          /\ \A d \in Commands : outcome[d] # "asked"
          /\ outcome' = [outcome EXCEPT ![c] = "asked"]
          /\ UNCHANGED executed

Execute(c) == /\ outcome[c] \in {"asked", "failed"} /\ c \notin executed
              /\ executed' = executed \cup {c}
              /\ UNCHANGED outcome

Answer(c) == /\ outcome[c] = "asked" /\ c \in executed
             /\ outcome' = [outcome EXCEPT ![c] = "done"]
             /\ UNCHANGED executed

Fail(c) == /\ outcome[c] \in {"new", "asked"}
           /\ outcome' = [outcome EXCEPT ![c] = "failed"]
           /\ UNCHANGED executed

Next == \E c \in Commands : Ask(c) \/ Execute(c) \/ Answer(c) \/ Fail(c)

Spec == Init /\ [][Next]_vars
=============================================================================
