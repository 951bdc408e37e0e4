--------------------------- MODULE SataController ---------------------------
(***************************************************************************)
(* sata_init, sata_port_init and sata_destroy (sata.c 50-326, 512-664):    *)
(* ports are brought up one after the other and all undone when one fails. *)
(* Commands on a port that is up are module SataPort.                      *)
(***************************************************************************)
EXTENDS Integers, Sequences

CONSTANTS Modules, Ports, Step, MaxControllers

VARIABLES table,      \* entries in use: module, valid, found, per-port state
          cap, idx,   \* entries allocated; per module its controller_idx or -1
          mem,        \* live port structures, as <<module, port, name>>
          on,         \* <<module, port>> whose engine may run (ST or FRE)
          stuck,      \* <<module, port>> that did not stop or become ready in time
          port        \* the port sata_init looks at, Ports after;
                      \* -1 and -3 before and after the mapping, -2 outside

sataInitVars == <<table, cap, idx, mem, on, stuck, port>>

Count == Len(table)
Last == table[Count]
\* clt_virts and the tables in it, clb_virt, fis_virt
Structures == {"tables", "list", "fis"}
Mine(i) == {Last.mod} \X {i} \X Structures

Init == /\ table = <<>> /\ cap = 0 /\ idx = [m \in Modules |-> -1]
        /\ mem = {} /\ on = {} /\ stuck = {} /\ port = -2

Grown == IF Count >= cap /\ Count < MaxControllers THEN cap + Step ELSE cap

Begin(m) ==
  /\ port = -2 /\ idx[m] = -1
  /\ \/ /\ Count < Grown
        /\ cap' = Grown
        /\ table' = Append(table, [mod |-> m, valid |-> FALSE, active |-> {}, ready |-> {}])
        /\ idx' = [idx EXCEPT ![m] = Count]
        /\ port' = -1
     \/ Count >= cap /\ UNCHANGED <<table, cap, idx, port>>
  /\ UNCHANGED <<mem, on, stuck>>

\* sata_port_stop: CR and FR clear within a second, or do not; no one looks.
Stops(ports, late) == /\ on' = on \ {x \in ports : x \notin late}
                      /\ stuck' = stuck \cup late

\* Mutant of StoppedByDestroy: what is freed was not stopped.
NoPort == {}
StoppedByDestroy == {Last.mod} \X Last.active

\* Mutant of FreedByDestroy: the FIS area is forgotten.
FreedButFis == {x \in mem : x[1] = Last.mod /\ x[3] # "fis"}
FreedByDestroy == {x \in mem : x[1] = Last.mod}

\* Active ports are stopped; what every port has is freed.
Destroy ==
  /\ \E late \in SUBSET StoppedByDestroy : Stops(StoppedByDestroy, late)
  /\ mem' = mem \ FreedByDestroy
  /\ table' = SubSeq(table, 1, Count - 1)
  /\ port' = -2
  /\ UNCHANGED <<cap, idx>>

MapBar == \/ port = -1 /\ port' = -3 /\ UNCHANGED <<table, cap, idx, mem, on, stuck>>
          \/ port = -1 /\ Destroy

\* Reset in time, 64-bit DMA, not more ports than the driver has room for.
ResetHba ==
  \/ port = -3 /\ port' = 0 /\ UNCHANGED <<table, cap, idx, mem, on, stuck>>
  \/ port = -3 /\ Destroy

\* Not implemented, no device, or not a disk: the next port.  FRE stays set on
\* a port that was reset and is then found to be something else.
SkipPort ==
  /\ port \in 0 .. Ports - 1
  /\ port' = port + 1
  /\ UNCHANGED <<table, cap, idx, mem, on, stuck>>

PortUp ==
  /\ port \in 0 .. Ports - 1
  /\ mem' = mem \cup Mine(port)
  /\ on' = on \cup {<<Last.mod, port>>}
  /\ table' = [table EXCEPT ![Count].active = @ \cup {port}, ![Count].ready = @ \cup {port}]
  /\ port' = port + 1
  /\ UNCHANGED <<cap, idx, stuck>>

\* The stop, the busy wait or an allocation fails: sata_port_init frees what it
\* has and sata_init gives up the controller.
PortDown == port \in 0 .. Ports - 1 /\ Destroy

\* The engine is started and the port stays busy: the structures are freed and,
\* as active is not set yet, sata_destroy does not stop the port.
PortBusy ==
  /\ port \in 0 .. Ports - 1
  /\ \E late \in SUBSET StoppedByDestroy :
       /\ on' = (on \ {x \in StoppedByDestroy : x \notin late}) \cup {<<Last.mod, port>>}
       /\ stuck' = stuck \cup late \cup {<<Last.mod, port>>}
  /\ mem' = mem \ FreedByDestroy
  /\ table' = SubSeq(table, 1, Count - 1)
  /\ port' = -2
  /\ UNCHANGED <<cap, idx>>

Finish ==
  /\ port = Ports
  /\ IF Last.ready # {}
       THEN /\ table' = [table EXCEPT ![Count].valid = TRUE] /\ port' = -2
            /\ UNCHANGED <<cap, idx, mem, on, stuck>>
       ELSE Destroy

Next == \/ \E m \in Modules : Begin(m)
        \/ MapBar \/ ResetHba \/ SkipPort \/ PortUp \/ PortDown \/ PortBusy \/ Finish

-----------------------------------------------------------------------------
GetPcie(i) == i \in 0 .. Count - 1 /\ table[i + 1].valid
AvailablePort(i, p) == GetPcie(i) /\ p \in table[i + 1].ready
MayRead(i, p) == GetPcie(i) /\ p \in table[i + 1].active

(***************************************************************************)
(* An engine that runs has its command list, tables and FIS area: they are *)
(* freed only after the port was told to stop.  The exceptions are ports   *)
(* that did not stop, or stayed busy after the start, within their second. *)
(***************************************************************************)
EngineOverHeld ==
  \A x \in on \ stuck : {x[1]} \X {x[2]} \X Structures \subseteq mem

(***************************************************************************)
(* After sata_init, the ports of valid controllers are what is allocated,  *)
(* and a port that is reported is one that can be read.                    *)
(***************************************************************************)
PortsWhole ==
  port = -2 =>
    /\ mem = UNION {{table[i].mod} \X table[i].active \X Structures : i \in 1 .. Count}
    /\ \A i \in 0 .. Count - 1 : table[i + 1].valid /\ table[i + 1].ready # {}
    /\ \A i \in 0 .. Count, p \in 0 .. Ports : AvailablePort(i, p) <=> MayRead(i, p)
=============================================================================
