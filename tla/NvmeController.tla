--------------------------- MODULE NvmeController ---------------------------
(***************************************************************************)
(* nvme_init and its undoing (nvme.c): the table of controllers and what is*)
(* allocated for each.  An admin command (module NvmeQueue) succeeds, or   *)
(* fails because the device refuses it or does not answer.                 *)
(***************************************************************************)
EXTENDS Integers, Sequences

CONSTANTS Devices, Step, MaxControllers, MaxNamespaces

VARIABLES table,      \* entries in use: device, valid, allocations it points to,
                      \* namespace_count and the namespaces marked valid
          cap,        \* entries allocated for the table, 0 before the first
          idx,        \* per module: controller_idx, -1 before nvme_init
          mem,        \* live allocations
          at,         \* where nvme_init is, "" when it is not under way
          nn          \* namespaces the controller reports

nvmeInitVars == <<table, cap, idx, mem, at, nn>>

Namespaces == 1 .. MaxNamespaces
Ns(n) == <<"ns", n>>
Identity == <<"identity", 0>>
AdminQueue == {<<"asq", 0>>, <<"acq", 0>>}
IoQueue == {<<"iosq", 1>>, <<"iocq", 1>>}
Count == Len(table)
Last == table[Count]
Of(e, parts) == {e.dev} \X parts

Init ==
  /\ table = <<>> /\ cap = 0 /\ at = "" /\ nn = 0 /\ mem = {}
  /\ idx = [d \in Devices |-> -1]

\* The table is allocated, or moved to a larger one; there may be no memory,
\* or as many controllers as there may be.
Grown == IF Count >= cap /\ Count < MaxControllers THEN cap + Step ELSE cap

Begin(d) ==
  /\ at = "" /\ idx[d] = -1
  /\ \/ /\ Count < Grown
        /\ cap' = Grown
        /\ table' = Append(table, [dev |-> d, valid |-> FALSE, parts |-> {},
                                   ns |-> 0, good |-> {}])
        /\ idx' = [idx EXCEPT ![d] = Count]
        /\ at' = "map"
     \/ Count >= cap /\ UNCHANGED <<cap, table, idx, at>>
  /\ UNCHANGED <<mem, nn>>

\* Mutant of Frees: the identities of controller and namespaces are forgotten.
FreesQueuesOnly(e) == e.parts \cap (AdminQueue \cup IoQueue)

\* Every failure of nvme_init ends in nvme_destroy.  A namespace is freed if it
\* is valid; the entry is the last one and goes.
Frees(e) == {p \in e.parts : p[1] = "ns" => p[2] \in e.good}

Destroy ==
  /\ mem' = mem \ Of(Last, Frees(Last))
  /\ table' = SubSeq(table, 1, Count - 1)
  /\ at' = "" /\ nn' = 0
  /\ UNCHANGED <<cap, idx>>

Gains(parts, to) ==
  /\ mem' = mem \cup Of(Last, parts)
  /\ table' = [table EXCEPT ![Count].parts = @ \cup parts]
  /\ at' = to
  /\ UNCHANGED <<cap, idx, nn>>

Goes(from, to) == at = from /\ at' = to /\ UNCHANGED <<table, cap, idx, mem, nn>>
Fails(from) == at = from /\ Destroy

\* Not aligned, not memory, too small, no room for the doorbells.
MapBar == Goes("map", "disable") \/ Fails("map")

\* CC.EN cleared and set, with 10 s for the answer and a look at CSTS.CFS.
Disable == Goes("disable", "admin") \/ Fails("disable")
Enable == Goes("enable", "ioqueue") \/ Fails("enable")

\* Both rings or none: what was allocated before a failure is freed at once.
SetupAdminQueue == \/ at = "admin" /\ Gains(AdminQueue, "enable")
                   \/ Fails("admin")

SetupIoQueue == \/ at = "ioqueue" /\ Gains(IoQueue, "create_cq")
                \/ Fails("ioqueue")

\* A queue the device does not take is freed, and its pointers cleared, before
\* nvme_destroy sees them.
DropIoQueue ==
  /\ mem' = mem \ (Of(Last, IoQueue) \cup Of(Last, Frees(Last)))
  /\ table' = SubSeq(table, 1, Count - 1)
  /\ at' = "" /\ nn' = 0
  /\ UNCHANGED <<cap, idx>>

CreateIoCq == Goes("create_cq", "create_sq") \/ (at = "create_cq" /\ DropIoQueue)
CreateIoSq == Goes("create_sq", "identify") \/ (at = "create_sq" /\ DropIoQueue)

\* The buffer of a command that fails is freed by nvme_identify_*.
IdentifyController ==
  \/ /\ at = "identify"
     /\ \E n \in 1 .. MaxNamespaces + 1 :
          /\ mem' = mem \cup Of(Last, {Identity})
          /\ table' = [table EXCEPT ![Count].parts = @ \cup {Identity}]
          /\ at' = "namespaces" /\ nn' = n
     /\ UNCHANGED <<cap, idx>>
  \/ Fails("identify")

\* namespace_count is raised first, valid set last.
Marks(e, n) == [e EXCEPT !.ns = n, !.parts = @ \cup {Ns(n)}, !.good = @ \cup {n}]

IdentifyNamespace ==
  /\ at = "namespaces" /\ Last.ns < nn /\ Last.ns < MaxNamespaces
  /\ LET n == Last.ns + 1 IN
       \/ /\ mem' = mem \cup Of(Last, {Ns(n)})
          /\ table' = [table EXCEPT ![Count] = Marks(@, n)]
          /\ UNCHANGED <<cap, idx, at, nn>>
       \/ Destroy

Finish ==
  /\ at = "namespaces" /\ (Last.ns = nn \/ Last.ns = MaxNamespaces)
  /\ table' = [table EXCEPT ![Count].valid = TRUE]
  /\ at' = "" /\ nn' = 0
  /\ UNCHANGED <<cap, idx, mem>>

Next ==
  \/ \E d \in Devices : Begin(d)
  \/ MapBar \/ Disable \/ SetupAdminQueue \/ Enable
  \/ SetupIoQueue \/ CreateIoCq \/ CreateIoSq
  \/ IdentifyController \/ IdentifyNamespace \/ Finish

-----------------------------------------------------------------------------
(* The queries of the drive layer; a port is an index into namespaces[]. *)

GetPcie(i) == i \in 0 .. Count - 1 /\ table[i + 1].valid

AvailablePort(i, port) ==
  /\ i < Count /\ table[i + 1].valid /\ table[i + 1].ns >= 1
  /\ port < table[i + 1].ns
  /\ port + 1 \in table[i + 1].good

GetBlockDevice(i, port) ==
  /\ GetPcie(i) /\ Identity \in table[i + 1].parts
  /\ port < table[i + 1].ns
  /\ port + 1 \in table[i + 1].good /\ Ns(port + 1) \in table[i + 1].parts

(***************************************************************************)
(* nvme_init can fail at a dozen places, each with its own frees: when it  *)
(* is over, what is allocated is what the controllers in the table point   *)
(* to, they are valid and have all they need, and every namespace counted  *)
(* is reported as available and can be opened.                             *)
(***************************************************************************)
NothingLeaked ==
  at = "" => /\ mem = UNION {Of(table[i], table[i].parts) : i \in 1 .. Count}
             /\ \A i \in 1 .. Count : table[i].valid

NoDanglingPointer == \A i \in 1 .. Count : Of(table[i], table[i].parts) \subseteq mem

ControllersWhole ==
  /\ NothingLeaked /\ NoDanglingPointer
  /\ \A i \in 1 .. Count : table[i].valid =>
       /\ AdminQueue \cup IoQueue \cup {Identity, Ns(1)} \subseteq table[i].parts
       /\ \A port \in 0 .. MaxNamespaces :
            /\ AvailablePort(i - 1, port) <=> port < table[i].ns
            /\ GetBlockDevice(i - 1, port) <=> port < table[i].ns
=============================================================================
