--------------------------- MODULE ModuleRegistry ---------------------------
(***************************************************************************)
(* The drivers the kernel is built with, the PCI scan that registers a copy*)
(* of one for each function it fits, and the searches for the boot drive   *)
(* and the display (module.c, pcie.c, drive.c, gpu.c).                     *)
(***************************************************************************)
EXTENDS Integers, FiniteSets, Sequences

CONSTANTS Functions,   \* how many PCI functions there are
          Step         \* entries the table grows by (16)

VARIABLES bus,         \* the functions that were scanned, in order
          boot,        \* boot_drive: the place the boot loader wrote down
          pos,         \* the next function of the scan
          reg, cap,    \* registered_modules; Hole is NULL
          live, ready, \* the copies in memory, and those whose init succeeded
          works,       \* the SATA controllers with a usable port
          drive, any, gpu   \* what the searches gave: a copy, LegacyAta or Failed

registryVars == <<bus, boot, pos, reg, cap, live, ready, works, drive, any, gpu>>

Unasked == "any"
NotSearched == -1
Failed == 0
LegacyAta == Functions + 1
Hole == [at |-> 0, type |-> "hole"]

Driver(type, class, sub, progif, vendor, early) ==
  [type |-> type, class |-> class, sub |-> sub, progif |-> progif, vendor |-> vendor,
   early |-> early]

\* modules_init
Drivers ==
  <<Driver("sata", "storage", "ahci", "ahci", Unasked, TRUE),
    Driver("nvme", "storage", "nvme", "nvme", Unasked, TRUE),
    Driver("gpu", "display", "vga", Unasked, "virtio", FALSE),
    Driver("xhci", "serial", "usb", "xhci", Unasked, TRUE)>>

Function(class, sub, progif, vendor) ==
  [class |-> class, sub |-> sub, progif |-> progif, vendor |-> vendor]

Kinds ==
  {Function("storage", "ahci", "ahci", "other"), Function("storage", "ahci", "raid", "other"),
   Function("storage", "nvme", "nvme", "other"), Function("display", "vga", "vga", "virtio"),
   Function("display", "vga", "vga", "other"), Function("serial", "usb", "xhci", "other")}

Init ==
  /\ bus = <<>> /\ boot \in 1..Functions /\ pos = 1
  /\ reg = <<>> /\ cap = 0 /\ live = {} /\ ready = {}
  /\ works \in {{}, {boot}}
  /\ drive = NotSearched /\ any = NotSearched /\ gpu = NotSearched

-----------------------------------------------------------------------------
(* Choosing a driver: the class is compared always, the rest when asked for. *)

Agree(asked, has) == asked = Unasked \/ has = Unasked \/ asked = has

Fits(d, q) ==
  /\ d.class = q.class
  /\ q.sub # Unasked => d.sub = q.sub
  /\ Agree(q.progif, d.progif) /\ Agree(q.vendor, d.vendor)

\* module_get_applicable_driver and its three siblings: of the places that fit the one that
\* has n before it, which is what found_count counts.
Nth(s, fitting, n) ==
  LET hits == {i \in fitting : Cardinality({j \in fitting : j < i}) = n} IN
  IF hits = {} THEN Hole ELSE s[CHOOSE i \in hits : TRUE]

ApplicableDriver(q, n) == Nth(Drivers, {i \in 1..Len(Drivers) : Fits(Drivers[i], q)}, n)

\* The registered ones; a hole would be read through, so there must be none.
ApplicableRegistered(q, n) == Nth(reg, {i \in 1..Len(reg) : Fits(reg[i].driver, q)}, n)

Holes == {i \in 1..Len(reg) : reg[i] = Hole}

-----------------------------------------------------------------------------
(* module_register: a hole is filled first; a table that cannot grow refuses. *)

FirstHole == CHOOSE i \in Holes : \A j \in Holes : i <= j

Register(m) ==
  \/ Holes # {} /\ reg' = [reg EXCEPT ![FirstHole] = m] /\ UNCHANGED cap
  \/ /\ Holes = {}
     /\ \/ Len(reg) < cap /\ reg' = Append(reg, m) /\ UNCHANGED cap
        \/ Len(reg) >= cap /\ cap' = cap + Step /\ reg' = Append(reg, m)
        \/ Len(reg) >= cap /\ UNCHANGED <<reg, cap>>

\* module_unregister, module_unregister_dealloc, of a driver nobody uses yet.
Unregister(m, dealloc) ==
  /\ drive = NotSearched /\ any = NotSearched /\ gpu = NotSearched
  /\ reg' = [i \in 1..Len(reg) |-> IF reg[i] = m THEN Hole ELSE reg[i]]
  /\ live' = IF dealloc THEN live \ {m.at} ELSE live
  /\ UNCHANGED <<bus, boot, pos, cap, ready, works, drive, any, gpu>>

\* A driver that does not start is freed and not registered.
FailedInit == UNCHANGED <<reg, cap, live, ready>>

\* pcie_init, one function of the scan. The copy's own address is its identity, so
\* module_already_initialized never finds it; what could not be registered stays.
Scan(f) ==
  /\ pos <= Functions /\ pos' = pos + 1 /\ bus' = Append(bus, f)
  /\ LET d == ApplicableDriver(f, 0)
         m == [at |-> pos, type |-> d.type, driver |-> d] IN
       \/ UNCHANGED <<reg, cap, live, ready>>         \* no driver, or no memory for it
       \/ /\ d # Hole /\ live' = live \cup {pos}
          /\ ready' = IF d.early THEN ready \cup {pos} ELSE ready
          /\ Register(m)
       \/ d # Hole /\ d.early /\ FailedInit
  /\ UNCHANGED <<boot, works, drive, any, gpu>>

-----------------------------------------------------------------------------
(* The searches, after the scan. *)

Scanned == pos > Functions /\ Holes = {}

Storage == [class |-> "storage", sub |-> Unasked, progif |-> Unasked, vendor |-> Unasked]
Display == [class |-> "display", sub |-> "vga", progif |-> Unasked, vendor |-> Unasked]

\* set_sata: the first usable port of the controller, if it answers.
SetSata(m) == IF m.at \in works THEN m.at ELSE Failed

\* set_legacy_ata: a disk may answer, or none.
SetLegacyAta == {LegacyAta, Failed}

\* Mutant of Candidates: the search ends at the first storage driver.
FirstCandidate == [i \in {1} |-> ApplicableRegistered(Storage, i - 1)]

\* One call of module_get_applicable_registered_driver for each entry of the table.
Candidates == [i \in 1..Len(reg) |-> ApplicableRegistered(Storage, i - 1)]

\* get_available_drives_pcie: only SATA is supported, and the first match decides.
FindBootDrive ==
  /\ Scanned
  /\ LET matching == {i \in DOMAIN Candidates :
                         Candidates[i].at = boot /\ Candidates[i].type = "sata"}
         m == Nth(Candidates, matching, 0) IN
       drive' = IF m = Hole THEN Failed ELSE SetSata(m)
  /\ UNCHANGED <<bus, boot, pos, reg, cap, live, ready, works, any, gpu>>

\* get_available_drives: the first storage driver, or the legacy ATA disk.
FindAnyDrive ==
  /\ Scanned
  /\ LET m == ApplicableRegistered(Storage, 0) IN
       any' \in CASE m = Hole -> SetLegacyAta
                  [] m.type = "sata" -> {SetSata(m)}
                  [] OTHER -> {Failed}
  /\ UNCHANGED <<bus, boot, pos, reg, cap, live, ready, works, drive, gpu>>

\* gpu_find_gpu
FindGpu ==
  /\ Scanned
  /\ gpu' = ApplicableRegistered(Display, 0).at
  /\ UNCHANGED <<bus, boot, pos, reg, cap, live, ready, works, drive, any>>

Next ==
  \/ \E f \in Kinds : Scan(f)
  \/ FindBootDrive \/ FindAnyDrive \/ FindGpu
  \/ \E i \in 1..Len(reg), dealloc \in BOOLEAN :
       reg[i] # Hole /\ Unregister(reg[i], dealloc)

-----------------------------------------------------------------------------
(***************************************************************************)
(* The table holds every driver once, started if it starts early and never *)
(* one that was freed; and the search for the boot drive gives the started *)
(* SATA controller at the place the boot loader named whenever it is       *)
(* registered and has a usable port, wherever in the table it stands.      *)
(***************************************************************************)
Registered == {reg[i] : i \in 1..Len(reg)} \ {Hole}

RegistryWhole ==
  /\ Len(reg) <= cap
  /\ \A i, j \in 1..Len(reg) : reg[i] = reg[j] /\ reg[i] # Hole => i = j
  /\ \A m \in Registered : m.at \in live /\ (m.driver.early => m.at \in ready)
  /\ \A m \in Registered : m.driver.class = bus[m.at].class

BootDriveFound ==
  /\ drive > Failed => \E m \in Registered : m.at = drive /\ m.type = "sata" /\ drive = boot
  /\ drive = Failed => \A m \in Registered : m.at = boot /\ m.type = "sata" => boot \notin works

DriversRight == RegistryWhole /\ BootDriveFound
=============================================================================
