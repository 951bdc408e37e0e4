-------------------------------- MODULE Acpi --------------------------------
(***************************************************************************)
(* acpi.c: the search for the root pointer, its tables (XSDT, RSDT, MADT,  *)
(* MCFG, FADT), the delay by the PM timer that the clock is calibrated     *)
(* with, and the reboot. All of it but the reboot holds acpi_lock.         *)
(***************************************************************************)
EXTENDS Integers, Sequences, FiniteSets

CONSTANTS Low, High,      \* a round of the PM timer: 2^24 and 2^32 in the code
          MaxDelay        \* bound: ticks waited for

VARIABLES map,            \* the memory map: for each entry its type and what it holds
          bios,           \* what the BIOS area holds
          at, i,          \* search, root, tables, madt, ready, delay, ..., panic; place in a list
          rsdp,           \* the root pointer found
          tables,         \* the tables it leads to
          madt,           \* the MADT that is read, and the entry the loop is at
          ids,            \* apic_ids[0 .. apic_id_count - 1]; an id is the entry's place
          fadt,           \* fadt_table: found?, pm_timer_port # 0, pm_timer_24bit
          ecam,           \* segments mapped for PCIe
          now, begun,     \* ticks that have passed, when the delay began
          last, elapsed, needed

acpiVars == <<map, bios, at, i, rsdp, tables, madt, ids, fadt, ecam, now, begun, last, elapsed,
              needed>>

\* Sixteen bytes: anything, a pointer with a wrong sum, or one of either revision.
Candidates == {"other", "badSum", "v1", "v2"}

\* An entry of the MADT: a processor that is enabled or not, or something else.
MadtEntries == {"enabled", "disabled", "other"}

Table ==
  [kind : {"APIC"}, list : UNION {[1..n -> MadtEntries] : n \in 0..2}]
    \cup [kind : {"FACP"}, wide : BOOLEAN, port : BOOLEAN]
    \cup [kind : {"MCFG"}, count : 0..1] \cup [kind : {"other"}]

\* Bound: at most two tables; firmware has one of a kind.
Tables ==
  {ts \in UNION {[1..n -> Table] : n \in 0..2} : Len(ts) = 2 => ts[1].kind # ts[2].kind}

Init ==
  /\ map \in UNION {[1..n -> [type : {"reserved", "usable"}, holds : Candidates]] : n \in 0..1}
  /\ bios \in Candidates
  /\ at = "search" /\ i = 1 /\ rsdp = "none"
  /\ tables = <<>> /\ madt = [list |-> <<>>, k |-> 1] /\ ids = <<>>
  /\ fadt = [found |-> FALSE, port |-> FALSE, narrow |-> TRUE] /\ ecam = 0
  /\ now = 0 /\ begun = 0 /\ last = 0 /\ elapsed = 0 /\ needed = 0

TimeKept == UNCHANGED <<now, begun, last, elapsed, needed>>

-----------------------------------------------------------------------------
(* The root pointer *)

\* The first 20 bytes sum to 0, and all 36 from revision 2 on.
Sums(c) == c \in {"v1", "v2"}

SearchMap ==
  /\ at = "search" /\ i <= Len(map)
  /\ IF map[i].type # "usable" /\ Sums(map[i].holds)
     THEN rsdp' = map[i].holds /\ at' = "root" /\ UNCHANGED i
     ELSE i' = i + 1 /\ UNCHANGED <<at, rsdp>>
  /\ TimeKept /\ UNCHANGED <<map, bios, tables, madt, ids, fadt, ecam>>

\* The EBDA is never looked at: its first address is in the direct map, its last is not.
SearchBios ==
  /\ at = "search" /\ i > Len(map)
  /\ IF Sums(bios) THEN rsdp' = bios /\ at' = "root" ELSE at' = "panic" /\ UNCHANGED rsdp
  /\ TimeKept /\ UNCHANGED <<map, bios, i, tables, madt, ids, fadt, ecam>>

-----------------------------------------------------------------------------
(* The tables *)

\* XSDT or RSDT: with a wrong sum the kernel has no tables, and goes on.
ParseRoot(sound, ts) ==
  /\ at = "root" /\ at' = "tables" /\ i' = 1
  /\ tables' = IF sound THEN ts ELSE <<>>
  /\ TimeKept /\ UNCHANGED <<map, bios, rsdp, madt, ids, fadt, ecam>>

Xsdt(sound, ts) == rsdp = "v2" /\ ParseRoot(sound, ts)
Rsdt(sound, ts) == rsdp = "v1" /\ ParseRoot(sound, ts)

AtTable(kind) == at = "tables" /\ i <= Len(tables) /\ tables[i].kind = kind

ParseMcfg ==
  /\ AtTable("MCFG") /\ i' = i + 1
  /\ ecam' = ecam + tables[i].count
  /\ TimeKept /\ UNCHANGED <<map, bios, at, rsdp, tables, madt, ids, fadt>>

\* Mutant of TimerInit: the width the flag means is the other one.
TimerInitSwapped(t) == [found |-> TRUE, port |-> t.port, narrow |-> t.wide]

\* pm_timer_24bit is 1 from the start; the flag is a 32-bit timer.
TimerInit(t) == [found |-> TRUE, port |-> t.port, narrow |-> fadt.narrow /\ ~t.wide]

ParseFadt ==
  /\ AtTable("FACP") /\ i' = i + 1
  /\ fadt' = TimerInit(tables[i])
  /\ TimeKept /\ UNCHANGED <<map, bios, at, rsdp, tables, madt, ids, ecam>>

SkipTable ==
  /\ AtTable("other") /\ i' = i + 1
  /\ TimeKept /\ UNCHANGED <<map, bios, at, rsdp, tables, madt, ids, fadt, ecam>>

ParseMadt ==
  /\ AtTable("APIC") /\ at' = "madt" /\ i' = i + 1
  /\ madt' = [list |-> tables[i].list, k |-> 1]
  /\ TimeKept /\ UNCHANGED <<map, bios, rsdp, tables, ids, fadt, ecam>>

MadtEntry ==
  /\ at = "madt" /\ madt.k <= Len(madt.list)
  /\ madt' = [madt EXCEPT !.k = @ + 1]
  /\ ids' = IF madt.list[madt.k] = "enabled" THEN Append(ids, madt.k) ELSE ids
  /\ TimeKept /\ UNCHANGED <<map, bios, at, i, rsdp, tables, fadt, ecam>>

MadtEnd ==
  /\ at = "madt" /\ madt.k > Len(madt.list) /\ at' = "tables"
  /\ TimeKept /\ UNCHANGED <<map, bios, i, rsdp, tables, madt, ids, fadt, ecam>>

Ready ==
  /\ at = "tables" /\ i > Len(tables) /\ at' = "ready"
  /\ TimeKept /\ UNCHANGED <<map, bios, i, rsdp, tables, madt, ids, fadt, ecam>>

-----------------------------------------------------------------------------
(* The PM timer *)

\* The device's counter is as wide as the FADT says.
Wide == \E k \in 1..Len(tables) : tables[k].kind = "FACP" /\ tables[k].wide
Round == IF Wide THEN High ELSE Low

TimerRead(t) == IF fadt.port THEN t % Round ELSE 0

TablesKept == UNCHANGED <<map, bios, i, rsdp, tables, madt, ids, fadt, ecam>>

Delay(ticks) ==
  /\ at = "ready" /\ at' = "delay"
  /\ needed' = ticks /\ elapsed' = 0
  /\ \E t \in 0..High - 1 : now' = t /\ begun' = t /\ last' = TimerRead(t)
  /\ TablesKept

\* What a pass of the loop adds for a counter that went from last to current.
Passed(current) ==
  IF current >= last THEN current - last
  ELSE current + (IF fadt.narrow THEN Low ELSE High) - last

\* Passes follow each other within a round of the counter. Without a timer both readings
\* are 0, and the loop goes on for ever with acpi_lock held.
Poll(step) ==
  /\ at = "delay" /\ elapsed < needed
  /\ IF fadt.port
     THEN /\ now' = now + step
          /\ elapsed' = elapsed + Passed(TimerRead(now + step))
          /\ last' = TimerRead(now + step)
     ELSE UNCHANGED <<now, elapsed, last>>
  /\ UNCHANGED <<at, begun, needed>> /\ TablesKept

Delayed ==
  /\ at = "delay" /\ elapsed >= needed /\ at' = "delayed"
  /\ TimeKept /\ TablesKept

-----------------------------------------------------------------------------
(* Reboot: the kernel log and the processors first; each way may fail. *)

Reboot ==
  /\ at = "ready" /\ at' = "rebooting"
  /\ TimeKept /\ TablesKept

ResetRegister ==
  /\ at = "rebooting" /\ fadt.found /\ at' \in {"gone", "i8042"}
  /\ TimeKept /\ TablesKept

\* Without an FADT, or without an address for the register.
NoRegister ==
  /\ at = "rebooting" /\ at' = "i8042"
  /\ TimeKept /\ TablesKept

Pulse ==
  /\ \/ at = "i8042" /\ at' \in {"gone", "pci"}
     \/ at = "pci" /\ at' \in {"gone", "fault"}
     \/ at = "fault" /\ at' \in {"gone", "panic"}
  /\ TimeKept /\ TablesKept

Next ==
  \/ SearchMap \/ SearchBios
  \/ \E sound \in BOOLEAN, ts \in Tables : Xsdt(sound, ts) \/ Rsdt(sound, ts)
  \/ ParseMcfg \/ ParseFadt \/ SkipTable \/ ParseMadt \/ MadtEntry \/ MadtEnd \/ Ready
  \/ \E ticks \in 1..MaxDelay : Delay(ticks)
  \/ \E step \in 1..Round - 1 : Poll(step)
  \/ Delayed \/ Reboot \/ ResetRegister \/ NoRegister \/ Pulse

-----------------------------------------------------------------------------
(***************************************************************************)
(* A delay is over when its ticks have passed, however wide the counter is *)
(* and wherever it began, and no later than one look at it afterwards: the *)
(* clock is calibrated by one. Processors are listed as the MADT has them, *)
(* disabled ones left out; without a root pointer nothing is read.         *)
(***************************************************************************)
Enabled(list) == {k \in 1..Len(list) : list[k] = "enabled"}

TablesTrue ==
  /\ at = "delay" => elapsed = now - begun
  /\ at = "delayed" => now - begun \in needed..needed + Round - 1
  /\ rsdp = "none" => tables = <<>> /\ ids = <<>> /\ ~fadt.found
  /\ at = "ready" /\ Len(tables) = 1 /\ tables[1].kind = "APIC" =>
       /\ Len(ids) = Cardinality(Enabled(tables[1].list))
       /\ \A k \in Enabled(tables[1].list) : \E n \in 1..Len(ids) : ids[n] = k
=============================================================================
