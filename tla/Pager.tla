------------------------------- MODULE Pager --------------------------------
(***************************************************************************)
(* The page tables (pager.c). PML4 and PDPT are walked alike and one level *)
(* stands for both; a table has two entries, so a huge page is two pages.  *)
(* The lock of the PML4 is held over each pager_map and pager_unmap; a     *)
(* range is mapped page by page. The TLB is the module Shootdown's.        *)
(***************************************************************************)
EXTENDS Integers, FiniteSets, FiniteSetsExt

CONSTANTS EarlyTables,   \* tables the boot loader left room for (first_pagemaps)
          LateTables,    \* frames the allocator has for tables
          Targets        \* frames that ranges begin at

VARIABLES mem,           \* what the table frames hold; frame 0 is memory too
          used,          \* the table frames handed out
          ready,         \* pager_ready
          job,           \* the range that is being mapped, and where the walk is
          told,          \* ghost: what callers were told a page is mapped to, 0: nothing
          blocked,       \* ghost: pages of huge pages that were unmapped
          broken         \* a NULL table, or one at frame 0, is in use: the rest is chance

pagerVars == <<mem, used, ready, job, told, blocked, broken>>

VirtPages == 0..7
Root == 1
TableFrames == 1 .. EarlyTables + LateTables
Entry(to, present, huge) == [to |-> to, present |-> present, huge |-> huge]
Zeroed == [i \in 0..1 |-> Entry(0, FALSE, FALSE)]
\* What an earlier owner of a frame left there.
Garbage == [i \in 0..1 |-> Entry(Root, TRUE, i = 1)]
NoJob == [at |-> "none"]

Init ==
  /\ mem = [f \in TableFrames |-> IF f = Root THEN Zeroed ELSE Garbage]
  /\ used = {Root} /\ ready = FALSE /\ job = NoJob
  /\ told = [v \in VirtPages |-> 0] /\ blocked = {} /\ broken = FALSE

Top(v) == v \div 4
Mid(v) == (v \div 2) % 2
Low(v) == v % 2
Unit(v) == {w \in VirtPages : w \div 2 = v \div 2}

-----------------------------------------------------------------------------
(* pager_map_range, and pager_map at the places of its walk *)

MapRange(v, f, n) ==
  /\ job = NoJob /\ ~broken /\ v + n - 1 \in VirtPages
  /\ job' = [at |-> "dir", table |-> Root, v |-> v, f |-> f, left |-> n]
  /\ UNCHANGED <<mem, used, ready, told, blocked, broken>>

Huge == job.left >= 2 /\ Low(job.v) = 0 /\ Low(job.f) = 0
Step == IF Huge THEN 2 ELSE 1

\* alloc_page_table
Available == (IF ready THEN TableFrames ELSE 1..EarlyTables) \ used

\* Mutant of Fresh: the frame is used as it was found.
FreshAsFound(f) == mem

Fresh(f) == [mem EXCEPT ![f] = Zeroed]

Set(m, t, i, e) == [m EXCEPT ![t][i] = e]

\* The walk goes on below entry i of the table it is at.
Descend(i, at) ==
  LET t == job.table
      e == mem[t][i]
      f == Min(Available) IN
  /\ \/ /\ e.present /\ job' = [job EXCEPT !.at = at, !.table = e.to]
        /\ UNCHANGED <<mem, used>>
     \/ /\ ~e.present /\ Available # {}
        /\ mem' = Set(Fresh(f), t, i, Entry(f, TRUE, FALSE)) /\ used' = used \cup {f}
        /\ job' = [job EXCEPT !.at = at, !.table = f]
  /\ UNCHANGED <<ready, told, blocked, broken>>

\* Nobody looks whether there is a table: it is NULL after the last early one or without a
\* virtual address, and the frame is 0 when the allocator has none left.
NoTable(i) ==
  /\ ~mem[job.table][i].present /\ (ready \/ Available = {})
  /\ broken' = TRUE /\ job' = NoJob
  /\ UNCHANGED <<mem, used, ready, told, blocked>>

\* pager_map_range takes no notice of the answer, but its callers rely on it.
Done(pages) ==
  /\ told' = [w \in VirtPages |-> IF w \in pages THEN job.f + (w - job.v) ELSE told[w]]
  /\ job' = IF job.left = Step THEN NoJob
            ELSE [at |-> "dir", table |-> Root, v |-> job.v + Step, f |-> job.f + Step,
                  left |-> job.left - Step]

WalkDir ==
  /\ job.at = "dir"
  /\ Descend(Top(job.v), "mid") \/ NoTable(Top(job.v))

Mine == mem[job.table][Mid(job.v)]

\* A huge page goes only where nothing is present.
MapHuge ==
  /\ job.at = "mid" /\ Huge
  /\ IF Mine.present
     THEN mem' = mem /\ Done({}) /\ UNCHANGED blocked
     ELSE /\ mem' = Set(mem, job.table, Mid(job.v), Entry(job.f, TRUE, TRUE))
          /\ Done(Unit(job.v)) /\ blocked' = blocked \ Unit(job.v)
  /\ UNCHANGED <<used, ready, broken>>

\* PAGE_HUGE is looked at before PAGE_PRESENT: what an unmapped huge page leaves behind
\* answers for the pages, with success if the huge pages agree; a caller whose frame is
\* another one of the same huge page is told so too, which is not counted.
HugeInTheWay ==
  /\ job.at = "mid" /\ ~Huge /\ Mine.huge
  /\ Done(IF Mine.to + Low(job.v) = job.f THEN {job.v} ELSE {})
  /\ UNCHANGED <<mem, used, ready, blocked, broken>>

WalkMid ==
  /\ job.at = "mid" /\ ~Huge /\ ~Mine.huge
  /\ Descend(Mid(job.v), "low") \/ NoTable(Mid(job.v))

MapSmall ==
  /\ job.at = "low"
  /\ IF mem[job.table][Low(job.v)].present
     THEN mem' = mem /\ Done({})
     ELSE mem' = Set(mem, job.table, Low(job.v), Entry(job.f, TRUE, FALSE)) /\ Done({job.v})
  /\ UNCHANGED <<used, ready, blocked, broken>>

-----------------------------------------------------------------------------
(* pager_unmap: of a huge page all, and the tables stay. *)

Absent(t, i) == [mem EXCEPT ![t][i].present = FALSE]

Unmap(v) ==
  /\ job = NoJob /\ ~broken
  /\ LET d == mem[Root][Top(v)]
         e == mem[d.to][Mid(v)] IN
     \/ d.present /\ e.huge /\ mem' = Absent(d.to, Mid(v))
        /\ told' = [w \in VirtPages |-> IF w \in Unit(v) THEN 0 ELSE told[w]]
        /\ blocked' = blocked \cup Unit(v)
     \/ d.present /\ ~e.huge /\ e.present /\ mem' = Absent(e.to, Low(v))
        /\ told' = [told EXCEPT ![v] = 0] /\ UNCHANGED blocked
  /\ UNCHANGED <<used, ready, job, broken>>

\* The end of pager_init.
Ready ==
  /\ ~ready /\ job = NoJob /\ ready' = TRUE
  /\ UNCHANGED <<mem, used, job, told, blocked, broken>>

Next ==
  \/ \E v \in VirtPages, f \in Targets, n \in 1..3 : MapRange(v, f, n)
  \/ WalkDir \/ MapHuge \/ HugeInTheWay \/ WalkMid \/ MapSmall
  \/ \E v \in VirtPages : Unmap(v)
  \/ Ready

-----------------------------------------------------------------------------
(***************************************************************************)
(* What a caller was told a page is mapped to it is mapped to, until the   *)
(* page or its huge page is unmapped, whatever else is mapped and unmapped *)
(* meanwhile. Excepted are pages where a huge page was unmapped: what is   *)
(* left of it answers for them, and nothing is mapped.                     *)
(***************************************************************************)
Translated(v) ==
  LET d == mem[Root][Top(v)]
      e == mem[d.to][Mid(v)]
      p == mem[e.to][Low(v)] IN
    IF ~d.present THEN 0
    ELSE IF e.huge THEN IF e.present THEN e.to + Low(v) ELSE 0
    ELSE IF e.present /\ p.present THEN p.to ELSE 0

TranslationsKept == \A v \in VirtPages \ blocked : Translated(v) = told[v]
=============================================================================
