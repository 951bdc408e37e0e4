------------------------------ MODULE BootMap -------------------------------
(***************************************************************************)
(* The way of the memory map from the firmware to the allocator: the boot  *)
(* loader cuts the pages of its two structures out of the firmware's       *)
(* descriptors (bootloader_uefi.c 985-1170), and pager_init gives what is  *)
(* left free to avmf_init. In pages; a structure is shorter than a page,   *)
(* so its descriptor is never a perfect fit, and virt_start is always 0.   *)
(***************************************************************************)
EXTENDS Integers, Sequences

CONSTANTS Pages,        \* pages of memory
          Space,        \* pages of 2^64 bytes
          MaxDescs,     \* bound: descriptors
          Privileged    \* pages below the kernel's end and 16 MiB

VARIABLES descs,        \* the firmware's map
          core, m,      \* the pages of UniBootCore and of the new map
          off,          \* the next descriptor
          mmap, last,   \* the new map; last_entry, 0: NULL
          at,           \* "map", "exit", "kernel", "pager", "failed"
          regions       \* what avmf_init gets, by the entry it is made of

bootMapVars == <<descs, core, m, off, mmap, last, at, regions>>

In(p, d) == p \in d.start .. d.start + d.size - 1

Desc(start, size, type) == [start |-> start, size |-> size, type |-> type]

Cuts == UNION {{c \in [1..n -> 0..Pages - 1] :
                  c[1] = 0 /\ \A i \in 1..n - 1 : c[i] < c[i + 1]} : n \in 1..MaxDescs}

\* UniBootCore was allocated before the firmware was asked for its map, m afterwards.
Init ==
  /\ \E c \in Cuts : \E t \in [DOMAIN c -> {"loader", "conventional", "reserved"}] :
       descs = [i \in DOMAIN c |->
                  Desc(c[i], (IF i < Len(c) THEN c[i + 1] ELSE Pages) - c[i], t[i])]
  /\ core \in {p \in 0..Pages - 1 :
               \E i \in DOMAIN descs : descs[i].type = "loader" /\ In(p, descs[i])}
  /\ m \in {p \in 0..Pages - 1 :
            \E i \in DOMAIN descs : descs[i].type = "conventional" /\ In(p, descs[i])}
  /\ off = 1 /\ mmap = <<>> /\ last = 0 /\ at = "map" /\ regions = <<>>

-----------------------------------------------------------------------------
(* One descriptor *)

\* A structure lies in a descriptor by its physical or by its virtual addresses.
Holds(p, d) == In(p, d) \/ p < d.size

TypeOf(d) == IF d.type = "reserved" THEN "reserved" ELSE "free"

End(e) == (e.start + e.size) % Space
Entry(start, end, type) == Desc(start, (end - start) % Space, type)

\* An entry that begins where the last one ends, and is of its type, becomes part of it.
Continues(start, type) ==
  last # 0 /\ start = End(mmap[last]) /\ mmap[last].type = type

Longer(s, by) == [s EXCEPT ![last].size = (@ + by) % Space]

Whole(d) ==
  IF Continues(d.start, TypeOf(d))
  THEN mmap' = Longer(mmap, d.size) /\ UNCHANGED last
  ELSE mmap' = Append(mmap, Entry(d.start, d.start + d.size, TypeOf(d))) /\ last' = Len(mmap) + 1

\* Mutant of Protected: only the boot information is cut out.
ProtectedCore(d) == IF Holds(core, d) THEN core ELSE -1

\* The structure that is cut out of d, -1: none. It is one at most.
Protected(d) == IF Holds(core, d) THEN core ELSE IF Holds(m, d) THEN m ELSE -1

\* Up to three fragments. The entry that is being made, e, is in the place of the next one:
\* when the structure's own fragment goes there, the rest takes its type.
Fragment(d, p) ==
  LET from == IF d.start > p THEN d.start ELSE p
      to == IF d.start + d.size < p + 1 THEN d.start + d.size ELSE p + 1
      joins == d.start < from /\ Continues(d.start, TypeOf(d))
      first == IF d.start < from /\ ~joins
               THEN <<Entry(d.start, from, TypeOf(d))>> ELSE <<>>
      front == (IF joins THEN Longer(mmap, from - d.start) ELSE mmap) \o first
      grows == last # 0 /\ from = End(front[last]) /\ front[last].type = "structs"
      middle == IF grows THEN Longer(front, to - from)
                 ELSE Append(front, Entry(from, to, "structs"))
      restType == IF first = <<>> /\ ~grows THEN "structs" ELSE TypeOf(d)
      rest == IF to < d.start + d.size THEN <<Entry(to, d.start + d.size, restType)>> ELSE <<>> IN
  /\ mmap' = middle \o rest
  /\ last' = IF grows /\ rest = <<>> THEN last ELSE Len(mmap')

TakeDescriptor ==
  /\ at = "map" /\ off <= Len(descs) /\ off' = off + 1
  /\ LET d == descs[off] IN
       IF Protected(d) = -1 THEN Whole(d) ELSE Fragment(d, Protected(d))
  /\ UNCHANGED <<descs, core, m, at, regions>>

\* The map was asked for before m was allocated: the first try to leave the firmware fails,
\* and later ones may. The new map is not made again.
Leave ==
  /\ at = "map" /\ off > Len(descs) /\ at' = "exit"
  /\ UNCHANGED <<descs, core, m, off, mmap, last, regions>>

Retry ==
  /\ at = "exit" /\ at' \in {"exit", "kernel", "failed"}
  /\ UNCHANGED <<descs, core, m, off, mmap, last, regions>>

-----------------------------------------------------------------------------
(* pager_init: the free entries above the privileged memory. *)

Region(e) == [start |-> IF e.start < Privileged THEN Privileged ELSE e.start, end |-> End(e)]

Kept(e) ==
  /\ e.type = "free" /\ e.size # 0
  /\ e.start < Privileged => e.size > Privileged - e.start

PagerInit ==
  /\ at = "kernel" /\ at' = "pager"
  /\ regions' = [i \in {k \in DOMAIN mmap : Kept(mmap[k])} |-> Region(mmap[i])]
  /\ UNCHANGED <<descs, core, m, off, mmap, last>>

Next == TakeDescriptor \/ Leave \/ Retry \/ PagerInit

-----------------------------------------------------------------------------
(***************************************************************************)
(* The allocator gets no page that the firmware reserved, none of the two  *)
(* structures and none below the kernel's end, no page twice, and every    *)
(* page of a descriptor without a structure. It needs every descriptor to  *)
(* be shorter than the address of a structure that is not in it: a longer  *)
(* one counts as holding the structure, by the virtual address 0.          *)
(***************************************************************************)
Short == \A i \in DOMAIN descs : \A p \in {core, m} : Holds(p, descs[i]) => In(p, descs[i])

Usable(i) == regions[i].start .. regions[i].end - 1

MapFaithful ==
  at = "pager" /\ Short =>
    /\ \A i, j \in DOMAIN regions : i # j => Usable(i) \cap Usable(j) = {}
    /\ \A i \in DOMAIN regions : \A p \in Usable(i) :
         /\ p >= Privileged /\ p # core /\ p # m
         /\ \E k \in DOMAIN descs : In(p, descs[k]) /\ descs[k].type # "reserved"
    /\ \A k \in DOMAIN descs : \A p \in Privileged..Pages - 1 :
         In(p, descs[k]) /\ descs[k].type # "reserved" /\ ~In(core, descs[k]) /\ ~In(m, descs[k])
           => \E i \in DOMAIN regions : p \in Usable(i)
=============================================================================
