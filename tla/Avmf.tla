-------------------------------- MODULE Avmf --------------------------------
(***************************************************************************)
(* The memory allocator (avmf.c): one virtual region with its headers in    *)
(* two lists and its free range, and the bitmap of physical frames.        *)
(* Addresses are page and frame numbers. Sizes are whole pages, so that    *)
(* every freed header is cached and the free list is one range that only   *)
(* shrinks from its start; avmf_lock2 and r->lock make their sections      *)
(* single steps, but avmf_free looks for its header without a lock.        *)
(***************************************************************************)
EXTENDS HeaderLists

CONSTANTS Cpus,
          Pages,          \* pages of the region
          Sizes,          \* sizes that are asked for
          LowFrames,      \* frames below the physical regions
          PhysFrames,     \* frames of the physical regions
          PerPage,        \* headers to a page
          MaxTables       \* bound: page tables at a time

VARIABLES lists,          \* the headers ever made, with virt, size and phys, and their lists
          free,           \* base of the free range
          room,           \* headers left in ihdr_cpage
          marked,         \* avmf_bitmap
          map,            \* the frame a page is mapped to, 0: none
          job,            \* what each processor is doing
          live,           \* ghost: what callers hold
          tables          \* frames taken with avmf_alloc_phys_contiguous

avmfVars == <<lists, free, room, marked, map, job, live, tables>>

hdr == lists.hdr

Frames == LowFrames + 1 .. LowFrames + PhysFrames
Idle == [at |-> "idle"]

AvmfInit ==
  /\ lists = NoLists /\ free = 0 /\ room = 0
  /\ marked = {} /\ map = [v \in 0..Pages - 1 |-> 0]
  /\ job = [p \in Cpus |-> Idle] /\ live = {} /\ tables = {}

-----------------------------------------------------------------------------
(* avmf_find_region, on 6-bit addresses with the regions of avmf_init to scale; *)
(* best_score is never raised, so the last region with a score is the best.     *)

Space == 64
Base == <<1, 52, 56, 60>>          \* user, kernel, driver, sensitive
Limit == <<9, 56, 60, 62>>

Scores(i, min, max, size) ==
  Base[i] <= min /\ (Limit[i] >= max \/ Limit[i] > (size + min) % Space)

FindRegion(min, max, size) ==
  LET found == {i \in 1..4 : Scores(i, min, max, size)} IN
    IF found = {} THEN 0 ELSE Max(found)

-----------------------------------------------------------------------------
(* Physical frames: the first run that is long enough. *)

Run(from, n) == from .. from + n - 1
Fitting(n) == {f \in Frames : Run(f, n) \subseteq Frames \ marked}
Enough(n) == Fitting(n) # {}
FirstFit(n) == Min(Fitting(n))

\* avmf_alloc_phys_contiguous and avmf_free_phys_contiguous, for page tables and others.
TakeFrame ==
  /\ Enough(1) /\ Cardinality(tables) < MaxTables
  /\ marked' = marked \cup {FirstFit(1)} /\ tables' = tables \cup {FirstFit(1)}
  /\ UNCHANGED <<lists, free, room, map, job, live>>

GiveFrame(f) ==
  /\ tables' = tables \ {f} /\ marked' = marked \ {f}
  /\ UNCHANGED <<lists, free, room, map, job, live>>

\* avmf_alloc_ihdr: a header from the current page, or from a new one.
HeaderLeft == room > 0 \/ Enough(1)
UseHeader ==
  IF room > 0 THEN room' = room - 1 /\ UNCHANGED marked
  ELSE room' = PerPage - 1 /\ marked' = marked \cup {FirstFit(1)}

-----------------------------------------------------------------------------
(* avmf_region_alloc *)

\* The loop over the cache stays at an element that is too small, and goes on only when a
\* larger one cannot be split for want of a header.
CacheSearch(n) ==
  Search(lists, "cache",
         {h \in DOMAIN hdr : hdr[h].size = n \/ (hdr[h].size > n /\ HeaderLeft)},
         {h \in DOMAIN hdr : hdr[h].size < n})

\* Mutant of Rest: the header that is left keeps its address.
RestAtStart(c, n) == [c EXCEPT !.size = @ - n, !.phys = @ + n]

Rest(c, n) == [c EXCEPT !.virt = @ + n, !.size = @ - n, !.phys = @ + n]

WithNew(s, h) == Link([s EXCEPT !.hdr = Append(@, h)], Len(s.hdr) + 1)

Reuse(n, i, w) ==
  /\ w.found /\ hdr[w.at].size = n /\ i = w.at
  /\ lists' = Move(w.s, i, "alloc")
  /\ UNCHANGED <<free, room, marked>>

Split(n, i, w) ==
  LET c == hdr[w.at] IN
  /\ w.found /\ c.size > n /\ i = Len(hdr) + 1
  /\ lists' = [WithNew(w.s, [c EXCEPT !.size = n, !.type = "alloc"])
                 EXCEPT !.hdr[w.at] = Rest(@, n)]
  /\ UseHeader /\ UNCHANGED free

Carve(n, i, w) ==
  /\ ~w.found /\ free + n <= Pages /\ HeaderLeft /\ i = Len(hdr) + 1
  /\ lists' = WithNew(w.s, [virt |-> free, size |-> n, phys |-> 0, type |-> "alloc",
                            next |-> 0, parent |-> 0])
  /\ free' = free + n /\ UseHeader

RegionAlloc(n, i) ==
  LET w == CacheSearch(n) IN Reuse(n, i, w) \/ Split(n, i, w) \/ Carve(n, i, w)

\* What the search has unlinked stays so.
NoRegion(n) ==
  LET w == CacheSearch(n) IN
  /\ ~w.found /\ (free + n > Pages \/ ~HeaderLeft)
  /\ lists' = w.s

\* avmf_region_free: sizes above 512 bytes go to the cache.
RegionFree(h) ==
  LET same == {i \in DOMAIN hdr : hdr[i].virt = h.virt /\ hdr[i].size = h.size}
      w == Search(lists, "alloc", same, {}) IN
    lists' = IF w.found THEN Move(w.s, w.at, "cache") ELSE w.s

-----------------------------------------------------------------------------
(* avmf_alloc: a header, then frames, then the mapping. *)

Alloc(p, n) ==
  /\ job[p] = Idle
  /\ \/ \E i \in 1..Len(hdr) + 1 :
          RegionAlloc(n, i) /\ job' = [job EXCEPT ![p] = [at |-> "phys", hdr |-> i]]
     \/ NoRegion(n) /\ UNCHANGED <<free, room, marked, job>>
  /\ UNCHANGED <<map, live, tables>>

\* avmf_alloc_virt: the address only, for one page, which is never given back.
AllocVirt(p) ==
  /\ job[p] = Idle
  /\ \E i \in 1..Len(hdr) + 1 : RegionAlloc(1, i)
  /\ UNCHANGED <<map, job, live, tables>>

\* pager_map_range: a page that is mapped stays as it is, which nobody looks at.
Mapped(h) ==
  [v \in DOMAIN map |->
     IF v \in Run(h.virt, h.size) /\ map[v] = 0 THEN h.phys + (v - h.virt) ELSE map[v]]

Held(h) == [virt |-> h.virt, size |-> h.size, phys |-> h.phys]

Give(p, h) ==
  /\ map' = Mapped(h) /\ live' = live \cup {Held(h)}
  /\ job' = [job EXCEPT ![p] = Idle]
  /\ UNCHANGED <<free, room, tables>>

\* A header with an address of its own brings its frames; they are not marked again.
GiveOld(p) ==
  /\ job[p].at = "phys" /\ hdr[job[p].hdr].phys > 0
  /\ Give(p, hdr[job[p].hdr]) /\ UNCHANGED <<lists, marked>>

GiveNew(p) ==
  /\ job[p].at = "phys"
  /\ LET h == hdr[job[p].hdr]
         f == FirstFit(h.size) IN
     /\ h.phys = 0 /\ Enough(h.size)
     /\ marked' = marked \cup Run(f, h.size)
     /\ lists' = [lists EXCEPT !.hdr[job[p].hdr].phys = f]
     /\ Give(p, [h EXCEPT !.phys = f])

OutOfMemory(p) ==
  /\ job[p].at = "phys"
  /\ hdr[job[p].hdr].phys = 0 /\ ~Enough(hdr[job[p].hdr].size)
  /\ RegionFree(hdr[job[p].hdr])
  /\ job' = [job EXCEPT ![p] = Idle]
  /\ UNCHANGED <<free, room, marked, map, live, tables>>

-----------------------------------------------------------------------------
(* avmf_free *)

Free(p, a) ==
  /\ job[p] = Idle /\ live' = live \ {a}
  /\ job' = [job EXCEPT ![p] = [at |-> "walk", virt |-> a.virt, hdr |-> lists.list["alloc"]]]
  /\ UNCHANGED <<lists, free, room, marked, map, tables>>

Matches(p) ==
  LET h == hdr[job[p].hdr] IN h.type = "alloc" /\ job[p].virt \in Run(h.virt, h.size)

\* The lists change under the walk; one that runs off the end frees nothing.
Walk(p) ==
  /\ job[p].at = "walk"
  /\ LET h == job[p].hdr IN
     job' = [job EXCEPT ![p] =
       IF h = 0 THEN Idle
       ELSE IF Matches(p) THEN [at |-> "frames", hdr |-> h]
       ELSE [@ EXCEPT !.hdr = hdr[h].next]]
  /\ UNCHANGED <<lists, free, room, marked, map, live, tables>>

\* Under avmf_lock.
FreeFrames(p) ==
  /\ job[p].at = "frames" /\ job' = [job EXCEPT ![p].at = "header"]
  /\ LET h == hdr[job[p].hdr] IN
     /\ marked' = marked \ Run(h.phys, h.size)
     /\ map' = [v \in DOMAIN map |-> IF v \in Run(h.virt, h.size) THEN 0 ELSE map[v]]
  /\ UNCHANGED <<lists, free, room, live, tables>>

FreeHeader(p) ==
  /\ job[p].at = "header" /\ job' = [job EXCEPT ![p] = Idle]
  /\ RegionFree(hdr[job[p].hdr])
  /\ UNCHANGED <<free, room, marked, map, live, tables>>

AvmfNext ==
  \/ \E p \in Cpus :
       \/ \E n \in Sizes : Alloc(p, n)
       \/ GiveOld(p) \/ GiveNew(p) \/ OutOfMemory(p)
       \/ \E a \in live : Free(p, a)
       \/ AllocVirt(p) \/ Walk(p) \/ FreeFrames(p) \/ FreeHeader(p)
  \/ TakeFrame \/ \E f \in tables : GiveFrame(f)

AvmfSpec == AvmfInit /\ [][AvmfNext]_avmfVars

-----------------------------------------------------------------------------
(***************************************************************************)
(* Whatever the order of calls, failures and concurrent frees, and         *)
(* although the lists lose headers: the headers tile the used part of the  *)
(* region, so no address is given twice; every page a caller holds is      *)
(* mapped to the frame it was given with, and its header is no cached one; *)
(* and for every address of a region but those of the upper half of user   *)
(* space avmf_free finds its region.                                       *)
(***************************************************************************)
Span(i) == Run(hdr[i].virt, hdr[i].size)

Tiled ==
  /\ UNION {Span(i) : i \in DOMAIN hdr} = 0..free - 1
  /\ \A i, j \in DOMAIN hdr : i # j => Span(i) \cap Span(j) = {}

MappedAsGiven ==
  \A a \in live :
    /\ \A v \in Run(a.virt, a.size) : map[v] = a.phys + (v - a.virt)
    /\ \E i \in DOMAIN hdr : Held(hdr[i]) = a /\ hdr[i].type # "cache"

RegionsFound ==
  \A i \in 1..4 : \A v \in Base[i]..Limit[i] - 1 :
    (i = 1 => 2 * v + 1 < Limit[1]) => FindRegion(v, Space - 1, v + 1) = i

MemoryWhole == Tiled /\ MappedAsGiven /\ RegionsFound

(***************************************************************************)
(* What is freed is found: a thread that can never be used is freed        *)
(* (smp.c 383), so an avmf_free that looks for a header comes to it along  *)
(* the list. It does not: avmf_link_header never moves the end of a list,  *)
(* which loses headers and links a header to itself.                       *)
(***************************************************************************)
Reaches(p) ==
  LET step[i \in 0..Len(hdr)] ==
        IF i = 0 THEN job[p].hdr ELSE IF step[i - 1] = 0 THEN 0 ELSE hdr[step[i - 1]].next
  IN  \E i \in 0..Len(hdr) :
        /\ step[i] # 0 /\ hdr[step[i]].type = "alloc"
        /\ job[p].virt \in Run(hdr[step[i]].virt, hdr[step[i]].size)

FreeFinds == \A p \in Cpus : job[p].at = "walk" => Reaches(p)
=============================================================================
