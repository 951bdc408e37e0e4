----------------------------- MODULE ElfLoader -----------------------------
(***************************************************************************)
(* try_load_elf (elf.c): the checks of the header, the program headers one *)
(* after the other, each checked against all others, the pages asked of    *)
(* the firmware, and the place of the stack. An address is a number, Page  *)
(* of them make a page; a byte of the file is its offset.                  *)
(***************************************************************************)
EXTENDS Integers, Sequences

CONSTANTS Page,           \* 0x1000
          FileSize,       \* bytes of the file after its headers
          Top,            \* bound: addresses are below Top
          Addrs, Sizes, FileSizes, Offsets, Aligns, MaxHeaders, EntryPoints,
                          \* bound: what a file may have
          Occupied        \* bound: pages that may be someone else's

VARIABLES image,          \* the file: its headers
          at, i,          \* header, segments, place, copy, done, failed; the header looked at
          low, high,      \* image_base and end_space
          entryOk,        \* entry_valid
          taken,          \* pages the firmware has given to someone else
          own,            \* pages it has given to the loader
          mem,            \* the memory written: address to byte
          result          \* entry, stack_base, stack_top, image base and size

elfVars == <<image, at, i, low, high, entryOk, taken, own, mem, result>>

Zero == -1

Unset == [base |-> 0, size |-> 0, entry |-> 0, stackBase |-> 0, stackTop |-> 0]

\* The program headers that can be in a file.
Segments ==
  [load : {TRUE}, addr : Addrs, size : Sizes, file : FileSizes, offset : Offsets,
   align : Aligns, exec : BOOLEAN]
    \cup [load : {FALSE}, addr : {1}, size : {1}, file : {1}, offset : {0}, align : {2},
          exec : {TRUE}]

\* A file that is not an executable.
Refused ==
  [sound |-> FALSE, bits |-> 64, dyn |-> FALSE, entry |-> 0,
   ph |-> <<[load |-> FALSE, addr |-> 1, size |-> 1, file |-> 1, offset |-> 0, align |-> 2,
             exec |-> TRUE]>>]

\* Files of either class.
Init ==
  /\ image \in [sound : BOOLEAN, bits : {32, 64}, dyn : BOOLEAN,
                ph : UNION {[1..n -> Segments] : n \in 1..MaxHeaders}, entry : EntryPoints]
  /\ image.sound \/ Len(image.ph) = 1
  /\ taken \in SUBSET Occupied
  /\ at = "header" /\ i = 1 /\ low = Top /\ high = 0 /\ entryOk = FALSE
  /\ own = {} /\ mem = <<>> /\ result = Unset

Ph == image.ph[i]
PagesOf(a, n) == {(a + k) \div Page : k \in 0..n - 1}
Down(a) == (a \div Page) * Page
Up(a) == Down(a + Page - 1)
Fail == at' = "failed"

-----------------------------------------------------------------------------
(* The checks *)

\* Magic, class, byte order, machine, version and type; the table lies within the file.
MakeCtx ==
  /\ at = "header"
  /\ at' = IF image.sound THEN "segments" ELSE "failed"
  /\ UNCHANGED <<image, i, low, high, entryOk, taken, own, mem, result>>

\* p_align is a power of two; the bytes lie within the file and are not more than memory.
Sound(p) ==
  /\ p.file <= p.size
  /\ p.offset <= FileSize /\ p.file <= FileSize - p.offset
  /\ p.addr % p.align = p.offset % p.align

Loaded(p) == p.load /\ p.size > 0

\* Mutant of Overlap: only a segment that begins within the other.
OverlapInside(p, q) == p.addr < q.addr /\ q.addr < p.addr + p.size

Overlap(p, q) == p.addr < q.addr + q.size /\ q.addr < p.addr + p.size

Acceptable ==
  /\ Sound(Ph)
  /\ \A j \in 1..Len(image.ph) \ {i} :
       Loaded(image.ph[j]) => Sound(image.ph[j]) /\ ~Overlap(Ph, image.ph[j])

-----------------------------------------------------------------------------
(* The memory *)

\* memcpy of what the file has, memset of the rest.
Copied(p, to) ==
  [a \in to..to + p.size - 1 |-> IF a - to < p.file THEN p.offset + (a - to) ELSE Zero]

\* What is written last counts.
Over(m, n) == [a \in DOMAIN m \cup DOMAIN n |-> IF a \in DOMAIN n THEN n[a] ELSE m[a]]

HoldsEntry(p, to, entry) == p.exec /\ entry \in to..to + p.size - 1

\* The firmware gives pages at an address only if it is the beginning of one and all are free.
Gives(a, n) ==
  /\ a % Page = 0
  /\ PagesOf(a, n) \cap (taken \cup own) = {} /\ a + n <= Top

Segment ==
  /\ at = "segments" /\ i <= Len(image.ph)
  /\ IF ~Loaded(Ph)
     THEN i' = i + 1 /\ UNCHANGED <<at, low, high, entryOk, own, mem>>
     ELSE IF ~Acceptable
     THEN Fail /\ UNCHANGED <<i, low, high, entryOk, own, mem>>
     ELSE /\ low' = IF Down(Ph.addr) < low THEN Down(Ph.addr) ELSE low
          /\ high' = IF Up(Ph.addr + Ph.size) > high THEN Up(Ph.addr + Ph.size) ELSE high
          /\ entryOk' = (entryOk \/ HoldsEntry(Ph, Ph.addr, image.entry))
          /\ \/ image.dyn /\ i' = i + 1 /\ UNCHANGED <<at, own, mem>>
             \/ /\ ~image.dyn /\ Gives(Ph.addr, Up(Ph.size))
                /\ own' = own \cup PagesOf(Ph.addr, Up(Ph.size))
                /\ mem' = Over(mem, Copied(Ph, Ph.addr))
                /\ i' = i + 1 /\ UNCHANGED at
             \/ /\ ~image.dyn /\ ~Gives(Ph.addr, Up(Ph.size))
                /\ Fail /\ UNCHANGED <<i, own, mem>>
  /\ UNCHANGED <<image, taken, result>>

\* All headers seen: an image that can be anywhere gets its pages now, at a base of the
\* firmware's choice.
Place ==
  /\ at = "segments" /\ i > Len(image.ph)
  /\ \/ /\ low = Top /\ Fail /\ UNCHANGED <<i, own, result>>
     \/ /\ low # Top /\ ~image.dyn
        /\ at' = "done" /\ i' = 1
        /\ result' = [result EXCEPT !.base = low, !.size = high - low, !.entry = image.entry]
        /\ UNCHANGED own
     \/ /\ low # Top /\ image.dyn
        /\ \E base \in 0..Top - 1 :
             /\ Gives(base, high - low)
             /\ own' = own \cup PagesOf(base, high - low)
             /\ result' = [result EXCEPT !.base = base, !.size = high - low,
                                         !.entry = base + (image.entry - low)]
        /\ at' = "copy" /\ i' = 1
     \/ /\ low # Top /\ image.dyn /\ Fail /\ UNCHANGED <<i, own, result>>
  /\ UNCHANGED <<image, low, high, entryOk, taken, mem>>

\* Where a segment of such an image goes.
Moved(p) == result.base + (p.addr - low)

Copy ==
  /\ at = "copy" /\ i <= Len(image.ph)
  /\ i' = i + 1
  /\ IF Loaded(Ph)
     THEN /\ mem' = Over(mem, Copied(Ph, Moved(Ph)))
          /\ entryOk' = (entryOk \/ HoldsEntry(Ph, Moved(Ph), result.entry))
     ELSE UNCHANGED <<mem, entryOk>>
  /\ UNCHANGED <<image, at, low, high, taken, own, result>>

\* elf64_load and elf32_load are the same but for the width of the header's fields.
Load == Segment \/ Place \/ Copy
Load64 == image.bits = 64 /\ Load
Load32 == image.bits = 32 /\ Load

-----------------------------------------------------------------------------
(* The end: pages of an image that is refused stay allocated. *)

Stack(r) ==
  [r EXCEPT !.stackBase = Up(r.base + r.size + 1),
            !.stackTop = Up(r.base + r.size + 1 + 2 * Page)]

TryLoad ==
  /\ at = "done" \/ (at = "copy" /\ i > Len(image.ph))
  /\ at' = IF entryOk THEN "loaded" ELSE "failed"
  /\ result' = IF entryOk THEN Stack(result) ELSE result
  /\ UNCHANGED <<image, i, low, high, entryOk, taken, own, mem>>

Next == MakeCtx \/ Load64 \/ Load32 \/ TryLoad

-----------------------------------------------------------------------------
(***************************************************************************)
(* Nothing is written outside the loader's pages, even of a file that is   *)
(* refused. When a file is loaded, every segment is in memory byte by byte *)
(* and zero behind, none covers another, the entry point is the byte the   *)
(* file means and it can be executed, and the stack is behind the image.   *)
(***************************************************************************)
Image == {p \in {image.ph[k] : k \in 1..Len(image.ph)} : Loaded(p)}

InMemory(p) ==
  \A k \in 0..p.size - 1 :
    mem[p.addr + (result.base - low) + k] = IF k < p.file THEN p.offset + k ELSE Zero

ImageWhole ==
  /\ \A a \in DOMAIN mem : a \div Page \in own
  /\ at = "loaded" =>
       /\ \A p \in Image : InMemory(p)
       /\ \E p \in Image : /\ p.exec /\ image.entry \in p.addr..p.addr + p.size - 1
                           /\ result.entry - image.entry = result.base - low
       /\ result.base + result.size < result.stackBase
       /\ result.stackBase < result.stackTop
=============================================================================
