---------------------------- MODULE HeaderLists ----------------------------
(***************************************************************************)
(* The two doubly linked lists of a memory region (avmf.c): the headers    *)
(* that are in use and the cached ones. A value s of them has the headers  *)
(* hdr (with type, next and parent, 0: none) and, for each kind of list,   *)
(* its list, its end and its count. A header's signature and version never *)
(* change once it is made, so the branches for bad ones are not taken.     *)
(***************************************************************************)
EXTENDS Integers, Sequences, FiniteSets, FiniteSetsExt

Kinds == {"alloc", "cache"}

NoLists ==
  [hdr |-> <<>>, list |-> [k \in Kinds |-> 0], end |-> [k \in Kinds |-> 0],
   count |-> [k \in Kinds |-> 0]]

WithNext(s, h, n) == IF h = 0 THEN s ELSE [s EXCEPT !.hdr[h].next = n]
WithParent(s, h, p) == IF h = 0 THEN s ELSE [s EXCEPT !.hdr[h].parent = p]

\* A header's neighbours know each other instead.
Bridged(s, h) ==
  LET n == s.hdr[h].next
      p == s.hdr[h].parent
      t == WithNext(WithParent(s, n, p), p, n) IN
    WithNext(WithParent(t, h, 0), h, 0)

\* avmf_unlink_header: from the list of the header's own type.
Unlink(s, h) ==
  LET k == s.hdr[h].type
      t == Bridged(s, h) IN
    IF k \notin Kinds THEN s
    ELSE IF s.count[k] = 0 THEN [s EXCEPT !.hdr[h].type = "corrupt"]
    ELSE IF s.end[k] = h
    THEN [t EXCEPT !.end[k] = s.hdr[h].parent, !.count[k] = @ - 1]
    ELSE IF s.list[k] = h
    THEN [t EXCEPT !.list[k] = s.hdr[h].next, !.count[k] = @ - 1]
    ELSE [t EXCEPT !.count[k] = @ - 1]

-----------------------------------------------------------------------------
(* avmf_link_header *)

Alone(s, k, h) ==
  [s EXCEPT !.list[k] = h, !.end[k] = h, !.count[k] = 1]

Behind(s, c, h) == WithParent(WithNext(s, c, h), h, c)

\* The header that is reached from the beginning of the list in i steps.
Reached(s, k, i) ==
  LET step[j \in 0..i] ==
        IF j = 0 THEN s.list[k]
        ELSE IF step[j - 1] = 0 THEN 0 ELSE s.hdr[step[j - 1]].next
  IN  step[i]

Corrupt(s, h) == s.hdr[h].type = "corrupt"

\* Without an end that can be used it is looked for: the first header without a successor, or a
\* corrupt one before a header of another kind.
AtFoundEnd(s, k, h) ==
  LET at(i) == Reached(s, k, i)
      next(i) == s.hdr[at(i)].next
      ends == {i \in 0..s.count[k] - 1 :
                 /\ at(i) # 0
                 /\ next(i) = 0 \/ (Corrupt(s, at(i)) /\ s.hdr[next(i)].type # k)}
      i == Min(ends)
      before == {j \in 0..i - 1 : ~Corrupt(s, at(j))}
      t == [s EXCEPT !.end[k] = h] IN
    IF ends = {} THEN t
    ELSE IF ~Corrupt(s, at(i)) THEN [Behind(t, at(i), h) EXCEPT !.count[k] = @ + 1]
    ELSE IF before = {} THEN Alone(s, k, h)
    ELSE [Behind(t, at(Max(before)), h) EXCEPT !.count[k] = i]

\* The end stays where it was.
BehindEnd(s, k, h) == [Behind(s, s.end[k], h) EXCEPT !.count[k] = @ + 1]

Link(old, h) ==
  LET s == WithNext(WithParent(old, h, 0), h, 0)
      k == s.hdr[h].type IN
    IF s.count[k] < 1 \/ s.list[k] = 0 THEN Alone(s, k, h)
    ELSE IF s.end[k] # 0 /\ ~Corrupt(s, s.end[k]) THEN BehindEnd(s, k, h)
    ELSE AtFoundEnd(s, k, h)

\* A header that changes lists.
Move(s, h, k) == Link([Unlink(s, h) EXCEPT !.hdr[h].type = k], h)

-----------------------------------------------------------------------------
(* The loops of avmf_region_alloc and avmf_region_free over a list *)

PassOver(w, n, k) == [w EXCEPT !.at = IF n # 0 /\ w.s.hdr[n].type = k THEN n ELSE 0]

Look(w, k, wanted, stuck) ==
  IF w.at = 0 \/ w.found THEN w
  ELSE LET c == w.s.hdr[w.at] IN
    CASE c.type = "corrupt" -> PassOver(w, c.next, k)
      [] c.type \in Kinds \ {k} -> PassOver([w EXCEPT !.s = Unlink(@, w.at)], c.next, k)
      [] c.type = k /\ w.at \in wanted -> [w EXCEPT !.found = TRUE]
      [] c.type = k /\ w.at \notin wanted ->
           [w EXCEPT !.at = IF w.at \in stuck THEN 0 ELSE c.next]

\* At most count steps; a header that is of the other kind is unlinked on the way. The loop
\* ends at one of wanted, and at one of stuck it never leaves.
Search(s, k, wanted, stuck) ==
  LET walk[i \in 0..s.count[k]] ==
        IF i = 0
        THEN [s |-> s, at |-> IF s.count[k] = 0 THEN 0 ELSE s.list[k], found |-> FALSE]
        ELSE Look(walk[i - 1], k, wanted, stuck)
  IN  walk[s.count[k]]
=============================================================================
