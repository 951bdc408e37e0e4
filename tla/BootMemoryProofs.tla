-------------------------- MODULE BootMemoryProofs --------------------------
(***************************************************************************)
(* Proofs about what the kernel begins with, for every value of the        *)
(* constants: the virtual memory allocator (Avmf) with its lists of        *)
(* headers, and the parts of the boot loader (Bootloader), by whose names  *)
(* for their variables the proofs go.                                      *)
(***************************************************************************)
EXTENDS Avmf, Bootloader, SequencesExt, FiniteSetTheorems, WellFoundedInduction, TLAPS

-----------------------------------------------------------------------------
(* The lists of headers: whatever avmf_link_header and avmf_unlink_header do to the links, *)
(* no header loses its address, its size or its frames.                                    *)

\* A set of naturals that is not empty has a least element. (The library's least-number
\* principle for sets, WFMin, replaces its induction theorems here: it takes no operator.)
LEMMA NatLeast ==
  ASSUME NEW T, T \subseteq Nat, T # {}
  PROVE  \E m \in T : \A y \in T : m <= y
<1> DEFINE R == {ss \in Nat \X Nat : ss[1] < ss[2]}
<1>0. IsWellFoundedOn(R, Nat)
  BY NatLessThanWellFounded DEF OpToRel
<1> HIDE DEF R
<1>1. PICK x \in T : \A y \in T : ~(<<y, x>> \in R)
  BY <1>0, WFMin
<1>2. \A y \in T : x <= y
  <2> TAKE y \in T
  <2>1. <<y, x>> \notin R BY <1>1
  <2>2. y \in Nat /\ x \in Nat OBVIOUS
  <2>3. <<y, x>> \in R <=> y < x
    BY <2>2 DEF R
  <2> QED BY <2>1, <2>2, <2>3
<1> QED BY <1>2

\* Induction over the naturals, for a set: what the loops over a list of headers need.
LEMMA NatAll ==
  ASSUME NEW P, 0 \in P, \A n \in Nat : n \in P => n + 1 \in P
  PROVE  Nat \subseteq P
<1> DEFINE T == Nat \ P
<1> SUFFICES ASSUME T # {} PROVE FALSE
  OBVIOUS
<1>1. PICK m \in T : \A y \in T : m <= y
  BY NatLeast
<1>2. m # 0 /\ m - 1 \in Nat /\ m - 1 \notin T
  BY <1>1
<1> QED BY <1>2

\* f begins with b and goes on with G, n times.
Chain(f, S, b, G, n) ==
  f \in [0..n -> S] /\ \A i \in 0..n : f[i] = IF i = 0 THEN b ELSE G[f[i - 1]]

\* A function that is applied n times has a history: the loops of avmf_region_alloc and
\* avmf_region_free come to an end.
LEMMA Iterates ==
  ASSUME NEW S, NEW b \in S, NEW G \in [S -> S], NEW n \in Nat
  PROVE  \E f : Chain(f, S, b, G, n)
<1> DEFINE Right(f, m) == \A i \in 0..m : f[i] = IF i = 0 THEN b ELSE G[f[i - 1]]
           P == {m \in Nat : \E f \in [0..m -> S] : Right(f, m)}
<1>1. 0 \in P
  <2>1. [i \in 0..0 |-> b] \in [0..0 -> S] /\ Right([i \in 0..0 |-> b], 0)
    OBVIOUS
  <2> QED BY <2>1
<1>2. ASSUME NEW m \in Nat, m \in P PROVE m + 1 \in P
  <2>1. PICK f \in [0..m -> S] : Right(f, m)
    BY <1>2
  <2> DEFINE g == [i \in 0..m + 1 |-> IF i <= m THEN f[i] ELSE G[f[m]]]
  <2>2. g \in [0..m + 1 -> S]
    OBVIOUS
  <2>3. Right(g, m + 1)
    <3> SUFFICES ASSUME NEW i \in 0..m + 1
                 PROVE  g[i] = IF i = 0 THEN b ELSE G[g[i - 1]]
      OBVIOUS
    <3>1. CASE i <= m
      BY <2>1, <3>1
    <3>2. CASE i = m + 1
      BY <3>2
    <3> QED BY <3>1, <3>2
  <2> HIDE DEF g
  <2>4. \E e \in [0..m + 1 -> S] : Right(e, m + 1)
    BY <2>2, <2>3
  <2> HIDE DEF Right
  <2> QED BY <2>4
<1> HIDE DEF P
<1>3. n \in P
  BY <1>1, <1>2, NatAll
<1> QED BY <1>3 DEF P, Chain

Types == Kinds \cup {"corrupt"}

Headers(n) == [virt : Nat, size : Nat, phys : Nat, type : Types, next : 0..n, parent : 0..n]

Listed(n) ==
  [hdr : [1..n -> Headers(n)], list : [Kinds -> 0..n], end : [Kinds -> 0..n],
   count : [Kinds -> Nat]]

\* The same headers, but for their links.
SameHeaders(n, s, t) ==
  \A i \in 1..n :
    /\ t.hdr[i].virt = s.hdr[i].virt /\ t.hdr[i].size = s.hdr[i].size
    /\ t.hdr[i].phys = s.hdr[i].phys /\ t.hdr[i].type = s.hdr[i].type

\* A link is set: nothing else of the headers and lists changes (avmf_link_header).
LEMMA WithNextKeeps ==
  ASSUME NEW n \in Nat, NEW s \in Listed(n), NEW c \in 0..n, NEW m \in 0..n
  PROVE  /\ WithNext(s, c, m) \in Listed(n) /\ SameHeaders(n, s, WithNext(s, c, m))
         /\ WithNext(s, c, m).list = s.list /\ WithNext(s, c, m).end = s.end
         /\ WithNext(s, c, m).count = s.count
<1>1. CASE c = 0
  BY <1>1 DEF WithNext, SameHeaders
<1>2. CASE c # 0
  <2> DEFINE e == [s.hdr[c] EXCEPT !.next = m]
             t == [s EXCEPT !.hdr[c] = e]
  <2>1. s.hdr[c] \in Headers(n) /\ c \in 1..n
    BY <1>2 DEF Listed
  <2>2. /\ e \in Headers(n) /\ e.virt = s.hdr[c].virt /\ e.size = s.hdr[c].size
        /\ e.phys = s.hdr[c].phys /\ e.type = s.hdr[c].type
    BY <2>1 DEF Headers
  <2>3. WithNext(s, c, m) = t
    BY <1>2 DEF WithNext
  <2> HIDE DEF e
  <2>4. /\ t \in Listed(n) /\ t.list = s.list /\ t.end = s.end /\ t.count = s.count
        /\ \A i \in 1..n : t.hdr[i] = IF i = c THEN e ELSE s.hdr[i]
    BY <2>1, <2>2 DEF Listed
  <2> HIDE DEF t
  <2> QED BY <2>2, <2>3, <2>4 DEF SameHeaders
<1> QED BY <1>1, <1>2

\* The same for a link backwards.
LEMMA WithParentKeeps ==
  ASSUME NEW n \in Nat, NEW s \in Listed(n), NEW c \in 0..n, NEW m \in 0..n
  PROVE  /\ WithParent(s, c, m) \in Listed(n) /\ SameHeaders(n, s, WithParent(s, c, m))
         /\ WithParent(s, c, m).list = s.list /\ WithParent(s, c, m).end = s.end
         /\ WithParent(s, c, m).count = s.count
<1>1. CASE c = 0
  BY <1>1 DEF WithParent, SameHeaders
<1>2. CASE c # 0
  <2> DEFINE e == [s.hdr[c] EXCEPT !.parent = m]
             t == [s EXCEPT !.hdr[c] = e]
  <2>1. s.hdr[c] \in Headers(n) /\ c \in 1..n
    BY <1>2 DEF Listed
  <2>2. /\ e \in Headers(n) /\ e.virt = s.hdr[c].virt /\ e.size = s.hdr[c].size
        /\ e.phys = s.hdr[c].phys /\ e.type = s.hdr[c].type
    BY <2>1 DEF Headers
  <2>3. WithParent(s, c, m) = t
    BY <1>2 DEF WithParent
  <2> HIDE DEF e
  <2>4. /\ t \in Listed(n) /\ t.list = s.list /\ t.end = s.end /\ t.count = s.count
        /\ \A i \in 1..n : t.hdr[i] = IF i = c THEN e ELSE s.hdr[i]
    BY <2>1, <2>2 DEF Listed
  <2> HIDE DEF t
  <2> QED BY <2>2, <2>3, <2>4 DEF SameHeaders
<1> QED BY <1>1, <1>2
\* Nothing is lost of the headers, and no type changes but to "corrupt".
Kept(n, s, t) ==
  \A i \in 1..n :
    /\ t.hdr[i].virt = s.hdr[i].virt /\ t.hdr[i].size = s.hdr[i].size
    /\ t.hdr[i].phys = s.hdr[i].phys /\ t.hdr[i].type \in {s.hdr[i].type, "corrupt"}

\* What the fields of well-formed lists hold.
LEMMA Fields ==
  ASSUME NEW n \in Nat, NEW s \in Listed(n)
  PROVE  /\ \A k \in Kinds : s.list[k] \in 0..n /\ s.end[k] \in 0..n /\ s.count[k] \in Nat
         /\ \A i \in 1..n : /\ s.hdr[i].next \in 0..n /\ s.hdr[i].parent \in 0..n
                           /\ s.hdr[i].type \in Types /\ s.hdr[i].virt \in Nat
                           /\ s.hdr[i].size \in Nat /\ s.hdr[i].phys \in Nat
                           /\ s.hdr[i] \in Headers(n)
  BY DEF Listed, Headers

\* A list gets another beginning: the headers stay.
LEMMA ListSet ==
  ASSUME NEW n \in Nat, NEW s \in Listed(n), NEW k \in Kinds, NEW c \in 0..n,
         NEW t, t = [s EXCEPT !.list[k] = c]
  PROVE  t \in Listed(n) /\ t.hdr = s.hdr
  BY DEF Listed

\* A list gets another end: the headers stay.
LEMMA EndSet ==
  ASSUME NEW n \in Nat, NEW s \in Listed(n), NEW k \in Kinds, NEW c \in 0..n,
         NEW t, t = [s EXCEPT !.end[k] = c]
  PROVE  t \in Listed(n) /\ t.hdr = s.hdr
  BY DEF Listed

\* A list gets another count: the headers stay.
LEMMA CountSet ==
  ASSUME NEW n \in Nat, NEW s \in Listed(n), NEW k \in Kinds, NEW c \in Nat,
         NEW t, t = [s EXCEPT !.count[k] = c]
  PROVE  t \in Listed(n) /\ t.hdr = s.hdr
  BY DEF Listed

\* A header's neighbours are joined: the headers stay but for their links.
LEMMA BridgedKeeps ==
  ASSUME NEW n \in Nat, NEW s \in Listed(n), NEW c \in 1..n
  PROVE  /\ Bridged(s, c) \in Listed(n) /\ SameHeaders(n, s, Bridged(s, c))
         /\ Bridged(s, c).count = s.count
<1> DEFINE a == s.hdr[c].next
           p == s.hdr[c].parent
           t1 == WithParent(s, a, p)
           t2 == WithNext(t1, p, a)
           t3 == WithParent(t2, c, 0)
           t4 == WithNext(t3, c, 0)
<1>1. a \in 0..n /\ p \in 0..n /\ c \in 0..n /\ 0 \in 0..n
  BY Fields
<1>2. Bridged(s, c) = t4
  BY DEF Bridged
<1> HIDE DEF a, p
<1>3. t1 \in Listed(n) /\ SameHeaders(n, s, t1) /\ t1.count = s.count
  BY <1>1, WithParentKeeps
<1> HIDE DEF t1
<1>4. t2 \in Listed(n) /\ SameHeaders(n, t1, t2) /\ t2.count = t1.count
  BY <1>1, <1>3, WithNextKeeps
<1> HIDE DEF t2
<1>5. t3 \in Listed(n) /\ SameHeaders(n, t2, t3) /\ t3.count = t2.count
  BY <1>1, <1>4, WithParentKeeps
<1> HIDE DEF t3
<1>6. t4 \in Listed(n) /\ SameHeaders(n, t3, t4) /\ t4.count = t3.count
  BY <1>1, <1>5, WithNextKeeps
<1> HIDE DEF t4
<1>7. SameHeaders(n, s, t4)
  BY <1>3, <1>4, <1>5, <1>6 DEF SameHeaders
<1> QED BY <1>2, <1>3, <1>4, <1>5, <1>6, <1>7

\* avmf_unlink_header: nothing is lost of any header.
LEMMA UnlinkKeeps ==
  ASSUME NEW n \in Nat, NEW s \in Listed(n), NEW c \in 1..n
  PROVE  Unlink(s, c) \in Listed(n) /\ Kept(n, s, Unlink(s, c))
<1> DEFINE k == s.hdr[c].type
           t == Bridged(s, c)
<1>1. t \in Listed(n) /\ SameHeaders(n, s, t) /\ t.count = s.count
  BY BridgedKeeps
<1>2. s.hdr[c].next \in 0..n /\ s.hdr[c].parent \in 0..n /\ k \in Types /\ 0 \in 0..n
  BY Fields
<1>3. CASE k \notin Kinds
  BY <1>3 DEF Unlink, Kept
<1>4. CASE k \in Kinds /\ s.count[k] = 0
  <2> DEFINE e == [s.hdr[c] EXCEPT !.type = "corrupt"]
             u == [s EXCEPT !.hdr[c] = e]
  <2>1. Unlink(s, c) = u
    BY <1>4 DEF Unlink
  <2>2. s.hdr[c] \in Headers(n)
    BY Fields
  <2>3. /\ e \in Headers(n) /\ e.virt = s.hdr[c].virt /\ e.size = s.hdr[c].size
        /\ e.phys = s.hdr[c].phys /\ e.type = "corrupt"
    BY <2>2 DEF Headers, Types
  <2> HIDE DEF e
  <2>4. u \in Listed(n) /\ \A i \in 1..n : u.hdr[i] = IF i = c THEN e ELSE s.hdr[i]
    BY <2>3 DEF Listed
  <2> HIDE DEF u
  <2> QED BY <2>1, <2>3, <2>4 DEF Kept
<1>5. CASE k \in Kinds /\ s.count[k] # 0
  <2> DEFINE m == t.count[k] - 1
             a == s.hdr[c].parent
             b == s.hdr[c].next
  <2>1. m \in Nat
    BY <1>1, <1>5, Fields
  <2>2. \/ Unlink(s, c) = [t EXCEPT !.end[k] = a, !.count[k] = m]
        \/ Unlink(s, c) = [t EXCEPT !.list[k] = b, !.count[k] = m]
        \/ Unlink(s, c) = [t EXCEPT !.count[k] = m]
    BY <1>5 DEF Unlink
  <2>3. a \in 0..n /\ b \in 0..n
    BY <1>2
  <2> HIDE DEF t, k, m, a, b
  <2>4. ASSUME Unlink(s, c) = [t EXCEPT !.end[k] = a, !.count[k] = m]
        PROVE  Unlink(s, c) \in Listed(n) /\ Unlink(s, c).hdr = t.hdr
    <3> DEFINE u == [t EXCEPT !.end[k] = a]
    <3>1. u \in Listed(n) /\ u.hdr = t.hdr
      BY <1>1, <1>5, <2>3, EndSet
    <3>2. Unlink(s, c) = [u EXCEPT !.count[k] = m]
      BY <2>4
    <3> HIDE DEF u
    <3> QED BY <1>5, <2>1, <3>1, <3>2, CountSet
  <2>5. ASSUME Unlink(s, c) = [t EXCEPT !.list[k] = b, !.count[k] = m]
        PROVE  Unlink(s, c) \in Listed(n) /\ Unlink(s, c).hdr = t.hdr
    <3> DEFINE u == [t EXCEPT !.list[k] = b]
    <3>1. u \in Listed(n) /\ u.hdr = t.hdr
      BY <1>1, <1>5, <2>3, ListSet
    <3>2. Unlink(s, c) = [u EXCEPT !.count[k] = m]
      BY <2>5
    <3> HIDE DEF u
    <3> QED BY <1>5, <2>1, <3>1, <3>2, CountSet
  <2>6. ASSUME Unlink(s, c) = [t EXCEPT !.count[k] = m]
        PROVE  Unlink(s, c) \in Listed(n) /\ Unlink(s, c).hdr = t.hdr
    BY <1>1, <1>5, <2>1, <2>6, CountSet
  <2>7. Unlink(s, c) \in Listed(n) /\ Unlink(s, c).hdr = t.hdr
    BY <2>2, <2>4, <2>5, <2>6
  <2> QED BY <1>1, <2>7 DEF SameHeaders, Kept
<1> QED BY <1>3, <1>4, <1>5
\* A header goes behind another: both stay but for their links.
LEMMA BehindKeeps ==
  ASSUME NEW n \in Nat, NEW s \in Listed(n), NEW c \in 0..n, NEW b \in 1..n
  PROVE  /\ Behind(s, c, b) \in Listed(n) /\ SameHeaders(n, s, Behind(s, c, b))
         /\ Behind(s, c, b).count = s.count
<1> DEFINE t == WithNext(s, c, b)
<1>1. b \in 0..n
  OBVIOUS
<1>2. t \in Listed(n) /\ SameHeaders(n, s, t) /\ t.count = s.count
  BY <1>1, WithNextKeeps
<1>3. Behind(s, c, b) = WithParent(t, b, c)
  BY DEF Behind
<1> HIDE DEF t
<1>4. /\ WithParent(t, b, c) \in Listed(n) /\ SameHeaders(n, t, WithParent(t, b, c))
      /\ WithParent(t, b, c).count = t.count
  BY <1>1, <1>2, WithParentKeeps
<1> QED BY <1>2, <1>3, <1>4 DEF SameHeaders

\* However far a list is followed, a header or none is reached.
LEMMA ReachedIn ==
  ASSUME NEW n \in Nat, NEW s \in Listed(n), NEW k \in Kinds, NEW i \in Nat
  PROVE  Reached(s, k, i) \in 0..n
<1> DEFINE G == [c \in 0..n |-> IF c = 0 THEN 0 ELSE s.hdr[c].next]
<1> DEFINE b == s.list[k]
           N == 0..n
<1>1. G \in [N -> N]
  BY Fields
<1>2. b \in N
  BY Fields
<1> HIDE DEF G, b, N
<1>3. \E f : Chain(f, N, b, G, i)
  BY <1>1, <1>2, Iterates
<1> USE DEF b, N
<1>9. PICK f \in [0..i -> 0..n] : \A j \in 0..i : f[j] = IF j = 0 THEN s.list[k] ELSE G[f[j - 1]]
  BY <1>3 DEF Chain
<1>4. f = [j \in 0..i |-> IF j = 0 THEN s.list[k]
                         ELSE IF f[j - 1] = 0 THEN 0 ELSE s.hdr[f[j - 1]].next]
  <2>1. \A j \in 0..i : f[j] = IF j = 0 THEN s.list[k]
                              ELSE IF f[j - 1] = 0 THEN 0 ELSE s.hdr[f[j - 1]].next
    <3> SUFFICES ASSUME NEW j \in 0..i
                 PROVE  f[j] = IF j = 0 THEN s.list[k]
                               ELSE IF f[j - 1] = 0 THEN 0 ELSE s.hdr[f[j - 1]].next
      OBVIOUS
    <3>1. CASE j = 0
      BY <1>9, <3>1
    <3>2. CASE j # 0
      <4>1. j - 1 \in 0..i /\ f[j - 1] \in 0..n
        BY <1>9, <3>2
      <4>2. f[j] = G[f[j - 1]]
        BY <1>9, <3>2
      <4> QED BY <3>2, <4>1, <4>2 DEF G
    <3> QED BY <3>1, <3>2
  <2> QED BY <1>9, <2>1
<1>5. PICK g : /\ g = [j \in 0..i |-> IF j = 0 THEN s.list[k]
                                 ELSE IF g[j - 1] = 0 THEN 0 ELSE s.hdr[g[j - 1]].next]
               /\ Reached(s, k, i) = g[i]
  BY <1>4 DEF Reached
<1>10. \A j \in 0..i : g[j] = IF j = 0 THEN s.list[k]
                              ELSE IF g[j - 1] = 0 THEN 0 ELSE s.hdr[g[j - 1]].next
  BY <1>5, Zenon
<1> DEFINE P == {j \in Nat : j <= i => g[j] \in 0..n}
<1>6. 0 \in P
  <2>1. g[0] = s.list[k]
    BY <1>10
  <2> QED BY <1>2, <2>1
<1>7. ASSUME NEW j \in Nat, j \in P PROVE j + 1 \in P
  <2> SUFFICES ASSUME j + 1 <= i PROVE g[j + 1] \in 0..n
    BY <1>7
  <2>1. g[j] \in 0..n
    BY <1>7
  <2>2. g[j + 1] = IF g[j] = 0 THEN 0 ELSE s.hdr[g[j]].next
    BY <1>10
  <2> QED BY <2>1, <2>2, Fields
<1> HIDE DEF P
<1>8. i \in P
  BY <1>6, <1>7, NatAll
<1> QED BY <1>5, <1>8 DEF P

\* A bounded set of naturals that is not empty has a greatest element.
LEMMA Greatest ==
  ASSUME NEW m \in Nat, NEW T, T \subseteq 0..m, T # {}
  PROVE  \E x \in T : \A y \in T : x >= y
<1> DEFINE U == {d \in Nat : d <= m /\ m - d \in T}
<1>1. U \subseteq Nat /\ U # {}
  <2>1. PICK x \in T : TRUE OBVIOUS
  <2>2. m - x \in Nat /\ m - (m - x) = x /\ m - x <= m
    BY <2>1
  <2> QED BY <2>1, <2>2
<1>2. PICK d \in U : \A y \in U : d <= y
  BY <1>1, NatLeast
<1>3. \A y \in T : m - d >= y
  <2> TAKE y \in T
  <2>1. m - y \in U
    <3>1. y \in 0..m OBVIOUS
    <3> QED BY <3>1
  <2>2. y \in 0..m /\ d \in Nat OBVIOUS
  <2> QED BY <1>2, <2>1, <2>2
<1> QED BY <1>2, <1>3

\* Min is the least element.
LEMMA MinIn ==
  ASSUME NEW T, T \subseteq Nat, T # {}
  PROVE  Min(T) \in T /\ \A y \in T : Min(T) <= y
  BY NatLeast DEF Min

\* Max is the greatest element.
LEMMA MaxIn ==
  ASSUME NEW m \in Nat, NEW T, T \subseteq 0..m, T # {}
  PROVE  Max(T) \in T /\ \A y \in T : Max(T) >= y
  BY Greatest DEF Max

\* avmf_link_header on an empty list: the headers stay.
LEMMA AloneKeeps ==
  ASSUME NEW n \in Nat, NEW s \in Listed(n), NEW k \in Kinds, NEW b \in 1..n
  PROVE  Alone(s, k, b) \in Listed(n) /\ SameHeaders(n, s, Alone(s, k, b))
<1> DEFINE t == [s EXCEPT !.list[k] = b]
           u == [t EXCEPT !.end[k] = b]
<1>1. b \in 0..n
  OBVIOUS
<1>2. t \in Listed(n) /\ t.hdr = s.hdr
  BY <1>1, ListSet
<1>3. Alone(s, k, b) = [u EXCEPT !.count[k] = 1]
  BY DEF Alone
<1> HIDE DEF t
<1>4. u \in Listed(n) /\ u.hdr = t.hdr
  BY <1>1, <1>2, EndSet
<1> HIDE DEF u
<1>5. Alone(s, k, b) \in Listed(n) /\ Alone(s, k, b).hdr = u.hdr
  BY <1>3, <1>4, CountSet
<1> QED BY <1>2, <1>4, <1>5 DEF SameHeaders

\* avmf_link_header when the end has to be looked for: the headers stay but for their links.
LEMMA FoundEndKeeps ==
  ASSUME NEW n \in Nat, NEW s \in Listed(n), NEW k \in Kinds, NEW b \in 1..n
  PROVE  AtFoundEnd(s, k, b) \in Listed(n) /\ SameHeaders(n, s, AtFoundEnd(s, k, b))
<1> DEFINE at0(i) == Reached(s, k, i)
           next(i) == s.hdr[at0(i)].next
           ends == {i \in 0..s.count[k] - 1 :
                      /\ at0(i) # 0
                      /\ next(i) = 0 \/ (Corrupt(s, at0(i)) /\ s.hdr[next(i)].type # k)}
           i0 == Min(ends)
           before == {j \in 0..i0 - 1 : ~Corrupt(s, at0(j))}
           t == [s EXCEPT !.end[k] = b]
<1>1. AtFoundEnd(s, k, b) =
        IF ends = {} THEN t
        ELSE IF ~Corrupt(s, at0(i0)) THEN [Behind(t, at0(i0), b) EXCEPT !.count[k] = @ + 1]
        ELSE IF before = {} THEN Alone(s, k, b)
        ELSE [Behind(t, at0(Max(before)), b) EXCEPT !.count[k] = i0]
  BY DEF AtFoundEnd
<1>2. t \in Listed(n) /\ t.hdr = s.hdr
  BY EndSet
<1>3. s.count[k] \in Nat
  BY Fields
<1>4. ends \subseteq Nat
  OBVIOUS
<1>5. ends # {} => i0 \in Nat
  <2> HIDE DEF ends
  <2> QED BY <1>4, MinIn
<1>6. \A i \in Nat : at0(i) \in 0..n
  BY ReachedIn
<1>7. ends # {} /\ before # {} => Max(before) \in Nat
  <2> HIDE DEF ends, i0
  <2> SUFFICES ASSUME ends # {}, before # {} PROVE Max(before) \in Nat
    OBVIOUS
  <2>1. i0 \in Nat
    BY <1>5
  <2>2. before \subseteq 0..i0
    BY <2>1
  <2>3. before \subseteq Nat
    BY <2>1
  <2> HIDE DEF before
  <2> QED BY <2>1, <2>2, <2>3, MaxIn
<1> HIDE DEF ends, i0, before, t
<1>8. ASSUME NEW c \in 0..n
      PROVE  /\ Behind(t, c, b) \in Listed(n) /\ SameHeaders(n, s, Behind(t, c, b))
  <2>1. Behind(t, c, b) \in Listed(n) /\ SameHeaders(n, t, Behind(t, c, b))
    BY <1>2, BehindKeeps
  <2> QED BY <1>2, <2>1 DEF SameHeaders
<1>9. ASSUME NEW c \in 0..n, NEW m \in Nat, NEW u, u = [Behind(t, c, b) EXCEPT !.count[k] = m]
      PROVE  u \in Listed(n) /\ SameHeaders(n, s, u)
  <2>1. u \in Listed(n) /\ u.hdr = Behind(t, c, b).hdr
    BY <1>8, <1>9, CountSet
  <2> QED BY <1>8, <2>1 DEF SameHeaders
<1>10. CASE ends = {}
  BY <1>1, <1>2, <1>10 DEF SameHeaders
<1>11. CASE ends # {} /\ ~Corrupt(s, at0(i0))
  <2> DEFINE m == Behind(t, at0(i0), b).count[k] + 1
  <2>1. AtFoundEnd(s, k, b) = [Behind(t, at0(i0), b) EXCEPT !.count[k] = m]
    BY <1>1, <1>11
  <2>2. at0(i0) \in 0..n
    BY <1>5, <1>6, <1>11
  <2>3. m \in Nat
    BY <1>8, <2>2, Fields
  <2> HIDE DEF m, at0
  <2> QED BY <1>9, <2>1, <2>2, <2>3
<1>12. CASE ends # {} /\ Corrupt(s, at0(i0)) /\ before = {}
  BY <1>1, <1>12, AloneKeeps
<1>13. CASE ends # {} /\ Corrupt(s, at0(i0)) /\ before # {}
  <2>1. AtFoundEnd(s, k, b) = [Behind(t, at0(Max(before)), b) EXCEPT !.count[k] = i0]
    BY <1>1, <1>13
  <2>2. at0(Max(before)) \in 0..n /\ i0 \in Nat
    BY <1>5, <1>6, <1>7, <1>13
  <2> HIDE DEF at0
  <2> QED BY <1>9, <2>1, <2>2
<1> QED BY <1>10, <1>11, <1>12, <1>13
\* avmf_link_header behind the end: the headers stay but for their links.
LEMMA BehindEndKeeps ==
  ASSUME NEW n \in Nat, NEW s \in Listed(n), NEW k \in Kinds, NEW b \in 1..n
  PROVE  BehindEnd(s, k, b) \in Listed(n) /\ SameHeaders(n, s, BehindEnd(s, k, b))
<1> DEFINE t == Behind(s, s.end[k], b)
           m == t.count[k] + 1
<1>1. s.end[k] \in 0..n
  BY Fields
<1>2. t \in Listed(n) /\ SameHeaders(n, s, t)
  BY <1>1, BehindKeeps
<1>3. m \in Nat
  BY <1>2, Fields
<1>4. BehindEnd(s, k, b) = [t EXCEPT !.count[k] = m]
  BY DEF BehindEnd
<1> HIDE DEF t, m
<1>5. BehindEnd(s, k, b) \in Listed(n) /\ BehindEnd(s, k, b).hdr = t.hdr
  BY <1>2, <1>3, <1>4, CountSet
<1> QED BY <1>2, <1>5 DEF SameHeaders

\* avmf_link_header: the headers stay but for their links.
LEMMA LinkKeeps ==
  ASSUME NEW n \in Nat, NEW s \in Listed(n), NEW b \in 1..n, s.hdr[b].type \in Kinds
  PROVE  Link(s, b) \in Listed(n) /\ SameHeaders(n, s, Link(s, b))
<1> DEFINE t == WithParent(s, b, 0)
           u == WithNext(t, b, 0)
           k == u.hdr[b].type
<1>1. b \in 0..n /\ 0 \in 0..n
  OBVIOUS
<1>2. t \in Listed(n) /\ SameHeaders(n, s, t)
  BY <1>1, WithParentKeeps
<1>3. Link(s, b) = IF u.count[k] < 1 \/ u.list[k] = 0 THEN Alone(u, k, b)
                   ELSE IF u.end[k] # 0 /\ ~Corrupt(u, u.end[k]) THEN BehindEnd(u, k, b)
                   ELSE AtFoundEnd(u, k, b)
  BY DEF Link
<1> HIDE DEF t
<1>4. u \in Listed(n) /\ SameHeaders(n, t, u)
  BY <1>1, <1>2, WithNextKeeps
<1> HIDE DEF u
<1>5. k \in Kinds
  BY <1>2, <1>4 DEF SameHeaders
<1> HIDE DEF k
<1>6. /\ Alone(u, k, b) \in Listed(n) /\ SameHeaders(n, u, Alone(u, k, b))
      /\ BehindEnd(u, k, b) \in Listed(n) /\ SameHeaders(n, u, BehindEnd(u, k, b))
      /\ AtFoundEnd(u, k, b) \in Listed(n) /\ SameHeaders(n, u, AtFoundEnd(u, k, b))
  BY <1>4, <1>5, AloneKeeps, BehindEndKeeps, FoundEndKeeps
<1>7. Link(s, b) \in Listed(n) /\ SameHeaders(n, u, Link(s, b))
  BY <1>3, <1>6
<1> QED BY <1>2, <1>4, <1>7 DEF SameHeaders

\* What Move leaves: the header in its new list, the others Kept.
LEMMA MoveKeeps ==
  ASSUME NEW n \in Nat, NEW s \in Listed(n), NEW b \in 1..n, NEW k \in Kinds
  PROVE  /\ Move(s, b, k) \in Listed(n) /\ Move(s, b, k).hdr[b].type = k
         /\ \A i \in 1..n :
              /\ Move(s, b, k).hdr[i].virt = s.hdr[i].virt
              /\ Move(s, b, k).hdr[i].size = s.hdr[i].size
              /\ Move(s, b, k).hdr[i].phys = s.hdr[i].phys
              /\ i # b => Move(s, b, k).hdr[i].type \in {s.hdr[i].type, "corrupt"}
<1> DEFINE t == Unlink(s, b)
           e == [t.hdr[b] EXCEPT !.type = k]
           u == [t EXCEPT !.hdr[b] = e]
<1>1. t \in Listed(n) /\ Kept(n, s, t)
  BY UnlinkKeeps
<1>2. Move(s, b, k) = Link(u, b)
  BY DEF Move
<1> HIDE DEF t
<1>3. t.hdr[b] \in Headers(n)
  BY <1>1, Fields
<1>4. /\ e \in Headers(n) /\ e.virt = t.hdr[b].virt /\ e.size = t.hdr[b].size
      /\ e.phys = t.hdr[b].phys /\ e.type = k
  BY <1>3 DEF Headers, Types
<1> HIDE DEF e
<1>5. u \in Listed(n) /\ \A i \in 1..n : u.hdr[i] = IF i = b THEN e ELSE t.hdr[i]
  BY <1>1, <1>4 DEF Listed
<1> HIDE DEF u
<1>6. Link(u, b) \in Listed(n) /\ SameHeaders(n, u, Link(u, b))
  BY <1>4, <1>5, LinkKeeps
<1> QED BY <1>1, <1>2, <1>4, <1>5, <1>6 DEF Kept, SameHeaders

\* A place in a search: what a loop over a list may come to.
Places(n, s, k, wanted) ==
  {w \in [s : Listed(n), at : 0..n, found : BOOLEAN] :
     Kept(n, s, w.s) /\ (w.found => w.at \in wanted /\ w.s.hdr[w.at].type = k)}

\* Twice nothing is lost: nothing is lost.
LEMMA KeptOn ==
  ASSUME NEW n \in Nat, NEW s \in Listed(n), NEW t, NEW u, Kept(n, s, t), Kept(n, t, u)
  PROVE  Kept(n, s, u)
  BY DEF Kept

\* One step of a loop over a list.
LEMMA LookKeeps ==
  ASSUME NEW n \in Nat, NEW s \in Listed(n), NEW k \in Kinds,
         NEW wanted \in SUBSET (1..n), NEW stuck, NEW w \in Places(n, s, k, wanted)
  PROVE  Look(w, k, wanted, stuck) \in Places(n, s, k, wanted)
<1>1. CASE w.at = 0 \/ w.found
  BY <1>1 DEF Look
<1>2. CASE w.at # 0 /\ ~w.found
  <2> DEFINE c == w.s.hdr[w.at]
  <2>1. w.s \in Listed(n) /\ w.at \in 1..n /\ Kept(n, s, w.s) /\ w.found = FALSE
    BY <1>2 DEF Places
  <2>2. c.next \in 0..n /\ c.type \in Types
    BY <2>1, Fields
  <2>3. ASSUME NEW y \in [s : Listed(n), at : 0..n, found : BOOLEAN], Kept(n, s, y.s), ~y.found,
               NEW a \in 0..n, NEW x, x = [y EXCEPT !.at = a]
        PROVE  x \in Places(n, s, k, wanted)
    <3>1. x \in [s : Listed(n), at : 0..n, found : BOOLEAN] /\ x.s = y.s /\ x.found = y.found
      BY <2>3
    <3> QED BY <2>3, <3>1 DEF Places
  <2>4. w \in [s : Listed(n), at : 0..n, found : BOOLEAN]
    BY DEF Places
  <2>5. ASSUME NEW y \in [s : Listed(n), at : 0..n, found : BOOLEAN], Kept(n, s, y.s), ~y.found,
               NEW m \in 0..n
        PROVE  PassOver(y, m, k) \in Places(n, s, k, wanted)
    <3> DEFINE a == IF m # 0 /\ y.s.hdr[m].type = k THEN m ELSE 0
    <3>1. a \in 0..n /\ PassOver(y, m, k) = [y EXCEPT !.at = a]
      BY DEF PassOver
    <3> HIDE DEF a
    <3> QED BY <2>3, <2>5, <3>1
  <2>6. CASE c.type = "corrupt"
    <3>1. Look(w, k, wanted, stuck) = PassOver(w, c.next, k)
      BY <1>2, <2>6 DEF Look, Kinds
    <3> QED BY <2>1, <2>2, <2>4, <2>5, <3>1
  <2>7. CASE c.type \in Kinds \ {k}
    <3> DEFINE v == Unlink(w.s, w.at)
               y == [w EXCEPT !.s = v]
    <3>1. Look(w, k, wanted, stuck) = PassOver(y, c.next, k)
      BY <1>2, <2>7 DEF Look, Kinds
    <3>2. v \in Listed(n) /\ Kept(n, s, v)
      BY <2>1, UnlinkKeeps, KeptOn
    <3> HIDE DEF v
    <3>3. y \in [s : Listed(n), at : 0..n, found : BOOLEAN] /\ y.s = v /\ y.found = w.found
      BY <2>4, <3>2
    <3> HIDE DEF y
    <3> QED BY <2>1, <2>2, <2>5, <3>1, <3>2, <3>3
  <2>8. CASE c.type = k /\ w.at \in wanted
    <3> DEFINE y == [w EXCEPT !.found = TRUE]
    <3>1. Look(w, k, wanted, stuck) = y
      BY <1>2, <2>8 DEF Look, Kinds
    <3>2. y \in [s : Listed(n), at : 0..n, found : BOOLEAN] /\ y.s = w.s /\ y.at = w.at
      BY <2>4
    <3> HIDE DEF y
    <3> QED BY <2>1, <2>8, <3>1, <3>2 DEF Places
  <2>9. CASE c.type = k /\ w.at \notin wanted
    <3> DEFINE a == IF w.at \in stuck THEN 0 ELSE c.next
    <3>1. a \in 0..n /\ Look(w, k, wanted, stuck) = [w EXCEPT !.at = a]
      BY <1>2, <2>2, <2>9 DEF Look, Kinds
    <3> HIDE DEF a
    <3> QED BY <2>1, <2>3, <2>4, <3>1
  <2> QED BY <2>2, <2>6, <2>7, <2>8, <2>9 DEF Types
<1> QED BY <1>1, <1>2 DEF Places

\* What a search over a list comes to, whatever the links.
LEMMA SearchKeeps ==
  ASSUME NEW n \in Nat, NEW s \in Listed(n), NEW k \in Kinds,
         NEW wanted \in SUBSET (1..n), NEW stuck
  PROVE  Search(s, k, wanted, stuck) \in Places(n, s, k, wanted)
<1> DEFINE S == Places(n, s, k, wanted)
           b == [s |-> s, at |-> IF s.count[k] = 0 THEN 0 ELSE s.list[k], found |-> FALSE]
           G == [w \in S |-> Look(w, k, wanted, stuck)]
           m == s.count[k]
<1>1. b \in S
  <2>1. Kept(n, s, s)
    BY Fields DEF Kept
  <2>2. b.at \in 0..n
    BY Fields
  <2> QED BY <2>1, <2>2 DEF Places
<1>2. G \in [S -> S]
  BY LookKeeps
<1>3. m \in Nat
  BY Fields
<1> HIDE DEF b, m, S
<1>4. PICK f : Chain(f, S, b, G, m)
  <2> HIDE DEF G
  <2> QED BY <1>1, <1>2, <1>3, Iterates
<1>5. f = [i \in 0..m |-> IF i = 0 THEN b ELSE Look(f[i - 1], k, wanted, stuck)]
  <2>1. f \in [0..m -> S] /\ \A i \in 0..m : f[i] = IF i = 0 THEN b ELSE G[f[i - 1]]
    BY <1>4 DEF Chain
  <2>2. \A i \in 0..m : f[i] = IF i = 0 THEN b ELSE Look(f[i - 1], k, wanted, stuck)
    <3> SUFFICES ASSUME NEW i \in 0..m, i # 0 PROVE f[i] = Look(f[i - 1], k, wanted, stuck)
      BY <2>1
    <3>1. i - 1 \in 0..m /\ f[i - 1] \in S /\ f[i] = G[f[i - 1]]
      BY <1>3, <2>1
    <3> QED BY <3>1
  <2> QED BY <2>1, <2>2
<1>6. PICK g : /\ g = [i \in 0..m |-> IF i = 0 THEN b ELSE Look(g[i - 1], k, wanted, stuck)]
               /\ Search(s, k, wanted, stuck) = g[m]
  BY <1>5 DEF Search, b, m
<1> DEFINE P == {i \in Nat : i <= m => g[i] \in S}
<1>7. 0 \in P
  <2>1. g[0] = b
    BY <1>3, <1>6
  <2> QED BY <1>1, <2>1
<1>8. ASSUME NEW i \in Nat, i \in P PROVE i + 1 \in P
  <2> SUFFICES ASSUME i + 1 <= m PROVE g[i + 1] \in S
    BY <1>8
  <2>1. g[i] \in S
    BY <1>3, <1>8
  <2>2. g[i + 1] = Look(g[i], k, wanted, stuck)
    BY <1>3, <1>6
  <2> QED BY <2>1, <2>2, LookKeeps DEF S
<1> HIDE DEF P
<1>9. m \in P
  BY <1>3, <1>7, <1>8, NatAll
<1> QED BY <1>6, <1>9 DEF P, S
-----------------------------------------------------------------------------
(* The allocator *)

\* What is asked for is not nothing.
MemSensible ==
  Pages \in Nat /\ LowFrames \in Nat /\ PhysFrames \in Nat /\ Sizes \subseteq Nat \ {0}

Jobs(n) ==
  {Idle} \cup [at : {"phys", "frames", "header"}, hdr : 1..n]
         \cup [at : {"walk"}, virt : Nat, hdr : 0..n]

MemTypeOK ==
  /\ Len(hdr) \in Nat /\ lists \in Listed(Len(hdr)) /\ free \in 0..Pages
  /\ map \in [0..Pages - 1 -> Nat] /\ job \in [Cpus -> Jobs(Len(hdr))]
  /\ live \subseteq [virt : Nat, size : Nat, phys : Nat]

Before(i, j) == hdr[i].virt + hdr[i].size <= hdr[j].virt

\* The headers tile the region up to the free range.
Placed ==
  /\ \A i \in 1..Len(hdr) : hdr[i].size > 0 /\ hdr[i].virt + hdr[i].size <= free
  /\ \A i, j \in 1..Len(hdr) : i # j => Before(i, j) \/ Before(j, i)
  /\ \A v \in 0..free - 1 : \E i \in 1..Len(hdr) : v \in Span(i)

\* The header a processor is at work on: the one it has, or the one its walk looks for.
Working == {"phys", "frames", "header"}

Owns(p, i) ==
  \/ job[p].at \in Working /\ job[p].hdr = i
  \/ job[p].at = "walk" /\ job[p].virt \in Span(i)

\* A header that is worked on is no cached one, is worked on by one processor, and no
\* caller holds it.
Owners ==
  \A p \in Cpus : \A i \in 1..Len(hdr) : Owns(p, i) =>
    /\ hdr[i].type # "cache"
    /\ \A q \in Cpus : Owns(q, i) => q = p
    /\ \A a \in live : a.virt # hdr[i].virt

InRange == \A p \in Cpus : job[p].at = "walk" => job[p].virt < free

\* Nothing is mapped behind the free range, in a cached header, and in one whose frames are
\* not yet there or there no more.
Bare(i) ==
  hdr[i].type = "cache" \/ \E p \in Cpus : job[p].at \in {"phys", "header"} /\ job[p].hdr = i

Unmapped ==
  /\ \A v \in free..Pages - 1 : map[v] = 0
  /\ \A i \in 1..Len(hdr) : Bare(i) => \A v \in Span(i) : map[v] = 0

\* The inductive invariant of the allocator.
MemInv == MemTypeOK /\ Placed /\ Owners /\ InRange /\ Unmapped /\ MappedAsGiven

\* How many headers there are.
LEMMA LenListed ==
  ASSUME NEW n \in Nat, NEW s \in Listed(n)
  PROVE  Len(s.hdr) = n /\ DOMAIN s.hdr = 1..n
<1>1. s.hdr \in [1..n -> Headers(n)]
  BY DEF Listed
<1> QED BY <1>1

\* A new header is linked: it is the last one, and the others stay but for their links.
LEMMA WithNewKeeps ==
  ASSUME NEW n \in Nat, NEW s \in Listed(n), NEW c \in Headers(n), c.type \in Kinds
  PROVE  /\ WithNew(s, c) \in Listed(n + 1)
         /\ \A i \in 1..n + 1 :
              LET old == IF i = n + 1 THEN c ELSE s.hdr[i] IN
              /\ WithNew(s, c).hdr[i].virt = old.virt /\ WithNew(s, c).hdr[i].size = old.size
              /\ WithNew(s, c).hdr[i].phys = old.phys /\ WithNew(s, c).hdr[i].type = old.type
<1> DEFINE e == Append(s.hdr, c)
           t == [s EXCEPT !.hdr = e]
<1>1. Len(s.hdr) = n /\ s.hdr \in [1..n -> Headers(n)]
  BY LenListed DEF Listed
<1>2. WithNew(s, c) = Link(t, n + 1)
  BY <1>1 DEF WithNew
<1>3. Headers(n) \subseteq Headers(n + 1)
  BY DEF Headers
<1>4. /\ e \in [1..n + 1 -> Headers(n + 1)]
      /\ \A i \in 1..n + 1 : e[i] = IF i = n + 1 THEN c ELSE s.hdr[i]
  <2>1. s.hdr \in Seq(Headers(n))
    BY <1>1
  <2>2. e \in Seq(Headers(n)) /\ Len(e) = n + 1
    BY <1>1, <2>1
  <2>3. e[n + 1] = c /\ \A i \in 1..n : e[i] = s.hdr[i]
    BY <1>1, <2>1
  <2> HIDE DEF e
  <2>4. e \in [1..n + 1 -> Headers(n)]
    BY <2>2
  <2> QED BY <1>3, <2>3, <2>4
<1> HIDE DEF e
<1>5. t \in Listed(n + 1) /\ t.hdr = e
  <2>1. /\ s.list \in [Kinds -> 0..n + 1] /\ s.end \in [Kinds -> 0..n + 1]
        /\ s.count \in [Kinds -> Nat]
    <3>1. s.list \in [Kinds -> 0..n] /\ s.end \in [Kinds -> 0..n] /\ s.count \in [Kinds -> Nat]
      BY DEF Listed
    <3> QED BY <3>1
  <2> DEFINE A == [1..n -> Headers(n)]
             B == [1..n + 1 -> Headers(n + 1)]
             C == [Kinds -> 0..n + 1]
             D == [Kinds -> Nat]
  <2>2. s \in [hdr : A, list : C, end : C, count : D]
    BY <2>1 DEF Listed
  <2>3. e \in B
    BY <1>4
  <2>4. Listed(n + 1) = [hdr : B, list : C, end : C, count : D]
    BY DEF Listed
  <2> HIDE DEF A, B, C, D
  <2> QED BY <2>2, <2>3, <2>4
<1> HIDE DEF t
<1>6. t.hdr[n + 1].type \in Kinds
  BY <1>4, <1>5
<1>7. Link(t, n + 1) \in Listed(n + 1) /\ SameHeaders(n + 1, t, Link(t, n + 1))
  BY <1>5, <1>6, LinkKeeps
<1> QED BY <1>2, <1>4, <1>5, <1>7 DEF SameHeaders

\* The first frame of the first run that is long enough.
LEMMA FirstFitFrame ==
  ASSUME MemSensible, NEW n, Enough(n)
  PROVE  FirstFit(n) \in Nat \ {0}
<1>1. Fitting(n) \subseteq Nat \ {0} /\ Fitting(n) # {}
  BY DEF MemSensible, Enough, Fitting, Frames
<1> QED BY <1>1, MinIn DEF FirstFit

\* The pages of a header.
LEMMA SpanOf ==
  ASSUME MemTypeOK
  PROVE  /\ Len(hdr) \in Nat /\ DOMAIN hdr = 1..Len(hdr)
         /\ \A i \in 1..Len(hdr) :
              /\ hdr[i] \in Headers(Len(hdr)) /\ hdr[i].virt \in Nat /\ hdr[i].size \in Nat
              /\ hdr[i].phys \in Nat /\ hdr[i].type \in Types
              /\ \A v : v \in Span(i) <=> v \in Nat /\ hdr[i].virt <= v
                                         /\ v < hdr[i].virt + hdr[i].size
<1>1. hdr \in [1..Len(hdr) -> Headers(Len(hdr))] /\ Len(hdr) \in Nat
  BY DEF MemTypeOK, Listed, hdr
<1> SUFFICES ASSUME NEW i \in 1..Len(hdr)
             PROVE  /\ hdr[i] \in Headers(Len(hdr)) /\ hdr[i].virt \in Nat
                    /\ hdr[i].size \in Nat /\ hdr[i].phys \in Nat /\ hdr[i].type \in Types
                    /\ \A v : v \in Span(i) <=> v \in Nat /\ hdr[i].virt <= v
                                               /\ v < hdr[i].virt + hdr[i].size
  BY <1>1
<1>2. hdr[i] \in Headers(Len(hdr))
  BY <1>1
<1>3. /\ hdr[i].virt \in Nat /\ hdr[i].size \in Nat /\ hdr[i].phys \in Nat
      /\ hdr[i].type \in Types
  BY <1>2 DEF Headers
<1> QED BY <1>2, <1>3 DEF Span, Run
\* The headers keep their addresses and sizes; then they tile the region as before.
SameBlocks ==
  /\ lists' \in Listed(Len(hdr)) /\ free' = free
  /\ \A j \in 1..Len(hdr) : hdr'[j].virt = hdr[j].virt /\ hdr'[j].size = hdr[j].size

LEMMA SameBlocksPlaced ==
  ASSUME MemTypeOK, Placed, SameBlocks
  PROVE  /\ Len(hdr)' = Len(hdr) /\ Placed'
         /\ \A j \in 1..Len(hdr) : Span(j)' = Span(j)
<1>1. Len(hdr)' = Len(hdr)
  BY LenListed DEF MemTypeOK, SameBlocks, hdr
<1>2. \A j \in 1..Len(hdr) : Span(j)' = Span(j)
  BY DEF SameBlocks, Span, Run
<1>3. Placed'
  BY <1>1, <1>2 DEF SameBlocks, Placed, Before
<1> QED BY <1>1, <1>2, <1>3

\* What an allocation of a header leaves: i has pages of a cached header or of the free
\* range, no cached header has grown, and one that was in use is as it was.
Allotted(i) ==
  /\ Len(hdr)' \in Nat /\ lists' \in Listed(Len(hdr)') /\ free' \in free..Pages /\ Placed'
  /\ i \in 1..Len(hdr)' /\ Len(hdr) <= Len(hdr)' /\ hdr'[i].type # "cache"
  /\ i \in 1..Len(hdr) => hdr[i].type = "cache"
  /\ \A v \in Span(i)' :
       v \in free..Pages - 1 \/ \E c \in 1..Len(hdr) : hdr[c].type = "cache" /\ v \in Span(c)
  /\ \A j \in 1..Len(hdr)' : j # i =>
       /\ j \in 1..Len(hdr) /\ Span(j)' \subseteq Span(j)
       /\ hdr'[j].type = "cache" => hdr[j].type = "cache"
       /\ hdr[j].type # "cache" =>
            /\ hdr'[j].type # "cache" /\ hdr'[j].virt = hdr[j].virt
            /\ hdr'[j].size = hdr[j].size /\ hdr'[j].phys = hdr[j].phys

\* A cached header of the size is used again.
LEMMA ReuseAllots ==
  ASSUME MemSensible, MemTypeOK, Placed, NEW wanted \in SUBSET (1..Len(hdr)),
         NEW w \in Places(Len(hdr), lists, "cache", wanted), NEW n, NEW i, Reuse(n, i, w)
  PROVE  Allotted(i)
<1> DEFINE L == Len(hdr)
<1>1. L \in Nat /\ lists \in Listed(L) /\ free \in 0..Pages /\ Pages \in Nat
  BY DEF MemTypeOK, MemSensible
<1>2. /\ w.s \in Listed(L) /\ Kept(L, lists, w.s) /\ i \in 1..L /\ w.s.hdr[i].type = "cache"
      /\ lists' = Move(w.s, i, "alloc") /\ free' = free
  BY DEF Reuse, Places
<1>3. "alloc" \in Kinds
  BY DEF Kinds
<1>4. /\ lists' \in Listed(L) /\ lists'.hdr[i].type = "alloc"
      /\ \A j \in 1..L :
           /\ lists'.hdr[j].virt = w.s.hdr[j].virt /\ lists'.hdr[j].size = w.s.hdr[j].size
           /\ lists'.hdr[j].phys = w.s.hdr[j].phys
           /\ j # i => lists'.hdr[j].type \in {w.s.hdr[j].type, "corrupt"}
  <2> HIDE DEF L
  <2> DEFINE m == Move(w.s, i, "alloc")
  <2>1. /\ m \in Listed(L) /\ m.hdr[i].type = "alloc"
        /\ \A j \in 1..L :
             /\ m.hdr[j].virt = w.s.hdr[j].virt /\ m.hdr[j].size = w.s.hdr[j].size
             /\ m.hdr[j].phys = w.s.hdr[j].phys
             /\ j # i => m.hdr[j].type \in {w.s.hdr[j].type, "corrupt"}
    <3>1. w.s \in Listed(L) /\ i \in 1..L /\ L \in Nat
      BY <1>1, <1>2
    <3>2. m \in Listed(L) /\ m.hdr[i].type = "alloc"
      BY <1>3, <3>1, MoveKeeps
    <3>3. ASSUME NEW j \in 1..L
          PROVE  /\ m.hdr[j].virt = w.s.hdr[j].virt /\ m.hdr[j].size = w.s.hdr[j].size
                 /\ m.hdr[j].phys = w.s.hdr[j].phys
                 /\ j # i => m.hdr[j].type \in {w.s.hdr[j].type, "corrupt"}
      BY <1>3, <3>1, MoveKeeps
    <3> QED BY <3>2, <3>3
  <2>2. lists' = m
    BY <1>2
  <2> HIDE DEF m
  <2> QED BY <2>1, <2>2
<1>5. /\ hdr[i].type = "cache" /\ hdr'[i].type = "alloc"
      /\ \A j \in 1..L :
           /\ hdr'[j].virt = hdr[j].virt /\ hdr'[j].size = hdr[j].size
           /\ hdr'[j].phys = hdr[j].phys
           /\ j # i => hdr'[j].type \in {hdr[j].type, "corrupt"}
  BY <1>2, <1>4 DEF Kept, hdr
<1>6. SameBlocks
  BY <1>2, <1>4, <1>5 DEF SameBlocks
<1>7. Len(hdr)' = L /\ Placed' /\ \A j \in 1..L : Span(j)' = Span(j)
  BY <1>6, SameBlocksPlaced
<1> HIDE DEF L
<1> QED BY <1>1, <1>2, <1>4, <1>5, <1>7 DEF Allotted, L

\* A header from the free range.
LEMMA CarveAllots ==
  ASSUME MemSensible, MemTypeOK, Placed, NEW wanted \in SUBSET (1..Len(hdr)),
         NEW w \in Places(Len(hdr), lists, "cache", wanted), NEW n \in Nat \ {0}, NEW i,
         Carve(n, i, w)
  PROVE  Allotted(i)
<1> DEFINE L == Len(hdr)
           c == [virt |-> free, size |-> n, phys |-> 0, type |-> "alloc", next |-> 0,
                 parent |-> 0]
<1>1. L \in Nat /\ lists \in Listed(L) /\ free \in 0..Pages /\ free \in Nat /\ Pages \in Nat
  BY DEF MemTypeOK, MemSensible
<1>2. /\ w.s \in Listed(L) /\ Kept(L, lists, w.s) /\ i = L + 1
      /\ lists' = WithNew(w.s, c) /\ free' = free + n /\ free + n <= Pages
  BY DEF Carve, Places
<1>3. c \in Headers(L) /\ c.type \in Kinds
  BY <1>1 DEF Headers, Types, Kinds
<1>4. /\ lists' \in Listed(L + 1)
      /\ \A j \in 1..L + 1 :
           LET old == IF j = L + 1 THEN c ELSE w.s.hdr[j] IN
           /\ lists'.hdr[j].virt = old.virt /\ lists'.hdr[j].size = old.size
           /\ lists'.hdr[j].phys = old.phys /\ lists'.hdr[j].type = old.type
  BY <1>1, <1>2, <1>3, WithNewKeeps
<1>5. Len(hdr)' = L + 1
  BY <1>1, <1>4, LenListed DEF hdr
<1>6. /\ hdr'[i].virt = free /\ hdr'[i].size = n /\ hdr'[i].type = "alloc"
      /\ \A j \in 1..L :
           /\ hdr'[j].virt = hdr[j].virt /\ hdr'[j].size = hdr[j].size
           /\ hdr'[j].phys = hdr[j].phys /\ hdr'[j].type \in {hdr[j].type, "corrupt"}
  <2>1. /\ hdr'[i].virt = c.virt /\ hdr'[i].size = c.size /\ hdr'[i].type = c.type
    BY <1>1, <1>2, <1>4 DEF hdr
  <2>2. \A j \in 1..L : j # L + 1 /\ j \in 1..L + 1
    BY <1>1
  <2>3. \A j \in 1..L :
          /\ hdr'[j].virt = w.s.hdr[j].virt /\ hdr'[j].size = w.s.hdr[j].size
          /\ hdr'[j].phys = w.s.hdr[j].phys /\ hdr'[j].type = w.s.hdr[j].type
    BY <1>4, <2>2 DEF hdr
  <2> QED BY <1>2, <2>1, <2>3 DEF Kept, hdr
<1>7. \A j \in 1..L : hdr[j].virt \in Nat /\ hdr[j].size \in Nat
  BY SpanOf
<1>8. Span(i)' = free..free + n - 1 /\ \A j \in 1..L : Span(j)' = Span(j)
  BY <1>6 DEF Span, Run
<1> HIDE DEF L, c
<1>9. Placed'
  <2>1. \A j \in 1..L + 1 : hdr'[j].size > 0 /\ hdr'[j].virt + hdr'[j].size <= free'
    <3> SUFFICES ASSUME NEW j \in 1..L + 1
                 PROVE  hdr'[j].size > 0 /\ hdr'[j].virt + hdr'[j].size <= free'
      OBVIOUS
    <3>1. CASE j \in 1..L
      <4>1. hdr[j].size > 0 /\ hdr[j].virt + hdr[j].size <= free
        BY <3>1 DEF Placed, L
      <4> QED BY <1>1, <1>2, <1>6, <1>7, <3>1, <4>1
    <3>2. CASE j = L + 1
      BY <1>1, <1>2, <1>6, <3>2
    <3> QED BY <1>1, <3>1, <3>2
  <2>2. \A j, k \in 1..L + 1 : j # k => Before(j, k)' \/ Before(k, j)'
    <3> SUFFICES ASSUME NEW j \in 1..L + 1, NEW k \in 1..L + 1, j # k
                 PROVE  Before(j, k)' \/ Before(k, j)'
      OBVIOUS
    <3>1. CASE j \in 1..L /\ k \in 1..L
      BY <1>6, <3>1 DEF Placed, Before, L
    <3>2. CASE j = L + 1 /\ k \in 1..L
      BY <1>2, <1>6, <3>2 DEF Placed, Before, L
    <3>3. CASE j \in 1..L /\ k = L + 1
      BY <1>2, <1>6, <3>3 DEF Placed, Before, L
    <3> QED BY <1>1, <3>1, <3>2, <3>3
  <2>3. \A v \in 0..free' - 1 : \E j \in 1..L + 1 : v \in Span(j)'
    <3> SUFFICES ASSUME NEW v \in 0..free' - 1 PROVE \E j \in 1..L + 1 : v \in Span(j)'
      OBVIOUS
    <3>1. CASE v < free
      <4>1. PICK j \in 1..L : v \in Span(j)
        BY <1>1, <3>1 DEF Placed, L
      <4> QED BY <1>1, <1>8, <4>1
    <3>2. CASE v >= free
      BY <1>1, <1>2, <1>8, <3>2
    <3> QED BY <1>1, <3>1, <3>2
  <2> QED BY <1>5, <2>1, <2>2, <2>3 DEF Placed
<1>10. free' \in free..Pages /\ \A v \in Span(i)' : v \in free..Pages - 1
  BY <1>1, <1>2, <1>8
<1>11. i \notin 1..L /\ i \in 1..L + 1 /\ \A j \in 1..L + 1 : j # i => j \in 1..L
  BY <1>1, <1>2
<1>12. lists' \in Listed(Len(hdr)') /\ Len(hdr)' \in Nat /\ L <= Len(hdr)'
  BY <1>1, <1>4, <1>5
<1> QED BY <1>5, <1>6, <1>8, <1>9, <1>10, <1>11, <1>12 DEF Allotted, L
\* The headers after a split: the new one has the first pages of the cached one.
LEMMA SplitHeaders ==
  ASSUME MemSensible, MemTypeOK, NEW wanted \in SUBSET (1..Len(hdr)),
         NEW w \in Places(Len(hdr), lists, "cache", wanted), NEW n \in Nat \ {0}, NEW i,
         Split(n, i, w)
  PROVE  /\ i = Len(hdr) + 1 /\ w.at \in 1..Len(hdr) /\ free' = free
         /\ lists' \in Listed(Len(hdr) + 1)
         /\ hdr[w.at].type = "cache" /\ hdr[w.at].size > n
         /\ hdr'[w.at].type = "cache" /\ hdr'[w.at].virt = hdr[w.at].virt + n
         /\ hdr'[w.at].size = hdr[w.at].size - n
         /\ hdr'[i].virt = hdr[w.at].virt /\ hdr'[i].size = n /\ hdr'[i].type = "alloc"
         /\ \A j \in 1..Len(hdr) : j # w.at =>
              /\ hdr'[j].virt = hdr[j].virt /\ hdr'[j].size = hdr[j].size
              /\ hdr'[j].phys = hdr[j].phys /\ hdr'[j].type \in {hdr[j].type, "corrupt"}
<1> DEFINE L == Len(hdr)
           x == w.at
           e == [hdr[x] EXCEPT !.size = n, !.type = "alloc"]
           W == WithNew(w.s, e)
           r == Rest(W.hdr[x], n)
<1>1. L \in Nat /\ lists \in Listed(L)
  BY DEF MemTypeOK
<1>2. /\ w.s \in Listed(L) /\ Kept(L, lists, w.s) /\ x \in 1..L /\ w.s.hdr[x].type = "cache"
      /\ i = L + 1 /\ hdr[x].size > n /\ free' = free
  BY DEF Split, Places
<1>3. lists' = [W EXCEPT !.hdr[x] = r]
  BY DEF Split
<1>4. /\ hdr[x] \in Headers(L) /\ hdr[x].virt \in Nat /\ hdr[x].size \in Nat
      /\ hdr[x].phys \in Nat
  BY <1>2, SpanOf
<1>5. e \in Headers(L) /\ e.type = "alloc" /\ e.virt = hdr[x].virt /\ e.size = n
  BY <1>4 DEF Headers, Types, Kinds
<1> HIDE DEF L, e, x
<1>6. /\ W \in Listed(L + 1)
      /\ \A j \in 1..L + 1 :
           LET old == IF j = L + 1 THEN e ELSE w.s.hdr[j] IN
           /\ W.hdr[j].virt = old.virt /\ W.hdr[j].size = old.size
           /\ W.hdr[j].phys = old.phys /\ W.hdr[j].type = old.type
  BY <1>1, <1>2, <1>5, WithNewKeeps DEF Kinds
<1> HIDE DEF W
<1>7. x \in 1..L + 1 /\ i \in 1..L + 1 /\ x # i
  BY <1>1, <1>2
<1>8. \A j \in 1..L : /\ W.hdr[j].virt = hdr[j].virt /\ W.hdr[j].size = hdr[j].size
                     /\ W.hdr[j].phys = hdr[j].phys
                     /\ W.hdr[j].type = w.s.hdr[j].type
                     /\ W.hdr[j].type \in {hdr[j].type, "corrupt"}
  <2>1. \A j \in 1..L : j \in 1..L + 1 /\ j # L + 1
    BY <1>1
  <2> QED BY <1>2, <1>6, <2>1 DEF Kept, hdr
<1>9. /\ W.hdr[i].virt = hdr[x].virt /\ W.hdr[i].size = n /\ W.hdr[i].type = "alloc"
  BY <1>2, <1>5, <1>6, <1>7
<1>10. W.hdr[x] \in Headers(L + 1) /\ W.hdr[x].type = "cache" /\ hdr[x].type = "cache"
  BY <1>1, <1>2, <1>6, <1>7, <1>8, Fields
<1>11. /\ r \in Headers(L + 1) /\ r.virt = hdr[x].virt + n /\ r.size = hdr[x].size - n
       /\ r.type = "cache"
  <2>1. W.hdr[x].virt = hdr[x].virt /\ W.hdr[x].size = hdr[x].size /\ W.hdr[x].phys = hdr[x].phys
    BY <1>2, <1>8
  <2>2. \A b, c \in Nat : b + n \in Nat /\ (c > n => c - n \in Nat)
    OBVIOUS
  <2>3. hdr[x].virt + n \in Nat /\ hdr[x].size - n \in Nat /\ hdr[x].phys + n \in Nat
    BY <1>2, <1>4, <2>2
  <2> QED BY <1>10, <2>1, <2>3 DEF Rest, Headers
<1> HIDE DEF r
<1>12. /\ lists' \in Listed(L + 1)
       /\ \A j \in 1..L + 1 : lists'.hdr[j] = IF j = x THEN r ELSE W.hdr[j]
  BY <1>3, <1>6, <1>7, <1>11 DEF Listed
<1>13. \A j \in 1..L : j \in 1..L + 1
  BY <1>1
<1> QED BY <1>2, <1>7, <1>8, <1>9, <1>10, <1>11, <1>12, <1>13 DEF hdr, L, x

\* A cached header is split: the two tile what the one did.
LEMMA SplitAllots ==
  ASSUME MemSensible, MemTypeOK, Placed, NEW wanted \in SUBSET (1..Len(hdr)),
         NEW w \in Places(Len(hdr), lists, "cache", wanted), NEW n \in Nat \ {0}, NEW i,
         Split(n, i, w)
  PROVE  Allotted(i)
<1> DEFINE L == Len(hdr)
           x == w.at
           a == hdr[x].virt
           z == hdr[x].size
<1>1. /\ i = L + 1 /\ x \in 1..L /\ free' = free /\ lists' \in Listed(L + 1)
      /\ hdr[x].type = "cache" /\ z > n
      /\ hdr'[x].type = "cache" /\ hdr'[x].virt = a + n /\ hdr'[x].size = z - n
      /\ hdr'[i].virt = a /\ hdr'[i].size = n /\ hdr'[i].type = "alloc"
      /\ \A j \in 1..L : j # x =>
           /\ hdr'[j].virt = hdr[j].virt /\ hdr'[j].size = hdr[j].size
           /\ hdr'[j].phys = hdr[j].phys /\ hdr'[j].type \in {hdr[j].type, "corrupt"}
  BY SplitHeaders
<1>2. L \in Nat /\ free \in 0..Pages /\ free \in Nat /\ Pages \in Nat
  BY DEF MemTypeOK, MemSensible
<1>3. Len(hdr)' = L + 1
  BY <1>1, <1>2, LenListed DEF hdr
<1>4. a \in Nat /\ z \in Nat /\ \A j \in 1..L : hdr[j].virt \in Nat /\ hdr[j].size \in Nat
  BY <1>1, SpanOf
<1>5. /\ Span(i)' = a..a + n - 1 /\ Span(x)' = a + n..a + n + (z - n) - 1
      /\ Span(x) = a..a + z - 1
      /\ \A j \in 1..L : j # x => Span(j)' = Span(j)
  BY <1>1 DEF Span, Run
<1>6. /\ \A j \in 1..L : hdr[j].size > 0 /\ hdr[j].virt + hdr[j].size <= free
      /\ \A j, k \in 1..L : j # k => Before(j, k) \/ Before(k, j)
      /\ \A v \in 0..free - 1 : \E j \in 1..L : v \in Span(j)
  BY DEF Placed
<1> HIDE DEF L, x
<1>7. a + z <= free
  BY <1>1, <1>6
<1> HIDE DEF a, z
<1>8. Placed'
  <2>1. \A j \in 1..L + 1 : hdr'[j].size > 0 /\ hdr'[j].virt + hdr'[j].size <= free'
    <3> SUFFICES ASSUME NEW j \in 1..L + 1
                 PROVE  hdr'[j].size > 0 /\ hdr'[j].virt + hdr'[j].size <= free'
      OBVIOUS
    <3>1. CASE j \in 1..L /\ j # x
      BY <1>1, <1>6, <3>1
    <3>2. CASE j = x
      BY <1>1, <1>2, <1>4, <1>7, <3>2
    <3>3. CASE j = L + 1
      BY <1>1, <1>2, <1>4, <1>7, <3>3
    <3> QED BY <1>2, <3>1, <3>2, <3>3
  <2>2. \A j, k \in 1..L + 1 : j # k => Before(j, k)' \/ Before(k, j)'
    <3>1. ASSUME NEW j \in 1..L, NEW k \in 1..L, j # x, k # x, j # k
          PROVE  Before(j, k)' \/ Before(k, j)'
      BY <1>1, <1>6, <3>1 DEF Before
    <3>2. ASSUME NEW j \in 1..L, j # x
          PROVE  /\ Before(j, x)' \/ Before(x, j)'
                 /\ Before(j, i)' \/ Before(i, j)'
      <4>1. hdr[j].virt + hdr[j].size <= a \/ a + z <= hdr[j].virt
        BY <1>1, <1>6, <3>2 DEF Before, a, z
      <4>2. /\ hdr'[j].virt = hdr[j].virt /\ hdr'[j].size = hdr[j].size
            /\ hdr[j].virt \in Nat /\ hdr[j].size \in Nat
        BY <1>1, <1>4, <3>2
      <4>3. \/ hdr'[j].virt + hdr'[j].size <= hdr'[x].virt
            \/ hdr'[x].virt + hdr'[x].size <= hdr'[j].virt
        BY <1>1, <1>4, <4>1, <4>2
      <4>4. \/ hdr'[j].virt + hdr'[j].size <= hdr'[i].virt
            \/ hdr'[i].virt + hdr'[i].size <= hdr'[j].virt
        BY <1>1, <1>4, <4>1, <4>2
      <4> QED BY <4>3, <4>4 DEF Before
    <3>3. Before(i, x)'
      BY <1>1, <1>4 DEF Before
    <3>4. \A j \in 1..L + 1 : j \in 1..L \/ j = i
      BY <1>1, <1>2
    <3> QED BY <3>1, <3>2, <3>3, <3>4
  <2>3. \A v \in 0..free' - 1 : \E j \in 1..L + 1 : v \in Span(j)'
    <3> SUFFICES ASSUME NEW v \in 0..free - 1 PROVE \E j \in 1..L + 1 : v \in Span(j)'
      BY <1>1
    <3>1. PICK j \in 1..L : v \in Span(j)
      BY <1>6
    <3>2. CASE j # x
      BY <1>2, <1>5, <3>1, <3>2
    <3>3. CASE j = x
      <4>1. v \in Span(i)' \/ v \in Span(x)'
        BY <1>1, <1>4, <1>5, <3>1, <3>3
      <4> QED BY <1>1, <1>2, <4>1
    <3> QED BY <3>2, <3>3
  <2> QED BY <1>3, <2>1, <2>2, <2>3 DEF Placed
<1>9. Span(i)' \subseteq Span(x) /\ Span(x)' \subseteq Span(x)
  BY <1>1, <1>4, <1>5
<1>10. i \notin 1..L /\ i \in 1..L + 1 /\ \A j \in 1..L + 1 : j # i => j \in 1..L
  BY <1>1, <1>2
<1>11. \A j \in 1..L + 1 : j # i =>
         /\ j \in 1..L /\ Span(j)' \subseteq Span(j)
         /\ hdr'[j].type = "cache" => hdr[j].type = "cache"
         /\ hdr[j].type # "cache" =>
              /\ hdr'[j].type # "cache" /\ hdr'[j].virt = hdr[j].virt
              /\ hdr'[j].size = hdr[j].size /\ hdr'[j].phys = hdr[j].phys
  BY <1>1, <1>5, <1>9, <1>10
<1>12. /\ Len(hdr)' \in Nat /\ lists' \in Listed(Len(hdr)') /\ L <= Len(hdr)'
       /\ free' \in free..Pages
  BY <1>1, <1>2, <1>3
<1> QED BY <1>1, <1>3, <1>8, <1>9, <1>10, <1>11, <1>12 DEF Allotted, L

\* avmf_region_alloc, by whichever of its ways.
LEMMA RegionAllocAllots ==
  ASSUME MemSensible, MemTypeOK, Placed, NEW n \in Nat \ {0}, NEW i, RegionAlloc(n, i)
  PROVE  Allotted(i)
<1> DEFINE L == Len(hdr)
           wanted == {h \in DOMAIN hdr : hdr[h].size = n \/ (hdr[h].size > n /\ HeaderLeft)}
           stuck == {h \in DOMAIN hdr : hdr[h].size < n}
           w == CacheSearch(n)
<1>1. L \in Nat /\ lists \in Listed(L) /\ "cache" \in Kinds
  BY DEF MemTypeOK, Kinds
<1>2. wanted \in SUBSET (1..L)
  BY SpanOf
<1>3. w = Search(lists, "cache", wanted, stuck)
  BY DEF CacheSearch
<1> HIDE DEF wanted, stuck, w
<1>4. w \in Places(L, lists, "cache", wanted)
  BY <1>1, <1>2, <1>3, SearchKeeps
<1>5. Reuse(n, i, w) \/ Split(n, i, w) \/ Carve(n, i, w)
  BY DEF RegionAlloc, w
<1> QED BY <1>2, <1>4, <1>5, ReuseAllots, SplitAllots, CarveAllots

\* What a job names.
LEMMA JobFields ==
  ASSUME NEW n \in Nat, NEW j \in Jobs(n)
  PROVE  /\ j.at \in {"idle", "walk"} \cup Working
         /\ j.at = "idle" => j = Idle
         /\ j.at \in Working => j.hdr \in 1..n
         /\ j.at = "walk" => j.virt \in Nat /\ j.hdr \in 0..n
  BY DEF Jobs, Working, Idle

\* Headers that tile the region have different pages, all below the free range.
LEMMA Apart ==
  ASSUME MemTypeOK, Placed
  PROVE  \A i \in 1..Len(hdr) :
           /\ hdr[i].virt \in Span(i) /\ Span(i) \subseteq 0..free - 1
           /\ \A j \in 1..Len(hdr) : \A v : v \in Span(i) /\ v \in Span(j) => i = j
<1> SUFFICES ASSUME NEW i \in 1..Len(hdr)
             PROVE  /\ hdr[i].virt \in Span(i) /\ Span(i) \subseteq 0..free - 1
                    /\ \A j \in 1..Len(hdr) : \A v : v \in Span(i) /\ v \in Span(j) => i = j
  OBVIOUS
<1>1. /\ hdr[i].virt \in Nat /\ hdr[i].size \in Nat /\ hdr[i].size > 0
      /\ hdr[i].virt + hdr[i].size <= free
      /\ \A v : v \in Span(i) <=> v \in Nat /\ hdr[i].virt <= v /\ v < hdr[i].virt + hdr[i].size
  BY SpanOf DEF Placed
<1>2. free \in Int
  BY DEF MemTypeOK
<1>3. hdr[i].virt \in Span(i) /\ Span(i) \subseteq 0..free - 1
  BY <1>1, <1>2
<1>4. ASSUME NEW j \in 1..Len(hdr), NEW v, v \in Span(i), v \in Span(j), i # j PROVE FALSE
  <2>1. /\ hdr[j].virt \in Nat /\ hdr[j].size \in Nat
        /\ v \in Nat /\ hdr[j].virt <= v /\ v < hdr[j].virt + hdr[j].size
    BY <1>4, SpanOf
  <2>2. hdr[i].virt + hdr[i].size <= hdr[j].virt \/ hdr[j].virt + hdr[j].size <= hdr[i].virt
    BY <1>4 DEF Placed, Before
  <2>3. hdr[i].virt <= v /\ v < hdr[i].virt + hdr[i].size
    BY <1>1, <1>4
  <2> QED BY <1>1, <2>1, <2>2, <2>3
<1> QED BY <1>3, <1>4

\* What a caller holds is a header that is in use.
LEMMA HeldAt ==
  ASSUME MemTypeOK, Placed, MappedAsGiven, NEW a \in live
  PROVE  \E j \in 1..Len(hdr) :
           /\ a.virt = hdr[j].virt /\ a.size = hdr[j].size /\ a.phys = hdr[j].phys
           /\ Held(hdr[j]) = a /\ hdr[j].type # "cache"
           /\ a.virt \in Span(j) /\ Run(a.virt, a.size) = Span(j)
<1>1. PICK j \in 1..Len(hdr) : Held(hdr[j]) = a /\ hdr[j].type # "cache"
  BY SpanOf DEF MappedAsGiven
<1>2. a.virt = hdr[j].virt /\ a.size = hdr[j].size /\ a.phys = hdr[j].phys
  BY <1>1 DEF Held
<1>3. Run(a.virt, a.size) = Span(j)
  BY <1>2 DEF Span
<1> QED BY <1>1, <1>2, <1>3, Apart

\* The pages of a header that was just allotted: nothing is there, and nobody is.
LEMMA AllottedFresh ==
  ASSUME MemSensible, MemInv, NEW i, Allotted(i), NEW v \in Span(i)'
  PROVE  /\ v \in 0..Pages - 1 => map[v] = 0
         /\ \A p \in Cpus : ~(job[p].at = "walk" /\ job[p].virt = v)
         /\ \A a \in live : a.virt # v
<1>1. free \in Int /\ \A p \in Cpus : job[p] \in Jobs(Len(hdr))
  BY DEF MemInv, MemTypeOK, MemSensible
<1>2. CASE v \in free..Pages - 1
  <2>1. map[v] = 0
    BY <1>2 DEF MemInv, Unmapped
  <2>2. \A p \in Cpus : ~(job[p].at = "walk" /\ job[p].virt = v)
    BY <1>1, <1>2, JobFields DEF MemInv, InRange
  <2>3. ASSUME NEW a \in live PROVE a.virt # v
    <3>1. PICK j \in 1..Len(hdr) : a.virt \in Span(j)
      BY HeldAt DEF MemInv
    <3>2. a.virt \in 0..free - 1
      BY <3>1, Apart DEF MemInv
    <3> QED BY <1>1, <1>2, <3>2
  <2> QED BY <2>1, <2>2, <2>3
<1>3. ASSUME NEW c \in 1..Len(hdr), hdr[c].type = "cache", v \in Span(c)
      PROVE  /\ map[v] = 0
             /\ \A p \in Cpus : ~(job[p].at = "walk" /\ job[p].virt = v)
             /\ \A a \in live : a.virt # v
  <2>1. map[v] = 0
    BY <1>3 DEF MemInv, Unmapped, Bare
  <2>2. \A p \in Cpus : ~(job[p].at = "walk" /\ job[p].virt = v)
    BY <1>3 DEF MemInv, Owners, Owns
  <2>3. ASSUME NEW a \in live, a.virt = v PROVE FALSE
    <3>1. PICK j \in 1..Len(hdr) : a.virt \in Span(j) /\ hdr[j].type # "cache"
      BY HeldAt DEF MemInv
    <3>2. j = c
      BY <1>3, <2>3, <3>1, Apart DEF MemInv
    <3> QED BY <1>3, <3>1, <3>2
  <2> QED BY <2>1, <2>2, <2>3
<1> QED BY <1>2, <1>3 DEF Allotted

\* The same of the next state.
LEMMA ApartNext ==
  (MemTypeOK /\ Placed)' =>
    (\A j \in 1..Len(hdr) : hdr[j].virt \in Span(j) /\ Span(j) \subseteq 0..free - 1)'
<1>1. MemTypeOK /\ Placed =>
        \A j \in 1..Len(hdr) : hdr[j].virt \in Span(j) /\ Span(j) \subseteq 0..free - 1
  BY Apart
<1> QED BY <1>1, PTL

\* An allocation of a header, whether or not frames are to follow.
LEMMA AllotKeeps ==
  ASSUME MemSensible, MemInv, NEW i, Allotted(i), map' = map, live' = live,
         NEW p \in Cpus, job[p] = Idle, NEW g, g = [at |-> "phys", hdr |-> i],
         job' = job \/ job' = [job EXCEPT ![p] = g]
  PROVE  MemInv'
<1> DEFINE L == Len(hdr)
           M == Len(hdr)'
<1>1. /\ L \in Nat /\ M \in Nat /\ L <= M /\ lists' \in Listed(M) /\ free' \in free..Pages
      /\ free \in 0..Pages /\ Pages \in Nat /\ i \in 1..M /\ hdr'[i].type # "cache" /\ Placed'
      /\ i \in 1..L => hdr[i].type = "cache"
  BY DEF MemInv, MemTypeOK, Allotted, MemSensible
<1>2. \A j \in 1..M : j # i =>
        /\ j \in 1..L /\ Span(j)' \subseteq Span(j)
        /\ hdr'[j].type = "cache" => hdr[j].type = "cache"
        /\ hdr[j].type # "cache" =>
             /\ hdr'[j].type # "cache" /\ hdr'[j].virt = hdr[j].virt
             /\ hdr'[j].size = hdr[j].size /\ hdr'[j].phys = hdr[j].phys
  BY DEF Allotted
<1>3. job \in [Cpus -> Jobs(L)] /\ map \in [0..Pages - 1 -> Nat]
  BY DEF MemInv, MemTypeOK
<1>16. /\ \A q \in Cpus : job[q].at \in Working => job[q].hdr \in 1..L
       /\ \A q \in Cpus : job[q].at = "walk" => job[q].virt \in Nat
  <2>1. \A q \in Cpus : job[q] \in Jobs(L)
    BY <1>3
  <2> HIDE DEF L
  <2> QED BY <1>1, <2>1, JobFields
<1>4. g \in Jobs(M) /\ g.at = "phys" /\ g.hdr = i /\ Jobs(L) \subseteq Jobs(M)
  <2>1. \A j \in 1..L : j \in 1..M
    BY <1>1
  <2>2. \A j \in 0..L : j \in 0..M
    BY <1>1
  <2> QED BY <1>1, <2>1, <2>2 DEF Jobs
<1> HIDE DEF L, M
<1>5. job' \in [Cpus -> Jobs(M)]
  BY <1>3, <1>4
<1>6. \A q \in Cpus : job'[q] = job[q] \/ (q = p /\ job'[q] = g)
  BY <1>3
<1>7. MemTypeOK'
  BY <1>1, <1>3, <1>5 DEF MemTypeOK, MemInv, M
<1>15. (\A j \in 1..Len(hdr) : hdr[j].virt \in Span(j) /\ Span(j) \subseteq 0..free - 1)'
  BY <1>1, <1>7, ApartNext
<1>8. \A v \in Span(i)' :
        /\ v \in 0..Pages - 1 /\ map[v] = 0
        /\ \A q \in Cpus : ~(job[q].at = "walk" /\ job[q].virt = v)
        /\ \A a \in live : a.virt # v
  <2> SUFFICES ASSUME NEW v \in Span(i)'
               PROVE  /\ v \in 0..Pages - 1 /\ map[v] = 0
                      /\ \A q \in Cpus : ~(job[q].at = "walk" /\ job[q].virt = v)
                      /\ \A a \in live : a.virt # v
    OBVIOUS
  <2>1. Span(i)' \subseteq 0..free' - 1
    BY <1>1, <1>15 DEF M
  <2>2. v \in 0..Pages - 1
    BY <1>1, <2>1
  <2> QED BY <2>2, AllottedFresh
<1>9. hdr'[i].virt \in Span(i)'
  BY <1>1, <1>15 DEF M
<1>10. ASSUME NEW q \in Cpus, NEW j \in 1..M, Owns(q, j)'
       PROVE  \/ q = p /\ j = i
              \/ /\ j # i /\ j \in 1..L /\ Owns(q, j) /\ job'[q] = job[q]
                 /\ hdr[j].type # "cache" /\ hdr'[j].type # "cache"
                 /\ hdr'[j].virt = hdr[j].virt
  <2>1. CASE q = p /\ job'[q] = g
    BY <1>4, <1>10, <2>1 DEF Owns, Working
  <2>2. CASE job'[q] = job[q] /\ j = i
    <3>1. job[q].at \in Working /\ job[q].hdr = i
      BY <1>8, <1>10, <2>2 DEF Owns
    <3>2. i \in 1..L
      BY <1>16, <3>1
    <3>3. Owns(q, i)
      BY <3>1 DEF Owns
    <3> QED BY <1>1, <3>2, <3>3 DEF MemInv, Owners, L
  <2>3. CASE job'[q] = job[q] /\ j # i
    <3>1. Owns(q, j) /\ j \in 1..L
      BY <1>2, <1>10, <2>3 DEF Owns
    <3>2. hdr[j].type # "cache"
      BY <3>1 DEF MemInv, Owners, L
    <3> QED BY <1>2, <2>3, <3>1, <3>2
  <2> QED BY <1>6, <2>1, <2>2, <2>3
<1>11. Owners'
  <2> SUFFICES ASSUME NEW q \in Cpus, NEW j \in 1..M, Owns(q, j)'
               PROVE  /\ hdr'[j].type # "cache"
                      /\ \A r \in Cpus : Owns(r, j)' => r = q
                      /\ \A a \in live : a.virt # hdr'[j].virt
    BY DEF Owners, M
  <2>1. CASE q = p /\ j = i
    BY <1>1, <1>8, <1>9, <1>10, <2>1
  <2>2. CASE j # i /\ j \in 1..L /\ Owns(q, j)
    <3>1. \A r \in Cpus : Owns(r, j) => r = q
      BY <2>2 DEF MemInv, Owners, L
    <3>2. \A a \in live : a.virt # hdr[j].virt
      BY <2>2 DEF MemInv, Owners, L
    <3> QED BY <1>10, <2>2, <3>1, <3>2
  <2> QED BY <1>10, <2>1, <2>2
<1>12. InRange'
  <2> SUFFICES ASSUME NEW q \in Cpus, job'[q].at = "walk" PROVE job'[q].virt < free'
    BY DEF InRange
  <2>1. job'[q] = job[q]
    BY <1>4, <1>6
  <2>2. job[q].virt < free /\ job[q].virt \in Nat
    BY <1>16, <2>1 DEF MemInv, InRange
  <2> QED BY <1>1, <2>1, <2>2
<1>13. Unmapped'
  <2>1. \A v \in free'..Pages - 1 : map[v] = 0
    BY <1>1 DEF MemInv, Unmapped
  <2>2. ASSUME NEW j \in 1..M, Bare(j)', NEW v \in Span(j)' PROVE map[v] = 0
    <3>1. CASE j = i
      BY <1>8, <3>1
    <3>2. CASE j # i
      <4>1. v \in Span(j) /\ j \in 1..L
        BY <1>2, <3>2
      <4>2. ASSUME hdr'[j].type = "cache" PROVE Bare(j)
        BY <1>2, <3>2, <4>2 DEF Bare
      <4>3. ASSUME NEW q \in Cpus, job'[q].at \in {"phys", "header"}, job'[q].hdr = j
            PROVE  Bare(j)
        <5>1. Owns(q, j)'
          BY <4>3 DEF Owns, Working
        <5>2. job'[q] = job[q]
          BY <1>10, <3>2, <5>1
        <5> QED BY <4>3, <5>2 DEF Bare
      <4>4. Bare(j)
        BY <2>2, <4>2, <4>3 DEF Bare
      <4> QED BY <4>1, <4>4 DEF MemInv, Unmapped, L
    <3> QED BY <3>1, <3>2
  <2> QED BY <2>1, <2>2 DEF Unmapped, M
<1>14. MappedAsGiven'
  <2> SUFFICES ASSUME NEW a \in live
               PROVE  /\ \A v \in Run(a.virt, a.size) : map[v] = a.phys + (v - a.virt)
                      /\ \E j \in DOMAIN hdr' : Held(hdr'[j]) = a /\ hdr'[j].type # "cache"
    BY DEF MappedAsGiven
  <2>1. \A v \in Run(a.virt, a.size) : map[v] = a.phys + (v - a.virt)
    BY DEF MemInv, MappedAsGiven
  <2>2. PICK j \in 1..L : Held(hdr[j]) = a /\ hdr[j].type # "cache"
    BY HeldAt DEF MemInv, L
  <2>3. j \in 1..M /\ j # i
    BY <1>1, <2>2
  <2>4. Held(hdr'[j]) = a /\ hdr'[j].type # "cache"
    BY <1>2, <2>2, <2>3 DEF Held
  <2>5. DOMAIN hdr' = 1..M
    BY <1>1, LenListed DEF hdr
  <2> QED BY <2>1, <2>3, <2>4, <2>5
<1> QED BY <1>1, <1>7, <1>11, <1>12, <1>13, <1>14 DEF MemInv

\* The lists change, and a header that was worked on may go to the cache.
LEMMA ListsMove ==
  ASSUME MemSensible, MemInv, SameBlocks, NEW p \in Cpus, map' = map, live' = live,
         job' = job \/ job' = [job EXCEPT ![p] = Idle],
         \A j \in 1..Len(hdr) :
           /\ hdr'[j].phys = hdr[j].phys
           /\ hdr'[j].type = "cache" =>
                \/ hdr[j].type = "cache"
                \/ job[p].at \in {"phys", "header"} /\ job[p].hdr = j /\ job'[p] = Idle
  PROVE  MemInv'
<1> DEFINE L == Len(hdr)
<1>1. /\ L \in Nat /\ Len(hdr)' = L /\ Placed' /\ \A j \in 1..L : Span(j)' = Span(j)
      /\ lists' \in Listed(L) /\ free' = free
      /\ \A j \in 1..L : hdr'[j].virt = hdr[j].virt /\ hdr'[j].size = hdr[j].size
  BY SameBlocksPlaced DEF MemInv, MemTypeOK, SameBlocks
<1>2. job \in [Cpus -> Jobs(L)] /\ Idle \in Jobs(L)
  BY DEF MemInv, MemTypeOK, Jobs
<1>3. \A q \in Cpus : job'[q] = job[q] \/ (q = p /\ job'[q] = Idle)
  BY <1>2
<1>4. job' \in [Cpus -> Jobs(L)]
  BY <1>2
<1> HIDE DEF L
<1>5. MemTypeOK'
  BY <1>1, <1>4 DEF MemTypeOK, MemInv, L
<1>6. ASSUME NEW q \in Cpus, NEW j \in 1..L, Owns(q, j)'
      PROVE  Owns(q, j) /\ job'[q] = job[q] /\ hdr[j].type # "cache" /\ hdr'[j].type # "cache"
  <2>1. job'[q] = job[q]
    BY <1>3, <1>6 DEF Owns, Idle, Working
  <2>2. Owns(q, j)
    BY <1>1, <1>6, <2>1 DEF Owns
  <2>3. hdr[j].type # "cache" /\ \A r \in Cpus : Owns(r, j) => r = q
    BY <2>2 DEF MemInv, Owners, L
  <2>4. ASSUME hdr'[j].type = "cache" PROVE FALSE
    <3>1. job[p].at \in {"phys", "header"} /\ job[p].hdr = j /\ job'[p] = Idle
      BY <2>3, <2>4 DEF L
    <3>2. p = q
      BY <2>3, <3>1 DEF Owns, Working
    <3> QED BY <1>6, <3>1, <3>2 DEF Owns, Idle, Working
  <2> QED BY <2>1, <2>2, <2>3, <2>4
<1>7. Owners'
  <2> SUFFICES ASSUME NEW q \in Cpus, NEW j \in 1..L, Owns(q, j)'
               PROVE  /\ hdr'[j].type # "cache"
                      /\ \A r \in Cpus : Owns(r, j)' => r = q
                      /\ \A a \in live : a.virt # hdr'[j].virt
    BY <1>1 DEF Owners
  <2>1. Owns(q, j)
    BY <1>6
  <2>2. /\ \A r \in Cpus : Owns(r, j) => r = q
        /\ \A a \in live : a.virt # hdr[j].virt
    BY <2>1 DEF MemInv, Owners, L
  <2> QED BY <1>1, <1>6, <2>2
<1>8. InRange'
  BY <1>1, <1>3 DEF InRange, MemInv, Idle
<1>9. Unmapped'
  <2>1. ASSUME NEW j \in 1..L, Bare(j)' PROVE Bare(j)
    <3>1. CASE hdr'[j].type = "cache"
      BY <3>1 DEF Bare, L
    <3>2. ASSUME NEW q \in Cpus, job'[q].at \in {"phys", "header"}, job'[q].hdr = j
          PROVE  Bare(j)
      <4>1. job'[q] = job[q]
        BY <1>3, <3>2 DEF Idle
      <4> QED BY <3>2, <4>1 DEF Bare
    <3> QED BY <2>1, <3>1, <3>2 DEF Bare
  <2>2. ASSUME NEW j \in 1..L, Bare(j)', NEW v \in Span(j)' PROVE map[v] = 0
    BY <1>1, <2>1, <2>2 DEF MemInv, Unmapped, L
  <2> QED BY <1>1, <2>2 DEF Unmapped, MemInv
<1>10. MappedAsGiven'
  <2> SUFFICES ASSUME NEW a \in live
               PROVE  /\ \A v \in Run(a.virt, a.size) : map[v] = a.phys + (v - a.virt)
                      /\ \E j \in DOMAIN hdr' : Held(hdr'[j]) = a /\ hdr'[j].type # "cache"
    BY DEF MappedAsGiven
  <2>1. \A v \in Run(a.virt, a.size) : map[v] = a.phys + (v - a.virt)
    BY DEF MemInv, MappedAsGiven
  <2>2. PICK j \in 1..L : /\ Held(hdr[j]) = a /\ hdr[j].type # "cache"
                          /\ a.virt = hdr[j].virt
    BY HeldAt DEF MemInv, L
  <2>3. Held(hdr'[j]) = a
    BY <1>1, <2>2 DEF Held, L
  <2>4. ASSUME hdr'[j].type = "cache" PROVE FALSE
    <3>1. Owns(p, j)
      BY <2>2, <2>4 DEF Owns, Working, L
    <3> QED BY <2>2, <3>1 DEF MemInv, Owners, L
  <2>5. DOMAIN hdr' = 1..L
    BY <1>1, LenListed DEF hdr
  <2> QED BY <2>1, <2>2, <2>3, <2>4, <2>5
<1> QED BY <1>1, <1>5, <1>7, <1>8, <1>9, <1>10 DEF MemInv

\* avmf_region_free: the header goes to the cache, or a search has lost it.
LEMMA RegionFreeMoves ==
  ASSUME MemInv, NEW i \in 1..Len(hdr), RegionFree(hdr[i]), free' = free
  PROVE  /\ SameBlocks
         /\ \A j \in 1..Len(hdr) :
              /\ hdr'[j].phys = hdr[j].phys
              /\ hdr'[j].type = "cache" => hdr[j].type = "cache" \/ j = i
<1> DEFINE L == Len(hdr)
           same == {j \in DOMAIN hdr : hdr[j].virt = hdr[i].virt /\ hdr[j].size = hdr[i].size}
           w == Search(lists, "alloc", same, {})
<1>1. L \in Nat /\ lists \in Listed(L) /\ "alloc" \in Kinds /\ "cache" \in Kinds
  BY DEF MemInv, MemTypeOK, Kinds
<1>2. same \in SUBSET (1..L)
  BY SpanOf DEF MemInv
<1>3. lists' = IF w.found THEN Move(w.s, w.at, "cache") ELSE w.s
  BY DEF RegionFree
<1>4. \A j \in same : j = i
  <2> SUFFICES ASSUME NEW j \in same PROVE j = i
    OBVIOUS
  <2>1. j \in 1..L /\ hdr[j].virt = hdr[i].virt
    BY <1>2
  <2>2. hdr[i].virt \in Span(i) /\ hdr[j].virt \in Span(j)
    BY <2>1, Apart DEF MemInv
  <2> QED BY <2>1, <2>2, Apart DEF MemInv
<1> HIDE DEF same, w
<1>5. w \in Places(L, lists, "alloc", same)
  BY <1>1, <1>2, SearchKeeps DEF w
<1>6. /\ w.s \in Listed(L) /\ (w.found => w.at = i)
      /\ \A j \in 1..L : /\ w.s.hdr[j].virt = hdr[j].virt /\ w.s.hdr[j].size = hdr[j].size
                         /\ w.s.hdr[j].phys = hdr[j].phys
                         /\ w.s.hdr[j].type \in {hdr[j].type, "corrupt"}
  BY <1>4, <1>5 DEF Places, Kept, hdr
<1>7. CASE ~w.found
  BY <1>3, <1>6, <1>7 DEF SameBlocks, hdr
<1>8. CASE w.found
  <2> DEFINE m == Move(w.s, i, "cache")
  <2>1. lists' = m
    BY <1>3, <1>6, <1>8
  <2> HIDE DEF L
  <2>2. w.s \in Listed(L) /\ i \in 1..L
    BY <1>6 DEF L
  <2>3. m \in Listed(L)
    BY <1>1, <2>2, MoveKeeps
  <2>4. w.s \in Listed(L) /\ i \in 1..L /\ L \in Nat /\ "cache" \in Kinds
    BY <1>1, <2>2
  <2>5. ASSUME NEW j \in 1..L
        PROVE  /\ m.hdr[j].virt = w.s.hdr[j].virt /\ m.hdr[j].size = w.s.hdr[j].size
               /\ m.hdr[j].phys = w.s.hdr[j].phys
               /\ j # i => m.hdr[j].type \in {w.s.hdr[j].type, "corrupt"}
    BY <2>4, MoveKeeps
  <2> HIDE DEF m
  <2> QED BY <1>6, <2>1, <2>3, <2>5 DEF SameBlocks, hdr, L
<1> QED BY <1>7, <1>8

\* avmf_alloc, its header.
LEMMA AllocKeeps ==
  ASSUME MemSensible, MemInv, NEW p \in Cpus, NEW n \in Sizes, Alloc(p, n)
  PROVE  MemInv'
<1> DEFINE L == Len(hdr)
<1>1. n \in Nat \ {0} /\ map' = map /\ live' = live /\ job[p] = Idle
  BY DEF MemSensible, Alloc
<1>2. ASSUME NEW i, RegionAlloc(n, i), job' = [job EXCEPT ![p] = [at |-> "phys", hdr |-> i]]
      PROVE  MemInv'
  <2>1. Allotted(i)
    BY <1>1, <1>2, RegionAllocAllots DEF MemInv
  <2> QED BY <1>1, <1>2, <2>1, AllotKeeps
<1>3. ASSUME NoRegion(n), UNCHANGED <<free, room, marked, job>>
      PROVE  MemInv'
  <2> DEFINE wanted == {h \in DOMAIN hdr : hdr[h].size = n \/ (hdr[h].size > n /\ HeaderLeft)}
             stuck == {h \in DOMAIN hdr : hdr[h].size < n}
             w == CacheSearch(n)
  <2>1. L \in Nat /\ lists \in Listed(L) /\ "cache" \in Kinds
    BY DEF MemInv, MemTypeOK, Kinds
  <2>2. wanted \in SUBSET (1..L)
    BY SpanOf DEF MemInv
  <2>3. w = Search(lists, "cache", wanted, stuck) /\ lists' = w.s
    BY <1>3 DEF CacheSearch, NoRegion
  <2> HIDE DEF wanted, stuck, w
  <2>4. w \in Places(L, lists, "cache", wanted)
    BY <2>1, <2>2, <2>3, SearchKeeps
  <2>5. lists' \in Listed(L) /\ Kept(L, lists, lists')
    BY <2>3, <2>4 DEF Places
  <2>6. /\ SameBlocks
        /\ \A j \in 1..L : /\ hdr'[j].phys = hdr[j].phys
                           /\ hdr'[j].type = "cache" => hdr[j].type = "cache"
    BY <1>3, <2>5 DEF SameBlocks, Kept, hdr
  <2> QED BY <1>1, <1>3, <2>6, ListsMove
<1> QED BY <1>2, <1>3 DEF Alloc

\* avmf_alloc_virt.
LEMMA AllocVirtKeeps ==
  ASSUME MemSensible, MemInv, NEW p \in Cpus, AllocVirt(p)
  PROVE  MemInv'
<1>1. PICK i : RegionAlloc(1, i)
  BY DEF AllocVirt
<1>2. Allotted(i)
  BY <1>1, RegionAllocAllots DEF MemInv
<1> QED BY <1>2, AllotKeeps DEF AllocVirt

\* avmf_region_free, for a processor whose header has nothing mapped.
LEMMA RegionFreeKeeps ==
  ASSUME MemSensible, MemInv, NEW p \in Cpus, job[p].at \in {"phys", "header"},
         RegionFree(hdr[job[p].hdr]), job' = [job EXCEPT ![p] = Idle],
         free' = free, map' = map, live' = live
  PROVE  MemInv'
<1>1. Len(hdr) \in Nat /\ job[p] \in Jobs(Len(hdr)) /\ job'[p] = Idle
  BY DEF MemInv, MemTypeOK
<1>2. job[p].hdr \in 1..Len(hdr)
  BY <1>1, JobFields DEF Working
<1>3. /\ SameBlocks
      /\ \A j \in 1..Len(hdr) :
           /\ hdr'[j].phys = hdr[j].phys
           /\ hdr'[j].type = "cache" => hdr[j].type = "cache" \/ j = job[p].hdr
  BY <1>2, RegionFreeMoves
<1> QED BY <1>1, <1>3, ListsMove

\* No frames for the header: it goes back.
LEMMA OutOfMemoryKeeps ==
  ASSUME MemSensible, MemInv, NEW p \in Cpus, OutOfMemory(p)
  PROVE  MemInv'
  BY RegionFreeKeeps DEF OutOfMemory

\* The frames are free: the header goes back.
LEMMA FreeHeaderKeeps ==
  ASSUME MemSensible, MemInv, NEW p \in Cpus, FreeHeader(p)
  PROVE  MemInv'
  BY RegionFreeKeeps DEF FreeHeader

\* The end of avmf_alloc: the pages of a header are mapped to frames from f on, and the
\* caller holds them.
GivesFrom(p, f) ==
  LET i == job[p].hdr
      h == [hdr[i] EXCEPT !.phys = f] IN
  /\ lists' \in Listed(Len(hdr)) /\ free' = free
  /\ map' = Mapped(h) /\ live' = live \cup {Held(h)} /\ job' = [job EXCEPT ![p] = Idle]
  /\ \A j \in 1..Len(hdr) :
       /\ hdr'[j].virt = hdr[j].virt /\ hdr'[j].size = hdr[j].size
       /\ hdr'[j].type = hdr[j].type
       /\ hdr'[j].phys = IF j = i THEN f ELSE hdr[j].phys

LEMMA GiveKeeps ==
  ASSUME MemSensible, MemInv, NEW p \in Cpus, job[p].at = "phys", NEW f \in Nat,
         GivesFrom(p, f)
  PROVE  MemInv'
<1> DEFINE L == Len(hdr)
           i == job[p].hdr
           b == Held([hdr[i] EXCEPT !.phys = f])
<1>1. /\ L \in Nat /\ job \in [Cpus -> Jobs(L)] /\ Idle \in Jobs(L) /\ free \in 0..Pages
      /\ Pages \in Nat /\ map \in [0..Pages - 1 -> Nat]
      /\ live \subseteq [virt : Nat, size : Nat, phys : Nat]
  BY DEF MemInv, MemTypeOK, MemSensible, Jobs
<1>2. i \in 1..L
  <2>1. job[p] \in Jobs(L)
    BY <1>1
  <2> HIDE DEF L
  <2> QED BY <1>1, <2>1, JobFields DEF Working
<1>3. /\ hdr[i] \in Headers(L) /\ hdr[i].virt \in Nat /\ hdr[i].size \in Nat
      /\ \A v : v \in Span(i) <=> v \in Nat /\ hdr[i].virt <= v
                                 /\ v < hdr[i].virt + hdr[i].size
  BY <1>2, SpanOf DEF MemInv
<1>4. /\ b.virt = hdr[i].virt /\ b.size = hdr[i].size /\ b.phys = f
      /\ b = [virt |-> hdr[i].virt, size |-> hdr[i].size, phys |-> f]
      /\ live' = live \cup {b}
  BY <1>3 DEF Held, Headers, GivesFrom
<1>5. map' = [v \in 0..Pages - 1 |->
                IF v \in Span(i) /\ map[v] = 0 THEN f + (v - hdr[i].virt) ELSE map[v]]
  <2> DEFINE h == [hdr[i] EXCEPT !.phys = f]
  <2>1. h.virt = hdr[i].virt /\ h.size = hdr[i].size /\ h.phys = f
    BY <1>3 DEF Headers
  <2>2. map' = Mapped(h) /\ DOMAIN map = 0..Pages - 1
    BY <1>1 DEF GivesFrom
  <2> HIDE DEF h
  <2> QED BY <2>1, <2>2 DEF Mapped, Span
<1>6. /\ lists' \in Listed(L) /\ free' = free /\ job' = [job EXCEPT ![p] = Idle]
      /\ \A j \in 1..L :
           /\ hdr'[j].virt = hdr[j].virt /\ hdr'[j].size = hdr[j].size
           /\ hdr'[j].type = hdr[j].type
           /\ hdr'[j].phys = IF j = i THEN f ELSE hdr[j].phys
  BY DEF GivesFrom
<1> HIDE DEF L, i, b
<1>7. SameBlocks
  BY <1>6 DEF SameBlocks, L
<1>8. Len(hdr)' = L /\ Placed' /\ \A j \in 1..L : Span(j)' = Span(j)
  BY <1>7, SameBlocksPlaced DEF MemInv, L
<1>9. job' \in [Cpus -> Jobs(L)] /\ \A q \in Cpus : job'[q] = IF q = p THEN Idle ELSE job[q]
  BY <1>1, <1>6
<1>10. MemTypeOK'
  <2>1. map' \in [0..Pages - 1 -> Nat]
    BY <1>1, <1>3, <1>5
  <2>2. live' \subseteq [virt : Nat, size : Nat, phys : Nat]
    BY <1>1, <1>3, <1>4
  <2> QED BY <1>1, <1>6, <1>8, <1>9, <2>1, <2>2 DEF MemTypeOK
<1>11. Owns(p, i)
  BY DEF Owns, Working, i
<1>12. /\ hdr[i].type # "cache" /\ \A q \in Cpus : Owns(q, i) => q = p
       /\ \A a \in live : a.virt # hdr[i].virt
  BY <1>2, <1>11 DEF MemInv, Owners, L
<1>13. ASSUME NEW q \in Cpus, NEW j \in 1..L, Owns(q, j)'
       PROVE  q # p /\ Owns(q, j) /\ j # i
  <2>1. q # p
    BY <1>9, <1>13 DEF Owns, Idle, Working
  <2>2. Owns(q, j)
    BY <1>8, <1>9, <1>13, <2>1 DEF Owns
  <2> QED BY <1>12, <2>1, <2>2
<1>14. Owners'
  <2> SUFFICES ASSUME NEW q \in Cpus, NEW j \in 1..L, Owns(q, j)'
               PROVE  /\ hdr'[j].type # "cache"
                      /\ \A r \in Cpus : Owns(r, j)' => r = q
                      /\ \A a \in live' : a.virt # hdr'[j].virt
    BY <1>8 DEF Owners
  <2>1. Owns(q, j) /\ j # i
    BY <1>13
  <2>2. /\ hdr[j].type # "cache" /\ \A r \in Cpus : Owns(r, j) => r = q
        /\ \A a \in live : a.virt # hdr[j].virt
    BY <2>1 DEF MemInv, Owners, L
  <2>3. b.virt # hdr[j].virt
    <3>1. hdr[i].virt \in Span(i) /\ hdr[j].virt \in Span(j)
      BY <1>2, Apart DEF MemInv, L
    <3> QED BY <1>2, <1>4, <2>1, <3>1, Apart DEF MemInv, L
  <2> QED BY <1>4, <1>6, <1>13, <2>2, <2>3
<1>15. InRange'
  BY <1>6, <1>9 DEF InRange, MemInv, Idle
<1>16. Unmapped'
  <2>1. ASSUME NEW v \in free..Pages - 1 PROVE map'[v] = 0
    <3>1. map[v] = 0 /\ v \in 0..Pages - 1
      BY <1>1 DEF MemInv, Unmapped
    <3>2. Span(i) \subseteq 0..free - 1
      BY <1>2, Apart DEF MemInv, L
    <3>3. v \notin Span(i)
      BY <1>1, <3>2
    <3> QED BY <1>5, <3>1, <3>3
  <2>2. ASSUME NEW j \in 1..L, Bare(j)', NEW v \in Span(j)' PROVE map'[v] = 0
    <3>1. Bare(j) /\ j # i
      <4>1. CASE hdr'[j].type = "cache"
        BY <1>6, <1>12, <4>1 DEF Bare
      <4>2. ASSUME NEW q \in Cpus, job'[q].at \in {"phys", "header"}, job'[q].hdr = j
            PROVE  Bare(j) /\ j # i
        <5>1. Owns(q, j)'
          BY <4>2 DEF Owns, Working
        <5>2. q # p /\ j # i
          BY <1>13, <5>1
        <5> QED BY <1>9, <4>2, <5>2 DEF Bare
      <4> QED BY <2>2, <4>1, <4>2 DEF Bare
    <3>2. v \in Span(j) /\ map[v] = 0
      BY <1>8, <2>2, <3>1 DEF MemInv, Unmapped, L
    <3>3. v \notin Span(i) /\ v \in 0..Pages - 1
      <4>1. Span(j) \subseteq 0..free - 1
        BY Apart DEF MemInv, L
      <4>2. v \notin Span(i)
        BY <1>2, <3>1, <3>2, Apart DEF MemInv, L
      <4> QED BY <1>1, <3>2, <4>1, <4>2
    <3> QED BY <1>5, <3>2, <3>3
  <2> QED BY <1>6, <1>8, <2>1, <2>2 DEF Unmapped
<1>17. DOMAIN hdr' = 1..L
  BY <1>1, <1>6, LenListed DEF hdr
<1>18. MappedAsGiven'
  <2> SUFFICES ASSUME NEW a \in live'
               PROVE  /\ \A v \in Run(a.virt, a.size) : map'[v] = a.phys + (v - a.virt)
                      /\ \E j \in DOMAIN hdr' : Held(hdr'[j]) = a /\ hdr'[j].type # "cache"
    BY DEF MappedAsGiven
  <2>1. CASE a \in live
    <3>1. PICK j \in 1..L : /\ Held(hdr[j]) = a /\ hdr[j].type # "cache"
                            /\ a.virt = hdr[j].virt /\ Run(a.virt, a.size) = Span(j)
      BY <2>1, HeldAt DEF MemInv, L
    <3>2. j # i
      BY <1>12, <2>1, <3>1
    <3>3. Held(hdr'[j]) = a /\ hdr'[j].type # "cache"
      BY <1>6, <3>1, <3>2 DEF Held
    <3>4. ASSUME NEW v \in Span(j) PROVE map'[v] = a.phys + (v - a.virt)
      <4>1. Span(j) \subseteq 0..free - 1
        BY Apart DEF MemInv, L
      <4>2. v \notin Span(i) /\ v \in 0..Pages - 1
        BY <1>1, <1>2, <3>2, <4>1, Apart DEF MemInv, L
      <4>3. map[v] = a.phys + (v - a.virt)
        BY <2>1, <3>1 DEF MemInv, MappedAsGiven
      <4> QED BY <1>5, <4>2, <4>3
    <3> QED BY <1>17, <3>1, <3>3, <3>4
  <2>2. CASE a = b
    <3>1. Run(a.virt, a.size) = Span(i)
      BY <1>4, <2>2 DEF Span
    <3>2. Bare(i)
      BY DEF Bare, i
    <3>3. ASSUME NEW v \in Span(i) PROVE map'[v] = a.phys + (v - a.virt)
      <4>1. map[v] = 0
        BY <1>2, <3>2 DEF MemInv, Unmapped, L
      <4>2. Span(i) \subseteq 0..free - 1
        BY <1>2, Apart DEF MemInv, L
      <4>3. v \in 0..Pages - 1
        BY <1>1, <4>2
      <4> QED BY <1>4, <1>5, <2>2, <4>1, <4>3
    <3>4. hdr'[i].type # "cache" /\ Held(hdr'[i]) = a
      BY <1>2, <1>4, <1>6, <1>12, <2>2 DEF Held
    <3> QED BY <1>2, <1>17, <3>1, <3>3, <3>4
  <2> QED BY <1>4, <2>1, <2>2
<1> QED BY <1>8, <1>10, <1>14, <1>15, <1>16, <1>18 DEF MemInv

\* A header that brings its frames.
LEMMA GiveOldKeeps ==
  ASSUME MemSensible, MemInv, NEW p \in Cpus, GiveOld(p)
  PROVE  MemInv'
<1> DEFINE i == job[p].hdr
<1>1. Len(hdr) \in Nat /\ lists \in Listed(Len(hdr)) /\ job[p] \in Jobs(Len(hdr))
  BY DEF MemInv, MemTypeOK
<1>2. job[p].at = "phys" /\ lists' = lists /\ i \in 1..Len(hdr)
  BY <1>1, JobFields DEF GiveOld, Working
<1>3. hdr[i] \in Headers(Len(hdr)) /\ hdr[i].phys \in Nat
  BY <1>2, SpanOf DEF MemInv
<1>4. [hdr[i] EXCEPT !.phys = hdr[i].phys] = hdr[i]
  BY <1>3 DEF Headers
<1>5. GivesFrom(p, hdr[i].phys)
  BY <1>1, <1>2, <1>4 DEF GivesFrom, GiveOld, Give, hdr
<1> QED BY <1>2, <1>3, <1>5, GiveKeeps

\* A header that gets its frames now.
LEMMA GiveNewKeeps ==
  ASSUME MemSensible, MemInv, NEW p \in Cpus, GiveNew(p)
  PROVE  MemInv'
<1> DEFINE i == job[p].hdr
           f == FirstFit(hdr[i].size)
           e == [hdr[i] EXCEPT !.phys = f]
<1>1. Len(hdr) \in Nat /\ lists \in Listed(Len(hdr)) /\ job[p] \in Jobs(Len(hdr))
  BY DEF MemInv, MemTypeOK
<1>2. job[p].at = "phys" /\ i \in 1..Len(hdr)
  BY <1>1, JobFields DEF GiveNew, Working
<1>3. hdr[i] \in Headers(Len(hdr))
  BY <1>2, SpanOf DEF MemInv
<1>4. f \in Nat
  BY FirstFitFrame DEF GiveNew
<1>5. lists' = [lists EXCEPT !.hdr[i] = e]
  BY DEF GiveNew, hdr
<1>6. /\ e \in Headers(Len(hdr)) /\ e.virt = hdr[i].virt /\ e.size = hdr[i].size
      /\ e.type = hdr[i].type /\ e.phys = f
  BY <1>3, <1>4 DEF Headers
<1>7. Give(p, e) /\ free' = free
  BY DEF GiveNew, Give
<1> DEFINE L == Len(hdr)
<1> HIDE DEF e, f, L
<1>8. lists \in Listed(L) /\ e \in Headers(L) /\ i \in 1..L
  BY <1>1, <1>2, <1>6 DEF L
<1>9. lists' \in Listed(L) /\ \A j \in 1..L : lists'.hdr[j] = IF j = i THEN e ELSE lists.hdr[j]
  BY <1>5, <1>8 DEF Listed
<1>10. GivesFrom(p, f)
  BY <1>6, <1>7, <1>9 DEF GivesFrom, Give, hdr, L, e
<1> QED BY <1>2, <1>4, <1>10, GiveKeeps

\* Steps that leave the headers as they are.
LEMMA StillPlaced ==
  ASSUME MemInv, lists' = lists, free' = free
  PROVE  /\ SameBlocks /\ Len(hdr)' = Len(hdr) /\ Placed' /\ hdr' = hdr
         /\ \A j \in 1..Len(hdr) : Span(j)' = Span(j)
<1>1. SameBlocks
  BY DEF SameBlocks, MemInv, MemTypeOK, hdr
<1> QED BY <1>1, SameBlocksPlaced DEF MemInv, hdr

\* avmf_free begins: the caller holds the address no more, and the processor walks for it.
LEMMA FreeKeeps ==
  ASSUME MemSensible, MemInv, NEW p \in Cpus, NEW a \in live, Free(p, a)
  PROVE  MemInv'
<1> DEFINE L == Len(hdr)
           g == [at |-> "walk", virt |-> a.virt, hdr |-> lists.list["alloc"]]
<1>1. /\ lists' = lists /\ free' = free /\ map' = map /\ live' = live \ {a}
      /\ job' = [job EXCEPT ![p] = g]
  BY DEF Free
<1>2. /\ Len(hdr)' = L /\ Placed' /\ hdr' = hdr /\ \A j \in 1..L : Span(j)' = Span(j)
  BY <1>1, StillPlaced
<1>3. /\ L \in Nat /\ lists \in Listed(L) /\ job \in [Cpus -> Jobs(L)]
      /\ live \subseteq [virt : Nat, size : Nat, phys : Nat] /\ "alloc" \in Kinds
  BY DEF MemInv, MemTypeOK, Kinds
<1>4. lists.list["alloc"] \in 0..L
  <2> HIDE DEF L
  <2> QED BY <1>3, Fields
<1>5. g \in Jobs(L) /\ g.at = "walk" /\ g.virt = a.virt
  BY <1>3, <1>4 DEF Jobs
<1> HIDE DEF g, L
<1>6. job' \in [Cpus -> Jobs(L)] /\ \A q \in Cpus : job'[q] = IF q = p THEN g ELSE job[q]
  BY <1>1, <1>3, <1>5
<1>7. MemTypeOK'
  BY <1>1, <1>2, <1>3, <1>6 DEF MemTypeOK, MemInv
<1>8. PICK i \in 1..L : /\ a.virt = hdr[i].virt /\ Held(hdr[i]) = a /\ hdr[i].type # "cache"
                        /\ a.virt \in Span(i)
  BY HeldAt DEF MemInv, L
<1>9. \A q \in Cpus : ~Owns(q, i)
  BY <1>8 DEF MemInv, Owners, L
<1>10. ASSUME NEW q \in Cpus, NEW j \in 1..L, Owns(q, j)'
       PROVE  \/ q = p /\ j = i
              \/ q # p /\ j # i /\ Owns(q, j)
  <2>1. CASE q = p
    <3>1. a.virt \in Span(j)
      BY <1>2, <1>5, <1>6, <1>10, <2>1 DEF Owns, Working
    <3>2. i = j
      BY <1>8, <3>1, Apart DEF MemInv, L
    <3> QED BY <2>1, <3>2
  <2>2. CASE q # p
    BY <1>2, <1>6, <1>9, <1>10, <2>2 DEF Owns
  <2> QED BY <2>1, <2>2
<1>11. Owners'
  <2> SUFFICES ASSUME NEW q \in Cpus, NEW j \in 1..L, Owns(q, j)'
               PROVE  /\ hdr[j].type # "cache"
                      /\ \A r \in Cpus : Owns(r, j)' => r = q
                      /\ \A c \in live' : c.virt # hdr[j].virt
    BY <1>2 DEF Owners
  <2>1. CASE q = p /\ j = i
    <3>1. ASSUME NEW c \in live', c.virt = hdr[i].virt PROVE FALSE
      <4>1. PICK k \in 1..L : /\ c.virt = hdr[k].virt /\ Held(hdr[k]) = c /\ c.virt \in Span(k)
        BY <1>1, <3>1, HeldAt DEF MemInv, L
      <4>2. k = i
        BY <1>8, <3>1, <4>1, Apart DEF MemInv, L
      <4> QED BY <1>1, <1>8, <4>1, <4>2
    <3> QED BY <1>8, <1>10, <2>1, <3>1
  <2>2. CASE q # p /\ j # i /\ Owns(q, j)
    <3>1. /\ hdr[j].type # "cache" /\ \A r \in Cpus : Owns(r, j) => r = q
          /\ \A c \in live : c.virt # hdr[j].virt
      BY <2>2 DEF MemInv, Owners, L
    <3> QED BY <1>1, <1>10, <2>2, <3>1
  <2> QED BY <1>10, <2>1, <2>2
<1>12. InRange'
  <2>1. a.virt < free
    <3>1. a.virt \in 0..free - 1
      BY <1>8, Apart DEF MemInv, L
    <3>2. free \in Int
      BY DEF MemInv, MemTypeOK
    <3> QED BY <3>1, <3>2
  <2> QED BY <1>1, <1>5, <1>6, <2>1 DEF InRange, MemInv
<1>13. Unmapped'
  <2>1. ASSUME NEW j \in 1..L, Bare(j)' PROVE Bare(j)
    BY <1>2, <1>5, <1>6, <2>1 DEF Bare
  <2> QED BY <1>1, <1>2, <2>1 DEF Unmapped, MemInv, L
<1>14. MappedAsGiven'
  BY <1>1, <1>2 DEF MappedAsGiven, MemInv
<1> QED BY <1>2, <1>7, <1>11, <1>12, <1>13, <1>14 DEF MemInv

\* A walk goes on, ends, or comes to the header with the address.
LEMMA WalkKeeps ==
  ASSUME MemSensible, MemInv, NEW p \in Cpus, Walk(p)
  PROVE  MemInv'
<1> DEFINE L == Len(hdr)
           x == job[p].hdr
           g == IF x = 0 THEN Idle
                ELSE IF Matches(p) THEN [at |-> "frames", hdr |-> x]
                ELSE [job[p] EXCEPT !.hdr = hdr[x].next]
<1>1. /\ lists' = lists /\ free' = free /\ map' = map /\ live' = live
      /\ job' = [job EXCEPT ![p] = g] /\ job[p].at = "walk"
  <2>1. job' = [job EXCEPT ![p] = g]
    <3>1. CASE x = 0
      BY <3>1 DEF Walk
    <3>2. CASE x # 0 /\ Matches(p)
      BY <3>2 DEF Walk
    <3>3. CASE x # 0 /\ ~Matches(p)
      BY <3>3 DEF Walk
    <3> QED BY <3>1, <3>2, <3>3
  <2> QED BY <2>1 DEF Walk
<1>2. /\ Len(hdr)' = L /\ Placed' /\ hdr' = hdr /\ \A j \in 1..L : Span(j)' = Span(j)
  BY <1>1, StillPlaced
<1>3. /\ L \in Nat /\ lists \in Listed(L) /\ job \in [Cpus -> Jobs(L)] /\ Idle \in Jobs(L)
  BY DEF MemInv, MemTypeOK, Jobs
<1>4. job[p].virt \in Nat /\ x \in 0..L
  <2>1. job[p] \in Jobs(L)
    BY <1>3
  <2> HIDE DEF L
  <2> QED BY <1>1, <1>3, <2>1, JobFields
<1>5. job[p] \in [at : {"walk"}, virt : Nat, hdr : 0..L]
  BY <1>1, <1>3 DEF Jobs, Idle
<1>6. x # 0 => hdr[x].next \in 0..L
  <2>1. x # 0 => x \in 1..L
    BY <1>3, <1>4
  <2> HIDE DEF L
  <2> QED BY <1>3, <2>1, Fields DEF hdr
<1>7. \/ g \in Jobs(L) /\ g = Idle
      \/ /\ x \in 1..L /\ Matches(p) /\ g \in Jobs(L) /\ g.at = "frames" /\ g.hdr = x
      \/ g \in Jobs(L) /\ g.at = "walk" /\ g.virt = job[p].virt
  <2>1. CASE x = 0
    BY <1>3, <2>1
  <2>2. CASE x # 0 /\ Matches(p)
    BY <1>3, <1>4, <2>2 DEF Jobs
  <2>3. CASE x # 0 /\ ~Matches(p)
    <3>1. g = [job[p] EXCEPT !.hdr = hdr[x].next] /\ hdr[x].next \in 0..L
      BY <1>6, <2>3
    <3> HIDE DEF g, x
    <3>2. g \in [at : {"walk"}, virt : Nat, hdr : 0..L] /\ g.virt = job[p].virt
      BY <1>5, <3>1
    <3> QED BY <3>2 DEF Jobs
  <2> QED BY <2>1, <2>2, <2>3
<1> HIDE DEF g, L
<1>8. job' \in [Cpus -> Jobs(L)] /\ \A q \in Cpus : job'[q] = IF q = p THEN g ELSE job[q]
  BY <1>1, <1>3, <1>7
<1>9. MemTypeOK'
  BY <1>1, <1>2, <1>3, <1>8 DEF MemTypeOK, MemInv
<1>10. ASSUME NEW q \in Cpus, NEW j \in 1..L, Owns(q, j)' PROVE Owns(q, j)
  <2>1. CASE q # p
    BY <1>2, <1>8, <1>10, <2>1 DEF Owns
  <2>2. CASE q = p /\ g = Idle
    BY <1>8, <1>10, <2>2 DEF Owns, Idle, Working
  <2>3. CASE q = p /\ Matches(p) /\ g.at = "frames" /\ g.hdr = x
    <3>1. j = x
      BY <1>8, <1>10, <2>3 DEF Owns
    <3>2. job[p].virt \in Span(x)
      BY <2>3 DEF Matches, Span
    <3> QED BY <1>1, <2>3, <3>1, <3>2 DEF Owns
  <2>4. CASE q = p /\ g.at = "walk" /\ g.virt = job[p].virt
    BY <1>1, <1>2, <1>8, <1>10, <2>4 DEF Owns, Working
  <2> QED BY <1>7, <2>1, <2>2, <2>3, <2>4
<1>11. Owners'
  <2> SUFFICES ASSUME NEW q \in Cpus, NEW j \in 1..L, Owns(q, j)'
               PROVE  /\ hdr[j].type # "cache"
                      /\ \A r \in Cpus : Owns(r, j)' => r = q
                      /\ \A c \in live : c.virt # hdr[j].virt
    BY <1>1, <1>2 DEF Owners
  <2>1. Owns(q, j)
    BY <1>10
  <2>2. /\ hdr[j].type # "cache" /\ \A r \in Cpus : Owns(r, j) => r = q
        /\ \A c \in live : c.virt # hdr[j].virt
    BY <2>1 DEF MemInv, Owners, L
  <2> QED BY <1>10, <2>2
<1>12. InRange'
  <2>1. job[p].virt < free
    BY <1>1 DEF MemInv, InRange
  <2>2. g.at = "walk" => g.virt = job[p].virt
    BY <1>7 DEF Idle
  <2> QED BY <1>1, <1>8, <2>1, <2>2 DEF InRange, MemInv
<1>13. Unmapped'
  <2>1. g.at \notin {"phys", "header"}
    BY <1>7 DEF Idle
  <2>2. ASSUME NEW j \in 1..L, Bare(j)' PROVE Bare(j)
    BY <1>2, <1>8, <2>1, <2>2 DEF Bare
  <2> QED BY <1>1, <1>2, <2>2 DEF Unmapped, MemInv, L
<1>14. MappedAsGiven'
  BY <1>1, <1>2 DEF MappedAsGiven, MemInv
<1> QED BY <1>2, <1>9, <1>11, <1>12, <1>13, <1>14 DEF MemInv

\* The pages of the header that a walk found are unmapped.
LEMMA FreeFramesKeeps ==
  ASSUME MemSensible, MemInv, NEW p \in Cpus, FreeFrames(p)
  PROVE  MemInv'
<1> DEFINE L == Len(hdr)
           i == job[p].hdr
           g == [job[p] EXCEPT !.at = "header"]
<1>1. /\ lists' = lists /\ free' = free /\ live' = live
      /\ job' = [job EXCEPT ![p] = g] /\ job[p].at = "frames"
  BY DEF FreeFrames
<1>2. /\ Len(hdr)' = L /\ Placed' /\ hdr' = hdr /\ \A j \in 1..L : Span(j)' = Span(j)
  BY <1>1, StillPlaced
<1>3. /\ L \in Nat /\ lists \in Listed(L) /\ job \in [Cpus -> Jobs(L)]
      /\ map \in [0..Pages - 1 -> Nat] /\ free \in 0..Pages /\ Pages \in Nat
  BY DEF MemInv, MemTypeOK, MemSensible
<1>4. job[p] \in [at : Working, hdr : 1..L]
  BY <1>1, <1>3 DEF Jobs, Idle, Working
<1>5. g \in Jobs(L) /\ g.at = "header" /\ g.hdr = i /\ i \in 1..L
  <2>1. g \in [at : Working, hdr : 1..L] /\ g.at = "header" /\ g.hdr = i
    BY <1>4 DEF Working
  <2> QED BY <1>4, <2>1 DEF Jobs, Working
<1>6. map' = [v \in 0..Pages - 1 |-> IF v \in Span(i) THEN 0 ELSE map[v]]
  BY <1>3 DEF FreeFrames, Span
<1> HIDE DEF g, L, i
<1>7. job' \in [Cpus -> Jobs(L)] /\ \A q \in Cpus : job'[q] = IF q = p THEN g ELSE job[q]
  BY <1>1, <1>3, <1>5
<1>8. MemTypeOK'
  <2>1. map' \in [0..Pages - 1 -> Nat]
    BY <1>3, <1>6
  <2> QED BY <1>1, <1>2, <1>3, <1>7, <2>1 DEF MemTypeOK, MemInv
<1>9. Owns(p, i)
  BY <1>1 DEF Owns, Working, i
<1>10. /\ hdr[i].type # "cache" /\ \A q \in Cpus : Owns(q, i) => q = p
       /\ \A a \in live : a.virt # hdr[i].virt
  BY <1>5, <1>9 DEF MemInv, Owners, L
<1>11. ASSUME NEW q \in Cpus, NEW j \in 1..L, Owns(q, j)' PROVE Owns(q, j)
  BY <1>1, <1>2, <1>5, <1>7, <1>11 DEF Owns, Working, i
<1>12. Owners'
  <2> SUFFICES ASSUME NEW q \in Cpus, NEW j \in 1..L, Owns(q, j)'
               PROVE  /\ hdr[j].type # "cache"
                      /\ \A r \in Cpus : Owns(r, j)' => r = q
                      /\ \A c \in live : c.virt # hdr[j].virt
    BY <1>1, <1>2 DEF Owners
  <2>1. Owns(q, j)
    BY <1>11
  <2>2. /\ hdr[j].type # "cache" /\ \A r \in Cpus : Owns(r, j) => r = q
        /\ \A c \in live : c.virt # hdr[j].virt
    BY <2>1 DEF MemInv, Owners, L
  <2> QED BY <1>11, <2>2
<1>13. InRange'
  BY <1>1, <1>5, <1>7 DEF InRange, MemInv
<1>14. Unmapped'
  <2>1. ASSUME NEW v \in free..Pages - 1 PROVE map'[v] = 0
    BY <1>3, <1>6 DEF MemInv, Unmapped
  <2>2. ASSUME NEW j \in 1..L, Bare(j)', NEW v \in Span(j)' PROVE map'[v] = 0
    <3>1. v \in 0..Pages - 1 /\ v \in Span(j)
      <4>1. Span(j) \subseteq 0..free - 1
        BY Apart DEF MemInv, L
      <4> QED BY <1>2, <1>3, <4>1
    <3>2. CASE j = i
      BY <1>6, <3>1, <3>2
    <3>3. CASE j # i
      <4>1. Bare(j)
        BY <1>2, <1>5, <1>7, <2>2, <3>3 DEF Bare
      <4>2. map[v] = 0
        BY <3>1, <4>1 DEF MemInv, Unmapped, L
      <4> QED BY <1>6, <3>1, <4>2
    <3> QED BY <3>2, <3>3
  <2> QED BY <1>1, <1>2, <2>1, <2>2 DEF Unmapped
<1>15. MappedAsGiven'
  <2> SUFFICES ASSUME NEW a \in live
               PROVE  /\ \A v \in Run(a.virt, a.size) : map'[v] = a.phys + (v - a.virt)
                      /\ \E j \in DOMAIN hdr : Held(hdr[j]) = a /\ hdr[j].type # "cache"
    BY <1>1, <1>2 DEF MappedAsGiven
  <2>1. PICK j \in 1..L : /\ Held(hdr[j]) = a /\ hdr[j].type # "cache"
                          /\ a.virt = hdr[j].virt /\ Run(a.virt, a.size) = Span(j)
    BY HeldAt DEF MemInv, L
  <2>2. j # i
    BY <1>10, <2>1
  <2>3. ASSUME NEW v \in Span(j) PROVE map'[v] = a.phys + (v - a.virt)
    <3>1. Span(j) \subseteq 0..free - 1
      BY Apart DEF MemInv, L
    <3>2. v \notin Span(i) /\ v \in 0..Pages - 1
      BY <1>3, <1>5, <2>2, <3>1, Apart DEF MemInv, L
    <3>3. map[v] = a.phys + (v - a.virt)
      BY <2>1 DEF MemInv, MappedAsGiven
    <3> QED BY <1>6, <3>2, <3>3
  <2> QED BY <2>1, <2>3 DEF MemInv, MappedAsGiven
<1> QED BY <1>2, <1>8, <1>12, <1>13, <1>14, <1>15 DEF MemInv

\* The region has no pages in use at first.
LEMMA MemFirst ==
  ASSUME MemSensible, AvmfInit
  PROVE  MemInv
<1>1. Len(hdr) = 0 /\ lists \in Listed(0)
  BY DEF AvmfInit, NoLists, hdr, Listed, Headers
<1>2. free = 0 /\ Pages \in Nat /\ live = {} /\ \A p \in Cpus : job[p] = Idle
  BY DEF AvmfInit, MemSensible
<1>3. MemTypeOK
  BY <1>1, <1>2 DEF AvmfInit, MemTypeOK, Jobs
<1> QED BY <1>1, <1>2, <1>3 DEF MemInv, Placed, Owners, InRange, Unmapped, MappedAsGiven, Idle,
                                AvmfInit

\* Frames for page tables, and steps that change nothing.
LEMMA MemStill ==
  ASSUME MemInv, UNCHANGED <<lists, free, map, job, live>>
  PROVE  MemInv'
  BY DEF MemInv, MemTypeOK, Placed, Before, Owners, Owns, InRange, Unmapped, Bare, MappedAsGiven,
         hdr, Span

\* Whatever its callers do, and however many processors free at once, the allocator's
\* inductive invariant holds.
THEOREM MemInductive == MemSensible => (AvmfSpec => []MemInv)
<1> SUFFICES ASSUME MemSensible PROVE AvmfSpec => []MemInv
  OBVIOUS
<1>1. AvmfInit => MemInv
  BY MemFirst
<1>2. MemInv /\ [AvmfNext]_avmfVars => MemInv'
  <2> SUFFICES ASSUME MemInv, [AvmfNext]_avmfVars PROVE MemInv'
    OBVIOUS
  <2>1. ASSUME NEW p \in Cpus, NEW n \in Sizes, Alloc(p, n) PROVE MemInv'
    BY <2>1, AllocKeeps
  <2>2. ASSUME NEW p \in Cpus, GiveOld(p) PROVE MemInv'
    BY <2>2, GiveOldKeeps
  <2>3. ASSUME NEW p \in Cpus, GiveNew(p) PROVE MemInv'
    BY <2>3, GiveNewKeeps
  <2>4. ASSUME NEW p \in Cpus, OutOfMemory(p) PROVE MemInv'
    BY <2>4, OutOfMemoryKeeps
  <2>5. ASSUME NEW p \in Cpus, NEW a \in live, Free(p, a) PROVE MemInv'
    BY <2>5, FreeKeeps
  <2>6. ASSUME NEW p \in Cpus, AllocVirt(p) PROVE MemInv'
    BY <2>6, AllocVirtKeeps
  <2>7. ASSUME NEW p \in Cpus, Walk(p) PROVE MemInv'
    BY <2>7, WalkKeeps
  <2>8. ASSUME NEW p \in Cpus, FreeFrames(p) PROVE MemInv'
    BY <2>8, FreeFramesKeeps
  <2>9. ASSUME NEW p \in Cpus, FreeHeader(p) PROVE MemInv'
    BY <2>9, FreeHeaderKeeps
  <2>10. ASSUME TakeFrame \/ \E f \in tables : GiveFrame(f) PROVE MemInv'
    BY <2>10, MemStill DEF TakeFrame, GiveFrame
  <2>11. CASE UNCHANGED avmfVars
    BY <2>11, MemStill DEF avmfVars
  <2> QED BY <2>1, <2>2, <2>3, <2>4, <2>5, <2>6, <2>7, <2>8, <2>9, <2>10, <2>11 DEF AvmfNext
<1> QED BY <1>1, <1>2, PTL DEF AvmfSpec

\* The greatest of a set of regions.
LEMMA RegionGreatest ==
  ASSUME NEW i \in 1..4, NEW found \in SUBSET (1..4), i \in found, \A j \in found : j <= i
  PROVE  found # {} /\ Max(found) = i
<1>1. found \subseteq 0..4 /\ found # {}
  OBVIOUS
<1>2. Max(found) \in found /\ \A j \in found : Max(found) >= j
  BY <1>1, MaxIn
<1>3. Max(found) \in 1..4 /\ Max(found) >= i /\ Max(found) <= i
  BY <1>2
<1> QED BY <1>1, <1>3

\* The addresses of each region are told from those of the others, but for the upper half of
\* user space.
LEMMA RegionsAreFound == RegionsFound
<1> SUFFICES ASSUME NEW i \in 1..4, NEW v \in Base[i]..Limit[i] - 1, i = 1 => 2 * v + 1 < Limit[1]
             PROVE  FindRegion(v, Space - 1, v + 1) = i
  BY DEF RegionsFound
<1> DEFINE found == {j \in 1..4 : Scores(j, v, Space - 1, v + 1)}
<1>1. i \in {1, 2, 3, 4}
  OBVIOUS
<1>2. /\ v \in Nat
      /\ \/ i = 1 /\ v \in {1, 2, 3}
         \/ i = 2 /\ v \in {52, 53, 54, 55}
         \/ i = 3 /\ v \in {56, 57, 58, 59}
         \/ i = 4 /\ v \in {60, 61}
  BY <1>1 DEF Base, Limit
<1>3. Limit[i] > (v + 1 + v) % Space /\ Base[i] <= v
  BY <1>2 DEF Base, Limit, Space
<1>4. i \in found
  BY <1>3 DEF Scores
<1>5. ASSUME NEW j \in 1..4, j > i PROVE Base[j] > v
  BY <1>2, <1>5 DEF Base
<1>6. \A j \in found : j <= i
  <2> SUFFICES ASSUME NEW j \in found, j > i PROVE FALSE
    BY <1>1
  <2>1. Base[j] > v
    BY <1>5
  <2>2. Base[j] <= v
    BY DEF Scores
  <2>3. Base[j] \in Nat
    BY DEF Base
  <2> QED BY <1>2, <2>1, <2>2, <2>3
<1>7. found \in SUBSET (1..4)
  OBVIOUS
<1>8. FindRegion(v, Space - 1, v + 1) = IF found = {} THEN 0 ELSE Max(found)
  BY DEF FindRegion
<1> HIDE DEF found
<1> QED BY <1>4, <1>6, <1>7, <1>8, RegionGreatest

\* Whatever the order of allocations, failures and concurrent frees, no address is given
\* twice, every page a caller holds is mapped to the frame it was given with (avmf_alloc,
\* avmf_free), and every address is freed in its own region (avmf_find_region).
THEOREM MemoryIsWhole == MemSensible => (AvmfSpec => []MemoryWhole)
<1>1. MemInv => MemoryWhole
  <2> SUFFICES ASSUME MemInv PROVE Tiled
    BY RegionsAreFound DEF MemInv, MemoryWhole
  <2>1. DOMAIN hdr = 1..Len(hdr)
    BY SpanOf DEF MemInv
  <2>2. UNION {Span(i) : i \in DOMAIN hdr} = 0..free - 1
    <3>1. \A i \in DOMAIN hdr : Span(i) \subseteq 0..free - 1
      BY <2>1, Apart DEF MemInv
    <3>2. \A v \in 0..free - 1 : \E i \in DOMAIN hdr : v \in Span(i)
      BY <2>1 DEF MemInv, Placed
    <3> QED BY <3>1, <3>2
  <2>3. \A i, j \in DOMAIN hdr : i # j => Span(i) \cap Span(j) = {}
    BY <2>1, Apart DEF MemInv
  <2> QED BY <2>2, <2>3 DEF Tiled
<1> QED BY <1>1, MemInductive, PTL
-----------------------------------------------------------------------------
(***************************************************************************)
(* The memory map (BootMap), for any number of pages and any of the page   *)
(* numbers that fit in a field. The map so far covers what was read of the *)
(* descriptors, page by page and without overlap; what it calls free is    *)
(* free, and every page of a descriptor without structures stays free.     *)
(***************************************************************************)

\* The boot loader reading the descriptors.
BootMapSpec == Map!Init /\ [][Map!Next]_(Map!bootMapVars)

\* Memory ends before the last address does.
BootMapSensible ==
  /\ BootSpace \in Nat /\ BootPages \in Nat \ {0} /\ BootPages < BootSpace /\ Privileged \in Nat
  /\ MaxDescs \in Nat

\* A descriptor of the firmware, and an entry of the map.
Descriptor == [start : Nat, size : Nat, type : {"loader", "conventional", "reserved"}]

MapEntry == [start : Nat, size : Nat, type : {"free", "reserved", "structs"}]

\* Where what the first descriptors cover ends.
Frontier(n) == IF n <= Len(bDescs) THEN bDescs[n].start ELSE BootPages

\* The descriptors, one behind the other up to the last page.
DescsRight ==
  /\ bDescs \in Seq(Descriptor) /\ bDescs # <<>> /\ bCore \in Nat /\ bM \in Nat
  /\ bDescs[1].start = 0
  /\ \A k \in 1..Len(bDescs) : /\ bDescs[k].size > 0
       /\ bDescs[k].start + bDescs[k].size <= BootPages
                               /\ bDescs[k].start + bDescs[k].size = Frontier(k + 1)
                               /\ ~(Map!In(bCore, bDescs[k]) /\ Map!In(bM, bDescs[k]))

\* An entry of s holds page p free.
FreePage(s, p) ==
  \E k \in 1..Len(s) : s[k].type = "free" /\ p \in s[k].start..s[k].start + s[k].size - 1

\* A map without overlaps that ends at f.
Covers(s, f) ==
  /\ s \in Seq(MapEntry) /\ f \in Nat
  /\ \A k \in 1..Len(s) : s[k].start + s[k].size <= f
  /\ \A j, k \in 1..Len(s) : j < k => s[j].start + s[j].size <= s[k].start
  /\ s = <<>> => f = 0
  /\ s # <<>> => s[Len(s)].start + s[Len(s)].size = f

\* Page p is of memory the kernel may use.
Harmless(p) ==
  p # bCore /\ p # bM /\ \E k \in 1..Len(bDescs) : Map!In(p, bDescs[k])
       /\ bDescs[k].type # "reserved"

\* What the map says once n descriptors were read.
MapRight ==
  /\ bOff \in 1..Len(bDescs) + 1 /\ bLast = Len(bMmap)
  /\ Covers(bMmap, Frontier(bOff))
  /\ \A p \in Nat : FreePage(bMmap, p) => Harmless(p)
  /\ \A k \in 1..bOff - 1 : \A p \in Nat :
       Map!In(p, bDescs[k]) /\ bDescs[k].type # "reserved" /\ ~Map!In(bCore, bDescs[k])
            /\ ~Map!In(bM, bDescs[k])
             => FreePage(bMmap, p)

\* The inductive invariant.
BootMapInv ==
  /\ DescsRight /\ (Map!Short => MapRight)
  /\ bAt \in {"exit", "kernel", "pager"} => bOff > Len(bDescs)
  /\ Map!MapFaithful

-----------------------------------------------------------------------------
\* A map that covers up to f and is given an entry from f on covers up to its end.
LEMMA CoversAppend ==
  ASSUME NEW s, NEW f, Covers(s, f), NEW g \in Nat, f < g,
         NEW t \in {"free", "reserved", "structs"}
  PROVE  /\ Covers(Append(s, Map!Desc(f, g - f, t)), g)
         /\ Len(Append(s, Map!Desc(f, g - f, t))) = Len(s) + 1
         /\ \A p \in Nat : FreePage(Append(s, Map!Desc(f, g - f, t)), p)
                             <=> FreePage(s, p) \/ (t = "free" /\ p \in f..g - 1)
<1> DEFINE e == Map!Desc(f, g - f, t)
           u == Append(s, e)
<1>1. s \in Seq(MapEntry) /\ f \in Nat BY DEF Covers
<1>2. e \in MapEntry /\ e.start = f /\ e.size = g - f /\ e.type = t /\ f + (g - f) = g
  BY <1>1 DEF Map!Desc, MapEntry
<1> HIDE DEF e
<1>3. /\ u \in Seq(MapEntry) /\ Len(u) = Len(s) + 1 /\ u[Len(s) + 1] = e
      /\ \A k \in 1..Len(s) : u[k] = s[k]
      /\ \A k \in 1..Len(u) : k \in 1..Len(s) \/ k = Len(s) + 1
  BY <1>1, <1>2
<1> HIDE DEF u
<1>4. ASSUME NEW k \in 1..Len(s)
      PROVE  s[k] \in MapEntry /\ s[k].start \in Nat /\ s[k].size \in Nat
  <2>1. s[k] \in MapEntry BY <1>1
  <2> QED BY <2>1 DEF MapEntry
<1>5. ASSUME NEW k \in 1..Len(u) PROVE u[k].start + u[k].size <= g
  <2>1. CASE k \in 1..Len(s)
    <3>1. s[k].start + s[k].size <= f BY <2>1 DEF Covers
    <3> QED BY <3>1, <2>1, <1>3, <1>4, <1>1
  <2>2. CASE k = Len(s) + 1 BY <2>2, <1>2, <1>3
  <2> QED BY <2>1, <2>2, <1>3
<1>6. \A j, k \in 1..Len(u) : j < k => u[j].start + u[j].size <= u[k].start
  <2> TAKE j, k \in 1..Len(u)
  <2>1. SUFFICES ASSUME j < k PROVE u[j].start + u[j].size <= u[k].start
    OBVIOUS
  <2>2. j \in 1..Len(s) /\ u[j] = s[j] BY <2>1, <1>1, <1>3
  <2>3. CASE k \in 1..Len(s) BY <2>1, <2>2, <2>3, <1>3 DEF Covers
  <2>4. CASE k = Len(s) + 1 BY <2>2, <2>4, <1>2, <1>3 DEF Covers
  <2> QED BY <2>3, <2>4, <1>3
<1>7. u # <<>> /\ u[Len(u)].start + u[Len(u)].size = g BY <1>1, <1>2, <1>3
<1>8. Covers(u, g) BY <1>3, <1>5, <1>6, <1>7 DEF Covers
<1>9. ASSUME NEW p \in Nat
      PROVE  FreePage(u, p) <=> FreePage(s, p) \/ (t = "free" /\ p \in f..g - 1)
  <2>1. e.type = "free" /\ p \in e.start..e.start + e.size - 1
          <=> t = "free" /\ p \in f..g - 1
    <3>1. e.start + e.size - 1 = g - 1 BY <1>1, <1>2
    <3> QED BY <3>1, <1>2
  <2>2. Len(s) + 1 \in 1..Len(u) /\ \A k \in 1..Len(s) : k \in 1..Len(u) BY <1>1, <1>3
  <2> QED BY <2>1, <2>2, <1>3 DEF FreePage
<1> QED BY <1>3, <1>8, <1>9 DEF u, e

\* So does one whose last entry becomes longer.
LEMMA CoversLonger ==
  ASSUME NEW s, NEW f, Covers(s, f), s # <<>>, NEW g \in Nat, f <= g,
         NEW u, u = [s EXCEPT ![Len(s)].size = @ + (g - f)]
  PROVE  /\ Covers(u, g) /\ Len(u) = Len(s)
         /\ \A p \in Nat : FreePage(u, p)
                             <=> FreePage(s, p) \/ (s[Len(s)].type = "free" /\ p \in f..g - 1)
<1>1. s \in Seq(MapEntry) /\ f \in Nat /\ Len(s) \in Nat /\ Len(s) \in 1..Len(s)
  BY DEF Covers
<1>2. PICK n \in 1..Len(s) : n = Len(s) BY <1>1
<1>3. PICK e \in MapEntry : e = s[n] BY <1>1
<1>4. e.start \in Nat /\ e.size \in Nat /\ e.start + e.size = f BY <1>2, <1>3 DEF Covers, MapEntry
<1>5. PICK x \in MapEntry : x = [e EXCEPT !.size = e.size + (g - f)]
  <2>1. e.size + (g - f) \in Nat BY <1>1, <1>4
  <2>2. \A z \in Nat : [e EXCEPT !.size = z] \in MapEntry BY DEF MapEntry
  <2> QED BY <2>1, <2>2
<1>6. x.start = e.start /\ x.size = e.size + (g - f) /\ x.type = e.type /\ x.start + x.size = g
  BY <1>1, <1>4, <1>5 DEF MapEntry
<1>7. u = [s EXCEPT ![n] = x] BY <1>2, <1>3, <1>5
<1>8. /\ u \in Seq(MapEntry) /\ Len(u) = Len(s) /\ u[n] = x
      /\ \A k \in 1..Len(s) : k # n => u[k] = s[k]
  BY <1>1, <1>7
<1>9. ASSUME NEW k \in 1..Len(s)
      PROVE  s[k] \in MapEntry /\ s[k].start \in Nat /\ s[k].size \in Nat
  <2>1. s[k] \in MapEntry BY <1>1
  <2> QED BY <2>1 DEF MapEntry
<1>10. \A k \in 1..Len(u) : u[k].start + u[k].size <= g
  BY <1>1, <1>6, <1>8, <1>9 DEF Covers
<1>11. \A j, k \in 1..Len(u) : j < k => u[j].start + u[j].size <= u[k].start
  <2> TAKE j, k \in 1..Len(u)
  <2>1. SUFFICES ASSUME j < k PROVE u[j].start + u[j].size <= u[k].start
    OBVIOUS
  <2>2. j # n /\ u[j] = s[j] BY <2>1, <1>1, <1>2, <1>8
  <2>3. u[k].start = s[k].start BY <1>3, <1>6, <1>8
  <2> QED BY <2>1, <2>2, <2>3, <1>8 DEF Covers
<1>12. Covers(u, g)
  <2>1. u # <<>> /\ Len(u) = n /\ u[Len(u)].start + u[Len(u)].size = g
    <3>1. Len(u) = n /\ n >= 1 BY <1>1, <1>2, <1>8
    <3>2. u # <<>> BY <3>1
    <3>3. u[Len(u)] = x BY <3>1, <1>8
    <3> QED BY <3>1, <3>2, <3>3, <1>6
  <2> QED BY <2>1, <1>8, <1>10, <1>11 DEF Covers
<1>13. ASSUME NEW p \in Nat
       PROVE  FreePage(u, p) <=> FreePage(s, p) \/ (e.type = "free" /\ p \in f..g - 1)
  <2>1. p \in x.start..x.start + x.size - 1
          <=> p \in e.start..e.start + e.size - 1 \/ p \in f..g - 1
    <3>0. x.start \in Nat /\ x.size \in Nat BY DEF MapEntry
    <3>1. x.start + x.size - 1 = g - 1 /\ e.start + e.size - 1 = f - 1 /\ e.start <= f
      <4>1. x.start + x.size = g BY <1>6
      <4>2. x.start + x.size - 1 = g - 1 BY <4>1, <3>0
      <4>3. e.start + e.size - 1 = f - 1 /\ e.start <= f BY <1>4, <1>1
      <4> QED BY <4>2, <4>3
    <3>2. p \in e.start..g - 1 <=> p \in e.start..f - 1 \/ p \in f..g - 1
      BY <1>1, <1>4, <3>1
    <3> QED BY <3>1, <3>2, <1>6
  <2>2. ASSUME NEW k \in 1..Len(s)
        PROVE  u[k].type = "free" /\ p \in u[k].start..u[k].start + u[k].size - 1
                 <=> \/ s[k].type = "free" /\ p \in s[k].start..s[k].start + s[k].size - 1
                     \/ k = n /\ e.type = "free" /\ p \in f..g - 1
    <3>1. CASE k = n BY <3>1, <2>1, <1>3, <1>6, <1>8
    <3>2. CASE k # n BY <3>2, <1>8
    <3> QED BY <3>1, <3>2
  <2> QED BY <2>2, <1>8 DEF FreePage
<1> QED BY <1>2, <1>3, <1>8, <1>12, <1>13

-----------------------------------------------------------------------------
\* Cuts that each lie behind the one before are in order.
LEMMA CutsGrow ==
  ASSUME NEW n \in Nat, NEW c \in [1..n -> Nat], \A i \in 1..n - 1 : c[i] < c[i + 1]
  PROVE  \A i, j \in 1..n : i < j => c[i] < c[j]
<1> DEFINE Wrong == {j \in 1..n : \E i \in 1..n : i < j /\ ~(c[i] < c[j])}
<1>1. SUFFICES ASSUME Wrong # {} PROVE FALSE
  OBVIOUS
<1>2. Wrong \subseteq Nat OBVIOUS
<1>3. PICK j \in Wrong : \A y \in Wrong : j <= y BY <1>1, <1>2, NatLeast
<1>4. PICK i \in 1..n : i < j /\ ~(c[i] < c[j]) OBVIOUS
<1>5. j \in 1..n /\ j - 1 \in 1..n - 1 /\ j - 1 \in 1..n /\ (j - 1) + 1 = j BY <1>4
<1>6. c[j - 1] < c[j] /\ c[j] \in Nat /\ c[j - 1] \in Nat /\ c[i] \in Nat BY <1>5
<1>7. i < j - 1 BY <1>4, <1>5, <1>6
<1>8. j - 1 \notin Wrong BY <1>3, <1>5
<1>9. c[i] < c[j - 1] BY <1>5, <1>7, <1>8
<1> QED BY <1>4, <1>6, <1>9

\* Before the first descriptor the map is empty.
LEMMA BootMapBegins == BootMapSensible /\ Map!Init => BootMapInv
<1> SUFFICES ASSUME BootMapSensible, Map!Init PROVE BootMapInv
  OBVIOUS
<1>a. PICK c \in Map!Cuts : \E t \in [DOMAIN c -> {"loader", "conventional", "reserved"}] :
        bDescs = [i \in DOMAIN c |->
                    Map!Desc(c[i], (IF i < Len(c) THEN c[i + 1] ELSE BootPages) - c[i], t[i])]
  BY DEF Map!Init
<1>1. PICK t \in [DOMAIN c -> {"loader", "conventional", "reserved"}] :
        bDescs = [i \in DOMAIN c |->
                    Map!Desc(c[i], (IF i < Len(c) THEN c[i + 1] ELSE BootPages) - c[i], t[i])]
  BY <1>a
<1>2. PICK n \in 1..MaxDescs :
        c \in [1..n -> 0..BootPages - 1] /\ c[1] = 0 /\ \A i \in 1..n - 1 : c[i] < c[i + 1]
  BY DEF Map!Cuts
<1>3. n \in Nat /\ n >= 1 /\ c \in [1..n -> Nat] /\ DOMAIN c = 1..n /\ Len(c) = n
      /\ \A k \in 1..n : c[k] \in Nat /\ c[k] < BootPages
  BY <1>2 DEF BootMapSensible
<1>4. \A i, j \in 1..n : i < j => c[i] < c[j] BY <1>2, <1>3, CutsGrow
<1> DEFINE End1(k) == IF k < n THEN c[k + 1] ELSE BootPages
<1>5. ASSUME NEW k \in 1..n
      PROVE  /\ End1(k) \in Nat /\ c[k] < End1(k) /\ End1(k) <= BootPages
             /\ bDescs[k] \in Descriptor /\ bDescs[k].start = c[k]
             /\ bDescs[k].size > 0 /\ bDescs[k].start + bDescs[k].size = End1(k)
  <2>1. End1(k) \in Nat /\ c[k] < End1(k) /\ End1(k) <= BootPages
    BY <1>2, <1>3 DEF BootMapSensible
  <2>2. bDescs[k] = Map!Desc(c[k], End1(k) - c[k], t[k]) BY <1>1, <1>3
  <2>3. PICK z \in Nat : z = End1(k) - c[k] /\ z > 0 /\ c[k] + z = End1(k) BY <2>1, <1>3
  <2>4. t[k] \in {"loader", "conventional", "reserved"} BY <1>3
  <2> HIDE DEF End1
  <2>5. bDescs[k] = [start |-> c[k], size |-> z, type |-> t[k]] BY <2>2, <2>3 DEF Map!Desc
  <2> QED BY <2>1, <2>3, <2>4, <2>5, <1>3 DEF Descriptor
<1>6. bDescs \in Seq(Descriptor) /\ Len(bDescs) = n /\ bDescs # <<>> /\ DOMAIN bDescs = 1..n
  <2>1. DOMAIN bDescs = 1..n /\ bDescs = [i \in 1..n |-> bDescs[i]] BY <1>1, <1>3
  <2>2. bDescs \in [1..n -> Descriptor] BY <2>1, <1>5
  <2> QED BY <2>2, <1>3
<1>7. \A k \in 1..n : End1(k) = Frontier(k + 1)
  BY <1>3, <1>5, <1>6 DEF Frontier
<1>8. \A p \in Nat : \A j, k \in 1..n : Map!In(p, bDescs[j]) /\ Map!In(p, bDescs[k]) => j = k
  <2>1. ASSUME NEW p \in Nat, NEW j \in 1..n, NEW k \in 1..n, j < k, Map!In(p, bDescs[j]),
               Map!In(p, bDescs[k])
        PROVE  FALSE
    <3>1. End1(j) = c[j + 1] /\ j + 1 \in 1..n BY <2>1, <1>3
    <3>2. c[j + 1] <= c[k]
      <4>1. CASE j + 1 = k BY <4>1, <1>3
      <4>2. CASE j + 1 < k BY <4>2, <3>1, <1>3, <1>4
      <4> QED BY <4>1, <4>2, <2>1
    <3>3. p < End1(j) /\ c[k] <= p
      <4>1. /\ bDescs[j].start \in Nat /\ bDescs[j].size \in Nat
            /\ bDescs[k].start \in Nat /\ bDescs[k].size \in Nat
        BY <1>5 DEF Descriptor
      <4> QED BY <4>1, <2>1, <1>5 DEF Map!In
    <3> QED BY <3>1, <3>2, <3>3, <1>3
  <2> QED BY <2>1, <1>3
<1>9. \A k \in 1..n : ~(Map!In(bCore, bDescs[k]) /\ Map!In(bM, bDescs[k]))
  <2>1. PICK i \in 1..n : bDescs[i].type = "loader" /\ Map!In(bCore, bDescs[i])
    BY <1>6 DEF Map!Init
  <2>2. PICK j \in 1..n : bDescs[j].type = "conventional" /\ Map!In(bM, bDescs[j])
    BY <1>6 DEF Map!Init
  <2>3. bCore \in Nat /\ bM \in Nat BY DEF Map!Init
  <2> QED BY <2>1, <2>2, <2>3, <1>8
<1>10. DescsRight
  <2>1. bCore \in Nat /\ bM \in Nat BY DEF Map!Init
  <2>2. bDescs[1].start = 0 BY <1>2, <1>3, <1>5
  <2>3. \A k \in 1..Len(bDescs) :
          /\ bDescs[k].size > 0 /\ bDescs[k].start + bDescs[k].size <= BootPages
          /\ bDescs[k].start + bDescs[k].size = Frontier(k + 1)
    BY <1>5, <1>6, <1>7
  <2> QED BY <2>1, <2>2, <2>3, <1>6, <1>9 DEF DescsRight
<1>11. MapRight
  <2>1. bOff = 1 /\ bMmap = <<>> /\ bLast = 0 BY DEF Map!Init
  <2>2. Frontier(1) = 0 BY <1>2, <1>3, <1>5, <1>6 DEF Frontier
  <2>3. Len(bMmap) = 0 /\ bMmap \in Seq(MapEntry) BY <2>1
  <2>4. Covers(bMmap, 0) BY <2>1, <2>3 DEF Covers
  <2>5. \A p : ~FreePage(bMmap, p) BY <2>3 DEF FreePage
  <2>6. bOff \in 1..Len(bDescs) + 1 BY <2>1, <1>6, <1>3
  <2> QED BY <2>1, <2>2, <2>3, <2>4, <2>5, <2>6 DEF MapRight
<1>12. bAt = "map" BY DEF Map!Init
<1> QED BY <1>10, <1>11, <1>12 DEF BootMapInv, Map!MapFaithful

-----------------------------------------------------------------------------
\* The entry the loader adds (Entry) does not wrap around, so that it is as above.
LEMMA Appended ==
  ASSUME BootMapSensible, NEW s, NEW f, Covers(s, f), NEW g \in Nat, f < g, g < BootSpace,
         NEW t \in {"free", "reserved", "structs"}
  PROVE  /\ Covers(Append(s, Map!Entry(f, g, t)), g)
         /\ Len(Append(s, Map!Entry(f, g, t))) = Len(s) + 1
         /\ \A p \in Nat : FreePage(Append(s, Map!Entry(f, g, t)), p)
                             <=> FreePage(s, p) \/ (t = "free" /\ p \in f..g - 1)
<1>1. (g - f) % BootSpace = g - f
  <2>1. f \in Nat /\ BootSpace \in Nat BY DEF Covers, BootMapSensible
  <2>2. g - f \in 0..BootSpace - 1 BY <2>1
  <2>3. \A x \in 0..BootSpace - 1 : x % BootSpace = x BY <2>1
  <2> QED BY <2>2, <2>3
<1>2. Map!Entry(f, g, t) = Map!Desc(f, g - f, t) BY <1>1 DEF Map!Entry
<1> QED BY <1>2, CoversAppend

\* The last entry ends where the map does.
LEMMA EndIs ==
  ASSUME BootMapSensible, NEW s, NEW f, Covers(s, f), f < BootSpace, s # <<>>
  PROVE  /\ Map!End(s[Len(s)]) = f /\ Len(s) \in 1..Len(s) /\ s[Len(s)] \in MapEntry
         /\ s[Len(s)].size <= f
<1>1. s \in Seq(MapEntry) /\ f \in Nat /\ s[Len(s)].start + s[Len(s)].size = f BY DEF Covers
<1>2. Len(s) \in 1..Len(s) /\ s[Len(s)] \in MapEntry BY <1>1
<1>3. s[Len(s)].start \in Nat /\ s[Len(s)].size \in Nat BY <1>2 DEF MapEntry
<1>4. f % BootSpace = f BY <1>1 DEF BootMapSensible
<1> QED BY <1>1, <1>2, <1>3, <1>4 DEF Map!End

\* The last entry as the loader lengthens it (Longer).
LEMMA Lengthened ==
  ASSUME BootMapSensible, NEW s, NEW f, Covers(s, f), s # <<>>, NEW g \in Nat, f <= g,
         g < BootSpace, bLast = Len(s)
  PROVE  /\ Covers(Map!Longer(s, g - f), g) /\ Len(Map!Longer(s, g - f)) = Len(s)
         /\ Map!Longer(s, g - f)[bLast].type = s[bLast].type
         /\ \A p \in Nat : FreePage(Map!Longer(s, g - f), p)
                             <=> FreePage(s, p) \/ (s[bLast].type = "free" /\ p \in f..g - 1)
<1>1. s \in Seq(MapEntry) /\ f \in Nat BY DEF Covers
<1>a. f < BootSpace BY <1>1 DEF BootMapSensible
<1>2. bLast \in 1..Len(s) /\ s[bLast] \in MapEntry /\ s[bLast].size <= f BY EndIs, <1>1, <1>a
<1>3. s[bLast].size \in Nat BY <1>2 DEF MapEntry
<1>4. (s[bLast].size + (g - f)) % BootSpace = s[bLast].size + (g - f)
  <2>1. PICK z \in Nat : z = s[bLast].size + (g - f) BY <1>1, <1>3
  <2>2. z <= g BY <2>1, <1>1, <1>2, <1>3
  <2>3. z % BootSpace = z BY <2>2, <2>1 DEF BootMapSensible
  <2> QED BY <2>1, <2>3
<1>5. Map!Longer(s, g - f) = [s EXCEPT ![Len(s)].size = @ + (g - f)] BY <1>4 DEF Map!Longer
<1>6. Map!Longer(s, g - f)[bLast].type = s[bLast].type BY <1>1, <1>2 DEF Map!Longer, MapEntry
<1>7. PICK u : u = Map!Longer(s, g - f) OBVIOUS
<1>8. u = [s EXCEPT ![Len(s)].size = @ + (g - f)] BY <1>5, <1>7
<1>9. /\ Covers(u, g) /\ Len(u) = Len(s)
      /\ \A p \in Nat : FreePage(u, p)
                          <=> FreePage(s, p) \/ (s[Len(s)].type = "free" /\ p \in f..g - 1)
  BY <1>8, CoversLonger
<1> QED BY <1>6, <1>7, <1>9

\* A descriptor without a structure: all of it, of its type.
LEMMA WholeTaken ==
  ASSUME BootMapSensible, NEW d \in Descriptor, Covers(bMmap, d.start), bLast = Len(bMmap),
         d.size > 0, d.start + d.size < BootSpace, Map!Whole(d)
  PROVE  /\ Covers(bMmap', d.start + d.size) /\ bLast' = Len(bMmap')
         /\ \A p \in Nat : FreePage(bMmap', p)
                             <=> FreePage(bMmap, p) \/ (Map!TypeOf(d) = "free" /\ Map!In(p, d))
<1>1. PICK f \in Nat, g \in Nat, t \in {"free", "reserved", "structs"} :
        /\ f = d.start /\ g = d.start + d.size /\ t = Map!TypeOf(d) /\ g - f = d.size /\ f < g
        /\ f < BootSpace
  <2>1. d.start \in Nat /\ d.size \in Nat BY DEF Descriptor
  <2>2. Map!TypeOf(d) \in {"free", "reserved", "structs"} BY DEF Map!TypeOf
  <2> QED BY <2>1, <2>2 DEF BootMapSensible
<1>2. \A p \in Nat : Map!In(p, d) <=> p \in f..g - 1 BY <1>1 DEF Map!In
<1>3. CASE Map!Continues(d.start, Map!TypeOf(d))
  <2>1. bMmap' = Map!Longer(bMmap, g - f) /\ bLast' = bLast BY <1>1, <1>3 DEF Map!Whole
  <2>2. bMmap # <<>> /\ bMmap[bLast].type = t BY <1>1, <1>3 DEF Map!Continues
  <2> QED BY <2>1, <2>2, <1>1, <1>2, Lengthened
<1>4. CASE ~Map!Continues(d.start, Map!TypeOf(d))
  <2>1. bMmap' = Append(bMmap, Map!Entry(f, g, t)) /\ bLast' = Len(bMmap) + 1
    BY <1>1, <1>4 DEF Map!Whole
  <2> QED BY <2>1, <1>1, <1>2, Appended
<1> QED BY <1>3, <1>4

\* A descriptor with one: what is before it and, unless it is lost, what is behind it.
LEMMA FragmentTaken ==
  ASSUME BootMapSensible, NEW d \in Descriptor, Covers(bMmap, d.start), bLast = Len(bMmap),
         d.size > 0, d.start + d.size < BootSpace, NEW p \in Nat, Map!In(p, d), Map!Fragment(d, p)
  PROVE  /\ Covers(bMmap', d.start + d.size) /\ bLast' = Len(bMmap')
         /\ \A x \in Nat : FreePage(bMmap, x) => FreePage(bMmap', x)
         /\ \A x \in Nat : FreePage(bMmap', x) =>
              FreePage(bMmap, x) \/ (Map!TypeOf(d) = "free" /\ Map!In(x, d) /\ x # p)
<1>2. PICK f \in Nat, g \in Nat, t \in {"free", "reserved"} :
        /\ f = d.start /\ g = d.start + d.size /\ t = Map!TypeOf(d) /\ f < BootSpace
        /\ f <= p /\ p < g /\ p + 1 <= g /\ p < BootSpace /\ p + 1 < BootSpace
  <2>1. d.start \in Nat /\ d.size \in Nat BY DEF Descriptor
  <2>2. Map!TypeOf(d) \in {"free", "reserved"} BY DEF Map!TypeOf
  <2> QED BY <2>1, <2>2 DEF Map!In, BootMapSensible
<1>a. d.start = f /\ d.start + d.size = g /\ Map!TypeOf(d) = t /\ f <= p /\ f \in Nat /\ g \in Nat
  BY <1>2
<1>4. \A x \in Nat : Map!In(x, d) <=> x \in f..g - 1
  <2>0. d.start \in Nat /\ d.size \in Nat BY DEF Descriptor
  <2>1. d.start + d.size - 1 = g - 1 BY <1>a, <2>0
  <2> QED BY <2>1, <1>2, Zenon DEF Map!In
<1>b. f = p \/ f < p BY <1>2
<1> DEFINE from == IF d.start > p THEN d.start ELSE p
           to == IF d.start + d.size < p + 1 THEN d.start + d.size ELSE p + 1
           joins == d.start < from /\ Map!Continues(d.start, Map!TypeOf(d))
           first == IF d.start < from /\ ~joins
                    THEN <<Map!Entry(d.start, from, Map!TypeOf(d))>> ELSE <<>>
           front == (IF joins THEN Map!Longer(bMmap, from - d.start) ELSE bMmap) \o first
           grows == bLast # 0 /\ from = Map!End(front[bLast]) /\ front[bLast].type = "structs"
           middle == IF grows THEN Map!Longer(front, to - from)
                     ELSE Append(front, Map!Entry(from, to, "structs"))
           restType == IF first = <<>> /\ ~grows THEN "structs" ELSE Map!TypeOf(d)
           rest == IF to < d.start + d.size
                   THEN <<Map!Entry(to, d.start + d.size, restType)>> ELSE <<>>
<1>1. /\ bMmap' = middle \o rest
      /\ bLast' = IF grows /\ rest = <<>> THEN bLast ELSE Len(bMmap')
  BY DEF Map!Fragment
<1>3. from = p /\ to = p + 1 BY <1>2
<1>5. bMmap \in Seq(MapEntry) BY DEF Covers
<1> HIDE DEF from, to
<1>6. /\ Covers(front, p)
      /\ \A x \in Nat : FreePage(front, x) <=> FreePage(bMmap, x) \/ (t = "free" /\ x \in f..p - 1)
      /\ grows => front = bMmap
  <2>1. CASE f = p
    <3>a. ~(p < p) OBVIOUS
    <3>0. ~(d.start < from) BY <2>1, <1>a, <1>3, <3>a
    <3>1. ~joins /\ first = <<>> BY <3>0, Zenon
    <3>4. front = bMmap \o <<>> BY <3>1, Zenon
    <3>2. front = bMmap
      <4> HIDE DEF front
      <4> QED BY <3>4, <1>5
    <3>3. \A x \in Nat : x \notin f..p - 1 BY <2>1
    <3> HIDE DEF front, grows
    <3> QED BY <3>2, <3>3, <2>1, <1>2
  <2>2. CASE f < p /\ Map!Continues(d.start, Map!TypeOf(d))
    <3>1. joins /\ first = <<>> BY <2>2, <1>2, <1>3
    <3>2. bMmap # <<>> /\ bMmap[bLast].type = t BY <2>2, <1>2 DEF Map!Continues
    <3>3. /\ Covers(Map!Longer(bMmap, p - f), p) /\ Map!Longer(bMmap, p - f)[bLast].type = t
          /\ \A x \in Nat : FreePage(Map!Longer(bMmap, p - f), x)
                             <=> FreePage(bMmap, x) \/ (t = "free" /\ x \in f..p - 1)
      BY <2>2, <3>2, <1>2, Lengthened
    <3>4. front = Map!Longer(bMmap, p - f) \o <<>> BY <3>1, <1>2, <1>3
    <3>5. front = Map!Longer(bMmap, p - f)
      <4>1. Map!Longer(bMmap, p - f) \in Seq(MapEntry) BY <3>3 DEF Covers
      <4> HIDE DEF front
      <4> QED BY <4>1, <3>4
    <3>6. front[bLast].type # "structs" BY <3>3, <3>5
    <3>7. ~grows BY <3>6
    <3> HIDE DEF front, grows
    <3> QED BY <3>3, <3>5, <3>7
  <2>3. CASE f < p /\ ~Map!Continues(d.start, Map!TypeOf(d))
    <3>1. ~joins /\ first = <<Map!Entry(f, p, t)>> BY <2>3, <1>2, <1>3
    <3>2. /\ Covers(Append(bMmap, Map!Entry(f, p, t)), p)
          /\ \A x \in Nat : FreePage(Append(bMmap, Map!Entry(f, p, t)), x)
                             <=> FreePage(bMmap, x) \/ (t = "free" /\ x \in f..p - 1)
      BY <2>3, <1>2, Appended
    <3>3. front = bMmap \o <<Map!Entry(f, p, t)>> BY <3>1
    <3>4. front = Append(bMmap, Map!Entry(f, p, t))
      <4> HIDE DEF front
      <4>1. \A e : bMmap \o <<e>> = Append(bMmap, e) BY <1>5
      <4> QED BY <4>1, <3>3
    <3>5. ASSUME grows PROVE FALSE
      <4>1. bLast # 0 /\ bMmap # <<>> /\ bLast \in 1..Len(bMmap) BY <3>5, <1>5
      <4>2. front[bLast] = bMmap[bLast]
        <5> HIDE DEF front
        <5>1. \A e : Append(bMmap, e)[bLast] = bMmap[bLast] BY <4>1, <1>5
        <5> QED BY <5>1, <3>4
      <4>3. Map!End(bMmap[bLast]) = f BY <4>1, <1>2, EndIs
      <4> QED BY <4>2, <4>3, <3>5, <2>3, <1>3
    <3> HIDE DEF front, grows
    <3> QED BY <3>2, <3>4, <3>5
  <2> HIDE DEF front, grows
  <2> QED BY <2>1, <2>2, <2>3, <1>b
<1>7. /\ Covers(middle, p + 1) /\ (grows => Len(middle) = bLast)
      /\ \A x \in Nat : FreePage(middle, x) <=> FreePage(front, x)
  <2>1. CASE grows
    <3>0. grows /\ bLast # 0 /\ front[bLast].type = "structs" BY <2>1
    <3>1. front = bMmap /\ bMmap # <<>> /\ front[bLast].type = "structs"
      <4> HIDE DEF front, grows
      <4> QED BY <3>0, <1>6, <1>5
    <3>2. middle = Map!Longer(front, (p + 1) - p) BY <2>1, <1>3
    <3> HIDE DEF middle, front
    <3>3. Covers(bMmap, p) /\ p <= p + 1 BY <3>1, <1>6
    <3>4. /\ Covers(Map!Longer(bMmap, (p + 1) - p), p + 1)
          /\ Len(Map!Longer(bMmap, (p + 1) - p)) = Len(bMmap)
          /\ \A x \in Nat : FreePage(Map!Longer(bMmap, (p + 1) - p), x)
                           <=> FreePage(bMmap, x) \/ (bMmap[bLast].type = "free" /\ x \in p..p)
      <4>1. p + 1 - 1 = p OBVIOUS
      <4>2. /\ Covers(bMmap, p) /\ bMmap # <<>> /\ p \in Nat /\ p + 1 \in Nat /\ p <= p + 1
            /\ p + 1 < BootSpace /\ bLast = Len(bMmap)
        BY <3>1, <3>3, <1>2
      <4>3. \A x \in Nat : FreePage(Map!Longer(bMmap, (p + 1) - p), x)
                           <=> FreePage(bMmap, x)
                                \/ (bMmap[bLast].type = "free" /\ x \in p..p + 1 - 1)
        BY <4>2, Lengthened
      <4>4. /\ Covers(Map!Longer(bMmap, (p + 1) - p), p + 1)
            /\ Len(Map!Longer(bMmap, (p + 1) - p)) = Len(bMmap)
        BY <4>2, Lengthened
      <4> QED BY <4>1, <4>3, <4>4
    <3> QED BY <3>1, <3>2, <3>4
  <2>2. CASE ~grows
    <3>1. middle = Append(front, Map!Entry(p, p + 1, "structs")) BY <2>2, <1>3
    <3> HIDE DEF middle, front
    <3> QED BY <3>1, <2>2, <1>2, <1>6, Appended
  <2> QED BY <2>1, <2>2
<1>8. restType \in {"structs", t} BY <1>2
<1>9. middle \in Seq(MapEntry) BY <1>7 DEF Covers
<1>10. CASE p + 1 < g
  <2>1. rest = <<Map!Entry(p + 1, g, restType)>> /\ rest # <<>> BY <1>10, <1>2, <1>3
  <2> HIDE DEF middle, rest, restType, front, grows
  <2>2. bMmap' = Append(middle, Map!Entry(p + 1, g, restType)) BY <2>1, <1>1, <1>9
  <2>3. restType \in {"free", "reserved", "structs"} BY <1>8
  <2>4. /\ Covers(bMmap', g)
        /\ \A x \in Nat : FreePage(bMmap', x)
              <=> FreePage(middle, x) \/ (restType = "free" /\ x \in p + 1..g - 1)
    BY <2>2, <2>3, <1>2, <1>7, <1>10, Appended
  <2>5. bLast' = Len(bMmap') BY <2>1, <1>1
  <2>6. \A x \in Nat : restType = "free" /\ x \in p + 1..g - 1
                        => t = "free" /\ x \in f..g - 1 /\ x # p
    BY <1>2, <1>8
  <2>7. \A x \in Nat : x \in f..p - 1 => x \in f..g - 1 /\ x # p BY <1>2
  <2> QED BY <2>4, <2>5, <2>6, <2>7, <1>2, <1>4, <1>6, <1>7
<1>11. CASE p + 1 = g
  <2>1. rest = <<>> BY <1>11, <1>2, <1>3
  <2> HIDE DEF middle, rest, restType, front, grows
  <2>2. bMmap' = middle BY <2>1, <1>1, <1>9
  <2>3. bLast' = Len(bMmap') BY <2>1, <2>2, <1>1, <1>7
  <2>7. \A x \in Nat : x \in f..p - 1 => x \in f..g - 1 /\ x # p BY <1>2
  <2> QED BY <2>2, <2>3, <2>7, <1>2, <1>4, <1>6, <1>7, <1>11
<1> QED BY <1>10, <1>11, <1>2

\* The descriptors stay.
LEMMA DescsFixed ==
  ASSUME UNCHANGED <<bDescs, bCore, bM>>
  PROVE  /\ DescsRight' = DescsRight /\ Map!Short' = Map!Short
         /\ \A p \in Nat : Harmless(p)' = Harmless(p)
         /\ \A n \in Nat : Frontier(n)' = Frontier(n)
BY DEF DescsRight, Map!Short, Harmless, Frontier, Map!In, Map!Holds

\* A descriptor is read: taken whole, merged with the last entry, or cut.
LEMMA DescriptorTaken ==
  ASSUME BootMapSensible, BootMapInv, Map!TakeDescriptor, Map!Short
  PROVE  MapRight'
<1>1. /\ bAt = "map" /\ bOff <= Len(bDescs) /\ bOff' = bOff + 1 /\ UNCHANGED <<bDescs, bCore, bM>>
  BY DEF Map!TakeDescriptor
<1>2. DescsRight /\ MapRight BY DEF BootMapInv
<1>3. PICK n \in 1..Len(bDescs), d \in Descriptor : n = bOff /\ d = bDescs[n]
  BY <1>1, <1>2 DEF DescsRight, MapRight
<1>4. /\ d.size > 0 /\ d.start + d.size <= BootPages /\ d.start + d.size = Frontier(n + 1)
      /\ d.start = Frontier(n) /\ ~(Map!In(bCore, d) /\ Map!In(bM, d)) /\ bCore \in Nat
      /\ bM \in Nat
  BY <1>3, <1>2 DEF DescsRight, Frontier
<1>5. d.start + d.size < BootSpace
  <2>1. d.start \in Nat /\ d.size \in Nat BY DEF Descriptor
  <2> QED BY <2>1, <1>4 DEF BootMapSensible
<1>6. Covers(bMmap, d.start) /\ bLast = Len(bMmap) BY <1>2, <1>3, <1>4 DEF MapRight
<1>7. \A q \in {bCore, bM} : Map!Holds(q, d) <=> Map!In(q, d)
  <2>1. \A q \in {bCore, bM} : Map!Holds(q, d) => Map!In(q, d)
    <3>1. n \in DOMAIN bDescs BY <1>2 DEF DescsRight
    <3> QED BY <3>1, <1>3 DEF Map!Short
  <2> QED BY <2>1 DEF Map!Holds
<1>8. /\ Covers(bMmap', d.start + d.size) /\ bLast' = Len(bMmap')
      /\ \A p \in Nat : FreePage(bMmap, p) => FreePage(bMmap', p)
      /\ \A p \in Nat : FreePage(bMmap', p) =>
           FreePage(bMmap, p) \/ (Map!TypeOf(d) = "free" /\ Map!In(p, d) /\ p # bCore /\ p # bM)
      /\ \A p \in Nat : Map!TypeOf(d) = "free" /\ Map!In(p, d) /\ ~Map!In(bCore, d)
           /\ ~Map!In(bM, d)
           => FreePage(bMmap', p)
  <2>1. CASE Map!Protected(d) = -1
    <3>1. ~Map!In(bCore, d) /\ ~Map!In(bM, d) BY <2>1, <1>4, <1>7 DEF Map!Protected
    <3>2. Map!Whole(d) BY <2>1, <1>3 DEF Map!TakeDescriptor
    <3>3. /\ Covers(bMmap', d.start + d.size) /\ bLast' = Len(bMmap')
          /\ \A p \in Nat : FreePage(bMmap', p)
                             <=> FreePage(bMmap, p) \/ (Map!TypeOf(d) = "free" /\ Map!In(p, d))
      BY <3>2, <1>4, <1>5, <1>6, WholeTaken
    <3> QED BY <3>1, <3>3
  <2>2. CASE Map!Protected(d) # -1
    <3>1. PICK q \in {bCore, bM} : q = Map!Protected(d) /\ Map!In(q, d)
      BY <2>2, <1>7 DEF Map!Protected
    <3>2. Map!Fragment(d, q) BY <2>2, <3>1, <1>3 DEF Map!TakeDescriptor
    <3>3. q \in Nat BY <1>4
    <3>4. /\ Covers(bMmap', d.start + d.size) /\ bLast' = Len(bMmap')
          /\ \A x \in Nat : FreePage(bMmap, x) => FreePage(bMmap', x)
          /\ \A x \in Nat : FreePage(bMmap', x) =>
               FreePage(bMmap, x) \/ (Map!TypeOf(d) = "free" /\ Map!In(x, d) /\ x # q)
      BY <3>1, <3>2, <3>3, <1>4, <1>5, <1>6, FragmentTaken
    <3> QED BY <3>1, <3>4, <1>4
  <2> QED BY <2>1, <2>2
<1>9. Map!TypeOf(d) = "free" <=> d.type # "reserved" BY DEF Map!TypeOf
<1>10. \A p \in Nat : FreePage(bMmap', p) => Harmless(p)
  BY <1>2, <1>3, <1>8, <1>9 DEF MapRight, Harmless
<1>11. bOff' \in 1..Len(bDescs) + 1 /\ bOff' = n + 1 /\ Frontier(bOff') = d.start + d.size
  BY <1>1, <1>3, <1>4
<1>12. \A k \in 1..bOff' - 1 : \A p \in Nat :
        Map!In(p, bDescs[k]) /\ bDescs[k].type # "reserved" /\ ~Map!In(bCore, bDescs[k])
             /\ ~Map!In(bM, bDescs[k])
              => FreePage(bMmap', p)
  <2> TAKE k \in 1..bOff' - 1
  <2>1. k \in 1..bOff - 1 \/ k = n BY <1>1, <1>3
  <2>2. CASE k \in 1..bOff - 1 BY <2>2, <1>2, <1>8 DEF MapRight
  <2>3. CASE k = n BY <2>3, <1>3, <1>8, <1>9
  <2> QED BY <2>1, <2>2, <2>3
<1>13. /\ \A p \in Nat : Harmless(p)' = Harmless(p)
       /\ Frontier(bOff)' = Frontier(bOff')
       /\ \A p \in Nat : FreePage(bMmap, p)' = FreePage(bMmap', p)
       /\ \A p \in Nat : \A k \in 1..Len(bDescs) : Map!In(p, bDescs[k])' = Map!In(p, bDescs[k])
  BY <1>1, DescsFixed DEF Frontier, FreePage, Map!In
<1> QED BY <1>1, <1>8, <1>10, <1>11, <1>12, <1>13 DEF MapRight, Map!In

\* The regions the kernel makes of the map hold free pages only, none twice and all of those
\* it may use.
LEMMA RegionsFaithful ==
  ASSUME BootMapSensible, BootMapInv, Map!PagerInit
  PROVE  Map!MapFaithful'
<1>1. /\ bAt = "kernel" /\ UNCHANGED <<bDescs, bCore, bM, bOff, bMmap, bLast>>
      /\ bRegions' = [i \in {k \in DOMAIN bMmap : Map!Kept(bMmap[k])} |-> Map!Region(bMmap[i])]
  BY DEF Map!PagerInit
<1>2. SUFFICES ASSUME Map!Short PROVE Map!MapFaithful'
  BY <1>1, DescsFixed DEF Map!MapFaithful
<1>3. DescsRight /\ MapRight /\ bOff > Len(bDescs) BY <1>1, <1>2 DEF BootMapInv
<1>4. bOff = Len(bDescs) + 1 /\ Frontier(bOff) = BootPages /\ Covers(bMmap, BootPages)
  <2>1. Len(bDescs) \in Nat BY <1>3 DEF DescsRight
  <2> QED BY <2>1, <1>3 DEF MapRight, Frontier
<1>5. bMmap \in Seq(MapEntry) BY <1>4 DEF Covers
<1>6. ASSUME NEW i \in DOMAIN bRegions'
      PROVE  /\ i \in 1..Len(bMmap) /\ bMmap[i].type = "free"
             /\ \A p \in Nat : p \in Map!Usable(i)' <=>
                  p >= Privileged /\ p \in bMmap[i].start..bMmap[i].start + bMmap[i].size - 1
             /\ Map!Usable(i)' \subseteq Nat
  <2>1. i \in 1..Len(bMmap) /\ Map!Kept(bMmap[i]) /\ bRegions'[i] = Map!Region(bMmap[i]) BY <1>1,
        <1>5
  <2>2. PICK e \in MapEntry : e = bMmap[i] BY <2>1, <1>5
  <2>3. e.start \in Nat /\ e.size \in Nat BY DEF MapEntry
  <2>4. PICK x \in Nat, z \in Nat : x = e.start /\ z = e.start + e.size BY <2>3
  <2>5. z <= BootPages BY <2>1, <2>2, <2>4, <1>4 DEF Covers
  <2>6. z % BootSpace = z BY <2>5 DEF BootMapSensible
  <2>7. Map!End(e) = z BY <2>4, <2>6 DEF Map!End
  <2>8. PICK b \in Nat : b = (IF x < Privileged THEN Privileged ELSE x) BY DEF BootMapSensible
  <2>9. bRegions'[i].start = b /\ bRegions'[i].end = z BY <2>1, <2>2, <2>4, <2>7,
        <2>8 DEF Map!Region
  <2>10. Map!Usable(i)' = b..z - 1 BY <2>9 DEF Map!Usable
  <2>11. \A p \in Nat : p \in b..z - 1 <=> p >= Privileged /\ p \in x..z - 1
    BY <2>8 DEF BootMapSensible
  <2>12. b..z - 1 \subseteq Nat OBVIOUS
  <2>13. e.start + e.size - 1 = z - 1 BY <2>3, <2>4
  <2>14. bMmap[i].type = "free" BY <2>1 DEF Map!Kept
  <2> QED BY <2>1, <2>2, <2>4, <2>10, <2>11, <2>12, <2>13, <2>14
<1>7. ASSUME NEW i \in DOMAIN bRegions', NEW j \in DOMAIN bRegions', i < j,
             NEW p \in Nat, p \in Map!Usable(i)', p \in Map!Usable(j)'
      PROVE  FALSE
  <2>1. /\ p \in bMmap[i].start..bMmap[i].start + bMmap[i].size - 1
        /\ p \in bMmap[j].start..bMmap[j].start + bMmap[j].size - 1
        /\ i \in 1..Len(bMmap) /\ j \in 1..Len(bMmap)
    BY <1>6, <1>7
  <2>2. bMmap[i].start + bMmap[i].size <= bMmap[j].start BY <2>1, <1>4, <1>7 DEF Covers
  <2>3. bMmap[i] \in MapEntry /\ bMmap[j] \in MapEntry BY <2>1, <1>5
  <2>4. bMmap[i].start \in Nat /\ bMmap[i].size \in Nat /\ bMmap[j].start \in Nat
    BY <2>3 DEF MapEntry
  <2> QED BY <2>1, <2>2, <2>4
<1>8. \A i, j \in DOMAIN bRegions' : i # j => Map!Usable(i)' \cap Map!Usable(j)' = {}
  <2> TAKE i, j \in DOMAIN bRegions'
  <2>1. i \in 1..Len(bMmap) /\ j \in 1..Len(bMmap) BY <1>6
  <2>2. Map!Usable(i)' \subseteq Nat BY <1>6
  <2>3. SUFFICES ASSUME i # j, NEW p \in Nat, p \in Map!Usable(i)', p \in Map!Usable(j)' PROVE FALSE
    BY <2>2
  <2>4. i < j \/ j < i BY <2>1, <2>3
  <2> QED BY <2>3, <2>4, <1>7
<1>9. DOMAIN bDescs = 1..Len(bDescs) BY <1>3 DEF DescsRight
<1>10. \A i \in DOMAIN bRegions' : \A p \in Map!Usable(i)' :
         /\ p >= Privileged /\ p # bCore /\ p # bM
         /\ \E k \in DOMAIN bDescs : Map!In(p, bDescs[k]) /\ bDescs[k].type # "reserved"
  <2> TAKE i \in DOMAIN bRegions'
  <2> TAKE p \in Map!Usable(i)'
  <2>1. p \in Nat BY <1>6
  <2>2. p >= Privileged /\ FreePage(bMmap, p) BY <2>1, <1>6 DEF FreePage
  <2>3. Harmless(p) BY <2>1, <2>2, <1>3 DEF MapRight
  <2> QED BY <2>2, <2>3, <1>9 DEF Harmless
<1>11. \A k \in DOMAIN bDescs : \A p \in Privileged..BootPages - 1 :
         Map!In(p, bDescs[k]) /\ bDescs[k].type # "reserved" /\ ~Map!In(bCore, bDescs[k])
                 /\ ~Map!In(bM, bDescs[k])
               => \E i \in DOMAIN bRegions' : p \in Map!Usable(i)'
  <2> TAKE k \in DOMAIN bDescs
  <2> TAKE p \in Privileged..BootPages - 1
  <2>1. SUFFICES ASSUME Map!In(p, bDescs[k]), bDescs[k].type # "reserved",
        ~Map!In(bCore, bDescs[k]),
                        ~Map!In(bM, bDescs[k])
                 PROVE  \E i \in DOMAIN bRegions' : p \in Map!Usable(i)'
    OBVIOUS
  <2>2. p \in Nat /\ p >= Privileged BY DEF BootMapSensible
  <2>3. k \in 1..bOff - 1
    <3>1. Len(bDescs) \in Nat BY <1>3 DEF DescsRight
    <3> QED BY <3>1, <1>4, <1>9
  <2>4. FreePage(bMmap, p) BY <2>1, <2>2, <2>3, <1>3 DEF MapRight
  <2>5. PICK i \in 1..Len(bMmap) :
          bMmap[i].type = "free" /\ p \in bMmap[i].start..bMmap[i].start + bMmap[i].size - 1
    BY <2>4 DEF FreePage
  <2>6. bMmap[i] \in MapEntry BY <1>5
  <2>7. bMmap[i].start \in Nat /\ bMmap[i].size \in Nat BY <2>6 DEF MapEntry
  <2>8. Map!Kept(bMmap[i]) BY <2>2, <2>5, <2>7 DEF Map!Kept, BootMapSensible
  <2>9. i \in DOMAIN bRegions' BY <2>8, <1>1, <1>5
  <2> QED BY <2>2, <2>5, <2>9, <1>6
<1>12. bDescs' = bDescs /\ bCore' = bCore /\ bM' = bM BY <1>1
<1> QED BY <1>8, <1>10, <1>11, <1>12 DEF Map!MapFaithful, Map!In

\* Every step keeps the invariant.
LEMMA BootMapStep == BootMapSensible /\ BootMapInv /\ [Map!Next]_(Map!bootMapVars) => BootMapInv'
<1> SUFFICES ASSUME BootMapSensible, BootMapInv, [Map!Next]_(Map!bootMapVars) PROVE BootMapInv'
  OBVIOUS
<1>1. UNCHANGED <<bDescs, bCore, bM>>
  BY DEF Map!Next, Map!TakeDescriptor, Map!Leave, Map!Retry, Map!PagerInit, Map!bootMapVars
<1>2. DescsRight' /\ Map!Short' = Map!Short BY <1>1, DescsFixed DEF BootMapInv
<1>3. ASSUME UNCHANGED <<bOff, bMmap, bLast>>, Map!Short PROVE MapRight'
  <2>1. MapRight BY <1>3 DEF BootMapInv
  <2>2. /\ \A p \in Nat : Harmless(p)' = Harmless(p)
        /\ Frontier(bOff)' = Frontier(bOff)
        /\ \A p \in Nat : FreePage(bMmap, p)' = FreePage(bMmap, p)
        /\ Covers(bMmap, Frontier(bOff))' = Covers(bMmap, Frontier(bOff))
    BY <1>1, <1>3 DEF Harmless, Frontier, FreePage, Map!In, Covers
  <2> QED BY <2>1, <2>2, <1>1, <1>3 DEF MapRight, Map!In
<1>4. CASE Map!TakeDescriptor
  <2>1. bAt' = "map" /\ bAt = "map" BY <1>4 DEF Map!TakeDescriptor
  <2>2. Map!Short => MapRight' BY <1>4, DescriptorTaken
  <2> QED BY <2>1, <2>2, <1>2 DEF BootMapInv, Map!MapFaithful
<1>5. CASE Map!Leave
  <2>1. bAt' = "exit" /\ bOff > Len(bDescs)
        /\ UNCHANGED <<bDescs, bOff, bMmap, bLast>> BY <1>5 DEF Map!Leave
  <2> QED BY <2>1, <1>2, <1>3 DEF BootMapInv, Map!MapFaithful
<1>6. CASE Map!Retry
  <2>1. bAt = "exit" /\ bAt' # "pager"
        /\ UNCHANGED <<bDescs, bOff, bMmap, bLast>> BY <1>6 DEF Map!Retry
  <2> QED BY <2>1, <1>2, <1>3 DEF BootMapInv, Map!MapFaithful
<1>7. CASE Map!PagerInit
  <2>1. bAt = "kernel" /\ UNCHANGED <<bDescs, bOff, bMmap, bLast>> BY <1>7 DEF Map!PagerInit
  <2>2. Map!MapFaithful' BY <1>7, RegionsFaithful
  <2> QED BY <2>1, <2>2, <1>2, <1>3 DEF BootMapInv
<1>8. CASE UNCHANGED Map!bootMapVars
  <2>1. UNCHANGED <<bDescs, bCore, bM, bOff, bMmap, bLast, bAt, bRegions>>
    BY <1>8 DEF Map!bootMapVars
  <2>2. Map!MapFaithful' = Map!MapFaithful BY <2>1, <1>2 DEF Map!MapFaithful, Map!Usable, Map!In
  <2> QED BY <2>1, <2>2, <1>2, <1>3 DEF BootMapInv
<1> QED BY <1>4, <1>5, <1>6, <1>7, <1>8 DEF Map!Next

\* The regions the allocator begins with are the memory the firmware left free (MapFaithful).
THEOREM MapIsFaithful == BootMapSensible => (BootMapSpec => []Map!MapFaithful)
<1> SUFFICES ASSUME BootMapSensible PROVE BootMapSpec => []Map!MapFaithful
  OBVIOUS
<1>1. Map!Init => BootMapInv BY BootMapBegins
<1>2. BootMapInv /\ [Map!Next]_(Map!bootMapVars) => BootMapInv' BY BootMapStep
<1>3. BootMapInv => Map!MapFaithful BY DEF BootMapInv
<1> QED BY <1>1, <1>2, <1>3, PTL DEF BootMapSpec

-----------------------------------------------------------------------------
(***************************************************************************)
(* The ELF loader (ElfLoader), for any headers, sizes, alignments and      *)
(* memory already taken. A header that was checked stands alone between    *)
(* the lowest and the highest address; one that was written has its bytes, *)
(* shifted by where the image was placed.                                  *)
(***************************************************************************)

\* The loader.
LoaderSpec == Loader!Init /\ [][Loader!Next]_(Loader!elfVars)

\* What the constants are: addresses and sizes are numbers, an alignment is not zero.
LoaderSensible ==
  /\ Page \in Nat \ {0} /\ FileSize \in Nat /\ TopAddress \in Nat /\ MaxHeaders \in Nat
  /\ Addrs \subseteq Nat /\ SegmentSizes \subseteq Nat /\ FileSizes \subseteq Nat
  /\ Offsets \subseteq Nat /\ Aligns \subseteq Nat \ {0} /\ EntryPoints \subseteq Nat

\* A program header, and what is told of the image.
ProgramHeader == [load : BOOLEAN, addr : Nat, size : Nat, file : Nat, offset : Nat, align : Nat,
                  exec : BOOLEAN]

LoadResults == [base : Nat, size : Int, entry : Int, stackBase : Int, stackTop : Int]

\* The places of the headers.
ProgramHeaders == 1..Len(lImage.ph)

\* The types.
LoaderTyped ==
  /\ lImage.ph \in Seq(ProgramHeader) /\ lImage.dyn \in BOOLEAN /\ lImage.entry \in Nat
  /\ lAt \in {"header", "segments", "copy", "done", "loaded", "failed"}
  /\ lI \in Nat \ {0} /\ (lAt = "header" => lI = 1) /\ lLow \in Nat /\ lHigh \in Nat
       /\ lEntryOk \in BOOLEAN
  /\ lResult \in LoadResults /\ lMem = [a \in DOMAIN lMem |-> lMem[a]]

\* By how much the image is moved.
ImageShift == IF lImage.dyn THEN lResult.base - lLow ELSE 0

\* Memory is written only in pages of the image.
InOwnPages == \A a \in DOMAIN lMem : a \div Page \in lOwn

\* The headers that were checked, and those whose bytes are in memory.
CheckedHeaders == IF lAt = "header" THEN {} ELSE IF lAt = "segments"
     THEN ProgramHeaders \cap (1..lI - 1) ELSE ProgramHeaders

\* The headers whose bytes were copied.
WrittenHeaders ==
  IF lAt \in {"done", "loaded"} THEN ProgramHeaders
  ELSE IF lAt = "copy"
       \/ (lAt = "segments" /\ ~lImage.dyn) THEN ProgramHeaders \cap (1..lI - 1) ELSE {}

\* Header k, if it is loaded, lies between the lowest and the highest address and shares
\* nothing with another.
StandsAlone(k) ==
  LET p == lImage.ph[k] IN
    Loader!Loaded(p) =>
      /\ lLow <= p.addr /\ p.addr + p.size <= lHigh
      /\ \A j \in ProgramHeaders \ {k} :
           Loader!Loaded(lImage.ph[j]) => ~Loader!Overlap(p, lImage.ph[j])

\* Header k has its bytes of the file, and zeros behind.
HasBytes(k) ==
  LET p == lImage.ph[k] IN
    Loader!Loaded(p) =>
      \A b \in 0..p.size - 1 :
        /\ p.addr + ImageShift + b \in DOMAIN lMem
        /\ lMem[p.addr + ImageShift + b] = IF b < p.file THEN p.offset + b ELSE Loader!Zero

\* The entry point lies in a header that was checked, if it was found.
EntryFound ==
  lEntryOk => \E k \in ProgramHeaders :
    /\ Loader!Loaded(lImage.ph[k]) /\ lImage.ph[k].exec
    /\ lImage.entry \in lImage.ph[k].addr..lImage.ph[k].addr + lImage.ph[k].size - 1

\* The pages of an image that can be anywhere.
ImagePlaced ==
  lAt \in {"copy", "done", "loaded"} =>
    /\ lResult.size = lHigh - lLow /\ lResult.entry = lImage.entry + ImageShift
    /\ (lAt = "copy" => lImage.dyn = TRUE) /\ (lImage.dyn = FALSE => lResult.base = lLow)
    /\ lImage.dyn = TRUE => Loader!PagesOf(lResult.base, lHigh - lLow) \subseteq lOwn

\* The stack lies behind the image.
StackBehind ==
  lAt = "loaded" =>
    /\ lEntryOk = TRUE /\ lResult.base + lResult.size < lResult.stackBase
    /\ lResult.stackBase < lResult.stackTop

\* The inductive invariant.
LoaderInv ==
  /\ LoaderTyped /\ InOwnPages /\ (lAt # "failed" => \A k \in CheckedHeaders : StandsAlone(k))
  /\ (lAt # "failed" => \A k \in WrittenHeaders : HasBytes(k)) /\ EntryFound /\ ImagePlaced
       /\ StackBehind

-----------------------------------------------------------------------------
\* An address rounded down to a page (or to an alignment).
LEMMA Rounded ==
  ASSUME LoaderSensible, NEW a \in Int
  PROVE  Loader!Down(a) \in Int /\ Loader!Up(a) \in Int /\ Loader!Down(a) <= a
         /\ a < Loader!Down(a) + Page /\ a <= Loader!Up(a)
         /\ Loader!Up(a) < a + Page
<1>1. \A x \in Int : (x \div Page) * Page <= x /\ x < (x \div Page) * Page + Page
                     /\ (x \div Page) \in Int
  BY DEF LoaderSensible
<1>2. \A x \in Int : Loader!Down(x) \in Int /\ Loader!Down(x) <= x /\ x < Loader!Down(x) + Page
  BY <1>1 DEF Loader!Down, LoaderSensible
<1>3. a + Page - 1 \in Int BY DEF LoaderSensible
<1> QED BY <1>2, <1>3 DEF Loader!Up, LoaderSensible

\* A rounded address is a number.
LEMMA RoundedNat ==
  ASSUME LoaderSensible, NEW a \in Nat
  PROVE  Loader!Down(a) \in Nat /\ Loader!Up(a) \in Nat
<1>1. \A x \in Nat : (x \div Page) \in Nat BY DEF LoaderSensible
<1>2. \A x, y \in Nat : x * y \in Nat OBVIOUS
<1>3. \A x \in Nat : Loader!Down(x) \in Nat BY <1>1, <1>2 DEF Loader!Down, LoaderSensible
<1>4. a + Page - 1 \in Nat BY DEF LoaderSensible
<1> QED BY <1>3, <1>4 DEF Loader!Up

\* Rounding keeps the order.
LEMMA RoundedGrows ==
  ASSUME LoaderSensible, NEW a \in Int, NEW b \in Int, a + Page <= b
  PROVE  Loader!Up(a) < Loader!Up(b)
BY Rounded DEF LoaderSensible

\* Nothing is checked, allocated or written.
LEMMA LoaderBegins == LoaderSensible /\ Loader!Init => LoaderInv
<1> SUFFICES ASSUME LoaderSensible, Loader!Init PROVE LoaderInv
  OBVIOUS
<1>1. Loader!Segments \subseteq ProgramHeader
  <2>1. ASSUME NEW s \in Loader!Segments PROVE s \in ProgramHeader
    <3>1. CASE s \in [load : {TRUE}, addr : Addrs, size : SegmentSizes, file : FileSizes,
                      offset : Offsets, align : Aligns, exec : BOOLEAN]
      <4>1. /\ s = [load |-> s.load, addr |-> s.addr, size |-> s.size, file |-> s.file,
                    offset |-> s.offset, align |-> s.align, exec |-> s.exec]
            /\ s.load = TRUE /\ s.addr \in Addrs /\ s.size \in SegmentSizes /\ s.file \in FileSizes
            /\ s.offset \in Offsets /\ s.align \in Aligns /\ s.exec \in BOOLEAN
        BY <3>1
      <4>2. s.addr \in Nat /\ s.size \in Nat /\ s.file \in Nat /\ s.offset \in Nat
            /\ s.align \in Nat
        BY <4>1 DEF LoaderSensible
      <4> QED BY <4>1, <4>2 DEF ProgramHeader
    <3>2. CASE s \in [load : {FALSE}, addr : {1}, size : {1}, file : {1}, offset : {0},
                      align : {2}, exec : {TRUE}]
      <4>1. s = [load |-> FALSE, addr |-> 1, size |-> 1, file |-> 1, offset |-> 0,
                 align |-> 2, exec |-> TRUE]
        BY <3>2
      <4> QED BY <4>1 DEF ProgramHeader
    <3> QED BY <3>1, <3>2 DEF Loader!Segments
  <2> QED BY <2>1
<1>2. lImage.ph \in Seq(ProgramHeader)
  <2>1. PICK n \in 1..MaxHeaders : lImage.ph \in [1..n -> Loader!Segments] BY DEF Loader!Init
  <2> QED BY <2>1, <1>1
<1>3. lResult \in LoadResults BY DEF Loader!Init, LoadResults, Loader!Unset
<1>4. lImage.dyn \in BOOLEAN /\ lImage.entry \in Nat
  <2>1. lImage.dyn \in BOOLEAN /\ lImage.entry \in EntryPoints BY DEF Loader!Init
  <2> QED BY <2>1 DEF LoaderSensible
<1>5. lMem = [a \in DOMAIN lMem |-> lMem[a]] /\ InOwnPages
  <2>1. lMem = <<>> BY DEF Loader!Init
  <2>2. lMem \in [{} -> Int] BY <2>1
  <2> QED BY <2>2 DEF InOwnPages
<1>6. lAt = "header" /\ lI \in Nat \ {0} /\ lLow \in Nat /\ lHigh \in Nat /\ lEntryOk \in BOOLEAN
      /\ lI = 1
  <2>1. lAt = "header" /\ lI = 1 /\ lLow = TopAddress /\ lHigh = 0
        /\ lEntryOk = FALSE BY DEF Loader!Init
  <2>2. TopAddress \in Nat BY DEF LoaderSensible
  <2>3. lI \in Nat \ {0} /\ lHigh \in Nat BY <2>1
  <2>4. lEntryOk \in BOOLEAN /\ lLow \in Nat BY <2>1, <2>2, Zenon
  <2> QED BY <2>1, <2>3, <2>4
<1>7. lAt \in {"header", "segments", "copy", "done", "loaded", "failed"} BY <1>6
<1>8. LoaderTyped BY <1>2, <1>3, <1>4, <1>5, <1>6, <1>7, Zenon DEF LoaderTyped
<1> QED BY <1>5, <1>8
        DEF Loader!Init, LoaderInv, CheckedHeaders, WrittenHeaders, EntryFound, ImagePlaced,
             StackBehind

\* Memory after a segment is copied to an address: its bytes there, all else as before.
LEMMA OverBoth ==
  ASSUME LoaderTyped, NEW p \in ProgramHeader, NEW to \in Int,
         lMem' = Loader!Over(lMem, Loader!Copied(p, to))
  PROVE  /\ lMem' = [a \in DOMAIN lMem' |-> lMem'[a]]
         /\ DOMAIN lMem' = DOMAIN lMem \cup (to..to + p.size - 1)
         /\ \A a \in to..to + p.size - 1 :
              lMem'[a] = IF a - to < p.file THEN p.offset + (a - to) ELSE Loader!Zero
         /\ \A a \in DOMAIN lMem : a \notin to..to + p.size - 1 => lMem'[a] = lMem[a]
<1>1. DOMAIN Loader!Copied(p, to) = to..to + p.size - 1
      /\ \A a \in to..to + p.size - 1 :
           Loader!Copied(p, to)[a] = IF a - to < p.file THEN p.offset + (a - to) ELSE Loader!Zero
  BY DEF Loader!Copied
<1> QED BY <1>1 DEF Loader!Over

\* A segment that is copied leaves the bytes of one it shares nothing with.
LEMMA BytesKept ==
  ASSUME LoaderTyped, NEW k \in ProgramHeaders, NEW n \in ProgramHeaders,
         Loader!Loaded(lImage.ph[k]) => ~Loader!Overlap(lImage.ph[n], lImage.ph[k]), HasBytes(k),
         lMem' = Loader!Over(lMem, Loader!Copied(lImage.ph[n], lImage.ph[n].addr + ImageShift)),
         lImage' = lImage, ImageShift' = ImageShift, ImageShift \in Int
  PROVE  HasBytes(k)'
<1>1. PICK p \in ProgramHeader, q \in ProgramHeader : p = lImage.ph[n] /\ q = lImage.ph[k]
  BY DEF LoaderTyped, ProgramHeaders
<1>2. p.addr \in Nat /\ p.size \in Nat /\ q.addr \in Nat /\ q.size \in Nat
  BY DEF ProgramHeader
<1>3. PICK to \in Int : to = p.addr + ImageShift BY <1>2
<1>4. /\ DOMAIN lMem' = DOMAIN lMem \cup (to..to + p.size - 1)
      /\ \A a \in DOMAIN lMem : a \notin to..to + p.size - 1 => lMem'[a] = lMem[a]
  <2>1. lMem' = Loader!Over(lMem, Loader!Copied(p, to)) BY <1>1, <1>3
  <2> QED BY <2>1, OverBoth
<1>5. SUFFICES ASSUME Loader!Loaded(q), NEW b \in 0..q.size - 1
               PROVE  /\ q.addr + ImageShift + b \in DOMAIN lMem'
                      /\ lMem'[q.addr + ImageShift + b] = IF b < q.file THEN q.offset + b
                           ELSE Loader!Zero
  BY <1>1 DEF HasBytes
<1>6. /\ q.addr + ImageShift + b \in DOMAIN lMem
      /\ lMem[q.addr + ImageShift + b] = IF b < q.file THEN q.offset + b ELSE Loader!Zero
  BY <1>1, <1>5 DEF HasBytes
<1>7. ~(p.addr < q.addr + q.size /\ q.addr < p.addr + p.size) BY <1>1, <1>5 DEF Loader!Overlap
<1>8. q.addr + ImageShift + b \notin to..to + p.size - 1 BY <1>2, <1>3, <1>7
<1> QED BY <1>4, <1>6, <1>8

\* A segment that is copied has its bytes.
LEMMA BytesWritten ==
  ASSUME LoaderTyped, NEW n \in ProgramHeaders,
         lMem' = Loader!Over(lMem, Loader!Copied(lImage.ph[n], lImage.ph[n].addr + ImageShift)),
         lImage' = lImage, ImageShift' = ImageShift, ImageShift \in Int
  PROVE  HasBytes(n)'
<1>1. PICK p \in ProgramHeader : p = lImage.ph[n] BY DEF LoaderTyped, ProgramHeaders
<1>2. p.addr \in Nat /\ p.size \in Nat BY DEF ProgramHeader
<1>3. PICK to \in Int : to = p.addr + ImageShift BY <1>2
<1>4. /\ DOMAIN lMem' = DOMAIN lMem \cup (to..to + p.size - 1)
      /\ \A a \in to..to + p.size - 1 :
           lMem'[a] = IF a - to < p.file THEN p.offset + (a - to) ELSE Loader!Zero
  <2>1. lMem' = Loader!Over(lMem, Loader!Copied(p, to)) BY <1>1, <1>3
  <2> QED BY <2>1, OverBoth
<1>5. ASSUME NEW b \in 0..p.size - 1
      PROVE  /\ p.addr + ImageShift + b \in DOMAIN lMem'
             /\ lMem'[p.addr + ImageShift + b] = IF b < p.file THEN p.offset + b ELSE Loader!Zero
  <2>1. to + b \in to..to + p.size - 1 /\ (to + b) - to = b BY <1>2, <1>3
  <2> QED BY <2>1, <1>3, <1>4
<1> QED BY <1>1, <1>5 DEF HasBytes

\* What is written is in pages of the loader's.
LEMMA PagesHold ==
  ASSUME LoaderSensible, LoaderTyped, InOwnPages, NEW p \in ProgramHeader, NEW to \in Int,
         NEW a \in Int, NEW n \in Int, a <= to, to + p.size <= a + n,
         lMem' = Loader!Over(lMem, Loader!Copied(p, to)),
              lOwn \cup Loader!PagesOf(a, n) \subseteq lOwn'
  PROVE  InOwnPages'
<1>1. DOMAIN lMem' = DOMAIN lMem \cup (to..to + p.size - 1)
  BY OverBoth
<1>2. ASSUME NEW x \in to..to + p.size - 1 PROVE x \div Page \in Loader!PagesOf(a, n)
  <2>1. p.size \in Nat BY DEF ProgramHeader
  <2>2. x - a \in 0..n - 1 /\ a + (x - a) = x BY <2>1
  <2> QED BY <2>2 DEF Loader!PagesOf
<1> QED BY <1>1, <1>2 DEF InOwnPages

-----------------------------------------------------------------------------
\* A step that leaves the file, its place and the memory alone, with what is known of it.
LEMMA SameImage ==
  ASSUME UNCHANGED <<lImage, lLow, lHigh, lMem, lResult>>
  PROVE  /\ ProgramHeaders' = ProgramHeaders /\ ImageShift' = ImageShift
         /\ \A k \in ProgramHeaders : StandsAlone(k)' = StandsAlone(k) /\ HasBytes(k)' = HasBytes(k)
BY DEF ProgramHeaders, ImageShift, StandsAlone, HasBytes

\* The header of the file is accepted or not.
LEMMA MakeCtxKeeps == ASSUME LoaderSensible, LoaderInv, Loader!MakeCtx PROVE LoaderInv'
<1>1. /\ UNCHANGED <<lImage, lI, lLow, lHigh, lEntryOk, lTaken, lOwn, lMem, lResult>>
      /\ lAt = "header" /\ lAt' \in {"segments", "failed"}
  BY DEF Loader!MakeCtx
<1>2. LoaderTyped' /\ InOwnPages' BY <1>1 DEF LoaderInv, LoaderTyped, InOwnPages
<1>3. lI = 1 /\ lImage' = lImage BY <1>1 DEF LoaderInv, LoaderTyped
<1>4. lAt' # "failed" => CheckedHeaders' = {} /\ WrittenHeaders' = {}
  <2>1. lI' = 1 BY <1>1, <1>3
  <2> QED BY <2>1, <1>1 DEF CheckedHeaders, WrittenHeaders, ProgramHeaders
<1>5. EntryFound' BY <1>1 DEF LoaderInv, EntryFound, ProgramHeaders
<1>6. ImagePlaced' /\ StackBehind' BY <1>1 DEF ImagePlaced, StackBehind
<1> QED BY <1>2, <1>4, <1>5, <1>6 DEF LoaderInv

\* All segments are in memory: the stack is put behind them, if the entry point was found.
LEMMA TryLoadKeeps == ASSUME LoaderSensible, LoaderInv, Loader!TryLoad PROVE LoaderInv'
<1>1. /\ UNCHANGED <<lImage, lI, lLow, lHigh, lEntryOk, lTaken, lOwn, lMem>>
      /\ lAt \in {"done", "copy"} /\ (lAt = "copy" => lI > Len(lImage.ph))
      /\ lAt' = IF lEntryOk THEN "loaded" ELSE "failed"
      /\ lResult' = IF lEntryOk THEN Loader!Stack(lResult) ELSE lResult
  BY DEF Loader!TryLoad
<1>2. PICK b \in Nat, z \in Int : b = lResult.base /\ z = lResult.size
  BY DEF LoaderInv, LoaderTyped, LoadResults
<1>3. Loader!Up(b + z + 1) \in Int /\ Loader!Up(b + z + 1 + 2 * Page) \in Int
      /\ b + z < Loader!Up(b + z + 1)
      /\ Loader!Up(b + z + 1) < Loader!Up(b + z + 1 + 2 * Page)
  <2>1. b + z + 1 \in Int /\ b + z + 1 + 2 * Page \in Int
        /\ b + z + 1 + Page <= b + z + 1 + 2 * Page
    BY DEF LoaderSensible
  <2>2. Loader!Up(b + z + 1) \in Int /\ b + z + 1 <= Loader!Up(b + z + 1) BY <2>1, Rounded
  <2>3. Loader!Up(b + z + 1 + 2 * Page) \in Int BY <2>1, Rounded
  <2>4. Loader!Up(b + z + 1) < Loader!Up(b + z + 1 + 2 * Page) BY <2>1, RoundedGrows
  <2> QED BY <2>2, <2>3, <2>4
<1>4. /\ lResult' \in LoadResults /\ lResult'.base = lResult.base /\ lResult'.size = lResult.size
      /\ lResult'.entry = lResult.entry
      /\ lEntryOk = TRUE => /\ lResult'.stackBase = Loader!Up(b + z + 1)
                           /\ lResult'.stackTop = Loader!Up(b + z + 1 + 2 * Page)
  BY <1>1, <1>2, <1>3 DEF LoaderInv, LoaderTyped, LoadResults, Loader!Stack
<1>5. ProgramHeaders' = ProgramHeaders /\ ImageShift' = ImageShift BY <1>1,
      <1>4 DEF ProgramHeaders, ImageShift
<1>6. \A k \in ProgramHeaders : StandsAlone(k)' = StandsAlone(k) /\ HasBytes(k)' = HasBytes(k)
  BY <1>1, <1>5 DEF StandsAlone, HasBytes
<1>7. LoaderTyped' /\ InOwnPages' BY <1>1, <1>4 DEF LoaderInv, LoaderTyped, InOwnPages
<1>8. lAt' # "failed" => \A k \in ProgramHeaders : StandsAlone(k)' /\ HasBytes(k)'
  <2>1. CheckedHeaders = ProgramHeaders BY <1>1 DEF CheckedHeaders
  <2>2. WrittenHeaders = ProgramHeaders
    <3>1. CASE lAt = "done" BY <3>1 DEF WrittenHeaders
    <3>2. CASE lAt = "copy"
      <4>1. ProgramHeaders \subseteq 1..lI - 1 BY <3>2, <1>1 DEF ProgramHeaders, LoaderInv,
            LoaderTyped
      <4> QED BY <4>1, <3>2 DEF WrittenHeaders
    <3> QED BY <3>1, <3>2, <1>1
  <2> QED BY <2>1, <2>2, <1>1, <1>6 DEF LoaderInv
<1>9. /\ lAt' # "failed" => \A k \in CheckedHeaders' : StandsAlone(k)'
      /\ lAt' # "failed" => \A k \in WrittenHeaders' : HasBytes(k)'
  BY <1>8, <1>5, <1>1 DEF CheckedHeaders, WrittenHeaders
<1>10. EntryFound' BY <1>1, <1>5 DEF LoaderInv, EntryFound
<1>11. ImagePlaced' BY <1>1, <1>4, <1>5 DEF LoaderInv, ImagePlaced, Loader!PagesOf
<1>12. StackBehind'
  BY <1>1, <1>2, <1>3, <1>4 DEF StackBehind, LoaderInv, LoaderTyped
<1> QED BY <1>7, <1>9, <1>10, <1>11, <1>12 DEF LoaderInv

\* What is told when the image has its place.
LEMMA ResultSet ==
  ASSUME LoaderTyped, NEW b \in Nat, NEW z \in Int, NEW e \in Int,
         lResult' = [lResult EXCEPT !.base = b, !.size = z, !.entry = e]
  PROVE  lResult' \in LoadResults /\ lResult'.base = b /\ lResult'.size = z /\ lResult'.entry = e
BY DEF LoaderTyped, LoadResults

\* All headers were checked: an image that may lie anywhere is given its pages.
LEMMA PlaceKeeps == ASSUME LoaderSensible, LoaderInv, Loader!Place PROVE LoaderInv'
<1>1. /\ UNCHANGED <<lImage, lLow, lHigh, lEntryOk, lTaken, lMem>>
      /\ lAt = "segments" /\ lI > Len(lImage.ph) /\ ProgramHeaders' = ProgramHeaders
  BY DEF Loader!Place, ProgramHeaders
<1>2. CheckedHeaders = ProgramHeaders
  <2>1. ProgramHeaders \subseteq 1..lI - 1 BY <1>1 DEF ProgramHeaders, LoaderInv, LoaderTyped
  <2> QED BY <2>1, <1>1 DEF CheckedHeaders
<1>3. \A k \in ProgramHeaders : StandsAlone(k)
  BY <1>1, <1>2 DEF LoaderInv
<1>4. \A k \in ProgramHeaders : StandsAlone(k)' = StandsAlone(k) BY <1>1 DEF StandsAlone
<1>5. CheckedHeaders' \subseteq ProgramHeaders BY <1>1 DEF CheckedHeaders
<1>6. EntryFound' BY <1>1 DEF LoaderInv, EntryFound
<1>7. ASSUME lAt' = "failed", UNCHANGED <<lI, lOwn, lResult>> PROVE LoaderInv'
  <2>1. LoaderTyped' /\ InOwnPages' BY <1>1, <1>7 DEF LoaderInv, LoaderTyped, InOwnPages
  <2> QED BY <2>1, <1>6, <1>7 DEF LoaderInv, ImagePlaced, StackBehind
<1>8. ASSUME ~lImage.dyn, lAt' = "done", lI' = 1, UNCHANGED lOwn,
             lResult'
                  = [lResult EXCEPT !.base = lLow, !.size = lHigh - lLow, !.entry = lImage.entry]
      PROVE  LoaderInv'
  <2>1. lResult' \in LoadResults /\ lResult'.base = lLow /\ lResult'.size = lHigh - lLow
        /\ lResult'.entry = lImage.entry
    <3>1. lLow \in Nat /\ lHigh - lLow \in Int /\ lImage.entry \in Int /\ lResult \in LoadResults
      BY DEF LoaderInv, LoaderTyped
    <3> QED BY <3>1, <1>8, ResultSet DEF LoaderInv
  <2>2. ImageShift' = 0 /\ ImageShift = 0 BY <1>8, <1>1 DEF ImageShift
  <2>3. LoaderTyped' /\ InOwnPages' BY <1>1, <1>8, <2>1 DEF LoaderInv, LoaderTyped, InOwnPages
  <2>4. WrittenHeaders = ProgramHeaders /\ WrittenHeaders' = ProgramHeaders
    <3>1. ProgramHeaders \subseteq 1..lI - 1 BY <1>1 DEF ProgramHeaders, LoaderInv, LoaderTyped
    <3> QED BY <3>1, <1>1, <1>8 DEF WrittenHeaders
  <2>5. \A k \in ProgramHeaders : HasBytes(k)
    BY <2>4, <1>1 DEF LoaderInv
  <2>6. \A k \in ProgramHeaders : HasBytes(k)' BY <2>5, <2>2, <1>1 DEF HasBytes
  <2>7. ImagePlaced' BY <2>1, <2>2, <1>1, <1>8 DEF ImagePlaced, LoaderInv, LoaderTyped
  <2> QED BY <2>3, <2>4, <2>6, <2>7, <1>3, <1>4, <1>5, <1>6, <1>8 DEF LoaderInv, StackBehind
<1>9. ASSUME lImage.dyn, NEW base \in 0..TopAddress - 1,
      lOwn' = lOwn \cup Loader!PagesOf(base, lHigh - lLow),
             lResult' = [lResult EXCEPT !.base = base, !.size = lHigh - lLow,
                                        !.entry = base + (lImage.entry - lLow)],
             lAt' = "copy", lI' = 1
      PROVE  LoaderInv'
  <2>1. lResult' \in LoadResults /\ lResult'.base = base /\ lResult'.size = lHigh - lLow
        /\ lResult'.entry = base + (lImage.entry - lLow)
    <3>1. base \in Nat /\ lHigh - lLow \in Int /\ base + (lImage.entry - lLow) \in Int
          /\ lResult \in LoadResults
      BY DEF LoaderInv, LoaderTyped, LoaderSensible
    <3> QED BY <3>1, <1>9, ResultSet DEF LoaderInv
  <2>2. ImageShift' = base - lLow BY <1>1, <1>9, <2>1 DEF ImageShift
  <2>3. LoaderTyped' /\ InOwnPages' BY <1>1, <1>9, <2>1 DEF LoaderInv, LoaderTyped, InOwnPages
  <2>4. WrittenHeaders' = {} BY <1>9 DEF WrittenHeaders
  <2>5. ImagePlaced' BY <2>1, <2>2, <1>1, <1>9 DEF ImagePlaced, LoaderInv, LoaderTyped,
        Loader!PagesOf
  <2> QED BY <2>3, <2>4, <2>5, <1>3, <1>4, <1>5, <1>6, <1>9 DEF LoaderInv, StackBehind
<1> QED BY <1>1, <1>7, <1>8, <1>9 DEF Loader!Place, Loader!Fail

\* A segment of such an image is copied.
LEMMA CopyKeeps == ASSUME LoaderSensible, LoaderInv, Loader!Copy PROVE LoaderInv'
<1>1. /\ UNCHANGED <<lImage, lAt, lLow, lHigh, lTaken, lOwn, lResult>> /\ lI' = lI + 1
      /\ lAt = "copy" /\ lI \in ProgramHeaders /\ ProgramHeaders' = ProgramHeaders
  BY DEF Loader!Copy, ProgramHeaders, LoaderInv, LoaderTyped
<1>2. /\ ImageShift' = ImageShift /\ ImageShift = lResult.base - lLow /\ lImage.dyn = TRUE
      /\ ImageShift \in Int
      /\ lResult.entry = lImage.entry + ImageShift
      /\ Loader!PagesOf(lResult.base, lHigh - lLow) \subseteq lOwn
  BY <1>1 DEF ImageShift, LoaderInv, LoaderTyped, ImagePlaced, LoadResults
<1>3. PICK p \in ProgramHeader, n \in ProgramHeaders : n = lI /\ p = lImage.ph[n]
  BY <1>1 DEF LoaderInv, LoaderTyped, ProgramHeaders
<1>4. \A k \in ProgramHeaders : StandsAlone(k) /\ StandsAlone(k)'
  BY <1>1 DEF LoaderInv, CheckedHeaders, StandsAlone
<1>5. CheckedHeaders' = ProgramHeaders /\ WrittenHeaders' = WrittenHeaders \cup {n}
      /\ n \notin WrittenHeaders
      /\ WrittenHeaders \subseteq ProgramHeaders
  BY <1>1, <1>3 DEF CheckedHeaders, WrittenHeaders, LoaderInv, LoaderTyped
<1>6. ImagePlaced' BY <1>1, <1>2 DEF LoaderInv, ImagePlaced, Loader!PagesOf
<1>7. StackBehind' BY <1>1 DEF StackBehind
<1>8. ASSUME ~Loader!Loaded(Loader!Ph), UNCHANGED <<lMem, lEntryOk>> PROVE LoaderInv'
  <2>1. LoaderTyped' /\ InOwnPages' BY <1>1, <1>8 DEF LoaderInv, LoaderTyped, InOwnPages
  <2>2. \A k \in WrittenHeaders' : HasBytes(k)'
    <3>1. \A k \in WrittenHeaders : HasBytes(k)' BY <1>1, <1>2, <1>8 DEF LoaderInv, HasBytes
    <3>2. HasBytes(n)' BY <1>1, <1>3, <1>8 DEF HasBytes, Loader!Ph
    <3> QED BY <3>1, <3>2, <1>5
  <2>3. EntryFound' BY <1>1, <1>8 DEF LoaderInv, EntryFound
  <2> QED BY <2>1, <2>2, <2>3, <1>4, <1>5, <1>6, <1>7 DEF LoaderInv
<1>9. ASSUME Loader!Loaded(Loader!Ph),
      lMem' = Loader!Over(lMem, Loader!Copied(Loader!Ph, Loader!Moved(Loader!Ph))),
             lEntryOk'
               = (lEntryOk \/ Loader!HoldsEntry(Loader!Ph, Loader!Moved(Loader!Ph), lResult.entry))
      PROVE  LoaderInv'
  <2>1. p.addr \in Nat /\ p.size \in Nat BY DEF ProgramHeader
  <2>2. Loader!Moved(Loader!Ph) = p.addr + ImageShift
    <3>1. lResult.base \in Int /\ lLow \in Int BY DEF LoaderInv, LoaderTyped, LoadResults
    <3>2. Loader!Moved(Loader!Ph) = lResult.base + (p.addr - lLow) BY <1>3 DEF Loader!Moved,
          Loader!Ph
    <3> QED BY <3>1, <3>2, <2>1, <1>2
  <2>3. lMem' = Loader!Over(lMem, Loader!Copied(lImage.ph[n], lImage.ph[n].addr + ImageShift))
    BY <1>9, <1>3, <2>2 DEF Loader!Ph
  <2>4. lLow <= p.addr /\ p.addr + p.size <= lHigh
    BY <1>4, <1>9, <1>1, <1>3 DEF StandsAlone, Loader!Ph
  <2>5. InOwnPages'
    <3>1. PICK to \in Int : to = p.addr + ImageShift BY <2>1, <1>2
    <3>2. lResult.base \in Int /\ lLow \in Int /\ lHigh \in Int
      BY DEF LoaderInv, LoaderTyped, LoadResults
    <3>5. /\ lHigh - lLow \in Int /\ lResult.base <= to
          /\ to + p.size <= lResult.base + (lHigh - lLow)
      BY <3>1, <3>2, <2>1, <2>4, <1>2
    <3>3. lMem' = Loader!Over(lMem, Loader!Copied(p, to)) BY <2>3, <3>1, <1>3
    <3>4. lOwn \cup Loader!PagesOf(lResult.base, lHigh - lLow) \subseteq lOwn' BY <1>1, <1>2
    <3> QED BY <3>2, <3>3, <3>4, <3>5, PagesHold DEF LoaderInv
  <2>6. lMem' = [a \in DOMAIN lMem' |-> lMem'[a]]
    <3>1. PICK to \in Int : to = p.addr + ImageShift BY <2>1, <1>2
    <3>2. lMem' = Loader!Over(lMem, Loader!Copied(p, to)) BY <2>3, <3>1, <1>3
    <3> QED BY <3>2, OverBoth DEF LoaderInv
  <2>7. lEntryOk' \in BOOLEAN BY <1>9
  <2>8. LoaderTyped' BY <2>6, <2>7, <1>1 DEF LoaderInv, LoaderTyped
  <2>9. \A k \in WrittenHeaders' : HasBytes(k)'
    <3>1. ASSUME NEW k \in WrittenHeaders PROVE HasBytes(k)'
      <4>1. k \in ProgramHeaders /\ k # n /\ HasBytes(k) BY <1>5, <1>1 DEF LoaderInv
      <4>2. Loader!Loaded(lImage.ph[k]) => ~Loader!Overlap(lImage.ph[n], lImage.ph[k])
        BY <1>4, <1>3, <4>1, <1>9 DEF StandsAlone, Loader!Ph
      <4> QED BY <4>1, <4>2, <2>3, <1>1, <1>2, BytesKept DEF LoaderInv
    <3>2. HasBytes(n)' BY <2>3, <1>1, <1>2, BytesWritten DEF LoaderInv
    <3> QED BY <3>1, <3>2, <1>5
  <2>10. EntryFound'
    <3>1. CASE lEntryOk BY <3>1, <1>1 DEF LoaderInv, EntryFound
    <3>2. CASE Loader!HoldsEntry(Loader!Ph, Loader!Moved(Loader!Ph), lResult.entry)
      <4>1. p.exec /\ lImage.entry \in p.addr..p.addr + p.size - 1
        <5>1. p.exec /\ lResult.entry \in p.addr + ImageShift..p.addr + ImageShift + p.size - 1
          BY <3>2, <2>2, <1>3 DEF Loader!HoldsEntry, Loader!Ph
        <5>2. lImage.entry \in Int BY DEF LoaderInv, LoaderTyped
        <5> QED BY <5>1, <5>2, <2>1, <1>2
      <4> QED BY <4>1, <1>1, <1>3, <1>9 DEF EntryFound, Loader!Ph
    <3> QED BY <3>1, <3>2, <1>9 DEF EntryFound
  <2> QED BY <2>5, <2>8, <2>9, <2>10, <1>4, <1>5, <1>6, <1>7 DEF LoaderInv
<1> QED BY <1>8, <1>9 DEF Loader!Copy

\* A checked header: what was checked before stays so with the new bounds.
LEMMA CheckedWith ==
  ASSUME LoaderSensible, LoaderInv, lAt = "segments", lI \in ProgramHeaders,
         Loader!Loaded(Loader!Ph), Loader!Acceptable,
         lImage' = lImage,
         lLow' = IF Loader!Down(Loader!Ph.addr) < lLow THEN Loader!Down(Loader!Ph.addr) ELSE lLow,
         lHigh' = IF Loader!Up(Loader!Ph.addr + Loader!Ph.size) > lHigh
              THEN Loader!Up(Loader!Ph.addr + Loader!Ph.size) ELSE lHigh,
         NEW k \in ProgramHeaders \cap (1..lI)
  PROVE  StandsAlone(k)' /\ lLow' \in Nat /\ lHigh' \in Nat
<1>1. PICK p \in ProgramHeader : p = Loader!Ph BY DEF LoaderInv, LoaderTyped, ProgramHeaders,
      Loader!Ph
<1>2. p.addr \in Nat /\ p.size \in Nat /\ p.addr + p.size \in Nat BY DEF ProgramHeader
<1>3. /\ Loader!Down(p.addr) \in Nat /\ Loader!Down(p.addr) <= p.addr
      /\ Loader!Up(p.addr + p.size) \in Nat /\ p.addr + p.size <= Loader!Up(p.addr + p.size)
  BY <1>2, Rounded, RoundedNat
<1>4. /\ lLow' \in Nat /\ lHigh' \in Nat /\ lLow' <= lLow /\ lHigh <= lHigh'
      /\ lLow' <= p.addr /\ p.addr + p.size <= lHigh'
  <2>1. lLow \in Nat /\ lHigh \in Nat BY DEF LoaderInv, LoaderTyped
  <2>2. /\ lLow' = IF Loader!Down(p.addr) < lLow THEN Loader!Down(p.addr) ELSE lLow
        /\ lHigh' = IF Loader!Up(p.addr + p.size) > lHigh THEN Loader!Up(p.addr + p.size) ELSE lHigh
    BY <1>1
  <2>3. lLow' \in Nat /\ lLow' <= lLow /\ lLow' <= p.addr BY <2>1, <2>2, <1>2, <1>3
  <2>4. lHigh' \in Nat /\ lHigh <= lHigh' /\ p.addr + p.size <= lHigh' BY <2>1, <2>2, <1>2, <1>3
  <2> QED BY <2>3, <2>4
<1>5. PICK q \in ProgramHeader : q = lImage.ph[k] BY DEF LoaderInv, LoaderTyped, ProgramHeaders
<1>6. ProgramHeaders' = ProgramHeaders BY DEF ProgramHeaders
<1>7. CASE k = lI
  <2>1. q = p /\ Loader!Loaded(q) BY <1>1, <1>5, <1>7 DEF Loader!Ph
  <2>2. \A j
        \in ProgramHeaders \ {k} : Loader!Loaded(lImage.ph[j]) => ~Loader!Overlap(q, lImage.ph[j])
    BY <1>1, <1>7, <2>1 DEF Loader!Acceptable, ProgramHeaders
  <2> QED BY <2>1, <2>2, <1>4, <1>5, <1>6 DEF StandsAlone
<1>8. CASE k # lI
  <2>1. k \in CheckedHeaders BY <1>8 DEF CheckedHeaders, LoaderInv, LoaderTyped
  <2>2. StandsAlone(k) BY <2>1 DEF LoaderInv
  <2>3. Loader!Loaded(q) => lLow' <= q.addr /\ q.addr + q.size <= lHigh'
    <3>1. ASSUME Loader!Loaded(q) PROVE lLow <= q.addr /\ q.addr + q.size <= lHigh
      BY <3>1, <2>2, <1>5 DEF StandsAlone
    <3>2. q.addr \in Nat /\ q.size \in Nat /\ lLow \in Nat /\ lHigh \in Nat
      BY DEF ProgramHeader, LoaderInv, LoaderTyped
    <3> QED BY <3>1, <3>2, <1>4
  <2> QED BY <2>2, <2>3, <1>4, <1>5, <1>6 DEF StandsAlone
<1> QED BY <1>7, <1>8

\* A header is checked, and its segment copied at once if the image has fixed addresses.
LEMMA SegmentKeeps == ASSUME LoaderSensible, LoaderInv, Loader!Segment PROVE LoaderInv'
<1>1. /\ UNCHANGED <<lImage, lTaken, lResult>> /\ lAt = "segments" /\ lI \in ProgramHeaders
      /\ ProgramHeaders' = ProgramHeaders
  BY DEF Loader!Segment, ProgramHeaders, LoaderInv, LoaderTyped
<1>2. PICK p \in ProgramHeader, n \in ProgramHeaders : n = lI /\ p = lImage.ph[n] /\ p = Loader!Ph
  BY <1>1 DEF LoaderInv, LoaderTyped, ProgramHeaders, Loader!Ph
<1>3. p.addr \in Nat /\ p.size \in Nat BY DEF ProgramHeader
<1>4. CheckedHeaders = ProgramHeaders \cap (1..lI - 1)
      /\ WrittenHeaders = IF lImage.dyn THEN {} ELSE ProgramHeaders \cap (1..lI - 1)
  BY <1>1 DEF CheckedHeaders, WrittenHeaders, LoaderInv, LoaderTyped
<1>5. lI' = lI + 1 /\ lAt' = lAt =>
         /\ CheckedHeaders' = ProgramHeaders \cap (1..lI)
         /\ ProgramHeaders \cap (1..lI) = CheckedHeaders \cup {n}
         /\ WrittenHeaders' = (IF lImage.dyn THEN {} ELSE WrittenHeaders \cup {n})
              /\ n \notin WrittenHeaders
         /\ WrittenHeaders \subseteq ProgramHeaders
  <2>1. lI \in Nat /\ ProgramHeaders \subseteq Nat /\ n = lI /\ lImage' = lImage /\ lAt = "segments"
    BY <1>1, <1>2 DEF ProgramHeaders, LoaderInv, LoaderTyped
  <2>2. ASSUME lI' = lI + 1, lAt' = lAt
        PROVE  /\ CheckedHeaders' = ProgramHeaders \cap (1..lI)
               /\ WrittenHeaders' = IF lImage.dyn THEN {} ELSE ProgramHeaders \cap (1..lI)
    <3>1. lI' - 1 = lI BY <2>1, <2>2
    <3>2. CheckedHeaders' = ProgramHeaders' \cap (1..lI' - 1) BY <2>1, <2>2 DEF CheckedHeaders
    <3>3. WrittenHeaders' = IF lImage.dyn THEN {} ELSE ProgramHeaders' \cap (1..lI' - 1)
      BY <2>1, <2>2 DEF WrittenHeaders
    <3> QED BY <3>1, <3>2, <3>3, <1>1
  <2>3. ProgramHeaders \cap (1..lI) = (ProgramHeaders \cap (1..lI - 1)) \cup {n}
        /\ n \notin 1..lI - 1
    <3>1. n \in ProgramHeaders /\ n \in 1..lI BY <2>1, <1>2 DEF ProgramHeaders
    <3>2. n \notin 1..lI - 1 BY <2>1
    <3>3. \A k \in ProgramHeaders : k \in 1..lI <=> k \in 1..lI - 1 \/ k = n
      <4> TAKE k \in ProgramHeaders
      <4>1. k \in Nat /\ k >= 1 BY DEF ProgramHeaders
      <4> QED BY <4>1, <2>1
    <3> QED BY <3>1, <3>2, <3>3, Zenon
  <2> QED BY <2>2, <2>3, <1>4
<1>6. lAt' = "failed" \/ lAt' = lAt => ImagePlaced' /\ StackBehind'
  BY <1>1 DEF ImagePlaced, StackBehind
<1>7. CASE ~Loader!Loaded(Loader!Ph)
  <2>1. lI' = lI + 1
        /\ UNCHANGED <<lAt, lLow, lHigh, lEntryOk, lOwn, lMem>> BY <1>7 DEF Loader!Segment
  <2>2. LoaderTyped' /\ InOwnPages'
    BY <1>1, <2>1 DEF LoaderInv, LoaderTyped, InOwnPages
  <2>3. \A k \in ProgramHeaders : StandsAlone(k)' = StandsAlone(k) /\ HasBytes(k)' = HasBytes(k)
    BY <1>1, <2>1, SameImage
  <2>4. StandsAlone(n) /\ HasBytes(n) BY <1>2, <1>7 DEF StandsAlone, HasBytes, Loader!Ph
  <2>5. (\A k \in CheckedHeaders' : StandsAlone(k)') /\ (\A k \in WrittenHeaders' : HasBytes(k)')
    BY <2>1, <2>3, <2>4, <1>1, <1>5 DEF LoaderInv, CheckedHeaders
  <2>6. EntryFound' BY <1>1, <2>1 DEF LoaderInv, EntryFound
  <2> QED BY <2>1, <2>2, <2>5, <2>6, <1>6 DEF LoaderInv
<1>8. CASE Loader!Loaded(Loader!Ph) /\ ~Loader!Acceptable
  <2>1. lAt' = "failed" /\ UNCHANGED <<lI, lLow, lHigh, lEntryOk, lOwn, lMem>>
    BY <1>8 DEF Loader!Segment, Loader!Fail
  <2>2. LoaderTyped' /\ InOwnPages'
    BY <1>1, <2>1 DEF LoaderInv, LoaderTyped, InOwnPages
  <2>3. EntryFound' BY <1>1, <2>1 DEF LoaderInv, EntryFound
  <2> QED BY <2>1, <2>2, <2>3, <1>6 DEF LoaderInv
<1>9. CASE Loader!Loaded(Loader!Ph) /\ Loader!Acceptable
  <2>1. /\ lLow' = IF Loader!Down(Loader!Ph.addr) < lLow THEN Loader!Down(Loader!Ph.addr) ELSE lLow
        /\ lHigh' = IF Loader!Up(Loader!Ph.addr + Loader!Ph.size) > lHigh
             THEN Loader!Up(Loader!Ph.addr + Loader!Ph.size) ELSE lHigh
        /\ lEntryOk' = (lEntryOk \/ Loader!HoldsEntry(Loader!Ph, Loader!Ph.addr, lImage.entry))
    BY <1>9 DEF Loader!Segment
  <2>2. \A k \in ProgramHeaders \cap (1..lI) : StandsAlone(k)' /\ lLow' \in Nat /\ lHigh' \in Nat
    BY <2>1, <1>1, <1>9, CheckedWith
  <2>3. lLow' \in Nat /\ lHigh' \in Nat
    <3>1. n \in ProgramHeaders \cap (1..lI) BY <1>1, <1>2 DEF LoaderInv, LoaderTyped
    <3> QED BY <3>1, <2>2
  <2>4. EntryFound'
    <3>1. CASE lEntryOk BY <3>1, <1>1 DEF LoaderInv, EntryFound
    <3>2. CASE Loader!HoldsEntry(Loader!Ph, Loader!Ph.addr, lImage.entry)
      BY <3>2, <1>1, <1>2, <1>9 DEF Loader!HoldsEntry, EntryFound
    <3> QED BY <3>1, <3>2, <2>1 DEF EntryFound
  <2>5. lEntryOk' \in BOOLEAN BY <2>1
  <2>6. ASSUME lImage.dyn, lI' = lI + 1, UNCHANGED <<lAt, lOwn, lMem>> PROVE LoaderInv'
    <3>1. LoaderTyped' /\ InOwnPages'
      BY <1>1, <2>3, <2>5, <2>6 DEF LoaderInv, LoaderTyped, InOwnPages
    <3>2. WrittenHeaders' = {} BY <2>6, <1>5
    <3>3. \A k \in CheckedHeaders' : StandsAlone(k)' BY <2>2, <2>6, <1>5
    <3> QED BY <3>1, <3>2, <3>3, <2>4, <2>6, <1>6 DEF LoaderInv
  <2>7. ASSUME ~lImage.dyn, lOwn' = lOwn
        \cup Loader!PagesOf(Loader!Ph.addr, Loader!Up(Loader!Ph.size)),
               lMem' = Loader!Over(lMem, Loader!Copied(Loader!Ph, Loader!Ph.addr)), lI' = lI + 1,
                    lAt' = lAt
        PROVE  LoaderInv'
    <3>1. ImageShift = 0 /\ ImageShift' = 0 BY <1>1, <2>7 DEF ImageShift
    <3>2. lMem' = Loader!Over(lMem, Loader!Copied(p, p.addr)) /\ p.addr + ImageShift = p.addr
      BY <3>1, <1>2, <1>3, <2>7
    <3>3. lMem' = Loader!Over(lMem, Loader!Copied(lImage.ph[n], lImage.ph[n].addr + ImageShift))
      BY <3>2, <1>2
    <3>4. lMem' = [a \in DOMAIN lMem' |-> lMem'[a]]
      <4>1. PICK to \in Int : to = p.addr BY <1>3
      <4>2. lMem' = Loader!Over(lMem, Loader!Copied(p, to)) BY <4>1, <3>2
      <4> QED BY <4>2, OverBoth DEF LoaderInv
    <3>5. InOwnPages'
      <4>1. Loader!Up(p.size) \in Int /\ p.size <= Loader!Up(p.size) BY <1>3, Rounded
      <4>2. lOwn \cup Loader!PagesOf(p.addr, Loader!Up(p.size)) \subseteq lOwn' BY <2>7, <1>2
      <4>3. p.addr \in Int /\ p.addr <= p.addr /\ p.addr + p.size <= p.addr + Loader!Up(p.size)
        BY <4>1, <1>3
      <4> QED BY <4>1, <4>2, <4>3, <3>2, PagesHold DEF LoaderInv
    <3>6. LoaderTyped' BY <1>1, <2>3, <2>5, <2>7, <3>4 DEF LoaderInv, LoaderTyped
    <3>7. \A k \in WrittenHeaders' : HasBytes(k)'
      <4>1. ASSUME NEW k \in WrittenHeaders PROVE HasBytes(k)'
        <5>1. k \in ProgramHeaders /\ k # n /\ HasBytes(k) BY <1>5, <1>1, <2>7 DEF LoaderInv
        <5>2. Loader!Loaded(lImage.ph[k]) => ~Loader!Overlap(lImage.ph[n], lImage.ph[k])
          BY <5>1, <1>2, <1>9 DEF Loader!Acceptable, ProgramHeaders, Loader!Ph
        <5> QED BY <5>1, <5>2, <3>1, <3>3, <1>1, BytesKept DEF LoaderInv
      <4>2. HasBytes(n)' BY <3>1, <3>3, <1>1, BytesWritten DEF LoaderInv
      <4> QED BY <4>1, <4>2, <1>5, <2>7
    <3>8. \A k \in CheckedHeaders' : StandsAlone(k)' BY <2>2, <2>7, <1>5
    <3> QED BY <3>5, <3>6, <3>7, <3>8, <2>4, <2>7, <1>6 DEF LoaderInv
  <2>8. ASSUME lAt' = "failed", UNCHANGED <<lI, lOwn, lMem>> PROVE LoaderInv'
    <3>1. LoaderTyped' /\ InOwnPages'
      BY <1>1, <2>3, <2>5, <2>8 DEF LoaderInv, LoaderTyped, InOwnPages
    <3> QED BY <3>1, <2>4, <2>8, <1>6 DEF LoaderInv
  <2> QED BY <2>6, <2>7, <2>8, <1>9 DEF Loader!Segment, Loader!Fail
<1> QED BY <1>7, <1>8, <1>9

\* Every step keeps the invariant.
LEMMA LoaderStep == LoaderSensible /\ LoaderInv /\ [Loader!Next]_(Loader!elfVars) => LoaderInv'
<1> SUFFICES ASSUME LoaderSensible, LoaderInv, [Loader!Next]_(Loader!elfVars) PROVE LoaderInv'
  OBVIOUS
<1>1. CASE UNCHANGED Loader!elfVars
  <2>1. UNCHANGED <<lImage, lAt, lI, lLow, lHigh, lEntryOk, lTaken, lOwn, lMem, lResult>>
    BY <1>1 DEF Loader!elfVars
  <2>2. /\ ProgramHeaders' = ProgramHeaders /\ ImageShift' = ImageShift
        /\ \A k \in ProgramHeaders : StandsAlone(k)' = StandsAlone(k) /\ HasBytes(k)' = HasBytes(k)
    BY <2>1, SameImage
  <2>3. CheckedHeaders' = CheckedHeaders /\ WrittenHeaders' = WrittenHeaders BY <2>1,
        <2>2 DEF CheckedHeaders, WrittenHeaders
  <2>4. LoaderTyped' /\ InOwnPages' BY <2>1 DEF LoaderInv, LoaderTyped, InOwnPages
  <2>5. EntryFound' /\ ImagePlaced' /\ StackBehind'
    BY <2>1, <2>2 DEF LoaderInv, EntryFound, ImagePlaced, StackBehind, Loader!PagesOf
  <2>6. CheckedHeaders \subseteq ProgramHeaders /\ WrittenHeaders
        \subseteq ProgramHeaders BY DEF CheckedHeaders, WrittenHeaders
  <2> QED BY <2>1, <2>2, <2>3, <2>4, <2>5, <2>6 DEF LoaderInv
<1> QED BY <1>1, MakeCtxKeeps, SegmentKeeps, PlaceKeeps, CopyKeeps, TryLoadKeeps
        DEF Loader!Next, Loader!Load64, Loader!Load32, Loader!Load

\* The invariant says that the image is whole.
LEMMA LoaderInvWhole == LoaderSensible /\ LoaderInv => Loader!ImageWhole
<1> SUFFICES ASSUME LoaderSensible, LoaderInv PROVE Loader!ImageWhole
  OBVIOUS
<1>1. \A a \in DOMAIN lMem : a \div Page \in lOwn BY DEF LoaderInv, InOwnPages
<1>2. ASSUME lAt = "loaded"
      PROVE  /\ \A p \in Loader!Image : Loader!InMemory(p)
             /\ \E p \in Loader!Image : /\ p.exec /\ lImage.entry \in p.addr..p.addr + p.size - 1
                                        /\ lResult.entry - lImage.entry = lResult.base - lLow
             /\ lResult.base + lResult.size < lResult.stackBase
             /\ lResult.stackBase < lResult.stackTop
  <2>1. /\ lResult.entry = lImage.entry + ImageShift /\ (lImage.dyn = FALSE => lResult.base = lLow)
        /\ lEntryOk = TRUE /\ lResult.base + lResult.size < lResult.stackBase
        /\ lResult.stackBase < lResult.stackTop
    BY <1>2 DEF LoaderInv, ImagePlaced, StackBehind
  <2>2. /\ lResult.base \in Int /\ lLow \in Int /\ lImage.entry \in Int /\ lImage.dyn \in BOOLEAN
    BY DEF LoaderInv, LoaderTyped, LoadResults
  <2>3. ImageShift = lResult.base - lLow BY <2>1, <2>2 DEF ImageShift
  <2>4. \A k \in ProgramHeaders : HasBytes(k) BY <1>2 DEF LoaderInv, WrittenHeaders
  <2>5. ASSUME NEW p \in Loader!Image PROVE Loader!InMemory(p)
    <3>1. PICK k \in ProgramHeaders : p = lImage.ph[k] /\ Loader!Loaded(p) BY DEF Loader!Image,
          ProgramHeaders
    <3>2. p \in ProgramHeader BY <3>1 DEF ProgramHeaders, LoaderInv, LoaderTyped
    <3> QED BY <3>1, <2>3, <2>4 DEF Loader!InMemory, HasBytes
  <2>6. PICK k \in ProgramHeaders :
          /\ Loader!Loaded(lImage.ph[k]) /\ lImage.ph[k].exec
          /\ lImage.entry \in lImage.ph[k].addr..lImage.ph[k].addr + lImage.ph[k].size - 1
    BY <2>1 DEF LoaderInv, EntryFound
  <2>7. lImage.ph[k] \in Loader!Image BY <2>6 DEF Loader!Image, ProgramHeaders
  <2>8. lResult.entry - lImage.entry = lResult.base - lLow BY <2>1, <2>2, <2>3
  <2> QED BY <2>1, <2>5, <2>6, <2>7, <2>8
<1> QED BY <1>1, <1>2 DEF Loader!ImageWhole

\* An image that is started has every segment at its address, in pages of its own, its entry
\* inside and its stack behind (ImageWhole).
THEOREM ImageIsWhole == LoaderSensible => (LoaderSpec => []Loader!ImageWhole)
<1> SUFFICES ASSUME LoaderSensible PROVE LoaderSpec => []Loader!ImageWhole
  OBVIOUS
<1>1. Loader!Init => LoaderInv BY LoaderBegins
<1>2. LoaderInv /\ [Loader!Next]_(Loader!elfVars) => LoaderInv' BY LoaderStep
<1>3. LoaderInv => Loader!ImageWhole BY LoaderInvWhole
<1> QED BY <1>1, <1>2, <1>3, PTL DEF LoaderSpec

-----------------------------------------------------------------------------
(***************************************************************************)
(* The menu of the boot loader (BootMenu), for any number of kernels and   *)
(* of rows. Unless it is to be drawn anew, the screen is what is to be     *)
(* shown for the item that was marked when it was last drawn.              *)
(***************************************************************************)

\* The menu.
MenuSpec == Menu!Init /\ [][Menu!Next]_(Menu!bootMenuVars)

\* There is a row to show an item in.
MenuSensible == ListedKernels \in Nat /\ ViewRows \in Nat \ {0}

\* Row r of the screen when the item is marked, and the whole screen.
RowOf(r, item) ==
  IF mScroll + r < Menu!Items THEN <<Menu!NameOf(mScroll + r), mScroll + r = item>>
       ELSE <<"blank", FALSE>>

MenuDrawnFor(item) == [r \in 0..ViewRows - 1 |-> RowOf(r, item)]

\* The places before the menu.
MenuEarlier == {"start", "mount", "check", "screen", "space"}

\* The marked item is one of the list, and in the rows that are shown.
MarkedInView ==
  /\ mKernels \in Nat /\ mSettings \in {0, mKernels} /\ mScroll \in Nat /\ mOld \in Int
  /\ mSelected \in 0..mKernels + 1 /\ mSelected \in mScroll..mScroll + ViewRows - 1

\* What is on the screen.
ScreenRight ==
  /\ mAt \in MenuEarlier => mSelected = 0 /\ mRedraw = TRUE
  /\ mAt = "key" => mOld = mSelected /\ mScreen = Menu!Full
  /\ mAt \in {"menu", "draw"} => mRedraw = TRUE \/ mScreen = MenuDrawnFor(mOld)

\* What was chosen.
ChosenRight ==
  mAt = "load" /\ ~mChosen.timeout =>
    /\ mChosen.kernel \in 0..mKernels - 1
    /\ \A r \in Menu!Shown : mScreen[r][1] = mChosen.kernel

\* The inductive invariant.
MenuInv == mRedraw \in BOOLEAN /\ MarkedInView /\ ScreenRight /\ ChosenRight

\* Before the menu nothing was chosen.
LEMMA MenuBegins == MenuSensible /\ Menu!Init => MenuInv
<1> SUFFICES ASSUME MenuSensible, Menu!Init PROVE MenuInv
  OBVIOUS
<1>1. MarkedInView BY DEF Menu!Init, MarkedInView, MenuSensible
<1> QED BY <1>1 DEF Menu!Init, MenuInv, ScreenRight, ChosenRight

\* The screen drawn anew is that of the item marked.
LEMMA FullIsDrawn == Menu!Full = MenuDrawnFor(mSelected)
  BY DEF Menu!Full, MenuDrawnFor, Menu!Row, RowOf

\* One row of such a screen is marked: that of the item.
LEMMA MarkedShown ==
  ASSUME MenuSensible, MarkedInView, mScreen = Menu!Full
  PROVE  Menu!Shown = {mSelected - mScroll}
<1>1. \A r \in 0..ViewRows - 1 : mScreen[r] = Menu!Row(r) BY DEF Menu!Full
<1>2. ASSUME NEW r \in 0..ViewRows - 1
      PROVE  mScreen[r][2] <=> mScroll + r < Menu!Items /\ mScroll + r = mSelected
  <2>1. CASE mScroll + r < Menu!Items
    <3>1. mScreen[r] = <<Menu!NameOf(mScroll + r), (mScroll + r = mSelected)>> BY <2>1,
          <1>1 DEF Menu!Row
    <3>2. CASE mScroll + r = mSelected
      <4>1. mScreen[r] = <<Menu!NameOf(mScroll + r), TRUE>> BY <3>1, <3>2, Zenon
      <4> QED BY <4>1, <3>2, <2>1
    <3>3. CASE mScroll + r # mSelected
      <4>1. mScreen[r] = <<Menu!NameOf(mScroll + r), FALSE>> BY <3>1, <3>3, Zenon
      <4> QED BY <4>1, <3>3, <2>1
    <3> QED BY <3>2, <3>3
  <2>2. CASE ~(mScroll + r < Menu!Items)
    <3>1. mScreen[r] = <<"blank", FALSE>> BY <2>2, <1>1 DEF Menu!Row
    <3>2. mScreen[r][2] = FALSE BY <3>1
    <3> QED BY <3>2, <2>2
  <2> QED BY <2>1, <2>2
<1>3. mSelected - mScroll \in 0..ViewRows - 1 /\ mScroll + (mSelected - mScroll) = mSelected
      /\ mSelected < Menu!Items
  BY DEF MarkedInView, Menu!Items, MenuSensible
<1>4. \A r \in 0..ViewRows - 1 : mScroll + r = mSelected => r = mSelected - mScroll
  BY DEF MarkedInView, MenuSensible
<1> QED BY <1>2, <1>3, <1>4 DEF Menu!Shown

\* The steps before the menu.
LEMMA MenuEarly ==
  ASSUME MenuSensible, MenuInv,
         Menu!FindDrive \/ Menu!Mount \/ Menu!SetMode \/ Menu!LoadKernel \/ Menu!Stack
           \/ \E late, flag \in BOOLEAN : Menu!Verify(late, flag)
  PROVE  MenuInv'
<1>1. UNCHANGED <<mKernels, mSettings, mSelected, mOld, mScroll, mRedraw, mScreen, mChosen>>
  BY DEF Menu!FindDrive, Menu!Mount, Menu!SetMode, Menu!LoadKernel, Menu!Stack, Menu!Verify,
       Menu!MenuKept
<1>2. mAt' \notin {"key", "menu", "draw", "load"} /\ (mAt' \in MenuEarlier => mAt \in MenuEarlier)
  BY DEF Menu!FindDrive, Menu!Mount, Menu!SetMode, Menu!LoadKernel, Menu!Stack, Menu!Verify,
       Menu!Pass, MenuEarlier
<1>3. MarkedInView' BY <1>1 DEF MarkedInView, MenuInv
<1>4. ScreenRight' BY <1>1, <1>2 DEF ScreenRight, MenuInv
<1>5. ChosenRight' BY <1>2 DEF ChosenRight
<1> QED BY <1>1, <1>3, <1>4, <1>5 DEF MenuInv

\* The kernels are listed.
LEMMA KernelsListed == ASSUME MenuSensible, MenuInv, Menu!ListKernels PROVE MenuInv'
<1>1. /\ mAt = "space" /\ mAt' \in {"menu", "failed"}
      /\ UNCHANGED <<mSelected, mOld, mScroll, mRedraw, mScreen, mChosen>>
  BY DEF Menu!ListKernels, Menu!Pass, Menu!MenuKept
<1>2. mKernels' \in Nat /\ mSettings' \in {0, mKernels'}
  BY DEF Menu!ListKernels, Menu!SettingsEntry, MenuSensible
<1>3. mSelected = 0 /\ mRedraw = TRUE BY <1>1 DEF MenuInv, ScreenRight, MenuEarlier
<1>4. MarkedInView'
  <2>1. mScroll' \in Nat /\ mOld' \in Int /\ 0 \in mScroll'..mScroll' + ViewRows - 1
    BY <1>1, <1>3 DEF MarkedInView, MenuInv
  <2>2. mSelected' = 0 BY <1>1, <1>3
  <2>3. mKernels' \in Nat BY <1>2
  <2>4. \A n \in Nat : 0 \in 0..n + 1 OBVIOUS
  <2>5. 0 \in 0..mKernels' + 1 BY <2>3, <2>4, Zenon
  <2> QED BY <2>1, <2>2, <2>3, <2>5, <1>2, Zenon DEF MarkedInView
<1>5. ScreenRight' BY <1>1, <1>3 DEF ScreenRight, MenuEarlier
<1>6. ChosenRight' BY <1>1 DEF ChosenRight
<1> QED BY <1>1, <1>3, <1>4, <1>5, <1>6 DEF MenuInv

\* A step that leaves the menu.
LEMMA MenuLeft ==
  ASSUME MenuSensible, MenuInv, Menu!TimeOut \/ Menu!EnterFirmware
  PROVE  MenuInv'
<1>1. /\ UNCHANGED <<mKernels, mSettings, mSelected, mOld, mScroll, mRedraw, mScreen>>
      /\ mAt' = "reset" \/ (mAt' = "load" /\ mChosen'.timeout = TRUE)
  BY DEF Menu!TimeOut, Menu!EnterFirmware, Menu!MenuKept
<1>2. MarkedInView' BY <1>1 DEF MarkedInView, MenuInv
<1>3. ScreenRight' BY <1>1 DEF ScreenRight, MenuInv, MenuEarlier
<1>4. ChosenRight' BY <1>1 DEF ChosenRight
<1> QED BY <1>1, <1>2, <1>3, <1>4 DEF MenuInv

\* The screen is to be drawn anew.
LEMMA MenuCleared ==
  ASSUME MenuSensible, MenuInv, Menu!Shell \/ Menu!EnterSettings
         \/ \E a \in {"y", "n", "c"} : Menu!Popup(a)
  PROVE  MenuInv'
<1>1. /\ UNCHANGED <<mKernels, mSelected, mOld, mScroll, mChosen>>
      /\ mSettings' \in {0, mKernels} /\ mRedraw' = TRUE /\ mAt' \in {"menu", "draw"}
  BY DEF Menu!Shell, Menu!EnterSettings, Menu!Popup, Menu!Cleared, Menu!SettingsEntry, MenuInv,
       MarkedInView
<1>2. MarkedInView' BY <1>1 DEF MarkedInView, MenuInv
<1>3. ScreenRight' BY <1>1 DEF ScreenRight, MenuEarlier
<1>4. ChosenRight' BY <1>1 DEF ChosenRight
<1> QED BY <1>1, <1>2, <1>3, <1>4 DEF MenuInv

\* The menu is drawn: all of it, or the two rows that changed.
LEMMA MenuDrawn == ASSUME MenuSensible, MenuInv, Menu!Draw PROVE MenuInv'
<1>1. /\ UNCHANGED <<mKernels, mSettings, mSelected, mScroll, mChosen>>
      /\ mAt \in {"menu", "draw"} /\ mAt' = "key" /\ mRedraw' = FALSE /\ mOld' = mSelected
  BY DEF Menu!Draw
<1>2. Menu!Full' = Menu!Full BY <1>1 DEF Menu!Full, Menu!Row, Menu!Items, Menu!NameOf,
      Menu!Firmware, Menu!KernelOf
<1>3. mScreen' = Menu!Full
  <2>1. CASE mRedraw BY <2>1 DEF Menu!Draw
  <2>2. CASE ~mRedraw
    <3>1. mScreen = MenuDrawnFor(mOld) BY <2>2, <1>1 DEF MenuInv, ScreenRight
    <3>2. CASE mSelected = mOld BY <3>1, <3>2, <2>2, FullIsDrawn DEF Menu!Draw
    <3>3. CASE mSelected # mOld
      <4>1. ASSUME NEW r \in 0..ViewRows - 1, mScroll + r \notin {mOld, mSelected}
            PROVE  mScreen[r] = Menu!Row(r)
        <5>1. mScreen[r] = RowOf(r, mOld) BY <3>1 DEF MenuDrawnFor
        <5>2. (mScroll + r = mOld) = FALSE /\ (mScroll + r = mSelected) = FALSE BY <4>1
        <5> QED BY <5>1, <5>2 DEF RowOf, Menu!Row
      <4>2. Menu!Partial = Menu!Full BY <4>1 DEF Menu!Partial, Menu!Full
      <4> QED BY <4>2, <3>3, <2>2 DEF Menu!Draw
    <3> QED BY <3>2, <3>3
  <2> QED BY <2>1, <2>2
<1>4. MarkedInView' BY <1>1 DEF MarkedInView, MenuInv
<1>5. ScreenRight' BY <1>1, <1>2, <1>3 DEF ScreenRight, MenuEarlier
<1>6. ChosenRight' BY <1>1 DEF ChosenRight
<1> QED BY <1>1, <1>4, <1>5, <1>6 DEF MenuInv

\* A key moves the mark, and the view with it.
LEMMA MenuKeyed == ASSUME MenuSensible, MenuInv, Menu!Up \/ Menu!Down
     \/ Menu!OtherKey PROVE MenuInv'
<1>1. /\ UNCHANGED <<mKernels, mSettings, mOld, mScreen, mChosen>>
      /\ mAt = "key" /\ mAt' = "menu"
  BY DEF Menu!Up, Menu!Down, Menu!OtherKey, Menu!Key
<1>2. mOld = mSelected /\ mScreen = MenuDrawnFor(mOld)
  BY <1>1, FullIsDrawn DEF MenuInv, ScreenRight
<1>3. MarkedInView' /\ mRedraw' \in BOOLEAN /\ (mRedraw' = TRUE \/ mScroll' = mScroll)
  <2> USE DEF MarkedInView, MenuInv, MenuSensible
  <2>1. CASE Menu!Up
    <3>1. CASE mSelected > 0
      <4>1. mSelected' = mSelected - 1 /\ mRedraw' = Menu!UpScrolls BY <2>1, <3>1 DEF Menu!Up
      <4>2. mScroll' = IF mSelected - 1 < mScroll THEN mScroll - 1 ELSE mScroll
        BY <2>1, <4>1 DEF Menu!Up
      <4>3. mRedraw' \in BOOLEAN /\ (mSelected - 1 < mScroll => mRedraw' = TRUE)
        BY <4>1 DEF Menu!UpScrolls
      <4>4. CASE mSelected - 1 < mScroll
        <5>1. mScroll = mSelected /\ mScroll' = mSelected - 1 BY <4>4, <4>2
        <5>2. mSelected' \in 0..mKernels' + 1 /\ mScroll' \in Nat BY <4>1, <5>1, <3>1, <1>1
        <5>3. mSelected' \in mScroll'..mScroll' + ViewRows - 1 BY <4>1, <5>1, <3>1
        <5> QED BY <5>2, <5>3, <4>3, <4>4, <1>1
      <4>5. CASE ~(mSelected - 1 < mScroll) BY <4>5, <4>1, <4>2, <4>3, <1>1
      <4> QED BY <4>4, <4>5
    <3>2. CASE ~(mSelected > 0)
      <4>1. mSelected' = mSelected /\ mRedraw' = mRedraw BY <2>1, <3>2 DEF Menu!Up
      <4>2. mScroll' = mScroll BY <2>1, <4>1 DEF Menu!Up
      <4> QED BY <4>1, <4>2, <1>1
    <3> QED BY <3>1, <3>2
  <2>2. CASE Menu!Down
    <3>1. mRedraw' \in BOOLEAN /\ (mSelected' >= mScroll + ViewRows => mRedraw' = TRUE)
      BY <2>2 DEF Menu!Down
    <3>2. mSelected' = IF mSelected < mKernels + 1 THEN mSelected + 1 ELSE mSelected
      BY <2>2 DEF Menu!Down, Menu!Items
    <3>3. mScroll' = IF mSelected' >= mScroll + ViewRows THEN mScroll + 1 ELSE mScroll
      BY <2>2 DEF Menu!Down
    <3>4. MarkedInView' BY <3>2, <3>3, <1>1
    <3> QED BY <3>1, <3>3, <3>4
  <2>3. CASE Menu!OtherKey
    BY <2>3, <1>1 DEF Menu!OtherKey
  <2> QED BY <2>1, <2>2, <2>3
<1>4. mScroll' = mScroll => MenuDrawnFor(mOld)' = MenuDrawnFor(mOld)
  BY <1>1 DEF MenuDrawnFor, RowOf, Menu!Items, Menu!NameOf, Menu!Firmware, Menu!KernelOf
<1>5. ScreenRight' BY <1>1, <1>2, <1>3, <1>4 DEF ScreenRight, MenuEarlier
<1>6. ChosenRight' BY <1>1 DEF ChosenRight
<1> QED BY <1>3, <1>5, <1>6 DEF MenuInv

\* A kernel is started.
LEMMA KernelEntered == ASSUME MenuSensible, MenuInv, Menu!EnterKernel PROVE MenuInv'
<1>1. /\ UNCHANGED <<mKernels, mSettings, mSelected, mOld, mScroll, mRedraw, mScreen>>
      /\ mAt = "key" /\ mAt' = "load" /\ mSelected # mSettings /\ mSelected # Menu!Firmware
      /\ mChosen' = [timeout |-> FALSE, kernel |-> Menu!KernelOf(mSelected)]
  BY DEF Menu!EnterKernel
<1>2. mScreen = Menu!Full BY <1>1 DEF MenuInv, ScreenRight
<1>3. Menu!KernelOf(mSelected) \in 0..mKernels - 1
  BY <1>1 DEF Menu!KernelOf, Menu!Firmware, MenuInv, MarkedInView
<1>4. \A r \in Menu!Shown : mScreen[r][1] = Menu!KernelOf(mSelected)
  <2>1. Menu!Shown = {mSelected - mScroll} BY <1>2, MarkedShown DEF MenuInv
  <2>2. /\ mSelected - mScroll \in 0..ViewRows - 1 /\ mScroll + (mSelected - mScroll) = mSelected
        /\ mSelected < Menu!Items
    BY DEF MenuInv, MarkedInView, Menu!Items, MenuSensible
  <2>3. mScreen[mSelected - mScroll] = <<Menu!NameOf(mSelected), TRUE>>
    <3>1. mScreen[mSelected - mScroll] = Menu!Row(mSelected - mScroll) BY <1>2, <2>2 DEF Menu!Full
    <3>2. Menu!Row(mSelected - mScroll) = <<Menu!NameOf(mSelected), (mSelected = mSelected)>>
      BY <2>2 DEF Menu!Row
    <3> QED BY <3>1, <3>2
  <2>4. Menu!NameOf(mSelected) = Menu!KernelOf(mSelected) BY <1>1 DEF Menu!NameOf
  <2> QED BY <2>1, <2>3, <2>4
<1>5. Menu!Shown' = Menu!Shown BY <1>1 DEF Menu!Shown
<1>6. ChosenRight' BY <1>1, <1>3, <1>4, <1>5 DEF ChosenRight
<1>7. MarkedInView' BY <1>1 DEF MarkedInView, MenuInv
<1>8. ScreenRight' BY <1>1 DEF ScreenRight, MenuEarlier
<1> QED BY <1>1, <1>6, <1>7, <1>8 DEF MenuInv

\* Every step keeps the invariant.
LEMMA MenuStep == MenuSensible /\ MenuInv /\ [Menu!Next]_(Menu!bootMenuVars) => MenuInv'
<1> SUFFICES ASSUME MenuSensible, MenuInv, [Menu!Next]_(Menu!bootMenuVars) PROVE MenuInv'
  OBVIOUS
<1>1. CASE UNCHANGED Menu!bootMenuVars
  <2>1. MarkedInView' BY <1>1 DEF Menu!bootMenuVars, MarkedInView, MenuInv
  <2>2. Menu!Full' = Menu!Full /\ MenuDrawnFor(mOld)' = MenuDrawnFor(mOld)
        /\ Menu!Shown' = Menu!Shown
    BY <1>1 DEF Menu!bootMenuVars, Menu!Full, Menu!Row, Menu!Items, Menu!NameOf, Menu!Firmware,
         Menu!KernelOf, MenuDrawnFor, RowOf, Menu!Shown
  <2>3. ScreenRight' BY <1>1, <2>2 DEF Menu!bootMenuVars, ScreenRight, MenuInv
  <2>4. ChosenRight' BY <1>1, <2>2 DEF Menu!bootMenuVars, ChosenRight, MenuInv
  <2> QED BY <1>1, <2>1, <2>3, <2>4 DEF Menu!bootMenuVars, MenuInv
<1> QED BY <1>1, MenuEarly, KernelsListed, MenuLeft, MenuCleared, MenuDrawn, MenuKeyed,
        KernelEntered DEF Menu!Next

\* The menu counts with the library's Cardinality.
LEMMA MenuCount == \A S : Menu!Cardinality(S) = Cardinality(S)
  BY DEF Cardinality, Menu!Cardinality, IsFiniteSet, Menu!IsFiniteSet

\* The invariant says that the menu is true.
LEMMA MenuInvTrue == MenuSensible /\ MenuInv => Menu!MenuTrue
<1> SUFFICES ASSUME MenuSensible, MenuInv PROVE Menu!MenuTrue
  OBVIOUS
<1>1. ASSUME mAt = "key" PROVE mScreen = Menu!Full /\ Cardinality(Menu!Shown) = 1
  <2>1. mScreen = Menu!Full BY <1>1 DEF MenuInv, ScreenRight
  <2>2. Menu!Shown = {mSelected - mScroll} BY <2>1, MarkedShown DEF MenuInv
  <2> QED BY <2>1, <2>2, FS_Singleton
<1> QED BY <1>1, MenuCount DEF Menu!MenuTrue, MenuInv, ChosenRight

\* The row that is marked is the item that is chosen, one and in view, and what is started
\* was shown (MenuTrue).
THEOREM MenuIsTrue == MenuSensible => (MenuSpec => []Menu!MenuTrue)
<1> SUFFICES ASSUME MenuSensible PROVE MenuSpec => []Menu!MenuTrue
  OBVIOUS
<1>1. Menu!Init => MenuInv BY MenuBegins
<1>2. MenuInv /\ [Menu!Next]_(Menu!bootMenuVars) => MenuInv' BY MenuStep
<1>3. MenuInv => Menu!MenuTrue BY MenuInvTrue
<1> QED BY <1>1, <1>2, <1>3, PTL DEF MenuSpec

-----------------------------------------------------------------------------
(***************************************************************************)
(* The settings (Settings), for any number of kernels, colours and         *)
(* addresses. The structure in use has a right head; it is what it was     *)
(* until a change is noted.                                                *)
(***************************************************************************)

\* The settings being edited.
EditorSpec == Editor!Init /\ [][Editor!Next]_(Editor!settingsVars)

\* There is a kernel, more colours than one, and an address.
EditorSensible ==
  EditKernels \in Nat \ {0} /\ Colours \in Nat \ {0, 1} /\ Addresses \in Nat \ {0}

\* Where a kernel lies, and the structures.
KernelInfo == [load : 0..Addresses - 1, entry : 0..Addresses - 1]

Structures == [values : Editor!Values, crc : Editor!Values, head : BOOLEAN]

\* The types.
EditorTyped ==
  /\ eBase \in Structures /\ eBackup \in Structures /\ eChanges \in BOOLEAN
  /\ eTab \in 0..2 /\ eKernel \in 0..EditKernels - 1
  /\ eRow \in Int /\ (eTab < 2 => eRow \in 0..Editor!LastRow(eTab))

\* The structure in use is one that would be accepted.
HeadsRight ==
  /\ eBackup.head = TRUE /\ ePlace \in {"base", "backup"} /\ (ePlace = "base" => eBase.head = TRUE)
  /\ eDisk # <<>> => Editor!Accepted(eDisk[1])

\* Nothing changed that was not noted.
Untouched == eAt # "out" /\ ~eChanges /\ ~eReset => Editor!InUse = eBefore

\* What is on the screen is what is in use.
ShownRight ==
  /\ eAt = "tabs" => eScreen = Editor!DrawTabs(eTab)
  /\ eAt = "data" => eScreen = Editor!DrawData(Editor!InUse, eTab, eRow, eKernel)

\* The inductive invariant.
EditorInv == EditorTyped /\ HeadsRight /\ Untouched /\ ShownRight

\* The addresses of one kernel are replaced.
LEMMA InfoMade ==
  ASSUME EditorSensible, NEW v \in Editor!Values, NEW k \in 0..EditKernels - 1, NEW x \in KernelInfo
  PROVE  [v EXCEPT !.info[k] = x] \in Editor!Values
<1>1. v.info \in [0..EditKernels - 1 -> KernelInfo] BY DEF Editor!Values, KernelInfo
<1>2. [v.info EXCEPT ![k] = x] \in [0..EditKernels - 1 -> KernelInfo] BY <1>1
<1>3. [v EXCEPT !.info[k] = x] = [v EXCEPT !.info = [v.info EXCEPT ![k] = x]] OBVIOUS
<1>4. \A f \in [0..EditKernels - 1 -> KernelInfo] : [v EXCEPT !.info = f] \in Editor!Values
  BY DEF Editor!Values, KernelInfo
<1> QED BY <1>2, <1>3, <1>4

\* The defaults are values.
LEMMA DefaultsSound == EditorSensible => Editor!Default \in Editor!Values
     /\ Editor!Other \in Editor!Values
<1> SUFFICES ASSUME EditorSensible PROVE Editor!Default \in Editor!Values
     /\ Editor!Other \in Editor!Values
  OBVIOUS
<1>1. 0 \in 0..Addresses - 1 /\ 0 \in 0..Colours - 1 /\ 1 \in 0..Colours - 1
      /\ 0 \in 0..EditKernels /\ EditKernels \in 0..EditKernels
  BY DEF EditorSensible
<1>2. Editor!Default \in Editor!Values BY <1>1 DEF Editor!Default, Editor!Values
<1>3. Editor!Other \in Editor!Values BY <1>1, <1>2 DEF Editor!Other, Editor!Values
<1> QED BY <1>2, <1>3

\* A value that is turned is one again.
LEMMA TurnedSound ==
  ASSUME EditorSensible, EditorTyped, NEW v \in Editor!Values, NEW dir \in {-1, 1}
  PROVE  Editor!Turned(v, dir) \in Editor!Values
<1> USE DEF EditorSensible
<1>1. v.colour \in Int /\ v.number \in Int /\ v.top \in BOOLEAN /\ eKernel \in 0..EditKernels - 1
      /\ v.info[eKernel] \in KernelInfo
  BY DEF Editor!Values, KernelInfo, EditorTyped
<1>2. CASE eTab = 0 /\ eRow = 0
  <2>1. (v.colour + dir) % Colours \in 0..Colours - 1 BY <1>1
  <2>2. [v EXCEPT !.colour = (v.colour + dir) % Colours] \in Editor!Values BY <2>1 DEF Editor!Values
  <2> QED BY <2>2, <1>2 DEF Editor!Turned
<1>3. CASE eTab = 0 /\ eRow = 1
  <2>1. [v EXCEPT !.top = ~v.top] \in Editor!Values BY <1>1 DEF Editor!Values
  <2> QED BY <2>1, <1>3 DEF Editor!Turned
<1>4. CASE eTab = 1 /\ eRow = 0
  <2>1. Editor!Stepped(v.number, dir, 0, EditKernels) \in 0..EditKernels
    BY DEF Editor!Stepped, Editor!Values
  <2>2. [v EXCEPT !.number = Editor!Stepped(v.number, dir, 0, EditKernels)] \in Editor!Values
    BY <2>1 DEF Editor!Values
  <2> QED BY <2>2, <1>4 DEF Editor!Turned
<1>5. CASE eTab = 2 /\ eRow = 1
  <2>1. (v.info[eKernel].load + dir) % Addresses \in 0..Addresses - 1
    BY <1>1 DEF KernelInfo
  <2>2. [v.info[eKernel] EXCEPT !.load = (v.info[eKernel].load + dir) % Addresses] \in KernelInfo
    BY <1>1, <2>1 DEF KernelInfo
  <2>3. [v EXCEPT !.info[eKernel] =
           [v.info[eKernel] EXCEPT !.load = (v.info[eKernel].load + dir) % Addresses]]
         \in Editor!Values
    BY <2>2, <1>1, InfoMade
  <2> QED BY <2>3, <1>5 DEF Editor!Turned
<1>6. CASE eTab = 2 /\ eRow = 2
  <2>1. (v.info[eKernel].entry + dir) % Addresses \in 0..Addresses - 1
    BY <1>1 DEF KernelInfo
  <2>2. [v.info[eKernel] EXCEPT !.entry = (v.info[eKernel].entry + dir) % Addresses] \in KernelInfo
    BY <1>1, <2>1 DEF KernelInfo
  <2>3. [v EXCEPT !.info[eKernel] =
           [v.info[eKernel] EXCEPT !.entry = (v.info[eKernel].entry + dir) % Addresses]]
         \in Editor!Values
    BY <2>2, <1>1, InfoMade
  <2> QED BY <2>3, <1>6 DEF Editor!Turned
<1> QED BY <1>2, <1>3, <1>4, <1>5, <1>6 DEF Editor!Turned

\* So are values of which a tab is reset.
LEMMA ResetSound ==
  ASSUME EditorSensible, EditorTyped, NEW v \in Editor!Values
  PROVE  Editor!Reset(v) \in Editor!Values
<1>1. Editor!Default.colour = 0 /\ Editor!Default.top = FALSE /\ Editor!Default.number = 0
      /\ \A k \in 0..EditKernels - 1 : Editor!Default.info[k] = [load |-> 0, entry |-> 0]
  BY DEF Editor!Default
<1>2. 0 \in 0..Addresses - 1 /\ 0 \in 0..Colours - 1 /\ 0 \in 0..EditKernels
  BY DEF EditorSensible
<1>3. CASE eTab = 0
  <2>1. \A c \in 0..Colours - 1, t \in BOOLEAN : [v EXCEPT !.colour = c, !.top = t]
        \in Editor!Values
    BY DEF Editor!Values
  <2>2. Editor!Default.colour \in 0..Colours - 1 /\ Editor!Default.top \in BOOLEAN BY <1>1, <1>2
  <2>3. Editor!Reset(v) = [v EXCEPT !.colour = Editor!Default.colour, !.top = Editor!Default.top]
    BY <1>3 DEF Editor!Reset
  <2>4. [v EXCEPT !.colour = Editor!Default.colour, !.top = Editor!Default.top] \in Editor!Values
    BY <2>1, <2>2, Zenon
  <2> QED BY <2>3, <2>4, Zenon
<1>4. CASE eTab = 1
  <2>1. [v EXCEPT !.number = 0] \in Editor!Values BY <1>2 DEF Editor!Values
  <2> QED BY <2>1, <1>1, <1>4 DEF Editor!Reset
<1>5. CASE eTab = 2
  <2>1. eKernel \in 0..EditKernels - 1 BY DEF EditorTyped
  <2>2. Editor!Default.info[eKernel] \in KernelInfo BY <2>1, <1>1, <1>2 DEF KernelInfo
  <2>3. [v EXCEPT !.info[eKernel] = Editor!Default.info[eKernel]] \in Editor!Values BY <2>1, <2>2,
        InfoMade
  <2> QED BY <2>3, <1>5 DEF Editor!Reset
<1> QED BY <1>3, <1>4, <1>5 DEF EditorTyped

\* The values of a structure are replaced.
LEMMA ValuesSet ==
  ASSUME EditorTyped, HeadsRight, NEW v \in Editor!Values, Editor!SetValues(v), ePlace' = ePlace
  PROVE  /\ eBase' \in Structures /\ eBackup' \in Structures /\ Editor!InUse' = v
         /\ eBackup'.head = TRUE /\ (ePlace = "base" => eBase'.head = TRUE)
<1>1. \A s \in Structures : /\ [s EXCEPT !.values = v] \in Structures
                            /\ [s EXCEPT !.values = v].values = v
                            /\ [s EXCEPT !.values = v].head = s.head
  BY DEF Structures
<1> QED BY <1>1 DEF Editor!SetValues, Editor!InUse, EditorTyped, HeadsRight

\* The structures as they are found.
LEMMA EditorBegins == EditorSensible /\ Editor!Init => EditorInv
<1> SUFFICES ASSUME EditorSensible, Editor!Init PROVE EditorInv
  OBVIOUS
<1>1. Editor!Default \in Editor!Values /\ Editor!Other \in Editor!Values BY DefaultsSound
<1>2. eBase \in Structures /\ eBackup \in Structures BY <1>1 DEF Editor!Init, Structures
<1>3. eTab = 0 /\ eRow = 0 /\ eKernel = 0 /\ eChanges = FALSE BY DEF Editor!Init
<1>a. 0 \in 0..Editor!LastRow(0) /\ 0 \in 0..2 /\ 0 \in 0..EditKernels - 1
  BY DEF Editor!LastRow, EditorSensible
<1>c. eRow \in 0..Editor!LastRow(eTab) /\ eTab \in 0..2 /\ eKernel \in 0..EditKernels - 1
      /\ eRow \in Int
  BY <1>3, <1>a
<1>b. EditorTyped BY <1>2, <1>3, <1>c DEF EditorTyped
<1>4. HeadsRight BY DEF Editor!Init, HeadsRight
<1>5. Untouched /\ ShownRight BY DEF Editor!Init, Untouched, ShownRight
<1> QED BY <1>b, <1>4, <1>5 DEF EditorInv

\* Leaving: the structure asked for again is accepted, or it is the one compiled in.
LEMMA LeaveSound ==
  ASSUME Editor!Leave(eBase'), eBase' \in Structures
  PROVE  ePlace' \in {"base", "backup"} /\ (ePlace' = "base" => eBase'.head = TRUE) /\ eAt' = "out"
BY DEF Editor!Leave, Editor!GetAmbrc, Editor!Accepted, Structures

\* Leaving: what was changed is written, in both places.
LEMMA EditorLeft ==
  ASSUME EditorSensible, EditorInv,
         Editor!LeaveUnchanged \/ Editor!DontSave \/ \E written \in BOOLEAN : Editor!Save(written)
  PROVE  EditorInv'
<1>1. \A s \in Structures : /\ Editor!Sealed(s) \in Structures /\ Editor!Sealed(s).head = s.head
                            /\ (s.head = TRUE => Editor!Accepted(Editor!Sealed(s)))
  BY DEF Structures, Editor!Sealed, Editor!Accepted
<1>2. /\ UNCHANGED <<eTab, eRow, eKernel, eChanges>> /\ Editor!Leave(eBase')
      /\ eBase' \in {eBase, Editor!Sealed(eBase)} /\ eBackup' \in {eBackup, Editor!Sealed(eBackup)}
  BY DEF Editor!LeaveUnchanged, Editor!DontSave, Editor!Save
<1>3. eBase' \in Structures /\ eBackup' \in Structures /\ eBackup'.head = TRUE
  BY <1>1, <1>2 DEF EditorInv, EditorTyped, HeadsRight
<1>4. eDisk' # <<>> => Editor!Accepted(eDisk'[1])
  <2>1. CASE Editor!LeaveUnchanged \/ Editor!DontSave
    BY <2>1 DEF Editor!LeaveUnchanged, Editor!DontSave, EditorInv, HeadsRight, Editor!Accepted
  <2>2. ASSUME NEW written
        \in BOOLEAN, Editor!Save(written) PROVE eDisk' # <<>> => Editor!Accepted(eDisk'[1])
    <3>1. CASE ~written BY <3>1, <2>2 DEF Editor!Save, EditorInv, HeadsRight, Editor!Accepted
    <3>2. CASE written /\ ePlace = "base"
      <4>1. eDisk' = <<Editor!Sealed(eBase)>> BY <3>2, <2>2 DEF Editor!Save
      <4>2. Editor!Accepted(Editor!Sealed(eBase)) BY <3>2, <1>1 DEF EditorInv, EditorTyped,
            HeadsRight
      <4> QED BY <4>1, <4>2
    <3>3. CASE written /\ ePlace # "base"
      <4>1. eDisk' = <<Editor!Sealed(eBackup)>> BY <3>3, <2>2 DEF Editor!Save
      <4>2. Editor!Accepted(Editor!Sealed(eBackup)) BY <1>1 DEF EditorInv, EditorTyped, HeadsRight
      <4> QED BY <4>1, <4>2
    <3> QED BY <3>1, <3>2, <3>3
  <2> QED BY <2>1, <2>2
<1>5. EditorTyped' BY <1>2, <1>3 DEF EditorInv, EditorTyped, Editor!LastRow
<1>6. HeadsRight' BY <1>2, <1>3, <1>4, LeaveSound DEF HeadsRight, Editor!Accepted
<1>7. Untouched' /\ ShownRight' BY <1>2, <1>3, LeaveSound DEF Untouched, ShownRight
<1> QED BY <1>5, <1>6, <1>7 DEF EditorInv

\* The structure is read, the backup where it is broken, and the defaults where both are.
LEMMA EditorStarted == ASSUME EditorSensible, EditorInv, Editor!Start PROVE EditorInv'
<1>1. EditorTyped' BY DEF Editor!Start, EditorInv, EditorTyped, Editor!LastRow
<1>2. HeadsRight'
  BY DEF Editor!Start, EditorInv, EditorTyped, HeadsRight, Editor!GetAmbrc, Editor!Accepted
<1>3. Editor!InUse' = eBefore' BY DEF Editor!Start, Editor!InUse, Editor!GetAmbrc
<1>4. Untouched' BY <1>3 DEF Untouched
<1>5. ShownRight' BY DEF Editor!Start, ShownRight
<1> QED BY <1>1, <1>2, <1>4, <1>5 DEF EditorInv

\* Keys that go from tab to tab and from row to row, and the questions.
LEMMA EditorMoved ==
  ASSUME EditorSensible, EditorInv,
         Editor!OtherTab \/ Editor!EnterTab \/ Editor!LeaveTab \/ Editor!OtherRow
              \/ Editor!AskReset \/ Editor!KeepTab \/ Editor!AskSave \/ Editor!Cancel
  PROVE  EditorInv'
<1>1. /\ UNCHANGED <<eBase, eBackup, eDisk, ePlace, eKernel, eChanges, eBefore, eReset>>
      /\ eAt # "out"
  BY DEF Editor!OtherTab, Editor!EnterTab, Editor!LeaveTab, Editor!OtherRow, Editor!AskReset,
       Editor!KeepTab, Editor!AskSave, Editor!Cancel, Editor!TabKept
<1>2. Editor!InUse' = Editor!InUse BY <1>1 DEF Editor!InUse
<1>3. eTab' \in 0..2 /\ eRow' \in Int /\ (eTab' < 2 => eRow' \in 0..Editor!LastRow(eTab'))
  BY DEF Editor!OtherTab, Editor!EnterTab, Editor!LeaveTab, Editor!OtherRow, Editor!AskReset,
       Editor!KeepTab, Editor!AskSave, Editor!Cancel,
         EditorInv, EditorTyped, Editor!LastRow, EditorSensible
<1>4. EditorTyped' BY <1>1, <1>3 DEF EditorInv, EditorTyped
<1>5. HeadsRight' BY <1>1 DEF EditorInv, HeadsRight, Editor!Accepted
<1>6. Untouched' BY <1>1, <1>2 DEF EditorInv, Untouched
<1>7. ShownRight'
  BY <1>1, <1>2 DEF Editor!OtherTab, Editor!EnterTab, Editor!LeaveTab, Editor!OtherRow,
       Editor!AskReset, Editor!KeepTab, Editor!AskSave, Editor!Cancel,
                    EditorInv, ShownRight
<1> QED BY <1>4, <1>5, <1>6, <1>7 DEF EditorInv

\* A value is turned.
LEMMA EditorTurned ==
  ASSUME EditorSensible, EditorInv, NEW dir \in {-1, 1}, Editor!SetData(dir)
  PROVE  EditorInv'
<1>1. Editor!InUse \in Editor!Values BY DEF Editor!InUse, EditorInv, EditorTyped, Structures
<1>2. PICK v \in Editor!Values : v = Editor!Turned(Editor!InUse, dir) BY <1>1,
      TurnedSound DEF EditorInv
<1>3. /\ UNCHANGED <<eDisk, ePlace, eAt, eTab, eRow, eBefore, eReset>> /\ eAt = "data"
      /\ Editor!SetValues(v) /\ eScreen' = Editor!DrawData(v, eTab, eRow, eKernel')
      /\ eChanges' = Editor!Noted
  BY <1>2 DEF Editor!SetData
<1>4. /\ eBase' \in Structures /\ eBackup' \in Structures /\ Editor!InUse' = v
      /\ eBackup'.head = TRUE /\ (ePlace = "base" => eBase'.head = TRUE)
  BY <1>3, ValuesSet DEF EditorInv
<1>5. eKernel' \in 0..EditKernels - 1
  BY DEF Editor!SetData, Editor!NextKernel, Editor!Stepped, EditorInv, EditorTyped
<1>6. Editor!Noted \in BOOLEAN /\ (Editor!Noted = FALSE => eChanges = FALSE /\ v = Editor!InUse)
  <2>1. Editor!Noted \in BOOLEAN BY DEF Editor!Noted, EditorInv, EditorTyped
  <2>2. ASSUME Editor!Noted = FALSE PROVE eChanges = FALSE /\ v = Editor!InUse
    <3>1. eChanges = FALSE /\ eTab = 2 /\ ~(eRow <= 2) BY <2>2 DEF Editor!Noted, Editor!Counts
    <3>2. eRow # 1 /\ eRow # 2 BY <3>1
    <3> QED BY <3>1, <3>2, <1>2 DEF Editor!Turned
  <2> QED BY <2>1, <2>2
<1>7. EditorTyped' BY <1>3, <1>4, <1>5, <1>6 DEF EditorInv, EditorTyped
<1>8. HeadsRight' BY <1>3, <1>4 DEF EditorInv, HeadsRight, Editor!Accepted
<1>9. Untouched' BY <1>3, <1>4, <1>6 DEF EditorInv, Untouched
<1>10. ShownRight' BY <1>3, <1>4 DEF ShownRight
<1> QED BY <1>7, <1>8, <1>9, <1>10 DEF EditorInv

\* A tab is reset.
LEMMA EditorReset == ASSUME EditorSensible, EditorInv, Editor!ResetTab PROVE EditorInv'
<1>1. Editor!InUse \in Editor!Values BY DEF Editor!InUse, EditorInv, EditorTyped, Structures
<1>2. PICK v \in Editor!Values : v = Editor!Reset(Editor!InUse) BY <1>1, ResetSound DEF EditorInv
<1>3. /\ UNCHANGED <<eDisk, ePlace, eTab, eRow, eKernel, eChanges, eBefore>> /\ eReset' = TRUE
      /\ Editor!SetValues(v) /\ eScreen' = Editor!DrawData(v, eTab, eRow, eKernel) /\ eAt' = "data"
  BY <1>2 DEF Editor!ResetTab
<1>4. /\ eBase' \in Structures /\ eBackup' \in Structures /\ Editor!InUse' = v
      /\ eBackup'.head = TRUE /\ (ePlace = "base" => eBase'.head = TRUE)
  BY <1>3, ValuesSet DEF EditorInv
<1>5. EditorTyped' BY <1>3, <1>4 DEF EditorInv, EditorTyped
<1>6. HeadsRight' BY <1>3, <1>4 DEF EditorInv, HeadsRight, Editor!Accepted
<1>7. Untouched' BY <1>3 DEF Untouched
<1>8. ShownRight' BY <1>3, <1>4 DEF ShownRight
<1> QED BY <1>5, <1>6, <1>7, <1>8 DEF EditorInv

\* Every step keeps the invariant.
LEMMA EditorStep == EditorSensible /\ EditorInv /\ [Editor!Next]_(Editor!settingsVars) => EditorInv'
<1> SUFFICES ASSUME EditorSensible, EditorInv, [Editor!Next]_(Editor!settingsVars) PROVE EditorInv'
  OBVIOUS
<1>1. CASE UNCHANGED Editor!settingsVars
  <2>1. Editor!InUse' = Editor!InUse BY <1>1 DEF Editor!settingsVars, Editor!InUse
  <2> QED BY <1>1, <2>1 DEF Editor!settingsVars, EditorInv, EditorTyped, HeadsRight,
       Editor!Accepted,
                            Untouched, ShownRight
<1> QED BY <1>1, EditorLeft, EditorStarted, EditorMoved, EditorTurned, EditorReset DEF Editor!Next

\* The invariant says that the settings are kept.
LEMMA EditorInvKept == EditorSensible /\ EditorInv => Editor!SettingsKept
BY DEF EditorInv, EditorTyped, HeadsRight, Untouched, ShownRight, Editor!SettingsKept, Structures,
       EditorSensible

\* What was set is on the disk when the editor is left, whole and in both places, and nothing
\* else changed (SettingsKept).
THEOREM SettingsAreKept == EditorSensible => (EditorSpec => []Editor!SettingsKept)
<1> SUFFICES ASSUME EditorSensible PROVE EditorSpec => []Editor!SettingsKept
  OBVIOUS
<1>1. Editor!Init => EditorInv BY EditorBegins
<1>2. EditorInv /\ [Editor!Next]_(Editor!settingsVars) => EditorInv' BY EditorStep
<1>3. EditorInv => Editor!SettingsKept BY EditorInvKept
<1> QED BY <1>1, <1>2, <1>3, PTL DEF EditorSpec
=============================================================================
