---------------------------- MODULE DeviceProofs ----------------------------
(***************************************************************************)
(* Proofs about the device drivers, each for every value of its constants: *)
(* the start of the NVMe and SATA controllers, a SATA port and its         *)
(* commands, the PIO driver, the rings of xHCI, the tables and the timer   *)
(* of ACPI, and the clock.  A section is about one module; its variables   *)
(* have the names they have where the drivers stand side by side           *)
(* (MC_Devices).                                                           *)
(***************************************************************************)
EXTENDS MC_Devices, NvmeQueueProofs, FiniteSetTheorems, SequenceTheorems, TLAPS

-----------------------------------------------------------------------------
(***************************************************************************)
(* The start of the NVMe controllers (NvmeController), for any number of   *)
(* devices, growths of the table and namespaces.                           *)
(***************************************************************************)
NvmeSetupSpec == Controller!Init /\ [][Controller!Next]_(Controller!nvmeInitVars)

\* What a controller may point to.
Parts == Controller!AdminQueue \cup Controller!IoQueue \cup {Controller!Identity}
           \cup {Controller!Ns(n) : n \in Controller!Namespaces}

NvmeRows == [dev : Drives, valid : BOOLEAN, parts : SUBSET Parts,
             ns : 0 .. MaxNamespaces, good : SUBSET Controller!Namespaces]

\* The namespaces counted are the good ones, and the ones there is memory for;
\* a valid controller has all it needs.
NvmeRowWhole(e) ==
  /\ e.good = 1 .. e.ns
  /\ \A n \in Controller!Namespaces : Controller!Ns(n) \in e.parts <=> n \in e.good
  /\ e.valid => /\ e.ns >= 1
                /\ Controller!AdminQueue \cup Controller!IoQueue
                     \cup {Controller!Identity} \subseteq e.parts

\* What the first n rows point to.
NvmePointedTo(rows, n) == UNION {Controller!Of(rows[i], rows[i].parts) : i \in 1 .. n}

\* A module has one row at most, and what is allocated is what rows point to.
NvmeTableWhole ==
  /\ cTable \in Seq(NvmeRows)
  /\ \A i \in 1 .. Len(cTable) : NvmeRowWhole(cTable[i])
  /\ \A i \in 1 .. Len(cTable) : cIdx[cTable[i].dev] # -1
  /\ \A i, j \in 1 .. Len(cTable) : cTable[i].dev = cTable[j].dev => i = j
  /\ cMem = NvmePointedTo(cTable, Len(cTable))

\* How far nvme_init has come with the last row.
WithAdmin == {"enable", "ioqueue", "create_cq", "create_sq", "identify", "namespaces"}
WithIo == {"create_cq", "create_sq", "identify", "namespaces"}
Begun == {"map", "disable", "admin"} \cup WithAdmin

RowSoFar(e, where, reported) ==
  /\ ~e.valid
  /\ where \in WithAdmin => Controller!AdminQueue \subseteq e.parts
  /\ where \in WithIo => Controller!IoQueue \subseteq e.parts
  /\ IF where = "namespaces"
       THEN Controller!Identity \in e.parts /\ reported \in 1 .. MaxNamespaces + 1
            /\ e.ns <= reported
       ELSE e.ns = 0

NvmeProgress ==
  /\ cIdx \in [Drives -> Int]
  /\ cAt \in Begun \cup {""}
  /\ \A i \in 1 .. Len(cTable) - 1 : cTable[i].valid
  /\ Len(cTable) > 0 => IF cAt = "" THEN cTable[Len(cTable)].valid
                                  ELSE RowSoFar(cTable[Len(cTable)], cAt, cNn)
  /\ cAt # "" => Len(cTable) > 0

NvmeSetupInv == NvmeTableWhole /\ NvmeProgress


\* The parts named, as a prover reads them.
LEMMA NvmePartNames ==
  /\ Controller!AdminQueue = {<<"asq", 0>>, <<"acq", 0>>}
  /\ Controller!IoQueue = {<<"iosq", 1>>, <<"iocq", 1>>}
  /\ Controller!Identity = <<"identity", 0>>
  /\ \A n : Controller!Ns(n) = <<"ns", n>>
  /\ Controller!Namespaces = 1 .. MaxNamespaces
  /\ \A e, parts : Controller!Of(e, parts) = {e.dev} \X parts
  /\ Controller!Count = Len(cTable)
  /\ Controller!Last = cTable[Len(cTable)]
BY DEF Controller!AdminQueue, Controller!IoQueue, Controller!Identity, Controller!Ns,
     Controller!Namespaces, Controller!Of,
       Controller!Count, Controller!Last

\* nvme_destroy frees all that the row points to.
LEMMA AllFreed ==
  ASSUME NEW e \in NvmeRows, NvmeRowWhole(e)
  PROVE  Controller!Frees(e) = e.parts
<1>1. ASSUME NEW p \in e.parts, p[1] = "ns" PROVE p[2] \in e.good
  <2>1. p \in Parts   BY DEF NvmeRows
  <2>2. PICK n \in Controller!Namespaces : p = Controller!Ns(n)
    BY <1>1, <2>1, NvmePartNames DEF Parts
  <2> QED BY <2>2, NvmePartNames DEF NvmeRowWhole
<1> QED BY <1>1 DEF Controller!Frees

\* A sequence without its last element.
LEMMA Shorter ==
  ASSUME NEW S, NEW s \in Seq(S), NEW n \in Nat, Len(s) = n + 1
  PROVE  /\ SubSeq(s, 1, n) \in Seq(S) /\ Len(SubSeq(s, 1, n)) = n
         /\ \A i \in 1 .. n : SubSeq(s, 1, n)[i] = s[i]
<1>1. 1 \in Int /\ n \in Int /\ \A i \in 1 .. n : s[i] \in S   OBVIOUS
<1>2. /\ SubSeq(s, 1, n) \in Seq(S)
      /\ Len(SubSeq(s, 1, n)) = IF 1 <= n THEN n - 1 + 1 ELSE 0
      /\ \A i \in 1 .. n - 1 + 1 : SubSeq(s, 1, n)[i] = s[1 + i - 1]
  BY <1>1, SubSeqProperties
<1>3. n - 1 + 1 = n /\ (~(1 <= n) => 0 = n) /\ \A i \in 1 .. n : 1 + i - 1 = i   OBVIOUS
<1> QED BY <1>2, <1>3, Zenon

\* What rows point to, one by one.
LEMMA NvmePointed ==
  ASSUME NEW rows, NEW n, NEW x
  PROVE  x \in NvmePointedTo(rows, n)
         <=> \E i \in 1 .. n : x \in Controller!Of(rows[i], rows[i].parts)
BY DEF NvmePointedTo

\* Places up to one more.
LEMMA OneMore ==
  ASSUME NEW n \in Nat
  PROVE  /\ 1 .. n \subseteq 1 .. n + 1 /\ n + 1 \in 1 .. n + 1 /\ n + 1 \notin 1 .. n
         /\ \A i \in 1 .. n + 1 : i \in 1 .. n \/ i = n + 1
         /\ n + 1 > 0 /\ \A k : k = n + 1 => k - 1 = n /\ k > 0
         /\ 1 .. n - 1 \subseteq 1 .. n /\ (n > 0 => n \in 1 .. n)
OBVIOUS

\* The last element of a sequence.
LEMMA LenIn ==
  ASSUME NEW S, NEW s \in Seq(S), Len(s) > 0
  PROVE  Len(s) \in Nat /\ Len(s) \in 1 .. Len(s) /\ s[Len(s)] \in S
OBVIOUS

\* Places are not negative.
LEMMA Positive == ASSUME NEW n PROVE \A m \in 1 .. n : 0 <= m
OBVIOUS

\* A positive number has one before it.
LEMMA Before == ASSUME NEW n \in Nat, n > 0 PROVE \E m \in Nat : n = m + 1
<1>1. n - 1 \in Nat /\ n = n - 1 + 1   OBVIOUS
<1> QED BY <1>1

\* The last row goes, with what it points to.
LEMMA NvmeRowGone ==
  ASSUME NvmeSetupInv, NEW n \in Nat, Len(cTable) = n + 1,
         cTable' \in Seq(NvmeRows), Len(cTable') = n,
         \A i \in 1 .. n : cTable'[i] = cTable[i],
         cMem' = cMem \ Controller!Of(cTable[n + 1], cTable[n + 1].parts),
         cAt' = "", cNn' = 0, cCap' = cCap, cIdx' = cIdx
  PROVE  NvmeSetupInv'
<1> USE DEF NvmeSetupInv
<1>0. /\ \A i \in 1 .. n + 1 : NvmeRowWhole(cTable[i])
      /\ \A i \in 1 .. n + 1 : cIdx[cTable[i].dev] # -1
      /\ \A i, j \in 1 .. n + 1 : cTable[i].dev = cTable[j].dev => i = j
      /\ cMem = NvmePointedTo(cTable, n + 1)
  BY Zenon DEF NvmeTableWhole
<1>1. 1 .. n \subseteq 1 .. n + 1 /\ n + 1 \in 1 .. n + 1 /\ n + 1 \notin 1 .. n
      /\ \A i \in 1 .. n + 1 : i \in 1 .. n \/ i = n + 1
  BY OneMore
<1>2. (\A i \in 1 .. Len(cTable) : NvmeRowWhole(cTable[i]))'
  BY <1>0, <1>1, Zenon
<1>3. (\A i \in 1 .. Len(cTable) : cIdx[cTable[i].dev] # -1)'
  BY <1>0, <1>1, Zenon
<1>4. (\A i, j \in 1 .. Len(cTable) : cTable[i].dev = cTable[j].dev => i = j)'
  BY <1>0, <1>1, Zenon
<1>5. cMem' = NvmePointedTo(cTable', n)
  <2>1. \A i \in 1 .. n : cTable[i].dev # cTable[n + 1].dev   BY <1>0, <1>1, Zenon
  <2>2. ASSUME NEW x \in cMem'
        PROVE  \E i \in 1 .. n : x \in Controller!Of(cTable'[i], cTable'[i].parts)
    <3>1. PICK i \in 1 .. n + 1 : x \in Controller!Of(cTable[i], cTable[i].parts)
      <4>1. x \in cMem   OBVIOUS
      <4> QED BY <4>1, <1>0, NvmePointed, Zenon
    <3>2. i # n + 1   BY <3>1
    <3> QED BY <1>1, <3>1, <3>2
  <2>3. ASSUME NEW i \in 1 .. n, NEW x \in Controller!Of(cTable'[i], cTable'[i].parts)
        PROVE  x \in cMem'
    <3>1. x \in Controller!Of(cTable[i], cTable[i].parts)   OBVIOUS
    <3>2. x \in cMem   BY <1>0, <1>1, <3>1, NvmePointed, Zenon
    <3>3. x \notin Controller!Of(cTable[n + 1], cTable[n + 1].parts)
      BY <2>1, <3>1, NvmePartNames
    <3> QED BY <3>2, <3>3
  <2>4. \A x : x \in cMem' <=> x \in NvmePointedTo(cTable', n)   BY <2>2, <2>3, NvmePointed, Zenon
  <2> QED BY <2>4
<1>6. NvmeTableWhole'   BY <1>2, <1>3, <1>4, <1>5 DEF NvmeTableWhole
<1>7. NvmeProgress'
  <2>1. /\ \A i \in 1 .. Len(cTable) - 1 : cTable[i].valid
        /\ cIdx \in [Drives -> Int]
    BY Zenon DEF NvmeProgress
  <2>4. Len(cTable) - 1 = n
    BY OneMore, Zenon
  <2>2. \A i \in 1 .. n : cTable'[i].valid   BY <2>1, <2>4, Zenon
  <2>3. /\ \A i \in 1 .. n - 1 : cTable'[i].valid
        /\ n > 0 => cTable'[n].valid
    BY <2>2, OneMore, Zenon
  <2> QED BY <2>1, <2>3 DEF NvmeProgress
<1> QED BY <1>6, <1>7

\* The last row changes: it gains what is allocated for it.
LEMMA NvmeRowSet ==
  ASSUME NvmeSetupInv, Len(cTable) > 0, NEW e \in NvmeRows, NvmeRowWhole(e), NEW more,
         e.dev = cTable[Len(cTable)].dev,
         e.parts = cTable[Len(cTable)].parts \cup more,
         cTable' = [cTable EXCEPT ![Len(cTable)] = e],
         cMem' = cMem \cup Controller!Of(cTable[Len(cTable)], more),
         cIdx' = cIdx
  PROVE  /\ NvmeTableWhole' /\ Len(cTable') = Len(cTable)
         /\ cTable'[Len(cTable)] = e
         /\ \A i \in 1 .. Len(cTable) - 1 : cTable'[i] = cTable[i]
<1> DEFINE n == Len(cTable)
<1> USE DEF NvmeSetupInv
<1>0. /\ cTable \in Seq(NvmeRows)
      /\ \A i \in 1 .. n : NvmeRowWhole(cTable[i])
      /\ \A i \in 1 .. n : cIdx[cTable[i].dev] # -1
      /\ \A i, j \in 1 .. n : cTable[i].dev = cTable[j].dev => i = j
      /\ cMem = NvmePointedTo(cTable, n)
  BY Zenon DEF NvmeTableWhole
<1>1. n \in Nat /\ n > 0 /\ \A i \in 1 .. n : cTable[i] \in NvmeRows
  BY <1>0
<1>2. /\ cTable' \in Seq(NvmeRows) /\ Len(cTable') = n /\ cTable'[n] = e
      /\ \A i \in 1 .. n - 1 : cTable'[i] = cTable[i]
  BY <1>0, <1>1
<1>9. \A i \in 1 .. n : i = n \/ i \in 1 .. n - 1   BY <1>1
<1> HIDE DEF n
<1>3. \A i \in 1 .. n : cTable'[i].dev = cTable[i].dev
  <2> TAKE i \in 1 .. n
  <2>1. CASE i = n   BY <2>1, <1>2 DEF n
  <2>2. CASE i \in 1 .. n - 1   BY <2>2, <1>2
  <2> QED BY <2>1, <2>2, <1>9
<1>4. (\A i \in 1 .. Len(cTable) : NvmeRowWhole(cTable[i]))'
  BY <1>0, <1>1, <1>2
<1>5. (\A i \in 1 .. Len(cTable) : cIdx[cTable[i].dev] # -1)'
  BY <1>0, <1>1, <1>2, <1>3
<1>6. (\A i, j \in 1 .. Len(cTable) : cTable[i].dev = cTable[j].dev => i = j)'
  BY <1>0, <1>1, <1>2, <1>3
<1>7. cMem' = NvmePointedTo(cTable', n)
  <2>1. cMem' = cMem \cup Controller!Of(cTable[n], more)   BY DEF n
  <2>2. cTable'[n].parts = cTable[n].parts \cup more   BY <1>2 DEF n
  <2>3. \A x : x \in Controller!Of(cTable'[n], cTable'[n].parts)
          <=> x \in Controller!Of(cTable[n], cTable[n].parts)
                      \cup Controller!Of(cTable[n], more)
    <3>1. cTable'[n].dev = cTable[n].dev   BY <1>1, <1>3
    <3> QED BY <2>2, <3>1, NvmePartNames
  <2>4. \A x : x \in cMem
          <=> \E i \in 1 .. n : x \in Controller!Of(cTable[i], cTable[i].parts)
    BY <1>0, NvmePointed, Zenon
  <2>5. \A x : x \in cMem'
          <=> \E i \in 1 .. n : x \in Controller!Of(cTable'[i], cTable'[i].parts)
    <3>1. n \in 1 .. n   BY <1>1
    <3>2. \A i \in 1 .. n : i = n \/ cTable'[i] = cTable[i]   BY <1>2, <1>9, Zenon
    <3> QED BY <2>1, <2>3, <2>4, <3>1, <3>2
  <2>6. \A x : x \in cMem' <=> x \in NvmePointedTo(cTable', n)   BY <2>5, NvmePointed, Zenon
  <2> QED BY <2>6
<1> QED BY <1>2, <1>4, <1>5, <1>6, <1>7, Zenon DEF NvmeTableWhole, n
\* So the row may go on with nvme_init, or be valid at its end.
LEMMA NvmeRowGoesOn ==
  ASSUME NvmeSetupInv, Len(cTable) > 0, NvmeTableWhole', cIdx' = cIdx,
         Len(cTable') = Len(cTable),
         \A i \in 1 .. Len(cTable) - 1 : cTable'[i] = cTable[i],
         \/ cAt' = "" /\ cTable'[Len(cTable)].valid
         \/ cAt' \in Begun /\ RowSoFar(cTable'[Len(cTable')], cAt', cNn')
  PROVE  NvmeSetupInv'
<1>1. /\ \A i \in 1 .. Len(cTable) - 1 : cTable[i].valid
      /\ cIdx \in [Drives -> Int]
  BY Zenon DEF NvmeSetupInv, NvmeProgress
<1>2. \A i \in 1 .. Len(cTable') - 1 : cTable'[i].valid   BY <1>1, Zenon
<1>3. cAt' \in Begun \cup {""} /\ "" \notin Begun   BY DEF Begun, WithAdmin
<1>4. IF cAt' = "" THEN cTable'[Len(cTable')].valid
                   ELSE RowSoFar(cTable'[Len(cTable')], cAt', cNn')
  BY <1>3, Zenon
<1> QED BY <1>1, <1>2, <1>3, <1>4, Zenon DEF NvmeSetupInv, NvmeProgress

\* A row is added, for a module that has none.
LEMMA NvmeRowAdded ==
  ASSUME MaxNamespaces \in Nat, NvmeSetupInv, NEW d \in Drives, Controller!Begin(d)
  PROVE  NvmeSetupInv'
<1> DEFINE e == [dev |-> d, valid |-> FALSE, parts |-> {}, ns |-> 0, good |-> {}]
           n == Len(cTable)
<1> USE DEF NvmeSetupInv
<1>1. CASE UNCHANGED <<cTable, cCap, cIdx, cMem, cAt, cNn>>
  <2>1. NvmeTableWhole'   BY <1>1, Zenon DEF NvmeTableWhole
  <2>2. NvmeProgress'   BY <1>1 DEF NvmeProgress, RowSoFar
  <2> QED BY <2>1, <2>2
<1>2. CASE cTable' = Append(cTable, e)
  <2>1. /\ cIdx' = [cIdx EXCEPT ![d] = n] /\ cAt = "" /\ cAt' = "map" /\ cIdx[d] = -1
        /\ cMem' = cMem
    <3>1. Controller!Count = n   BY DEF Controller!Count
    <3>2. cTable' # cTable
      <4>1. cTable \in Seq(NvmeRows)   BY Zenon DEF NvmeTableWhole
      <4> QED BY <1>2, <4>1
    <3> QED BY <3>1, <3>2 DEF Controller!Begin
  <2>2. e \in NvmeRows /\ NvmeRowWhole(e) /\ e.dev = d /\ e.parts = {}
    BY NvmePartNames DEF NvmeRows, NvmeRowWhole
  <2>3. /\ cTable \in Seq(NvmeRows) /\ n \in Nat
        /\ cTable' \in Seq(NvmeRows) /\ Len(cTable') = n + 1 /\ cTable'[n + 1] = e
        /\ \A i \in 1 .. n : cTable'[i] = cTable[i]
    <3>1. cTable \in Seq(NvmeRows)   BY Zenon DEF NvmeTableWhole
    <3> QED BY <1>2, <2>2, <3>1
  <2>4. RowSoFar(e, cAt', cNn')   BY <2>1 DEF RowSoFar, WithAdmin, WithIo
  <2> HIDE DEF e, n
  <2>5. /\ \A i \in 1 .. n : NvmeRowWhole(cTable[i])
        /\ \A i \in 1 .. n : cIdx[cTable[i].dev] # -1
        /\ \A i, j \in 1 .. n : cTable[i].dev = cTable[j].dev => i = j
        /\ cMem = NvmePointedTo(cTable, n)
        /\ cIdx \in [Drives -> Int]
    BY Zenon DEF NvmeTableWhole, NvmeProgress, n
  <2>6. /\ 1 .. n \subseteq 1 .. n + 1 /\ n + 1 \in 1 .. n + 1 /\ n + 1 \notin 1 .. n
        /\ \A i \in 1 .. n + 1 : i \in 1 .. n \/ i = n + 1
        /\ n + 1 > 0 /\ n + 1 - 1 = n
    BY <2>3
  <2>7. \A i \in 1 .. n : cTable[i].dev # d   BY <2>1, <2>5
  <2>14. cIdx' \in [Drives -> Int] /\ cIdx'[d] = n /\ n # -1
    <3>1. n \in Nat /\ cIdx \in [Drives -> Int] /\ cIdx' = [cIdx EXCEPT ![d] = n]
      BY <2>1, <2>3, <2>5, Zenon
    <3> QED BY <3>1
  <2>8. (\A i \in 1 .. Len(cTable) : NvmeRowWhole(cTable[i]))'
    BY <2>2, <2>3, <2>5, <2>6, Zenon
  <2>9. (\A i \in 1 .. Len(cTable) : cIdx[cTable[i].dev] # -1)'
    <3> SUFFICES ASSUME NEW i \in 1 .. n + 1 PROVE cIdx'[cTable'[i].dev] # -1
      BY <2>3, Zenon
    <3>1. CASE i \in 1 .. n
      <4>1. cTable'[i].dev = cTable[i].dev /\ cTable[i].dev # d
        BY <2>3, <2>7, <3>1
      <4>2. cTable[i].dev \in Drives
        <5>1. cTable[i] \in NvmeRows   BY <2>3, <3>1
        <5> QED BY <5>1 DEF NvmeRows
      <4> QED BY <2>1, <2>5, <3>1, <4>1, <4>2
    <3>2. CASE i = n + 1
      <4>1. cTable'[i].dev = d   BY <2>2, <2>3, <3>2
      <4>2. cIdx'[d] = n /\ n # -1   BY <2>14
      <4> QED BY <4>1, <4>2
    <3> QED BY <2>6, <3>1, <3>2
  <2>10. (\A i, j \in 1 .. Len(cTable) : cTable[i].dev = cTable[j].dev => i = j)'
    BY <2>2, <2>3, <2>5, <2>6, <2>7, Zenon
  <2>11. cMem' = NvmePointedTo(cTable', n + 1)
    <3>1. \A x : x \notin Controller!Of(cTable'[n + 1], cTable'[n + 1].parts)
      BY <2>2, <2>3, NvmePartNames
    <3>2. \A x : x \in cMem
          <=> \E i \in 1 .. n : x \in Controller!Of(cTable[i], cTable[i].parts)
      BY <2>5, NvmePointed, Zenon
    <3>3. \A x : x \in cMem
          <=> \E i \in 1 .. n + 1 : x \in Controller!Of(cTable'[i], cTable'[i].parts)
      BY <2>3, <2>6, <3>1, <3>2, Zenon
    <3>4. \A x : x \in cMem <=> x \in NvmePointedTo(cTable', n + 1)   BY <3>3, NvmePointed, Zenon
    <3> QED BY <2>1, <3>4
  <2>12. NvmeTableWhole'   BY <2>3, <2>8, <2>9, <2>10, <2>11 DEF NvmeTableWhole
  <2>13. NvmeProgress'
    <3>1. cIdx' \in [Drives -> Int] /\ cAt' \in Begun   BY <2>1, <2>14 DEF Begun
    <3>2. \A i \in 1 .. n : cTable[i].valid
      <4>1. /\ \A i \in 1 .. n - 1 : cTable[i].valid
            /\ n > 0 => cTable[n].valid
        BY <2>1, Zenon DEF NvmeProgress, n
      <4> QED BY <2>3, <4>1
    <3>3. \A i \in 1 .. n : cTable'[i].valid   BY <2>3, <3>2
    <3>4. Len(cTable') = n + 1 /\ n + 1 - 1 = n /\ cTable'[n + 1] = e
      BY <2>3, <2>6
    <3>5. Len(cTable') - 1 = n /\ Len(cTable') > 0   BY <2>3, <3>4, OneMore, Zenon
    <3>6. cAt' # "" /\ RowSoFar(cTable'[Len(cTable')], cAt', cNn')
      BY <2>1, <2>4, <3>4 DEF RowSoFar
    <3> QED BY <2>1, <3>1, <3>3, <3>5, <3>6, Zenon DEF NvmeProgress
  <2> QED BY <2>12, <2>13
<1> QED BY <1>1, <1>2 DEF Controller!Begin

\* What is known of the row that nvme_init works on.
LEMMA NvmeLastRow ==
  ASSUME MaxNamespaces \in Nat, NvmeSetupInv, cAt # ""
  PROVE  /\ Len(cTable) \in Nat /\ Len(cTable) > 0
         /\ Controller!Last \in NvmeRows /\ NvmeRowWhole(Controller!Last)
         /\ RowSoFar(Controller!Last, cAt, cNn)
         /\ Controller!Frees(Controller!Last) = Controller!Last.parts
<1>1. Len(cTable) > 0 /\ RowSoFar(cTable[Len(cTable)], cAt, cNn)
  BY Zenon DEF NvmeSetupInv, NvmeProgress
<1>2. cTable \in Seq(NvmeRows) /\ \A i \in 1 .. Len(cTable) : NvmeRowWhole(cTable[i])
  BY Zenon DEF NvmeSetupInv, NvmeTableWhole
<1>3. Len(cTable) \in Nat /\ Len(cTable) \in 1 .. Len(cTable)
  BY <1>1, <1>2, LenIn
<1>4. cTable[Len(cTable)] \in NvmeRows   BY <1>1, <1>2, LenIn, Zenon
<1> QED BY <1>1, <1>2, <1>3, <1>4, AllFreed, NvmePartNames, Zenon

\* What nvme_destroy does, and the failure of an I/O queue before it.
LEMMA NvmeSetupUndone ==
  ASSUME MaxNamespaces \in Nat, NvmeSetupInv, cAt # "",
         \/ Controller!Destroy
         \/ cAt \in WithIo /\ Controller!DropIoQueue
  PROVE  NvmeSetupInv'
<1>1. PICK n \in Nat : Len(cTable) = n + 1
  BY NvmeLastRow, Before
<1>2. cTable \in Seq(NvmeRows)   BY Zenon DEF NvmeSetupInv, NvmeTableWhole
<1>3. /\ cTable' = SubSeq(cTable, 1, Len(cTable) - 1)
      /\ cAt' = "" /\ cNn' = 0 /\ cCap' = cCap /\ cIdx' = cIdx
  BY Zenon, NvmePartNames DEF Controller!Destroy, Controller!DropIoQueue
<1>4. Len(cTable) - 1 = n   BY <1>1, OneMore, Zenon
<1>5. /\ cTable' \in Seq(NvmeRows) /\ Len(cTable') = n
      /\ \A i \in 1 .. n : cTable'[i] = cTable[i]
  BY <1>1, <1>2, <1>3, <1>4, Shorter, Zenon
<1>6. cMem' = cMem \ Controller!Of(Controller!Last, Controller!Last.parts)
  <2>1. CASE Controller!Destroy   BY <2>1, NvmeLastRow DEF Controller!Destroy
  <2>2. CASE cAt \in WithIo /\ Controller!DropIoQueue
    <3>1. Controller!IoQueue \subseteq Controller!Last.parts   BY <2>2, NvmeLastRow DEF RowSoFar
    <3>2. Controller!Of(Controller!Last, Controller!IoQueue)
          \subseteq Controller!Of(Controller!Last, Controller!Last.parts)
      BY <3>1, NvmePartNames
    <3>3. cMem' = cMem \ (Controller!Of(Controller!Last, Controller!IoQueue)
                            \cup Controller!Of(Controller!Last, Controller!Frees(Controller!Last)))
      BY <2>2 DEF Controller!DropIoQueue
    <3> QED BY <3>2, <3>3, NvmeLastRow
  <2> QED BY <2>1, <2>2
<1>7. Controller!Last = cTable[n + 1]   BY <1>1, NvmePartNames, Zenon
<1>8. cMem' = cMem \ Controller!Of(cTable[n + 1], cTable[n + 1].parts)   BY <1>6, <1>7
<1> QED BY <1>1, <1>3, <1>5, <1>8, NvmeRowGone, Zenon

\* A part more for the last row.
LEMMA NvmeSetupGains ==
  ASSUME MaxNamespaces \in Nat, NvmeSetupInv, cAt # "", NEW more,
         more \in {Controller!AdminQueue, Controller!IoQueue, {Controller!Identity}},
         cTable' = [cTable EXCEPT ![Len(cTable)].parts = @ \cup more],
         cMem' = cMem \cup Controller!Of(Controller!Last, more), cIdx' = cIdx, cAt' \in Begun,
         cAt' \in WithAdmin \ {"enable"} => cAt \in WithAdmin,
         cAt' = "enable" => more = Controller!AdminQueue,
         cAt' \in WithIo \ {"create_cq"} => cAt \in WithIo,
         cAt' = "create_cq" => more = Controller!IoQueue,
         cAt # "namespaces",
         cAt' = "namespaces" => more = {Controller!Identity} /\ cNn' \in 1 .. MaxNamespaces + 1
  PROVE  NvmeSetupInv'
<1> DEFINE l == Controller!Last
           e == [l EXCEPT !.parts = @ \cup more]
<1>1. /\ Len(cTable) \in Nat /\ Len(cTable) > 0
      /\ l \in NvmeRows /\ NvmeRowWhole(l) /\ RowSoFar(l, cAt, cNn) /\ l = cTable[Len(cTable)]
  BY NvmeLastRow, NvmePartNames, Zenon
<1>2. more \subseteq Parts /\ \A k \in Controller!Namespaces : Controller!Ns(k) \notin more
  BY NvmePartNames DEF Parts
<1>3. /\ e \in NvmeRows /\ e.parts = l.parts \cup more /\ e.dev = l.dev
      /\ e.valid = l.valid /\ e.ns = l.ns /\ e.good = l.good
  BY <1>1, <1>2 DEF NvmeRows
<1> HIDE DEF l
<1>4. cTable' = [cTable EXCEPT ![Len(cTable)] = e]   BY <1>1
<1> HIDE DEF e
<1>5. ~e.valid   BY <1>1, <1>3 DEF RowSoFar
<1>6. NvmeRowWhole(e)   BY <1>1, <1>2, <1>3, <1>5 DEF NvmeRowWhole
<1>7. /\ NvmeTableWhole' /\ Len(cTable') = Len(cTable)
      /\ cTable'[Len(cTable)] = e
      /\ \A i \in 1 .. Len(cTable) - 1 : cTable'[i] = cTable[i]
  <2>1. cMem' = cMem \cup Controller!Of(cTable[Len(cTable)], more)   BY <1>1, NvmePartNames
  <2> QED BY <1>1, <1>3, <1>4, <1>6, <2>1, NvmeRowSet, Zenon
<1>8. RowSoFar(e, cAt', cNn')
  <2>1. cAt' \in WithAdmin => Controller!AdminQueue \subseteq e.parts
    BY <1>1, <1>3 DEF RowSoFar
  <2>2. cAt' \in WithIo => Controller!IoQueue \subseteq e.parts
    BY <1>1, <1>3 DEF RowSoFar
  <2>3. l.ns = 0   BY <1>1 DEF RowSoFar
  <2>4. cAt' = "namespaces" => Controller!Identity \in e.parts /\ e.ns <= cNn'
    <3>1. \A m \in 1 .. MaxNamespaces + 1 : 0 <= m   BY Positive
    <3> QED BY <1>3, <2>3, <3>1
  <2> QED BY <1>3, <1>5, <2>1, <2>2, <2>3, <2>4, Zenon DEF RowSoFar
<1>9. RowSoFar(cTable'[Len(cTable')], cAt', cNn')   BY <1>7, <1>8 DEF RowSoFar
<1> QED BY <1>1, <1>7, <1>9, NvmeRowGoesOn, Zenon

\* A step that only goes on.
LEMMA NvmeSetupGoes ==
  ASSUME MaxNamespaces \in Nat, NvmeSetupInv, cAt # "",
         UNCHANGED <<cTable, cCap, cIdx, cMem, cNn>>, cAt' \in Begun,
         cAt # "namespaces", cAt' # "namespaces",
         cAt' \in WithAdmin => cAt \in WithAdmin, cAt' \in WithIo => cAt \in WithIo
  PROVE  NvmeSetupInv'
<1>1. /\ Len(cTable) > 0 /\ RowSoFar(cTable[Len(cTable)], cAt, cNn)
  BY NvmeLastRow, NvmePartNames, Zenon
<1>2. NvmeTableWhole'   BY Zenon DEF NvmeSetupInv, NvmeTableWhole
<1>3. RowSoFar(cTable'[Len(cTable')], cAt', cNn')   BY <1>1 DEF RowSoFar
<1> QED BY <1>1, <1>2, <1>3, NvmeRowGoesOn, Zenon

\* A namespace more.
LEMMA NvmeSetupNamespace ==
  ASSUME MaxNamespaces \in Nat, NvmeSetupInv, Controller!IdentifyNamespace
  PROVE  NvmeSetupInv'
<1> DEFINE l == Controller!Last
           k == l.ns + 1
           e == Controller!Marks(l, k)
<1>1. /\ Len(cTable) \in Nat /\ Len(cTable) > 0
      /\ l \in NvmeRows /\ NvmeRowWhole(l) /\ RowSoFar(l, cAt, cNn) /\ l = cTable[Len(cTable)]
      /\ cAt = "namespaces"
  BY NvmeLastRow, NvmePartNames, Zenon DEF Controller!IdentifyNamespace
<1>2. CASE Controller!Destroy   BY <1>1, <1>2, NvmeSetupUndone
<1>3. CASE /\ cMem' = cMem \cup Controller!Of(l, {Controller!Ns(k)})
           /\ cTable' = [cTable EXCEPT ![Len(cTable)] = Controller!Marks(@, k)]
           /\ UNCHANGED <<cCap, cIdx, cAt, cNn>>
  <2>1. l.ns < cNn /\ l.ns < MaxNamespaces   BY DEF Controller!IdentifyNamespace
  <2>2. /\ l.ns \in Nat /\ k \in Controller!Namespaces /\ k = l.ns + 1 /\ l.good = 1 .. l.ns
        /\ 1 .. k = (1 .. l.ns) \cup {k} /\ k <= cNn /\ k \in 0 .. MaxNamespaces
    <3>1. l.ns \in 0 .. MaxNamespaces /\ l.good = 1 .. l.ns /\ cNn \in 1 .. MaxNamespaces + 1
      BY <1>1 DEF NvmeRows, NvmeRowWhole, RowSoFar
    <3> QED BY <2>1, <3>1, NvmePartNames
  <2>3. cTable' = [cTable EXCEPT ![Len(cTable)] = e]   BY <1>1, <1>3
  <2>4. /\ e.parts = l.parts \cup {Controller!Ns(k)} /\ e.ns = k /\ e.good = l.good \cup {k}
        /\ e.valid = l.valid /\ e.dev = l.dev /\ e \in NvmeRows
    <3>1. Controller!Ns(k) \in Parts   BY <2>2 DEF Parts
    <3> HIDE DEF k, l
    <3> QED BY <1>1, <2>2, <3>1, NvmePartNames DEF NvmeRows, Controller!Marks
  <2> HIDE DEF k, l, e
  <2>5. ~e.valid   BY <1>1, <2>4 DEF RowSoFar
  <2>6. NvmeRowWhole(e)
    <3>1. e.good = 1 .. e.ns   BY <2>2, <2>4
    <3>2. \A j \in Controller!Namespaces :
            Controller!Ns(j) = Controller!Ns(k) <=> j = k
      BY NvmePartNames
    <3>3. \A j \in Controller!Namespaces : Controller!Ns(j) \in e.parts <=> j \in e.good
      BY <1>1, <2>4, <3>2 DEF NvmeRowWhole
    <3> QED BY <2>5, <3>1, <3>3 DEF NvmeRowWhole
  <2>7. /\ NvmeTableWhole' /\ Len(cTable') = Len(cTable)
        /\ cTable'[Len(cTable)] = e
        /\ \A i \in 1 .. Len(cTable) - 1 : cTable'[i] = cTable[i]
    <3>1. cMem' = cMem \cup Controller!Of(cTable[Len(cTable)], {Controller!Ns(k)})
      BY <1>1, <1>3 DEF l
    <3> QED BY <1>1, <1>3, <2>3, <2>4, <2>6, <3>1, NvmeRowSet, Zenon
  <2>8. RowSoFar(e, cAt', cNn')
    BY <1>1, <1>3, <2>2, <2>4, <2>5 DEF RowSoFar
  <2>9. RowSoFar(cTable'[Len(cTable')], cAt', cNn')   BY <2>7, <2>8, Zenon
  <2>10. cAt' \in Begun   BY <1>1, <1>3 DEF Begun, WithAdmin
  <2> QED BY <1>1, <1>3, <2>7, <2>9, <2>10, NvmeRowGoesOn, Zenon
<1> QED BY <1>1, <1>2, <1>3, NvmePartNames DEF Controller!IdentifyNamespace

\* The end of nvme_init: the controller becomes valid.
LEMMA NvmeSetupFinish ==
  ASSUME MaxNamespaces \in Nat \ {0}, NvmeSetupInv, Controller!Finish
  PROVE  NvmeSetupInv'
<1> DEFINE l == Controller!Last
           e == [l EXCEPT !.valid = TRUE]
<1>1. /\ Len(cTable) \in Nat /\ Len(cTable) > 0
      /\ l \in NvmeRows /\ NvmeRowWhole(l) /\ RowSoFar(l, cAt, cNn) /\ l = cTable[Len(cTable)]
      /\ cAt = "namespaces"
  <2>1. MaxNamespaces \in Nat   OBVIOUS
  <2> QED BY <2>1, NvmeLastRow, NvmePartNames, Zenon DEF Controller!Finish
<1>2. /\ cTable' = [cTable EXCEPT ![Len(cTable)].valid = TRUE]
      /\ cMem' = cMem /\ cIdx' = cIdx /\ cAt' = ""
      /\ l.ns = cNn \/ l.ns = MaxNamespaces
  BY NvmePartNames DEF Controller!Finish
<1>3. cTable' = [cTable EXCEPT ![Len(cTable)] = e]   BY <1>1, <1>2
<1>4. /\ e \in NvmeRows /\ e.parts = l.parts \cup {} /\ e.dev = l.dev /\ e.valid
      /\ e.ns = l.ns /\ e.good = l.good
  <2> HIDE DEF l
  <2> QED BY <1>1 DEF NvmeRows
<1> HIDE DEF l, e
<1>5. NvmeRowWhole(e)
  <2>1. e.ns >= 1
    <3>1. cNn \in 1 .. MaxNamespaces + 1   BY <1>1 DEF RowSoFar
    <3>2. cNn >= 1 /\ MaxNamespaces >= 1   BY <3>1
    <3> QED BY <1>2, <1>4, <3>2
  <2>2. Controller!AdminQueue \cup Controller!IoQueue \cup {Controller!Identity} \subseteq e.parts
    BY <1>1, <1>4 DEF RowSoFar, WithAdmin, WithIo
  <2> QED BY <1>1, <1>4, <2>1, <2>2 DEF NvmeRowWhole
<1>6. cMem' = cMem \cup Controller!Of(cTable[Len(cTable)], {})   BY <1>2, NvmePartNames
<1>7. /\ NvmeTableWhole' /\ Len(cTable') = Len(cTable)
      /\ cTable'[Len(cTable)] = e
      /\ \A i \in 1 .. Len(cTable) - 1 : cTable'[i] = cTable[i]
  BY <1>1, <1>2, <1>3, <1>4, <1>5, <1>6, NvmeRowSet, Zenon
<1>8. cTable'[Len(cTable)].valid   BY <1>4, <1>7
<1> QED BY <1>1, <1>2, <1>7, <1>8, NvmeRowGoesOn, Zenon

\* Each step of nvme_init.
LEMMA NvmeSetupStep ==
  ASSUME MaxNamespaces \in Nat \ {0}, NvmeSetupInv, Controller!Next
  PROVE  NvmeSetupInv'
<1>0. MaxNamespaces \in Nat   OBVIOUS
<1> USE DEF Controller!Goes, Controller!Gains, Controller!Fails, Begun, WithAdmin, WithIo
<1>1. ASSUME NEW d \in Drives, Controller!Begin(d) PROVE NvmeSetupInv'
  BY <1>0, <1>1, NvmeRowAdded
<1>2. CASE Controller!MapBar
  <2>1. CASE Controller!Goes("map", "disable")   BY <1>0, <2>1, NvmeSetupGoes
  <2>2. CASE Controller!Fails("map")   BY <1>0, <2>2, NvmeSetupUndone
  <2> QED BY <1>2, <2>1, <2>2 DEF Controller!MapBar
<1>3. CASE Controller!Disable
  <2>1. CASE Controller!Goes("disable", "admin")   BY <1>0, <2>1, NvmeSetupGoes
  <2>2. CASE Controller!Fails("disable")   BY <1>0, <2>2, NvmeSetupUndone
  <2> QED BY <1>3, <2>1, <2>2 DEF Controller!Disable
<1>4. CASE Controller!SetupAdminQueue
  <2>1. CASE cAt = "admin" /\ Controller!Gains(Controller!AdminQueue, "enable")
    BY <1>0, <2>1, NvmeSetupGains, NvmePartNames
  <2>2. CASE Controller!Fails("admin")   BY <1>0, <2>2, NvmeSetupUndone
  <2> QED BY <1>4, <2>1, <2>2 DEF Controller!SetupAdminQueue
<1>5. CASE Controller!Enable
  <2>1. CASE Controller!Goes("enable", "ioqueue")   BY <1>0, <2>1, NvmeSetupGoes
  <2>2. CASE Controller!Fails("enable")   BY <1>0, <2>2, NvmeSetupUndone
  <2> QED BY <1>5, <2>1, <2>2 DEF Controller!Enable
<1>6. CASE Controller!SetupIoQueue
  <2>1. CASE cAt = "ioqueue" /\ Controller!Gains(Controller!IoQueue, "create_cq")
    BY <1>0, <2>1, NvmeSetupGains, NvmePartNames
  <2>2. CASE Controller!Fails("ioqueue")   BY <1>0, <2>2, NvmeSetupUndone
  <2> QED BY <1>6, <2>1, <2>2 DEF Controller!SetupIoQueue
<1>7. CASE Controller!CreateIoCq
  <2>1. CASE Controller!Goes("create_cq", "create_sq")   BY <1>0, <2>1, NvmeSetupGoes
  <2>2. CASE cAt = "create_cq" /\ Controller!DropIoQueue   BY <1>0, <2>2, NvmeSetupUndone
  <2> QED BY <1>7, <2>1, <2>2 DEF Controller!CreateIoCq
<1>8. CASE Controller!CreateIoSq
  <2>1. CASE Controller!Goes("create_sq", "identify")   BY <1>0, <2>1, NvmeSetupGoes
  <2>2. CASE cAt = "create_sq" /\ Controller!DropIoQueue   BY <1>0, <2>2, NvmeSetupUndone
  <2> QED BY <1>8, <2>1, <2>2 DEF Controller!CreateIoSq
<1>9. CASE Controller!IdentifyController
  <2>1. CASE Controller!Fails("identify")   BY <1>0, <2>1, NvmeSetupUndone
  <2>2. CASE ~Controller!Fails("identify")
    <3>1. /\ cAt = "identify" /\ cAt' = "namespaces" /\ cIdx' = cIdx
          /\ cNn' \in 1 .. MaxNamespaces + 1
          /\ cMem' = cMem \cup Controller!Of(Controller!Last, {Controller!Identity})
          /\ cTable' = [cTable EXCEPT ![Len(cTable)].parts
                                          = @ \cup {Controller!Identity}]
      BY <1>9, <2>2, NvmePartNames DEF Controller!IdentifyController
    <3> QED BY <1>0, <3>1, NvmeSetupGains
  <2> QED BY <2>1, <2>2
<1>10. CASE Controller!IdentifyNamespace   BY <1>0, <1>10, NvmeSetupNamespace
<1>11. CASE Controller!Finish   BY <1>11, NvmeSetupFinish
<1> QED BY <1>1, <1>2, <1>3, <1>4, <1>5, <1>6, <1>7, <1>8, <1>9, <1>10, <1>11 DEF Controller!Next

(***************************************************************************)
(* nvme_init (nvme.c), whichever of its steps fails, leaves the table and  *)
(* the memory in agreement: SetupInv always holds.                         *)
(***************************************************************************)
THEOREM NvmeSetupInductive == MaxNamespaces \in Nat \ {0} => (NvmeSetupSpec => []NvmeSetupInv)
<1> SUFFICES ASSUME MaxNamespaces \in Nat \ {0} PROVE NvmeSetupSpec => []NvmeSetupInv
  OBVIOUS
<1>1. Controller!Init => NvmeSetupInv
  <2> SUFFICES ASSUME Controller!Init PROVE NvmeSetupInv
    OBVIOUS
  <2>1. /\ cTable = <<>> /\ cMem = {} /\ cAt = "" /\ cIdx = [d \in Drives |-> -1]
    BY DEF Controller!Init
  <2>2. Len(cTable) = 0 /\ cTable \in Seq(NvmeRows)
    <3>1. Len(<<>>) = 0 /\ <<>> \in Seq(NvmeRows)   OBVIOUS
    <3> QED BY <2>1, <3>1, Zenon
  <2>3. NvmePointedTo(cTable, 0) = {}   BY DEF NvmePointedTo
  <2>6. (\A i : i \notin 1 .. 0) /\ (\A i : i \notin 1 .. 0 - 1) /\ ~(0 > 0)   OBVIOUS
  <2>4. NvmeTableWhole   BY <2>1, <2>2, <2>3, <2>6, Zenon DEF NvmeTableWhole
  <2>5. NvmeProgress
    <3>1. cIdx \in [Drives -> Int]
      <4>1. [d \in Drives |-> -1] \in [Drives -> Int]   OBVIOUS
      <4> QED BY <2>1, <4>1, Zenon
    <3>2. cAt \in Begun \cup {""}   BY <2>1
    <3> QED BY <2>1, <2>2, <2>6, <3>1, <3>2, Zenon DEF NvmeProgress
  <2> QED BY <2>4, <2>5 DEF NvmeSetupInv
<1>2. NvmeSetupInv /\ [Controller!Next]_(Controller!nvmeInitVars) => NvmeSetupInv'
  <2>1. CASE UNCHANGED Controller!nvmeInitVars
    <3>1. UNCHANGED <<cTable, cCap, cIdx, cMem, cAt, cNn>>   BY <2>1 DEF Controller!nvmeInitVars
    <3>2. NvmeSetupInv => NvmeSetupInv'   BY <3>1, Zenon DEF NvmeSetupInv, NvmeTableWhole,
          NvmeProgress
    <3> QED BY <3>2
  <2> QED BY <2>1, NvmeSetupStep
<1> QED BY <1>1, <1>2, PTL DEF NvmeSetupSpec

(***************************************************************************)
(* When nvme_init is over nothing is allocated that no controller points   *)
(* to, no pointer dangles at any time, and a valid controller answers for  *)
(* exactly its namespaces: ControllersWhole, for any number of devices and *)
(* namespaces.                                                             *)
(***************************************************************************)
THEOREM NvmeControllersWhole ==
  MaxNamespaces \in Nat \ {0} => (NvmeSetupSpec => []Controller!ControllersWhole)
<1> SUFFICES ASSUME MaxNamespaces \in Nat \ {0}
             PROVE  NvmeSetupSpec => []Controller!ControllersWhole
  OBVIOUS
<1>1. NvmeSetupInv => Controller!ControllersWhole
  <2> SUFFICES ASSUME NvmeSetupInv PROVE Controller!ControllersWhole
    OBVIOUS
  <2> DEFINE n == Len(cTable)
  <2>1. /\ cTable \in Seq(NvmeRows)
        /\ \A i \in 1 .. n : NvmeRowWhole(cTable[i])
        /\ cMem = NvmePointedTo(cTable, n)
    BY Zenon DEF NvmeSetupInv, NvmeTableWhole
  <2>2. n \in Nat /\ Controller!Count = n /\ \A i \in 1 .. n : cTable[i] \in NvmeRows
    BY <2>1, NvmePartNames
  <2>3. /\ \A i \in 1 .. n - 1 : cTable[i].valid
        /\ cAt = "" => (n > 0 => cTable[n].valid)
    BY Zenon DEF NvmeSetupInv, NvmeProgress
  <2> HIDE DEF n
  <2>4. Controller!NothingLeaked
    <3>2. \A i \in 1 .. n : n > 0 /\ (i = n \/ i \in 1 .. n - 1)   BY <2>2
    <3>1. cAt = "" => \A i \in 1 .. n : cTable[i].valid   BY <2>3, <3>2, Zenon
    <3> QED BY <2>1, <2>2, <3>1 DEF Controller!NothingLeaked, NvmePointedTo
  <2>5. Controller!NoDanglingPointer
    <3> SUFFICES ASSUME NEW i \in 1 .. n, NEW x \in Controller!Of(cTable[i], cTable[i].parts)
                 PROVE  x \in cMem
      BY <2>2 DEF Controller!NoDanglingPointer
    <3> QED BY <2>1, NvmePointed, Zenon
  <2>6. ASSUME NEW i \in 1 .. n, cTable[i].valid
        PROVE  /\ Controller!AdminQueue \cup Controller!IoQueue
                    \cup {Controller!Identity, Controller!Ns(1)} \subseteq cTable[i].parts
               /\ \A port \in 0 .. MaxNamespaces :
                    /\ Controller!AvailablePort(i - 1, port) <=> port < cTable[i].ns
                    /\ Controller!GetBlockDevice(i - 1, port) <=> port < cTable[i].ns
    <3> DEFINE e == cTable[i]
    <3>1. /\ e.ns \in 0 .. MaxNamespaces /\ e.good = 1 .. e.ns /\ e.ns >= 1
          /\ \A k \in Controller!Namespaces : Controller!Ns(k) \in e.parts <=> k \in e.good
          /\ Controller!AdminQueue \cup Controller!IoQueue \cup {Controller!Identity}
               \subseteq e.parts
      BY <2>1, <2>2, <2>6 DEF NvmeRows, NvmeRowWhole
    <3>2. 1 \in Controller!Namespaces /\ 1 \in e.good   BY <3>1, NvmePartNames
    <3>3. Controller!Ns(1) \in e.parts   BY <3>1, <3>2
    <3>4. ASSUME NEW port \in 0 .. MaxNamespaces
          PROVE  /\ Controller!AvailablePort(i - 1, port) <=> port < e.ns
                 /\ Controller!GetBlockDevice(i - 1, port) <=> port < e.ns
      <4>1. /\ i - 1 \in 0 .. n - 1 /\ i - 1 < n /\ i - 1 + 1 = i   BY <2>2
      <4>2. port < e.ns => port + 1 \in e.good /\ port + 1 \in Controller!Namespaces
        BY <3>1, NvmePartNames
      <4>3. port < e.ns => Controller!Ns(port + 1) \in e.parts   BY <3>1, <4>2
      <4>4. Controller!GetPcie(i - 1)   BY <2>2, <2>6, <4>1 DEF Controller!GetPcie
      <4> HIDE DEF e
      <4>5. e = cTable[i - 1 + 1] /\ e.valid /\ Controller!Identity \in e.parts
        BY <2>6, <3>1, <4>1 DEF e
      <4>6. Controller!AvailablePort(i - 1, port) <=> port < e.ns
        BY <2>2, <3>1, <4>1, <4>2, <4>5 DEF Controller!AvailablePort
      <4>7. Controller!GetBlockDevice(i - 1, port) <=> port < e.ns
        BY <4>2, <4>3, <4>4, <4>5 DEF Controller!GetBlockDevice
      <4> QED BY <4>6, <4>7
    <3> QED BY <3>1, <3>3, <3>4
  <2> QED BY <2>2, <2>4, <2>5, <2>6, NvmePartNames DEF Controller!ControllersWhole
<1> QED BY <1>1, NvmeSetupInductive, PTL

-----------------------------------------------------------------------------
(***************************************************************************)
(* A SATA port and its commands (SataPort), for any number of callers,     *)
(* commands and slots.                                                     *)
(***************************************************************************)
\* None is no caller and no request.
SataSensible == PortSlots \in Nat /\ None \notin Callers /\ None \notin Requests

SataSpec == Sata!Init /\ [][Sata!Next]_Sata!sataVars

SlotNumbers == 0 .. PortSlots - 1

-----------------------------------------------------------------------------
(* The inductive invariant, in parts. *)

\* Every variable has its type.
SataTypeOK ==
  /\ sPc \in [Callers -> {"out", "busy", "poll", "stop"}]
  /\ sReq \in [Callers -> Requests \cup {None}]
  /\ sSlot \in [Callers -> Int]
  /\ sLock \in Callers \cup {None}
  /\ sSt \in BOOLEAN /\ sCr \in BOOLEAN /\ sCi \subseteq SlotNumbers /\ sError \in BOOLEAN
  /\ sTable \in [SlotNumbers -> Requests \cup {None}]
  /\ sWork \subseteq SlotNumbers \X (Requests \cup {None})
  /\ sLive \subseteq Requests
  /\ sResult \in [Requests -> {"new", "done", "failed"}]
  /\ sExecuted \subseteq Requests \cup {None}

\* Whoever holds drive_lock is in a call with a request of its own; nobody else is.
SataHolderInCall ==
  \A p \in Callers :
    IF sLock = p THEN sPc[p] # "out" /\ sReq[p] \in Requests /\ sResult[sReq[p]] = "new"
                 ELSE sPc[p] = "out" /\ sReq[p] = None

\* An engine that is not running was told to stop, and has nothing in hand;
\* a caller that waits for CR to clear has cleared ST.
Halted == /\ ~sCr => ~sSt /\ sWork = {}
          /\ \A p \in Callers : sPc[p] = "stop" => ~sSt

\* The command of a caller that waits, on a port where nothing was ever
\* aborted: the only one, with the caller's buffer, and carried out once its
\* bit is clear.
OwnCommand(p) ==
  /\ sCi \subseteq {sSlot[p]} /\ sWork \subseteq {<<sSlot[p], sReq[p]>>}
  /\ sTable[sSlot[p]] = sReq[p]
  /\ sSlot[p] \notin sCi => sWork = {} /\ sReq[p] \in sExecuted

\* After an abort the bit of a command that waits is never cleared.
Waiting ==
  \A p \in Callers : sPc[p] = "poll" =>
    /\ sSlot[p] \in SlotNumbers /\ sReq[p] \in sLive
    /\ IF sSt THEN OwnCommand(p) ELSE sSlot[p] \in sCi

\* Without a command the port is quiet, until the first abort.
Quiet == sSt /\ (\A p \in Callers : sPc[p] # "poll") => sCi = {} /\ sWork = {}

SataInv ==
  /\ SataTypeOK /\ SataHolderInCall /\ Halted /\ Waiting /\ Quiet
  /\ Sata!DmaIntoLive /\ Sata!SuccessMeansExecuted

-----------------------------------------------------------------------------
(* One step keeps each part. *)

\* Types are kept; what is taken and done is a buffer that is allocated.
LEMMA SataTypeStep ==
  ASSUME SataSensible, SataTypeOK, SataHolderInCall, [Sata!Next]_Sata!sataVars
  PROVE  SataTypeOK'
<1>. USE DEF SataTypeOK, SataHolderInCall, SataSensible, SlotNumbers
<1>1. ASSUME NEW p \in Callers, NEW r \in Requests, Sata!Enter(p, r)
      PROVE  SataTypeOK'
  BY <1>1 DEF Sata!Enter, Sata!LockFree, Sata!Goto, Sata!device
<1>2. ASSUME NEW p \in Callers, Sata!Unable(p)
      PROVE  SataTypeOK'
  BY <1>2 DEF Sata!Unable, Sata!Returns, Sata!Goto, Sata!device
<1>3. ASSUME NEW p \in Callers, Sata!Issue(p)
      PROVE  SataTypeOK'
  <2>1. PICK s \in SlotNumbers : /\ sSlot' = [sSlot EXCEPT ![p] = s]
                                 /\ sTable' = [sTable EXCEPT ![s] = sReq[p]]
                                 /\ sCi' = sCi \cup {s}
    BY <1>3 DEF Sata!Issue
  <2>2. sLock = p
    BY <1>3 DEF Sata!Issue
  <2>3. s \in Int
    BY DEF SlotNumbers
  <2>4. QED
    BY <1>3, <2>1, <2>2, <2>3 DEF Sata!Issue, Sata!Goto
<1>4. ASSUME NEW p \in Callers, Sata!Finished(p)
      PROVE  SataTypeOK'
  BY <1>4 DEF Sata!Finished, Sata!Returns, Sata!Goto, Sata!device
<1>5. ASSUME NEW p \in Callers, Sata!AbortBegin(p)
      PROVE  SataTypeOK'
  BY <1>5 DEF Sata!AbortBegin, Sata!Goto
<1>6. ASSUME NEW p \in Callers, Sata!Stopped(p)
      PROVE  SataTypeOK'
  BY <1>6 DEF Sata!Stopped, Sata!Returns, Sata!Goto
<1>7. ASSUME NEW p \in Callers, Sata!Stuck(p)
      PROVE  SataTypeOK'
  BY <1>7 DEF Sata!Stuck, Sata!StuckKeeps, Sata!Returns, Sata!Goto, Sata!device
<1>8. ASSUME NEW s \in SlotNumbers, Sata!Take(s)
      PROVE  SataTypeOK'
  BY <1>8 DEF Sata!Take
<1>9. CASE Sata!Complete
  BY <1>9 DEF Sata!Complete
<1>10. CASE Sata!DiskError
  BY <1>10 DEF Sata!DiskError
<1>11. CASE Sata!EngineStops
  BY <1>11 DEF Sata!EngineStops
<1>12. CASE UNCHANGED Sata!sataVars
  BY <1>12 DEF Sata!sataVars
<1>13. QED
  BY <1>1, <1>2, <1>3, <1>4, <1>5, <1>6, <1>7, <1>8, <1>9, <1>10, <1>11, <1>12 DEF Sata!Next,
       SlotNumbers

\* drive_lock is taken on entry and given back with the answer, on every path.
LEMMA SataHolderStep ==
  ASSUME SataSensible, SataTypeOK, SataHolderInCall, [Sata!Next]_Sata!sataVars
  PROVE  SataHolderInCall'
<1>. USE DEF SataTypeOK, SataHolderInCall, SataSensible
<1>1. ASSUME NEW p \in Callers, NEW r \in Requests, Sata!Enter(p, r)
      PROVE  SataHolderInCall'
  BY <1>1 DEF Sata!Enter, Sata!LockFree, Sata!Goto, Sata!device
<1>2. ASSUME NEW p \in Callers, Sata!Unable(p)
      PROVE  SataHolderInCall'
  BY <1>2 DEF Sata!Unable, Sata!Returns, Sata!Goto, Sata!device
<1>3. ASSUME NEW p \in Callers, Sata!Issue(p)
      PROVE  SataHolderInCall'
  BY <1>3 DEF Sata!Issue, Sata!FreeSlot, Sata!Goto
<1>4. ASSUME NEW p \in Callers, Sata!Finished(p)
      PROVE  SataHolderInCall'
  BY <1>4 DEF Sata!Finished, Sata!Returns, Sata!Goto, Sata!device
<1>5. ASSUME NEW p \in Callers, Sata!AbortBegin(p)
      PROVE  SataHolderInCall'
  BY <1>5 DEF Sata!AbortBegin, Sata!Goto
<1>6. ASSUME NEW p \in Callers, Sata!Stopped(p)
      PROVE  SataHolderInCall'
  BY <1>6 DEF Sata!Stopped, Sata!Returns, Sata!Goto
<1>7. ASSUME NEW p \in Callers, Sata!Stuck(p)
      PROVE  SataHolderInCall'
  BY <1>7 DEF Sata!Stuck, Sata!StuckKeeps, Sata!Returns, Sata!Goto, Sata!device
<1>8. ASSUME NEW s \in SlotNumbers, Sata!Take(s)
      PROVE  SataHolderInCall'
  BY <1>8 DEF Sata!Take
<1>9. CASE Sata!Complete
  BY <1>9 DEF Sata!Complete
<1>10. CASE Sata!DiskError
  BY <1>10 DEF Sata!DiskError
<1>11. CASE Sata!EngineStops
  BY <1>11 DEF Sata!EngineStops
<1>12. CASE UNCHANGED Sata!sataVars
  BY <1>12 DEF Sata!sataVars
<1>13. QED
  BY <1>1, <1>2, <1>3, <1>4, <1>5, <1>6, <1>7, <1>8, <1>9, <1>10, <1>11, <1>12 DEF Sata!Next,
       SlotNumbers

\* Only the engine clears CR, with its work; nobody sets ST again.
LEMMA HaltedStep ==
  ASSUME SataSensible, SataTypeOK, SataHolderInCall, Halted, [Sata!Next]_Sata!sataVars
  PROVE  Halted'
<1>. USE DEF SataTypeOK, SataHolderInCall, Halted, SataSensible
<1>1. ASSUME NEW p \in Callers, NEW r \in Requests, Sata!Enter(p, r)
      PROVE  Halted'
  BY <1>1 DEF Sata!Enter, Sata!LockFree, Sata!Goto, Sata!device
<1>2. ASSUME NEW p \in Callers, Sata!Unable(p)
      PROVE  Halted'
  BY <1>2 DEF Sata!Unable, Sata!Returns, Sata!Goto, Sata!device
<1>3. ASSUME NEW p \in Callers, Sata!Issue(p)
      PROVE  Halted'
  BY <1>3 DEF Sata!Issue, Sata!FreeSlot, Sata!Goto
<1>4. ASSUME NEW p \in Callers, Sata!Finished(p)
      PROVE  Halted'
  BY <1>4 DEF Sata!Finished, Sata!Returns, Sata!Goto, Sata!device
<1>5. ASSUME NEW p \in Callers, Sata!AbortBegin(p)
      PROVE  Halted'
  BY <1>5 DEF Sata!AbortBegin, Sata!Goto
<1>6. ASSUME NEW p \in Callers, Sata!Stopped(p)
      PROVE  Halted'
  BY <1>6 DEF Sata!Stopped, Sata!Returns, Sata!Goto
<1>7. ASSUME NEW p \in Callers, Sata!Stuck(p)
      PROVE  Halted'
  BY <1>7 DEF Sata!Stuck, Sata!StuckKeeps, Sata!Returns, Sata!Goto, Sata!device
<1>8. ASSUME NEW s \in SlotNumbers, Sata!Take(s)
      PROVE  Halted'
  BY <1>8 DEF Sata!Take
<1>9. CASE Sata!Complete
  BY <1>9 DEF Sata!Complete
<1>10. CASE Sata!DiskError
  BY <1>10 DEF Sata!DiskError
<1>11. CASE Sata!EngineStops
  BY <1>11 DEF Sata!EngineStops
<1>12. CASE UNCHANGED Sata!sataVars
  BY <1>12 DEF Sata!sataVars
<1>13. QED
  BY <1>1, <1>2, <1>3, <1>4, <1>5, <1>6, <1>7, <1>8, <1>9, <1>10, <1>11, <1>12 DEF Sata!Next,
       SlotNumbers

\* A command is put on a quiet port, or on a port on which nothing finishes.
LEMMA WaitingStep ==
  ASSUME SataSensible, SataTypeOK, SataHolderInCall, Halted, Waiting, Quiet, Sata!DmaIntoLive,
         [Sata!Next]_Sata!sataVars
  PROVE  Waiting'
<1>. USE DEF SataTypeOK, SataHolderInCall, Halted, Waiting, OwnCommand, Quiet,
           Sata!DmaIntoLive, SlotNumbers, SataSensible
<1>1. ASSUME NEW p \in Callers, NEW r \in Requests, Sata!Enter(p, r)
      PROVE  Waiting'
  BY <1>1 DEF Sata!Enter, Sata!LockFree, Sata!Goto, Sata!device
<1>2. ASSUME NEW p \in Callers, Sata!Unable(p)
      PROVE  Waiting'
  BY <1>2 DEF Sata!Unable, Sata!Returns, Sata!Goto, Sata!device
<1>3. ASSUME NEW p \in Callers, Sata!Issue(p)
      PROVE  Waiting'
  BY <1>3 DEF Sata!Issue, Sata!FreeSlot, Sata!Goto
<1>4. ASSUME NEW p \in Callers, Sata!Finished(p)
      PROVE  Waiting'
  BY <1>4 DEF Sata!Finished, Sata!Returns, Sata!Goto, Sata!device
<1>5. ASSUME NEW p \in Callers, Sata!AbortBegin(p)
      PROVE  Waiting'
  BY <1>5 DEF Sata!AbortBegin, Sata!Goto
<1>6. ASSUME NEW p \in Callers, Sata!Stopped(p)
      PROVE  Waiting'
  BY <1>6 DEF Sata!Stopped, Sata!Returns, Sata!Goto
<1>7. ASSUME NEW p \in Callers, Sata!Stuck(p)
      PROVE  Waiting'
  BY <1>7 DEF Sata!Stuck, Sata!StuckKeeps, Sata!Returns, Sata!Goto, Sata!device
<1>8. ASSUME NEW s \in SlotNumbers, Sata!Take(s)
      PROVE  Waiting'
  BY <1>8 DEF Sata!Take
<1>9. CASE Sata!Complete
  <2>1. PICK w \in sWork : /\ sWork' = sWork \ {w}
                           /\ sExecuted' = sExecuted \cup {w[2]}
                           /\ sCi' = IF sSt THEN sCi \ {w[1]} ELSE sCi
    BY <1>9 DEF Sata!Complete
  <2>. SUFFICES ASSUME NEW p \in Callers, sPc'[p] = "poll"
                PROVE  /\ sSlot'[p] \in SlotNumbers /\ sReq'[p] \in sLive'
                       /\ IF sSt' THEN OwnCommand(p)' ELSE sSlot'[p] \in sCi'
    OBVIOUS
  <2>2. UNCHANGED <<sPc, sReq, sSlot, sSt, sTable, sLive>>
    BY <1>9 DEF Sata!Complete
  <2>3. CASE sSt
    <3>1. OwnCommand(p) /\ sReq[p] \in sLive /\ sSlot[p] \in SlotNumbers
      BY <2>2, <2>3
    <3>2. w = <<sSlot[p], sReq[p]>> /\ w[1] = sSlot[p] /\ w[2] = sReq[p]
      BY <3>1
    <3>3. sWork' = {} /\ sReq[p] \in sExecuted' /\ sCi' \subseteq {sSlot[p]}
      BY <2>1, <2>3, <3>1, <3>2
    <3>4. QED
      BY <2>2, <2>3, <3>1, <3>3
  <2>4. CASE ~sSt
    BY <2>1, <2>2, <2>4
  <2>5. QED
    BY <2>3, <2>4
<1>10. CASE Sata!DiskError
  BY <1>10 DEF Sata!DiskError
<1>11. CASE Sata!EngineStops
  BY <1>11 DEF Sata!EngineStops
<1>12. CASE UNCHANGED Sata!sataVars
  BY <1>12 DEF Sata!sataVars
<1>13. QED
  BY <1>1, <1>2, <1>3, <1>4, <1>5, <1>6, <1>7, <1>8, <1>9, <1>10, <1>11, <1>12 DEF Sata!Next,
       SlotNumbers

\* A command that finished leaves nothing; one that was aborted ends the quiet for good.
LEMMA QuietStep ==
  ASSUME SataSensible, SataTypeOK, SataHolderInCall, Halted, Waiting, Quiet,
         [Sata!Next]_Sata!sataVars
  PROVE  Quiet'
<1>. USE DEF SataTypeOK, SataHolderInCall, Halted, Waiting, OwnCommand, Quiet, SataSensible
<1>1. ASSUME NEW p \in Callers, NEW r \in Requests, Sata!Enter(p, r)
      PROVE  Quiet'
  BY <1>1 DEF Sata!Enter, Sata!LockFree, Sata!Goto, Sata!device
<1>2. ASSUME NEW p \in Callers, Sata!Unable(p)
      PROVE  Quiet'
  BY <1>2 DEF Sata!Unable, Sata!Returns, Sata!Goto, Sata!device
<1>3. ASSUME NEW p \in Callers, Sata!Issue(p)
      PROVE  Quiet'
  BY <1>3 DEF Sata!Issue, Sata!FreeSlot, Sata!Goto
<1>4. ASSUME NEW p \in Callers, Sata!Finished(p)
      PROVE  Quiet'
  BY <1>4 DEF Sata!Finished, Sata!Returns, Sata!Goto, Sata!device
<1>5. ASSUME NEW p \in Callers, Sata!AbortBegin(p)
      PROVE  Quiet'
  BY <1>5 DEF Sata!AbortBegin, Sata!Goto
<1>6. ASSUME NEW p \in Callers, Sata!Stopped(p)
      PROVE  Quiet'
  BY <1>6 DEF Sata!Stopped, Sata!Returns, Sata!Goto
<1>7. ASSUME NEW p \in Callers, Sata!Stuck(p)
      PROVE  Quiet'
  BY <1>7 DEF Sata!Stuck, Sata!StuckKeeps, Sata!Returns, Sata!Goto, Sata!device
<1>8. ASSUME NEW s \in SlotNumbers, Sata!Take(s)
      PROVE  Quiet'
  BY <1>8 DEF Sata!Take
<1>9. CASE Sata!Complete
  BY <1>9 DEF Sata!Complete
<1>10. CASE Sata!DiskError
  BY <1>10 DEF Sata!DiskError
<1>11. CASE Sata!EngineStops
  BY <1>11 DEF Sata!EngineStops
<1>12. CASE UNCHANGED Sata!sataVars
  BY <1>12 DEF Sata!sataVars
<1>13. QED
  BY <1>1, <1>2, <1>3, <1>4, <1>5, <1>6, <1>7, <1>8, <1>9, <1>10, <1>11, <1>12 DEF Sata!Next,
       SlotNumbers

\* A buffer is freed only when nothing is in hand.
LEMMA DmaStep ==
  ASSUME SataSensible, SataTypeOK, SataHolderInCall, Halted, Waiting, Quiet, Sata!DmaIntoLive,
         [Sata!Next]_Sata!sataVars
  PROVE  Sata!DmaIntoLive'
<1>. USE DEF SataTypeOK, SataHolderInCall, Halted, Waiting, OwnCommand, Quiet,
           Sata!DmaIntoLive, SlotNumbers, SataSensible
<1>1. ASSUME NEW p \in Callers, NEW r \in Requests, Sata!Enter(p, r)
      PROVE  Sata!DmaIntoLive'
  BY <1>1 DEF Sata!Enter, Sata!LockFree, Sata!Goto, Sata!device
<1>2. ASSUME NEW p \in Callers, Sata!Unable(p)
      PROVE  Sata!DmaIntoLive'
  BY <1>2 DEF Sata!Unable, Sata!Returns, Sata!Goto, Sata!device
<1>3. ASSUME NEW p \in Callers, Sata!Issue(p)
      PROVE  Sata!DmaIntoLive'
  BY <1>3 DEF Sata!Issue, Sata!FreeSlot, Sata!Goto
<1>4. ASSUME NEW p \in Callers, Sata!Finished(p)
      PROVE  Sata!DmaIntoLive'
  BY <1>4 DEF Sata!Finished, Sata!Returns, Sata!Goto, Sata!device
<1>5. ASSUME NEW p \in Callers, Sata!AbortBegin(p)
      PROVE  Sata!DmaIntoLive'
  BY <1>5 DEF Sata!AbortBegin, Sata!Goto
<1>6. ASSUME NEW p \in Callers, Sata!Stopped(p)
      PROVE  Sata!DmaIntoLive'
  BY <1>6 DEF Sata!Stopped, Sata!Returns, Sata!Goto
<1>7. ASSUME NEW p \in Callers, Sata!Stuck(p)
      PROVE  Sata!DmaIntoLive'
  BY <1>7 DEF Sata!Stuck, Sata!StuckKeeps, Sata!Returns, Sata!Goto, Sata!device
<1>8. ASSUME NEW s \in SlotNumbers, Sata!Take(s)
      PROVE  Sata!DmaIntoLive'
  BY <1>8 DEF Sata!Take
<1>9. CASE Sata!Complete
  BY <1>9 DEF Sata!Complete
<1>10. CASE Sata!DiskError
  BY <1>10 DEF Sata!DiskError
<1>11. CASE Sata!EngineStops
  BY <1>11 DEF Sata!EngineStops
<1>12. CASE UNCHANGED Sata!sataVars
  BY <1>12 DEF Sata!sataVars
<1>13. QED
  BY <1>1, <1>2, <1>3, <1>4, <1>5, <1>6, <1>7, <1>8, <1>9, <1>10, <1>11, <1>12 DEF Sata!Next,
       SlotNumbers

\* Success is answered where the bit is clear, which is where the disk did it.
LEMMA SuccessStep ==
  ASSUME SataSensible, SataTypeOK, SataHolderInCall, Halted, Waiting, Sata!SuccessMeansExecuted,
         [Sata!Next]_Sata!sataVars
  PROVE  Sata!SuccessMeansExecuted'
<1>. USE DEF SataTypeOK, SataHolderInCall, Halted, Waiting, OwnCommand, Sata!SuccessMeansExecuted,
     SataSensible
<1>1. ASSUME NEW p \in Callers, NEW r \in Requests, Sata!Enter(p, r)
      PROVE  Sata!SuccessMeansExecuted'
  BY <1>1 DEF Sata!Enter, Sata!LockFree, Sata!Goto, Sata!device
<1>2. ASSUME NEW p \in Callers, Sata!Unable(p)
      PROVE  Sata!SuccessMeansExecuted'
  BY <1>2 DEF Sata!Unable, Sata!Returns, Sata!Goto, Sata!device
<1>3. ASSUME NEW p \in Callers, Sata!Issue(p)
      PROVE  Sata!SuccessMeansExecuted'
  BY <1>3 DEF Sata!Issue, Sata!FreeSlot, Sata!Goto
<1>4. ASSUME NEW p \in Callers, Sata!Finished(p)
      PROVE  Sata!SuccessMeansExecuted'
  BY <1>4 DEF Sata!Finished, Sata!Returns, Sata!Goto, Sata!device
<1>5. ASSUME NEW p \in Callers, Sata!AbortBegin(p)
      PROVE  Sata!SuccessMeansExecuted'
  BY <1>5 DEF Sata!AbortBegin, Sata!Goto
<1>6. ASSUME NEW p \in Callers, Sata!Stopped(p)
      PROVE  Sata!SuccessMeansExecuted'
  BY <1>6 DEF Sata!Stopped, Sata!Returns, Sata!Goto
<1>7. ASSUME NEW p \in Callers, Sata!Stuck(p)
      PROVE  Sata!SuccessMeansExecuted'
  BY <1>7 DEF Sata!Stuck, Sata!StuckKeeps, Sata!Returns, Sata!Goto, Sata!device
<1>8. ASSUME NEW s \in SlotNumbers, Sata!Take(s)
      PROVE  Sata!SuccessMeansExecuted'
  BY <1>8 DEF Sata!Take
<1>9. CASE Sata!Complete
  BY <1>9 DEF Sata!Complete
<1>10. CASE Sata!DiskError
  BY <1>10 DEF Sata!DiskError
<1>11. CASE Sata!EngineStops
  BY <1>11 DEF Sata!EngineStops
<1>12. CASE UNCHANGED Sata!sataVars
  BY <1>12 DEF Sata!sataVars
<1>13. QED
  BY <1>1, <1>2, <1>3, <1>4, <1>5, <1>6, <1>7, <1>8, <1>9, <1>10, <1>11, <1>12 DEF Sata!Next,
       SlotNumbers

-----------------------------------------------------------------------------
(* The theorems. *)

\* A port that sata_port_init has started satisfies every part.
LEMMA SataInitInv == SataSensible /\ Sata!Init => SataInv
<1>. SUFFICES ASSUME SataSensible, Sata!Init PROVE SataInv
  OBVIOUS
<1>. USE DEF SataSensible, Sata!Init, SlotNumbers
<1>1. SataTypeOK
  <2>1. \A s \in Callers : 0 \in Int
    OBVIOUS
  <2>2. QED
    BY <2>1 DEF SataTypeOK
<1>2. SataHolderInCall /\ Halted /\ Waiting /\ Quiet
  BY DEF SataHolderInCall, Halted, Waiting, Quiet
<1>3. Sata!DmaIntoLive /\ Sata!SuccessMeansExecuted
  BY DEF Sata!DmaIntoLive, Sata!SuccessMeansExecuted
<1>4. QED
  BY <1>1, <1>2, <1>3 DEF SataInv

\* The invariant holds in every state the driver and the engine can reach.
THEOREM SataInductive == SataSensible => (SataSpec => []SataInv)
<1>. SUFFICES ASSUME SataSensible PROVE SataSpec => []SataInv
  OBVIOUS
<1>1. SataInv /\ [Sata!Next]_Sata!sataVars => SataInv'
  BY SataTypeStep, SataHolderStep, HaltedStep, WaitingStep, QuietStep, DmaStep,
       SuccessStep DEF SataInv
<1>2. Sata!Init => SataInv
  BY SataInitInv
<1>3. QED
  BY <1>1, <1>2, PTL DEF SataSpec

\* The engine never transfers to or from a bounce buffer that was freed:
\* not after a time-out, and not if it does not stop (sata_abort_command).
THEOREM SataBuffersLive == SataSensible => (SataSpec => []Sata!DmaIntoLive)
<1>1. SataInv => Sata!DmaIntoLive
  BY DEF SataInv
<1>2. QED
  BY <1>1, SataInductive, PTL

\* A transfer that reports success was carried out by the disk: no wait is
\* ended by the late command of an earlier caller.
THEOREM SataAnswersTrue == SataSensible => (SataSpec => []Sata!SuccessMeansExecuted)
<1>1. SataInv => Sata!SuccessMeansExecuted
  BY DEF SataInv
<1>2. QED
  BY <1>1, SataInductive, PTL

-----------------------------------------------------------------------------
(***************************************************************************)
(* The start of the SATA controllers (SataController), for any number of   *)
(* modules, ports and growths of the table.                                *)
(***************************************************************************)
SataSetupSpec == Ahci!Init /\ [][Ahci!Next]_(Ahci!sataInitVars)

PortNumbers == 0 .. Ports - 1
SataRows == [mod : Drives, valid : BOOLEAN, active : SUBSET PortNumbers, ready : SUBSET PortNumbers]

\* A port is reported when it can be read; a valid controller has one.
SataRowWhole(e) == e.ready = e.active /\ (e.valid => e.ready # {})

\* The structures of a row, and of the first n rows.
OfRow(e) == {e.mod} \X e.active \X Ahci!Structures
SataPointedTo(rows, n) == UNION {OfRow(rows[i]) : i \in 1 .. n}

\* A module has one row at most, and what is allocated is what rows point to.
SataTableWhole ==
  /\ aTable \in Seq(SataRows)
  /\ \A i \in 1 .. Len(aTable) : SataRowWhole(aTable[i])
  /\ \A i \in 1 .. Len(aTable) : aIdx[aTable[i].mod] # -1
  /\ \A i, j \in 1 .. Len(aTable) : aTable[i].mod = aTable[j].mod => i = j
  /\ aMem = SataPointedTo(aTable, Len(aTable))

\* A port that runs is up in a row, but for those that did not do as they were told.
EnginesListed ==
  /\ aOn \subseteq Drives \X PortNumbers
  /\ \A x \in aOn \ aStuck : \E i \in 1 .. Len(aTable) :
       x[1] = aTable[i].mod /\ x[2] \in aTable[i].active

SataProgress ==
  /\ aIdx \in [Drives -> Int]
  /\ aPort \in -3 .. Ports
  /\ \A i \in 1 .. Len(aTable) - 1 : aTable[i].valid
  /\ Len(aTable) > 0 => (aTable[Len(aTable)].valid <=> aPort = -2)
  /\ aPort # -2 => Len(aTable) > 0

SataSetupInv == SataTableWhole /\ EnginesListed /\ SataProgress

\* The names a proof needs to read.
LEMMA SataPartNames ==
  /\ Ahci!Count = Len(aTable)
  /\ Ahci!Last = aTable[Len(aTable)]
  /\ \A i : Ahci!Mine(i) = {Ahci!Last.mod} \X {i} \X Ahci!Structures
  /\ Ahci!StoppedByDestroy = {Ahci!Last.mod} \X Ahci!Last.active
  /\ Ahci!FreedByDestroy = {x \in aMem : x[1] = Ahci!Last.mod}
BY DEF Ahci!Count, Ahci!Last, Ahci!Mine, Ahci!StoppedByDestroy, Ahci!FreedByDestroy

\* What rows point to, one by one.
LEMMA SataPointed ==
  ASSUME NEW rows, NEW n, NEW x
  PROVE  x \in SataPointedTo(rows, n) <=> \E i \in 1 .. n : x \in OfRow(rows[i])
BY DEF SataPointedTo

\* The last row goes, with what it points to.
LEMMA SataRowGone ==
  ASSUME SataSetupInv, NEW n \in Nat, Len(aTable) = n + 1,
         aTable' \in Seq(SataRows), Len(aTable') = n,
         \A i \in 1 .. n : aTable'[i] = aTable[i],
         aMem' = {x \in aMem : x[1] # aTable[n + 1].mod},
         aOn' \subseteq Drives \X PortNumbers,
         \A x \in aOn' \ aStuck' : /\ x \in aOn \ aStuck
                                   /\ x \notin {aTable[n + 1].mod} \X aTable[n + 1].active,
         aPort' = -2, -2 \in -3 .. Ports, aCap' = aCap, aIdx' = aIdx
  PROVE  SataSetupInv'
<1> USE DEF SataSetupInv
<1>0. /\ \A i \in 1 .. n + 1 : SataRowWhole(aTable[i])
      /\ \A i \in 1 .. n + 1 : aIdx[aTable[i].mod] # -1
      /\ \A i, j \in 1 .. n + 1 : aTable[i].mod = aTable[j].mod => i = j
      /\ aMem = SataPointedTo(aTable, n + 1)
  BY Zenon DEF SataTableWhole
<1>1. 1 .. n \subseteq 1 .. n + 1 /\ n + 1 \in 1 .. n + 1 /\ n + 1 \notin 1 .. n
      /\ \A i \in 1 .. n + 1 : i \in 1 .. n \/ i = n + 1
  BY OneMore
<1>2. (\A i \in 1 .. Len(aTable) : SataRowWhole(aTable[i]))'
  BY <1>0, <1>1, Zenon
<1>3. (\A i \in 1 .. Len(aTable) : aIdx[aTable[i].mod] # -1)'
  BY <1>0, <1>1, Zenon
<1>4. (\A i, j \in 1 .. Len(aTable) : aTable[i].mod = aTable[j].mod => i = j)'
  BY <1>0, <1>1, Zenon
<1>5. aMem' = SataPointedTo(aTable', n)
  <2>1. \A i \in 1 .. n : aTable[i].mod # aTable[n + 1].mod   BY <1>0, <1>1, Zenon
  <2>2. \A e : \A x \in OfRow(e) : x[1] = e.mod   BY DEF OfRow
  <2>3. \A x : x \in aMem <=> \E i \in 1 .. n + 1 : x \in OfRow(aTable[i])
    BY <1>0, SataPointed, Zenon
  <2>4. \A x : x \in aMem' <=> x \in aMem /\ x[1] # aTable[n + 1].mod   OBVIOUS
  <2>5. \A x : x \in aMem' <=> \E i \in 1 .. n : x \in OfRow(aTable'[i])
    <3>1. ASSUME NEW x \in aMem' PROVE \E i \in 1 .. n : x \in OfRow(aTable'[i])
      <4>1. PICK i \in 1 .. n + 1 : x \in OfRow(aTable[i])   BY <2>3, <2>4, Zenon
      <4>2. i # n + 1   BY <2>2, <2>4, <4>1, Zenon
      <4>3. i \in 1 .. n   BY <1>1, <4>2, Zenon
      <4> QED BY <4>1, <4>3, Zenon
    <3>2. ASSUME NEW i \in 1 .. n, NEW x \in OfRow(aTable'[i]) PROVE x \in aMem'
      <4>1. x \in OfRow(aTable[i])   BY Zenon
      <4>2. x[1] = aTable[i].mod   BY <2>2, <4>1, Zenon
      <4>3. i \in 1 .. n + 1   BY <1>1, Zenon
      <4> QED BY <2>1, <2>3, <2>4, <4>1, <4>2, <4>3, Zenon
    <3> QED BY <3>1, <3>2, Zenon
  <2>6. \A x : x \in aMem' <=> x \in SataPointedTo(aTable', n)   BY <2>5, SataPointed, Zenon
  <2> QED BY <2>6
<1>6. SataTableWhole'   BY <1>2, <1>3, <1>4, <1>5 DEF SataTableWhole
<1>7. EnginesListed'
  <2> SUFFICES ASSUME NEW x \in aOn' \ aStuck'
               PROVE  \E i \in 1 .. n :
                        x[1] = aTable'[i].mod /\ x[2] \in aTable'[i].active
    BY Zenon DEF EnginesListed
  <2>1. PICK i \in 1 .. n + 1 : x[1] = aTable[i].mod /\ x[2] \in aTable[i].active
    BY Zenon DEF EnginesListed
  <2>2. i # n + 1
    <3>1. x \in Drives \X PortNumbers   OBVIOUS
    <3>2. x = <<x[1], x[2]>>   BY <3>1
    <3> QED BY <2>1, <3>2
  <2> QED BY <1>1, <2>1, <2>2, Zenon
<1>8. SataProgress'
  <2>1. /\ \A i \in 1 .. Len(aTable) - 1 : aTable[i].valid
        /\ aIdx \in [Drives -> Int]
    BY Zenon DEF SataProgress
  <2>2. Len(aTable) - 1 = n   BY OneMore, Zenon
  <2>3. \A i \in 1 .. n : aTable'[i].valid   BY <2>1, <2>2, Zenon
  <2>4. /\ \A i \in 1 .. n - 1 : aTable'[i].valid
        /\ n > 0 => aTable'[n].valid
    BY <2>3, OneMore, Zenon
  <2> QED BY <2>1, <2>4, Zenon DEF SataProgress
<1> QED BY <1>6, <1>7, <1>8

\* The last row changes: it gains what is allocated for it.
LEMMA SataRowSet ==
  ASSUME SataSetupInv, Len(aTable) > 0, NEW e \in SataRows, SataRowWhole(e), NEW more,
         e.mod = aTable[Len(aTable)].mod,
         e.active = aTable[Len(aTable)].active \cup more,
         aTable' = [aTable EXCEPT ![Len(aTable)] = e],
         aMem' = aMem \cup {e.mod} \X more \X Ahci!Structures,
         aIdx' = aIdx
  PROVE  /\ SataTableWhole' /\ Len(aTable') = Len(aTable)
         /\ aTable'[Len(aTable)] = e
         /\ \A i \in 1 .. Len(aTable) - 1 : aTable'[i] = aTable[i]
<1> DEFINE n == Len(aTable)
<1> USE DEF SataSetupInv
<1>0. /\ aTable \in Seq(SataRows)
      /\ \A i \in 1 .. n : SataRowWhole(aTable[i])
      /\ \A i \in 1 .. n : aIdx[aTable[i].mod] # -1
      /\ \A i, j \in 1 .. n : aTable[i].mod = aTable[j].mod => i = j
      /\ aMem = SataPointedTo(aTable, n)
  BY Zenon DEF SataTableWhole
<1>1. n \in Nat /\ n > 0 /\ \A i \in 1 .. n : aTable[i] \in SataRows
  BY <1>0
<1>2. /\ aTable' \in Seq(SataRows) /\ Len(aTable') = n /\ aTable'[n] = e
      /\ \A i \in 1 .. n - 1 : aTable'[i] = aTable[i]
  BY <1>0, <1>1
<1>3. \A i \in 1 .. n : i = n \/ i \in 1 .. n - 1   BY <1>1
<1> HIDE DEF n
<1>4. \A i \in 1 .. n : aTable'[i].mod = aTable[i].mod
  <2> TAKE i \in 1 .. n
  <2>1. CASE i = n   BY <2>1, <1>2 DEF n
  <2>2. CASE i \in 1 .. n - 1   BY <2>2, <1>2
  <2> QED BY <2>1, <2>2, <1>3
<1>5. (\A i \in 1 .. Len(aTable) : SataRowWhole(aTable[i]))'
  BY <1>0, <1>1, <1>2
<1>6. (\A i \in 1 .. Len(aTable) : aIdx[aTable[i].mod] # -1)'
  BY <1>0, <1>1, <1>2, <1>4
<1>7. (\A i, j \in 1 .. Len(aTable) : aTable[i].mod = aTable[j].mod => i = j)'
  BY <1>0, <1>1, <1>2, <1>4
<1>8. aMem' = SataPointedTo(aTable', n)
  <2>1. aTable'[n].mod = e.mod /\ aTable[n].mod = e.mod   BY <1>2 DEF n
  <2>2. aTable'[n].active = aTable[n].active \cup more   BY <1>2 DEF n
  <2>3. \A x : x \in OfRow(aTable'[n])
          <=> x \in OfRow(aTable[n]) \cup {e.mod} \X more \X Ahci!Structures
    BY <2>1, <2>2 DEF OfRow
  <2>4. \A x : x \in aMem <=> \E i \in 1 .. n : x \in OfRow(aTable[i])
    BY <1>0, SataPointed, Zenon
  <2>5. \A x : x \in aMem' <=> \E i \in 1 .. n : x \in OfRow(aTable'[i])
    <3>1. n \in 1 .. n   BY <1>1
    <3>2. \A i \in 1 .. n : i = n \/ aTable'[i] = aTable[i]   BY <1>2, <1>3, Zenon
    <3> QED BY <2>3, <2>4, <3>1, <3>2
  <2>6. \A x : x \in aMem' <=> x \in SataPointedTo(aTable', n)   BY <2>5, SataPointed, Zenon
  <2> QED BY <2>6
<1> QED BY <1>2, <1>5, <1>6, <1>7, <1>8, Zenon DEF SataTableWhole, n

\* So the row may go on with sata_init, or be valid at its end.
LEMMA SataRowGoesOn ==
  ASSUME SataSetupInv, Len(aTable) > 0, SataTableWhole', EnginesListed', aIdx' = aIdx,
         Len(aTable') = Len(aTable),
         \A i \in 1 .. Len(aTable) - 1 : aTable'[i] = aTable[i],
         aPort' \in -3 .. Ports,
         aTable'[Len(aTable)].valid <=> aPort' = -2
  PROVE  SataSetupInv'
<1>1. /\ \A i \in 1 .. Len(aTable) - 1 : aTable[i].valid
      /\ aIdx \in [Drives -> Int]
  BY Zenon DEF SataSetupInv, SataProgress
<1>2. \A i \in 1 .. Len(aTable') - 1 : aTable'[i].valid   BY <1>1, Zenon
<1> QED BY <1>1, <1>2, Zenon DEF SataSetupInv, SataProgress

\* What is known of the row that sata_init works on.
LEMMA SataLastRow ==
  ASSUME SataSetupInv, aPort # -2
  PROVE  /\ Len(aTable) \in Nat /\ Len(aTable) > 0
         /\ Ahci!Last \in SataRows /\ SataRowWhole(Ahci!Last) /\ ~Ahci!Last.valid
         /\ Ahci!Last = aTable[Len(aTable)]
<1>1. Len(aTable) > 0 /\ ~aTable[Len(aTable)].valid
  BY Zenon DEF SataSetupInv, SataProgress
<1>2. aTable \in Seq(SataRows) /\ \A i \in 1 .. Len(aTable) : SataRowWhole(aTable[i])
  BY Zenon DEF SataSetupInv, SataTableWhole
<1>3. Len(aTable) \in Nat /\ Len(aTable) \in 1 .. Len(aTable)
  BY <1>1, <1>2, LenIn
<1>4. aTable[Len(aTable)] \in SataRows   BY <1>1, <1>2, LenIn, Zenon
<1> QED BY <1>1, <1>2, <1>3, <1>4, SataPartNames, Zenon

\* sata_destroy, and the failure of a port whose engine was started before it.
LEMMA SataSetupUndone ==
  ASSUME Ports \in Nat, SataSetupInv, aPort # -2, Ahci!Destroy \/ Ahci!PortBusy
  PROVE  SataSetupInv'
<1> DEFINE l == Ahci!Last
<1>1. PICK n \in Nat : Len(aTable) = n + 1   BY SataLastRow, Before
<1>2. aTable \in Seq(SataRows)   BY Zenon DEF SataSetupInv, SataTableWhole
<1>3. /\ aTable' = SubSeq(aTable, 1, Len(aTable) - 1)
      /\ aPort' = -2 /\ aCap' = aCap /\ aIdx' = aIdx
      /\ aMem' = aMem \ {x \in aMem : x[1] = l.mod}
  BY Zenon, SataPartNames DEF Ahci!Destroy, Ahci!PortBusy
<1>4. Len(aTable) - 1 = n   BY <1>1, OneMore, Zenon
<1>5. /\ aTable' \in Seq(SataRows) /\ Len(aTable') = n
      /\ \A i \in 1 .. n : aTable'[i] = aTable[i]
  BY <1>1, <1>2, <1>3, <1>4, Shorter, Zenon
<1>6. l = aTable[n + 1]   BY <1>1, SataLastRow, Zenon
<1>7. aMem' = {x \in aMem : x[1] # l.mod}
  <2> HIDE DEF l
  <2> QED BY <1>3
<1>8. aOn \subseteq Drives \X PortNumbers /\ l.mod \in Drives
  BY SataLastRow DEF SataRows, SataSetupInv, EnginesListed
<1>9. /\ aOn' \subseteq Drives \X PortNumbers
      /\ \A x \in aOn' \ aStuck' : x \in aOn \ aStuck /\ x \notin {l.mod} \X l.active
  <2> DEFINE S == {l.mod} \X l.active
  <2>1. CASE Ahci!Destroy
    <3>1. PICK late \in SUBSET S : aOn' = aOn \ {x \in S : x \notin late}
          /\ aStuck' = aStuck \cup late
      BY <2>1, SataPartNames DEF Ahci!Destroy, Ahci!Stops
    <3> HIDE DEF S, l
    <3> QED BY <1>8, <3>1 DEF S
  <2>2. CASE Ahci!PortBusy
    <3>1. PICK late \in SUBSET S :
             /\ aOn' = (aOn \ {x \in S : x \notin late}) \cup {<<l.mod, aPort>>}
             /\ aStuck' = aStuck \cup late \cup {<<l.mod, aPort>>}
      BY <2>2, SataPartNames DEF Ahci!PortBusy
    <3>2. aPort \in PortNumbers   BY <2>2 DEF Ahci!PortBusy, PortNumbers
    <3> HIDE DEF S, l
    <3> QED BY <1>8, <3>1, <3>2 DEF S
  <2> QED BY <2>1, <2>2
<1>10. -2 \in -3 .. Ports   OBVIOUS
<1> HIDE DEF l
<1> QED BY <1>1, <1>3, <1>5, <1>6, <1>7, <1>9, <1>10, SataRowGone, Zenon

\* A row is added, for a module that has none.
LEMMA SataRowAdded ==
  ASSUME Ports \in Nat, SataSetupInv, NEW d \in Drives, Ahci!Begin(d)
  PROVE  SataSetupInv'
<1> DEFINE e == [mod |-> d, valid |-> FALSE, active |-> {}, ready |-> {}]
           n == Len(aTable)
<1> USE DEF SataSetupInv
<1>1. CASE UNCHANGED <<aTable, aCap, aIdx, aMem, aOn, aStuck, aPort>>
  <2>1. SataTableWhole'   BY <1>1, Zenon DEF SataTableWhole
  <2>2. EnginesListed'   BY <1>1, Zenon DEF EnginesListed
  <2>3. SataProgress'   BY <1>1 DEF SataProgress
  <2> QED BY <2>1, <2>2, <2>3
<1>2. CASE aTable' = Append(aTable, e)
  <2>1. /\ aIdx' = [aIdx EXCEPT ![d] = n] /\ aPort = -2 /\ aPort' = -1 /\ aIdx[d] = -1
        /\ aMem' = aMem /\ aOn' = aOn /\ aStuck' = aStuck
    <3>1. Ahci!Count = n   BY DEF Ahci!Count
    <3>2. aTable' # aTable
      <4>1. aTable \in Seq(SataRows)   BY Zenon DEF SataTableWhole
      <4> QED BY <1>2, <4>1
    <3> QED BY <3>1, <3>2 DEF Ahci!Begin
  <2>2. e \in SataRows /\ SataRowWhole(e) /\ e.mod = d /\ e.active = {} /\ ~e.valid
    BY DEF SataRows, SataRowWhole
  <2>3. /\ aTable \in Seq(SataRows) /\ n \in Nat
        /\ aTable' \in Seq(SataRows) /\ Len(aTable') = n + 1 /\ aTable'[n + 1] = e
        /\ \A i \in 1 .. n : aTable'[i] = aTable[i]
    <3>1. aTable \in Seq(SataRows)   BY Zenon DEF SataTableWhole
    <3> QED BY <1>2, <2>2, <3>1
  <2> HIDE DEF e, n
  <2>4. /\ \A i \in 1 .. n : SataRowWhole(aTable[i])
        /\ \A i \in 1 .. n : aIdx[aTable[i].mod] # -1
        /\ \A i, j \in 1 .. n : aTable[i].mod = aTable[j].mod => i = j
        /\ aMem = SataPointedTo(aTable, n)
        /\ aIdx \in [Drives -> Int]
    BY Zenon DEF SataTableWhole, SataProgress, n
  <2>5. /\ 1 .. n \subseteq 1 .. n + 1 /\ n + 1 \in 1 .. n + 1 /\ n + 1 \notin 1 .. n
        /\ \A i \in 1 .. n + 1 : i \in 1 .. n \/ i = n + 1
        /\ n + 1 > 0 /\ n + 1 - 1 = n
    BY <2>3
  <2>6. \A i \in 1 .. n : aTable[i].mod # d   BY <2>1, <2>4
  <2>7. aIdx' \in [Drives -> Int] /\ aIdx'[d] = n /\ n # -1
    <3>1. n \in Nat /\ aIdx \in [Drives -> Int] /\ aIdx' = [aIdx EXCEPT ![d] = n]
      BY <2>1, <2>3, <2>4, Zenon
    <3> QED BY <3>1
  <2>8. (\A i \in 1 .. Len(aTable) : SataRowWhole(aTable[i]))'
    BY <2>2, <2>3, <2>4, <2>5, Zenon
  <2>9. (\A i \in 1 .. Len(aTable) : aIdx[aTable[i].mod] # -1)'
    <3> SUFFICES ASSUME NEW i \in 1 .. n + 1 PROVE aIdx'[aTable'[i].mod] # -1
      BY <2>3, Zenon
    <3>1. CASE i \in 1 .. n
      <4>1. aTable'[i].mod = aTable[i].mod /\ aTable[i].mod # d
        BY <2>3, <2>6, <3>1
      <4>2. aTable[i].mod \in Drives
        <5>1. aTable[i] \in SataRows   BY <2>3, <3>1
        <5> QED BY <5>1 DEF SataRows
      <4> QED BY <2>1, <2>4, <3>1, <4>1, <4>2
    <3>2. CASE i = n + 1
      <4>1. aTable'[i].mod = d   BY <2>2, <2>3, <3>2
      <4> QED BY <2>7, <4>1
    <3> QED BY <2>5, <3>1, <3>2
  <2>10. (\A i, j \in 1 .. Len(aTable) : aTable[i].mod = aTable[j].mod => i = j)'
    BY <2>2, <2>3, <2>4, <2>5, <2>6, Zenon
  <2>11. aMem' = SataPointedTo(aTable', n + 1)
    <3>1. \A x : x \notin OfRow(aTable'[n + 1])   BY <2>2, <2>3 DEF OfRow
    <3>2. \A x : x \in aMem <=> \E i \in 1 .. n : x \in OfRow(aTable[i])
      BY <2>4, SataPointed, Zenon
    <3>3. \A x : x \in aMem <=> \E i \in 1 .. n + 1 : x \in OfRow(aTable'[i])
      BY <2>3, <2>5, <3>1, <3>2, Zenon
    <3>4. \A x : x \in aMem <=> x \in SataPointedTo(aTable', n + 1)   BY <3>3, SataPointed, Zenon
    <3> QED BY <2>1, <3>4
  <2>12. SataTableWhole'   BY <2>3, <2>8, <2>9, <2>10, <2>11 DEF SataTableWhole
  <2>13. EnginesListed'
    <3> SUFFICES ASSUME NEW x \in aOn \ aStuck
                 PROVE  \E i \in 1 .. n + 1 :
                          x[1] = aTable'[i].mod /\ x[2] \in aTable'[i].active
      BY <2>1, <2>3, Zenon DEF EnginesListed
    <3>1. PICK i \in 1 .. n : x[1] = aTable[i].mod /\ x[2] \in aTable[i].active
      BY Zenon DEF EnginesListed, n
    <3> QED BY <2>3, <2>5, <3>1, Zenon
  <2>14. SataProgress'
    <3>1. \A i \in 1 .. n : aTable[i].valid
      <4>1. /\ \A i \in 1 .. n - 1 : aTable[i].valid
            /\ n > 0 => aTable[n].valid
        BY <2>1, Zenon DEF SataProgress, n
      <4> QED BY <2>3, <4>1
    <3>2. \A i \in 1 .. n : aTable'[i].valid   BY <2>3, <3>1
    <3>3. Len(aTable') = n + 1 /\ aTable'[n + 1] = e   BY <2>3
    <3>4. Len(aTable') - 1 = n /\ Len(aTable') > 0   BY <2>3, <3>3, OneMore, Zenon
    <3>5. ~aTable'[Len(aTable')].valid   BY <2>2, <3>3
    <3>6. aPort' # -2 /\ aPort' \in -3 .. Ports   BY <2>1
    <3> QED BY <2>7, <3>2, <3>4, <3>5, <3>6, Zenon DEF SataProgress
  <2> QED BY <2>12, <2>13, <2>14
<1> QED BY <1>1, <1>2 DEF Ahci!Begin

\* A step that only goes on.
LEMMA SataSetupGoes ==
  ASSUME SataSetupInv, aPort # -2, UNCHANGED <<aTable, aCap, aIdx, aMem, aOn, aStuck>>,
         aPort' \in -3 .. Ports, aPort' # -2
  PROVE  SataSetupInv'
<1>1. Len(aTable) > 0 /\ ~aTable[Len(aTable)].valid
  BY SataLastRow, Zenon
<1>2. SataTableWhole'   BY Zenon DEF SataSetupInv, SataTableWhole
<1>3. EnginesListed'   BY Zenon DEF SataSetupInv, EnginesListed
<1>4. aTable' = aTable   OBVIOUS
<1> QED BY <1>1, <1>2, <1>3, <1>4, SataRowGoesOn, Zenon

\* A port comes up, with all of its structures.
LEMMA SataSetupPortUp ==
  ASSUME Ports \in Nat, SataSetupInv, Ahci!PortUp
  PROVE  SataSetupInv'
<1> DEFINE l == Ahci!Last
           e == [l EXCEPT !.active = @ \cup {aPort}, !.ready = @ \cup {aPort}]
<1>0. aPort \in PortNumbers /\ aPort # -2 /\ aPort + 1 \in -3 .. Ports /\ aPort + 1 # -2
  BY DEF Ahci!PortUp, PortNumbers
<1>1. /\ Len(aTable) \in Nat /\ Len(aTable) > 0
      /\ l \in SataRows /\ SataRowWhole(l) /\ ~l.valid /\ l = aTable[Len(aTable)]
  BY <1>0, SataLastRow, Zenon
<1>2. /\ aTable' = [aTable EXCEPT ![Len(aTable)] = e]
      /\ aMem' = aMem \cup {l.mod} \X {aPort} \X Ahci!Structures
      /\ aOn' = aOn \cup {<<l.mod, aPort>>} /\ aStuck' = aStuck /\ aIdx' = aIdx
      /\ aPort' = aPort + 1
  BY <1>1, SataPartNames DEF Ahci!PortUp
<1>3. /\ e \in SataRows /\ e.mod = l.mod /\ e.valid = l.valid
      /\ e.active = l.active \cup {aPort} /\ e.ready = l.ready \cup {aPort}
  <2> HIDE DEF l
  <2> QED BY <1>0, <1>1 DEF SataRows
<1> HIDE DEF l, e
<1>4. SataRowWhole(e)   BY <1>1, <1>3 DEF SataRowWhole
<1>5. /\ SataTableWhole' /\ Len(aTable') = Len(aTable)
      /\ aTable'[Len(aTable)] = e
      /\ \A i \in 1 .. Len(aTable) - 1 : aTable'[i] = aTable[i]
  <2>1. aMem' = aMem \cup {e.mod} \X {aPort} \X Ahci!Structures   BY <1>2, <1>3
  <2>2. /\ e.mod = aTable[Len(aTable)].mod
        /\ e.active = aTable[Len(aTable)].active \cup {aPort}
    BY <1>1, <1>3
  <2> QED BY <1>1, <1>2, <1>3, <1>4, <2>1, <2>2, SataRowSet, Zenon
<1>6. EnginesListed'
  <2>1. aOn \subseteq Drives \X PortNumbers /\ l.mod \in Drives
    BY <1>1 DEF SataSetupInv, EnginesListed, SataRows
  <2>2. aOn' \subseteq Drives \X PortNumbers   BY <1>0, <1>2, <2>1
  <2> SUFFICES ASSUME NEW x \in aOn' \ aStuck'
               PROVE  \E i \in 1 .. Len(aTable) :
                        x[1] = aTable'[i].mod /\ x[2] \in aTable'[i].active
    BY <1>5, <2>2, Zenon DEF EnginesListed
  <2>3. Len(aTable) \in 1 .. Len(aTable)   BY <1>1
  <2>4. CASE x = <<l.mod, aPort>>   BY <1>3, <1>5, <2>3, <2>4
  <2>5. CASE x # <<l.mod, aPort>>
    <3>1. x \in aOn \ aStuck   BY <1>2, <2>5
    <3>2. PICK i \in 1 .. Len(aTable) :
             x[1] = aTable[i].mod /\ x[2] \in aTable[i].active
      BY <3>1, Zenon DEF SataSetupInv, EnginesListed
    <3>3. CASE i = Len(aTable)   BY <1>1, <1>3, <1>5, <3>2, <3>3
    <3>4. CASE i # Len(aTable)
      <4>1. i \in 1 .. Len(aTable) - 1   BY <1>1, <3>4
      <4>2. aTable'[i] = aTable[i]   BY <1>5, <4>1
      <4> QED BY <3>2, <4>2
    <3> QED BY <3>3, <3>4
  <2> QED BY <2>4, <2>5
<1>7. aTable'[Len(aTable)].valid <=> aPort' = -2   BY <1>0, <1>1, <1>2, <1>3, <1>5
<1> QED BY <1>0, <1>1, <1>2, <1>5, <1>6, <1>7, SataRowGoesOn, Zenon

\* The end of sata_init: a controller with a port becomes valid.
LEMMA SataSetupFinish ==
  ASSUME Ports \in Nat, SataSetupInv, Ahci!Finish
  PROVE  SataSetupInv'
<1> DEFINE l == Ahci!Last
           e == [l EXCEPT !.valid = TRUE]
<1>0. aPort # -2   BY DEF Ahci!Finish
<1>1. /\ Len(aTable) \in Nat /\ Len(aTable) > 0
      /\ l \in SataRows /\ SataRowWhole(l) /\ ~l.valid /\ l = aTable[Len(aTable)]
  BY <1>0, SataLastRow, Zenon
<1>2. CASE l.ready = {}   BY <1>0, <1>2, SataSetupUndone DEF Ahci!Finish
<1>3. CASE l.ready # {}
  <2>1. /\ aTable' = [aTable EXCEPT ![Len(aTable)] = e]
        /\ UNCHANGED <<aMem, aOn, aStuck, aIdx>> /\ aPort' = -2
    BY <1>1, <1>3, SataPartNames DEF Ahci!Finish
  <2>2. /\ e \in SataRows /\ e.mod = l.mod /\ e.valid
        /\ e.active = l.active \cup {} /\ e.ready = l.ready
    <3> HIDE DEF l
    <3> QED BY <1>1 DEF SataRows
  <2> HIDE DEF l, e
  <2>3. SataRowWhole(e)   BY <1>1, <1>3, <2>2 DEF SataRowWhole
  <2>4. /\ SataTableWhole' /\ Len(aTable') = Len(aTable)
        /\ aTable'[Len(aTable)] = e
        /\ \A i \in 1 .. Len(aTable) - 1 : aTable'[i] = aTable[i]
    <3>1. aMem' = aMem \cup {e.mod} \X {} \X Ahci!Structures   BY <2>1
    <3>2. /\ e.mod = aTable[Len(aTable)].mod
          /\ e.active = aTable[Len(aTable)].active \cup {}
      BY <1>1, <2>2
    <3> QED BY <1>1, <2>1, <2>2, <2>3, <3>1, <3>2, SataRowSet, Zenon
  <2>5. EnginesListed'
    <3>1. \A i \in 1 .. Len(aTable) : /\ aTable'[i].mod = aTable[i].mod
                                      /\ aTable'[i].active = aTable[i].active
      <4> TAKE i \in 1 .. Len(aTable)
      <4>1. CASE i = Len(aTable)   BY <1>1, <2>2, <2>4, <4>1
      <4>2. CASE i # Len(aTable)
        <5>1. i \in 1 .. Len(aTable) - 1   BY <1>1, <4>2
        <5>2. aTable'[i] = aTable[i]   BY <2>4, <5>1
        <5> QED BY <5>2
      <4> QED BY <4>1, <4>2
    <3>2. aOn' = aOn /\ aStuck' = aStuck   BY <2>1
    <3> QED BY <2>4, <3>1, <3>2, Zenon DEF SataSetupInv, EnginesListed
  <2>6. (aTable'[Len(aTable)].valid <=> aPort' = -2) /\ aPort' \in -3 .. Ports
    <3>1. -2 \in -3 .. Ports   OBVIOUS
    <3> QED BY <2>1, <2>2, <2>4, <3>1, Zenon
  <2> QED BY <1>1, <2>1, <2>4, <2>5, <2>6, SataRowGoesOn, Zenon
<1> QED BY <1>2, <1>3

\* Each step of sata_init.
LEMMA SataSetupStep ==
  ASSUME Ports \in Nat, SataSetupInv, Ahci!Next
  PROVE  SataSetupInv'
<1>1. ASSUME NEW d \in Drives, Ahci!Begin(d) PROVE SataSetupInv'   BY <1>1, SataRowAdded
<1>2. CASE Ahci!MapBar
  <2>1. CASE Ahci!Destroy   BY <1>2, <2>1, SataSetupUndone DEF Ahci!MapBar
  <2>2. CASE ~Ahci!Destroy   BY <1>2, <2>2, SataSetupGoes DEF Ahci!MapBar
  <2> QED BY <2>1, <2>2
<1>3. CASE Ahci!ResetHba
  <2>1. CASE Ahci!Destroy   BY <1>3, <2>1, SataSetupUndone DEF Ahci!ResetHba
  <2>2. CASE ~Ahci!Destroy   BY <1>3, <2>2, SataSetupGoes DEF Ahci!ResetHba
  <2> QED BY <2>1, <2>2
<1>4. CASE Ahci!SkipPort   BY <1>4, SataSetupGoes DEF Ahci!SkipPort
<1>5. CASE Ahci!PortUp   BY <1>5, SataSetupPortUp
<1>6. CASE Ahci!PortDown   BY <1>6, SataSetupUndone DEF Ahci!PortDown
<1>7. CASE Ahci!PortBusy
  <2>1. aPort # -2
    <3>1. aPort \in 0 .. Ports - 1   BY <1>7 DEF Ahci!PortBusy
    <3> QED BY <3>1
  <2> QED BY <1>7, <2>1, SataSetupUndone
<1>8. CASE Ahci!Finish   BY <1>8, SataSetupFinish
<1> QED BY <1>1, <1>2, <1>3, <1>4, <1>5, <1>6, <1>7, <1>8 DEF Ahci!Next

(***************************************************************************)
(* sata_init (sata.c), whichever of its steps fails, leaves the table, the *)
(* memory and the engines in agreement: SetupInv always holds.             *)
(***************************************************************************)
THEOREM SataSetupInductive == Ports \in Nat => (SataSetupSpec => []SataSetupInv)
<1> SUFFICES ASSUME Ports \in Nat PROVE SataSetupSpec => []SataSetupInv
  OBVIOUS
<1>1. Ahci!Init => SataSetupInv
  <2> SUFFICES ASSUME Ahci!Init PROVE SataSetupInv
    OBVIOUS
  <2>1. /\ aTable = <<>> /\ aMem = {} /\ aOn = {} /\ aStuck = {} /\ aPort = -2
        /\ aIdx = [d \in Drives |-> -1]
    BY DEF Ahci!Init
  <2>2. Len(aTable) = 0 /\ aTable \in Seq(SataRows)
    <3>1. Len(<<>>) = 0 /\ <<>> \in Seq(SataRows)   OBVIOUS
    <3> QED BY <2>1, <3>1, Zenon
  <2>3. SataPointedTo(aTable, 0) = {}   BY DEF SataPointedTo
  <2>4. (\A i : i \notin 1 .. 0) /\ (\A i : i \notin 1 .. 0 - 1) /\ ~(0 > 0)   OBVIOUS
  <2>5. SataTableWhole   BY <2>1, <2>2, <2>3, <2>4, Zenon DEF SataTableWhole
  <2>6. EnginesListed   BY <2>1 DEF EnginesListed
  <2>7. SataProgress
    <3>1. aIdx \in [Drives -> Int]
      <4>1. [d \in Drives |-> -1] \in [Drives -> Int]   OBVIOUS
      <4> QED BY <2>1, <4>1, Zenon
    <3>2. -2 \in -3 .. Ports   OBVIOUS
    <3> QED BY <2>1, <2>2, <2>4, <3>1, <3>2, Zenon DEF SataProgress
  <2> QED BY <2>5, <2>6, <2>7 DEF SataSetupInv
<1>2. SataSetupInv /\ [Ahci!Next]_(Ahci!sataInitVars) => SataSetupInv'
  <2>1. CASE UNCHANGED Ahci!sataInitVars
    <3>1. UNCHANGED <<aTable, aCap, aIdx, aMem, aOn, aStuck, aPort>>
      BY <2>1 DEF Ahci!sataInitVars
    <3>2. SataSetupInv => SataSetupInv'
      BY <3>1, Zenon DEF SataSetupInv, SataTableWhole, EnginesListed, SataProgress
    <3> QED BY <3>2
  <2> QED BY <2>1, SataSetupStep
<1> QED BY <1>1, <1>2, PTL DEF SataSetupSpec

(***************************************************************************)
(* Whichever step of sata_init fails, the command list, tables and FIS     *)
(* area of a port whose engine runs are allocated, but for ports that did  *)
(* not stop or become ready in time: EngineOverHeld.                       *)
(***************************************************************************)
THEOREM SataEnginesHeld == Ports \in Nat => (SataSetupSpec => []Ahci!EngineOverHeld)
<1> SUFFICES ASSUME Ports \in Nat PROVE SataSetupSpec => []Ahci!EngineOverHeld
  OBVIOUS
<1>1. SataSetupInv => Ahci!EngineOverHeld
  <2> SUFFICES ASSUME SataSetupInv, NEW x \in aOn \ aStuck,
                      NEW y \in {x[1]} \X {x[2]} \X Ahci!Structures
               PROVE  y \in aMem
    BY DEF Ahci!EngineOverHeld
  <2>1. PICK i \in 1 .. Len(aTable) :
           x[1] = aTable[i].mod /\ x[2] \in aTable[i].active
    BY Zenon DEF SataSetupInv, EnginesListed
  <2>2. y \in OfRow(aTable[i])   BY <2>1 DEF OfRow
  <2>3. aMem = SataPointedTo(aTable, Len(aTable))   BY Zenon DEF SataSetupInv, SataTableWhole
  <2> QED BY <2>1, <2>2, <2>3, SataPointed, Zenon
<1> QED BY <1>1, SataSetupInductive, PTL

(***************************************************************************)
(* When sata_init is over the structures of the active ports of valid      *)
(* controllers are what is allocated, each controller has a port, and the  *)
(* ports that are reported are those that can be read: PortsWhole.         *)
(***************************************************************************)
THEOREM SataPortsWhole == Ports \in Nat => (SataSetupSpec => []Ahci!PortsWhole)
<1> SUFFICES ASSUME Ports \in Nat PROVE SataSetupSpec => []Ahci!PortsWhole
  OBVIOUS
<1>1. SataSetupInv => Ahci!PortsWhole
  <2> SUFFICES ASSUME SataSetupInv, aPort = -2 PROVE Ahci!PortsWhole
    BY Zenon DEF Ahci!PortsWhole
  <2> DEFINE n == Len(aTable)
  <2>1. /\ aTable \in Seq(SataRows)
        /\ \A i \in 1 .. n : SataRowWhole(aTable[i])
        /\ aMem = SataPointedTo(aTable, n)
    BY Zenon DEF SataSetupInv, SataTableWhole
  <2>2. n \in Nat /\ Ahci!Count = n   BY <2>1, SataPartNames
  <2>3. /\ \A i \in 1 .. n - 1 : aTable[i].valid
        /\ n > 0 => aTable[n].valid
    BY Zenon DEF SataSetupInv, SataProgress
  <2> HIDE DEF n
  <2>4. \A i \in 1 .. n : aTable[i].valid
    <3>1. \A i \in 1 .. n : n > 0 /\ (i = n \/ i \in 1 .. n - 1)   BY <2>2
    <3> QED BY <2>3, <3>1, Zenon
  <2>5. \A i \in 0 .. n - 1 : i + 1 \in 1 .. n   BY <2>2
  <2>6. aMem = UNION {{aTable[i].mod} \X aTable[i].active \X Ahci!Structures :
                        i \in 1 .. Ahci!Count}
    BY <2>1, <2>2 DEF SataPointedTo, OfRow
  <2>7. \A i \in 0 .. Ahci!Count - 1 : aTable[i + 1].valid /\ aTable[i + 1].ready # {}
    BY <2>1, <2>2, <2>4, <2>5 DEF SataRowWhole
  <2>8. ASSUME NEW i \in 0 .. Ahci!Count, NEW p \in 0 .. Ports
        PROVE  Ahci!AvailablePort(i, p) <=> Ahci!MayRead(i, p)
    <3>1. CASE Ahci!GetPcie(i)
      <4>1. i + 1 \in 1 .. n   BY <2>2, <2>5, <3>1 DEF Ahci!GetPcie
      <4>2. aTable[i + 1].ready = aTable[i + 1].active   BY <2>1, <4>1 DEF SataRowWhole
      <4> QED BY <4>2 DEF Ahci!AvailablePort, Ahci!MayRead
    <3>2. CASE ~Ahci!GetPcie(i)   BY <3>2 DEF Ahci!AvailablePort, Ahci!MayRead
    <3> QED BY <3>1, <3>2
  <2> QED BY <2>6, <2>7, <2>8, Zenon DEF Ahci!PortsWhole
<1> QED BY <1>1, SataSetupInductive, PTL

-----------------------------------------------------------------------------
(***************************************************************************)
(* PIO (Ata), for any number of clients and any size of the digits an      *)
(* address is written in. As long as the device has answered in time the   *)
(* holder of ata_lock and the device are in step: the sector the device    *)
(* goes on with is the one the loop over the sectors has come to. Once it  *)
(* has been late nothing of that is left, and only the lock is promised.   *)
(***************************************************************************)
\* Nobody is no client; an address has digits.
AtaSensible == Disk!Nobody \notin Callers /\ Digit \in Nat \ {0} /\ MaxCalls \in Nat

Operations == {"read", "write", "identify"}
AtaSetup == {"ready", "high", "low", "issue"}
Sectors == {"sector ready", "status", "drq"}
Flushing == {"flush", "flushed"}
Request == [op : Operations \cup {"none"}, lba : Nat, count : 0..2]

-----------------------------------------------------------------------------
(* The inductive invariant, in parts. *)

\* Every variable has its type.
CallTypes ==
  /\ dLock \in Callers \cup {Disk!Nobody}
  /\ dPc \in [Callers -> {"out"} \cup AtaSetup \cup Sectors \cup Flushing]
  /\ dReq \in [Callers -> Request]
  /\ dI \in [Callers -> Nat]
  /\ dResult \in [Callers -> {"none", "ok", "error", "absent"}]
  /\ dCalls \in Nat

DeviceTypes ==
  /\ dData \in [Callers -> Seq(Nat)]
  /\ dRegs \in [before : Nat, now : Nat]
  /\ dDev \in [state : {"ready", "busy", "drq"}, op : Operations \cup {"none", "flush"},
               lba : Nat, left : Int, failed : BOOLEAN]
  /\ dCache \subseteq Nat \X Nat
  /\ dLate \in BOOLEAN

AtaTypeOK == CallTypes /\ DeviceTypes

\* ata_lock is held by the only client that is in a call, from its first step
\* to its answer.
AtaHolderInCall ==
  \A c \in Callers :
    IF dLock = c THEN /\ dPc[c] # "out" /\ dResult[c] = "none"
                      /\ dReq[c].op \in Operations /\ dReq[c].count \in 1..2
                 ELSE dPc[c] = "out"

\* Before a command is given, the device is at rest.
AtRest(c) == dPc[c] \in AtaSetup => ~Disk!Busy /\ dI[c] = 0

\* The digits of the address are in the registers, the high one before.
Addressed(c) ==
  /\ dPc[c] = "low" => dRegs.now = dReq[c].lba \div Digit
  /\ dPc[c] = "issue" => /\ dRegs.before = dReq[c].lba \div Digit
                         /\ dRegs.now = dReq[c].lba % Digit

\* The device goes on with the sector the loop has come to, or has failed.
OneStep(c) ==
  dPc[c] \in Sectors =>
     /\ dI[c] < dReq[c].count
     /\ dDev.failed => ~Disk!Busy /\ dPc[c] # "drq"
     /\ ~dDev.failed => /\ dDev.op = dReq[c].op
                        /\ dDev.lba = dReq[c].lba + dI[c]
                        /\ dDev.left = dReq[c].count - dI[c]
                        /\ dPc[c] \in {"status", "drq"} => Disk!Drq
                        /\ Disk!Busy \/ Disk!Drq

\* What a call has done: the sectors before n were read, or given.
DoneUpTo(c, n) ==
  /\ dReq[c].op # "write" => dData[c] = [k \in 1..n |-> dReq[c].lba + k - 1]
  /\ dReq[c].op = "write" =>
       \A k \in 0..n - 1 : <<dReq[c].lba + k, dReq[c].lba + k>> \in dCache

Counted(c) ==
  /\ dPc[c] \in Flushing => dI[c] = dReq[c].count /\ dReq[c].op = "write"
  /\ dPc[c] # "out" => DoneUpTo(c, dI[c])
  /\ dResult[c] = "ok" => DoneUpTo(c, dReq[c].count)

CallInTime(c) == AtRest(c) /\ Addressed(c) /\ OneStep(c) /\ Counted(c)

\* The device keeps what it was given under the address it was meant for.
InPlace == \A s \in dCache : s[1] = s[2]

InStep == /\ dLock = Disk!Nobody => ~Disk!Busy
          /\ InPlace
          /\ \A c \in Callers : CallInTime(c)

InTime == ~dLate => InStep

AtaInv == AtaTypeOK /\ AtaHolderInCall /\ InTime

-----------------------------------------------------------------------------
(* Lemmas about addresses and buffers. *)

\* The two digits that are written to the registers make up the address.
LEMMA DigitsMakeAddress ==
  ASSUME NEW D \in Nat \ {0}, NEW a \in Nat
  PROVE  /\ a \div D \in Nat /\ a % D \in Nat
         /\ (a \div D) * D + (a % D) = a
<1>1. a \div D \in Nat /\ a % D \in Nat
  OBVIOUS
<1>2. (a \div D) * D + (a % D) = a
  OBVIOUS
<1>3. QED
  BY <1>1, <1>2

\* What is asked for has an address and a count.
LEMMA TransfersTyped ==
  ASSUME AtaSensible, NEW r \in Disk!Transfers
  PROVE  r \in Request /\ r.op \in Operations /\ r.count \in 1..2
<1>1. CASE r \in [op : {"read", "write"}, lba : {1, Digit, Digit + 1}, count : 1..2]
  <2>1. r.lba \in Nat
    BY <1>1 DEF AtaSensible
  <2>2. QED
    BY <1>1, <2>1 DEF Operations, Request
<1>2. CASE r \in [op : {"identify"}, lba : {0}, count : {1}]
  BY <1>2 DEF Operations, Request
<1>3. QED
  BY <1>1, <1>2 DEF Disk!Transfers

\* One more sector at the end of what was read in order.
LEMMA NextSector ==
  ASSUME NEW a \in Nat, NEW n \in Nat, NEW d \in Seq(Nat), d = [k \in 1..n |-> a + k - 1]
  PROVE  Append(d, a + n) = [k \in 1..n + 1 |-> a + k - 1]
<1>1. Len(d) = n
  OBVIOUS
<1>2. QED
  BY <1>1

\* Nothing is read yet, nothing is asked of the device.
LEMMA NothingDone ==
  ASSUME NEW c \in Callers, dI[c] = 0, dData[c] = <<>>
  PROVE  DoneUpTo(c, 0)
BY DEF DoneUpTo

\* Counting up, and what is left.
LEMMA AtaOneMore == ASSUME NEW n \in Nat PROVE n + 1 \in Nat
OBVIOUS

LEMMA SomeLeft == ASSUME NEW m \in Nat, NEW n \in Nat, m < n PROVE n - m > 0
OBVIOUS

\* What the types say of one client's call.
LEMMA CallTyped ==
  ASSUME CallTypes, NEW c \in Callers
  PROVE  /\ dI[c] \in Nat /\ dI[c] + 1 \in Nat
         /\ dReq[c].lba \in Nat /\ dReq[c].count \in 0..2 /\ dReq[c].count \in Nat
BY DEF CallTypes, Request

\* Setting one client's counter.
LEMMA OneCounter ==
  ASSUME NEW c \in Callers, NEW n \in Nat, dI \in [Callers -> Nat], dI' = [dI EXCEPT ![c] = n]
  PROVE  dI' \in [Callers -> Nat]
OBVIOUS

-----------------------------------------------------------------------------
(* One step keeps each part. *)

\* Types are kept: the callers.
LEMMA CallTypeStep ==
  ASSUME AtaSensible, CallTypes, [Disk!Next]_Disk!ataVars
  PROVE  CallTypes'
<1>. USE DEF CallTypes, Operations, AtaSetup, Sectors, Flushing, AtaSensible
<1>1. ASSUME NEW c \in Callers, Disk!Enter(c)
      PROVE  CallTypes'
  <2>1. PICK r \in Disk!Transfers : dReq' = [dReq EXCEPT ![c] = r]
    BY <1>1 DEF Disk!Enter
  <2>2. dReq' \in [Callers -> Request]
    BY <2>1, TransfersTyped
  <2>3. dPc' \in [Callers -> {"out"} \cup AtaSetup \cup Sectors \cup Flushing]
    <3>1. (IF dReq'[c].op = "identify" THEN "high" ELSE "ready") \in AtaSetup
      OBVIOUS
    <3>2. QED
      BY <1>1, <3>1 DEF Disk!Enter, Disk!Goto
  <2>4. /\ dI' = [dI EXCEPT ![c] = 0] /\ dCalls' = dCalls + 1 /\ dLock' = c
        /\ dResult' = [dResult EXCEPT ![c] = "none"]
    BY <1>1 DEF Disk!Enter
  <2>5. dI' \in [Callers -> Nat] /\ dCalls' \in Nat
    <3>1. dI \in [Callers -> Nat] /\ dCalls \in Nat /\ 0 \in Nat
      OBVIOUS
    <3>2. dI' \in [Callers -> Nat]
      BY <2>4, <3>1, OneCounter
    <3>3. dCalls' \in Nat
      <4>1. dCalls' = dCalls + 1
        BY <2>4
      <4>2. QED
        BY <3>1, <4>1, AtaOneMore
    <3>4. QED
      BY <3>2, <3>3
  <2>6. dResult' \in [Callers -> {"none", "ok", "error", "absent"}]
    BY <2>4
  <2>7. dLock' \in Callers \cup {Disk!Nobody}
    BY <2>4
  <2>8. QED
    BY <2>2, <2>3, <2>5, <2>6, <2>7
<1>2. ASSUME NEW c \in Callers, Disk!WaitReady(c, "ready", "high")
      PROVE  CallTypes'
  BY <1>2 DEF Disk!WaitReady, Disk!Goto, Disk!Busy
<1>3. ASSUME NEW c \in Callers, Disk!High(c)
      PROVE  CallTypes'
  BY <1>3 DEF Disk!High, Disk!Goto, Disk!Written
<1>4. ASSUME NEW c \in Callers, Disk!Low(c)
      PROVE  CallTypes'
  BY <1>4 DEF Disk!Low, Disk!Goto, Disk!Written
<1>5. ASSUME NEW c \in Callers, Disk!Issue(c)
      PROVE  CallTypes'
  BY <1>5 DEF Disk!Issue, Disk!Goto, Disk!Busy
<1>6. ASSUME NEW c \in Callers, Disk!WaitReady(c, "sector ready", "status")
      PROVE  CallTypes'
  BY <1>6 DEF Disk!WaitReady, Disk!Goto, Disk!Busy
<1>7. ASSUME NEW c \in Callers, Disk!CheckError(c)
      PROVE  CallTypes'
  BY <1>7 DEF Disk!CheckError, Disk!Returns, Disk!Goto
<1>8. ASSUME NEW c \in Callers, Disk!DrqTimeOut(c)
      PROVE  CallTypes'
  BY <1>8 DEF Disk!DrqTimeOut, Disk!Returns, Disk!Goto
<1>9. ASSUME NEW c \in Callers, Disk!Transfer(c)
      PROVE  CallTypes'
  <2>1. dPc' \in [Callers -> {"out"} \cup AtaSetup \cup Sectors \cup Flushing]
    <3>1. CASE dI[c] + 1 < dReq[c].count
      BY <1>9, <3>1 DEF Disk!Transfer, Disk!Goto
    <3>2. CASE ~(dI[c] + 1 < dReq[c].count) /\ dReq[c].op = "write"
      BY <1>9, <3>2 DEF Disk!Transfer, Disk!Goto
    <3>3. CASE ~(dI[c] + 1 < dReq[c].count) /\ dReq[c].op # "write"
      BY <1>9, <3>3 DEF Disk!Transfer, Disk!Returns, Disk!Goto
    <3>4. QED
      BY <3>1, <3>2, <3>3
  <2>2. dI' = [dI EXCEPT ![c] = dI[c] + 1] /\ UNCHANGED <<dReq, dCalls>>
    BY <1>9 DEF Disk!Transfer
  <2>3. dI' \in [Callers -> Nat]
    <3>1. dI \in [Callers -> Nat] /\ dI[c] + 1 \in Nat
      BY CallTyped
    <3>2. QED
      BY <2>2, <3>1, OneCounter
  <2>4. dLock' \in {dLock, Disk!Nobody}
        /\ dResult' \in [Callers -> {"none", "ok", "error", "absent"}]
    BY <1>9 DEF Disk!Transfer, Disk!Returns
  <2>5. QED
    BY <2>1, <2>2, <2>3, <2>4
<1>10. ASSUME NEW c \in Callers, Disk!Flush(c)
      PROVE  CallTypes'
  BY <1>10 DEF Disk!Flush, Disk!Goto, Disk!Idle, Disk!Busy
<1>11. ASSUME NEW c \in Callers, Disk!Flushed(c)
      PROVE  CallTypes'
  BY <1>11 DEF Disk!Flushed, Disk!Returns, Disk!Goto, Disk!Busy
<1>12. CASE Disk!Ready
  BY <1>12 DEF Disk!Ready, Disk!Busy
<1>13. CASE Disk!Fail
  BY <1>13 DEF Disk!Fail, Disk!Busy
<1>14. CASE UNCHANGED Disk!ataVars
  BY <1>14 DEF Disk!ataVars
<1>15. QED
  BY <1>1, <1>2, <1>3, <1>4, <1>5, <1>6, <1>7, <1>8, <1>9,
     <1>10, <1>11, <1>12, <1>13, <1>14 DEF Disk!Next

\* Types are kept: the device.
LEMMA DeviceTypeStep ==
  ASSUME AtaSensible, CallTypes, DeviceTypes, [Disk!Next]_Disk!ataVars
  PROVE  DeviceTypes'
<1>. USE DEF DeviceTypes, AtaSensible
<1>1. ASSUME NEW c \in Callers, Disk!Enter(c)
      PROVE  DeviceTypes'
  BY <1>1 DEF Disk!Enter
<1>2. ASSUME NEW c \in Callers, Disk!WaitReady(c, "ready", "high")
      PROVE  DeviceTypes'
  BY <1>2 DEF Disk!WaitReady, Disk!Goto, Disk!Busy
<1>3. ASSUME NEW c \in Callers, Disk!High(c)
      PROVE  DeviceTypes'
  <2>1. dReq[c].lba \div Digit \in Nat
    BY DigitsMakeAddress DEF CallTypes, Request
  <2>2. QED
    BY <1>3, <2>1 DEF Disk!High, Disk!Written
<1>4. ASSUME NEW c \in Callers, Disk!Low(c)
      PROVE  DeviceTypes'
  <2>1. dReq[c].lba % Digit \in Nat
    BY DigitsMakeAddress DEF CallTypes, Request
  <2>2. QED
    BY <1>4, <2>1 DEF Disk!Low, Disk!Written
<1>5. ASSUME NEW c \in Callers, Disk!Issue(c)
      PROVE  DeviceTypes'
  <2>1. dReq[c].op \in Operations \cup {"none"} /\ dReq[c].count \in Int
    BY DEF CallTypes, Request
  <2>2. dRegs.before * Digit + dRegs.now \in Nat
    <3>1. dRegs.before * Digit \in Nat
      OBVIOUS
    <3>2. QED
      BY <3>1
  <2>3. QED
    BY <1>5, <2>1, <2>2 DEF Disk!Issue
<1>6. ASSUME NEW c \in Callers, Disk!WaitReady(c, "sector ready", "status")
      PROVE  DeviceTypes'
  BY <1>6 DEF Disk!WaitReady, Disk!Goto, Disk!Busy
<1>7. ASSUME NEW c \in Callers, Disk!CheckError(c)
      PROVE  DeviceTypes'
  BY <1>7 DEF Disk!CheckError, Disk!Returns, Disk!Goto
<1>8. ASSUME NEW c \in Callers, Disk!DrqTimeOut(c)
      PROVE  DeviceTypes'
  BY <1>8 DEF Disk!DrqTimeOut, Disk!Returns, Disk!Goto
<1>9. ASSUME NEW c \in Callers, Disk!Transfer(c)
      PROVE  DeviceTypes'
  <2>1. dReq[c].lba + dI[c] \in Nat
    BY DEF CallTypes, Request
  <2>2. dDev.lba \in Nat
    OBVIOUS
  <2>3. dData' \in [Callers -> Seq(Nat)]
    <3>1. Append(dData[c], dDev.lba) \in Seq(Nat)
      BY <2>2
    <3>2. QED
      BY <1>9, <3>1 DEF Disk!Transfer
  <2>4. dCache' \subseteq Nat \X Nat
    <3>1. <<dDev.lba, dReq[c].lba + dI[c]>> \in Nat \X Nat
      BY <2>1, <2>2
    <3>2. dCache' = dCache \/ dCache' = dCache \cup {<<dDev.lba, dReq[c].lba + dI[c]>>}
      BY <1>9 DEF Disk!Transfer
    <3>3. QED
      BY <3>1, <3>2
  <2>5. dDev' \in [state : {"ready", "busy", "drq"}, op : Operations \cup {"none", "flush"},
                   lba : Nat, left : Int, failed : BOOLEAN]
    <3>1. dDev.lba + 1 \in Nat /\ dDev.left - 1 \in Int
      OBVIOUS
    <3>2. (dDev.left > 1 \/ dDev.op = "write") \in BOOLEAN
      OBVIOUS
    <3>3. QED
      BY <1>9, <3>1, <3>2 DEF Disk!Transfer
  <2>6. QED
    BY <1>9, <2>3, <2>4, <2>5 DEF Disk!Transfer
<1>10. ASSUME NEW c \in Callers, Disk!Flush(c)
      PROVE  DeviceTypes'
  <2>1. dDev' = dDev \/ dDev' = [state |-> "busy", op |-> "flush", lba |-> 0, left |-> 0,
                                 failed |-> FALSE]
    BY <1>10 DEF Disk!Flush, Disk!Idle
  <2>2. dDev' \in [state : {"ready", "busy", "drq"}, op : Operations \cup {"none", "flush"},
                   lba : Nat, left : Int, failed : BOOLEAN]
    <3>1. CASE dDev' = dDev
      BY <3>1
    <3>2. CASE dDev' # dDev
      <4>1. dDev' = [state |-> "busy", op |-> "flush", lba |-> 0, left |-> 0, failed |-> FALSE]
        BY <2>1, <3>2
      <4>2. QED
        BY <4>1
    <3>3. QED
      BY <3>1, <3>2
  <2>3. QED
    BY <1>10, <2>2 DEF Disk!Flush
<1>11. ASSUME NEW c \in Callers, Disk!Flushed(c)
      PROVE  DeviceTypes'
  BY <1>11 DEF Disk!Flushed, Disk!Returns, Disk!Goto, Disk!Busy
<1>12. CASE Disk!Ready
  BY <1>12 DEF Disk!Ready, Disk!Busy
<1>13. CASE Disk!Fail
  <2>1. dDev' = [state |-> "ready", op |-> dDev.op, lba |-> dDev.lba, left |-> 0, failed |-> TRUE]
    BY <1>13 DEF Disk!Fail
  <2>2. dDev' \in [state : {"ready", "busy", "drq"}, op : Operations \cup {"none", "flush"},
                   lba : Nat, left : Int, failed : BOOLEAN]
    BY <2>1
  <2>3. QED
    BY <1>13, <2>2 DEF Disk!Fail
<1>14. CASE UNCHANGED Disk!ataVars
  BY <1>14 DEF Disk!ataVars
<1>15. QED
  BY <1>1, <1>2, <1>3, <1>4, <1>5, <1>6, <1>7, <1>8, <1>9,
     <1>10, <1>11, <1>12, <1>13, <1>14 DEF Disk!Next

\* Every path to an answer gives the lock back, and no other does.
LEMMA AtaHolderStep ==
  ASSUME AtaSensible, CallTypes, AtaHolderInCall, [Disk!Next]_Disk!ataVars
  PROVE  AtaHolderInCall'
<1>. USE DEF CallTypes, AtaHolderInCall, Operations, AtaSetup, Sectors, Flushing, AtaSensible
<1>1. ASSUME NEW c \in Callers, Disk!Enter(c)
      PROVE  AtaHolderInCall'
  <2>1. PICK r \in Disk!Transfers : dReq' = [dReq EXCEPT ![c] = r]
    BY <1>1 DEF Disk!Enter
  <2>2. r.op \in Operations /\ r.count \in 1..2
    BY TransfersTyped
  <2>3. dPc'[c] # "out" /\ \A d \in Callers \ {c} : dPc'[d] = dPc[d]
    BY <1>1 DEF Disk!Enter, Disk!Goto
  <2>4. QED
    BY <1>1, <2>1, <2>2, <2>3 DEF Disk!Enter, Disk!LockFree
<1>2. ASSUME NEW c \in Callers, Disk!WaitReady(c, "ready", "high")
      PROVE  AtaHolderInCall'
  BY <1>2 DEF Disk!WaitReady, Disk!Goto, Disk!Busy
<1>3. ASSUME NEW c \in Callers, Disk!High(c)
      PROVE  AtaHolderInCall'
  BY <1>3 DEF Disk!High, Disk!Goto, Disk!Written
<1>4. ASSUME NEW c \in Callers, Disk!Low(c)
      PROVE  AtaHolderInCall'
  BY <1>4 DEF Disk!Low, Disk!Goto, Disk!Written
<1>5. ASSUME NEW c \in Callers, Disk!Issue(c)
      PROVE  AtaHolderInCall'
  BY <1>5 DEF Disk!Issue, Disk!Goto, Disk!Busy
<1>6. ASSUME NEW c \in Callers, Disk!WaitReady(c, "sector ready", "status")
      PROVE  AtaHolderInCall'
  BY <1>6 DEF Disk!WaitReady, Disk!Goto, Disk!Busy
<1>7. ASSUME NEW c \in Callers, Disk!CheckError(c)
      PROVE  AtaHolderInCall'
  <2>1. CASE dDev.failed
    <3>1. dPc' = [dPc EXCEPT ![c] = "out"] /\ dLock' = Disk!Nobody /\ UNCHANGED dReq
      BY <1>7, <2>1 DEF Disk!CheckError, Disk!Returns, Disk!Goto
    <3>2. QED
      BY <1>7, <3>1 DEF Disk!CheckError
  <2>2. CASE ~dDev.failed
    BY <1>7, <2>2 DEF Disk!CheckError, Disk!Goto
  <2>3. QED
    BY <2>1, <2>2
<1>8. ASSUME NEW c \in Callers, Disk!DrqTimeOut(c)
      PROVE  AtaHolderInCall'
  BY <1>8 DEF Disk!DrqTimeOut, Disk!Returns, Disk!Goto
<1>9. ASSUME NEW c \in Callers, Disk!Transfer(c)
      PROVE  AtaHolderInCall'
  <2>1. CASE ~(dI[c] + 1 < dReq[c].count) /\ dReq[c].op # "write"
    <3>1. dPc' = [dPc EXCEPT ![c] = "out"] /\ dLock' = Disk!Nobody /\ UNCHANGED dReq
      BY <1>9, <2>1 DEF Disk!Transfer, Disk!Returns, Disk!Goto
    <3>2. QED
      BY <1>9, <3>1 DEF Disk!Transfer
  <2>2. CASE dI[c] + 1 < dReq[c].count
    BY <1>9, <2>2 DEF Disk!Transfer, Disk!Goto
  <2>3. CASE ~(dI[c] + 1 < dReq[c].count) /\ dReq[c].op = "write"
    BY <1>9, <2>3 DEF Disk!Transfer, Disk!Goto
  <2>4. QED
    BY <2>1, <2>2, <2>3
<1>10. ASSUME NEW c \in Callers, Disk!Flush(c)
      PROVE  AtaHolderInCall'
  BY <1>10 DEF Disk!Flush, Disk!Goto, Disk!Idle, Disk!Busy
<1>11. ASSUME NEW c \in Callers, Disk!Flushed(c)
      PROVE  AtaHolderInCall'
  BY <1>11 DEF Disk!Flushed, Disk!Returns, Disk!Goto, Disk!Busy
<1>12. CASE Disk!Ready
  BY <1>12 DEF Disk!Ready, Disk!Busy
<1>13. CASE Disk!Fail
  BY <1>13 DEF Disk!Fail, Disk!Busy
<1>14. CASE UNCHANGED Disk!ataVars
  BY <1>14 DEF Disk!ataVars
<1>15. QED
  BY <1>1, <1>2, <1>3, <1>4, <1>5, <1>6, <1>7, <1>8, <1>9,
     <1>10, <1>11, <1>12, <1>13, <1>14 DEF Disk!Next

\* A call that does not move stays right: its lock is held by another, or
\* nobody asked anything of it.
LEMMA OtherCalls ==
  ASSUME AtaHolderInCall, NEW c \in Callers, dLock \in {c, Disk!Nobody}, AtaSensible,
         \A d \in Callers : CallInTime(d), dCache \subseteq dCache',
         \A d \in Callers \ {c} : /\ dPc'[d] = dPc[d] /\ dReq'[d] = dReq[d]
                                  /\ dData'[d] = dData[d] /\ dResult'[d] = dResult[d]
  PROVE  \A d \in Callers \ {c} : CallInTime(d)'
<1>. SUFFICES ASSUME NEW d \in Callers \ {c}
              PROVE  CallInTime(d)'
  OBVIOUS
<1>1. dPc[d] = "out" /\ dPc'[d] = "out"
  BY DEF AtaHolderInCall, AtaSensible
<1>2. AtRest(d)' /\ Addressed(d)' /\ OneStep(d)'
  BY <1>1 DEF AtRest, Addressed, OneStep, AtaSetup, Sectors
<1>3. dResult'[d] = "ok" => DoneUpTo(d, dReq[d].count)
  BY DEF CallInTime, Counted
<1>4. dResult'[d] = "ok" => DoneUpTo(d, dReq[d].count)'
  BY <1>3 DEF DoneUpTo
<1>5. Counted(d)'
  BY <1>1, <1>4 DEF Counted, Flushing
<1>6. QED
  BY <1>2, <1>5 DEF CallInTime

\* What a step of client c has to show.
LEMMA OneCallSteps ==
  ASSUME AtaHolderInCall, NEW c \in Callers, dLock \in {c, Disk!Nobody}, AtaSensible, CallTypes,
         InStep, dCache \subseteq dCache',
         \A d \in Callers \ {c} : /\ dPc'[d] = dPc[d] /\ dReq'[d] = dReq[d]
                                  /\ dData'[d] = dData[d] /\ dResult'[d] = dResult[d],
         dLock' = Disk!Nobody => ~Disk!Busy', InPlace', CallInTime(c)'
  PROVE  InStep'
<1>1. \A d \in Callers \ {c} : CallInTime(d)'
  BY OtherCalls DEF InStep
<1>2. QED
  BY <1>1 DEF InStep

\* Entering: the device is at rest, nothing is done yet.
LEMMA EnterStep ==
  ASSUME AtaSensible, CallTypes, DeviceTypes, AtaHolderInCall, InStep, NEW c \in Callers,
         Disk!Enter(c)
  PROVE  InStep'
<1>1. PICK r \in Disk!Transfers : dReq' = [dReq EXCEPT ![c] = r]
  BY DEF Disk!Enter
<1>2. /\ dLock = Disk!Nobody /\ dLock' = c /\ UNCHANGED <<dDev, dCache, dRegs>>
      /\ dI' = [dI EXCEPT ![c] = 0] /\ dData' = [dData EXCEPT ![c] = <<>>]
      /\ dResult' = [dResult EXCEPT ![c] = "none"]
  BY DEF Disk!Enter, Disk!LockFree
<1>3. dPc'[c] \in {"high", "ready"} /\ \A d \in Callers \ {c} : dPc'[d] = dPc[d]
  BY DEF Disk!Enter, Disk!Goto, CallTypes
<1>4. ~Disk!Busy'
  BY <1>2 DEF InStep, Disk!Busy
<1>5. dI'[c] = 0 /\ dData'[c] = <<>> /\ dResult'[c] = "none"
  BY <1>2 DEF CallTypes, DeviceTypes
<1>6. DoneUpTo(c, 0)'
  BY <1>5 DEF DoneUpTo
<1>7. AtRest(c)' /\ Addressed(c)' /\ OneStep(c)' /\ Counted(c)'
  BY <1>3, <1>4, <1>5, <1>6 DEF AtRest, Addressed, OneStep, Counted, Sectors, Flushing
<1>8. \A d \in Callers \ {c} : /\ dReq'[d] = dReq[d] /\ dData'[d] = dData[d]
                               /\ dResult'[d] = dResult[d]
  BY <1>1, <1>2 DEF CallTypes, DeviceTypes
<1>9. InPlace'
  BY <1>2 DEF InStep, InPlace
<1>10. QED
  BY <1>2, <1>3, <1>4, <1>7, <1>8, <1>9, OneCallSteps DEF CallInTime

\* The waits of the call: in time, the device is not busy any more.
LEMMA WaitReadyStep ==
  ASSUME AtaSensible, CallTypes, DeviceTypes, AtaHolderInCall, InStep, NEW c \in Callers, ~dLate',
         \/ Disk!WaitReady(c, "ready", "high")
         \/ Disk!WaitReady(c, "sector ready", "status")
  PROVE  InStep'
<1>1. /\ UNCHANGED <<dLock, dReq, dI, dData, dResult, dRegs, dDev, dCache>> /\ ~Disk!Busy
      /\ \/ dPc[c] = "ready" /\ dPc' = [dPc EXCEPT ![c] = "high"]
         \/ dPc[c] = "sector ready" /\ dPc' = [dPc EXCEPT ![c] = "status"]
  BY DEF Disk!WaitReady, Disk!Goto
<1>2. dLock = c
  BY <1>1 DEF AtaHolderInCall
<1>3. /\ \/ dPc[c] = "ready" /\ dPc'[c] = "high"
         \/ dPc[c] = "sector ready" /\ dPc'[c] = "status"
      /\ \A d \in Callers \ {c} : dPc'[d] = dPc[d]
  BY <1>1 DEF CallTypes
<1>4. CallInTime(c) /\ InPlace /\ ~Disk!Busy'
  BY <1>1 DEF InStep, Disk!Busy
<1>5. AtRest(c)' /\ Addressed(c)'
  BY <1>1, <1>3, <1>4 DEF CallInTime, AtRest, Addressed, AtaSetup
<1>6. OneStep(c)'
  BY <1>1, <1>3, <1>4 DEF CallInTime, OneStep, Sectors, Disk!Busy, Disk!Drq
<1>7. Counted(c)'
  BY <1>1, <1>3, <1>4 DEF CallInTime, Counted, DoneUpTo, Flushing
<1>8. InPlace'
  BY <1>1, <1>4 DEF InPlace
<1>9. QED
  BY <1>1, <1>2, <1>3, <1>4, <1>5, <1>6, <1>7, <1>8, OneCallSteps DEF CallInTime

\* The two writes to the address registers.
LEMMA AddressStep ==
  ASSUME AtaSensible, CallTypes, DeviceTypes, AtaHolderInCall, InStep, NEW c \in Callers,
         Disk!High(c) \/ Disk!Low(c)
  PROVE  InStep'
<1>1. /\ UNCHANGED <<dLock, dReq, dI, dData, dResult, dDev, dCache>>
      /\ \/ /\ dPc[c] = "high" /\ dPc' = [dPc EXCEPT ![c] = "low"]
            /\ Disk!Written(dReq[c].lba \div Digit)
         \/ /\ dPc[c] = "low" /\ dPc' = [dPc EXCEPT ![c] = "issue"]
            /\ Disk!Written(dReq[c].lba % Digit)
  BY DEF Disk!High, Disk!Low, Disk!Goto
<1>2. dLock = c
  BY <1>1 DEF AtaHolderInCall
<1>3. /\ \/ dPc[c] = "high" /\ dPc'[c] = "low"
         \/ dPc[c] = "low" /\ dPc'[c] = "issue"
      /\ \A d \in Callers \ {c} : dPc'[d] = dPc[d]
  <2>1. \/ dPc[c] = "high" /\ dPc' = [dPc EXCEPT ![c] = "low"]
        \/ dPc[c] = "low" /\ dPc' = [dPc EXCEPT ![c] = "issue"]
    BY DEF Disk!High, Disk!Low, Disk!Goto
  <2>2. QED
    BY <2>1 DEF CallTypes
<1>4. CallInTime(c) /\ InPlace
  BY DEF InStep
<1>5. AtRest(c)' /\ OneStep(c)'
  BY <1>1, <1>3, <1>4 DEF CallInTime, AtRest, OneStep, AtaSetup, Sectors, Disk!Busy
<1>6. Addressed(c)'
  <2>1. CASE dPc[c] = "high"
    BY <1>1, <1>3, <2>1 DEF Addressed, Disk!Written
  <2>2. CASE dPc[c] = "low"
    <3>1. dRegs.now = dReq[c].lba \div Digit
      BY <1>4, <2>2 DEF CallInTime, Addressed
    <3>2. dRegs' = [before |-> dRegs.now, now |-> dReq[c].lba % Digit] /\ dPc'[c] = "issue"
      BY <1>1, <1>3, <2>2 DEF Disk!Written
    <3>3. QED
      BY <1>1, <3>1, <3>2 DEF Addressed
  <2>3. QED
    BY <1>1, <2>1, <2>2
<1>7. Counted(c)'
  BY <1>1, <1>3, <1>4 DEF CallInTime, Counted, DoneUpTo, Flushing
<1>8. InPlace' /\ (dLock' = Disk!Nobody => ~Disk!Busy')
  BY <1>1, <1>2, <1>4 DEF InPlace, AtaSensible
<1>9. QED
  BY <1>1, <1>2, <1>3, <1>5, <1>6, <1>7, <1>8, OneCallSteps DEF CallInTime

\* The command: the device starts with the first sector.
LEMMA IssueStep ==
  ASSUME AtaSensible, CallTypes, DeviceTypes, AtaHolderInCall, InStep, NEW c \in Callers,
         Disk!Issue(c)
  PROVE  InStep'
<1>1. /\ UNCHANGED <<dLock, dReq, dI, dData, dResult, dCache>>
      /\ dPc[c] = "issue" /\ dPc' = [dPc EXCEPT ![c] = "sector ready"]
  BY DEF Disk!Issue, Disk!Goto
<1>2. dLock = c /\ dReq[c].count \in 1..2
  BY <1>1 DEF AtaHolderInCall
<1>3. dPc'[c] = "sector ready" /\ \A d \in Callers \ {c} : dPc'[d] = dPc[d]
  BY <1>1 DEF CallTypes
<1>4. CallInTime(c) /\ InPlace
  BY DEF InStep
<1>5. ~Disk!Busy /\ dI[c] = 0
  BY <1>1, <1>4 DEF CallInTime, AtRest, AtaSetup
<1>6. dRegs.before * Digit + dRegs.now = dReq[c].lba /\ dReq[c].lba \in Nat
  <2>1. dRegs.before = dReq[c].lba \div Digit /\ dRegs.now = dReq[c].lba % Digit
    BY <1>1, <1>4 DEF CallInTime, Addressed
  <2>2. dReq[c].lba \in Nat
    BY DEF CallTypes, Request
  <2>3. (dReq[c].lba \div Digit) * Digit + (dReq[c].lba % Digit) = dReq[c].lba
    BY <2>2, DigitsMakeAddress DEF AtaSensible
  <2>4. QED
    BY <2>1, <2>2, <2>3
<1>7. dDev' = [state |-> "busy", op |-> dReq[c].op, lba |-> dReq[c].lba, left |-> dReq[c].count,
               failed |-> FALSE]
  BY <1>5, <1>6 DEF Disk!Issue
<1>8. OneStep(c)'
  <2>1. dI'[c] = 0 /\ dReq' = dReq /\ dReq[c].count > 0
    <3>1. dReq[c].count > 0
      BY <1>2
    <3>2. QED
      BY <1>1, <1>5, <3>1
  <2>2. /\ dDev'.state = "busy" /\ dDev'.op = dReq[c].op /\ dDev'.lba = dReq[c].lba
        /\ dDev'.left = dReq[c].count /\ dDev'.failed = FALSE
    BY <1>7
  <2>3. dReq[c].lba + 0 = dReq[c].lba /\ dReq[c].count - 0 = dReq[c].count
    BY <1>2, <1>6
  <2>4. QED
    BY <1>3, <2>1, <2>2, <2>3 DEF OneStep, Disk!Busy
<1>9. AtRest(c)' /\ Addressed(c)' /\ Counted(c)'
  BY <1>1, <1>3, <1>4 DEF CallInTime, AtRest, Addressed, Counted, DoneUpTo, AtaSetup, Flushing
<1>10. InPlace' /\ dLock' # Disk!Nobody
  BY <1>1, <1>2, <1>4 DEF InPlace, AtaSensible
<1>11. QED
  BY <1>1, <1>2, <1>3, <1>8, <1>9, <1>10, OneCallSteps DEF CallInTime

\* An error ends the call with the device at rest.
LEMMA CheckErrorStep ==
  ASSUME AtaSensible, CallTypes, DeviceTypes, AtaHolderInCall, InStep, NEW c \in Callers,
         Disk!CheckError(c)
  PROVE  InStep'
<1>1. /\ UNCHANGED <<dReq, dI, dData, dRegs, dDev, dCache>> /\ dPc[c] = "status"
      /\ IF dDev.failed
         THEN /\ dPc' = [dPc EXCEPT ![c] = "out"] /\ dLock' = Disk!Nobody
              /\ \E a \in {"absent", "error"} : dResult' = [dResult EXCEPT ![c] = a]
         ELSE dPc' = [dPc EXCEPT ![c] = "drq"] /\ UNCHANGED <<dLock, dResult>>
  BY DEF Disk!CheckError, Disk!Returns, Disk!Goto
<1>2. dLock = c /\ dResult[c] = "none"
  BY <1>1 DEF AtaHolderInCall
<1>3. /\ dPc'[c] = (IF dDev.failed THEN "out" ELSE "drq")
      /\ dResult'[c] # "ok"
      /\ \A d \in Callers \ {c} : dPc'[d] = dPc[d] /\ dResult'[d] = dResult[d]
  <2>1. CASE dDev.failed
    <3>1. PICK a \in {"absent", "error"} : dResult' = [dResult EXCEPT ![c] = a]
      BY <1>1, <2>1
    <3>2. QED
      BY <1>1, <2>1, <3>1 DEF CallTypes
  <2>2. CASE ~dDev.failed
    BY <1>1, <1>2, <2>2 DEF CallTypes
  <2>3. QED
    BY <2>1, <2>2
<1>4. CallInTime(c) /\ InPlace
  BY DEF InStep
<1>5. OneStep(c)'
  BY <1>1, <1>3, <1>4 DEF CallInTime, OneStep, Sectors, Disk!Busy, Disk!Drq
<1>6. AtRest(c)' /\ Addressed(c)'
  BY <1>3 DEF AtRest, Addressed, AtaSetup
<1>7. Counted(c)'
  BY <1>1, <1>3, <1>4 DEF CallInTime, Counted, DoneUpTo, Flushing
<1>8. dLock' = Disk!Nobody => ~Disk!Busy'
  BY <1>1, <1>2, <1>4 DEF CallInTime, OneStep, Sectors, Disk!Busy, AtaSensible
<1>9. InPlace'
  BY <1>1, <1>4 DEF InPlace
<1>10. QED
  BY <1>1, <1>2, <1>3, <1>5, <1>6, <1>7, <1>8, <1>9, OneCallSteps DEF CallInTime

\* DRQ did not come: the device was late.
LEMMA DrqTimeOutStep ==
  ASSUME AtaSensible, NEW c \in Callers, ~dLate', Disk!DrqTimeOut(c)
  PROVE  InStep'
BY DEF Disk!DrqTimeOut

\* A sector: the device and the loop go on together, and stop together.
LEMMA TransferStep ==
  ASSUME AtaSensible, CallTypes, DeviceTypes, AtaHolderInCall, InStep, NEW c \in Callers,
         Disk!Transfer(c)
  PROVE  InStep'
<1>1. /\ dPc[c] = "drq" /\ Disk!Drq /\ UNCHANGED <<dReq, dRegs>>
      /\ dI' = [dI EXCEPT ![c] = dI[c] + 1]
  BY DEF Disk!Transfer
<1>2. /\ dLock = c /\ dResult[c] = "none"
      /\ dReq[c].op \in Operations /\ dReq[c].count \in 1..2
  BY <1>1 DEF AtaHolderInCall
<1>3. /\ InPlace /\ DoneUpTo(c, dI[c]) /\ dI[c] < dReq[c].count
      /\ dDev.op = dReq[c].op /\ dDev.lba = dReq[c].lba + dI[c] /\ dDev.left = dReq[c].count - dI[c]
      /\ ~dDev.failed
  BY <1>1 DEF InStep, CallInTime, Counted, OneStep, Sectors
<1>4. /\ dReq[c].lba \in Nat /\ dI[c] \in Nat /\ dReq[c].count \in Nat
      /\ dI'[c] = dI[c] + 1
  BY <1>1, CallTyped DEF CallTypes
<1>5. /\ dDev'.op = dReq[c].op /\ dDev'.lba = dReq[c].lba + (dI[c] + 1)
      /\ dDev'.left = dReq[c].count - (dI[c] + 1) /\ ~dDev'.failed
      /\ dDev'.state = (IF dI[c] + 1 < dReq[c].count \/ dReq[c].op = "write"
                        THEN "busy" ELSE "ready")
  <2>1. /\ dDev.lba + 1 = dReq[c].lba + (dI[c] + 1) /\ dDev.left - 1 = dReq[c].count - (dI[c] + 1)
        /\ (dDev.left > 1) = (dI[c] + 1 < dReq[c].count)
    BY <1>3, <1>4
  <2>2. dDev' = [dDev EXCEPT !.state = IF dDev.left > 1 \/ dDev.op = "write" THEN "busy"
                                       ELSE "ready",
                             !.lba = dDev.lba + 1, !.left = dDev.left - 1]
    BY DEF Disk!Transfer
  <2>3. /\ dDev'.op = dDev.op /\ dDev'.lba = dDev.lba + 1 /\ dDev'.left = dDev.left - 1
        /\ dDev'.failed = dDev.failed
        /\ dDev'.state = (IF dDev.left > 1 \/ dDev.op = "write" THEN "busy" ELSE "ready")
    BY <2>2 DEF DeviceTypes
  <2>4. QED
    BY <1>3, <2>1, <2>3
<1>6. InPlace' /\ dCache \subseteq dCache'
  <2>1. dCache' = dCache \/ dCache' = dCache \cup {<<dDev.lba, dReq[c].lba + dI[c]>>}
    BY DEF Disk!Transfer
  <2>2. QED
    BY <1>3, <2>1 DEF InPlace
<1>7. DoneUpTo(c, dI[c])'
  <2>1. CASE dReq[c].op = "write"
    <3>1. dCache' = dCache \cup {<<dReq[c].lba + dI[c], dReq[c].lba + dI[c]>>}
      BY <1>3, <2>1 DEF Disk!Transfer
    <3>2. \A k \in 0..dI[c] : k \in 0..dI[c] - 1 \/ k = dI[c]
      BY <1>4
    <3>3. \A k \in 0..dI[c] : <<dReq[c].lba + k, dReq[c].lba + k>> \in dCache'
      BY <1>3, <2>1, <3>1, <3>2 DEF DoneUpTo
    <3>4. (dI[c] + 1) - 1 = dI[c]
      BY <1>4
    <3>5. QED
      BY <1>1, <1>4, <2>1, <3>3, <3>4 DEF DoneUpTo
  <2>2. CASE dReq[c].op # "write"
    <3>1. dData[c] \in Seq(Nat) /\ dData[c] = [k \in 1..dI[c] |-> dReq[c].lba + k - 1]
      BY <1>3, <2>2 DEF DeviceTypes, DoneUpTo
    <3>2. Append(dData[c], dReq[c].lba + dI[c])
            = [k \in 1..dI[c] + 1 |-> dReq[c].lba + k - 1]
      BY <1>4, <3>1, NextSector
    <3>3. dData' = [dData EXCEPT ![c] = Append(dData[c], dDev.lba)]
      BY <2>2 DEF Disk!Transfer
    <3>4. dData'[c] = Append(dData[c], dReq[c].lba + dI[c])
      BY <1>3, <3>3 DEF DeviceTypes
    <3>5. QED
      BY <1>1, <1>4, <2>2, <3>2, <3>4 DEF DoneUpTo
  <2>3. QED
    BY <2>1, <2>2
<1>8. \A d \in Callers \ {c} : dData'[d] = dData[d]
  BY DEF Disk!Transfer, DeviceTypes
<1>9. CASE dI[c] + 1 < dReq[c].count
  <2>1. /\ dPc' = [dPc EXCEPT ![c] = "sector ready"] /\ UNCHANGED <<dResult, dLock>>
    BY <1>9 DEF Disk!Transfer, Disk!Goto
  <2>2. dPc'[c] = "sector ready" /\ \A d \in Callers \ {c} : dPc'[d] = dPc[d]
    BY <2>1 DEF CallTypes
  <2>3. AtRest(c)' /\ Addressed(c)'
    BY <2>2 DEF AtRest, Addressed, AtaSetup
  <2>4. OneStep(c)'
    BY <1>1, <1>4, <1>5, <1>9, <2>2 DEF OneStep, Disk!Busy
  <2>5. Counted(c)'
    BY <1>2, <1>4, <1>7, <2>1, <2>2 DEF Counted, Flushing
  <2>6. dLock' # Disk!Nobody
    BY <1>2, <2>1 DEF AtaSensible
  <2>7. QED
    BY <1>1, <1>2, <1>6, <1>8, <2>1, <2>2, <2>3, <2>4, <2>5, <2>6, OneCallSteps
    DEF CallInTime
<1>10. CASE ~(dI[c] + 1 < dReq[c].count) /\ dReq[c].op = "write"
  <2>1. /\ dPc' = [dPc EXCEPT ![c] = "flush"] /\ UNCHANGED <<dResult, dLock>>
    BY <1>10 DEF Disk!Transfer, Disk!Goto
  <2>2. dPc'[c] = "flush" /\ \A d \in Callers \ {c} : dPc'[d] = dPc[d]
    BY <2>1 DEF CallTypes
  <2>3. AtRest(c)' /\ Addressed(c)' /\ OneStep(c)'
    BY <2>2 DEF AtRest, Addressed, OneStep, AtaSetup, Sectors
  <2>4. dI[c] + 1 = dReq[c].count
    BY <1>3, <1>4, <1>10
  <2>5. Counted(c)'
    BY <1>1, <1>2, <1>4, <1>7, <1>10, <2>1, <2>2, <2>4 DEF Counted
  <2>6. dLock' # Disk!Nobody
    BY <1>2, <2>1 DEF AtaSensible
  <2>7. QED
    BY <1>1, <1>2, <1>6, <1>8, <2>1, <2>2, <2>3, <2>5, <2>6, OneCallSteps
    DEF CallInTime
<1>11. CASE ~(dI[c] + 1 < dReq[c].count) /\ dReq[c].op # "write"
  <2>1. /\ dPc' = [dPc EXCEPT ![c] = "out"] /\ dLock' = Disk!Nobody
        /\ dResult' = [dResult EXCEPT ![c] = "ok"]
    BY <1>11 DEF Disk!Transfer, Disk!Returns, Disk!Goto
  <2>2. dPc'[c] = "out"
        /\ \A d \in Callers \ {c} : dPc'[d] = dPc[d] /\ dResult'[d] = dResult[d]
    BY <2>1 DEF CallTypes
  <2>3. AtRest(c)' /\ Addressed(c)' /\ OneStep(c)'
    BY <2>2 DEF AtRest, Addressed, OneStep, AtaSetup, Sectors
  <2>4. dI[c] + 1 = dReq[c].count
    BY <1>3, <1>4, <1>11
  <2>5. Counted(c)'
    BY <1>1, <1>4, <1>7, <2>2, <2>4 DEF Counted, Flushing
  <2>6. ~Disk!Busy'
    BY <1>5, <1>11 DEF Disk!Busy
  <2>7. QED
    BY <1>1, <1>2, <1>6, <1>8, <2>2, <2>3, <2>5, <2>6, OneCallSteps
    DEF CallInTime
<1>12. QED
  BY <1>9, <1>10, <1>11

\* The flush and the wait for it: what was given stays given.
LEMMA FlushSteps ==
  ASSUME AtaSensible, CallTypes, DeviceTypes, AtaHolderInCall, InStep, NEW c \in Callers, ~dLate',
         Disk!Flush(c) \/ Disk!Flushed(c)
  PROVE  InStep'
<1>1. /\ UNCHANGED <<dReq, dI, dData, dCache>>
      /\ \/ /\ dPc[c] = "flush" /\ dPc' = [dPc EXCEPT ![c] = "flushed"]
            /\ UNCHANGED <<dLock, dResult>>
         \/ /\ dPc[c] = "flushed" /\ dPc' = [dPc EXCEPT ![c] = "out"] /\ dLock' = Disk!Nobody
            /\ dResult' = [dResult EXCEPT ![c] = "ok"] /\ ~Disk!Busy /\ UNCHANGED dDev
  BY DEF Disk!Flush, Disk!Flushed, Disk!Returns, Disk!Goto
<1>2. dLock = c /\ dResult[c] = "none"
  BY <1>1 DEF AtaHolderInCall
<1>3. /\ dPc'[c] \in {"flushed", "out"} /\ (dPc'[c] = "flushed" => dResult'[c] # "ok")
      /\ \A d \in Callers \ {c} : dPc'[d] = dPc[d] /\ dResult'[d] = dResult[d]
  BY <1>1, <1>2 DEF CallTypes
<1>4. /\ InPlace /\ DoneUpTo(c, dI[c]) /\ dI[c] = dReq[c].count /\ dReq[c].op = "write"
  BY <1>1 DEF InStep, CallInTime, Counted, Flushing
<1>5. AtRest(c)' /\ Addressed(c)' /\ OneStep(c)'
  BY <1>3 DEF AtRest, Addressed, OneStep, AtaSetup, Sectors
<1>6. Counted(c)'
  BY <1>1, <1>4 DEF Counted, DoneUpTo
<1>7. (dLock' = Disk!Nobody => ~Disk!Busy') /\ InPlace'
  BY <1>1, <1>2, <1>4 DEF Disk!Busy, InPlace, AtaSensible
<1>8. QED
  BY <1>1, <1>2, <1>3, <1>5, <1>6, <1>7, OneCallSteps DEF CallInTime

\* The device finishes or fails: it was busy with the sector of the holder.
LEMMA DeviceStep ==
  ASSUME AtaSensible, CallTypes, DeviceTypes, AtaHolderInCall, InStep, Disk!Ready \/ Disk!Fail
  PROVE  InStep'
<1>1. /\ UNCHANGED <<dLock, dPc, dReq, dI, dData, dResult, dRegs, dCache>> /\ Disk!Busy
      /\ \/ dDev' = [dDev EXCEPT !.state = IF dDev.left > 0 THEN "drq" ELSE "ready"]
         \/ dDev' = [dDev EXCEPT !.state = "ready", !.left = 0, !.failed = TRUE]
  BY DEF Disk!Ready, Disk!Fail
<1>2. ~Disk!Busy'
  BY <1>1 DEF Disk!Busy, DeviceTypes
<1>3. \/ /\ dDev'.op = dDev.op /\ dDev'.lba = dDev.lba /\ dDev'.left = dDev.left
         /\ dDev'.failed = dDev.failed /\ (dDev.left > 0 => dDev'.state = "drq")
      \/ dDev'.failed
  BY <1>1 DEF DeviceTypes
<1>4. ASSUME NEW c \in Callers
      PROVE  CallInTime(c)'
  <2>1. CallInTime(c)
    BY DEF InStep
  <2>2. AtRest(c)' /\ Addressed(c)' /\ Counted(c)'
    BY <1>1, <2>1 DEF CallInTime, AtRest, Addressed, Counted, DoneUpTo
  <2>3. ASSUME dPc[c] \in Sectors
        PROVE  OneStep(c)'
    <3>1. /\ dI[c] < dReq[c].count /\ ~dDev.failed /\ dPc[c] = "sector ready"
          /\ dDev.op = dReq[c].op /\ dDev.lba = dReq[c].lba + dI[c]
          /\ dDev.left = dReq[c].count - dI[c]
      BY <1>1, <2>1, <2>3 DEF CallInTime, OneStep, Sectors, Disk!Busy, Disk!Drq
    <3>2. dDev.left > 0
      <4>1. dI[c] \in Nat /\ dReq[c].count \in Nat
        BY CallTyped
      <4>2. dReq[c].count - dI[c] > 0
        BY <3>1, <4>1, SomeLeft
      <4>3. QED
        BY <3>1, <4>2
    <3>3. QED
      BY <1>1, <1>2, <1>3, <3>1, <3>2 DEF OneStep, Disk!Drq
  <2>4. OneStep(c)'
    BY <1>1, <2>3 DEF OneStep
  <2>5. QED
    BY <2>2, <2>4 DEF CallInTime
<1>5. InPlace'
  BY <1>1 DEF InStep, InPlace
<1>6. QED
  BY <1>2, <1>4, <1>5 DEF InStep

\* Every step, while the device is in time.
LEMMA InTimeStep ==
  ASSUME AtaSensible, CallTypes, DeviceTypes, AtaHolderInCall, InTime, [Disk!Next]_Disk!ataVars
  PROVE  InTime'
<1>. SUFFICES ASSUME ~dLate'
              PROVE  InStep'
  BY DEF InTime
<1>1. CASE UNCHANGED Disk!ataVars
  <2>1. InStep
    BY <1>1 DEF InTime, Disk!ataVars
  <2>2. QED
    BY <1>1, <2>1 DEF InStep, InPlace, CallInTime, AtRest, Addressed, OneStep, Counted,
                      DoneUpTo, Disk!Busy, Disk!Drq, Disk!ataVars
<1>2. CASE Disk!Next
  <2>1. InStep
    BY <1>2 DEF InTime, Disk!Next, Disk!Enter, Disk!WaitReady, Disk!High, Disk!Low, Disk!Issue,
         Disk!CheckError, Disk!DrqTimeOut,
                Disk!Transfer, Disk!Flush, Disk!Flushed, Disk!Ready, Disk!Fail
  <2>2. QED
    BY <1>2, <2>1, EnterStep, WaitReadyStep, AddressStep, IssueStep, CheckErrorStep,
       DrqTimeOutStep, TransferStep, FlushSteps, DeviceStep DEF Disk!Next
<1>3. QED
  BY <1>1, <1>2

-----------------------------------------------------------------------------
(* The theorems. *)

\* Nothing was asked yet.
LEMMA AtaInitInv == ASSUME AtaSensible, Disk!Init PROVE AtaInv
<1>1. CallTypes
  BY DEF Disk!Init, CallTypes, Request, Disk!NoRequest, AtaSensible
<1>2. DeviceTypes
  <2>1. <<>> \in Seq(Nat)
    OBVIOUS
  <2>2. dData \in [Callers -> Seq(Nat)]
    BY <2>1 DEF Disk!Init
  <2>3. dDev = [state |-> "ready", op |-> "none", lba |-> 0, left |-> 0, failed |-> FALSE]
    BY DEF Disk!Init, Disk!Idle
  <2>4. dDev \in [state : {"ready", "busy", "drq"}, op : Operations \cup {"none", "flush"},
                  lba : Nat, left : Int, failed : BOOLEAN]
    BY <2>3
  <2>5. dRegs \in [before : Nat, now : Nat] /\ dCache \subseteq Nat \X Nat /\ dLate \in BOOLEAN
    BY DEF Disk!Init
  <2>6. QED
    BY <2>2, <2>4, <2>5 DEF DeviceTypes
<1>3. AtaHolderInCall
  BY DEF Disk!Init, AtaHolderInCall, AtaSensible
<1>4. InStep
  BY DEF Disk!Init, InStep, InPlace, CallInTime, AtRest, Addressed, OneStep, Counted, DoneUpTo,
         AtaSetup, Sectors, Flushing, Disk!Busy, Disk!Idle
<1>5. QED
  BY <1>1, <1>2, <1>3, <1>4 DEF AtaInv, AtaTypeOK, InTime

\* The invariant holds in every state the clients and the device can reach.
THEOREM AtaInductive == AtaSensible => (Disk!Spec => []AtaInv)
<1>. SUFFICES ASSUME AtaSensible PROVE Disk!Spec => []AtaInv
  OBVIOUS
<1>1. Disk!Init => AtaInv
  BY AtaInitInv
<1>2. AtaInv /\ [Disk!Next]_Disk!ataVars => AtaInv'
  BY CallTypeStep, DeviceTypeStep, AtaHolderStep, InTimeStep DEF AtaInv, AtaTypeOK
<1>3. QED
  BY <1>1, <1>2, PTL DEF Disk!Spec

(***************************************************************************)
(* As long as the device is in time, a read that succeeds has the sectors  *)
(* it asked for in their order and a write has put each of its own in its  *)
(* place, whoever else calls; and the lock is free whenever nobody is in a *)
(* call, also after the device was late.                                   *)
(***************************************************************************)
THEOREM AtaAnswersTrue == AtaSensible => (Disk!Spec => []Disk!AtaTrue)
<1>. SUFFICES ASSUME AtaSensible PROVE Disk!Spec => []Disk!AtaTrue
  OBVIOUS
<1>1. AtaInv => Disk!AtaTrue
  <2>. SUFFICES ASSUME AtaInv PROVE Disk!AtaTrue
    OBVIOUS
  <2>1. (dLock = Disk!Nobody) = \A c \in Callers : dPc[c] = "out"
    <3>1. dLock \in Callers \/ dLock = Disk!Nobody
      BY DEF AtaInv, AtaTypeOK, CallTypes
    <3>2. CASE dLock = Disk!Nobody
      BY <3>2 DEF AtaInv, AtaHolderInCall, AtaSensible
    <3>3. CASE dLock \in Callers
      BY <3>3 DEF AtaInv, AtaHolderInCall, AtaSensible
    <3>4. QED
      BY <3>1, <3>2, <3>3
  <2>2. ~dLate => InPlace /\ \A c \in Callers : dResult[c] = "ok" => DoneUpTo(c, dReq[c].count)
    BY DEF AtaInv, InTime, InStep, CallInTime, Counted
  <2>3. QED
    BY <2>1, <2>2 DEF Disk!AtaTrue, InPlace, DoneUpTo
<1>2. QED
  BY <1>1, AtaInductive, PTL

-----------------------------------------------------------------------------
(***************************************************************************)
(* xHCI (Xhci), for rings of any length and any number of commands and     *)
(* port events. A place on the command ring is an index and the cycle of   *)
(* its lap: the controller is at the driver's place, or one command behind *)
(* it while the driver waits. On the event ring what lies between the      *)
(* driver and the controller is unseen, and at most one of it is a         *)
(* completion.                                                             *)
(***************************************************************************)
\* A ring has a link TRB and another one.
XhciSensible == Trbs \in Nat /\ Trbs >= 2 /\ MaxCommands \in Nat /\ MaxPortEvents \in Nat

XhciSpec == Usb!Init /\ [][Usb!Next]_Usb!xhciVars

Places == {"map", "reset", "dcbaa", "commands", "events", "erst", "run", "running", "enable",
           "enabling", "ports", "up", "waiting", "off"}
Waits == {"enabling", "waiting"}

-----------------------------------------------------------------------------
(* The inductive invariant, in parts. *)

\* Every variable has its type.
StartTypes == /\ xAt \in Places /\ xMem \subseteq Usb!Structures /\ xGiven \in BOOLEAN
              /\ xRunning \in BOOLEAN /\ xHalting \in BOOLEAN

CommandTypes ==
  /\ xCmdRing \in [Usb!CommandTrbs -> Nat \X {0, 1}]
  /\ xCmdIndex \in Usb!CommandTrbs /\ xCmdCycle \in {0, 1}
  /\ xDIndex \in 0 .. Usb!Link /\ xDCycle \in {0, 1}
  /\ xSent \in Nat /\ xAnswer \in Nat

EventTypes ==
  /\ xEvRing \in [Usb!Events -> {"none", "done", "port"} \X Nat \X {0, 1}]
  /\ xEvIndex \in Usb!Events /\ xEvCycle \in {0, 1}
  /\ xEIndex \in Usb!Events /\ xECycle \in {0, 1}
  /\ xErdp \in Usb!Events /\ xPorts \in Nat

XhciTypeOK == StartTypes /\ CommandTypes /\ EventTypes

\* Which structures there are at which step; the controller is given all or none.
HeldSoFar ==
  /\ xAt \in {"map", "reset"} => xMem = {} /\ ~xGiven
  /\ xAt = "dcbaa" => xMem = {} /\ ~xGiven /\ ~xRunning
  /\ xAt = "commands" => xMem = {"dcbaa"} /\ ~xGiven /\ ~xRunning
  /\ xAt = "events" => xMem = {"dcbaa", "commands"} /\ ~xGiven /\ ~xRunning
  /\ xAt = "erst" => xMem = {"dcbaa", "commands", "events"} /\ ~xGiven /\ ~xRunning
  /\ xAt = "run" => xMem = Usb!Structures /\ ~xGiven /\ ~xRunning
  /\ xAt \in {"running", "enable", "enabling", "ports", "up", "waiting"} => xMem = Usb!Structures
  /\ xAt = "off" /\ xRunning /\ xGiven => xMem = Usb!Structures

\* The cycle bit tells what this lap has written from what the last one left.
CommandLaps ==
  \A i \in Usb!CommandTrbs : xCmdRing[i][2] = IF i < xCmdIndex THEN xCmdCycle ELSE 1 - xCmdCycle
EventLaps ==
  /\ \A i \in Usb!Events : xEvRing[i][3] = IF i < xEIndex THEN xECycle ELSE 1 - xECycle
  /\ xEvCycle = IF xEvIndex <= xEIndex THEN xECycle ELSE 1 - xECycle
  /\ xErdp = xEvIndex

\* Places on the command ring.
UsbAfter(i, c) == IF i + 1 = Usb!Link THEN <<0, 1 - c>> ELSE <<i + 1, c>>
Driver == <<xCmdIndex, xCmdCycle>>
Device == IF Usb!AtLink THEN <<0, 1 - xDCycle>> ELSE <<xDIndex, xDCycle>>
CaughtUp == Device = Driver
OneBehind == /\ UsbAfter(Device[1], Device[2]) = Driver
             /\ xCmdRing[Device[1]] = <<xSent, Device[2]>>

\* The events the driver has not seen, and the completions among them.
Unseen == IF xEvIndex <= xEIndex THEN xEvIndex .. xEIndex - 1
                                 ELSE (xEvIndex .. Trbs - 1) \cup (0 .. xEIndex - 1)
UsbCompletions == {i \in Unseen : xEvRing[i][1] = "done"}

\* A command is on its way, or its completion is, or neither.
InTurn ==
  /\ xAt \in Waits =>
       /\ xAnswer = 0
       /\ \/ OneBehind /\ UsbCompletions = {}
          \/ CaughtUp /\ \E i \in Usb!Events : UsbCompletions = {i} /\ xEvRing[i][2] = xSent
  /\ xAt \notin Waits \cup {"off"} => CaughtUp /\ UsbCompletions = {}
  /\ xAt \in {"up", "ports"} => xAnswer = xSent

\* How many commands the controller has executed, over both of its laps.
Executed == IF xDCycle = 1 THEN xDIndex ELSE Usb!Link + xDIndex
InCount == xAt # "off" => xSent = IF CaughtUp THEN Executed ELSE Executed + 1

XhciInv == XhciTypeOK /\ HeldSoFar /\ CommandLaps /\ EventLaps /\ InTurn /\ InCount

-----------------------------------------------------------------------------
(* The event ring. *)

\* The events are those before the controller, in the ring's order.
LEMMA UnseenInRing ==
  ASSUME XhciSensible, EventTypes
  PROVE  Unseen \subseteq Usb!Events /\ xEIndex \notin Unseen
                                     /\ (xEvIndex \in Unseen <=> xEvIndex # xEIndex)
BY DEF XhciSensible, EventTypes, Usb!Events, Unseen

\* The next place on the event ring.
NextPlace(i) == IF i + 1 = Trbs THEN 0 ELSE i + 1
LEMMA NextPlaceInRing ==
  ASSUME XhciSensible, NEW i \in Usb!Events
  PROVE  NextPlace(i) \in Usb!Events /\ (NextPlace(i) = 0 \/ NextPlace(i) = i + 1)
BY DEF XhciSensible, Usb!Events, NextPlace

\* The controller puts one event behind the last and stops before the driver.
LEMMA ProduceStep ==
  ASSUME XhciSensible, EventTypes, EventLaps, NEW kind \in {"done", "port"}, NEW n \in Nat,
         Usb!Produce(kind, n), UNCHANGED <<xEvIndex, xEvCycle, xErdp>>, xPorts' \in Nat
  PROVE  /\ EventTypes' /\ EventLaps'
         /\ Unseen' = Unseen \cup {xEIndex}
         /\ xEvRing'[xEIndex][1] = kind /\ xEvRing'[xEIndex][2] = n
         /\ \A i \in Unseen : xEvRing'[i] = xEvRing[i]
<1>. USE DEF XhciSensible
<1>1. /\ NextPlace(xEIndex) # xEvIndex /\ xEIndex' = NextPlace(xEIndex)
      /\ xECycle' = IF xEIndex + 1 = Trbs THEN 1 - xECycle ELSE xECycle
      /\ xEvRing' = [xEvRing EXCEPT ![xEIndex] = <<kind, n, xECycle>>]
  BY DEF Usb!Produce, NextPlace, EventLaps
<1>2. /\ xEIndex \in Usb!Events /\ xEvIndex \in Usb!Events /\ xECycle \in {0, 1}
      /\ xEvCycle \in {0, 1}
  BY DEF EventTypes
<1>3. EventTypes'
  <2>1. xEIndex' \in Usb!Events /\ xECycle' \in {0, 1}
    BY <1>1, <1>2, NextPlaceInRing
  <2>2. <<kind, n, xECycle>> \in {"none", "done", "port"} \X Nat \X {0, 1}
    BY <1>2
  <2>3. xEvRing' \in [Usb!Events -> {"none", "done", "port"} \X Nat \X {0, 1}]
    BY <1>1, <2>2 DEF EventTypes
  <2>4. QED
    BY <2>1, <2>3 DEF EventTypes
<1>4. /\ xEvRing'[xEIndex] = <<kind, n, xECycle>>
      /\ \A i \in Usb!Events \ {xEIndex} : xEvRing'[i] = xEvRing[i]
  BY <1>1, <1>2 DEF EventTypes
<1>5. Unseen' = Unseen \cup {xEIndex}
  BY <1>1, <1>2 DEF Unseen, NextPlace, Usb!Events
<1>6. EventLaps'
  <2>1. \A i \in Usb!Events : xEvRing'[i][3] = IF i < xEIndex' THEN xECycle' ELSE 1 - xECycle'
    <3>. SUFFICES ASSUME NEW i \in Usb!Events
                  PROVE  xEvRing'[i][3] = IF i < xEIndex' THEN xECycle' ELSE 1 - xECycle'
      OBVIOUS
    <3>1. xEvRing'[i][3] = IF i <= xEIndex THEN xECycle ELSE 1 - xECycle
      BY <1>2, <1>4 DEF EventLaps, Usb!Events
    <3>2. CASE xEIndex + 1 = Trbs
      BY <1>1, <1>2, <3>1, <3>2 DEF NextPlace, Usb!Events
    <3>3. CASE xEIndex + 1 # Trbs
      BY <1>1, <1>2, <3>1, <3>3 DEF NextPlace, Usb!Events
    <3>4. QED
      BY <3>2, <3>3
  <2>2. xEvCycle' = IF xEvIndex' <= xEIndex' THEN xECycle' ELSE 1 - xECycle'
    <3>1. xEvCycle = IF xEvIndex <= xEIndex THEN xECycle ELSE 1 - xECycle
      BY DEF EventLaps
    <3>2. QED
      BY <1>1, <1>2, <3>1 DEF NextPlace, Usb!Events
  <2>3. QED
    BY <2>1, <2>2 DEF EventLaps
<1>7. \A i \in Unseen : xEvRing'[i] = xEvRing[i]
  BY <1>4, UnseenInRing
<1>8. QED
  BY <1>3, <1>4, <1>5, <1>6, <1>7

\* The driver takes the oldest event it has not seen, and none where there is none.
LEMMA NextEventStep ==
  ASSUME XhciSensible, EventTypes, EventLaps, Usb!NextEvent
  PROVE  /\ EventTypes' /\ EventLaps'
         /\ xEvIndex \in Unseen /\ Unseen' = Unseen \ {xEvIndex}
<1>. USE DEF XhciSensible
<1>1. /\ xEvRing[xEvIndex][3] = xEvCycle /\ xEvIndex' = NextPlace(xEvIndex) /\ xErdp' = xEvIndex'
      /\ xEvCycle' = IF xEvIndex + 1 = Trbs THEN 1 - xEvCycle ELSE xEvCycle
      /\ UNCHANGED <<xEvRing, xEIndex, xECycle, xPorts>>
  BY DEF Usb!NextEvent, Usb!EventToggles, NextPlace
<1>2. /\ xEIndex \in Usb!Events /\ xEvIndex \in Usb!Events /\ xECycle \in {0, 1}
      /\ xEvCycle \in {0, 1}
  BY DEF EventTypes
<1>3. EventTypes'
  BY <1>1, <1>2, NextPlaceInRing DEF EventTypes
<1>4. xEvIndex # xEIndex
  <2>. SUFFICES ASSUME xEvIndex = xEIndex PROVE FALSE
    OBVIOUS
  <2>1. ~(xEIndex < xEIndex) /\ xEIndex <= xEIndex
    BY <1>2 DEF Usb!Events
  <2>2. xEvRing[xEIndex][3] = 1 - xECycle
    BY <1>2, <2>1 DEF EventLaps
  <2>3. xEvCycle = xECycle
    BY <2>1 DEF EventLaps
  <2>4. QED
    BY <1>1, <1>2, <2>2, <2>3
<1>5. xEvCycle' = IF xEvIndex' <= xEIndex' THEN xECycle' ELSE 1 - xECycle'
  <2>1. xEvCycle = IF xEvIndex <= xEIndex THEN xECycle ELSE 1 - xECycle
    BY DEF EventLaps
  <2>2. QED
    BY <1>1, <1>2, <1>4, <2>1 DEF NextPlace, Usb!Events
<1>6. EventLaps'
  BY <1>1, <1>5 DEF EventLaps
<1>7. Unseen' = Unseen \ {xEvIndex}
  BY <1>1, <1>2, <1>4 DEF Unseen, NextPlace, Usb!Events
<1>8. QED
  BY <1>3, <1>4, <1>6, <1>7, UnseenInRing

-----------------------------------------------------------------------------
(* The command ring. *)

\* Places are on the ring, and no place comes after itself.
LEMMA PlacesInRing ==
  ASSUME XhciSensible, CommandTypes
  PROVE  /\ Device[1] \in Usb!CommandTrbs /\ Device[2] \in {0, 1}
         /\ UsbAfter(Device[1], Device[2]) # Device
BY DEF XhciSensible, CommandTypes, Usb!CommandTrbs, Device, UsbAfter, Usb!AtLink, Usb!Link

\* xhci_send_cmd puts the driver one command ahead.
LEMMA SendStep ==
  ASSUME XhciSensible, CommandTypes, CommandLaps, CaughtUp, NEW from, NEW to, Usb!SendCmd(from, to)
  PROVE  CommandTypes' /\ CommandLaps' /\ OneBehind' /\ ~CaughtUp' /\ Executed' = Executed
<1>. USE DEF XhciSensible
<1>1. /\ xCmdRing' = [xCmdRing EXCEPT ![xCmdIndex] = <<xSent + 1, xCmdCycle>>]
      /\ xCmdIndex' = IF xCmdIndex + 1 = Usb!Link THEN 0 ELSE xCmdIndex + 1
      /\ xCmdCycle' = IF xCmdIndex + 1 = Usb!Link THEN 1 - xCmdCycle ELSE xCmdCycle
      /\ xSent' = xSent + 1 /\ xAnswer' = 0 /\ UNCHANGED <<xDIndex, xDCycle>>
  BY DEF Usb!SendCmd, Usb!TogglesAtLink
<1>2. /\ xCmdIndex \in Usb!CommandTrbs /\ xCmdCycle \in {0, 1} /\ xSent \in Nat
      /\ xDIndex \in 0 .. Usb!Link /\ xDCycle \in {0, 1}
  BY DEF CommandTypes
<1>3. /\ xCmdRing'[xCmdIndex] = <<xSent + 1, xCmdCycle>>
      /\ \A i \in Usb!CommandTrbs \ {xCmdIndex} : xCmdRing'[i] = xCmdRing[i]
  BY <1>1, <1>2 DEF CommandTypes
<1>4. CommandTypes'
  <2>1. <<xSent + 1, xCmdCycle>> \in Nat \X {0, 1}
    BY <1>2
  <2>2. xCmdRing' \in [Usb!CommandTrbs -> Nat \X {0, 1}]
    BY <1>1, <2>1 DEF CommandTypes
  <2>3. xCmdIndex' \in Usb!CommandTrbs /\ xCmdCycle' \in {0, 1}
    BY <1>1, <1>2 DEF Usb!CommandTrbs, Usb!Link
  <2>4. QED
    BY <1>1, <1>2, <2>2, <2>3 DEF CommandTypes
<1>5. CommandLaps'
  <2>. SUFFICES ASSUME NEW i \in Usb!CommandTrbs
                PROVE  xCmdRing'[i][2] = IF i < xCmdIndex' THEN xCmdCycle' ELSE 1 - xCmdCycle'
    BY DEF CommandLaps
  <2>1. xCmdRing'[i][2] = IF i <= xCmdIndex THEN xCmdCycle ELSE 1 - xCmdCycle
    BY <1>2, <1>3 DEF CommandLaps, Usb!CommandTrbs
  <2>2. QED
    BY <1>1, <1>2, <2>1 DEF Usb!CommandTrbs, Usb!Link
<1>6. Device' = Device /\ Device = <<xCmdIndex, xCmdCycle>>
  BY <1>1 DEF CaughtUp, Driver, Device, Usb!AtLink
<1>7. OneBehind'
  <2>1. UsbAfter(xCmdIndex, xCmdCycle) = <<xCmdIndex', xCmdCycle'>>
    BY <1>1 DEF UsbAfter
  <2>2. xCmdRing'[xCmdIndex] = <<xSent', xCmdCycle>>
    BY <1>1, <1>3
  <2>3. QED
    BY <1>6, <2>1, <2>2 DEF OneBehind, Driver, UsbAfter
<1>8. ~CaughtUp'
  <2>1. UsbAfter(Device[1], Device[2]) = Driver' /\ Device' = Device
    BY <1>6, <1>7 DEF OneBehind, UsbAfter
  <2>2. QED
    BY <2>1, PlacesInRing DEF CaughtUp
<1>9. QED
  BY <1>1, <1>4, <1>5, <1>7, <1>8 DEF Executed

\* The controller executes only what the driver is ahead of: the one command.
LEMMA ExecuteStep ==
  ASSUME XhciSensible, CommandTypes, CommandLaps, Usb!Execute
  PROVE  /\ CommandTypes' /\ CommandLaps' /\ ~CaughtUp
         /\ OneBehind => /\ CaughtUp' /\ xCmdRing[xDIndex] = <<xSent, xDCycle>>
                         /\ Executed' = Executed + 1
<1>. USE DEF XhciSensible
<1>1. /\ xDIndex # Usb!Link /\ xCmdRing[xDIndex][2] = xDCycle /\ xDIndex' = xDIndex + 1
      /\ UNCHANGED <<xCmdRing, xCmdIndex, xCmdCycle, xSent, xAnswer, xDCycle>>
  BY DEF Usb!Execute, Usb!AtLink
<1>2. /\ xCmdIndex \in Usb!CommandTrbs /\ xCmdCycle \in {0, 1} /\ xDIndex \in Usb!CommandTrbs
      /\ xDCycle \in {0, 1} /\ xSent \in Nat
  BY <1>1 DEF CommandTypes, Usb!CommandTrbs, Usb!Link
<1>3. CommandTypes' /\ CommandLaps'
  BY <1>1, <1>2 DEF CommandTypes, CommandLaps, Usb!CommandTrbs, Usb!Link
<1>4. Device = <<xDIndex, xDCycle>>
  BY <1>1 DEF Device, Usb!AtLink
<1>5. ~CaughtUp
  <2>1. xCmdRing[xDIndex][2] = IF xDIndex < xCmdIndex THEN xCmdCycle ELSE 1 - xCmdCycle
    BY <1>2 DEF CommandLaps
  <2>2. QED
    BY <1>1, <1>2, <1>4, <2>1 DEF CaughtUp, Driver, Usb!CommandTrbs
<1>6. ASSUME OneBehind
      PROVE  CaughtUp' /\ xCmdRing[xDIndex] = <<xSent, xDCycle>>
  <2>1. UsbAfter(xDIndex, xDCycle) = <<xCmdIndex, xCmdCycle>>
        /\ xCmdRing[xDIndex] = <<xSent, xDCycle>>
    BY <1>4, <1>6 DEF OneBehind, Driver
  <2>2. Device' = UsbAfter(xDIndex, xDCycle)
    BY <1>1, <1>2 DEF Device, Usb!AtLink, UsbAfter
  <2>3. QED
    BY <1>1, <2>1, <2>2 DEF CaughtUp, Driver
<1>7. Executed' = Executed + 1
  BY <1>1, <1>2 DEF Executed, Usb!CommandTrbs, Usb!Link
<1>8. QED
  BY <1>3, <1>5, <1>6, <1>7

\* Following the link TRB moves the controller to the next lap, to the same place.
LEMMA LinkStep ==
  ASSUME XhciSensible, CommandTypes, CommandLaps, Usb!FollowLink
  PROVE  /\ CommandTypes' /\ CommandLaps' /\ Device' = Device /\ Executed' = Executed
<1>. USE DEF XhciSensible
<1>1. /\ xDIndex = Usb!Link /\ xDCycle = 1 /\ xDIndex' = 0 /\ xDCycle' = 0
      /\ UNCHANGED <<xCmdRing, xCmdIndex, xCmdCycle, xSent, xAnswer>>
  BY DEF Usb!FollowLink, Usb!AtLink
<1>2. Usb!Link # 0 /\ Usb!Link \in Int /\ 0 \in 0 .. Usb!Link
  BY DEF Usb!Link
<1>3. CommandTypes' /\ CommandLaps'
  BY <1>1, <1>2 DEF CommandTypes, CommandLaps
<1>4. Device' = Device
  BY <1>1, <1>2 DEF Device, Usb!AtLink
<1>5. Executed' = Executed
  BY <1>1, <1>2 DEF Executed
<1>6. QED
  BY <1>3, <1>4, <1>5

-----------------------------------------------------------------------------
(* What each action keeps. *)

\* The steps of xhci_init that do not touch a ring, and every way down.
StartSteps ==
  \/ Usb!MapMmio \/ Usb!Reset \/ Usb!AllocateAll \/ Usb!Run \/ Usb!Started
  \/ Usb!FindPort \/ Usb!Halt
SendSteps == Usb!EnableSlot \/ Usb!Command
WaitSteps == Usb!WaitSlot \/ Usb!WaitCommand

\* destroy_n_unmap_xhci frees what there is only when the controller has stopped.
LEMMA DestroyHolds ==
  ASSUME StartTypes, HeldSoFar, Usb!Destroy
  PROVE  StartTypes' /\ HeldSoFar'
<1>1. CASE xRunning' = FALSE /\ xMem' = {} /\ xAt' = "off" /\ xHalting' = TRUE /\ UNCHANGED xGiven
  BY <1>1 DEF StartTypes, HeldSoFar, Places
<1>2. CASE xRunning /\ Usb!StopTimesOut
  BY <1>2 DEF StartTypes, HeldSoFar, Places, Usb!StopTimesOut
<1>3. QED
  BY <1>1, <1>2 DEF Usb!Destroy

\* Steps within the rings leave the structures as they are.
LEMMA RingHolds ==
  ASSUME StartTypes, HeldSoFar, UNCHANGED <<xMem, xGiven, xRunning, xHalting>>, xAt' \in Places,
         xAt' = xAt \/ {xAt, xAt'} \subseteq {"running", "enable", "enabling", "ports", "up",
                                             "waiting"}
  PROVE  StartTypes' /\ HeldSoFar'
BY DEF StartTypes, HeldSoFar, Places

\* The start-up, wherever it fails.
LEMMA StartHolds ==
  ASSUME StartTypes, HeldSoFar, StartSteps
  PROVE  StartTypes' /\ HeldSoFar' /\ UNCHANGED Usb!ringVars
<1>1. CASE Usb!Destroy /\ UNCHANGED Usb!ringVars
  BY <1>1, DestroyHolds
<1>2. CASE Usb!MapMmio
  BY <1>1, <1>2 DEF Usb!MapMmio, Usb!Goes, Usb!Unmapped, Usb!Fails, StartTypes, HeldSoFar, Places
<1>3. CASE Usb!Reset
  <2>1. CASE /\ xAt = "reset" /\ xAt' = "dcbaa" /\ xRunning' = FALSE
             /\ UNCHANGED <<xMem, xGiven, xHalting, Usb!ringVars>>
    BY <2>1 DEF StartTypes, HeldSoFar, Places
  <2>2. QED
    BY <1>1, <1>3, <2>1 DEF Usb!Reset, Usb!Goes, Usb!Fails
<1>4. CASE Usb!AllocateAll
  <2>1. ASSUME NEW from, NEW what, NEW to, xAt = from, xAt' = to, xMem' = xMem \cup {what},
               UNCHANGED <<xGiven, xRunning, xHalting, Usb!ringVars>>,
               <<from, what, to>> \in {<<"dcbaa", "dcbaa", "commands">>,
                                      <<"commands", "commands", "events">>,
                                      <<"events", "events", "erst">>, <<"erst", "erst", "run">>}
        PROVE  StartTypes' /\ HeldSoFar' /\ UNCHANGED Usb!ringVars
    BY <2>1 DEF StartTypes, HeldSoFar, Places, Usb!Structures
  <2>2. QED
    BY <1>1, <1>4, <2>1 DEF Usb!AllocateAll, Usb!Allocate, Usb!Goes, Usb!Fails
<1>5. CASE Usb!Run
  BY <1>5 DEF Usb!Run, Usb!Goes, StartTypes, HeldSoFar, Places
<1>6. CASE Usb!Started
  BY <1>1, <1>6 DEF Usb!Started, Usb!Goes, Usb!Fails, StartTypes, HeldSoFar, Places
<1>7. CASE Usb!FindPort
  BY <1>1, <1>7 DEF Usb!FindPort, Usb!Goes, Usb!Fails, StartTypes, HeldSoFar, Places
<1>8. CASE Usb!Halt
  BY <1>8 DEF Usb!Halt, StartTypes, HeldSoFar, Places
<1>9. QED
  BY <1>2, <1>3, <1>4, <1>5, <1>6, <1>7, <1>8 DEF StartSteps

\* Every other step.
LEMMA OthersHold ==
  ASSUME StartTypes, HeldSoFar, SendSteps \/ WaitSteps \/ Usb!FollowLink \/ Usb!Execute
         \/ Usb!PortEvent
  PROVE  StartTypes' /\ HeldSoFar'
<1>1. CASE SendSteps
  BY <1>1, RingHolds DEF SendSteps, Usb!EnableSlot, Usb!Command, Usb!SendCmd, Usb!Goes, Places
<1>2. CASE WaitSteps
  <2>1. CASE \/ xAt = "enabling" /\ Usb!NextEvent /\ xAt' \in {"ports", xAt}
             \/ xAt = "waiting" /\ Usb!NextEvent /\ xAt' \in {"up", xAt}
    BY <2>1, RingHolds DEF Usb!NextEvent, Places
  <2>2. CASE Usb!Destroy
    BY <2>2, DestroyHolds
  <2>3. QED
    BY <1>2, <2>1, <2>2 DEF WaitSteps, Usb!WaitSlot, Usb!WaitCommand, Usb!WaitCmd, Usb!Fails
<1>3. CASE Usb!FollowLink \/ Usb!Execute \/ Usb!PortEvent
  <2>1. UNCHANGED <<xAt, xMem, xGiven, xRunning, xHalting>>
    BY <1>3 DEF Usb!FollowLink, Usb!Execute, Usb!PortEvent
  <2>2. QED
    BY <2>1 DEF StartTypes, HeldSoFar
<1>4. QED
  BY <1>1, <1>2, <1>3

\* A step that leaves the rings alone leaves every part about them true, if
\* the driver does not begin to wait or to have an answer it has not.
LEMMA RingsKept ==
  ASSUME CommandTypes, EventTypes, CommandLaps, EventLaps, InTurn, InCount,
         UNCHANGED Usb!ringVars,
         \/ xAt' = "off"
         \/ xAt' = xAt
         \/ xAt \notin Waits \cup {"off"} /\ xAt' \notin Waits \cup {"up", "ports"}
         \/ xAt = "ports" /\ xAt' = "up"
  PROVE  CommandTypes' /\ EventTypes' /\ CommandLaps' /\ EventLaps' /\ InTurn' /\ InCount'
<1>. USE DEF Usb!ringVars
<1>1. CommandTypes' /\ EventTypes' /\ CommandLaps' /\ EventLaps'
  BY DEF CommandTypes, EventTypes, CommandLaps, EventLaps
<1>2. UNCHANGED <<CaughtUp, OneBehind, UsbCompletions, Executed>>
  BY DEF CaughtUp, OneBehind, Device, Driver, Usb!AtLink, UsbCompletions, Unseen, Executed
<1>3. CASE xAt' = "off"
  BY <1>1, <1>3 DEF InTurn, InCount, Waits
<1>4. CASE xAt' = xAt
  BY <1>1, <1>2, <1>4 DEF InTurn, InCount
<1>5. CASE xAt \notin Waits \cup {"off"} /\ xAt' \notin Waits \cup {"up", "ports"}
  BY <1>1, <1>2, <1>5 DEF InTurn, InCount
<1>6. CASE xAt = "ports" /\ xAt' = "up"
  BY <1>1, <1>2, <1>6 DEF InTurn, InCount, Waits
<1>7. QED
  BY <1>3, <1>4, <1>5, <1>6

\* No step of the start-up makes the driver wait; it ends with the answer it had.
LEMMA StartKeepsTurn ==
  ASSUME CommandTypes, EventTypes, CommandLaps, EventLaps, InTurn, InCount, StartTypes,
         StartSteps, UNCHANGED Usb!ringVars
  PROVE  CommandTypes' /\ EventTypes' /\ CommandLaps' /\ EventLaps' /\ InTurn' /\ InCount'
<1>1. \/ xAt' = "off"
      \/ xAt' = xAt
      \/ xAt \notin Waits \cup {"off"} /\ xAt' \notin Waits \cup {"up", "ports"}
      \/ xAt = "ports" /\ xAt' = "up"
  BY DEF StartSteps, Usb!MapMmio, Usb!Reset, Usb!AllocateAll, Usb!Allocate, Usb!Run, Usb!Started,
       Usb!FindPort, Usb!Halt, Usb!Goes,
         Usb!Fails, Usb!Unmapped, Usb!Destroy, Usb!StopTimesOut, Waits
<1>2. QED
  BY <1>1, RingsKept

\* A command is sent where none is on its way.
LEMMA SendKeepsTurn ==
  ASSUME XhciSensible, CommandTypes, EventTypes, CommandLaps, EventLaps, InTurn, InCount,
         SendSteps
  PROVE  CommandTypes' /\ EventTypes' /\ CommandLaps' /\ EventLaps' /\ InTurn' /\ InCount'
<1>1. PICK from \in {"enable", "up"}, to \in Waits : Usb!SendCmd(from, to)
  BY DEF SendSteps, Usb!EnableSlot, Usb!Command, Waits
<1>2. /\ xAt = from /\ xAt' = to /\ xAnswer' = 0 /\ xSent' = xSent + 1
      /\ UNCHANGED <<xEvRing, xEvIndex, xEvCycle, xEIndex, xECycle, xErdp, xPorts>>
  BY <1>1 DEF Usb!SendCmd, Usb!Goes
<1>3. CaughtUp /\ UsbCompletions = {} /\ xSent = Executed
  BY <1>2 DEF InTurn, InCount, Waits
<1>4. CommandTypes' /\ CommandLaps' /\ OneBehind' /\ ~CaughtUp' /\ Executed' = Executed
  BY <1>1, <1>3, SendStep
<1>5. EventTypes' /\ EventLaps' /\ UsbCompletions' = {}
  BY <1>2, <1>3 DEF EventTypes, EventLaps, UsbCompletions, Unseen
<1>6. InTurn'
  BY <1>2, <1>4, <1>5 DEF InTurn, Waits
<1>7. InCount'
  BY <1>2, <1>3, <1>4 DEF InCount
<1>8. QED
  BY <1>4, <1>5, <1>6, <1>7

\* An event is taken: if it is the completion, the driver stops waiting.
LEMMA WaitKeepsTurn ==
  ASSUME XhciSensible, CommandTypes, EventTypes, CommandLaps, EventLaps, InTurn, InCount,
         WaitSteps
  PROVE  CommandTypes' /\ EventTypes' /\ CommandLaps' /\ EventLaps' /\ InTurn' /\ InCount'
<1>1. CASE Usb!Destroy /\ UNCHANGED Usb!ringVars
  <2>1. xAt' = "off"
    BY <1>1 DEF Usb!Destroy, Usb!StopTimesOut
  <2>2. QED
    BY <1>1, <2>1, RingsKept
<1>2. ASSUME NEW from \in Waits, NEW to \in {"ports", "up"}, xAt = from, Usb!NextEvent,
             IF xEvRing[xEvIndex][1] = "done"
               THEN xAnswer' = xEvRing[xEvIndex][2] /\ xAt' = to
               ELSE UNCHANGED <<xAnswer, xAt>>
      PROVE  CommandTypes' /\ EventTypes' /\ CommandLaps' /\ EventLaps' /\ InTurn' /\ InCount'
  <2>1. UNCHANGED <<xCmdRing, xCmdIndex, xCmdCycle, xSent, xDIndex, xDCycle, xEvRing>>
    BY <1>2 DEF Usb!NextEvent
  <2>2. /\ EventTypes' /\ EventLaps' /\ xEvIndex \in Unseen /\ Unseen' = Unseen \ {xEvIndex}
    BY <1>2, NextEventStep
  <2>3. UsbCompletions' = UsbCompletions \ {xEvIndex}
    BY <2>1, <2>2 DEF UsbCompletions
  <2>4. xEvRing[xEvIndex][1] = "done" <=> xEvIndex \in UsbCompletions
    BY <2>2 DEF UsbCompletions
  <2>5. UNCHANGED <<CaughtUp, OneBehind, Executed>>
    BY <2>1 DEF CaughtUp, OneBehind, Device, Driver, Usb!AtLink, Executed
  <2>6. CommandLaps' /\ InCount'
    BY <1>2, <2>1, <2>5 DEF CommandLaps, InCount, Waits
  <2>7. \/ OneBehind /\ UsbCompletions = {}
        \/ CaughtUp /\ \E i \in Usb!Events : UsbCompletions = {i} /\ xEvRing[i][2] = xSent
    BY <1>2 DEF InTurn
  <2>8. CASE xEvIndex \in UsbCompletions
    <3>1. CaughtUp /\ UsbCompletions = {xEvIndex} /\ xEvRing[xEvIndex][2] = xSent
      BY <2>7, <2>8
    <3>2. xAnswer' = xSent /\ xAt' = to
      BY <1>2, <2>4, <2>8, <3>1
    <3>3. CommandTypes'
      BY <2>1, <3>2 DEF CommandTypes
    <3>4. CaughtUp' /\ UsbCompletions' = {} /\ xSent' = xSent
      BY <2>1, <2>3, <2>5, <3>1
    <3>5. InTurn'
      BY <3>2, <3>4 DEF InTurn, Waits
    <3>6. QED
      BY <2>2, <2>6, <3>3, <3>5
  <2>9. CASE xEvIndex \notin UsbCompletions
    <3>1. UNCHANGED <<xAnswer, xAt>> /\ UsbCompletions' = UsbCompletions
      BY <1>2, <2>3, <2>4, <2>9
    <3>2. CommandTypes'
      BY <2>1, <3>1 DEF CommandTypes
    <3>3. InTurn'
      BY <2>1, <2>5, <3>1 DEF InTurn
    <3>4. QED
      BY <2>2, <2>6, <3>2, <3>3
  <2>10. QED
    BY <2>8, <2>9
<1>3. QED
  BY <1>1, <1>2 DEF WaitSteps, Usb!WaitSlot, Usb!WaitCommand, Usb!WaitCmd, Usb!Fails, Waits

\* The controller's completion is the one of the command the driver waits for.
LEMMA ExecuteKeepsTurn ==
  ASSUME XhciSensible, CommandTypes, EventTypes, CommandLaps, EventLaps, InTurn, InCount,
         Usb!Execute
  PROVE  CommandTypes' /\ EventTypes' /\ CommandLaps' /\ EventLaps' /\ InTurn' /\ InCount'
<1>1. /\ Usb!Produce("done", xCmdRing[xDIndex][1])
      /\ UNCHANGED <<xEvIndex, xEvCycle, xErdp, xPorts>>
      /\ UNCHANGED <<xAt, xSent, xAnswer, xCmdRing>>
  BY DEF Usb!Execute
<1>2. xCmdRing[xDIndex][1] \in Nat /\ xPorts' \in Nat
  BY <1>1 DEF Usb!Execute, Usb!AtLink, CommandTypes, Usb!CommandTrbs, Usb!Link, EventTypes,
       XhciSensible
<1>3. /\ EventTypes' /\ EventLaps' /\ Unseen' = Unseen \cup {xEIndex}
      /\ xEvRing'[xEIndex][1] = "done" /\ xEvRing'[xEIndex][2] = xCmdRing[xDIndex][1]
      /\ \A i \in Unseen : xEvRing'[i] = xEvRing[i]
  BY <1>1, <1>2, ProduceStep
<1>4. UsbCompletions' = UsbCompletions \cup {xEIndex}
  BY <1>3 DEF UsbCompletions
<1>5. /\ CommandTypes' /\ CommandLaps' /\ ~CaughtUp
      /\ OneBehind => /\ CaughtUp' /\ xCmdRing[xDIndex] = <<xSent, xDCycle>>
                      /\ Executed' = Executed + 1
  BY ExecuteStep
<1>6. CASE xAt = "off"
  BY <1>1, <1>3, <1>5, <1>6 DEF InTurn, InCount, Waits
<1>7. CASE xAt # "off"
  <2>1. xAt \in Waits /\ xAnswer = 0 /\ OneBehind /\ UsbCompletions = {}
    BY <1>5, <1>7 DEF InTurn
  <2>2. CaughtUp' /\ UsbCompletions' = {xEIndex} /\ xEvRing'[xEIndex][2] = xSent'
    BY <1>1, <1>3, <1>4, <1>5, <2>1
  <2>3. xEIndex \in Usb!Events
    BY DEF EventTypes
  <2>4. InTurn'
    BY <1>1, <2>1, <2>2, <2>3 DEF InTurn, Waits
  <2>5. xSent = Executed + 1
    BY <1>5, <1>7 DEF InCount
  <2>6. InCount'
    BY <1>1, <1>5, <2>1, <2>2, <2>5 DEF InCount
  <2>7. QED
    BY <1>3, <1>5, <2>4, <2>6
<1>8. QED
  BY <1>6, <1>7

\* Port events and the link TRB change nothing about the command.
LEMMA OtherDeviceStepsKeepTurn ==
  ASSUME XhciSensible, CommandTypes, EventTypes, CommandLaps, EventLaps, InTurn, InCount,
         Usb!FollowLink \/ Usb!PortEvent
  PROVE  CommandTypes' /\ EventTypes' /\ CommandLaps' /\ EventLaps' /\ InTurn' /\ InCount'
<1>1. CASE Usb!FollowLink
  <2>1. /\ UNCHANGED <<xAt, xCmdRing, xCmdIndex, xCmdCycle, xSent, xAnswer>>
        /\ UNCHANGED <<xEvRing, xEvIndex, xEvCycle, xEIndex, xECycle, xErdp, xPorts>>
    BY <1>1 DEF Usb!FollowLink
  <2>2. CommandTypes' /\ CommandLaps' /\ Device' = Device /\ Executed' = Executed
    BY <1>1, LinkStep
  <2>3. UNCHANGED <<CaughtUp, OneBehind, UsbCompletions>>
    BY <2>1, <2>2 DEF CaughtUp, OneBehind, Driver, UsbAfter, UsbCompletions, Unseen
  <2>4. EventTypes' /\ EventLaps' /\ InTurn' /\ InCount'
    BY <2>1, <2>2, <2>3 DEF EventTypes, EventLaps, InTurn, InCount
  <2>5. QED
    BY <2>2, <2>4
<1>2. CASE Usb!PortEvent
  <2>1. /\ Usb!Produce("port", 0) /\ UNCHANGED <<xEvIndex, xEvCycle, xErdp>> /\ xPorts' \in Nat
        /\ UNCHANGED <<xAt, xCmdRing, xCmdIndex, xCmdCycle, xSent, xAnswer, xDIndex, xDCycle>>
    BY <1>2 DEF Usb!PortEvent, EventTypes
  <2>2. /\ EventTypes' /\ EventLaps' /\ Unseen' = Unseen \cup {xEIndex}
        /\ xEvRing'[xEIndex][1] = "port" /\ \A i \in Unseen : xEvRing'[i] = xEvRing[i]
    BY <2>1, ProduceStep
  <2>3. UsbCompletions' = UsbCompletions
    BY <2>2 DEF UsbCompletions
  <2>4. UNCHANGED <<CaughtUp, OneBehind, Executed>>
    BY <2>1 DEF CaughtUp, OneBehind, Device, Driver, Usb!AtLink, Executed
  <2>5. \A i \in UsbCompletions : xEvRing'[i] = xEvRing[i]
    BY <2>2 DEF UsbCompletions
  <2>6. InTurn'
    BY <2>1, <2>3, <2>4, <2>5 DEF InTurn
  <2>7. CommandTypes' /\ CommandLaps' /\ InCount'
    BY <2>1, <2>4 DEF CommandTypes, CommandLaps, InCount
  <2>8. QED
    BY <2>2, <2>6, <2>7
<1>3. QED
  BY <1>1, <1>2

-----------------------------------------------------------------------------
(* The theorems. *)

\* A controller that nobody has touched: rings of zeroes, cycle 1.
LEMMA XhciInitInv == ASSUME XhciSensible, Usb!Init PROVE XhciInv
<1>. USE DEF XhciSensible, Usb!Init
<1>1. StartTypes /\ HeldSoFar
  BY DEF StartTypes, HeldSoFar, Places
<1>2. 0 \in Usb!CommandTrbs /\ 0 \in Usb!Events /\ 0 \in 0 .. Usb!Link
  BY DEF Usb!CommandTrbs, Usb!Events, Usb!Link
<1>3. CommandTypes /\ CommandLaps
  BY <1>2 DEF CommandTypes, CommandLaps, Usb!CommandTrbs
<1>4. EventTypes /\ EventLaps
  BY <1>2 DEF EventTypes, EventLaps, Usb!Events
<1>5. CaughtUp /\ UsbCompletions = {} /\ Executed = 0
  BY DEF CaughtUp, Device, Driver, Usb!AtLink, Usb!Link, UsbCompletions, Unseen, Executed
<1>6. InTurn /\ InCount
  BY <1>5 DEF InTurn, InCount, Waits
<1>7. QED
  BY <1>1, <1>3, <1>4, <1>6 DEF XhciInv, XhciTypeOK

\* The invariant holds in every state the driver and the controller can reach.
THEOREM XhciInductive == XhciSensible => (XhciSpec => []XhciInv)
<1>. SUFFICES ASSUME XhciSensible PROVE XhciSpec => []XhciInv
  OBVIOUS
<1>1. Usb!Init => XhciInv
  BY XhciInitInv
<1>2. XhciInv /\ [Usb!Next]_Usb!xhciVars => XhciInv'
  <2>. SUFFICES ASSUME XhciInv, [Usb!Next]_Usb!xhciVars PROVE XhciInv'
    OBVIOUS
  <2>. USE DEF XhciInv, XhciTypeOK
  <2>1. CASE StartSteps
    BY <2>1, StartHolds, StartKeepsTurn
  <2>2. CASE SendSteps
    BY <2>2, OthersHold, SendKeepsTurn
  <2>3. CASE WaitSteps
    BY <2>3, OthersHold, WaitKeepsTurn
  <2>4. CASE Usb!Execute
    BY <2>4, OthersHold, ExecuteKeepsTurn
  <2>5. CASE Usb!FollowLink \/ Usb!PortEvent
    BY <2>5, OthersHold, OtherDeviceStepsKeepTurn
  <2>6. CASE UNCHANGED Usb!xhciVars
    <3>1. UNCHANGED <<xAt, xMem, xGiven, xRunning, xHalting>> /\ UNCHANGED Usb!ringVars
      BY <2>6 DEF Usb!xhciVars
    <3>2. StartTypes' /\ HeldSoFar'
      BY <3>1 DEF StartTypes, HeldSoFar
    <3>3. QED
      BY <3>1, <3>2, RingsKept
  <2>7. QED
    BY <2>1, <2>2, <2>3, <2>4, <2>5, <2>6 DEF Usb!Next, StartSteps, SendSteps, WaitSteps
<1>3. QED
  BY <1>1, <1>2, PTL DEF XhciSpec

\* Once the controller has its rings, they stay allocated while it may run,
\* wherever xhci_init fails and also if it does not stop in ten seconds.
THEOREM XhciHeld == XhciSensible => (XhciSpec => []Usb!HeldWhileRunning)
<1>1. XhciInv => Usb!HeldWhileRunning
  BY DEF XhciInv, XhciTypeOK, StartTypes, Places, HeldSoFar, Usb!HeldWhileRunning
<1>2. QED
  BY <1>1, XhciInductive, PTL

\* The completion xhci_wait_cmd takes is the one of the command just sent.
THEOREM XhciAnswers == XhciSensible => (XhciSpec => []Usb!AnswerIsOwn)
<1>1. XhciInv => Usb!AnswerIsOwn
  BY DEF XhciInv, InTurn, Usb!AnswerIsOwn
<1>2. QED
  BY <1>1, XhciInductive, PTL

\* On its first two laps the controller can see every command that was sent.
THEOREM XhciSentVisible == XhciSensible => (XhciSpec => []Usb!SentIsVisible)
<1>. SUFFICES ASSUME XhciSensible PROVE XhciSpec => []Usb!SentIsVisible
  OBVIOUS
<1>1. XhciInv => Usb!SentIsVisible
  <2>. SUFFICES ASSUME XhciInv, xAt \in Waits, xSent <= 2 * Cardinality(Usb!CommandTrbs),
                       ~\E i \in Usb!Events : xEvRing[i] = <<"done", xSent, xEvRing[i][3]>>
                PROVE  IF Usb!AtLink THEN xDCycle = 1 /\ xCmdRing[0] = <<xSent, 0>>
                                     ELSE xCmdRing[xDIndex] = <<xSent, xDCycle>>
    BY DEF Usb!SentIsVisible, Waits, Usb!Cardinality, Cardinality
  <2>. USE DEF XhciSensible
  <2>1. Cardinality(Usb!CommandTrbs) = Trbs - 1
    BY FS_Interval DEF Usb!CommandTrbs
  <2>2. OneBehind
    <3>1. ASSUME NEW i \in Usb!Events, UsbCompletions = {i}, xEvRing[i][2] = xSent
          PROVE  xEvRing[i] = <<"done", xSent, xEvRing[i][3]>>
      BY <3>1 DEF XhciInv, XhciTypeOK, EventTypes, UsbCompletions
    <3>2. QED
      BY <3>1 DEF XhciInv, InTurn
  <2>3. ~CaughtUp /\ xSent = Executed + 1
    BY <2>2, PlacesInRing DEF XhciInv, XhciTypeOK, InCount, CaughtUp, OneBehind, Waits
  <2>4. CASE ~Usb!AtLink
    BY <2>2, <2>4 DEF OneBehind, Device
  <2>5. CASE Usb!AtLink
    <3>1. xDCycle \in {0, 1} /\ xDIndex = Trbs - 1
      BY <2>5 DEF XhciInv, XhciTypeOK, CommandTypes, Usb!AtLink, Usb!Link
    <3>2. xDCycle = 1
      BY <2>1, <2>3, <3>1 DEF Executed, Usb!Link
    <3>3. QED
      BY <2>2, <2>5, <3>2 DEF OneBehind, Device
  <2>6. QED
    BY <2>4, <2>5
<1>2. QED
  BY <1>1, XhciInductive, PTL

-----------------------------------------------------------------------------
(***************************************************************************)
(* What ACPI tells and the delays by its timer (Acpi), for any widths of   *)
(* the timer. The tables are read in their order, each once, and the       *)
(* processors of the MADT are counted up to the entry that is read; the    *)
(* ticks of a delay are counted with at most one wrap between two polls.   *)
(***************************************************************************)

FirmwareSensible == NarrowTurn \in Nat \ {0} /\ WideTurn \in Nat \ {0} /\ MaxDelay \in Nat
FirmwareSpec == Firmware!Init /\ [][Firmware!Next]_(Firmware!acpiVars)

\* The types; no two tables are of one kind.
FirmwareTyped ==
  /\ fI \in Nat \ {0} /\ fRsdp \in {"none", "v1", "v2"}
  /\ fTables \in Seq(Firmware!Table)
  /\ \A j, k \in 1 .. Len(fTables) : fTables[j].kind = fTables[k].kind => j = k
  /\ fFadt \in [found : BOOLEAN, port : BOOLEAN, narrow : BOOLEAN]
  /\ fMadt \in [list : Seq(Firmware!MadtEntries), k : Nat \ {0}] /\ fIds \in Seq(Nat)

\* Before the root pointer is known nothing is read; no table is read twice.
TablesStarted ==
  /\ fRsdp = "none" => fAt \in {"search", "panic"}
  /\ fRsdp = "none" \/ fAt \in {"search", "root"} =>
       fTables = <<>> /\ fIds = <<>> /\ ~fFadt.found

\* The FADT that was read is the one there is.
FadtRead ==
  /\ fFadt.found <=> \E k \in 1 .. Len(fTables) : k < fI /\ fTables[k].kind = "FACP"
  /\ fFadt.found => (fFadt.narrow <=> ~Firmware!Wide)
  /\ ~fFadt.found => fFadt.narrow /\ ~fFadt.port

\* The first n entries of a MADT are listed.
ProcessorsListed(list, n) ==
  /\ Len(fIds) = Cardinality({k \in 1 .. n : list[k] = "enabled"})
  /\ \A k \in 1 .. n : list[k] = "enabled" => \E m \in 1 .. Len(fIds) : fIds[m] = k

\* The firmware has a MADT.
OneMadt == Len(fTables) = 1 /\ fTables[1].kind = "APIC"
\* What was read of the MADT is the processors up to the entry that is read.
MadtRead ==
  OneMadt =>
    /\ fAt = "tables" => \/ fI = 1 /\ fIds = <<>>
                         \/ fI = 2 /\ ProcessorsListed(fTables[1].list, Len(fTables[1].list))
    /\ fAt = "madt" => /\ fI = 2 /\ fMadt.list = fTables[1].list
                       /\ fMadt.k \in 1 .. Len(fMadt.list) + 1
                       /\ ProcessorsListed(fMadt.list, fMadt.k - 1)
    /\ fAt = "ready" => ProcessorsListed(fTables[1].list, Len(fTables[1].list))

\* The loop of a delay has counted what has passed.
TicksCounted ==
  /\ fAt = "delay" =>
       /\ fNow \in Nat /\ fBegun \in Nat /\ fNeeded \in Nat \ {0}
       /\ fElapsed = fNow - fBegun /\ fElapsed < fNeeded + Firmware!Round
       /\ fLast = Firmware!TimerRead(fNow)
  /\ fAt = "delayed" => fNow - fBegun \in fNeeded .. fNeeded + Firmware!Round - 1

\* The inductive invariant.
FirmwareInv == FirmwareTyped /\ TablesStarted /\ FadtRead /\ MadtRead /\ TicksCounted

\* What counting on from t by less than a round makes of a counter that wraps around.
LEMMA WrapsOnce ==
  ASSUME NEW R \in Nat \ {0}, NEW t \in Nat, NEW d \in 0 .. R - 1
  PROVE  (t + d) % R = IF (t % R) + d < R THEN (t % R) + d ELSE (t % R) + d - R
<1> DEFINE r == t % R
           q == t \div R
           u == t + d
           v == u % R
           w == u \div R
<1>1. t = R * q + r /\ q \in Nat /\ r \in 0 .. R - 1   OBVIOUS
<1>2. u = R * w + v /\ w \in Nat /\ v \in 0 .. R - 1   OBVIOUS
<1>3. u = t + d   OBVIOUS
<1> HIDE DEF r, q, u, v, w
<1>4. R * w + v = R * q + r + d   BY <1>1, <1>2, <1>3
<1>5. CASE w <= q - 1
  <2>1. R * w <= R * (q - 1)   BY <1>1, <1>2, <1>5
  <2>2. R * (q - 1) = R * q - R   BY <1>1
  <2> QED BY <1>1, <1>2, <1>4, <2>1, <2>2
<1>6. CASE w = q   BY <1>1, <1>2, <1>4, <1>6 DEF v, u, r
<1>7. CASE w = q + 1
  <2>1. R * (q + 1) = R * q + R   BY <1>1
  <2> QED BY <1>1, <1>2, <1>4, <1>7, <2>1 DEF v, u, r
<1>8. CASE w >= q + 2
  <2>1. R * w >= R * (q + 2)   BY <1>1, <1>2, <1>8
  <2>2. R * (q + 2) = R * q + R + R   BY <1>1
  <2> QED BY <1>1, <1>2, <1>4, <2>1, <2>2
<1> QED BY <1>1, <1>2, <1>5, <1>6, <1>7, <1>8

\* The tables that firmware may have: one of a kind.
LEMMA TablesOf ==
  ASSUME NEW ts \in Firmware!Tables \cup {<<>>}
  PROVE  ts \in Seq(Firmware!Table) /\ \A j, k \in 1 .. Len(ts) : ts[j].kind = ts[k].kind => j = k
<1>1. CASE ts = <<>>   BY <1>1
<1>2. CASE ts \in Firmware!Tables
  <2>1. PICK n \in 0 .. 2 : ts \in [1 .. n -> Firmware!Table]   BY <1>2 DEF Firmware!Tables
  <2>2. ts \in Seq(Firmware!Table) /\ Len(ts) = n   BY <2>1
  <2>3. Len(ts) = 2 => ts[1].kind # ts[2].kind   BY <1>2 DEF Firmware!Tables
  <2> QED BY <2>1, <2>2, <2>3
<1> QED BY <1>1, <1>2

\* What each kind of table consists of.
LEMMA TableFields ==
  ASSUME NEW t \in Firmware!Table
  PROVE  /\ t.kind = "APIC" => t.list \in Seq(Firmware!MadtEntries) /\ Len(t.list) \in Nat
         /\ t.kind = "FACP" => t.wide \in BOOLEAN /\ t.port \in BOOLEAN
<1>1. ASSUME t.kind = "APIC" PROVE t.list \in Seq(Firmware!MadtEntries)
  <2>1. t.list \in UNION {[1 .. n -> Firmware!MadtEntries] : n \in 0 .. 2}
    BY <1>1 DEF Firmware!Table
  <2>2. PICK n \in 0 .. 2 : t.list \in [1 .. n -> Firmware!MadtEntries]   BY <2>1
  <2> QED BY <2>2
<1>2. t.kind = "FACP" => t.wide \in BOOLEAN /\ t.port \in BOOLEAN   BY DEF Firmware!Table
<1> QED BY <1>1, <1>2

\* No kernel table is read before the search.
LEMMA FirmwareInit == FirmwareSensible /\ Firmware!Init => FirmwareInv
<1> SUFFICES ASSUME FirmwareSensible, Firmware!Init PROVE FirmwareInv
  OBVIOUS
<1>0. /\ fAt = "search" /\ fI = 1 /\ fRsdp = "none" /\ fTables = <<>> /\ fIds = <<>>
      /\ fFadt = [found |-> FALSE, port |-> FALSE, narrow |-> TRUE]
      /\ fMadt = [list |-> <<>>, k |-> 1]
  BY DEF Firmware!Init
<1>1. FirmwareTyped   BY <1>0 DEF FirmwareTyped
<1>2. TablesStarted /\ FadtRead /\ TicksCounted   BY <1>0 DEF TablesStarted, FadtRead, TicksCounted
<1>3. MadtRead   BY <1>0 DEF MadtRead, OneMadt
<1> QED BY <1>1, <1>2, <1>3 DEF FirmwareInv

\* A step after the tables keeps what was read of them.
LEMMA FirmwareTablesKept ==
  ASSUME FirmwareInv, Firmware!TablesKept, fAt \notin {"search", "root"},
         fAt' \notin {"search", "root"},
         fRsdp = "none" => fAt' = "panic"
  PROVE  FirmwareTyped' /\ TablesStarted' /\ FadtRead' /\ Firmware!Wide' = Firmware!Wide
         /\ Firmware!Round' = Firmware!Round
<1>1. FirmwareTyped'   BY DEF FirmwareInv, FirmwareTyped, Firmware!TablesKept
<1>2. Firmware!Wide' = Firmware!Wide /\ Firmware!Round' = Firmware!Round
  BY DEF Firmware!Wide, Firmware!Round, Firmware!TablesKept
<1>3. FadtRead'   BY <1>2 DEF FirmwareInv, FadtRead, Firmware!TablesKept
<1>4. TablesStarted'   BY DEF FirmwareInv, TablesStarted, Firmware!TablesKept
<1> QED BY <1>1, <1>2, <1>3, <1>4

\* After the tables nothing is said of the MADT, and nothing of the delay but in it.
LEMMA FirmwareElsewhere ==
  ASSUME FirmwareInv, Firmware!TablesKept, fAt \notin {"search", "root"},
         fRsdp # "none" \/ fAt' = "panic",
         fAt' \notin {"search", "root", "tables", "madt", "ready"}, TicksCounted'
  PROVE  FirmwareInv'
<1>1. FirmwareTyped' /\ TablesStarted' /\ FadtRead'   BY FirmwareTablesKept
<1>2. MadtRead'   BY DEF MadtRead
<1> QED BY <1>1, <1>2 DEF FirmwareInv

\* What a pass of the loop adds is what has passed.
LEMMA PassedRight ==
  ASSUME FirmwareSensible, FirmwareInv, fFadt.port, NEW t \in Nat,
         NEW d \in 1 .. Firmware!Round - 1,
         fLast = Firmware!TimerRead(t)
  PROVE  Firmware!Passed(Firmware!TimerRead(t + d)) = d
<1>1. Firmware!Round \in Nat \ {0}   BY DEF Firmware!Round, FirmwareSensible
<1>2. fLast = t % Firmware!Round /\ Firmware!TimerRead(t + d) = (t + d) % Firmware!Round
  BY DEF Firmware!TimerRead
<1>3. t % Firmware!Round \in 0 .. Firmware!Round - 1   BY <1>1
<1>4. fFadt.narrow <=> ~Firmware!Wide   BY DEF FirmwareInv, FadtRead
<1>5. Firmware!Round = IF fFadt.narrow THEN NarrowTurn ELSE WideTurn   BY <1>4 DEF Firmware!Round
<1>6. d \in 0 .. Firmware!Round - 1   BY <1>1
<1> DEFINE R == Firmware!Round
<1>7. R \in Nat \ {0} /\ d \in 0 .. R - 1   BY <1>1, <1>6
<1> HIDE DEF R
<1>8. (t + d) % R = IF (t % R) + d < R THEN (t % R) + d ELSE (t % R) + d - R   BY <1>7, WrapsOnce
<1>9. (t + d) % Firmware!Round = IF (t % Firmware!Round) + d < Firmware!Round
                                 THEN (t % Firmware!Round) + d
                                 ELSE (t % Firmware!Round) + d - Firmware!Round
  BY <1>8 DEF R
<1> QED BY <1>1, <1>2, <1>3, <1>5, <1>6, <1>9 DEF Firmware!Passed

\* Entry n + 1 of the MADT.
LEMMA OneMadtEntry ==
  ASSUME FirmwareTyped, NEW list \in Seq(Firmware!MadtEntries), NEW n \in Nat, n < Len(list),
         ProcessorsListed(list, n),
         fIds' = IF list[n + 1] = "enabled" THEN Append(fIds, n + 1) ELSE fIds
  PROVE  fIds' \in Seq(Nat) /\ ProcessorsListed(list, n + 1)'
<1> DEFINE E(m) == {k \in 1 .. m : list[k] = "enabled"}
<1>0. fIds \in Seq(Nat)   BY DEF FirmwareTyped
<1>1. IsFiniteSet(E(n)) /\ Cardinality(E(n)) \in Nat
  <2>1. IsFiniteSet(1 .. n)   BY FS_Interval
  <2> QED BY <2>1, FS_Subset, FS_CardinalityType
<1>2. CASE list[n + 1] = "enabled"
  <2>1. E(n + 1) = E(n) \cup {n + 1} /\ n + 1 \notin E(n)   BY <1>2
  <2>2. Cardinality(E(n + 1)) = Cardinality(E(n)) + 1   BY <1>1, <2>1, FS_AddElement
  <2>3. fIds' = Append(fIds, n + 1) /\ Len(fIds') = Len(fIds) + 1 /\ Len(fIds) \in Nat
    BY <1>0, <1>2
  <2>4. \A m \in 1 .. Len(fIds) : fIds'[m] = fIds[m]   BY <1>0, <2>3
  <2>5. fIds'[Len(fIds) + 1] = n + 1   BY <1>0, <2>3
  <2>6. ASSUME NEW k \in 1 .. n + 1, list[k] = "enabled"
        PROVE  \E m \in 1 .. Len(fIds') : fIds'[m] = k
    <3>1. CASE k = n + 1   BY <2>3, <2>5, <3>1
    <3>2. CASE k \in 1 .. n
      <4>1. PICK m \in 1 .. Len(fIds) : fIds[m] = k   BY <2>6, <3>2 DEF ProcessorsListed
      <4>2. m \in 1 .. Len(fIds') /\ fIds'[m] = k   BY <2>3, <2>4, <4>1
      <4> QED BY <4>2
    <3> QED BY <3>1, <3>2
  <2>7. Len(fIds') = Cardinality(E(n + 1))   BY <2>2, <2>3 DEF ProcessorsListed
  <2>8. fIds' \in Seq(Nat)   BY <1>0, <2>3
  <2> QED BY <2>6, <2>7, <2>8 DEF ProcessorsListed
<1>3. CASE list[n + 1] # "enabled"
  <2>1. E(n + 1) = E(n)   BY <1>3
  <2>2. \A k \in 1 .. n + 1 : list[k] = "enabled" => k \in 1 .. n   BY <1>3
  <2> QED BY <1>0, <1>3, <2>1, <2>2 DEF ProcessorsListed
<1> QED BY <1>2, <1>3

\* The search for the root pointer, and the table it leads to.
LEMMA FirmwareSearch ==
  ASSUME FirmwareInv, Firmware!SearchMap \/ Firmware!SearchBios PROVE FirmwareInv'
<1>1. /\ fAt = "search" /\ UNCHANGED <<fTables, fMadt, fIds, fFadt>>
      /\ fAt' \in {"search", "root", "panic"}
      /\ fI' \in {fI, fI + 1} /\ fRsdp' \in {fRsdp, "v1", "v2"}
           /\ (fAt' = "root" => fRsdp' # "none")
      /\ (fAt' # "root" => fRsdp' = fRsdp)
  BY DEF Firmware!SearchMap, Firmware!SearchBios, Firmware!Sums
<1>2. fTables = <<>> /\ fIds = <<>> /\ ~fFadt.found /\ fI \in Nat \ {0}
  BY <1>1 DEF FirmwareInv, TablesStarted, FirmwareTyped
<1>3. FirmwareTyped'   BY <1>1, <1>2 DEF FirmwareInv, FirmwareTyped
<1>4. TablesStarted'   BY <1>1, <1>2 DEF FirmwareInv, TablesStarted
<1>5. FadtRead'   BY <1>1, <1>2 DEF FirmwareInv, FadtRead
<1>6. MadtRead' /\ TicksCounted'   BY <1>1 DEF MadtRead, TicksCounted
<1> QED BY <1>3, <1>4, <1>5, <1>6 DEF FirmwareInv

\* The root table.
LEMMA FirmwareRoot ==
  ASSUME FirmwareInv, NEW sound \in BOOLEAN, NEW ts \in Firmware!Tables,
         Firmware!Xsdt(sound, ts) \/ Firmware!Rsdt(sound, ts)
  PROVE  FirmwareInv'
<1>1. /\ fAt = "root" /\ fAt' = "tables" /\ fI' = 1 /\ fTables' \in Firmware!Tables \cup {<<>>}
      /\ fRsdp' = fRsdp /\ UNCHANGED <<fMadt, fIds, fFadt>> /\ fRsdp # "none"
  BY DEF Firmware!Xsdt, Firmware!Rsdt, Firmware!ParseRoot
<1>2. fIds = <<>> /\ ~fFadt.found   BY <1>1 DEF FirmwareInv, TablesStarted
<1>3. FirmwareTyped'   BY <1>1, TablesOf DEF FirmwareInv, FirmwareTyped
<1>4. TablesStarted'   BY <1>1 DEF FirmwareInv, TablesStarted
<1>5. FadtRead'   BY <1>1, <1>2, <1>3 DEF FirmwareInv, FadtRead, FirmwareTyped
<1>6. MadtRead' /\ TicksCounted'   BY <1>1, <1>2 DEF MadtRead, TicksCounted
<1> QED BY <1>3, <1>4, <1>5, <1>6 DEF FirmwareInv

\* A table that is not the FADT.
LEMMA FirmwareOther ==
  ASSUME FirmwareInv, NEW kind, Firmware!AtTable(kind), kind # "FACP", kind # "APIC",
         fAt' = fAt, fI' = fI + 1, UNCHANGED <<fRsdp, fTables, fMadt, fIds, fFadt>>
  PROVE  FirmwareInv'
<1>1. fAt = "tables" /\ fI \in 1 .. Len(fTables) /\ fTables[fI].kind = kind /\ Len(fTables) \in Nat
  BY DEF Firmware!AtTable, FirmwareInv, FirmwareTyped
<1>2. FirmwareTyped'   BY DEF FirmwareInv, FirmwareTyped
<1>3. TablesStarted'   BY <1>1 DEF FirmwareInv, TablesStarted
<1>4. FadtRead'   BY <1>1, <1>2 DEF FirmwareInv, FadtRead, FirmwareTyped, Firmware!Wide
<1>5. MadtRead' /\ TicksCounted'   BY <1>1 DEF MadtRead, OneMadt, TicksCounted
<1> QED BY <1>2, <1>3, <1>4, <1>5 DEF FirmwareInv

\* acpi_timer_init: the width of the counter is the FADT's.
LEMMA FirmwareFadt == ASSUME FirmwareInv, Firmware!ParseFadt PROVE FirmwareInv'
<1>1. /\ fAt = "tables" /\ fI \in 1 .. Len(fTables) /\ fTables[fI].kind = "FACP"
      /\ Len(fTables) \in Nat
      /\ fI' = fI + 1 /\ fAt' = fAt /\ UNCHANGED <<fRsdp, fTables, fMadt, fIds>> /\ fI \in Nat
      /\ fFadt' = Firmware!TimerInit(fTables[fI])
  BY DEF Firmware!AtTable, FirmwareInv, FirmwareTyped, Firmware!ParseFadt
<1>2. \A k \in 1 .. Len(fTables) : fTables[k].kind = "FACP" => k = fI
  BY <1>1 DEF FirmwareInv, FirmwareTyped
<1>3. ~fFadt.found   BY <1>1, <1>2 DEF FirmwareInv, FadtRead
<1>4. fFadt.narrow   BY <1>3 DEF FirmwareInv, FadtRead
<1>5. fTables[fI].wide \in BOOLEAN /\ fTables[fI].port \in BOOLEAN
  <2>1. fTables[fI] \in Firmware!Table   BY <1>1 DEF FirmwareInv, FirmwareTyped
  <2> QED BY <1>1, <2>1, TableFields
<1>6. /\ fFadt' \in [found : BOOLEAN, port : BOOLEAN, narrow : BOOLEAN]
      /\ fFadt'.found /\ (fFadt'.narrow <=> ~fTables[fI].wide)
  BY <1>1, <1>4, <1>5 DEF Firmware!TimerInit
<1>7. Firmware!Wide' <=> fTables[fI].wide   BY <1>1, <1>2 DEF Firmware!Wide
<1>8. FirmwareTyped'   BY <1>1, <1>6 DEF FirmwareInv, FirmwareTyped
<1>9. TablesStarted'   BY <1>1 DEF FirmwareInv, TablesStarted
<1>10. FadtRead'   BY <1>1, <1>2, <1>6, <1>7 DEF FadtRead
<1>11. MadtRead' /\ TicksCounted'   BY <1>1 DEF MadtRead, OneMadt, TicksCounted
<1> QED BY <1>8, <1>9, <1>10, <1>11 DEF FirmwareInv

\* The MADT: its processors are listed one after the other.
LEMMA FirmwareMadt == ASSUME FirmwareInv, Firmware!ParseMadt PROVE FirmwareInv'
<1>1. /\ fAt = "tables" /\ fI \in 1 .. Len(fTables) /\ fTables[fI].kind = "APIC"
      /\ Len(fTables) \in Nat
      /\ fI' = fI + 1 /\ fAt' = "madt" /\ UNCHANGED <<fRsdp, fTables, fIds, fFadt>>
      /\ fMadt' = [list |-> fTables[fI].list, k |-> 1]
  BY DEF Firmware!AtTable, FirmwareInv, FirmwareTyped, Firmware!ParseMadt
<1>2. FirmwareTyped'
  <2>1. fTables[fI] \in Firmware!Table   BY <1>1 DEF FirmwareInv, FirmwareTyped
  <2>2. fTables[fI].list \in Seq(Firmware!MadtEntries)   BY <1>1, <2>1, TableFields
  <2> QED BY <1>1, <2>2 DEF FirmwareInv, FirmwareTyped
<1>3. TablesStarted'   BY <1>1 DEF FirmwareInv, TablesStarted
<1>4. FadtRead'   BY <1>1, <1>2 DEF FirmwareInv, FadtRead, FirmwareTyped, Firmware!Wide
<1>5. MadtRead'
  <2> SUFFICES ASSUME OneMadt'
               PROVE  /\ fI' = 2 /\ fMadt'.list = fTables'[1].list
                      /\ fMadt'.k \in 1 .. Len(fMadt'.list) + 1
                      /\ ProcessorsListed(fMadt.list, fMadt.k - 1)'
    BY <1>1 DEF MadtRead
  <2>0. OneMadt   BY <1>1 DEF OneMadt
  <2>1. OneMadt /\ fI = 1   BY <1>1, <2>0 DEF OneMadt
  <2>2. fIds = <<>>   BY <1>1, <2>1 DEF FirmwareInv, MadtRead
  <2>3. Len(fTables[1].list) \in Nat
    <3>1. fTables[1] \in Firmware!Table   BY <1>1, <2>1 DEF FirmwareInv, FirmwareTyped
    <3> QED BY <1>1, <2>1, <3>1, TableFields
  <2>4. fMadt'.k = 1 /\ fMadt'.list = fTables[1].list /\ fIds' = <<>> /\ fTables' = fTables
    BY <1>1, <2>1, <2>2
  <2>5. ProcessorsListed(fMadt.list, fMadt.k - 1)'
    <3>1. \A list : {k \in 1 .. 0 : list[k] = "enabled"} = {}   OBVIOUS
    <3>2. Cardinality({}) = 0   BY FS_EmptySet
    <3> QED BY <2>4, <3>1, <3>2 DEF ProcessorsListed
  <2> QED BY <1>1, <2>1, <2>3, <2>4, <2>5
<1>6. TicksCounted'   BY <1>1 DEF TicksCounted
<1> QED BY <1>2, <1>3, <1>4, <1>5, <1>6 DEF FirmwareInv

\* An enabled processor is listed, another is not.
LEMMA FirmwareEntry == ASSUME FirmwareInv, Firmware!MadtEntry PROVE FirmwareInv'
<1>a. FirmwareTyped   BY DEF FirmwareInv
<1>b. fMadt.list \in Seq(Firmware!MadtEntries) /\ fMadt.k \in Nat \ {0}   BY <1>a DEF FirmwareTyped
<1>c. PICK list, n : list = fMadt.list /\ n = fMadt.k - 1   OBVIOUS
<1>0. /\ list \in Seq(Firmware!MadtEntries) /\ Len(list) \in Nat /\ n \in Nat /\ fMadt.k = n + 1
  BY <1>b, <1>c
<1>1. /\ fAt = "madt" /\ n < Len(list) /\ fAt' = fAt /\ UNCHANGED <<fI, fRsdp, fTables, fFadt>>
      /\ fMadt' = [fMadt EXCEPT !.k = @ + 1]
      /\ fIds' = IF list[n + 1] = "enabled" THEN Append(fIds, n + 1) ELSE fIds
  BY <1>0, <1>c DEF Firmware!MadtEntry
<1>2. fMadt'.k = n + 2 /\ fMadt'.list = list /\ fMadt'
      \in [list : Seq(Firmware!MadtEntries), k : Nat \ {0}]
  BY <1>0, <1>1, <1>a, <1>c DEF FirmwareTyped
<1>3. FirmwareTyped'
  <2>1. fIds' \in Seq(Nat)   BY <1>0, <1>1, <1>a DEF FirmwareTyped
  <2> QED BY <1>1, <1>2, <2>1 DEF FirmwareInv, FirmwareTyped
<1>4. TablesStarted'   BY <1>1 DEF FirmwareInv, TablesStarted
<1>5. FadtRead'   BY <1>1, <1>3 DEF FirmwareInv, FadtRead, FirmwareTyped, Firmware!Wide
<1>6. MadtRead'
  <2> SUFFICES ASSUME OneMadt'
               PROVE  /\ fI' = 2 /\ fMadt'.list = fTables'[1].list
                      /\ fMadt'.k \in 1 .. Len(fMadt'.list) + 1
                      /\ ProcessorsListed(fMadt.list, fMadt.k - 1)'
    BY <1>1 DEF MadtRead
  <2>1. OneMadt   BY <1>1 DEF OneMadt
  <2>2. fI = 2 /\ fMadt.list = fTables[1].list /\ ProcessorsListed(fMadt.list, fMadt.k - 1)
    BY <1>1, <2>1 DEF FirmwareInv, MadtRead
  <2>3. ProcessorsListed(list, n)   BY <1>c, <2>2
  <2>4. ProcessorsListed(list, n + 1)'   BY <1>0, <1>1, <1>a, <2>3, OneMadtEntry
  <2>5. fMadt'.k - 1 = n + 1   BY <1>0, <1>2
  <2>6. ProcessorsListed(fMadt.list, fMadt.k - 1)'   BY <1>2, <2>4, <2>5 DEF ProcessorsListed
  <2>7. fMadt'.list = fTables'[1].list   BY <1>1, <1>2, <1>c, <2>2
  <2>8. fMadt'.k \in 1 .. Len(fMadt'.list) + 1   BY <1>0, <1>1, <1>2
  <2> QED BY <1>1, <2>2, <2>6, <2>7, <2>8
<1>7. TicksCounted'   BY <1>1 DEF TicksCounted
<1> QED BY <1>3, <1>4, <1>5, <1>6, <1>7 DEF FirmwareInv

\* The end of the MADT.
LEMMA FirmwareMadtEnd == ASSUME FirmwareInv, Firmware!MadtEnd \/ Firmware!Ready PROVE FirmwareInv'
<1>1. /\ fAt \in {"madt", "tables"} /\ fAt' \in {"tables", "ready"}
         /\ (fAt = "madt" <=> fAt' = "tables")
      /\ UNCHANGED <<fI, fRsdp, fTables, fMadt, fIds, fFadt>>
      /\ fAt = "tables" => fI > Len(fTables)
      /\ fAt = "madt" => fMadt.k > Len(fMadt.list)
  BY DEF Firmware!MadtEnd, Firmware!Ready
<1>2. FirmwareTyped'   BY <1>1 DEF FirmwareInv, FirmwareTyped
<1>3. TablesStarted'   BY <1>1 DEF FirmwareInv, TablesStarted
<1>4. FadtRead'   BY <1>1, <1>2 DEF FirmwareInv, FadtRead, FirmwareTyped, Firmware!Wide
<1>5. MadtRead'
  <2> SUFFICES ASSUME OneMadt'
               PROVE  /\ fAt' = "tables" => fI' = 2
                      /\ ProcessorsListed(fTables[1].list, Len(fTables[1].list))'
    BY <1>1 DEF MadtRead
  <2>1. OneMadt   BY <1>1 DEF OneMadt
  <2>2. CASE fAt = "tables"
    <3>1. fI = 2 /\ ProcessorsListed(fTables[1].list, Len(fTables[1].list))
      BY <1>1, <2>1, <2>2 DEF FirmwareInv, MadtRead, OneMadt
    <3> QED BY <1>1, <2>2, <3>1 DEF ProcessorsListed
  <2>3. CASE fAt = "madt"
    <3>1. /\ fI = 2 /\ fMadt.list = fTables[1].list /\ fMadt.k \in 1 .. Len(fMadt.list) + 1
          /\ ProcessorsListed(fMadt.list, fMadt.k - 1)
      BY <2>1, <2>3 DEF FirmwareInv, MadtRead
    <3>2. Len(fTables[1].list) \in Nat
      <4>1. fTables \in Seq(Firmware!Table) /\ Len(fTables) = 1
        BY <2>1 DEF FirmwareInv, FirmwareTyped, OneMadt
      <4>2. fTables[1] \in Firmware!Table   BY <4>1
      <4> QED BY <2>1, <4>2, TableFields DEF OneMadt
    <3>3. fMadt.k - 1 = Len(fTables[1].list)   BY <1>1, <2>3, <3>1, <3>2
    <3> QED BY <1>1, <3>1, <3>3 DEF ProcessorsListed
  <2> QED BY <1>1, <2>2, <2>3
<1>6. TicksCounted'   BY <1>1 DEF TicksCounted
<1> QED BY <1>2, <1>3, <1>4, <1>5, <1>6 DEF FirmwareInv

\* acpi_timer_delay: a pass adds what has passed, and the loop ends after what was asked for.
LEMMA FirmwareDelay ==
  ASSUME FirmwareSensible, FirmwareInv, NEW ticks \in Nat \ {0}, Firmware!Delay(ticks)
  PROVE  FirmwareInv'
<1>1. fAt = "ready" /\ fAt' = "delay" /\ Firmware!TablesKept /\ fRsdp # "none"
  BY DEF Firmware!Delay, FirmwareInv, TablesStarted
<1>2. Firmware!Round' = Firmware!Round /\ Firmware!Round \in Nat \ {0}
  BY <1>1, FirmwareTablesKept DEF FirmwareSensible, Firmware!Round
<1>3. \E t \in 0 .. WideTurn - 1 : fNow' = t /\ fBegun' = t /\ fLast' = Firmware!TimerRead(t)
  BY DEF Firmware!Delay
<1>4. Firmware!TimerRead(fNow)' = IF fFadt'.port THEN fNow' % Firmware!Round' ELSE 0
  BY DEF Firmware!TimerRead
<1>5. fLast' = Firmware!TimerRead(fNow)'   BY <1>1, <1>2, <1>3, <1>4 DEF Firmware!TimerRead,
      Firmware!TablesKept
<1>6. TicksCounted'
  <2>1. PICK t \in 0 .. WideTurn - 1 : fNow' = t /\ fBegun' = t   BY <1>3
  <2>2. fNeeded' = ticks /\ fElapsed' = 0   BY DEF Firmware!Delay
  <2>3. t \in Nat /\ 0 = t - t /\ 0 < ticks + Firmware!Round   BY <1>2 DEF FirmwareSensible
  <2> QED BY <1>1, <1>2, <1>5, <2>1, <2>2, <2>3 DEF TicksCounted
<1> QED BY <1>1, <1>6, FirmwareElsewhere

\* A poll that is not the last of a delay.
LEMMA FirmwarePoll ==
  ASSUME FirmwareSensible, FirmwareInv, NEW step \in 1 .. Firmware!Round - 1,
         Firmware!Poll(step) PROVE FirmwareInv'
<1>1. fAt = "delay" /\ fAt' = "delay" /\ Firmware!TablesKept /\ fRsdp # "none" /\ fElapsed < fNeeded
      /\ UNCHANGED <<fBegun, fNeeded>>
  BY DEF Firmware!Poll, FirmwareInv, TablesStarted
<1>2. /\ fNow \in Nat /\ fBegun \in Nat /\ fNeeded \in Nat \ {0} /\ fElapsed = fNow - fBegun
      /\ fLast = Firmware!TimerRead(fNow)
  BY <1>1 DEF FirmwareInv, TicksCounted
<1>3. Firmware!Round' = Firmware!Round /\ Firmware!Round \in Nat \ {0}
  BY <1>1, FirmwareTablesKept DEF FirmwareSensible, Firmware!Round
<1>4. \A t : Firmware!TimerRead(t)' = Firmware!TimerRead(t)
  BY <1>1, <1>3 DEF Firmware!TimerRead, Firmware!TablesKept
<1>5. CASE fFadt.port
  <2>1. fNow' = fNow + step
        /\ fElapsed' = fElapsed + Firmware!Passed(Firmware!TimerRead(fNow + step))
        /\ fLast' = Firmware!TimerRead(fNow + step)
    BY <1>5 DEF Firmware!Poll
  <2>2. Firmware!Passed(Firmware!TimerRead(fNow + step)) = step   BY <1>2, <1>5, PassedRight
  <2>3. fLast' = Firmware!TimerRead(fNow)'   BY <1>1, <1>3, <2>1 DEF Firmware!TimerRead,
        Firmware!TablesKept
  <2>4. fNow' \in Nat /\ fElapsed' = fNow' - fBegun' /\ fElapsed' < fNeeded' + Firmware!Round'
    BY <1>1, <1>2, <1>3, <2>1, <2>2
  <2>5. TicksCounted'   BY <1>1, <1>2, <2>3, <2>4 DEF TicksCounted
  <2> QED BY <1>1, <2>5, FirmwareElsewhere
<1>6. CASE ~fFadt.port
  <2>1. UNCHANGED <<fNow, fElapsed, fLast>>   BY <1>6 DEF Firmware!Poll
  <2>2. fLast' = Firmware!TimerRead(fNow)'   BY <1>1, <1>2, <1>3, <2>1 DEF Firmware!TimerRead,
        Firmware!TablesKept
  <2>3. fElapsed < fNeeded + Firmware!Round   BY <1>1, <1>2, <1>3
  <2>4. TicksCounted'   BY <1>1, <1>2, <1>3, <2>1, <2>2, <2>3 DEF TicksCounted
  <2> QED BY <1>1, <2>4, FirmwareElsewhere
<1> QED BY <1>5, <1>6

\* The last poll.
LEMMA FirmwareDelayed == ASSUME FirmwareSensible, FirmwareInv, Firmware!Delayed PROVE FirmwareInv'
<1>1. fAt = "delay" /\ fAt' = "delayed" /\ Firmware!TablesKept /\ fRsdp # "none"
      /\ fElapsed >= fNeeded /\ Firmware!TimeKept
  BY DEF Firmware!Delayed, FirmwareInv, TablesStarted
<1>2. /\ fNow \in Nat /\ fBegun \in Nat /\ fNeeded \in Nat \ {0} /\ fElapsed = fNow - fBegun
      /\ fElapsed < fNeeded + Firmware!Round
  BY <1>1 DEF FirmwareInv, TicksCounted
<1>3. Firmware!Round' = Firmware!Round /\ Firmware!Round \in Nat \ {0}
  BY <1>1, FirmwareTablesKept DEF FirmwareSensible, Firmware!Round
<1>4. TicksCounted'   BY <1>1, <1>2, <1>3 DEF TicksCounted, Firmware!TimeKept
<1> QED BY <1>1, <1>4, FirmwareElsewhere

\* The ways to reboot.
LEMMA FirmwareReboot ==
  ASSUME FirmwareInv, Firmware!Reboot \/ Firmware!ResetRegister \/ Firmware!NoRegister
         \/ Firmware!Pulse PROVE FirmwareInv'
<1>1. /\ fAt \in {"ready", "rebooting", "i8042", "pci", "fault"} /\ Firmware!TablesKept
      /\ fAt' \in {"rebooting", "gone", "i8042", "pci", "fault", "panic"}
  BY DEF Firmware!Reboot, Firmware!ResetRegister, Firmware!NoRegister, Firmware!Pulse
<1>2. fRsdp # "none"   BY <1>1 DEF FirmwareInv, TablesStarted
<1>3. TicksCounted'   BY <1>1 DEF TicksCounted
<1> QED BY <1>1, <1>2, <1>3, FirmwareElsewhere

\* Every step keeps it.
LEMMA FirmwareStep == FirmwareSensible /\ FirmwareInv
     /\ [Firmware!Next]_(Firmware!acpiVars) => FirmwareInv'
<1> SUFFICES ASSUME FirmwareSensible, FirmwareInv,
     [Firmware!Next]_(Firmware!acpiVars) PROVE FirmwareInv'
  OBVIOUS
<1>1. CASE Firmware!ParseMcfg   BY <1>1, FirmwareOther DEF Firmware!ParseMcfg
<1>2. CASE Firmware!SkipTable   BY <1>2, FirmwareOther DEF Firmware!SkipTable
<1>3. CASE UNCHANGED Firmware!acpiVars
  <2>1. FirmwareTyped' /\ TablesStarted'   BY <1>3 DEF FirmwareInv, FirmwareTyped, TablesStarted,
        Firmware!acpiVars
  <2>2. FadtRead'   BY <1>3 DEF FirmwareInv, FadtRead, Firmware!Wide, Firmware!acpiVars
  <2>3. MadtRead'   BY <1>3 DEF FirmwareInv, MadtRead, OneMadt, ProcessorsListed, Firmware!acpiVars
  <2>4. TicksCounted'   BY <1>3 DEF FirmwareInv, TicksCounted, Firmware!Round, Firmware!Wide,
        Firmware!TimerRead, Firmware!acpiVars
  <2> QED BY <2>1, <2>2, <2>3, <2>4 DEF FirmwareInv
<1>4. 1 .. MaxDelay \subseteq Nat \ {0}   BY DEF FirmwareSensible
<1> QED BY <1>1, <1>2, <1>3, <1>4, FirmwareSearch, FirmwareRoot, FirmwareFadt, FirmwareMadt,
           FirmwareEntry, FirmwareMadtEnd, FirmwareDelay, FirmwarePoll, FirmwareDelayed,
           FirmwareReboot DEF Firmware!Next

\* What was read of the tables is true, and a delay has counted what has passed.
THEOREM FirmwareInductive == FirmwareSensible => (FirmwareSpec => []FirmwareInv)
<1> SUFFICES ASSUME FirmwareSensible PROVE FirmwareSpec => []FirmwareInv
  OBVIOUS
<1> QED BY FirmwareInit, FirmwareStep, PTL DEF FirmwareSpec

\* The tables are the firmware's, and a delay is as long as asked.
THEOREM FirmwareTrue == FirmwareSensible => (FirmwareSpec => []Firmware!TablesTrue)
<1> SUFFICES ASSUME FirmwareSensible PROVE FirmwareSpec => []Firmware!TablesTrue
  OBVIOUS
<1>1. FirmwareInv => Firmware!TablesTrue
  <2> SUFFICES ASSUME FirmwareInv PROVE Firmware!TablesTrue
    OBVIOUS
  <2>1. fAt = "delay" => fElapsed = fNow - fBegun   BY DEF FirmwareInv, TicksCounted
  <2>2. fAt = "delayed" => fNow - fBegun \in fNeeded .. fNeeded + Firmware!Round - 1
    BY DEF FirmwareInv, TicksCounted
  <2>3. fRsdp = "none" => fTables = <<>> /\ fIds = <<>> /\ ~fFadt.found
    BY DEF FirmwareInv, TablesStarted
  <2>4. fAt = "ready" /\ OneMadt =>
          /\ Len(fIds) = Cardinality(Firmware!Enabled(fTables[1].list))
          /\ \A k \in Firmware!Enabled(fTables[1].list) : \E n \in 1 .. Len(fIds) : fIds[n] = k
    BY DEF FirmwareInv, MadtRead, ProcessorsListed, Firmware!Enabled
  <2>5. \A S : Cardinality(S) = Firmware!Cardinality(S)
    BY DEF Cardinality, Firmware!Cardinality, IsFiniteSet, Firmware!IsFiniteSet
  <2> QED BY <2>1, <2>2, <2>3, <2>4, <2>5 DEF Firmware!TablesTrue, OneMadt
<1> QED BY <1>1, FirmwareInductive, PTL

-----------------------------------------------------------------------------
(***************************************************************************)
(* The clock (Clock), for any base of its digits: what is read between two *)
(* updates is one time, and the days since 1970 are those of the calendar. *)
(***************************************************************************)

ClockSensible == ClockDigit \in Nat \ {0}

\* The types.
ClockTyped ==
  /\ tTime \in Nat /\ tUip \in BOOLEAN /\ tBinary \in BOOLEAN /\ tClear \in BOOLEAN
  /\ tAt \in {"wait", "sec", "sec high", "min", "min high", "done"}

\* What was read before the next update is what the clock shows.
ReadTrue ==
  tClear =>
    /\ Time!Reading => tTime = tBegun
    /\ tAt = "sec high" => tLow = Time!Showing.sec % ClockDigit
    /\ tAt \in {"min", "min high"} => tSec = Time!Showing.sec
    /\ tAt = "min high" => tLow = Time!Showing.min % ClockDigit
    /\ tAt = "done" => tStamp = tBegun

\* The calendar so far.
CalendarKept ==
  /\ tDate \in [year : Nat, month : 1 .. 12] /\ tDate.year >= 1970
  /\ Time!RtcDays(tDate.year, tDate.month) = tDays

\* The inductive invariant.
ClockInv == ClockTyped /\ ReadTrue /\ CalendarKept

-----------------------------------------------------------------------------
\* Days before a month, as the table of the months has them.
LEMMA DaysBeforeIs ==
  \A m \in 1 .. 12 :
       Time!DaysBefore[m] = IF m = 1 THEN 0 ELSE Time!DaysBefore[m - 1] + Time!MonthDays[m - 1]
<1> DEFINE F(f) == [m \in 1 .. 12 |-> IF m = 1 THEN 0 ELSE f[m - 1] + Time!MonthDays[m - 1]]
           g == <<0, 31, 59, 90, 120, 151, 181, 212, 243, 273, 304, 334>>
           h == [m \in 1 .. 12 |-> g[m]]
<1>1. h = F(h)
  <2>1. \A m \in 1 .. 12 : h[m] = IF m = 1 THEN 0 ELSE h[m - 1] + Time!MonthDays[m - 1]
    <3> SUFFICES ASSUME NEW m \in 1 .. 12
                 PROVE  h[m] = IF m = 1 THEN 0 ELSE h[m - 1] + Time!MonthDays[m - 1]
      OBVIOUS
    <3>1. m \in {1, 2, 3, 4, 5, 6, 7, 8, 9, 10, 11, 12}   OBVIOUS
    <3>2. Time!MonthDays[1] = 31 /\ Time!MonthDays[2] = 28 /\ Time!MonthDays[3] = 31
          /\ Time!MonthDays[4] = 30
          /\ Time!MonthDays[5] = 31 /\ Time!MonthDays[6] = 30 /\ Time!MonthDays[7] = 31
          /\ Time!MonthDays[8] = 31
          /\ Time!MonthDays[9] = 30 /\ Time!MonthDays[10] = 31 /\ Time!MonthDays[11] = 30
      BY DEF Time!MonthDays
    <3>3. h[1] = 0 /\ h[2] = 31 /\ h[3] = 59 /\ h[4] = 90 /\ h[5] = 120 /\ h[6] = 151
          /\ h[7] = 181 /\ h[8] = 212 /\ h[9] = 243 /\ h[10] = 273 /\ h[11] = 304 /\ h[12] = 334
      OBVIOUS
    <3> HIDE DEF h
    <3> QED BY <3>1, <3>2, <3>3
  <2> HIDE DEF g
  <2> QED BY <2>1
<1> DEFINE D == CHOOSE f : f = F(f)
<1>2. Time!DaysBefore = D   BY DEF Time!DaysBefore
<1> HIDE DEF h
<1>3. D = F(D)
  <2> HIDE DEF F
  <2> QED BY <1>1
<1> HIDE DEF D
<1> QED BY <1>2, <1>3

\* The days of the months, and those before each, in numbers.
LEMMA MonthsAre ==
  /\ Time!DaysBefore[1] = 0 /\ Time!DaysBefore[2] = 31 /\ Time!DaysBefore[3] = 59
  /\ Time!DaysBefore[12] = 334
  /\ \A m \in 1 .. 12 : Time!DaysBefore[m] \in Nat /\ Time!MonthDays[m] \in Nat
  /\ \A m \in 1 .. 11 : Time!DaysBefore[m + 1] = Time!DaysBefore[m] + Time!MonthDays[m]
  /\ Time!MonthDays[2] = 28 /\ Time!MonthDays[12] = 31
<1>1. \A m \in 1 .. 12 : Time!MonthDays[m] \in Nat   BY DEF Time!MonthDays
<1>2. \A m \in 1 .. 11 : Time!DaysBefore[m + 1] = Time!DaysBefore[m] + Time!MonthDays[m]
  <2> SUFFICES ASSUME NEW m
       \in 1 .. 11 PROVE Time!DaysBefore[m + 1] = Time!DaysBefore[m] + Time!MonthDays[m]
    OBVIOUS
  <2>1. m + 1 \in 1 .. 12 /\ m + 1 # 1 /\ m + 1 - 1 = m   OBVIOUS
  <2> QED BY <2>1, DaysBeforeIs
<1>3. Time!DaysBefore[1] = 0   BY DaysBeforeIs
<1>4. /\ Time!MonthDays[1] = 31 /\ Time!MonthDays[2] = 28 /\ Time!MonthDays[3] = 31
      /\ Time!MonthDays[4] = 30
      /\ Time!MonthDays[5] = 31 /\ Time!MonthDays[6] = 30 /\ Time!MonthDays[7] = 31
      /\ Time!MonthDays[8] = 31
      /\ Time!MonthDays[9] = 30 /\ Time!MonthDays[10] = 31 /\ Time!MonthDays[11] = 30
      /\ Time!MonthDays[12] = 31
  BY DEF Time!MonthDays
<1>5. Time!DaysBefore[2] = 31   BY <1>2, <1>3, <1>4
<1>6. Time!DaysBefore[3] = 59   BY <1>2, <1>4, <1>5
<1>7. Time!DaysBefore[4] = 90   BY <1>2, <1>4, <1>6
<1>8. Time!DaysBefore[5] = 120   BY <1>2, <1>4, <1>7
<1>9. Time!DaysBefore[6] = 151   BY <1>2, <1>4, <1>8
<1>10. Time!DaysBefore[7] = 181   BY <1>2, <1>4, <1>9
<1>11. Time!DaysBefore[8] = 212   BY <1>2, <1>4, <1>10
<1>12. Time!DaysBefore[9] = 243   BY <1>2, <1>4, <1>11
<1>13. Time!DaysBefore[10] = 273   BY <1>2, <1>4, <1>12
<1>14. Time!DaysBefore[11] = 304   BY <1>2, <1>4, <1>13
<1>15. Time!DaysBefore[12] = 334   BY <1>2, <1>4, <1>14
<1>16. ASSUME NEW m \in 1 .. 12 PROVE Time!DaysBefore[m] \in Nat
  <2>1. m \in {1, 2, 3, 4, 5, 6, 7, 8, 9, 10, 11, 12}   OBVIOUS
  <2> QED BY <1>3, <1>5, <1>6, <1>7, <1>8, <1>9, <1>10, <1>11, <1>12, <1>13, <1>14, <1>15, <2>1
<1> QED BY <1>1, <1>2, <1>3, <1>4, <1>5, <1>6, <1>15, <1>16

\* A leap day more than the year before, or none.
LEMMA LeapsGrow ==
  ASSUME NEW y \in Nat, y >= 1970
  PROVE  Time!Leaps(y)
         \in Int /\ Time!Leaps(y + 1) = Time!Leaps(y) + IF Time!IsLeap(y) THEN 1 ELSE 0
<1>1. (y + 1 - 1) \div 4 = (y - 1) \div 4 + IF y % 4 = 0 THEN 1 ELSE 0   OBVIOUS
<1>2. (y + 1 - 1) \div 100 = (y - 1) \div 100 + IF y % 100 = 0 THEN 1 ELSE 0   OBVIOUS
<1>3. (y + 1 - 1) \div 400 = (y - 1) \div 400 + IF y % 400 = 0 THEN 1 ELSE 0   OBVIOUS
<1>4. (y % 400 = 0 => y % 100 = 0) /\ (y % 100 = 0 => y % 4 = 0)   OBVIOUS
<1> DEFINE a == (y - 1) \div 4
           b == (y - 1) \div 100
           c == (y - 1) \div 400
<1>5. a \in Int /\ b \in Int /\ c \in Int   OBVIOUS
<1>6. 1969 \div 4 \in Int /\ 1969 \div 100 \in Int /\ 1969 \div 400 \in Int   OBVIOUS
<1> QED BY <1>1, <1>2, <1>3, <1>4, <1>5, <1>6 DEF Time!Leaps, Time!IsLeap

\* The first of January 1970 is day 0.
LEMMA ClockInit == ClockSensible /\ Time!Init => ClockInv
<1> SUFFICES ASSUME ClockSensible, Time!Init PROVE ClockInv
  OBVIOUS
<1>1. ClockTyped
  <2>1. Time!PerMinute \in Nat   BY DEF Time!PerMinute, ClockSensible
  <2>2. tTime \in Nat   BY <2>1 DEF Time!Init
  <2> QED BY <2>2 DEF Time!Init, ClockTyped
<1>2. ReadTrue   BY DEF Time!Init, ReadTrue
<1>3. CalendarKept
  <2>1. tDate = [year |-> 1970, month |-> 1] /\ tDays = 0   BY DEF Time!Init
  <2>2. Time!Leaps(1970) = 0   BY DEF Time!Leaps
  <2>3. Time!RtcDays(1970, 1) = 0   BY <2>2, MonthsAre DEF Time!RtcDays
  <2> QED BY <2>1, <2>3 DEF CalendarKept
<1> QED BY <1>1, <1>2, <1>3 DEF ClockInv

\* A month more, by the calendar.
LEMMA ClockMonth == ASSUME ClockInv, Time!NextMonth PROVE CalendarKept'
<1> DEFINE y == tDate.year
           m == tDate.month
<1>1. y \in Nat /\ y >= 1970 /\ m \in 1 .. 12 /\ tDays = Time!RtcDays(y, m)
  BY DEF ClockInv, CalendarKept
<1>2. /\ tDays' = tDays + Time!MonthLength(tDate)
      /\ tDate' = IF m = 12 THEN [year |-> y + 1, month |-> 1] ELSE [tDate EXCEPT !.month = m + 1]
  BY DEF Time!NextMonth
<1>3. Time!MonthLength(tDate) = IF m = 2 /\ Time!IsLeap(y) THEN 29 ELSE Time!MonthDays[m]
  BY DEF Time!MonthLength
<1>4. tDate \in [year : Nat, month : 1 .. 12]   BY DEF ClockInv, CalendarKept
<1>5. CASE m = 12
  <2>1. tDate' = [year |-> y + 1, month |-> 1] /\ tDays' = tDays + 31
    BY <1>2, <1>3, <1>5, MonthsAre
  <2>2. Time!RtcDays(y + 1, 1) = Time!RtcDays(y, 12) + 31
    <3>1. Time!Leaps(y)
          \in Int /\ Time!Leaps(y + 1) = Time!Leaps(y) + IF Time!IsLeap(y) THEN 1 ELSE 0
      BY <1>1, LeapsGrow
    <3>2. (y + 1 - 1970) * 365 = (y - 1970) * 365 + 365 /\ (y - 1970) * 365 \in Int   BY <1>1
    <3> HIDE DEF y
    <3> QED BY <1>1, <3>1, <3>2, MonthsAre DEF Time!RtcDays
  <2>3. tDate'.year = y + 1 /\ tDate'.month = 1 /\ tDate' \in [year : Nat, month : 1 .. 12]
    BY <1>1, <2>1
  <2>4. y + 1 >= 1970   BY <1>1
  <2>5. Time!RtcDays(tDate'.year, tDate'.month) = tDays'   BY <1>1, <1>5, <2>1, <2>2, <2>3
  <2> QED BY <2>3, <2>4, <2>5 DEF CalendarKept, Time!RtcDays, Time!Leaps, Time!IsLeap
<1>6. CASE m # 12
  <2>1. m \in 1 .. 11   BY <1>1, <1>6
  <2>2. /\ tDate'.year = y /\ tDate'.month = m + 1 /\ tDate' \in [year : Nat, month : 1 .. 12]
    BY <1>2, <1>4, <1>6, <2>1
  <2>3. Time!RtcDays(y, m + 1) = Time!RtcDays(y, m) + Time!MonthLength(tDate)
    <3>1. Time!Leaps(y) \in Int /\ (y - 1970) * 365 \in Int   BY <1>1, LeapsGrow
    <3>2. Time!DaysBefore[m] \in Nat /\ Time!MonthDays[m] \in Nat
          /\ Time!DaysBefore[m + 1] = Time!DaysBefore[m] + Time!MonthDays[m]
      BY <2>1, MonthsAre
    <3>3. m = 2 => Time!MonthDays[m] = 28   BY MonthsAre
    <3>4. m + 1 > 2 <=> m > 1   BY <2>1
    <3> HIDE DEF y, m
    <3>5. CASE m > 2   BY <1>3, <2>1, <3>1, <3>2, <3>5 DEF Time!RtcDays
    <3>6. CASE m = 2   BY <1>3, <2>1, <3>1, <3>2, <3>3, <3>6 DEF Time!RtcDays
    <3>7. CASE m = 1   BY <1>3, <2>1, <3>1, <3>2, <3>7 DEF Time!RtcDays
    <3> QED BY <2>1, <3>5, <3>6, <3>7
  <2>4. Time!RtcDays(tDate'.year, tDate'.month) = tDays'   BY <1>1, <1>2, <2>2, <2>3
  <2> QED BY <1>1, <2>2, <2>4 DEF CalendarKept, Time!RtcDays, Time!Leaps, Time!IsLeap
<1> QED BY <1>5, <1>6

\* A number is its quotient and its remainder.
LEMMA QuotientRemainder ==
  ASSUME NEW R \in Nat \ {0}, NEW v \in Nat
  PROVE  (v % R) + (v \div R) * R = v /\ v % R \in Nat /\ v \div R \in Nat
<1> DEFINE q == v \div R
           r == v % R
<1>1. v = R * q + r /\ q \in Nat /\ r \in 0 .. R - 1   OBVIOUS
<1> HIDE DEF q, r
<1>2. R * q = q * R   BY <1>1
<1>3. r + q * R = v /\ r \in Nat /\ q \in Nat   BY <1>1, <1>2
<1> QED BY <1>3 DEF q, r

\* The two digits of a value, from two reads of it, and the two parts of a time.
LEMMA TwoDigits ==
  ASSUME ClockSensible, NEW v \in Nat PROVE Time!BcdToBin(v % ClockDigit, v) = v
BY QuotientRemainder DEF Time!BcdToBin, ClockSensible

\* A time is its minutes and its seconds.
LEMMA TimeParts ==
  ASSUME ClockSensible, ClockTyped
  PROVE  /\ Time!Showing.sec \in Nat /\ Time!Showing.min \in Nat
         /\ Time!Showing.sec + Time!Showing.min * Time!PerMinute = tTime
<1>1. Time!PerMinute \in Nat \ {0}   BY DEF Time!PerMinute, ClockSensible
<1>2. tTime \in Nat   BY DEF ClockTyped
<1>3. Time!Showing.sec = tTime % Time!PerMinute
      /\ Time!Showing.min = tTime \div Time!PerMinute   BY DEF Time!Showing
<1> QED BY <1>1, <1>2, <1>3, QuotientRemainder

\* The clock announces an update, and counts; nothing is counted in a reading that began clear.
LEMMA ClockCounts ==
  ASSUME ClockSensible, ClockInv, Time!Announce \/ Time!Tick PROVE ClockInv'
<1>1. ClockTyped'
  <2>1. tTime' \in {tTime, tTime + 1} /\ tTime \in Nat
    BY DEF ClockInv, ClockTyped, Time!Announce, Time!Tick
  <2>2. tTime' \in Nat   BY <2>1
  <2> QED BY <2>2 DEF ClockInv, ClockTyped, Time!Announce, Time!Tick, Time!ReadKept
<1>2. ReadTrue'
  <2>1. CASE Time!Announce   BY <2>1 DEF ClockInv, ReadTrue, Time!Announce, Time!ReadKept,
             Time!Reading, Time!Showing
  <2>2. CASE Time!Tick
    <3>1. ~(Time!Reading /\ tClear) /\ UNCHANGED <<tAt, tClear, tBegun, tLow, tSec, tStamp>>
      BY <2>2 DEF Time!Tick, Time!ReadKept
    <3> QED BY <3>1 DEF ClockInv, ClockTyped, ReadTrue, Time!Reading
  <2> QED BY <2>1, <2>2
<1>3. CalendarKept'   BY DEF ClockInv, CalendarKept, Time!Announce, Time!Tick, Time!DateKept
<1> QED BY <1>1, <1>2, <1>3 DEF ClockInv

\* A register read before the next update has what the clock showed at first.
LEMMA ClockReads ==
  ASSUME ClockSensible, ClockInv,
         Time!Wait \/ Time!ReadSeconds \/ Time!ReadSecondsHigh \/ Time!ReadMinutes
              \/ Time!ReadMinutesHigh
  PROVE  ClockInv'
<1>0. /\ UNCHANGED <<tTime, tUip, tBinary, tDate, tDays>>
      /\ tAt' \in {"sec", "sec high", "min", "min high", "done"} /\ tClear' \in BOOLEAN
  BY DEF ClockInv, ClockTyped, Time!Wait, Time!ReadSeconds, Time!ReadSecondsHigh,
       Time!ReadMinutes, Time!ReadMinutesHigh,
         Time!Read, Time!DateKept
<1>1. ClockTyped'   BY <1>0 DEF ClockInv, ClockTyped
<1>2. CalendarKept'
  <2>1. tDate' = tDate /\ tDays' = tDays   BY <1>0
  <2> QED BY <2>1 DEF ClockInv, CalendarKept
<1>3. Time!Showing' = Time!Showing /\ Time!Showing.sec \in Nat /\ Time!Showing.min \in Nat
      /\ Time!Showing.sec + Time!Showing.min * Time!PerMinute = tTime
  BY <1>0, TimeParts DEF ClockInv, Time!Showing
<1>4. ASSUME Time!Wait PROVE ReadTrue'
  BY <1>4 DEF Time!Wait, ReadTrue, Time!Reading
<1>5. ASSUME Time!ReadSeconds PROVE ReadTrue'
  BY <1>0, <1>3, <1>5 DEF ClockInv, ReadTrue, Time!Reading, Time!ReadSeconds, Time!Read
<1>6. ASSUME Time!ReadSecondsHigh PROVE ReadTrue'
  <2>1. tClear => tSec' = Time!Showing.sec
    BY <1>3, <1>6, TwoDigits DEF ClockInv, ReadTrue, Time!ReadSecondsHigh
  <2> QED BY <1>0, <1>1, <1>2, <1>3, <1>6, <2>1 DEF ClockInv, ReadTrue, Time!Reading,
       Time!ReadSecondsHigh
<1>7. ASSUME Time!ReadMinutes PROVE ReadTrue'
  <2>1. tClear /\ tAt' = "done" => tStamp' = tBegun
    BY <1>3, <1>7 DEF ClockInv, ReadTrue, Time!Reading, Time!ReadMinutes, Time!Read
  <2> QED BY <1>0, <1>1, <1>2, <1>3, <1>7, <2>1 DEF ClockInv, ReadTrue, Time!Reading,
       Time!ReadMinutes, Time!Read
<1>8. ASSUME Time!ReadMinutesHigh PROVE ReadTrue'
  <2>1. tClear => tStamp' = tBegun
    <3>1. tClear => tLow = Time!Showing.min % ClockDigit /\ tSec = Time!Showing.sec
          /\ tTime = tBegun
      BY <1>8 DEF ClockInv, ReadTrue, Time!Reading, Time!ReadMinutesHigh
    <3>2. tClear => Time!BcdToBin(tLow, Time!Showing.min) = Time!Showing.min
      BY <1>3, <3>1, TwoDigits
    <3> QED BY <1>3, <1>8, <3>1, <3>2 DEF Time!ReadMinutesHigh
  <2> QED BY <1>0, <1>1, <1>2, <1>8, <2>1 DEF ClockInv, ReadTrue, Time!Reading, Time!ReadMinutesHigh
<1> QED BY <1>1, <1>2, <1>4, <1>5, <1>6, <1>7, <1>8 DEF ClockInv

\* Every step keeps it.
LEMMA ClockStep == ClockSensible /\ ClockInv /\ [Time!Next]_(Time!clockVars) => ClockInv'
<1> SUFFICES ASSUME ClockSensible, ClockInv, [Time!Next]_(Time!clockVars) PROVE ClockInv'
  OBVIOUS
<1>1. CASE Time!NextMonth
  <2>1. ClockTyped'   BY <1>1 DEF ClockInv, ClockTyped, Time!NextMonth, Time!ReadKept
  <2>2. ReadTrue'   BY <1>1 DEF ClockInv, ReadTrue, Time!NextMonth, Time!ReadKept, Time!Reading,
        Time!Showing
  <2> QED BY <1>1, <2>1, <2>2, ClockMonth DEF ClockInv
<1>2. CASE UNCHANGED Time!clockVars
  <2>1. ClockTyped'   BY <1>2 DEF ClockInv, ClockTyped, Time!clockVars
  <2>2. ReadTrue'   BY <1>2 DEF ClockInv, ReadTrue, Time!clockVars, Time!Reading, Time!Showing
  <2>3. CalendarKept'   BY <1>2 DEF ClockInv, CalendarKept, Time!clockVars
  <2> QED BY <2>1, <2>2, <2>3 DEF ClockInv
<1> QED BY <1>1, <1>2, ClockCounts, ClockReads DEF Time!Next

\* The clock is read right, and the calendar is the Gregorian one.
THEOREM ClockInductive == ClockSensible => (Time!Spec => []ClockInv)
<1> SUFFICES ASSUME ClockSensible PROVE Time!Spec => []ClockInv
  OBVIOUS
<1> QED BY ClockInit, ClockStep, PTL DEF Time!Spec

\* The time stamp of a reading is the time there was.
THEOREM ClockTrue == ClockSensible => (Time!Spec => []Time!ClockRight)
<1> SUFFICES ASSUME ClockSensible PROVE Time!Spec => []Time!ClockRight
  OBVIOUS
<1>1. ClockInv => Time!ClockRight
  <2>1. ClockInv => Time!RtcDays(tDate.year, tDate.month) = tDays   BY DEF ClockInv, CalendarKept
  <2>2. ClockInv /\ tAt = "done" /\ tClear => tStamp = tBegun   BY DEF ClockInv, ReadTrue
  <2> QED BY <2>1, <2>2 DEF Time!ClockRight
<1> QED BY <1>1, ClockInductive, PTL
=============================================================================
