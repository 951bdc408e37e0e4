---------------------------- MODULE DisplayProofs ----------------------------
(***************************************************************************)
(* Proofs about the display's drivers, each for every value of its         *)
(* constants: the virtqueue of VirtIO GPU, its start, the contexts of      *)
(* pyrion and the commands of a frame; and, at the end, about all device   *)
(* drivers side by side (MC_Devices), whose names the variables have.      *)
(***************************************************************************)
EXTENDS DeviceProofs

-----------------------------------------------------------------------------
(***************************************************************************)
(* The virtqueue (Virtqueue), for any numbers of callers, commands,        *)
(* buffers and descriptors. Its free list is said to be whole by sets, not *)
(* by counting along it: the descriptors reached from its head lead to     *)
(* each other, no two to the same. A chain that is pending is two or three *)
(* other descriptors, and the chains that virtio_wait_for_complete gives   *)
(* back make a list again, each leading to the one before it.              *)
(***************************************************************************)
RingSensible == QueueSize \in Nat \ {0} /\ CmdBuffers \in Nat /\ None \notin Requests
RingSpec == Ring!Init /\ [][Ring!Next]_Ring!virtqueueVars

\* Reached with the links as a parameter, so that it can be said of the links a step writes.
ReachedBy(nx, d, through) ==
  {e \in Ring!Descs : \A S \in SUBSET Ring!Descs :
     /\ d \in S \cup {Ring!End}
     /\ \A x \in S \cap through : nx[x] \in S \cup {Ring!End}
     => e \in S}

\* F is a list from f: closed under the links, no two of which meet, and none leads to f.
ListWhole(nx, f, F) ==
  /\ F \subseteq Ring!Descs /\ f \in F \cup {Ring!End}
  /\ \A d \in F : nx[d] \in F \cup {Ring!End}
  /\ \A d, e \in F : nx[d] = nx[e] /\ nx[d] # Ring!End => d = e
  /\ \A d \in F : nx[d] # f

\* A chain of two or three descriptors from h, its members and its last one.
IsChain(nx, mo, h) ==
  /\ h \in mo /\ nx[h] \in Ring!Descs
  /\ nx[h] \in mo => nx[nx[h]] \in Ring!Descs \ mo
Members(nx, mo, h) == {h, nx[h]} \cup (IF nx[h] \in mo THEN {nx[nx[h]]} ELSE {})
LastOf(nx, mo, h) == IF nx[h] \in mo THEN nx[nx[h]] ELSE nx[h]

\* No head is in two places of the rings and of the device.
HeadsApart ==
  /\ \A i, j \in qFetched + 1 .. Len(qAvail) : qAvail[i] = qAvail[j] => i = j
  /\ \A i, j \in qLast + 1 .. Len(qUsed) : qUsed[i] = qUsed[j] => i = j
  /\ \A e, f \in qDevice : e[1] = f[1] => e = f
  /\ \A i \in qFetched + 1 .. Len(qAvail), e \in qDevice : qAvail[i] # e[1]
  /\ \A i \in qFetched + 1 .. Len(qAvail), j \in qLast + 1 .. Len(qUsed) : qAvail[i] # qUsed[j]
  /\ \A j \in qLast + 1 .. Len(qUsed), e \in qDevice : qUsed[j] # e[1]

\* What is pending is a chain, apart from the free list and from the other chains.
ChainsWhole ==
  /\ \A h \in Ring!Pending : /\ h \in Ring!Descs /\ IsChain(qNext, qMore, h)
                             /\ Members(qNext, qMore, h) \cap Ring!FreeList = {}
  /\ \A h, k \in Ring!Pending : h # k => Members(qNext, qMore, h) \cap Members(qNext, qMore, k) = {}

\* The types of the rings and of the descriptors.
RingTypes ==
  /\ qFree \in 0 .. QueueSize /\ qNext \in [Ring!Descs -> 0 .. QueueSize]
  /\ qMore \subseteq Ring!Descs
  /\ qAvail \in Seq(Ring!Descs) /\ qUsed \in Seq(Ring!Descs)
  /\ qLast \in 0 .. Len(qUsed) /\ qFetched \in 0 .. Len(qAvail)
  /\ \A e \in qDevice : e[1] \in Ring!Descs

RingInv == RingTypes /\ ListWhole(qNext, qFree, Ring!FreeList) /\ ChainsWhole /\ HeadsApart

\* The types of the callers' state.
RingCallTypes ==
  /\ qPc \in [Callers -> {"out", "send", "sent", "wait", "collect"}]
  /\ qReq \in [Callers -> Requests \cup {None}]
  /\ qSlot \in [Callers -> 0 .. CmdBuffers] /\ qChain \in [Callers -> 0 .. QueueSize]
  /\ qBusy \subseteq 1 .. CmdBuffers /\ qBuf \in [1 .. CmdBuffers -> Requests \cup {None}]
  /\ qAddr \in [Ring!Descs -> 0 .. CmdBuffers] /\ qOwner \in [Ring!Descs -> 0 .. CmdBuffers]
  /\ qResult \in [Requests -> {"new", "failed", "done"}]
  /\ \A p \in Callers : qPc[p] # "out" => qReq[p] \in Requests
  /\ \A p \in Callers : qPc[p] = "sent" => Len(qAvail) > 0 /\ qChain[p] \in Ring!Descs

\* Nothing is pending.
AllSeen == qFetched = Len(qAvail) /\ qDevice = {} /\ qLast = Len(qUsed)

\* The one command is on its way: published, in the device's hands, or answered.
Answered(r) == qFetched = Len(qAvail) /\ qDevice = {} /\ Len(qUsed) = qLast + 1 /\ r \in qExecuted
OnItsWay(h, r) ==
  /\ Len(qAvail) > 0 /\ qAvail[Len(qAvail)] = h
  /\ \/ Len(qAvail) = qFetched + 1 /\ qDevice = {} /\ qLast = Len(qUsed)
     \/ qFetched = Len(qAvail) /\ qDevice = {<<h, r>>} /\ qLast = Len(qUsed)
     \/ Answered(r)

\* A caller whose command had no company: no other is in the driver, and its command is
\* where its place in the call says.
Alone(p) == qPc[p] # "out" /\ qReq[p] \notin qMixed
AloneAt(p) ==
  /\ \A q \in Callers \ {p} : qPc[q] = "out"
  /\ qSlot[p] \in qBusy /\ qBuf[qSlot[p]] = qReq[p]
  /\ qPc[p] = "send" => AllSeen
  /\ qPc[p] \in {"sent", "wait", "collect"} =>
        OnItsWay(qChain[p], qReq[p]) /\ qAddr[qChain[p]] = qSlot[p]
  /\ qPc[p] = "collect" => Answered(qReq[p])
AloneInv == \A p \in Callers : Alone(p) => AloneAt(p)
\* What was answered to a command without company was carried out.
DoneInv == \A r \in Requests \ qMixed : qResult[r] = "done" => r \in qExecuted

\* The end of a list is no descriptor.
LEMMA NoEnd == Ring!End \notin Ring!Descs
BY DEF Ring!End, Ring!Descs

\* Reached with the links as a parameter.
LEMMA ReachedSo == \A d, through : Ring!Reached(d, through) = ReachedBy(qNext, d, through)
BY DEF Ring!Reached, ReachedBy

\* What is reached is in every set that next does not leave.
LEMMA ReachedLeast ==
  ASSUME NEW nx, NEW d, NEW through, NEW S \in SUBSET Ring!Descs, d \in S \cup {Ring!End},
         \A x \in S \cap through : nx[x] \in S \cup {Ring!End}
  PROVE  ReachedBy(nx, d, through) \subseteq S
BY DEF ReachedBy

\* Nothing is reached from the end of a list.
LEMMA NothingFromEnd ==
  ASSUME NEW nx, NEW through
  PROVE  ReachedBy(nx, Ring!End, through) = {}
<1>1. {} \in SUBSET Ring!Descs /\ Ring!End \in {} \cup {Ring!End}   OBVIOUS
<1> QED BY <1>1, ReachedLeast

\* The descriptors reached from the head of a list make a list themselves.
LEMMA ListReached ==
  ASSUME NEW nx, NEW f, NEW F, ListWhole(nx, f, F)
  PROVE  /\ ListWhole(nx, f, ReachedBy(nx, f, Ring!Descs))
         /\ ReachedBy(nx, f, Ring!Descs) \subseteq F
<1> DEFINE R == ReachedBy(nx, f, Ring!Descs)
<1>1. R \subseteq F
  BY ReachedLeast DEF ListWhole
<1>2. f \in R \cup {Ring!End}
  BY DEF ReachedBy, ListWhole
<1>3. ASSUME NEW d \in R PROVE nx[d] \in R \cup {Ring!End}
  <2>1. nx[d] \in Ring!Descs \cup {Ring!End}   BY <1>1 DEF ListWhole
  <2>2. \A S \in SUBSET Ring!Descs :
          f \in S \cup {Ring!End} /\ (\A x \in S \cap Ring!Descs : nx[x] \in S \cup {Ring!End})
            => d \in S /\ nx[d] \in S \cup {Ring!End}
    BY DEF ReachedBy
  <2> QED BY <2>1, <2>2 DEF ReachedBy
<1> HIDE DEF R
<1> QED BY <1>1, <1>2, <1>3 DEF ListWhole, R

\* A chain is walked to its last descriptor, the only one without F_NEXT.
LEMMA ChainWalked ==
  ASSUME NEW nx, NEW mo \in SUBSET Ring!Descs, NEW h, IsChain(nx, mo, h)
  PROVE  /\ ReachedBy(nx, h, mo) = Members(nx, mo, h)
         /\ Members(nx, mo, h) \subseteq Ring!Descs
         /\ LastOf(nx, mo, h) \in Members(nx, mo, h)
         /\ \A d \in Members(nx, mo, h) : d \notin mo <=> d = LastOf(nx, mo, h)
<1> DEFINE LinksOf == Members(nx, mo, h)
<1>1. LinksOf \subseteq Ring!Descs   BY DEF Members, IsChain
<1>2. /\ LastOf(nx, mo, h) \in LinksOf
      /\ \A d \in LinksOf : d \notin mo <=> d = LastOf(nx, mo, h)
  BY DEF Members, IsChain, LastOf
<1>3. h \in LinksOf /\ \A x \in LinksOf \cap mo : nx[x] \in LinksOf
  BY DEF Members, IsChain
<1>4. ReachedBy(nx, h, mo) \subseteq LinksOf
  BY <1>1, <1>3, ReachedLeast
<1>5. ASSUME NEW S \in SUBSET Ring!Descs, h \in S \cup {Ring!End},
             \A x \in S \cap mo : nx[x] \in S \cup {Ring!End}
      PROVE  LinksOf \subseteq S
  <2>1. h \in S /\ nx[h] \in S   BY <1>5, NoEnd DEF IsChain
  <2>2. nx[h] \in mo => nx[nx[h]] \in S   BY <1>5, <2>1, NoEnd DEF IsChain
  <2> QED BY <2>1, <2>2 DEF Members
<1>6. LinksOf \subseteq ReachedBy(nx, h, mo)
  BY <1>1, <1>5 DEF ReachedBy
<1> QED BY <1>1, <1>2, <1>4, <1>6

\* A chain none of whose descriptors is touched stays as it is.
LEMMA ChainKept ==
  ASSUME NEW nx, NEW mo, NEW ny, NEW no, NEW h, IsChain(nx, mo, h),
         \A x \in Members(nx, mo, h) : ny[x] = nx[x] /\ (x \in no <=> x \in mo)
  PROVE  IsChain(ny, no, h) /\ Members(ny, no, h) = Members(nx, mo, h)
BY DEF IsChain, Members

\* The two or three descriptors taken off a list from f, z the last of them; and the chain
\* that ends there.
Takes(nx, f, T, z) ==
  /\ f # Ring!End /\ z # Ring!End
  /\ \/ T = {f} /\ z = nx[f]
     \/ T = {f, nx[f]} /\ nx[f] # Ring!End /\ z = nx[nx[f]]
Cut(nx, mo, T, z, ny, no) ==
  /\ mo \subseteq Ring!Descs /\ no = (mo \cup T) \ {z}
  /\ \A d \in Ring!Descs : ny[d] = IF d = z THEN Ring!End ELSE nx[d]

\* What virtio_send_ex takes off the list is a chain, and what is left is a list.
LEMMA TakenOff ==
  ASSUME NEW nx, NEW f, NEW F, ListWhole(nx, f, F), NEW T, NEW z, Takes(nx, f, T, z),
         NEW mo, NEW ny, NEW no, Cut(nx, mo, T, z, ny, no)
  PROVE  /\ T \subseteq F /\ z \in F /\ z \notin T /\ f \in T
         /\ IsChain(ny, no, f) /\ Members(ny, no, f) = T \cup {z}
         /\ \E G : ListWhole(ny, nx[z], G) /\ G \subseteq F \ (T \cup {z})
<1> DEFINE G == IF nx[z] = Ring!End THEN {} ELSE F \ (T \cup {z})
<1>1. F \subseteq Ring!Descs /\ f \in F /\ T \subseteq F /\ z \in F /\ Ring!End \notin F /\ f \in T
  BY NoEnd DEF ListWhole, Takes
<1>2. z \notin T
  BY <1>1 DEF ListWhole, Takes
<1>3. /\ mo \subseteq Ring!Descs /\ no = (mo \cup T) \ {z}
      /\ \A d \in Ring!Descs : ny[d] = IF d = z THEN Ring!End ELSE nx[d]
  BY DEF Cut
<1>4. IsChain(ny, no, f) /\ Members(ny, no, f) = T \cup {z}
  <2>1. ny[f] = nx[f]   BY <1>1, <1>2, <1>3
  <2>2. CASE T = {f} /\ z = nx[f]
    BY <1>1, <1>2, <1>3, <2>1, <2>2 DEF IsChain, Members
  <2>3. CASE T = {f, nx[f]} /\ nx[f] # Ring!End /\ z = nx[nx[f]]
    <3>1. ny[nx[f]] = z   BY <1>1, <1>2, <1>3, <2>3
    <3> QED BY <1>1, <1>2, <1>3, <2>1, <2>3, <3>1 DEF IsChain, Members
  <2> QED BY <2>2, <2>3 DEF Takes
<1>5. ASSUME NEW d \in (F \ T), d # z PROVE nx[d] \notin T \cup {z}
  BY <1>1, <1>2, <1>5 DEF ListWhole, Takes
<1>6. ListWhole(ny, nx[z], G)
  <2>1. CASE nx[z] = Ring!End
    BY <2>1 DEF ListWhole
  <2>2. CASE nx[z] # Ring!End
    <3>1. nx[z] \in G   BY <1>1, <1>2, <2>2 DEF ListWhole, Takes
    <3>2. \A d \in G : ny[d] = nx[d] /\ d \in F /\ d # z /\ d \notin T   BY <1>1, <1>3, <2>2
    <3>3. \A d \in G : nx[d] \in G \cup {Ring!End}   BY <1>5, <2>2, <3>2 DEF ListWhole
    <3> HIDE DEF G
    <3>4. G \subseteq Ring!Descs   BY <1>1, <3>2
    <3> QED BY <1>1, <3>1, <3>2, <3>3, <3>4, <2>2 DEF ListWhole
  <2> QED BY <2>1, <2>2
<1>7. G \subseteq F \ (T \cup {z})   OBVIOUS
<1> HIDE DEF G
<1> QED BY <1>1, <1>2, <1>4, <1>6, <1>7

\* What is pending, place by place.
LEMMA PendingAt ==
  /\ \A i \in qFetched + 1 .. Len(qAvail) : qAvail[i] \in Ring!Pending
  /\ \A i \in qLast + 1 .. Len(qUsed) : qUsed[i] \in Ring!Pending
  /\ \A e \in qDevice : e[1] \in Ring!Pending
  /\ \A h \in Ring!Pending : \/ \E i \in qFetched + 1 .. Len(qAvail) : h = qAvail[i]
                             \/ \E i \in qLast + 1 .. Len(qUsed) : h = qUsed[i]
                             \/ \E e \in qDevice : h = e[1]
BY DEF Ring!Pending

\* The head of a chain is in it.
LEMMA HeadIn == \A nx, mo, h : h \in Members(nx, mo, h)
BY DEF Members

\* What a sequence holds after one more entry.
LEMMA Appended ==
  ASSUME NEW S, NEW s \in Seq(S), NEW e \in S
  PROVE  /\ Append(s, e) \in Seq(S) /\ Len(Append(s, e)) = Len(s) + 1 /\ Len(s) \in Nat
         /\ \A i \in 1 .. Len(s) : Append(s, e)[i] = s[i] /\ s[i] \in S
         /\ Append(s, e)[Len(s) + 1] = e
OBVIOUS

\* virtio_send_ex publishes a chain of descriptors that were free.
LEMMA SendExRing ==
  ASSUME RingSensible, RingInv, RingCallTypes, NEW p \in Callers, NEW n \in {2, 3},
         Ring!SendEx(p, n)
  PROVE  RingInv'
<1> DEFINE ds == Ring!Chain(n)
           T == {ds[i] : i \in 1 .. n - 1}
           z == ds[n]
           F == Ring!FreeList
<1>1. /\ RingTypes /\ ListWhole(qNext, qFree, Ring!FreeList) /\ ChainsWhole /\ HeadsApart
  BY DEF RingInv
<1>2. /\ z # Ring!End /\ qFree' = qNext[z] /\ qNext' = [qNext EXCEPT ![z] = Ring!End]
      /\ qMore' = (qMore \cup T) \ {z} /\ qAvail' = Append(qAvail, ds[1])
      /\ UNCHANGED <<qUsed, qLast, qFetched, qDevice>>
  BY DEF Ring!SendEx
<1>3. /\ ds[1] = qFree /\ qFree # Ring!End
      /\ \/ T = {qFree} /\ z = qNext[qFree]
         \/ T = {qFree, qNext[qFree]} /\ qNext[qFree] # Ring!End /\ z = qNext[qNext[qFree]]
  <2>1. CASE n = 2
    <3>1. ds[1] = qFree /\ ds[2] = Ring!After(qFree)   BY <2>1 DEF Ring!Chain, Ring!Nth
    <3>2. T = {ds[1]}   BY <2>1
    <3> QED BY <1>2, <2>1, <3>1, <3>2 DEF Ring!After
  <2>2. CASE n = 3
    <3>1. ds[1] = qFree /\ ds[2] = Ring!After(qFree) /\ ds[3] = Ring!After(Ring!After(qFree))
      BY <2>2 DEF Ring!Chain, Ring!Nth
    <3>2. T = {ds[1], ds[2]}   BY <2>2
    <3> QED BY <1>2, <2>2, <3>1, <3>2 DEF Ring!After
  <2> QED BY <2>1, <2>2
<1> HIDE DEF ds, T, z, F
<1>4. /\ T \subseteq F /\ z \in F /\ z \notin T /\ qFree \in T
      /\ IsChain(qNext', qMore', qFree) /\ Members(qNext', qMore', qFree) = T \cup {z}
      /\ \E G : ListWhole(qNext', qFree', G) /\ G \subseteq F \ (T \cup {z})
  <2>1. ListWhole(qNext, qFree, F)   BY <1>1 DEF F
  <2>2. Takes(qNext, qFree, T, z)   BY <1>2, <1>3 DEF Takes
  <2>3. Cut(qNext, qMore, T, z, qNext', qMore')   BY <1>1, <1>2 DEF RingTypes, Cut
  <2>4. qFree' = qNext[z]   BY <1>2
  <2> QED BY <2>1, <2>2, <2>3, <2>4, TakenOff
<1>5. PICK G : ListWhole(qNext', qFree', G) /\ G \subseteq F \ (T \cup {z})
  BY <1>4
<1>6. F \subseteq Ring!Descs   BY <1>1 DEF ListWhole, F
<1>7. Ring!FreeList' = ReachedBy(qNext', qFree', Ring!Descs)
  BY DEF Ring!FreeList, Ring!Reached, ReachedBy
<1>8. ListWhole(qNext', qFree', Ring!FreeList') /\ Ring!FreeList' \subseteq G
  BY <1>5, <1>7, ListReached
<1>9. RingTypes'
  <2>1. qFree' \in 0 .. QueueSize /\ qNext' \in [Ring!Descs -> 0 .. QueueSize]
        /\ qMore' \subseteq Ring!Descs
    BY <1>1, <1>2, <1>4, <1>6 DEF RingTypes, RingSensible, Ring!End
  <2>2. qFree \in Ring!Descs   BY <1>4, <1>6
  <2>3. qAvail' \in Seq(Ring!Descs) /\ Len(qAvail') = Len(qAvail) + 1
    BY <1>1, <1>2, <1>3, <2>2, Appended DEF RingTypes
  <2>4. qFetched \in 0 .. Len(qAvail')   BY <1>1, <2>3 DEF RingTypes
  <2> QED BY <1>1, <1>2, <2>1, <2>3, <2>4 DEF RingTypes
<1>10. /\ Len(qAvail') = Len(qAvail) + 1 /\ Len(qAvail) \in Nat /\ qFetched \in 0 .. Len(qAvail)
       /\ \A i \in 1 .. Len(qAvail) : qAvail'[i] = qAvail[i]
       /\ qAvail'[Len(qAvail) + 1] = qFree
  <2>1. qFree \in Ring!Descs   BY <1>4, <1>6
  <2> QED BY <1>1, <1>2, <1>3, <2>1, Appended DEF RingTypes
<1>11. Ring!Pending' = Ring!Pending \cup {qFree}
  <2>1. \A x \in Ring!Pending' : x \in Ring!Pending \cup {qFree}
    BY <1>2, <1>10 DEF Ring!Pending
  <2>2. \A x \in Ring!Pending \cup {qFree} : x \in Ring!Pending'
    BY <1>2, <1>10 DEF Ring!Pending
  <2> QED BY <2>1, <2>2
<1>12. ASSUME NEW h \in Ring!Pending
       PROVE  /\ h \in Ring!Descs /\ IsChain(qNext', qMore', h)
              /\ Members(qNext', qMore', h) = Members(qNext, qMore, h)
              /\ Members(qNext, qMore, h) \cap F = {}
  <2>1. /\ h \in Ring!Descs /\ IsChain(qNext, qMore, h) /\ Members(qNext, qMore, h) \cap F = {}
    BY <1>1 DEF ChainsWhole, F
  <2>2. Members(qNext, qMore, h) \subseteq Ring!Descs   BY <1>1, <2>1, ChainWalked DEF RingTypes
  <2>3. \A x \in Members(qNext, qMore, h) : qNext'[x] = qNext[x] /\ (x \in qMore' <=> x \in qMore)
    BY <1>1, <1>2, <1>4, <2>1, <2>2 DEF RingTypes
  <2> QED BY <2>1, <2>3, ChainKept
<1>13. ChainsWhole'
  <2>1. ASSUME NEW h \in Ring!Pending'
        PROVE  /\ h \in Ring!Descs /\ IsChain(qNext', qMore', h)
               /\ Members(qNext', qMore', h) \cap Ring!FreeList' = {}
    BY <1>4, <1>5, <1>6, <1>8, <1>11, <1>12
  <2>2. ASSUME NEW h \in Ring!Pending', NEW k \in Ring!Pending', h # k
        PROVE  Members(qNext', qMore', h) \cap Members(qNext', qMore', k) = {}
    <3>1. CASE h \in Ring!Pending /\ k \in Ring!Pending
      BY <1>1, <1>12, <2>2, <3>1 DEF ChainsWhole
    <3>2. CASE h = qFree \/ k = qFree
      BY <1>4, <1>11, <1>12, <2>2, <3>2
    <3> QED BY <1>11, <3>1, <3>2
  <2> QED BY <2>1, <2>2 DEF ChainsWhole
<1>14. \A h \in Ring!Pending : h # qFree
  BY <1>4, <1>12, HeadIn
<1>15. HeadsApart'
  <2> USE <1>2, <1>10, PendingAt, <1>14
  <2>1. \A i \in qFetched + 1 .. Len(qAvail') :
          \/ i = Len(qAvail) + 1 /\ qAvail'[i] = qFree
          \/ i \in qFetched + 1 .. Len(qAvail) /\ qAvail'[i] = qAvail[i]
    BY <1>10
  <2> QED BY <1>1, <1>2, <1>14, <2>1, PendingAt DEF HeadsApart
<1> QED BY <1>8, <1>9, <1>13, <1>15 DEF RingInv

\* A command that finds too few descriptors loses those it took, all of them free ones.
LEMMA SendFailsRing ==
  ASSUME RingSensible, RingInv, NEW p \in Callers, NEW n \in {2, 3}, Ring!SendFails(p, n)
  PROVE  RingInv'
<1> DEFINE got == {Ring!Nth(i) : i \in 1 .. n} \ {Ring!End}
<1>1. RingTypes /\ ListWhole(qNext, qFree, Ring!FreeList) /\ ChainsWhole /\ HeadsApart
  BY DEF RingInv
<1>2. /\ qFree' = Ring!End /\ qMore' = qMore \cup got
      /\ UNCHANGED <<qNext, qAvail, qUsed, qLast, qFetched, qDevice>>
  BY DEF Ring!SendFails
<1>3. got \subseteq Ring!FreeList
  <2>1. \A i \in 1 .. n : Ring!Nth(i)
        \in {qFree, Ring!After(qFree), Ring!After(Ring!After(qFree))}   BY DEF Ring!Nth
  <2>2. {qFree, Ring!After(qFree), Ring!After(Ring!After(qFree))}
        \subseteq Ring!FreeList \cup {Ring!End}
    BY <1>1 DEF ListWhole, Ring!After
  <2> QED BY <2>1, <2>2
<1> HIDE DEF got
<1>4. Ring!FreeList \subseteq Ring!Descs   BY <1>1 DEF ListWhole
<1>5. Ring!FreeList' = {}
  <2>1. Ring!FreeList' = ReachedBy(qNext', qFree', Ring!Descs)
    BY DEF Ring!FreeList, Ring!Reached, ReachedBy
  <2> QED BY <1>2, <2>1, NothingFromEnd
<1>6. ListWhole(qNext', qFree', Ring!FreeList')   BY <1>2, <1>5 DEF ListWhole
<1>7. RingTypes'   BY <1>1, <1>2, <1>3, <1>4 DEF RingTypes, RingSensible, Ring!End
<1>8. Ring!Pending' = Ring!Pending   BY <1>2 DEF Ring!Pending
<1>9. ASSUME NEW h \in Ring!Pending
      PROVE  /\ h \in Ring!Descs /\ IsChain(qNext', qMore', h)
             /\ Members(qNext', qMore', h) = Members(qNext, qMore, h)
  <2>1. /\ h \in Ring!Descs /\ IsChain(qNext, qMore, h)
        /\ Members(qNext, qMore, h) \cap Ring!FreeList = {}
    BY <1>1 DEF ChainsWhole
  <2>2. \A x \in Members(qNext, qMore, h) : qNext'[x] = qNext[x] /\ (x \in qMore' <=> x \in qMore)
    BY <1>2, <1>3, <2>1
  <2> QED BY <2>1, <2>2, ChainKept
<1>10. ChainsWhole'   BY <1>1, <1>5, <1>8, <1>9 DEF ChainsWhole
<1>11. HeadsApart'   BY <1>1, <1>2 DEF HeadsApart
<1> QED BY <1>6, <1>7, <1>10, <1>11 DEF RingInv

\* As long as the descriptors stay, only the heads and their places matter.
LEMMA DescriptorsKept ==
  ASSUME RingInv, UNCHANGED <<qFree, qNext, qMore>>, RingTypes', HeadsApart',
         Ring!Pending' \subseteq Ring!Pending
  PROVE  RingInv'
<1>1. Ring!FreeList' = Ring!FreeList   BY DEF Ring!FreeList, Ring!Reached
<1>2. ListWhole(qNext', qFree', Ring!FreeList')   BY <1>1 DEF RingInv
<1>3. ChainsWhole'   BY <1>1 DEF RingInv, ChainsWhole
<1> QED BY <1>2, <1>3 DEF RingInv

\* The device takes the next chain of the available ring.
LEMMA FetchRing ==
  ASSUME RingInv, Ring!Fetch
  PROVE  RingInv'
<1> DEFINE h == qAvail[qFetched + 1]
           e == <<h, qBuf[qAddr[h]]>>
<1>1. RingTypes /\ HeadsApart   BY DEF RingInv
<1>2. /\ qFetched < Len(qAvail) /\ qDevice' = qDevice \cup {e} /\ e[1] = h
      /\ qFetched' = qFetched + 1
      /\ UNCHANGED <<qFree, qNext, qMore, qAvail, qUsed, qLast>>
  BY DEF Ring!Fetch, Ring!ringVars
<1>3. Len(qAvail) \in Nat /\ Len(qUsed) \in Nat /\ qFetched \in Nat   BY <1>1 DEF RingTypes
<1>4. h \in Ring!Descs   BY <1>1, <1>2, <1>3 DEF RingTypes
<1> HIDE DEF h, e
<1>5. RingTypes'   BY <1>1, <1>2, <1>3, <1>4 DEF RingTypes
<1>6. h = qAvail[qFetched + 1] /\ qFetched + 1 \in qFetched + 1 .. Len(qAvail)
  BY <1>2, <1>3 DEF h
<1>7. \A i \in qFetched' + 1 .. Len(qAvail') : i \in qFetched + 1 .. Len(qAvail) /\ i # qFetched + 1
  BY <1>2, <1>3
<1>8. HeadsApart'
  <2>1. \A i, j \in qFetched' + 1 .. Len(qAvail') : qAvail'[i] = qAvail'[j] => i = j
    BY <1>1, <1>2, <1>7 DEF HeadsApart
  <2>2. \A f, g \in qDevice' : f[1] = g[1] => f = g
    BY <1>1, <1>2, <1>6 DEF HeadsApart
  <2>3. \A i \in qFetched' + 1 .. Len(qAvail'), f \in qDevice' : qAvail'[i] # f[1]
    BY <1>1, <1>2, <1>6, <1>7 DEF HeadsApart
  <2>4. \A i \in qFetched' + 1 .. Len(qAvail'), j
        \in qLast' + 1 .. Len(qUsed') : qAvail'[i] # qUsed'[j]
    BY <1>1, <1>2, <1>7 DEF HeadsApart
  <2>5. \A j \in qLast' + 1 .. Len(qUsed'), f \in qDevice' : qUsed'[j] # f[1]
    BY <1>1, <1>2, <1>6 DEF HeadsApart
  <2>6. \A i, j \in qLast' + 1 .. Len(qUsed') : qUsed'[i] = qUsed'[j] => i = j
    BY <1>1, <1>2 DEF HeadsApart
  <2> QED BY <2>1, <2>2, <2>3, <2>4, <2>5, <2>6 DEF HeadsApart
<1>9. Ring!Pending' \subseteq Ring!Pending
  BY <1>2, <1>6, <1>7 DEF Ring!Pending
<1> QED BY <1>2, <1>5, <1>8, <1>9, DescriptorsKept

\* The device answers a chain it has, in any order.
LEMMA CompleteRing ==
  ASSUME RingInv, Ring!Complete
  PROVE  RingInv'
<1>1. RingTypes /\ HeadsApart   BY DEF RingInv
<1>2. PICK e \in qDevice : qDevice' = qDevice \ {e} /\ qUsed' = Append(qUsed, e[1])
  BY DEF Ring!Complete
<1>3. UNCHANGED <<qFree, qNext, qMore, qAvail, qLast, qFetched>>
  BY DEF Ring!Complete, Ring!ringVars
<1>4. /\ qUsed' \in Seq(Ring!Descs) /\ Len(qUsed') = Len(qUsed) + 1 /\ Len(qUsed) \in Nat
      /\ \A i \in 1 .. Len(qUsed) : qUsed'[i] = qUsed[i]
      /\ qUsed'[Len(qUsed) + 1] = e[1] /\ qLast \in 0 .. Len(qUsed)
  BY <1>1, <1>2, Appended DEF RingTypes
<1>5. RingTypes'   BY <1>1, <1>2, <1>3, <1>4 DEF RingTypes
<1>6. \A i \in qLast' + 1 .. Len(qUsed') :
        \/ i = Len(qUsed) + 1 /\ qUsed'[i] = e[1]
        \/ i \in qLast + 1 .. Len(qUsed) /\ qUsed'[i] = qUsed[i]
  BY <1>3, <1>4
<1>7. HeadsApart'
  <2>1. \A i, j \in qLast' + 1 .. Len(qUsed') : qUsed'[i] = qUsed'[j] => i = j
    BY <1>1, <1>6 DEF HeadsApart
  <2>2. \A j \in qLast' + 1 .. Len(qUsed'), f \in qDevice' : qUsed'[j] # f[1]
    <3>1. \A f \in qDevice' : f \in qDevice /\ f[1] # e[1]   BY <1>1, <1>2 DEF HeadsApart
    <3>2. \A j \in qLast + 1 .. Len(qUsed), f \in qDevice : qUsed[j] # f[1]
      BY <1>1 DEF HeadsApart
    <3> QED BY <1>6, <3>1, <3>2
  <2>3. \A i \in qFetched' + 1 .. Len(qAvail'), j
        \in qLast' + 1 .. Len(qUsed') : qAvail'[i] # qUsed'[j]
    BY <1>1, <1>3, <1>6 DEF HeadsApart
  <2>4. /\ \A i, j \in qFetched' + 1 .. Len(qAvail') : qAvail'[i] = qAvail'[j] => i = j
        /\ \A f, g \in qDevice' : f[1] = g[1] => f = g
        /\ \A i \in qFetched' + 1 .. Len(qAvail'), f \in qDevice' : qAvail'[i] # f[1]
    BY <1>1, <1>2, <1>3 DEF HeadsApart
  <2> QED BY <2>1, <2>2, <2>3, <2>4 DEF HeadsApart
<1>8. Ring!Pending' \subseteq Ring!Pending
  BY <1>2, <1>3, <1>6 DEF Ring!Pending
<1> QED BY <1>3, <1>5, <1>7, <1>8, DescriptorsKept

\* Within a chain each descriptor but the last leads to another one, never to the head.
LEMMA ChainInside ==
  ASSUME NEW nx, NEW mo \in SUBSET Ring!Descs, NEW h, h \in Ring!Descs, IsChain(nx, mo, h)
  PROVE  \A d \in Members(nx, mo, h) : d # LastOf(nx, mo, h) =>
           /\ nx[d] \in Members(nx, mo, h) /\ nx[d] # h
           /\ \A e \in Members(nx, mo, h) :
                e # LastOf(nx, mo, h) /\ nx[d] = nx[e] => d = e
BY DEF IsChain, Members, LastOf

\* The chains that are collected, as the driver walks them.
LinksOf(i) == Members(qNext, qMore, qUsed[i])
EndOf(i) == LastOf(qNext, qMore, qUsed[i])

\* What is known of the chains that are collected: they are whole and apart, and only
\* their last descriptors are written.
LEMMA CollectedChains ==
  ASSUME RingInv
  PROVE  /\ Len(qUsed) \in Nat /\ qLast \in Nat
         /\ \A i \in Ring!Collected :
              /\ qUsed[i] \in Ring!Descs /\ qUsed[i] \in LinksOf(i) /\ EndOf(i) \in LinksOf(i)
              /\ LinksOf(i) \subseteq Ring!Descs /\ LinksOf(i) \cap Ring!FreeList = {}
              /\ \A d \in LinksOf(i) : d # EndOf(i) =>
                   /\ qNext[d] \in LinksOf(i) /\ qNext[d] # qUsed[i]
                   /\ \A e \in LinksOf(i) : e # EndOf(i) /\ qNext[d] = qNext[e] => d = e
              /\ Ring!TailOf(qUsed[i]) = EndOf(i)
         /\ \A i, j \in Ring!Collected : i # j => LinksOf(i) \cap LinksOf(j) = {}
         /\ \A i \in Ring!Collected, h
              \in Ring!Pending : h # qUsed[i] => Members(qNext, qMore, h) \cap LinksOf(i) = {}
<1>1. RingTypes /\ ChainsWhole /\ HeadsApart   BY DEF RingInv
<1>2. Len(qUsed) \in Nat /\ qLast \in Nat   BY <1>1 DEF RingTypes
<1>3. \A i \in Ring!Collected : qUsed[i] \in Ring!Pending   BY PendingAt DEF Ring!Collected
<1>4. ASSUME NEW i \in Ring!Collected
      PROVE  /\ qUsed[i] \in Ring!Descs /\ qUsed[i] \in LinksOf(i) /\ EndOf(i) \in LinksOf(i)
             /\ LinksOf(i) \subseteq Ring!Descs /\ LinksOf(i) \cap Ring!FreeList = {}
             /\ \A d \in LinksOf(i) : d # EndOf(i) =>
                  /\ qNext[d] \in LinksOf(i) /\ qNext[d] # qUsed[i]
                  /\ \A e \in LinksOf(i) : e # EndOf(i) /\ qNext[d] = qNext[e] => d = e
             /\ Ring!TailOf(qUsed[i]) = EndOf(i)
  <2> DEFINE h == qUsed[i]
  <2>1. h \in Ring!Descs /\ IsChain(qNext, qMore, h) /\ LinksOf(i) \cap Ring!FreeList = {}
    BY <1>1, <1>3 DEF ChainsWhole, LinksOf
  <2>2. qMore \in SUBSET Ring!Descs   BY <1>1 DEF RingTypes
  <2> HIDE DEF h
  <2>3. /\ ReachedBy(qNext, h, qMore) = Members(qNext, qMore, h)
        /\ Members(qNext, qMore, h) \subseteq Ring!Descs
        /\ LastOf(qNext, qMore, h) \in Members(qNext, qMore, h)
        /\ \A d \in Members(qNext, qMore, h) : d \notin qMore <=> d = LastOf(qNext, qMore, h)
    BY <2>1, <2>2, ChainWalked
  <2>4. \A d \in Members(qNext, qMore, h) : d # LastOf(qNext, qMore, h) =>
           /\ qNext[d] \in Members(qNext, qMore, h) /\ qNext[d] # h
           /\ \A e \in Members(qNext, qMore, h) :
                e # LastOf(qNext, qMore, h) /\ qNext[d] = qNext[e] => d = e
    BY <2>1, <2>2, ChainInside
  <2>5. Ring!Walk(h) = Members(qNext, qMore, h)   BY <2>3, ReachedSo DEF Ring!Walk
  <2>6. Ring!TailOf(h) = LastOf(qNext, qMore, h)   BY <2>3, <2>5 DEF Ring!TailOf
  <2>7. h \in Members(qNext, qMore, h)   BY HeadIn
  <2>8. LinksOf(i) = Members(qNext, qMore, h) /\ EndOf(i) = LastOf(qNext, qMore, h)
    BY DEF LinksOf, EndOf, h
  <2> QED BY <2>1, <2>3, <2>4, <2>6, <2>7, <2>8 DEF h
<1>5. ASSUME NEW i \in Ring!Collected, NEW h \in Ring!Pending, h # qUsed[i]
      PROVE  Members(qNext, qMore, h) \cap LinksOf(i) = {}
  BY <1>1, <1>3, <1>5 DEF ChainsWhole, LinksOf
<1>6. ASSUME NEW i \in Ring!Collected, NEW j \in Ring!Collected,
      i # j PROVE LinksOf(i) \cap LinksOf(j) = {}
  <2>1. qUsed[i] # qUsed[j]   BY <1>1, <1>6 DEF HeadsApart, Ring!Collected
  <2> QED BY <1>3, <1>5, <2>1 DEF LinksOf
<1> QED BY <1>2, <1>4, <1>5, <1>6

\* What virtio_wait_for_complete writes: the last descriptor of the chain i leads to the
\* front of the list as chain i - 1 left it.
LEMMA FreedAt ==
  ASSUME RingInv
  PROVE  /\ \A i \in Ring!Collected : Ring!Freed[EndOf(i)] = Ring!InFront(i)
         /\ \A d \in Ring!Descs :
              (\A i \in Ring!Collected : d # EndOf(i)) => Ring!Freed[d] = qNext[d]
<1>1. /\ \A i \in Ring!Collected : EndOf(i) \in LinksOf(i) /\ LinksOf(i) \subseteq Ring!Descs
         /\ Ring!TailOf(qUsed[i]) = EndOf(i)
      /\ \A i, j \in Ring!Collected : i # j => LinksOf(i) \cap LinksOf(j) = {}
  BY CollectedChains
<1>2. ASSUME NEW i \in Ring!Collected PROVE Ring!Freed[EndOf(i)] = Ring!InFront(i)
  <2>1. {j \in Ring!Collected : Ring!TailOf(qUsed[j]) = EndOf(i)} = {i}   BY <1>1
  <2>2. (CHOOSE k \in {i} : \A j \in {i} : j <= k) = i
    <3>1. i \in Int   BY DEF Ring!Collected
    <3> QED BY <3>1
  <2>3. EndOf(i) \in Ring!Descs   BY <1>1
  <2> QED BY <2>1, <2>2, <2>3 DEF Ring!Freed
<1>3. ASSUME NEW d \in Ring!Descs, \A i
      \in Ring!Collected : d # EndOf(i) PROVE Ring!Freed[d] = qNext[d]
  <2>1. {j \in Ring!Collected : Ring!TailOf(qUsed[j]) = d} = {}   BY <1>1, <1>3
  <2> QED BY <2>1 DEF Ring!Freed
<1> QED BY <1>2, <1>3

\* The collected chains in front of the free list make a list again.
Gathered == Ring!FreeList \cup UNION {LinksOf(i) : i \in Ring!Collected}

\* Where a descriptor of that list leads: on in the old list, on in its chain, or, at the
\* end of a chain, to the front of the list before it.
InOld(d, t) == d \in Ring!FreeList /\ t \in Ring!FreeList \cup {Ring!End} /\ t = qNext[d]
     /\ t # qFree
Inside(d, t, i) == i \in Ring!Collected /\ d \in LinksOf(i) /\ d # EndOf(i) /\ t = qNext[d]
                     /\ t \in LinksOf(i) /\ t # qUsed[i]
AtEnd(d, t, i) == i \in Ring!Collected /\ d = EndOf(i) /\ t = Ring!InFront(i)

\* Each descriptor of the new list leads on in one of these three ways.
LEMMA Leads ==
  ASSUME RingInv
  PROVE  \A d \in Gathered : \/ InOld(d, Ring!Freed[d])
                             \/ \E i \in Ring!Collected : Inside(d, Ring!Freed[d], i)
                             \/ \E i \in Ring!Collected : AtEnd(d, Ring!Freed[d], i)
<1>1. ListWhole(qNext, qFree, Ring!FreeList)   BY DEF RingInv
<1>2. /\ \A i \in Ring!Collected : EndOf(i) \in LinksOf(i) /\ LinksOf(i) \subseteq Ring!Descs
         /\ LinksOf(i) \cap Ring!FreeList = {}
      /\ \A i \in Ring!Collected : \A d \in LinksOf(i) : d # EndOf(i) => qNext[d] \in LinksOf(i)
           /\ qNext[d] # qUsed[i]
      /\ \A i, j \in Ring!Collected : i # j => LinksOf(i) \cap LinksOf(j) = {}
  BY CollectedChains
<1>3. /\ \A i \in Ring!Collected : Ring!Freed[EndOf(i)] = Ring!InFront(i)
      /\ \A d \in Ring!Descs : (\A i \in Ring!Collected : d # EndOf(i)) => Ring!Freed[d] = qNext[d]
  BY FreedAt
<1>4. ASSUME NEW d \in Ring!FreeList PROVE InOld(d, Ring!Freed[d])
  <2>1. d \in Ring!Descs /\ \A i \in Ring!Collected : d # EndOf(i)   BY <1>1, <1>2 DEF ListWhole
  <2>2. Ring!Freed[d] = qNext[d]   BY <1>3, <2>1
  <2> QED BY <1>1, <2>2 DEF InOld, ListWhole
<1>5. ASSUME NEW i \in Ring!Collected, NEW d \in LinksOf(i),
      d # EndOf(i) PROVE Inside(d, Ring!Freed[d], i)
  <2>1. d \in Ring!Descs /\ \A j \in Ring!Collected : d # EndOf(j)   BY <1>2, <1>5
  <2>2. Ring!Freed[d] = qNext[d]   BY <1>3, <2>1
  <2> QED BY <1>2, <1>5, <2>2 DEF Inside
<1>6. ASSUME NEW i \in Ring!Collected, NEW d \in LinksOf(i),
      d = EndOf(i) PROVE AtEnd(d, Ring!Freed[d], i)
  BY <1>3, <1>6 DEF AtEnd
<1> QED BY <1>4, <1>5, <1>6 DEF Gathered

\* Chain i starts where chain i + 1 ends, so that no two ends lead to the same place.
LEMMA EndsApart ==
  ASSUME RingInv, NEW i \in Ring!Collected, NEW j \in Ring!Collected,
         Ring!InFront(i) = Ring!InFront(j),
         Ring!InFront(i) # Ring!End
  PROVE  i = j
<1>1. Len(qUsed) \in Nat /\ qLast \in Nat   BY CollectedChains
<1>2. qFree \in Ring!FreeList \cup {Ring!End}   BY DEF RingInv, ListWhole
<1>3. /\ \A k \in Ring!Collected : qUsed[k] \in LinksOf(k) /\ LinksOf(k) \cap Ring!FreeList = {}
      /\ \A k, l \in Ring!Collected : k # l => LinksOf(k) \cap LinksOf(l) = {}
  BY CollectedChains
<1>4. i - 1 \in Ring!Collected \/ i = qLast + 1   BY <1>1 DEF Ring!Collected
<1>5. j - 1 \in Ring!Collected \/ j = qLast + 1   BY <1>1 DEF Ring!Collected
<1>6. qLast \notin Ring!Collected   BY <1>1 DEF Ring!Collected
<1>7. i \in Nat /\ j \in Nat   BY <1>1 DEF Ring!Collected
<1>8. CASE i - 1 \in Ring!Collected /\ j - 1 \in Ring!Collected
  <2>1. qUsed[i - 1] = qUsed[j - 1]   BY <1>8 DEF Ring!InFront
  <2>2. i - 1 = j - 1   BY <1>3, <1>8, <2>1
  <2> QED BY <1>7, <2>2
<1>9. CASE i - 1 \in Ring!Collected /\ j - 1 \notin Ring!Collected
  <2>1. qUsed[i - 1] = qFree   BY <1>9 DEF Ring!InFront
  <2>2. qFree # Ring!End   BY <1>9 DEF Ring!InFront
  <2> QED BY <1>2, <1>3, <1>9, <2>1, <2>2
<1>10. CASE i - 1 \notin Ring!Collected /\ j - 1 \in Ring!Collected
  <2>1. qUsed[j - 1] = qFree /\ qFree # Ring!End   BY <1>10 DEF Ring!InFront
  <2> QED BY <1>2, <1>3, <1>10, <2>1
<1>11. CASE i - 1 \notin Ring!Collected /\ j - 1 \notin Ring!Collected
  BY <1>4, <1>5, <1>11
<1> QED BY <1>8, <1>9, <1>10, <1>11

\* The links that virtio_wait_for_complete writes make a list of them.
LEMMA GatheredWhole ==
  ASSUME RingInv, Ring!Collected # {}
  PROVE  ListWhole(Ring!Freed, qUsed[Len(qUsed)], Gathered)
<1> DEFINE n == Len(qUsed)
<1>1. ListWhole(qNext, qFree, Ring!FreeList)   BY DEF RingInv
<1>2. Len(qUsed) \in Nat /\ qLast \in Nat   BY CollectedChains
<1>3. /\ \A i \in Ring!Collected : qUsed[i] \in Ring!Descs /\ qUsed[i] \in LinksOf(i)
      /\ \A i \in Ring!Collected : LinksOf(i) \subseteq Ring!Descs
           /\ LinksOf(i) \cap Ring!FreeList = {}
      /\ \A i, j \in Ring!Collected : i # j => LinksOf(i) \cap LinksOf(j) = {}
  BY CollectedChains
<1>4. n \in Ring!Collected /\ \A i \in Ring!Collected : i - 1 # n   BY <1>2 DEF Ring!Collected
<1>5. Gathered \subseteq Ring!Descs /\ qUsed[n] \in Gathered
  BY <1>1, <1>3, <1>4 DEF Gathered, ListWhole
<1>6. \A i \in Ring!Collected : Ring!InFront(i) = qFree
      \/ (i - 1 \in Ring!Collected /\ Ring!InFront(i) = qUsed[i - 1])
  BY DEF Ring!InFront
<1>7. qFree \in Ring!FreeList \cup {Ring!End}   BY <1>1 DEF ListWhole
<1>8. ASSUME NEW d \in Gathered PROVE Ring!Freed[d] \in Gathered \cup {Ring!End}
      /\ Ring!Freed[d] # qUsed[n]
  <2>1. CASE InOld(d, Ring!Freed[d])
    BY <1>3, <1>4, <2>1, NoEnd DEF InOld, Gathered
  <2>2. ASSUME NEW i \in Ring!Collected, Inside(d, Ring!Freed[d], i)
        PROVE  Ring!Freed[d] \in Gathered \cup {Ring!End} /\ Ring!Freed[d] # qUsed[n]
    BY <1>3, <1>4, <2>2 DEF Inside, Gathered
  <2>3. ASSUME NEW i \in Ring!Collected, AtEnd(d, Ring!Freed[d], i)
        PROVE  Ring!Freed[d] \in Gathered \cup {Ring!End} /\ Ring!Freed[d] # qUsed[n]
    <3>1. CASE Ring!InFront(i) = qFree
      BY <1>3, <1>4, <1>7, <2>3, <3>1, NoEnd DEF AtEnd, Gathered
    <3>2. CASE i - 1 \in Ring!Collected /\ Ring!InFront(i) = qUsed[i - 1]
      <4>1. i - 1 # n   BY <1>4
      <4>2. qUsed[i - 1] # qUsed[n]   BY <1>3, <1>4, <3>2, <4>1
      <4> QED BY <1>3, <2>3, <3>2, <4>2 DEF AtEnd, Gathered
    <3> QED BY <1>6, <3>1, <3>2
  <2> QED BY <2>1, <2>2, <2>3, Leads
<1>9. ASSUME NEW d \in Gathered, NEW e \in Gathered, Ring!Freed[d] = Ring!Freed[e],
      Ring!Freed[d] # Ring!End
      PROVE  d = e
  <2> DEFINE t == Ring!Freed[d]
  <2>1. \/ InOld(d, t) \/ (\E i \in Ring!Collected : Inside(d, t, i))
        \/ \E i \in Ring!Collected : AtEnd(d, t, i)
    BY Leads
  <2>2. \/ InOld(e, t) \/ (\E i \in Ring!Collected : Inside(e, t, i))
        \/ \E i \in Ring!Collected : AtEnd(e, t, i)
    BY <1>9, Leads
  <2>3. t # Ring!End   BY <1>9
  <2> HIDE DEF t
  <2>4. \A i \in Ring!Collected : Ring!InFront(i) = t =>
          \/ t = qFree /\ t \in Ring!FreeList
          \/ i - 1 \in Ring!Collected /\ t = qUsed[i - 1]
    BY <1>6, <1>7, <2>3
  <2>5. CASE InOld(d, t) /\ InOld(e, t)   BY <1>1, <2>3, <2>5 DEF InOld, ListWhole
  <2>6. ASSUME NEW i \in Ring!Collected, NEW j \in Ring!Collected, Inside(d, t, i), Inside(e, t, j)
        PROVE  d = e
    <3>1. i = j   BY <1>3, <2>6 DEF Inside
    <3> QED BY <2>6, <3>1, CollectedChains DEF Inside
  <2>7. ASSUME NEW i \in Ring!Collected, NEW j \in Ring!Collected, AtEnd(d, t, i), AtEnd(e, t, j)
        PROVE  d = e
    <3>1. i = j   BY <2>3, <2>7, EndsApart DEF AtEnd
    <3> QED BY <2>7, <3>1 DEF AtEnd
  <2>8. \A x, y, i : InOld(x, t) /\ Inside(y, t, i) => FALSE
    BY <1>3, <2>3 DEF InOld, Inside
  <2>9. \A x, y, i : InOld(x, t) /\ AtEnd(y, t, i) => FALSE
    BY <1>3, <2>3, <2>4 DEF InOld, AtEnd
  <2>10. \A x, y, i, j : Inside(x, t, i) /\ AtEnd(y, t, j) => FALSE
    BY <1>3, <2>3, <2>4 DEF Inside, AtEnd
  <2> QED BY <2>1, <2>2, <2>5, <2>6, <2>7, <2>8, <2>9, <2>10
<1> QED BY <1>5, <1>8, <1>9 DEF ListWhole

\* virtio_wait_for_complete puts the chains that are answered back into the free list.
LEMMA WaitCompleteRing ==
  ASSUME RingSensible, RingInv, NEW p \in Callers, Ring!WaitComplete(p)
  PROVE  RingInv'
<1>1. RingTypes /\ ChainsWhole /\ HeadsApart /\ ListWhole(qNext, qFree, Ring!FreeList)
  BY DEF RingInv
<1>2. /\ qNext' = Ring!Freed /\ qFree' = (IF Ring!Collected = {} THEN qFree ELSE qUsed[Len(qUsed)])
      /\ qLast' = Len(qUsed) /\ UNCHANGED <<qMore, qAvail, qUsed, qFetched, qDevice>>
  BY DEF Ring!WaitComplete
<1>3. Len(qUsed) \in Nat /\ qLast \in Nat   BY CollectedChains
<1>4. qLast' + 1 .. Len(qUsed') = {}   BY <1>2, <1>3
<1>5. HeadsApart'   BY <1>1, <1>2, <1>4 DEF HeadsApart
<1>6. Ring!Pending' \subseteq Ring!Pending   BY <1>2, <1>4 DEF Ring!Pending
<1>7. \A h \in Ring!Pending', i \in Ring!Collected : h # qUsed[i]
  BY <1>1, <1>2, <1>4 DEF Ring!Pending, HeadsApart, Ring!Collected
<1>8. CASE Ring!Collected = {}
  <2>1. \A d \in Ring!Descs : Ring!Freed[d] = qNext[d]   BY <1>8, FreedAt
  <2>2. qNext \in [Ring!Descs -> 0 .. QueueSize]   BY <1>1 DEF RingTypes
  <2>3. qNext' = qNext
    <3>1. qNext' = [d \in Ring!Descs |-> Ring!Freed[d]]   BY <1>2 DEF Ring!Freed
    <3> QED BY <2>1, <2>2, <3>1
  <2>4. RingTypes'   BY <1>1, <1>2, <1>3, <1>8, <2>3 DEF RingTypes
  <2> QED BY <1>2, <1>5, <1>6, <1>8, <2>3, <2>4, DescriptorsKept
<1>9. CASE Ring!Collected # {}
  <2>1. ListWhole(qNext', qFree', Gathered)   BY <1>2, <1>9, GatheredWhole
  <2>2. Ring!FreeList' = ReachedBy(qNext', qFree', Ring!Descs)
    BY DEF Ring!FreeList, Ring!Reached, ReachedBy
  <2>3. ListWhole(qNext', qFree', Ring!FreeList') /\ Ring!FreeList' \subseteq Gathered
    BY <2>1, <2>2, ListReached
  <2>4. ASSUME NEW h \in Ring!Pending'
        PROVE  /\ h \in Ring!Pending /\ h \in Ring!Descs /\ IsChain(qNext', qMore', h)
               /\ Members(qNext', qMore', h) = Members(qNext, qMore, h)
               /\ Members(qNext, qMore, h) \cap Gathered = {}
    <3>1. h \in Ring!Pending   BY <1>6
    <3>2. /\ h \in Ring!Descs /\ IsChain(qNext, qMore, h) /\ qMore \in SUBSET Ring!Descs
          /\ Members(qNext, qMore, h) \cap Ring!FreeList = {}
      BY <1>1, <3>1 DEF ChainsWhole, RingTypes
    <3>3. Members(qNext, qMore, h) \subseteq Ring!Descs   BY <3>2, ChainWalked
    <3>4. \A i \in Ring!Collected : Members(qNext, qMore, h) \cap LinksOf(i) = {}
      BY <1>7, <3>1, CollectedChains
    <3>5. \A i \in Ring!Collected : EndOf(i) \in LinksOf(i)   BY CollectedChains
    <3>6. \A x \in Members(qNext, qMore, h) : qNext'[x] = qNext[x] /\ (x \in qMore' <=> x \in qMore)
      BY <1>2, <3>3, <3>4, <3>5, FreedAt
    <3>7. IsChain(qNext', qMore', h) /\ Members(qNext', qMore', h) = Members(qNext, qMore, h)
      BY <3>2, <3>6, ChainKept
    <3> QED BY <3>1, <3>2, <3>4, <3>7 DEF Gathered
  <2>5. ChainsWhole'
    BY <1>1, <2>3, <2>4 DEF ChainsWhole
  <2>6. RingTypes'
    <3>1. ASSUME NEW d \in Ring!Descs PROVE Ring!Freed[d] \in 0 .. QueueSize
      <4>1. CASE \A i \in Ring!Collected : d # EndOf(i)
        BY <1>1, <4>1, FreedAt DEF RingTypes
      <4>2. ASSUME NEW i \in Ring!Collected, d = EndOf(i) PROVE Ring!Freed[d] \in 0 .. QueueSize
        <5>1. Ring!Freed[d] = Ring!InFront(i)   BY <4>2, FreedAt
        <5>2. \A j \in Ring!Collected : qUsed[j] \in 0 .. QueueSize
          BY CollectedChains DEF Ring!Descs, RingSensible
        <5> QED BY <1>1, <5>1, <5>2 DEF RingTypes, Ring!InFront
      <4> QED BY <4>1, <4>2
    <3>2. qNext' \in [Ring!Descs -> 0 .. QueueSize]
      <4>1. qNext' = [d \in Ring!Descs |-> Ring!Freed[d]]   BY <1>2 DEF Ring!Freed
      <4> QED BY <3>1, <4>1
    <3>3. qFree' \in 0 .. QueueSize
      BY <2>1, NoEnd DEF ListWhole, Ring!Descs, Ring!End, RingSensible
    <3> QED BY <1>1, <1>2, <1>3, <3>2, <3>3 DEF RingTypes
  <2> QED BY <1>5, <2>3, <2>5, <2>6 DEF RingInv
<1> QED BY <1>8, <1>9

\* The free list of virtio_setup_queues.
LEMMA InitRing ==
  ASSUME RingSensible, Ring!Init
  PROVE  RingInv
<1>1. /\ qFree = 1 /\ qNext = [d \in Ring!Descs |-> IF d = QueueSize THEN Ring!End ELSE d + 1]
      /\ qMore = {} /\ qAvail = <<>> /\ qUsed = <<>> /\ qLast = 0 /\ qFetched = 0 /\ qDevice = {}
  BY DEF Ring!Init
<1>2. QueueSize \in Nat \ {0}   BY DEF RingSensible
<1>3. RingTypes   BY <1>1, <1>2 DEF RingTypes, Ring!Descs, Ring!End
<1>4. ListWhole(qNext, qFree, Ring!Descs)
  <2>1. \A d \in Ring!Descs : qNext[d] = IF d = QueueSize THEN 0 ELSE d + 1   BY <1>1 DEF Ring!End
  <2> QED BY <1>1, <1>2, <2>1 DEF ListWhole, Ring!Descs, Ring!End
<1>5. ListWhole(qNext, qFree, Ring!FreeList)
  <2>1. Ring!FreeList = ReachedBy(qNext, qFree, Ring!Descs)   BY ReachedSo DEF Ring!FreeList
  <2> QED BY <1>4, <2>1, ListReached
<1>6. qFetched + 1 .. Len(qAvail) = {} /\ qLast + 1 .. Len(qUsed) = {}
  BY <1>1
<1>7. Ring!Pending = {}   BY <1>1, <1>6 DEF Ring!Pending
<1>8. HeadsApart   BY <1>1, <1>6 DEF HeadsApart
<1> QED BY <1>3, <1>5, <1>7, <1>8 DEF RingInv, ChainsWhole

\* A step that touches neither the rings nor the descriptors.
LEMMA RingStays ==
  ASSUME RingInv, UNCHANGED <<qFree, qNext, qMore, qAvail, qUsed, qLast, qFetched, qDevice>>
  PROVE  RingInv'
<1>1. Ring!FreeList' = Ring!FreeList   BY DEF Ring!FreeList, Ring!Reached
<1>2. Ring!Pending' = Ring!Pending   BY DEF Ring!Pending
<1> QED BY <1>1, <1>2 DEF RingInv, RingTypes, HeadsApart, ChainsWhole

\* Every step keeps the rings, the chains and the free list.
LEMMA RingStep ==
  ASSUME RingSensible, RingInv, RingCallTypes, [Ring!Next]_Ring!virtqueueVars
  PROVE  RingInv'
<1>1. ASSUME NEW p \in Callers, NEW r \in Requests, Ring!Claim(p, r) PROVE RingInv'
  BY <1>1, RingStays DEF Ring!Claim, Ring!ringVars
<1>2. ASSUME NEW p \in Callers, NEW n \in {2, 3}, Ring!SendEx(p, n) PROVE RingInv'
  BY <1>2, SendExRing
<1>3. ASSUME NEW p \in Callers, NEW n \in {2, 3}, Ring!SendFails(p, n) PROVE RingInv'
  BY <1>3, SendFailsRing
<1>4. ASSUME NEW p \in Callers, Ring!Notify(p) PROVE RingInv'
  BY <1>4, RingStays DEF Ring!Notify
<1>5. ASSUME NEW p \in Callers, Ring!TimeOut(p) PROVE RingInv'
  BY <1>5, RingStays DEF Ring!TimeOut, Ring!ringVars
<1>6. ASSUME NEW p \in Callers, Ring!SeesUsed(p) PROVE RingInv'
  BY <1>6, RingStays DEF Ring!SeesUsed, Ring!ringVars
<1>7. ASSUME NEW p \in Callers, Ring!WaitComplete(p) PROVE RingInv'
  BY <1>7, WaitCompleteRing
<1>8. CASE Ring!Fetch   BY <1>8, FetchRing
<1>9. CASE Ring!Complete   BY <1>9, CompleteRing
<1>10. CASE UNCHANGED Ring!virtqueueVars
  BY <1>10, RingStays DEF Ring!virtqueueVars, Ring!ringVars
<1> QED BY <1>1, <1>2, <1>3, <1>4, <1>5, <1>6, <1>7, <1>8, <1>9, <1>10 DEF Ring!Next

\* What the invariant of the ring says of the descriptors.
LEMMA RingOwned ==
  ASSUME RingInv
  PROVE  Ring!DescriptorsOwned
<1>1. ListWhole(qNext, qFree, Ring!FreeList) /\ ChainsWhole /\ qMore \in SUBSET Ring!Descs
  BY DEF RingInv, RingTypes
<1>2. ASSUME NEW h \in Ring!Pending PROVE Ring!Walk(h) = Members(qNext, qMore, h)
  <2>1. IsChain(qNext, qMore, h)   BY <1>1 DEF ChainsWhole
  <2> QED BY <1>1, <2>1, ChainWalked, ReachedSo DEF Ring!Walk
<1> QED BY <1>1, <1>2 DEF Ring!DescriptorsOwned, ListWhole, ChainsWhole

-----------------------------------------------------------------------------
\* The callers' state keeps its types.
LEMMA RingCallStep ==
  ASSUME RingSensible, RingInv, RingCallTypes, [Ring!Next]_Ring!virtqueueVars
  PROVE  RingCallTypes'
<1>1. RingTypes /\ \A d \in Ring!FreeList : d \in Ring!Descs   BY DEF RingInv, ListWhole
<1>2. ASSUME NEW p \in Callers, NEW r \in Requests, Ring!Claim(p, r) PROVE RingCallTypes'
  BY <1>2 DEF Ring!Claim, Ring!ringVars, RingCallTypes, Ring!Goto
<1>3. ASSUME NEW p \in Callers, NEW n \in {2, 3}, Ring!SendEx(p, n) PROVE RingCallTypes'
  <2>1. Ring!Chain(n)[1] = qFree   BY DEF Ring!Chain, Ring!Nth
  <2>2. qFree \in Ring!Descs /\ qFree \in 0 .. QueueSize
    <3>1. qFree # Ring!End   BY <1>3 DEF Ring!SendEx, Ring!Chain, Ring!Nth, Ring!After
    <3> QED BY <1>1, <3>1 DEF RingInv, ListWhole, RingTypes
  <2>3. /\ qAddr' = [qAddr EXCEPT ![qFree] = qSlot[p]] /\ qAvail' = Append(qAvail, qFree)
        /\ qChain' = [qChain EXCEPT ![p] = qFree] /\ qPc' = [qPc EXCEPT ![p] = "sent"]
        /\ UNCHANGED <<qReq, qSlot, qBusy, qBuf, qOwner, qResult>>
    BY <1>3, <2>1 DEF Ring!SendEx, Ring!Goto
  <2>4. Len(qAvail') = Len(qAvail) + 1 /\ Len(qAvail) \in Nat
    BY <1>1, <2>2, <2>3, Appended DEF RingTypes
  <2>5. /\ qPc' \in [Callers -> {"out", "send", "sent", "wait", "collect"}]
        /\ qChain' \in [Callers -> 0 .. QueueSize] /\ qAddr' \in [Ring!Descs -> 0 .. CmdBuffers]
    BY <2>2, <2>3 DEF RingCallTypes
  <2>6. \A x \in Callers : qPc'[x] # "out" => qReq'[x] \in Requests
    <3>1. qPc[p] = "send"   BY <1>3 DEF Ring!SendEx
    <3> QED BY <2>3, <3>1 DEF RingCallTypes
  <2>7. \A x \in Callers : qPc'[x] = "sent" => Len(qAvail') > 0 /\ qChain'[x] \in Ring!Descs
    BY <2>2, <2>3, <2>4 DEF RingCallTypes
  <2> QED BY <2>3, <2>5, <2>6, <2>7 DEF RingCallTypes
<1>4. ASSUME NEW p \in Callers, NEW n \in {2, 3}, Ring!SendFails(p, n) PROVE RingCallTypes'
  BY <1>4 DEF Ring!SendFails, Ring!Leaves, Ring!Goto, RingCallTypes
<1>5. ASSUME NEW p \in Callers, Ring!Notify(p) PROVE RingCallTypes'
  <2>1. Len(qAvail) > 0 /\ qChain[p] \in Ring!Descs /\ Len(qAvail) \in Nat
    BY <1>1, <1>5 DEF Ring!Notify, RingCallTypes, RingTypes
  <2>2. qAvail[Len(qAvail)] \in Ring!Descs   BY <1>1, <2>1 DEF RingTypes
  <2>3. /\ qOwner' = [qOwner EXCEPT ![qChain[p]] = qSlot[p]]
        /\ qPc' = [qPc EXCEPT ![p] = "wait"]
        /\ UNCHANGED <<qReq, qSlot, qChain, qBuf, qAddr, qAvail, qResult>>
    BY <1>5 DEF Ring!Notify, Ring!Goto
  <2>4. qOwner' \in [Ring!Descs -> 0 .. CmdBuffers]   BY <2>1, <2>3 DEF RingCallTypes
  <2>5. qBusy' \subseteq 1 .. CmdBuffers
    <3>1. PICK b \in 0 .. CmdBuffers : qBusy' = (qBusy \cup {b}) \ {0}
      BY <1>5, <2>2, <2>4 DEF Ring!Notify
    <3> QED BY <3>1 DEF RingCallTypes, RingSensible
  <2>6. qPc' \in [Callers -> {"out", "send", "sent", "wait", "collect"}]
    BY <2>3 DEF RingCallTypes
  <2>7. \A x \in Callers : qPc'[x] # "out" => qReq'[x] \in Requests
    <3>1. qPc[p] = "sent"   BY <1>5 DEF Ring!Notify
    <3> QED BY <2>3, <3>1 DEF RingCallTypes
  <2>8. \A x \in Callers : qPc'[x] = "sent" => Len(qAvail') > 0 /\ qChain'[x] \in Ring!Descs
    BY <2>3 DEF RingCallTypes
  <2> QED BY <2>3, <2>4, <2>5, <2>6, <2>7, <2>8 DEF RingCallTypes
<1>6. ASSUME NEW p \in Callers, Ring!TimeOut(p) PROVE RingCallTypes'
  BY <1>6 DEF Ring!TimeOut, Ring!Leaves, Ring!Goto, RingCallTypes, Ring!ringVars
<1>7. ASSUME NEW p \in Callers, Ring!SeesUsed(p) PROVE RingCallTypes'
  BY <1>7 DEF Ring!SeesUsed, Ring!Goto, RingCallTypes, Ring!ringVars
<1>8. ASSUME NEW p \in Callers, Ring!WaitComplete(p) PROVE RingCallTypes'
  BY <1>8 DEF Ring!WaitComplete, Ring!Leaves, Ring!Goto, RingCallTypes
<1>9. CASE Ring!Fetch   BY <1>9 DEF Ring!Fetch, RingCallTypes, Ring!ringVars
<1>10. CASE Ring!Complete   BY <1>10 DEF Ring!Complete, RingCallTypes, Ring!ringVars
<1>11. CASE UNCHANGED Ring!virtqueueVars   BY <1>11 DEF Ring!virtqueueVars, Ring!ringVars,
            RingCallTypes
<1> QED BY <1>2, <1>3, <1>4, <1>5, <1>6, <1>7, <1>8, <1>9, <1>10, <1>11 DEF Ring!Next

\* A command that starts alone finds nothing pending.
LEMMA NothingPending ==
  ASSUME RingInv, Ring!Pending = {}
  PROVE  AllSeen
<1>1. /\ Len(qAvail) \in Nat /\ qFetched \in Nat /\ qFetched <= Len(qAvail)
      /\ Len(qUsed) \in Nat /\ qLast \in Nat /\ qLast <= Len(qUsed)
  BY DEF RingInv, RingTypes
<1>2. ~(qFetched + 1 \in qFetched + 1 .. Len(qAvail)) /\ ~(qLast + 1 \in qLast + 1 .. Len(qUsed))
  BY PendingAt
<1> QED BY <1>1, <1>2, PendingAt DEF AllSeen

\* While one caller is alone no other is in the driver.
LEMMA NoOther ==
  ASSUME AloneInv, NEW p \in Callers, Alone(p), NEW q \in Callers, qPc[q] # "out"
  PROVE  p = q
BY DEF AloneInv, AloneAt

\* A command that is alone starts with nothing pending.
LEMMA AloneClaim ==
  ASSUME RingInv, RingCallTypes, AloneInv, NEW q \in Callers, NEW r \in Requests, Ring!Claim(q, r),
         NEW p \in Callers, Alone(p)'
  PROVE  AloneAt(p)'
<1>1. /\ qPc' = [qPc EXCEPT ![q] = "send"] /\ qReq' = [qReq EXCEPT ![q] = r]
      /\ qMixed' = (IF Ring!Company(q) = {} THEN qMixed ELSE qMixed \cup Ring!Company(q) \cup {r})
      /\ UNCHANGED <<qChain, qFree, qNext, qMore, qAddr, qOwner, qAvail, qLast, qUsed, qFetched,
                     qDevice, qExecuted>>
  BY DEF Ring!Claim, Ring!Goto, Ring!ringVars
<1>2. PICK b \in 1 .. CmdBuffers \ qBusy :
        qBusy' = qBusy \cup {b} /\ qBuf' = [qBuf EXCEPT ![b] = r]
             /\ qSlot' = [qSlot EXCEPT ![q] = b]
  BY DEF Ring!Claim
<1>3. p = q
  <2>1. SUFFICES ASSUME p # q PROVE FALSE   OBVIOUS
  <2>2. qPc[p] # "out" /\ qReq'[p] = qReq[p] /\ qReq[p] \notin qMixed'
    BY <1>1, <2>1 DEF Alone, RingCallTypes
  <2>3. qReq[p] \in Ring!Company(q)   BY <2>1, <2>2 DEF Ring!Company
  <2> QED BY <1>1, <2>2, <2>3
<1>4. qPc'[p] = "send" /\ qReq'[p] = r /\ qSlot'[p] = b /\ qBuf'[b] = r /\ b \in qBusy'
  BY <1>1, <1>2, <1>3 DEF RingCallTypes
<1>5. Ring!Company(q) = {}   BY <1>1, <1>4 DEF Alone
<1>6. \A x \in Callers \ {p} : qPc'[x] = "out"
  <2>1. \A x \in Callers \ {p} : qPc[x] = "out"   BY <1>3, <1>5 DEF Ring!Company
  <2> QED BY <1>1, <1>3, <2>1 DEF RingCallTypes
<1>7. Ring!Pending = {}   BY <1>5 DEF Ring!Company
<1>8. AllSeen'   BY <1>1, <1>7, NothingPending DEF AllSeen
<1> QED BY <1>4, <1>6, <1>8 DEF AloneAt

\* Its own steps: the command is published, and answered only when it is carried out.
LEMMA AloneSend ==
  ASSUME RingSensible, RingInv, RingCallTypes, AloneInv, NEW q \in Callers, NEW n \in {2, 3},
         Ring!SendEx(q, n), NEW p \in Callers, Alone(p)'
  PROVE  AloneAt(p)'
<1>1. /\ qPc[q] = "send" /\ qPc' = [qPc EXCEPT ![q] = "sent"]
      /\ qAddr' = [qAddr EXCEPT ![Ring!Chain(n)[1]] = qSlot[q]]
      /\ qAvail' = Append(qAvail, Ring!Chain(n)[1])
      /\ qChain' = [qChain EXCEPT ![q] = Ring!Chain(n)[1]]
      /\ UNCHANGED <<qReq, qSlot, qBusy, qBuf, qUsed, qLast, qFetched, qDevice, qMixed>>
  BY DEF Ring!SendEx, Ring!Goto
<1>2. Ring!Chain(n)[1] = qFree   BY DEF Ring!Chain, Ring!Nth
<1>3. qFree \in Ring!Descs
  <2>1. qFree # Ring!End   BY DEF Ring!SendEx, Ring!Chain, Ring!Nth, Ring!After
  <2> QED BY <2>1 DEF RingInv, ListWhole
<1>4. Alone(p)   BY <1>1 DEF Alone, RingCallTypes
<1>5. p = q   BY <1>1, <1>4, NoOther
<1>6. AloneAt(p)   BY <1>4 DEF AloneInv
<1>7. qPc'[p] = "sent" /\ qChain'[p] = qFree /\ qAddr'[qFree] = qSlot[p]
  BY <1>1, <1>2, <1>3, <1>5 DEF RingCallTypes
<1>8. /\ Len(qAvail') = Len(qAvail) + 1 /\ Len(qAvail) \in Nat /\ qAvail'[Len(qAvail) + 1] = qFree
  BY <1>1, <1>2, <1>3, Appended DEF RingInv, RingTypes
<1>9. AllSeen   BY <1>1, <1>5, <1>6 DEF AloneAt
<1>10. OnItsWay(qChain[p], qReq[p])'
  BY <1>1, <1>7, <1>8, <1>9 DEF OnItsWay, AllSeen
<1>11. \A x \in Callers \ {p} : qPc'[x] = "out"
  BY <1>1, <1>5, <1>6 DEF AloneAt, RingCallTypes
<1> QED BY <1>1, <1>6, <1>7, <1>10, <1>11 DEF AloneAt

\* Its desc_to_buf entry and the doorbell leave it on its way.
LEMMA AloneNotify ==
  ASSUME RingInv, RingCallTypes, AloneInv, NEW q \in Callers, Ring!Notify(q), NEW p \in Callers,
         Alone(p)'
  PROVE  AloneAt(p)'
<1>1. /\ qPc[q] = "sent" /\ qPc' = [qPc EXCEPT ![q] = "wait"]
         /\ \E b : qBusy' = (qBusy \cup {b}) \ {0}
      /\ UNCHANGED <<qReq, qSlot, qChain, qBuf, qAddr, qAvail, qUsed, qLast, qFetched, qDevice,
                     qExecuted, qMixed>>
  BY DEF Ring!Notify, Ring!Goto
<1>2. Alone(p)   BY <1>1 DEF Alone, RingCallTypes
<1>3. p = q /\ AloneAt(p)   BY <1>1, <1>2, NoOther DEF AloneInv
<1>4. qSlot[p] \in qBusy'   BY <1>1, <1>3 DEF AloneAt, RingCallTypes
<1>5. qPc'[p] = "wait" /\ \A x \in Callers \ {p} : qPc'[x] = "out"
  BY <1>1, <1>3 DEF AloneAt, RingCallTypes
<1>6. OnItsWay(qChain[p], qReq[p]) /\ qAddr[qChain[p]] = qSlot[p]   BY <1>1, <1>3 DEF AloneAt
<1>7. OnItsWay(qChain[p], qReq[p])'   BY <1>1, <1>6 DEF OnItsWay, Answered
<1> QED BY <1>1, <1>3, <1>4, <1>5, <1>6, <1>7 DEF AloneAt

\* Its wait ends only with its own completion.
LEMMA AloneSees ==
  ASSUME RingInv, RingCallTypes, AloneInv, NEW q \in Callers, Ring!SeesUsed(q), NEW p \in Callers,
         Alone(p)'
  PROVE  AloneAt(p)'
<1>1. /\ qPc[q] = "wait" /\ qPc' = [qPc EXCEPT ![q] = "collect"] /\ Len(qUsed) # qLast
      /\ UNCHANGED <<qReq, qSlot, qChain, qBusy, qBuf, qAddr, qAvail, qUsed, qLast, qFetched,
                     qDevice, qExecuted, qMixed>>
  BY DEF Ring!SeesUsed, Ring!NewUsed, Ring!Goto, Ring!ringVars
<1>2. Alone(p)   BY <1>1 DEF Alone, RingCallTypes
<1>3. p = q /\ AloneAt(p)   BY <1>1, <1>2, NoOther DEF AloneInv
<1>4. qPc'[p] = "collect" /\ \A x \in Callers \ {p} : qPc'[x] = "out"
  BY <1>1, <1>3 DEF AloneAt, RingCallTypes
<1>5. OnItsWay(qChain[p], qReq[p]) /\ qAddr[qChain[p]] = qSlot[p]   BY <1>1, <1>3 DEF AloneAt
<1>6. Answered(qReq[p])   BY <1>1, <1>5 DEF OnItsWay
<1>7. OnItsWay(qChain[p], qReq[p])' /\ Answered(qReq[p])'
  BY <1>1, <1>5, <1>6 DEF OnItsWay, Answered
<1> QED BY <1>1, <1>3, <1>4, <1>5, <1>7 DEF AloneAt

\* A caller that returns leaves nobody alone but those who were.
LEMMA AloneLeaves ==
  ASSUME RingCallTypes, AloneInv, NEW q \in Callers, qPc[q] # "out",
         qPc' = [qPc EXCEPT ![q] = "out"],
         qReq' = [qReq EXCEPT ![q] = None], qMixed' = qMixed, NEW p \in Callers, Alone(p)'
  PROVE  FALSE
<1>1. p # q   BY DEF Alone, RingCallTypes
<1>2. Alone(p)   BY <1>1 DEF Alone, RingCallTypes
<1> QED BY <1>1, <1>2, NoOther

\* The device reads the chain of the one command.
LEMMA AloneFetch ==
  ASSUME RingInv, RingCallTypes, AloneInv, Ring!Fetch, NEW p \in Callers, Alone(p)'
  PROVE  AloneAt(p)'
<1>1. /\ qFetched < Len(qAvail) /\ qFetched' = qFetched + 1
      /\ qDevice' = qDevice \cup {<<qAvail[qFetched + 1], qBuf[qAddr[qAvail[qFetched + 1]]]>>}
      /\ UNCHANGED <<qPc, qReq, qSlot, qChain, qBusy, qBuf, qAddr, qAvail, qUsed, qLast,
                     qExecuted, qMixed>>
  BY DEF Ring!Fetch, Ring!ringVars
<1>2. Alone(p) /\ AloneAt(p)   BY <1>1 DEF Alone, AloneInv
<1>3. Len(qAvail) \in Nat /\ qFetched \in Nat   BY DEF RingInv, RingTypes
<1>4. qPc[p] \in {"sent", "wait"}
  <2>1. qPc[p] # "send"   BY <1>1, <1>2, <1>3 DEF AloneAt, AllSeen
  <2>2. qPc[p] # "collect"   BY <1>1, <1>2, <1>3 DEF AloneAt, Answered
  <2> QED BY <1>2, <2>1, <2>2 DEF RingCallTypes, Alone
<1>5. OnItsWay(qChain[p], qReq[p]) /\ qAddr[qChain[p]] = qSlot[p] /\ qBuf[qSlot[p]] = qReq[p]
  BY <1>2, <1>4 DEF AloneAt
<1>6. /\ Len(qAvail) = qFetched + 1 /\ qDevice = {} /\ qLast = Len(qUsed)
      /\ qAvail[Len(qAvail)] = qChain[p]
  BY <1>1, <1>3, <1>5 DEF OnItsWay, Answered
<1>7. qDevice' = {<<qChain[p], qReq[p]>>}   BY <1>1, <1>5, <1>6
<1>8. OnItsWay(qChain[p], qReq[p])'   BY <1>1, <1>3, <1>6, <1>7 DEF OnItsWay
<1> QED BY <1>1, <1>2, <1>4, <1>8 DEF AloneAt

\* The device answers the one command.
LEMMA AloneComplete ==
  ASSUME RingInv, RingCallTypes, AloneInv, Ring!Complete, NEW p \in Callers, Alone(p)'
  PROVE  AloneAt(p)'
<1>1. PICK e \in qDevice : /\ qDevice' = qDevice \ {e} /\ qExecuted' = qExecuted \cup {e[2]}
                           /\ qUsed' = Append(qUsed, e[1])
  BY DEF Ring!Complete
<1>2. UNCHANGED <<qPc, qReq, qSlot, qChain, qBusy, qBuf, qAddr, qAvail, qLast, qFetched, qMixed>>
  BY DEF Ring!Complete, Ring!ringVars
<1>3. Alone(p) /\ AloneAt(p)   BY <1>2 DEF Alone, AloneInv
<1>4. qPc[p] \in {"sent", "wait"}
  <2>1. qPc[p] # "send"   BY <1>1, <1>3 DEF AloneAt, AllSeen
  <2>2. qPc[p] # "collect"   BY <1>1, <1>3 DEF AloneAt, Answered
  <2> QED BY <1>3, <2>1, <2>2 DEF RingCallTypes, Alone
<1>5. OnItsWay(qChain[p], qReq[p]) /\ qAddr[qChain[p]] = qSlot[p]   BY <1>3, <1>4 DEF AloneAt
<1>6. qFetched = Len(qAvail) /\ qDevice = {<<qChain[p], qReq[p]>>} /\ qLast = Len(qUsed)
  BY <1>1, <1>5 DEF OnItsWay, Answered
<1>7. e[2] = qReq[p] /\ qDevice' = {}   BY <1>1, <1>6
<1>8. Len(qUsed') = Len(qUsed) + 1
  BY <1>1, Appended DEF RingInv, RingTypes
<1>9. Answered(qReq[p])'   BY <1>1, <1>2, <1>6, <1>7, <1>8 DEF Answered
<1>10. OnItsWay(qChain[p], qReq[p])'   BY <1>2, <1>5, <1>9 DEF OnItsWay
<1> QED BY <1>2, <1>3, <1>4, <1>5, <1>10 DEF AloneAt

\* A caller that is alone has its command on the way, whatever is done.
LEMMA AloneStep ==
  ASSUME RingSensible, RingInv, RingCallTypes, AloneInv, [Ring!Next]_Ring!virtqueueVars
  PROVE  AloneInv'
<1> SUFFICES ASSUME NEW p \in Callers, Alone(p)' PROVE AloneAt(p)'   BY DEF AloneInv
<1>1. ASSUME NEW q \in Callers, NEW r \in Requests, Ring!Claim(q, r) PROVE AloneAt(p)'
  BY <1>1, AloneClaim
<1>2. ASSUME NEW q \in Callers, NEW n \in {2, 3}, Ring!SendEx(q, n) PROVE AloneAt(p)'
  BY <1>2, AloneSend
<1>3. ASSUME NEW q \in Callers, NEW n \in {2, 3}, Ring!SendFails(q, n) PROVE AloneAt(p)'
  <2>1. /\ qPc[q] # "out" /\ qPc' = [qPc EXCEPT ![q] = "out"] /\ qReq' = [qReq EXCEPT ![q] = None]
        /\ qMixed' = qMixed
    BY <1>3 DEF Ring!SendFails, Ring!Leaves, Ring!Goto
  <2> QED BY <2>1, AloneLeaves
<1>4. ASSUME NEW q \in Callers, Ring!Notify(q) PROVE AloneAt(p)'
  BY <1>4, AloneNotify
<1>5. ASSUME NEW q \in Callers, Ring!TimeOut(q) PROVE AloneAt(p)'
  <2>1. /\ qPc[q] # "out" /\ qPc' = [qPc EXCEPT ![q] = "out"] /\ qReq' = [qReq EXCEPT ![q] = None]
        /\ qMixed' = qMixed
    BY <1>5 DEF Ring!TimeOut, Ring!Leaves, Ring!Goto
  <2> QED BY <2>1, AloneLeaves
<1>6. ASSUME NEW q \in Callers, Ring!SeesUsed(q) PROVE AloneAt(p)'
  BY <1>6, AloneSees
<1>7. ASSUME NEW q \in Callers, Ring!WaitComplete(q) PROVE AloneAt(p)'
  <2>1. /\ qPc[q] # "out" /\ qPc' = [qPc EXCEPT ![q] = "out"] /\ qReq' = [qReq EXCEPT ![q] = None]
        /\ qMixed' = qMixed
    BY <1>7 DEF Ring!WaitComplete, Ring!Leaves, Ring!Goto
  <2> QED BY <2>1, AloneLeaves
<1>8. CASE Ring!Fetch   BY <1>8, AloneFetch
<1>9. CASE Ring!Complete   BY <1>9, AloneComplete
<1>10. CASE UNCHANGED Ring!virtqueueVars
  <2>1. Alone(p) /\ AloneAt(p)   BY <1>10 DEF Alone, AloneInv, Ring!virtqueueVars
  <2> QED BY <1>10, <2>1 DEF AloneAt, AllSeen, OnItsWay, Answered, Ring!virtqueueVars, Ring!ringVars
<1> QED BY <1>1, <1>2, <1>3, <1>4, <1>5, <1>6, <1>7, <1>8, <1>9, <1>10 DEF Ring!Next

\* A command that was alone is answered only after it was carried out.
LEMMA DoneStep ==
  ASSUME RingCallTypes, AloneInv, DoneInv, [Ring!Next]_Ring!virtqueueVars
  PROVE  DoneInv'
<1>1. qExecuted \subseteq qExecuted' /\ qMixed \subseteq qMixed'
  BY DEF Ring!Next, Ring!Claim, Ring!SendEx, Ring!SendFails, Ring!Notify, Ring!TimeOut,
       Ring!SeesUsed, Ring!WaitComplete, Ring!Fetch, Ring!Complete,
         Ring!virtqueueVars
<1>2. \A r \in Requests : qResult'[r] = "done" => \/ qResult[r] = "done"
                                                  \/ \E q \in Callers : Ring!WaitComplete(q)
                                                       /\ r = qReq[q]
  <2>1. ASSUME NEW q \in Callers, NEW a \in {"failed"}, Ring!Leaves(q, a), NEW r \in Requests,
               qResult'[r] = "done"
        PROVE  qResult[r] = "done"
    BY <2>1 DEF Ring!Leaves, RingCallTypes
  <2>2. ASSUME NEW q \in Callers, Ring!WaitComplete(q), NEW r \in Requests, r # qReq[q]
        PROVE  qResult'[r] = qResult[r]
    BY <2>2 DEF Ring!WaitComplete, Ring!Leaves, RingCallTypes
  <2>3. ASSUME NEW q \in Callers, NEW n
        \in {2, 3}, Ring!SendFails(q, n) PROVE Ring!Leaves(q, "failed")
    BY <2>3 DEF Ring!SendFails
  <2>4. ASSUME NEW q \in Callers, Ring!TimeOut(q) PROVE Ring!Leaves(q, "failed")
    BY <2>4 DEF Ring!TimeOut
  <2>5. qResult' = qResult \/ (\E q \in Callers : Ring!WaitComplete(q) \/ Ring!Leaves(q, "failed"))
    BY <2>3, <2>4 DEF Ring!Next, Ring!Claim, Ring!SendEx, Ring!Notify, Ring!SeesUsed, Ring!Fetch,
         Ring!Complete, Ring!virtqueueVars
  <2> QED BY <2>1, <2>2, <2>5
<1>3. ASSUME NEW q \in Callers, Ring!WaitComplete(q), qReq[q] \notin qMixed
      PROVE  qReq[q] \in qExecuted
  BY <1>3 DEF Ring!WaitComplete, AloneInv, Alone, AloneAt, Answered
<1> QED BY <1>1, <1>2, <1>3 DEF DoneInv

\* virtio_setup_queues establishes the invariant.
LEMMA VirtqueueInit ==
  ASSUME RingSensible, Ring!Init
  PROVE  RingInv /\ RingCallTypes /\ AloneInv /\ DoneInv
<1>1. RingInv   BY InitRing
<1>2. RingCallTypes
  <2>1. /\ qPc = [p \in Callers |-> "out"] /\ qReq = [p \in Callers |-> None]
        /\ qSlot = [p \in Callers |-> 0] /\ qChain = qSlot /\ qBusy = {}
        /\ qBuf = [b \in 1 .. CmdBuffers |-> None]
        /\ qAddr = [d \in Ring!Descs |-> 0] /\ qOwner = [d \in Ring!Descs |-> 0]
        /\ qResult = [r \in Requests |-> "new"]
    BY DEF Ring!Init
  <2>2. 0 \in 0 .. CmdBuffers /\ 0 \in 0 .. QueueSize   BY DEF RingSensible
  <2> HIDE DEF Ring!Descs
  <2>3. /\ qSlot \in [Callers -> 0 .. CmdBuffers] /\ qChain \in [Callers -> 0 .. QueueSize]
        /\ qAddr \in [Ring!Descs -> 0 .. CmdBuffers] /\ qOwner \in [Ring!Descs -> 0 .. CmdBuffers]
    BY <2>1, <2>2
  <2>4. /\ qPc \in [Callers -> {"out", "send", "sent", "wait", "collect"}]
        /\ qReq \in [Callers -> Requests \cup {None}]
        /\ qBuf \in [1 .. CmdBuffers -> Requests \cup {None}]
        /\ qResult \in [Requests -> {"new", "failed", "done"}]
    BY <2>1
  <2>5. \A p \in Callers : qPc[p] = "out"   BY <2>1
  <2>6. qBusy \subseteq 1 .. CmdBuffers   BY <2>1
  <2>7. /\ \A p \in Callers : qPc[p] # "out" => qReq[p] \in Requests
        /\ \A p \in Callers : qPc[p] = "sent" => Len(qAvail) > 0 /\ qChain[p] \in Ring!Descs
    BY <2>5
  <2> QED BY Zenon, <2>3, <2>4, <2>6, <2>7 DEF RingCallTypes
<1>3. AloneInv /\ DoneInv   BY DEF Ring!Init, AloneInv, Alone, DoneInv
<1> QED BY <1>1, <1>2, <1>3

VirtqueueInv == RingInv /\ RingCallTypes /\ AloneInv /\ DoneInv

\* The virtqueue keeps its invariant, for any numbers of callers, commands, buffers and
\* descriptors.
THEOREM VirtqueueInductive == RingSensible => (RingSpec => []VirtqueueInv)
<1> SUFFICES ASSUME RingSensible PROVE RingSpec => []VirtqueueInv
  OBVIOUS
<1>1. Ring!Init => VirtqueueInv
  BY VirtqueueInit DEF VirtqueueInv
<1>2. VirtqueueInv /\ [Ring!Next]_Ring!virtqueueVars => VirtqueueInv'
  BY RingStep, RingCallStep, AloneStep, DoneStep DEF VirtqueueInv
<1> QED BY <1>1, <1>2, PTL DEF RingSpec

\* No descriptor is in two chains, or in a chain and the free list, whatever
\* virtio_send_ex, time-outs and the order of the device's answers do.
THEOREM VirtqueueOwned == RingSensible => (RingSpec => []Ring!DescriptorsOwned)
<1>1. VirtqueueInv => Ring!DescriptorsOwned
  BY RingOwned DEF VirtqueueInv
<1> QED BY <1>1, VirtqueueInductive, PTL

\* A command that was alone in the driver is answered only after it was carried out
\* (virtio_submit_sync), and keeps its buffer until then.
THEOREM VirtqueueAnswers == RingSensible => (RingSpec => []Ring!AnsweredAlone)
<1>1. VirtqueueInv => Ring!AnsweredAlone
  BY DEF VirtqueueInv, Ring!AnsweredAlone, AloneInv, Alone, AloneAt, DoneInv
<1> QED BY <1>1, VirtqueueInductive, PTL

-----------------------------------------------------------------------------
(***************************************************************************)
(* The start and the refresh of a VirtIO GPU (VirtioDevice).               *)
(***************************************************************************)

GpuSpec == Gpu!Init /\ [][Gpu!Next]_(Gpu!gpuVars)

\* The types, and the steps each operation goes through.
GpuPhases ==
  /\ gOp \in {"none", "init", "refresh"} /\ gStatus
       \in {"reset", "driver", "features", "ok", "failed"}
  /\ gKnown \in BOOLEAN /\ gValid \in BOOLEAN /\ gActive \in BOOLEAN /\ gQueue \in BOOLEAN
  /\ gAgain \in BOOLEAN
  /\ gOp = "none" => gAt = ""
  /\ gOp = "init" => gAt \in {"map", "reset", "features", "queues", "buffers", "ok", "info"}
  /\ gOp = "refresh" => gAt \in {"features", "queues", "ok", "info"}

\* What is so while a GPU is brought up or refreshed.
GpuInProgress ==
  /\ gValid => gActive
  /\ gOp = "init" => ~gActive /\ ~gAgain /\ (gAt = "map" \/ gKnown)
  /\ gOp = "refresh" => gKnown /\ (gActive => gValid) /\ (gValid => gAt = "features")
  /\ gOp = "refresh" /\ ~gAgain => Gpu!Buffers \cup {Gpu!Map} \subseteq gMem
  /\ gAt \in {"buffers", "ok", "info"} => gQueue /\ {Gpu!Rings, Gpu!Map} \subseteq gMem
  /\ gOp = "init" /\ gAt \in {"ok", "info"} => Gpu!Buffers \subseteq gMem
  /\ gAt = "info" => gStatus = "ok"
  /\ gAt \in {"features", "queues"} /\ ~gValid => ~gQueue
  /\ (gOp = "none" \/ gAt \in {"map", "reset"}) /\ ~gActive /\ gQueue => gStatus = "failed"

\* Together, with the property, it is kept by every step.
GpuInv == GpuPhases /\ GpuInProgress /\ Gpu!UsableMeansMapped

\* A controller just found: nothing is allocated and nothing runs.
LEMMA GpuInit == Gpu!Init => GpuInv
BY DEF Gpu!Init, GpuInv, GpuPhases, GpuInProgress, Gpu!UsableMeansMapped

\* virtio_destroy gives everything up: what it leaves is a device told that it has failed.
LEMMA GpuDestroy == ASSUME GpuInv, gKnown \/ gAt = "map", gOp # "none", Gpu!Destroy PROVE GpuInv'
BY DEF GpuInv, GpuPhases, GpuInProgress, Gpu!UsableMeansMapped, Gpu!Destroy, Gpu!Done,
     Gpu!Buffers, Gpu!Rings, Gpu!Map

\* Every step keeps it.
LEMMA GpuStep == GpuInv /\ [Gpu!Next]_(Gpu!gpuVars) => GpuInv'
<1> SUFFICES ASSUME GpuInv, [Gpu!Next]_(Gpu!gpuVars) PROVE GpuInv'
  OBVIOUS
<1> USE DEF Gpu!At, Gpu!Then, Gpu!Done, Gpu!InUse, Gpu!ResetDone
<1>1. CASE Gpu!Start
  BY <1>1 DEF GpuInv, GpuPhases, GpuInProgress, Gpu!UsableMeansMapped, Gpu!Start
<1>2. CASE Gpu!MapBars
  <2>1. ASSUME Gpu!Fails("map") PROVE GpuInv'
    BY <2>1, GpuDestroy DEF GpuInv, GpuPhases, GpuInProgress, Gpu!Fails
  <2>2. ASSUME Gpu!At("map"), Gpu!Then("reset"), gKnown' = TRUE,
               UNCHANGED <<gValid, gActive, gMem, gStatus, gQueue, gAgain>>
        PROVE  GpuInv'
      <3>1. GpuPhases'   BY <2>2 DEF GpuInv, GpuPhases, GpuInProgress, Gpu!Buffers, Gpu!Rings,
            Gpu!Map
      <3>2. GpuInProgress'   BY <2>2 DEF GpuInv, GpuPhases, GpuInProgress, Gpu!UsableMeansMapped,
            Gpu!Buffers, Gpu!Rings, Gpu!Map
      <3>3. Gpu!UsableMeansMapped'   BY <2>2 DEF GpuInv, GpuPhases, GpuInProgress,
            Gpu!UsableMeansMapped, Gpu!Buffers, Gpu!Rings, Gpu!Map
      <3> QED BY <3>1, <3>2, <3>3 DEF GpuInv
  <2> QED BY <1>2, <2>1, <2>2 DEF Gpu!MapBars
<1>3. CASE Gpu!Reset
  <2>1. ASSUME gOp = "init", Gpu!Fails("reset") PROVE GpuInv'
    BY <2>1, GpuDestroy DEF GpuInv, GpuPhases, GpuInProgress, Gpu!Fails
  <2>2. ASSUME gOp = "init", Gpu!At("reset"), ~Gpu!InUse, Gpu!ResetDone, Gpu!Then("features"),
               UNCHANGED <<gKnown, gValid, gActive, gMem, gAgain>>
        PROVE  GpuInv'
      <3>1. GpuPhases'   BY <2>2 DEF GpuInv, GpuPhases, GpuInProgress, Gpu!Buffers, Gpu!Rings,
            Gpu!Map
      <3>2. GpuInProgress'   BY <2>2 DEF GpuInv, GpuPhases, GpuInProgress, Gpu!UsableMeansMapped,
            Gpu!Buffers, Gpu!Rings, Gpu!Map
      <3>3. Gpu!UsableMeansMapped'   BY <2>2 DEF GpuInv, GpuPhases, GpuInProgress,
            Gpu!UsableMeansMapped, Gpu!Buffers, Gpu!Rings, Gpu!Map
      <3> QED BY <3>1, <3>2, <3>3 DEF GpuInv
  <2> QED BY <1>3, <2>1, <2>2 DEF Gpu!Reset
<1>4. CASE Gpu!Features
  <2>1. ASSUME Gpu!Fails("features") PROVE GpuInv'
    BY <2>1, GpuDestroy DEF GpuInv, GpuPhases, GpuInProgress, Gpu!Fails
  <2>2. ASSUME Gpu!At("features"), ~Gpu!InUse, gStatus' = "features", Gpu!Then("queues"),
               UNCHANGED <<gKnown, gValid, gActive, gMem, gQueue, gAgain>>
        PROVE  GpuInv'
      <3>1. GpuPhases'   BY <2>2 DEF GpuInv, GpuPhases, GpuInProgress, Gpu!Buffers, Gpu!Rings,
            Gpu!Map
      <3>2. GpuInProgress'   BY <2>2 DEF GpuInv, GpuPhases, GpuInProgress, Gpu!UsableMeansMapped,
            Gpu!Buffers, Gpu!Rings, Gpu!Map
      <3>3. Gpu!UsableMeansMapped'   BY <2>2 DEF GpuInv, GpuPhases, GpuInProgress,
            Gpu!UsableMeansMapped, Gpu!Buffers, Gpu!Rings, Gpu!Map
      <3> QED BY <3>1, <3>2, <3>3 DEF GpuInv
  <2> QED BY <1>4, <2>1, <2>2 DEF Gpu!Features
<1>5. CASE Gpu!Queues
  <2>1. ASSUME Gpu!Fails("queues") PROVE GpuInv'
    BY <2>1, GpuDestroy DEF GpuInv, GpuPhases, GpuInProgress, Gpu!Fails
  <2>2. ASSUME Gpu!At("queues"), ~Gpu!InUse, gMem' = gMem \cup {Gpu!Rings, Gpu!Map}, gQueue' = TRUE,
               Gpu!Then(IF gOp = "init" THEN "buffers" ELSE "ok"),
               UNCHANGED <<gKnown, gValid, gActive, gStatus, gAgain>>
        PROVE  GpuInv'
      <3>1. GpuPhases'   BY <2>2 DEF GpuInv, GpuPhases, GpuInProgress, Gpu!Buffers, Gpu!Rings,
            Gpu!Map
      <3>2. GpuInProgress'   BY <2>2 DEF GpuInv, GpuPhases, GpuInProgress, Gpu!UsableMeansMapped,
            Gpu!Buffers, Gpu!Rings, Gpu!Map
      <3>3. Gpu!UsableMeansMapped'   BY <2>2 DEF GpuInv, GpuPhases, GpuInProgress,
            Gpu!UsableMeansMapped, Gpu!Buffers, Gpu!Rings, Gpu!Map
      <3> QED BY <3>1, <3>2, <3>3 DEF GpuInv
  <2> QED BY <1>5, <2>1, <2>2 DEF Gpu!Queues
<1>6. CASE Gpu!SetupBuffers
  <2>1. ASSUME Gpu!Fails("buffers") PROVE GpuInv'
    BY <2>1, GpuDestroy DEF GpuInv, GpuPhases, GpuInProgress, Gpu!Fails
  <2>2. ASSUME Gpu!At("buffers"), ~Gpu!InUse, gMem' = gMem \cup Gpu!Buffers, Gpu!Then("ok"),
               UNCHANGED <<gKnown, gValid, gActive, gStatus, gQueue, gAgain>>
        PROVE  GpuInv'
      <3>1. GpuPhases'   BY <2>2 DEF GpuInv, GpuPhases, GpuInProgress, Gpu!Buffers, Gpu!Rings,
            Gpu!Map
      <3>2. GpuInProgress'   BY <2>2 DEF GpuInv, GpuPhases, GpuInProgress, Gpu!UsableMeansMapped,
            Gpu!Buffers, Gpu!Rings, Gpu!Map
      <3>3. Gpu!UsableMeansMapped'   BY <2>2 DEF GpuInv, GpuPhases, GpuInProgress,
            Gpu!UsableMeansMapped, Gpu!Buffers, Gpu!Rings, Gpu!Map
      <3> QED BY <3>1, <3>2, <3>3 DEF GpuInv
  <2> QED BY <1>6, <2>1, <2>2 DEF Gpu!SetupBuffers
<1>7. CASE Gpu!DriverOk
  <2>1. ASSUME Gpu!Fails("ok") PROVE GpuInv'
    BY <2>1, GpuDestroy DEF GpuInv, GpuPhases, GpuInProgress, Gpu!Fails
  <2>2. ASSUME Gpu!At("ok"), gStatus' = "ok", Gpu!Then("info"),
               UNCHANGED <<gKnown, gValid, gActive, gMem, gQueue, gAgain>>
        PROVE  GpuInv'
      <3>1. GpuPhases'   BY <2>2 DEF GpuInv, GpuPhases, GpuInProgress, Gpu!Buffers, Gpu!Rings,
            Gpu!Map
      <3>2. GpuInProgress'   BY <2>2 DEF GpuInv, GpuPhases, GpuInProgress, Gpu!UsableMeansMapped,
            Gpu!Buffers, Gpu!Rings, Gpu!Map
      <3>3. Gpu!UsableMeansMapped'   BY <2>2 DEF GpuInv, GpuPhases, GpuInProgress,
            Gpu!UsableMeansMapped, Gpu!Buffers, Gpu!Rings, Gpu!Map
      <3> QED BY <3>1, <3>2, <3>3 DEF GpuInv
  <2> QED BY <1>7, <2>1, <2>2 DEF Gpu!DriverOk
<1>8. CASE Gpu!DisplayInfo
  <2>1. ASSUME Gpu!Fails("info") PROVE GpuInv'
    BY <2>1, GpuDestroy DEF GpuInv, GpuPhases, GpuInProgress, Gpu!Fails
  <2>2. ASSUME Gpu!At("info"), gValid' = TRUE, gActive' = TRUE,
               gMem' = gMem \cup {"framebuffer"}, Gpu!Done,
                    UNCHANGED <<gKnown, gStatus, gQueue, gAgain>>
        PROVE  GpuInv'
      <3>1. GpuPhases'   BY <2>2 DEF GpuInv, GpuPhases, GpuInProgress, Gpu!Buffers, Gpu!Rings,
            Gpu!Map
      <3>2. GpuInProgress'   BY <2>2 DEF GpuInv, GpuPhases, GpuInProgress, Gpu!UsableMeansMapped,
            Gpu!Buffers, Gpu!Rings, Gpu!Map
      <3>3. Gpu!UsableMeansMapped'   BY <2>2 DEF GpuInv, GpuPhases, GpuInProgress,
            Gpu!UsableMeansMapped, Gpu!Buffers, Gpu!Rings, Gpu!Map
      <3> QED BY <3>1, <3>2, <3>3 DEF GpuInv
  <2> QED BY <1>8, <2>1, <2>2 DEF Gpu!DisplayInfo
<1>9. CASE Gpu!SwitchOff
  <2>1. ASSUME gOp = "none", gKnown, gValid' = FALSE, gActive' = FALSE, gMem' = Gpu!AfterReset,
        Gpu!ResetDone,
               gAgain' = (gAgain \/ ~gValid), UNCHANGED <<gOp, gAt, gKnown>>
        PROVE  GpuInv'
      <3>1. GpuPhases'   BY <2>1 DEF GpuInv, GpuPhases, GpuInProgress
      <3>2. GpuInProgress'   BY <2>1 DEF GpuInv, GpuPhases, GpuInProgress, Gpu!UsableMeansMapped
      <3>3. Gpu!UsableMeansMapped'   BY <2>1 DEF GpuInv, GpuPhases, GpuInProgress,
            Gpu!UsableMeansMapped
      <3> QED BY <3>1, <3>2, <3>3 DEF GpuInv
  <2>2. ASSUME gOp = "none", gKnown, gValid' = TRUE, gActive' = TRUE, gMem' = Gpu!IfNotReset,
               gAgain' = (gAgain \/ ~gValid), UNCHANGED <<gOp, gAt, gKnown, gStatus, gQueue>>
        PROVE  GpuInv'
      <3>1. GpuPhases'   BY <2>2 DEF GpuInv, GpuPhases, GpuInProgress, Gpu!IfNotReset
      <3>2. GpuInProgress'   BY <2>2 DEF GpuInv, GpuPhases, GpuInProgress, Gpu!UsableMeansMapped,
            Gpu!IfNotReset
      <3>3. Gpu!UsableMeansMapped'   BY <2>2 DEF GpuInv, GpuPhases, GpuInProgress,
            Gpu!UsableMeansMapped, Gpu!IfNotReset
      <3> QED BY <3>1, <3>2, <3>3 DEF GpuInv
  <2> QED BY <1>9, <2>1, <2>2 DEF Gpu!SwitchOff
<1>10. CASE Gpu!RefreshBuffers
    <2>1. GpuPhases'   BY <1>10 DEF GpuInv, GpuPhases, GpuInProgress, Gpu!RefreshBuffers
    <2>2. GpuInProgress'   BY <1>10 DEF GpuInv, GpuPhases, GpuInProgress, Gpu!UsableMeansMapped,
          Gpu!RefreshBuffers
    <2>3. Gpu!UsableMeansMapped'   BY <1>10 DEF GpuInv, GpuPhases, GpuInProgress,
          Gpu!UsableMeansMapped, Gpu!RefreshBuffers
    <2> QED BY <2>1, <2>2, <2>3 DEF GpuInv
<1>11. CASE Gpu!RefreshDevice
  <2>1. ASSUME gOp = "none", gKnown, gValid, gValid' = FALSE, gActive' = FALSE, Gpu!ResetDone,
               gMem' = gMem \ {Gpu!Rings}, gOp' = "refresh", gAt' = "features",
                    UNCHANGED <<gKnown, gAgain>>
        PROVE  GpuInv'
      <3>1. GpuPhases'   BY <2>1 DEF GpuInv, GpuPhases, GpuInProgress, Gpu!Buffers, Gpu!Rings,
            Gpu!Map
      <3>2. GpuInProgress'   BY <2>1 DEF GpuInv, GpuPhases, GpuInProgress, Gpu!UsableMeansMapped,
            Gpu!Buffers, Gpu!Rings, Gpu!Map
      <3>3. Gpu!UsableMeansMapped'   BY <2>1 DEF GpuInv, GpuPhases, GpuInProgress,
            Gpu!UsableMeansMapped, Gpu!Buffers, Gpu!Rings, Gpu!Map
      <3> QED BY <3>1, <3>2, <3>3 DEF GpuInv
  <2>2. ASSUME gOp = "none", gKnown, gValid, UNCHANGED <<gValid, gActive, gStatus, gQueue>>,
               gMem' = gMem \ {Gpu!Rings}, gOp' = "refresh", gAt' = "features",
                    UNCHANGED <<gKnown, gAgain>>
        PROVE  GpuInv'
      <3>1. GpuPhases'   BY <2>2 DEF GpuInv, GpuPhases, GpuInProgress, Gpu!Buffers, Gpu!Rings,
            Gpu!Map
      <3>2. GpuInProgress'   BY <2>2 DEF GpuInv, GpuPhases, GpuInProgress, Gpu!UsableMeansMapped,
            Gpu!Buffers, Gpu!Rings, Gpu!Map
      <3>3. Gpu!UsableMeansMapped'   BY <2>2 DEF GpuInv, GpuPhases, GpuInProgress,
            Gpu!UsableMeansMapped, Gpu!Buffers, Gpu!Rings, Gpu!Map
      <3> QED BY <3>1, <3>2, <3>3 DEF GpuInv
  <2> QED BY <1>11, <2>1, <2>2 DEF Gpu!RefreshDevice
<1>12. CASE UNCHANGED Gpu!gpuVars
  BY <1>12 DEF GpuInv, GpuPhases, GpuInProgress, Gpu!UsableMeansMapped, Gpu!gpuVars
<1> QED BY <1>1, <1>2, <1>3, <1>4, <1>5, <1>6, <1>7, <1>8, <1>9, <1>10, <1>11, <1>12 DEF Gpu!Next

\* Every state of a start, a refresh and a destruction keeps it.
THEOREM GpuInductive == GpuSpec => []GpuInv
BY GpuInit, GpuStep, PTL DEF GpuSpec

\* A GPU that can be used is mapped (UsableMeansMapped).
THEOREM GpuUsable == GpuSpec => []Gpu!UsableMeansMapped
<1>1. GpuInv => Gpu!UsableMeansMapped   BY DEF GpuInv
<1> QED BY <1>1, GpuInductive, PTL

-----------------------------------------------------------------------------
(***************************************************************************)
(* The contexts of pyrion (Pyrion), for any number of slots and of frames. *)
(***************************************************************************)

\* No frame is the value for none.
ContextsSensible == MaxContexts \in Nat /\ None \notin Frames
ContextsSpec == Contexts!Init /\ [][Contexts!Next]_(Contexts!pyrionVars)

\* A context as it may be in slot s.
ContextIn(s) ==
  [id : {0, s}, valid : BOOLEAN, usable : BOOLEAN, device : BOOLEAN,
   viewport : BOOLEAN, stream : {0, 1}, frame : Frames \cup {None},
   res2d : {0, s}, res3d : {0, s}]

\* A context keeps the number of its slot until it is destroyed, and its resources have it.
ContextsTyped ==
  /\ DOMAIN pCtx = Contexts!Slots /\ pCtx = [s \in Contexts!Slots |-> pCtx[s]]
  /\ \A s \in Contexts!Slots : pCtx[s] \in ContextIn(s)
  /\ \A s \in Contexts!Slots : pCtx[s].viewport => pCtx[s].res2d = pCtx[s].id
  /\ pLate \in BOOLEAN

\* A framebuffer is allocated and belongs to one context.
FramesApart ==
  /\ \A s \in Contexts!Slots : pCtx[s].frame # None => pCtx[s].frame \in pLive
  /\ \A s, t \in Contexts!Slots : s # t /\ pCtx[s].frame # None => pCtx[s].frame # pCtx[t].frame

\* What has memory behind it on the host is a context's, and that memory its framebuffer.
IsBacked(r) == r[2] # None /\ r[1][2] # 0
\* A resource is of the context in slot s.
OwnedBy(r, s) == r = <<Contexts!R2d(s), pCtx[s].frame>> /\ pCtx[s].id = s /\ pCtx[s].res2d = s
\* What backs a resource is the frame of the context that has it.
BackingOwned ==
  ~pLate => /\ \A r \in pRes : IsBacked(r) => \E s \in Contexts!Slots : OwnedBy(r, s)
            /\ \A s \in Contexts!Slots : ~pCtx[s].viewport \/ pCtx[s].id = 0 =>
                 \A r \in pRes : r[1] # Contexts!R2d(s)

\* The inductive invariant.
ContextsInv == ContextsTyped /\ FramesApart /\ BackingOwned

\* pyrion_init_virtio: nothing is allocated and the host has nothing.
LEMMA ContextsInit == ContextsSensible /\ Contexts!Init => ContextsInv
<1> SUFFICES ASSUME ContextsSensible, Contexts!Init PROVE ContextsInv
  OBVIOUS
<1>0. /\ DOMAIN pCtx = Contexts!Slots /\ \A s \in Contexts!Slots : pCtx[s] = Contexts!Blank(s)
      /\ pRes = {} /\ pLate = FALSE /\ pCtx = [s \in Contexts!Slots |-> pCtx[s]]
  BY DEF Contexts!Init
<1>1. ContextsTyped
  <2>1. \A s : Contexts!Blank(s) \in ContextIn(s)   BY DEF Contexts!Blank, ContextIn
  <2>2. \A s : ~Contexts!Blank(s).viewport   BY DEF Contexts!Blank
  <2> QED BY <1>0, <2>1, <2>2 DEF ContextsTyped
<1>2. FramesApart   BY <1>0 DEF FramesApart, Contexts!Blank
<1>3. BackingOwned   BY <1>0 DEF BackingOwned
<1> QED BY <1>1, <1>2, <1>3 DEF ContextsInv

\* A step that leaves the numbers, the viewports and the framebuffers alone keeps it.
SameShape(a, b) ==
  /\ a.id = b.id /\ a.frame = b.frame /\ a.res2d = b.res2d /\ a.viewport = b.viewport
\* A step that leaves the frames and the numbers of the contexts as they are keeps it.
LEMMA ContextsAlike ==
  ASSUME ContextsInv, UNCHANGED <<pLive, pRes>>, pLate' \in BOOLEAN, pLate => pLate',
         DOMAIN pCtx' = Contexts!Slots, pCtx' = [s \in Contexts!Slots |-> pCtx'[s]],
         \A s \in Contexts!Slots : pCtx'[s] \in ContextIn(s) /\ SameShape(pCtx'[s], pCtx[s])
  PROVE  ContextsInv'
<1>1. ContextsTyped'   BY DEF ContextsInv, ContextsTyped, SameShape
<1>2. FramesApart'   BY DEF ContextsInv, FramesApart, SameShape
<1>3. BackingOwned'
  <2> SUFFICES ASSUME ~pLate' PROVE BackingOwned'
    BY DEF BackingOwned
  <2>1. \A r, s : s \in Contexts!Slots => (OwnedBy(r, s)' <=> OwnedBy(r, s))
    BY DEF OwnedBy, SameShape
  <2>2. (\A r \in pRes : IsBacked(r) => \E s \in Contexts!Slots : OwnedBy(r, s))'
    BY <2>1 DEF ContextsInv, BackingOwned, IsBacked
  <2>3. (\A s \in Contexts!Slots : ~pCtx[s].viewport \/ pCtx[s].id = 0
                                    => \A r \in pRes : r[1] # Contexts!R2d(s))'
    BY DEF ContextsInv, BackingOwned, SameShape, Contexts!R2d
  <2> QED BY <2>2, <2>3 DEF BackingOwned
<1> QED BY <1>1, <1>2, <1>3 DEF ContextsInv

\* One context is given up: what it had on the host, and its framebuffer.
LEMMA ContextsDestroy ==
  ASSUME ContextsSensible, ContextsInv, NEW s \in Contexts!Slots, NEW done \in BOOLEAN,
         Contexts!DestroyCtx(s, done)
  PROVE  ContextsInv'
<1>0. /\ DOMAIN pCtx' = Contexts!Slots /\ pCtx' = [t \in Contexts!Slots |-> pCtx'[t]]
      /\ pCtx'[s] = Contexts!Blank(0)
      /\ \A t \in Contexts!Slots \ {s} : pCtx'[t] = pCtx[t]
  BY DEF ContextsInv, ContextsTyped, Contexts!DestroyCtx
<1>1. ContextsTyped'
  <2>1. pLate' \in BOOLEAN   BY DEF ContextsInv, ContextsTyped, Contexts!DestroyCtx,
        Contexts!TimesOut
  <2>2. Contexts!Blank(0) \in ContextIn(s)   BY DEF Contexts!Blank, ContextIn
  <2>3. \A t \in Contexts!Slots : pCtx'[t] \in ContextIn(t)
    BY <1>0, <2>2 DEF ContextsInv, ContextsTyped
  <2>4. \A t \in Contexts!Slots : pCtx'[t].viewport => pCtx'[t].res2d = pCtx'[t].id
    BY <1>0 DEF ContextsInv, ContextsTyped, Contexts!Blank
  <2> QED BY <1>0, <2>1, <2>3, <2>4 DEF ContextsTyped
<1>2. FramesApart'
  <2>1. Contexts!Blank(0).frame = None   BY DEF Contexts!Blank
  <2>2. pLive' = pLive \ {pCtx[s].frame}   BY DEF Contexts!DestroyCtx, Contexts!LiveWithout
  <2> QED BY <1>0, <2>1, <2>2 DEF ContextsInv, FramesApart
<1>3. BackingOwned'
  <2> SUFFICES ASSUME ~pLate' PROVE BackingOwned'
    BY DEF BackingOwned
  <2>1. ~pLate /\ pRes' = Contexts!ResWithout(pCtx[s])
    BY DEF Contexts!DestroyCtx, Contexts!TimesOut
  <2>2. pCtx[s].id \in {0, s} /\ pCtx[s].res2d \in {0, s} /\ s \in 1 .. MaxContexts
    BY DEF ContextsInv, ContextsTyped, ContextIn, Contexts!Slots
  <2>3. ASSUME NEW r \in pRes' PROVE r \in pRes /\ r[1] # Contexts!R2d(s)
    <3>1. r \in pRes /\ r[1] \notin Contexts!GivenBack(pCtx[s])
      BY <2>1, <2>3 DEF Contexts!ResWithout
    <3>2. CASE pCtx[s].id = 0 \/ ~pCtx[s].viewport   BY <2>1, <3>1, <3>2 DEF ContextsInv,
               BackingOwned
    <3>3. CASE pCtx[s].id # 0 /\ pCtx[s].viewport
      <4>1. pCtx[s].res2d = s   BY <2>2, <3>3 DEF ContextsInv, ContextsTyped
      <4>2. Contexts!InRange(pCtx[s].res2d)   BY <2>2, <4>1 DEF Contexts!InRange, ContextsSensible
      <4> QED BY <3>1, <4>1, <4>2 DEF Contexts!GivenBack
    <3> QED BY <3>2, <3>3, <3>1
  <2>4. \A r, t : t \in Contexts!Slots \ {s} => (OwnedBy(r, t)' <=> OwnedBy(r, t))
    BY <1>0 DEF OwnedBy
  <2>5. (\A r \in pRes : IsBacked(r) => \E t \in Contexts!Slots : OwnedBy(r, t))'
    <3> SUFFICES ASSUME NEW r \in pRes', IsBacked(r) PROVE \E t \in Contexts!Slots : OwnedBy(r, t)'
      BY DEF IsBacked
    <3>1. PICK t \in Contexts!Slots : OwnedBy(r, t)   BY <2>1, <2>3 DEF ContextsInv, BackingOwned
    <3>2. t # s   BY <2>3, <3>1 DEF OwnedBy
    <3> QED BY <2>4, <3>1, <3>2
  <2>6. ASSUME NEW t \in Contexts!Slots, ~pCtx'[t].viewport \/ pCtx'[t].id = 0, NEW r \in pRes'
        PROVE  r[1] # Contexts!R2d(t)
    BY <1>0, <2>1, <2>3, <2>6 DEF ContextsInv, BackingOwned
  <2> QED BY <2>5, <2>6 DEF BackingOwned, Contexts!R2d
<1> QED BY <1>1, <1>2, <1>3 DEF ContextsInv

\* What an operation that leaves the numbers, the viewport and the framebuffer alone makes of
\* a context.
LEMMA ContextsUpdate ==
  ASSUME NEW s, NEW c \in ContextIn(s), NEW v \in BOOLEAN
  PROVE  LET made == [c EXCEPT !.valid = TRUE, !.usable = FALSE, !.stream = 0]
             taken == [c EXCEPT !.device = v, !.stream = 0]
             unused == [c EXCEPT !.device = FALSE, !.usable = FALSE]
             emptied == [c EXCEPT !.device = FALSE, !.usable = FALSE, !.stream = 0]
         IN \A e \in {made, taken, unused, emptied, [c EXCEPT !.stream = 0],
                       [c EXCEPT !.stream = 1], c} :
              e \in ContextIn(s) /\ SameShape(e, c)
<1>1. LET e == [c EXCEPT !.valid = TRUE, !.usable = FALSE, !.stream = 0]
      IN e \in ContextIn(s) /\ SameShape(e, c)
  BY DEF ContextIn, SameShape
<1>2. LET e == [c EXCEPT !.device = v, !.stream = 0] IN e \in ContextIn(s) /\ SameShape(e, c)
  BY DEF ContextIn, SameShape
<1>3. LET e == [c EXCEPT !.device = FALSE, !.usable = FALSE]
      IN e \in ContextIn(s) /\ SameShape(e, c)
  BY DEF ContextIn, SameShape
<1>4. LET e == [c EXCEPT !.device = FALSE, !.usable = FALSE, !.stream = 0]
      IN e \in ContextIn(s) /\ SameShape(e, c)
  BY DEF ContextIn, SameShape
<1>5. \A k \in {0, 1} : LET e == [c EXCEPT !.stream = k] IN e \in ContextIn(s) /\ SameShape(e, c)
  BY DEF ContextIn, SameShape
<1>6. SameShape(c, c)   BY DEF SameShape
<1> QED BY <1>1, <1>2, <1>3, <1>4, <1>5, <1>6

\* A viewport whose resources are kept: whether it can be drawn on is all that changes.
LEMMA ContextsShow ==
  ASSUME ContextsInv, NEW s \in Contexts!Slots, NEW v \in BOOLEAN,
         pCtx' = [pCtx EXCEPT ![s].usable = v], Contexts!TimesOut(~v), UNCHANGED <<pLive, pRes>>
  PROVE  ContextsInv'
<1>1. DOMAIN pCtx' = Contexts!Slots /\ pCtx' = [t \in Contexts!Slots |-> pCtx'[t]]
      /\ pLate' \in BOOLEAN
  BY DEF ContextsInv, ContextsTyped, Contexts!TimesOut
<1>2. \A t \in Contexts!Slots : pCtx'[t] \in ContextIn(t) /\ SameShape(pCtx'[t], pCtx[t])
  BY DEF ContextsInv, ContextsTyped, ContextIn, SameShape
<1>3. pLate => pLate'   BY DEF Contexts!TimesOut, ContextsInv, ContextsTyped
<1> QED BY <1>1, <1>2, <1>3, ContextsAlike

\* What is left of the host's resources, of the framebuffers and of the context when the
\* resources are made anew.
SlotEmptied(s, c, old, base) ==
  /\ c \in ContextIn(s) /\ c.id = pCtx[s].id /\ ~c.viewport
  /\ old \subseteq pRes /\ (~pLate => \A r \in old : r[1] # Contexts!R2d(s))
  /\ pLive \ {pCtx[s].frame} \subseteq base

\* Deleting the viewport, if it is to be resized, leaves an empty slot.
LEMMA ContextsEmptied ==
  ASSUME ContextsSensible, ContextsInv, NEW s \in Contexts!Slots, NEW resize \in BOOLEAN,
         ~(pCtx[s].viewport /\ ~resize)
  PROVE  SlotEmptied(s, IF pCtx[s].viewport /\ resize THEN Contexts!Deleted(pCtx[s]) ELSE pCtx[s],
                        IF pCtx[s].viewport /\ resize THEN Contexts!ResWithout(pCtx[s]) ELSE pRes,
                        IF pCtx[s].viewport /\ resize THEN Contexts!LiveWithout(pCtx[s]) ELSE pLive)
<1>0. pCtx[s] \in ContextIn(s) /\ s \in 1 .. MaxContexts
  BY DEF ContextsInv, ContextsTyped, Contexts!Slots
<1>1. CASE pCtx[s].viewport /\ resize
  <2>1. /\ Contexts!Deleted(pCtx[s]) \in ContextIn(s) /\ Contexts!Deleted(pCtx[s]).id = pCtx[s].id
        /\ ~Contexts!Deleted(pCtx[s]).viewport
    BY <1>0 DEF Contexts!Deleted, ContextIn
  <2>2. ASSUME ~pLate, NEW r \in Contexts!ResWithout(pCtx[s]) PROVE r[1] # Contexts!R2d(s)
    <3>1. CASE pCtx[s].id = 0   BY <2>2, <3>1 DEF ContextsInv, BackingOwned, Contexts!ResWithout
    <3>2. CASE pCtx[s].id = s
      <4>1. pCtx[s].res2d = s /\ Contexts!InRange(s)
        BY <1>0, <1>1, <3>2 DEF ContextsInv, ContextsTyped, Contexts!InRange, ContextsSensible
      <4> QED BY <2>2, <4>1 DEF Contexts!ResWithout, Contexts!GivenBack
    <3> QED BY <1>0, <3>1, <3>2 DEF ContextIn
  <2> QED BY <1>1, <2>1, <2>2 DEF SlotEmptied, Contexts!ResWithout, Contexts!LiveWithout
<1>2. CASE ~pCtx[s].viewport
  BY <1>0, <1>2 DEF SlotEmptied, ContextsInv, BackingOwned
<1> QED BY <1>1, <1>2

\* What Made adds has no memory behind it, or the new framebuffer.
LEMMA MadeOf ==
  ASSUME NEW c, NEW steps, NEW old, NEW f, NEW r \in Contexts!Made(c, steps, old, f)
  PROVE  \/ r \in old \/ r = <<Contexts!R2d(c.id), None>> \/ r = <<Contexts!R3d(c.id), None>>
         \/ steps = 6 /\ r = <<Contexts!R2d(c.id), f>>
BY DEF Contexts!Made

\* The resources are made anew: the host gets the context's own framebuffer.
LEMMA ContextsMade ==
  ASSUME ContextsSensible, ContextsInv, NEW s \in Contexts!Slots, NEW steps, NEW c, NEW old,
         NEW base,
         SlotEmptied(s, c, old, base), NEW f \in Frames \ base, NEW shown \in BOOLEAN,
         pRes' = Contexts!Made(c, steps, old, f), pLive' = IF steps = 6 THEN base
              \cup {f} ELSE base,
         Contexts!TimesOut(steps # 6 \/ ~shown),
         pCtx' = [pCtx EXCEPT ![s] =
                    [c EXCEPT !.res2d = c.id, !.res3d = c.id, !.usable = steps = 6 /\ shown,
                              !.viewport = steps = 6 /\ shown,
                              !.frame = IF steps = 6 THEN f ELSE None]]
  PROVE  ContextsInv'
<1>0. /\ DOMAIN pCtx' = Contexts!Slots /\ pCtx' = [t \in Contexts!Slots |-> pCtx'[t]]
      /\ \A t \in Contexts!Slots \ {s} : pCtx'[t] = pCtx[t]
      /\ pCtx'[s] = [c EXCEPT !.res2d = c.id, !.res3d = c.id, !.usable = steps = 6 /\ shown,
                              !.viewport = steps = 6 /\ shown,
                              !.frame = IF steps = 6 THEN f ELSE None]
  BY DEF ContextsInv, ContextsTyped
<1>1. c \in ContextIn(s) /\ c.id = pCtx[s].id /\ c.id \in {0, s} /\ s # 0
  BY DEF SlotEmptied, ContextIn, Contexts!Slots, ContextsSensible
<1>2. /\ pCtx'[s] \in ContextIn(s) /\ pCtx'[s].id = c.id /\ pCtx'[s].res2d = c.id
      /\ pCtx'[s].viewport = (steps = 6 /\ shown)
      /\ pCtx'[s].frame = IF steps = 6 THEN f ELSE None
  <2> DEFINE w == steps = 6 /\ shown
             g == IF steps = 6 THEN f ELSE None
  <2>1. w \in BOOLEAN /\ g \in Frames \cup {None}   OBVIOUS
  <2>2. pCtx'[s] = [c EXCEPT !.res2d = c.id, !.res3d = c.id, !.usable = w, !.viewport = w,
                             !.frame = g]
    BY <1>0
  <2> HIDE DEF w, g
  <2>3. LET e == [c EXCEPT !.res2d = c.id, !.res3d = c.id, !.usable = w, !.viewport = w,
                          !.frame = g]
        IN e.id = c.id /\ e.res2d = c.id /\ e.viewport = w /\ e.frame = g
    BY <1>1, <2>1 DEF ContextIn
  <2>4. [c EXCEPT !.res2d = c.id, !.res3d = c.id] \in ContextIn(s)   BY <1>1 DEF ContextIn
  <2>5. \A e \in ContextIn(s) : [e EXCEPT !.usable = w, !.viewport = w] \in ContextIn(s)
    BY <2>1 DEF ContextIn
  <2>6. \A e \in ContextIn(s) : [e EXCEPT !.frame = g] \in ContextIn(s)   BY <2>1 DEF ContextIn
  <2>7. pCtx'[s] \in ContextIn(s)   BY <2>2, <2>4, <2>5, <2>6
  <2> QED BY <2>2, <2>3, <2>7 DEF w, g
<1>3. ContextsTyped'
  <2>1. pLate' \in BOOLEAN   BY DEF ContextsInv, ContextsTyped, Contexts!TimesOut
  <2>2. \A t \in Contexts!Slots : pCtx'[t] \in ContextIn(t)
    BY <1>0, <1>2 DEF ContextsInv, ContextsTyped
  <2>3. \A t \in Contexts!Slots : pCtx'[t].viewport => pCtx'[t].res2d = pCtx'[t].id
    BY <1>0, <1>2 DEF ContextsInv, ContextsTyped
  <2> QED BY <1>0, <2>1, <2>2, <2>3 DEF ContextsTyped
<1>4. FramesApart'
  <2>1. \A t \in Contexts!Slots \ {s} : pCtx[t].frame # None => pCtx[t].frame \in base
    BY DEF ContextsInv, FramesApart, SlotEmptied
  <2>2. f \notin base /\ f # None   BY DEF ContextsSensible
  <2>3. base \subseteq pLive' /\ (steps = 6 => f \in pLive')   OBVIOUS
  <2>4. \A t \in Contexts!Slots : pCtx'[t].frame # None => pCtx'[t].frame \in pLive'
    BY <1>0, <1>2, <2>1, <2>3
  <2>5. \A t, u
        \in Contexts!Slots : t # u /\ pCtx'[t].frame # None => pCtx'[t].frame # pCtx'[u].frame
    BY <1>0, <1>2, <2>1, <2>2 DEF ContextsInv, FramesApart
  <2> QED BY <2>4, <2>5 DEF FramesApart
<1>5. BackingOwned'
  <2> SUFFICES ASSUME ~pLate' PROVE BackingOwned'
    BY DEF BackingOwned
  <2>1. ~pLate /\ steps = 6 /\ shown   BY DEF Contexts!TimesOut, ContextsInv, ContextsTyped
  <2>2. pCtx'[s].viewport /\ pCtx'[s].frame = f   BY <1>2, <2>1
  <2>3. old \subseteq pRes /\ \A r \in old : r[1] # Contexts!R2d(s)   BY <2>1 DEF SlotEmptied
  <2>4. \A r, t : t \in Contexts!Slots \ {s} => (OwnedBy(r, t)' <=> OwnedBy(r, t))
    BY <1>0 DEF OwnedBy
  <2>5. ASSUME NEW r \in pRes', IsBacked(r) PROVE \E t \in Contexts!Slots : OwnedBy(r, t)'
    <3>1. CASE r \in old
      <4>1. PICK t \in Contexts!Slots : OwnedBy(r, t)
        BY <2>1, <2>3, <2>5, <3>1 DEF ContextsInv, BackingOwned
      <4>2. t # s   BY <2>3, <3>1, <4>1 DEF OwnedBy
      <4> QED BY <2>4, <4>1, <4>2
    <3>2. CASE r = <<Contexts!R2d(c.id), None>> \/ r = <<Contexts!R3d(c.id), None>>
      BY <2>5, <3>2 DEF IsBacked
    <3>3. CASE r = <<Contexts!R2d(c.id), f>>
      <4>1. c.id = s   BY <1>1, <2>5, <3>3 DEF IsBacked, Contexts!R2d
      <4> QED BY <1>2, <2>2, <3>3, <4>1 DEF OwnedBy
    <3> QED BY <2>5, <3>1, <3>2, <3>3, MadeOf
  <2>6. ASSUME NEW t \in Contexts!Slots, ~pCtx'[t].viewport \/ pCtx'[t].id = 0, NEW r \in pRes'
        PROVE  r[1] # Contexts!R2d(t)
    <3>1. t # s => ~pCtx[t].viewport \/ pCtx[t].id = 0   BY <1>0, <2>6
    <3>2. t = s => c.id = 0   BY <1>2, <2>2, <2>6
    <3>3. t # 0 /\ c.id # t   BY <1>1, <3>2 DEF Contexts!Slots, ContextsSensible
    <3>4. CASE r \in old   BY <2>1, <2>3, <3>1, <3>4 DEF ContextsInv, BackingOwned
    <3>5. CASE r[1] = Contexts!R2d(c.id) \/ r[1] = Contexts!R3d(c.id)
      BY <3>3, <3>5 DEF Contexts!R2d, Contexts!R3d
    <3> QED BY <2>6, <3>4, <3>5, MadeOf
  <2>7. (\A r \in pRes : IsBacked(r) => \E t \in Contexts!Slots : OwnedBy(r, t))'
    BY <2>5 DEF IsBacked
  <2> QED BY <2>6, <2>7 DEF BackingOwned, Contexts!R2d
<1> QED BY <1>3, <1>4, <1>5 DEF ContextsInv

\* A viewport: kept, or given up and made anew.
LEMMA ContextsViewport ==
  ASSUME ContextsSensible, ContextsInv, NEW s \in Contexts!Slots, NEW steps \in 0 .. 6,
         NEW resize \in BOOLEAN, Contexts!Viewport(s, steps, resize)
  PROVE  ContextsInv'
<1> DEFINE c == IF pCtx[s].viewport /\ resize THEN Contexts!Deleted(pCtx[s]) ELSE pCtx[s]
           old == IF pCtx[s].viewport /\ resize THEN Contexts!ResWithout(pCtx[s]) ELSE pRes
           base == IF pCtx[s].viewport /\ resize THEN Contexts!LiveWithout(pCtx[s]) ELSE pLive
<1>0. pCtx[s] \in ContextIn(s)   BY DEF ContextsInv, ContextsTyped
<1>1. CASE pCtx[s].viewport /\ ~resize
  <2>1. /\ pCtx' = [pCtx EXCEPT ![s].usable = steps = 6] /\ Contexts!TimesOut(~(steps = 6))
        /\ UNCHANGED <<pLive, pRes>>
    BY <1>1 DEF Contexts!Viewport
  <2> QED BY <2>1, ContextsShow
<1>2. CASE ~(pCtx[s].viewport /\ ~resize)
  <2>1. SlotEmptied(s, c, old, base)   BY <1>2, ContextsEmptied
  <2>2. ~c.viewport   BY <2>1 DEF SlotEmptied
  <2>3. \E f \in Frames \ base :
          /\ pRes' = Contexts!Made(c, steps, old, f)
          /\ pLive' = IF steps = 6 THEN base \cup {f} ELSE base
          /\ \E shown \in {TRUE, steps # 6} :
               /\ Contexts!TimesOut(steps # 6 \/ ~shown)
               /\ pCtx' = [pCtx EXCEPT ![s] =
                    [c EXCEPT !.res2d = c.id, !.res3d = c.id, !.usable = steps = 6 /\ shown,
                              !.viewport = steps = 6 /\ shown,
                              !.frame = IF steps = 6 THEN f ELSE None]]
    BY <2>2 DEF Contexts!Viewport
  <2> HIDE DEF c, old, base
  <2>4. PICK f \in Frames \ base, shown \in BOOLEAN :
          /\ pRes' = Contexts!Made(c, steps, old, f)
          /\ pLive' = IF steps = 6 THEN base \cup {f} ELSE base
          /\ Contexts!TimesOut(steps # 6 \/ ~shown)
          /\ pCtx' = [pCtx EXCEPT ![s] =
               [c EXCEPT !.res2d = c.id, !.res3d = c.id, !.usable = steps = 6 /\ shown,
                         !.viewport = steps = 6 /\ shown,
                         !.frame = IF steps = 6 THEN f ELSE None]]
    BY <2>3
  <2> QED BY <2>1, <2>4, ContextsMade
<1> QED BY <1>1, <1>2

\* Every step keeps it.
LEMMA ContextsStep == ContextsSensible /\ ContextsInv
     /\ [Contexts!Next]_(Contexts!pyrionVars) => ContextsInv'
<1> SUFFICES ASSUME ContextsSensible, ContextsInv,
     [Contexts!Next]_(Contexts!pyrionVars) PROVE ContextsInv'
  OBVIOUS
<1>0. /\ DOMAIN pCtx = Contexts!Slots /\ \A s \in Contexts!Slots : pCtx[s] \in ContextIn(s)
      /\ pLate \in BOOLEAN /\ pCtx = [s \in Contexts!Slots |-> pCtx[s]]
  BY DEF ContextsInv, ContextsTyped
<1> DEFINE Alike == /\ DOMAIN pCtx' = Contexts!Slots /\ pCtx' = [s \in Contexts!Slots |-> pCtx'[s]]
                    /\ \A s \in Contexts!Slots : pCtx'[s] \in ContextIn(s)
                         /\ SameShape(pCtx'[s], pCtx[s])
<1>1. UNCHANGED pCtx => Alike   BY <1>0 DEF SameShape
<1>a. ASSUME NEW s \in Contexts!Slots, NEW e, e \in ContextIn(s), SameShape(e, pCtx[s]),
             pCtx' = [pCtx EXCEPT ![s] = e]
      PROVE  Alike
  BY <1>0, <1>a DEF SameShape
<1>b. ASSUME NEW v, v \in BOOLEAN, Contexts!TimesOut(v) PROVE pLate' \in BOOLEAN
      /\ (pLate => pLate')
  BY <1>0, <1>b DEF Contexts!TimesOut
<1>2. ASSUME NEW made \in BOOLEAN, Contexts!CreateCtx(made) PROVE ContextsInv'
  <2>1. CASE UNCHANGED <<pCtx, pLate>>   BY <1>0, <1>1, <1>2, <2>1,
             ContextsAlike DEF Contexts!CreateCtx
  <2>2. CASE /\ pCtx' = [pCtx EXCEPT ![Contexts!FreeSlot].valid = TRUE,
                                     ![Contexts!FreeSlot].usable = FALSE,
                                     ![Contexts!FreeSlot].stream = 0]
             /\ Contexts!TimesOut(~made)
    <3>1. ASSUME Contexts!FreeSlot \in Contexts!Slots PROVE Alike
      <4>0. PICK s \in Contexts!Slots : s = Contexts!FreeSlot   BY <3>1
      <4> DEFINE e == [pCtx[s] EXCEPT !.valid = TRUE, !.usable = FALSE, !.stream = 0]
      <4>1. pCtx' = [pCtx EXCEPT ![s] = e]   BY <1>0, <2>2, <4>0
      <4>2. e \in ContextIn(s) /\ SameShape(e, pCtx[s])   BY <1>0, ContextsUpdate
      <4> HIDE DEF e
      <4> QED BY <1>a, <4>1, <4>2
    <3>2. ASSUME Contexts!FreeSlot \notin Contexts!Slots PROVE Alike
      <4>1. UNCHANGED pCtx   BY <1>0, <2>2, <3>2
      <4> QED BY <1>1, <4>1
    <3> QED BY <1>0, <1>2, <2>2, <3>1, <3>2, ContextsAlike DEF Contexts!CreateCtx, Contexts!TimesOut
  <2> QED BY <1>2, <2>1, <2>2 DEF Contexts!CreateCtx
<1>3. ASSUME NEW s \in Contexts!Slots, Contexts!UseDevice(s) PROVE ContextsInv'
  <2>1. PICK e \in {[pCtx[s] EXCEPT !.device = TRUE, !.stream = 0],
                    [pCtx[s] EXCEPT !.device = FALSE, !.usable = FALSE]} :
          pCtx' = [pCtx EXCEPT ![s] = e]
    BY <1>0, <1>3 DEF Contexts!UseDevice
  <2>2. e \in ContextIn(s) /\ SameShape(e, pCtx[s])   BY <1>0, <2>1, ContextsUpdate
  <2>3. Alike   BY <1>a, <2>1, <2>2
  <2>4. pLate' \in BOOLEAN /\ (pLate => pLate') /\ UNCHANGED <<pLive, pRes>>
    <3>1. UNCHANGED pLate \/ Contexts!TimesOut(TRUE)   BY <1>3 DEF Contexts!UseDevice
    <3>2. UNCHANGED <<pLive, pRes>>   BY <1>3 DEF Contexts!UseDevice
    <3> QED BY <1>0, <1>b, <3>1, <3>2
  <2> QED BY <2>3, <2>4, ContextsAlike
<1>4. ASSUME NEW s \in Contexts!Slots, Contexts!UnuseDevice(s) PROVE ContextsInv'
  <2>1. PICK e \in {[pCtx[s] EXCEPT !.device = FALSE, !.usable = FALSE, !.stream = 0],
                    [pCtx[s] EXCEPT !.device = FALSE, !.usable = FALSE]} :
          pCtx' = [pCtx EXCEPT ![s] = e]
    BY <1>0, <1>4 DEF Contexts!UnuseDevice
  <2>2. e \in ContextIn(s) /\ SameShape(e, pCtx[s])   BY <1>0, <2>1, ContextsUpdate
  <2>3. Alike   BY <1>a, <2>1, <2>2
  <2>4. pLate' \in BOOLEAN /\ (pLate => pLate') /\ UNCHANGED <<pLive, pRes>>
    <3>1. UNCHANGED pLate \/ Contexts!TimesOut(TRUE)   BY <1>4 DEF Contexts!UnuseDevice
    <3>2. UNCHANGED <<pLive, pRes>>   BY <1>4 DEF Contexts!UnuseDevice
    <3> QED BY <1>0, <1>b, <3>1, <3>2
  <2> QED BY <2>3, <2>4, ContextsAlike
<1>5. ASSUME NEW s \in Contexts!Slots, Contexts!Draw(s) PROVE ContextsInv'
  <2>1. PICK e \in {[pCtx[s] EXCEPT !.stream = 1], pCtx[s]} : pCtx' = [pCtx EXCEPT ![s] = e]
    BY <1>0, <1>5 DEF Contexts!Draw
  <2>2. e \in ContextIn(s) /\ SameShape(e, pCtx[s])   BY <1>0, <2>1, ContextsUpdate
  <2>3. Alike   BY <1>a, <2>1, <2>2
  <2> QED BY <1>0, <1>5, <2>3, ContextsAlike DEF Contexts!Draw, Contexts!host
<1>6. ASSUME NEW s \in Contexts!Slots, Contexts!Flush(s) PROVE ContextsInv'
  <2>1. PICK e \in {[pCtx[s] EXCEPT !.stream = 0], pCtx[s]} : pCtx' = [pCtx EXCEPT ![s] = e]
    BY <1>0, <1>6 DEF Contexts!Flush
  <2>2. e \in ContextIn(s) /\ SameShape(e, pCtx[s])   BY <1>0, <2>1, ContextsUpdate
  <2>3. Alike   BY <1>a, <2>1, <2>2
  <2>4. pLate' \in BOOLEAN /\ (pLate => pLate') /\ UNCHANGED <<pLive, pRes>>
    <3>1. UNCHANGED pLate \/ Contexts!TimesOut(TRUE)   BY <1>6 DEF Contexts!Flush
    <3>2. UNCHANGED <<pLive, pRes>>   BY <1>6 DEF Contexts!Flush
    <3> QED BY <1>0, <1>b, <3>1, <3>2
  <2> QED BY <2>3, <2>4, ContextsAlike
<1>7. ASSUME NEW s \in Contexts!Slots, NEW n \in 0 .. 4,
      Contexts!UploadFont(s, n) PROVE ContextsInv'
  BY <1>0, <1>1, <1>7, ContextsAlike DEF Contexts!UploadFont, Contexts!TimesOut
<1>8. ASSUME NEW s \in Contexts!Slots, NEW done \in BOOLEAN,
      Contexts!DestroyFont(s, done) PROVE ContextsInv'
  BY <1>0, <1>1, <1>8, ContextsAlike DEF Contexts!DestroyFont, Contexts!TimesOut
<1>9. CASE UNCHANGED Contexts!pyrionVars   BY <1>0, <1>1, <1>9,
           ContextsAlike DEF Contexts!pyrionVars
<1> QED BY <1>2, <1>3, <1>4, <1>5, <1>6, <1>7, <1>8, <1>9, ContextsViewport,
     ContextsDestroy DEF Contexts!Next

\* The contexts of pyrion and what the host has of them stay whole.
THEOREM ContextsInductive == ContextsSensible => (ContextsSpec => []ContextsInv)
<1> SUFFICES ASSUME ContextsSensible PROVE ContextsSpec => []ContextsInv
  OBVIOUS
<1> QED BY ContextsInit, ContextsStep, PTL DEF ContextsSpec

\* The memory behind a resource is a framebuffer that is still held.
THEOREM ContextsBacked == ContextsSensible => (ContextsSpec => []Contexts!BackingHeld)
<1> SUFFICES ASSUME ContextsSensible PROVE ContextsSpec => []Contexts!BackingHeld
  OBVIOUS
<1>1. ContextsInv => Contexts!BackingHeld
  BY DEF ContextsInv, FramesApart, BackingOwned, Contexts!BackingHeld, IsBacked, OwnedBy
<1> QED BY <1>1, ContextsInductive, PTL

-----------------------------------------------------------------------------
(***************************************************************************)
(* The command stream of a virgl frame (CommandStream), for any room in it *)
(* and any colours. What the stream of the frame paints so far is what the *)
(* picture was changed by since it was sent: each place has the colour of  *)
(* the last command that paints it, under the scissors in force there.     *)
(***************************************************************************)

StreamSpec == Stream!Init /\ [][Stream!Next]_(Stream!streamVars)

\* What a stream consists of.
StreamCommand == {Stream!Scissor(q) : q \in SUBSET Stream!Places}
     \cup {Stream!ClearTo(c) : c \in Frames}
                   \cup {Stream!CopyTo(c) : c \in Frames} \cup {Stream!Blit}

\* The last of the places K of a stream holds v, or there is none and v is what was before.
LastIs(s, K, v, before) ==
  \/ K = {} /\ v = before
  \/ \E k \in K : (\A j \in K : j <= k) /\ s[k].to = v

\* A set of places of a stream is empty or has a last one.
HasLast(K) == K = {} \/ \E k \in K : \A j \in K : j <= k

\* The scissor for command k, and the commands that paint p, from the scissor of the viewport.
ScissorAt(s, k) ==
  IF Stream!Scissors(s, k) = {} THEN Stream!Places ELSE s[Stream!Max(Stream!Scissors(s, k))].to
\* The places of a stream that paint p, from a whole scissor.
Painted(s, p) == {k \in 1 .. Len(s) : \/ s[k].op = "clear" /\ p \in ScissorAt(s, k)
                                      \/ s[k].op = "copy" /\ p = "dot"}

\* Where a scissor was set before a command, one was set last.
Lasts(s) == \A k \in 1 .. Len(s) + 1 : HasLast(Stream!Scissors(s, k))

\* From the scissor of the viewport and the picture old, the stream leaves q and new.
Leaves(s, old, q, new) ==
  /\ Lasts(s)
  /\ LastIs(s, Stream!Scissors(s, Len(s) + 1), q, Stream!Places)
  /\ \A p \in Stream!Places : LastIs(s, Painted(s, p), new[p], old[p])

\* An empty stream leaves everything as it was.
LEMMA NothingLeft == ASSUME NEW old PROVE Leaves(<<>>, old, Stream!Places, old)
BY DEF Leaves, Lasts, LastIs, HasLast, Stream!Scissors, Painted

\* What comes last is the greatest place's.
LEMMA LastTaken ==
  ASSUME NEW s, NEW K \in SUBSET Nat, NEW v, NEW before, LastIs(s, K, v, before)
  PROVE  (IF K = {} THEN before ELSE s[Stream!Max(K)].to) = v
<1>1. CASE K = {}   BY <1>1 DEF LastIs
<1>2. CASE K # {}
  <2>1. PICK k \in K : (\A j \in K : j <= k) /\ s[k].to = v   BY <1>2 DEF LastIs
  <2>2. Stream!Max(K) = k
    <3>1. k \in K /\ \A j \in K : k >= j   BY <2>1
    <3>2. \A x \in K : (\A j \in K : x >= j) => x = k   BY <2>1
    <3> QED BY <3>1, <3>2 DEF Stream!Max
  <2> QED BY <1>2, <2>1, <2>2
<1> QED BY <1>1, <1>2

\* A stream sent again leaves what it left.
LEMMA SentAgain ==
  ASSUME NEW s, NEW old, NEW q, NEW new, Leaves(s, old, q, new) PROVE Leaves(s, new, q, new)
BY DEF Leaves, LastIs

\* The greatest place is one of them.
LEMMA LastThere ==
  ASSUME NEW K \in SUBSET Nat, K # {}, HasLast(K) PROVE Stream!Max(K) \in K
<1>1. PICK k \in K : \A j \in K : j <= k   BY DEF HasLast
<1>2. k \in K /\ \A j \in K : k >= j   BY <1>1
<1> QED BY <1>2 DEF Stream!Max

\* t is s and one more command: the places it adds.
Painting(c, p, q) == \/ c.op = "clear" /\ p \in q
                     \/ c.op = "copy" /\ p = "dot"
\* What a stream with one more command paints.
Lengthened(s, c, t) ==
  /\ t \in Seq(StreamCommand) /\ Len(t) = Len(s) + 1 /\ Len(s) \in Nat
  /\ t[Len(s) + 1] = c /\ \A k \in 1 .. Len(s) : t[k] = s[k]
  /\ \A k \in 1 .. Len(s) + 1 : Stream!Scissors(t, k) = Stream!Scissors(s, k)
  /\ c.op = "scissor" => Stream!Scissors(t, Len(t) + 1) = Stream!Scissors(s, Len(s) + 1)
       \cup {Len(s) + 1}
  /\ c.op # "scissor" => Stream!Scissors(t, Len(t) + 1) = Stream!Scissors(s, Len(s) + 1)
  /\ \A p \in Stream!Places :
       /\ Painting(c, p, ScissorAt(s, Len(s) + 1)) => Painted(t, p) = Painted(s, p)
            \cup {Len(s) + 1}
       /\ ~Painting(c, p, ScissorAt(s, Len(s) + 1)) => Painted(t, p) = Painted(s, p)

\* Nothing is painted by it but by its last command.
LEMMA StreamLonger ==
  ASSUME NEW s \in Seq(StreamCommand), NEW c \in StreamCommand, NEW t, t = Append(s, c), Lasts(s)
  PROVE  Lengthened(s, c, t)
<1>1. /\ t \in Seq(StreamCommand) /\ Len(t) = Len(s) + 1 /\ Len(s) \in Nat
      /\ t[Len(s) + 1] = c /\ \A k \in 1 .. Len(s) : t[k] = s[k]
  OBVIOUS
<1>2. \A k \in 1 .. Len(s) + 1 : Stream!Scissors(t, k) = Stream!Scissors(s, k)
  BY <1>1 DEF Stream!Scissors
<1>3. \A k \in 1 .. Len(s) + 1 : ScissorAt(t, k) = ScissorAt(s, k)
  <2> SUFFICES ASSUME NEW k \in 1 .. Len(s) + 1 PROVE ScissorAt(t, k) = ScissorAt(s, k)
    OBVIOUS
  <2>1. CASE Stream!Scissors(s, k) = {}   BY <1>2, <2>1 DEF ScissorAt
  <2>2. CASE Stream!Scissors(s, k) # {}
    <3>1. Stream!Scissors(s, k) \in SUBSET Nat   BY DEF Stream!Scissors
    <3>2. Stream!Max(Stream!Scissors(s, k)) \in Stream!Scissors(s, k)
      BY <2>2, <3>1, LastThere DEF Lasts
    <3>3. Stream!Max(Stream!Scissors(s, k)) \in 1 .. Len(s)   BY <1>1, <3>2 DEF Stream!Scissors
    <3> QED BY <1>1, <1>2, <2>2, <3>3 DEF ScissorAt
  <2> QED BY <2>1, <2>2
<1>4. /\ c.op = "scissor" => Stream!Scissors(t, Len(t) + 1) = Stream!Scissors(s, Len(s) + 1)
         \cup {Len(s) + 1}
      /\ c.op # "scissor" => Stream!Scissors(t, Len(t) + 1) = Stream!Scissors(s, Len(s) + 1)
  BY <1>1 DEF Stream!Scissors
<1>5. ASSUME NEW p \in Stream!Places
      PROVE  /\ Painting(c, p, ScissorAt(s, Len(s) + 1)) =>
                  Painted(t, p) = Painted(s, p) \cup {Len(s) + 1}
             /\ ~Painting(c, p, ScissorAt(s, Len(s) + 1)) => Painted(t, p) = Painted(s, p)
  <2>1. 1 .. Len(t) = (1 .. Len(s)) \cup {Len(s) + 1}   BY <1>1
  <2>2. ASSUME NEW k \in 1 .. Len(s)
        PROVE  t[k] = s[k] /\ ScissorAt(t, k) = ScissorAt(s, k)
    BY <1>1, <1>3
  <2>3. t[Len(s) + 1] = c /\ ScissorAt(t, Len(s) + 1) = ScissorAt(s, Len(s) + 1)   BY <1>1, <1>3
  <2> QED BY <2>1, <2>2, <2>3 DEF Painted, Painting
<1> QED BY <1>1, <1>2, <1>4, <1>5 DEF Lengthened

\* A set of places below n, and n: the last is n.
LEMMA LastAdded ==
  ASSUME NEW s, NEW t, NEW n \in Nat, NEW K \in SUBSET (1 .. n), NEW L, NEW v, NEW w, NEW before,
         LastIs(s, K, v, before), \A k \in K : t[k] = s[k],
         \/ L = K /\ w = v
         \/ L = K \cup {n + 1} /\ t[n + 1].to = w
  PROVE  LastIs(t, L, w, before)
<1>1. CASE L = K /\ w = v   BY <1>1 DEF LastIs
<1>2. CASE L = K \cup {n + 1} /\ t[n + 1].to = w
  <2>1. \A j \in L : j <= n + 1   BY <1>2
  <2> QED BY <1>2, <2>1 DEF LastIs
<1> QED BY <1>1, <1>2

\* One more command leaves what the host makes of it.
LEMMA OneCommandMore ==
  ASSUME NEW s \in Seq(StreamCommand), NEW c \in StreamCommand, NEW old, NEW q, NEW new,
         Leaves(s, old, q, new), NEW q2, NEW new2,
         q2 = IF c.op = "scissor" THEN c.to ELSE q,
         \A p \in Stream!Places : new2[p] = IF Painting(c, p, q) THEN c.to ELSE new[p]
  PROVE  Append(s, c) \in Seq(StreamCommand) /\ Leaves(Append(s, c), old, q2, new2)
<1> DEFINE t == Append(s, c)
<1>0. Lasts(s)   BY DEF Leaves
<1>a. t = Append(s, c)   OBVIOUS
<1> HIDE DEF t
<1>b. Lengthened(s, c, t)   BY <1>0, <1>a, StreamLonger
<1>1. /\ t \in Seq(StreamCommand) /\ Len(t) = Len(s) + 1 /\ Len(s) \in Nat
      /\ t[Len(s) + 1] = c /\ \A k \in 1 .. Len(s) : t[k] = s[k]
  BY <1>b DEF Lengthened
<1>2. Stream!Scissors(s, Len(s) + 1) \in SUBSET (1 .. Len(s))
  BY <1>1 DEF Stream!Scissors
<1>3. ScissorAt(s, Len(s) + 1) = q
  <2>1. LastIs(s, Stream!Scissors(s, Len(s) + 1), q, Stream!Places)   BY DEF Leaves
  <2>2. Stream!Scissors(s, Len(s) + 1) \in SUBSET Nat   BY <1>1, <1>2
  <2> QED BY <2>1, <2>2, LastTaken DEF ScissorAt
<1>4. LastIs(t, Stream!Scissors(t, Len(t) + 1), q2, Stream!Places)
  <2>1. LastIs(s, Stream!Scissors(s, Len(s) + 1), q, Stream!Places)   BY DEF Leaves
  <2>2. \A k \in Stream!Scissors(s, Len(s) + 1) : t[k] = s[k]   BY <1>1, <1>2
  <2>3. \/ Stream!Scissors(t, Len(t) + 1) = Stream!Scissors(s, Len(s) + 1) /\ q2 = q
        \/ /\ Stream!Scissors(t, Len(t) + 1) = Stream!Scissors(s, Len(s) + 1) \cup {Len(s) + 1}
           /\ t[Len(s) + 1].to = q2
    BY <1>1, <1>b DEF Lengthened
  <2> QED BY <1>1, <1>2, <2>1, <2>2, <2>3, LastAdded
<1>5. ASSUME NEW p \in Stream!Places PROVE LastIs(t, Painted(t, p), new2[p], old[p])
  <2>0. Painted(s, p) \in SUBSET (1 .. Len(s))   BY DEF Painted
  <2>1. LastIs(s, Painted(s, p), new[p], old[p])   BY DEF Leaves
  <2>2. \A k \in Painted(s, p) : t[k] = s[k]   BY <1>1, <2>0
  <2>3. \/ Painted(t, p) = Painted(s, p) /\ new2[p] = new[p]
        \/ Painted(t, p) = Painted(s, p) \cup {Len(s) + 1} /\ t[Len(s) + 1].to = new2[p]
    <3>1. CASE Painting(c, p, q)
      BY <1>1, <1>b, <1>3, <3>1 DEF Lengthened
    <3>2. CASE ~Painting(c, p, q)
      BY <1>1, <1>b, <1>3, <3>2 DEF Lengthened
    <3> QED BY <3>1, <3>2
  <2> QED BY <1>1, <2>0, <2>1, <2>2, <2>3, LastAdded
<1>6. Lasts(t)
  <2> SUFFICES ASSUME NEW k \in 1 .. Len(t) + 1 PROVE HasLast(Stream!Scissors(t, k))
    BY DEF Lasts
  <2>1. CASE k \in 1 .. Len(s) + 1   BY <1>0, <1>b, <2>1 DEF Lengthened, Lasts
  <2>2. CASE k = Len(t) + 1   BY <1>4, <2>2 DEF LastIs, HasLast
  <2> QED BY <1>1, <2>1, <2>2
<1>7. Leaves(t, old, q2, new2)   BY <1>4, <1>5, <1>6 DEF Leaves
<1> QED BY <1>1, <1>7, <1>a

\* The stream and the context are of their types.
StreamTyped ==
  /\ vVirgl \in BOOLEAN /\ vNeeded \in BOOLEAN /\ vDropped \in BOOLEAN /\ vLate \in BOOLEAN
  /\ vStream \in Seq(StreamCommand)
  /\ vPicture \in [Stream!Places -> Frames]

\* Carried out now, the stream leaves the picture; after a flush the host has it.
StreamTrue ==
  /\ vVirgl /\ ~vDropped => vScissor = Stream!Places
       /\ Leaves(vStream, vTarget, Stream!Places, vPicture)
  /\ Stream!ShownMeansDrawn

\* The inductive invariant.
StreamInv == StreamTyped /\ StreamTrue

\* A command has its own fields.
LEMMA CommandFields ==
  /\ \A q \in SUBSET Stream!Places : Stream!Scissor(q).op = "scissor" /\ Stream!Scissor(q).to = q
  /\ \A c : Stream!ClearTo(c).op = "clear" /\ Stream!ClearTo(c).to = c
  /\ \A c : Stream!CopyTo(c).op = "copy" /\ Stream!CopyTo(c).to = c
  /\ Stream!Blit.op = "blit"
BY DEF Stream!Scissor, Stream!ClearTo, Stream!CopyTo, Stream!Blit

\* A usable context: everything is alike.
LEMMA StreamInit == Stream!Init => StreamInv
<1> SUFFICES ASSUME Stream!Init PROVE StreamInv
  OBVIOUS
<1>1. StreamTyped
  <2>1. vStream \in Seq(StreamCommand) /\ vNeeded = TRUE /\ vDropped = FALSE /\ vLate = FALSE
        /\ vVirgl \in BOOLEAN
    BY DEF Stream!Init
  <2>2. vPicture \in [Stream!Places -> Frames]   BY DEF Stream!Init, Stream!All
  <2> QED BY <2>1, <2>2 DEF StreamTyped
<1>2. StreamTrue   BY NothingLeft DEF Stream!Init, StreamTrue, Stream!ShownMeansDrawn
<1> QED BY <1>1, <1>2 DEF StreamInv

\* A buffer with commands that leave q and new, as long as none was dropped.
BufferHolds(b, q, new) ==
  /\ b = [stream |-> b.stream, dropped |-> b.dropped]
  /\ b.dropped \in BOOLEAN /\ b.stream \in Seq(StreamCommand)
  /\ ~b.dropped => ~vDropped /\ Leaves(b.stream, vTarget, q, new)

\* pyrion_push_virgl adds a command, or drops it.
LEMMA Pushes ==
  ASSUME NEW b, NEW q, NEW new, BufferHolds(b, q, new), NEW c \in StreamCommand, NEW q2, NEW new2,
         q2 = IF c.op = "scissor" THEN c.to ELSE q,
         \A p \in Stream!Places : new2[p] = IF Painting(c, p, q) THEN c.to ELSE new[p]
  PROVE  BufferHolds(Stream!Push(b, c), q2, new2)
<1>1. CASE Stream!Room(b.stream, c)
  <2>1. /\ Stream!Push(b, c).stream = Append(b.stream, c) /\ Stream!Push(b, c).dropped = b.dropped
        /\ Stream!Push(b, c) = [stream |-> Append(b.stream, c), dropped |-> b.dropped]
    BY <1>1 DEF Stream!Push, BufferHolds
  <2>2. Append(b.stream, c) \in Seq(StreamCommand)   BY DEF BufferHolds
  <2>3. ~b.dropped => Leaves(Append(b.stream, c), vTarget, q2, new2)
    BY OneCommandMore DEF BufferHolds
  <2> QED BY <2>1, <2>2, <2>3 DEF BufferHolds
<1>2. CASE ~Stream!Room(b.stream, c)
  BY <1>2 DEF Stream!Push, BufferHolds
<1> QED BY <1>1, <1>2

\* Drawing adds to the stream what makes the new picture of the old.
LEMMA StreamDraws ==
  ASSUME StreamInv, NEW after, NEW new \in [Stream!Places -> Frames],
         Stream!Draws(after, new), vVirgl => BufferHolds(after, Stream!Places, new)
  PROVE  StreamInv'
<1>1. StreamTyped'   BY DEF StreamInv, StreamTyped, Stream!Draws, BufferHolds
<1>2. StreamTrue'
  <2>1. Stream!ShownMeansDrawn'   BY DEF Stream!Draws, Stream!ShownMeansDrawn
  <2>2. ASSUME vVirgl', ~vDropped' PROVE vScissor' = Stream!Places
        /\ Leaves(vStream', vTarget', Stream!Places, vPicture')
    <3>1. /\ vVirgl /\ vScissor' = vScissor /\ vTarget' = vTarget /\ vPicture' = new
          /\ vStream' = after.stream /\ ~after.dropped
      BY <2>2 DEF Stream!Draws
    <3>2. ~vDropped /\ Leaves(after.stream, vTarget, Stream!Places, new)   BY <3>1 DEF BufferHolds
    <3>3. vScissor = Stream!Places   BY <3>1, <3>2 DEF StreamInv, StreamTrue
    <3> QED BY <3>1, <3>2, <3>3
  <2> QED BY <2>1, <2>2 DEF StreamTrue, Leaves
<1> QED BY <1>1, <1>2 DEF StreamInv

\* The calls that draw.
LEMMA StreamBuffer ==
  ASSUME StreamInv PROVE vVirgl => BufferHolds(Stream!Buffer, Stream!Places, vPicture)
BY DEF StreamInv, StreamTyped, StreamTrue, BufferHolds, Stream!Buffer

\* A drawing of one command.
LEMMA StreamOne ==
  ASSUME StreamInv, NEW c \in StreamCommand, NEW new \in [Stream!Places -> Frames],
         c.op # "scissor",
         \A p \in Stream!Places :
              new[p] = IF Painting(c, p, Stream!Places) THEN c.to ELSE vPicture[p],
         Stream!Draws(Stream!Push(Stream!Buffer, c), new)
  PROVE  StreamInv'
<1>1. vVirgl => BufferHolds(Stream!Push(Stream!Buffer, c), Stream!Places, new)
  BY StreamBuffer, Pushes
<1> QED BY <1>1, StreamDraws

\* A drawing within a scissor that is put back.
LEMMA StreamScissored ==
  ASSUME StreamInv, NEW c \in Frames, NEW new \in [Stream!Places -> Frames],
         new = [vPicture EXCEPT !["dot"] = c], Stream!Draws(Stream!ScissorPutBack(c), new)
  PROVE  StreamInv'
<1> DEFINE first == Stream!Push(Stream!Buffer, Stream!Scissor({"dot"}))
           second == Stream!Push(first, Stream!ClearTo(c))
           third == Stream!Push(second, Stream!Scissor(Stream!Places))
<1>0. /\ {"dot"} \in SUBSET Stream!Places /\ Stream!Scissor({"dot"}) \in StreamCommand
      /\ Stream!ClearTo(c) \in StreamCommand
      /\ Stream!Scissor(Stream!Places) \in StreamCommand
  BY DEF StreamCommand, Stream!Places
<1>1. vPicture \in [Stream!Places -> Frames]   BY DEF StreamInv, StreamTyped
<1>2. vVirgl => BufferHolds(first, {"dot"}, vPicture)
  <2>1. \A p \in Stream!Places : ~Painting(Stream!Scissor({"dot"}), p, Stream!Places)
    BY <1>0, CommandFields DEF Painting
  <2> QED BY <1>0, <2>1, CommandFields, StreamBuffer, Pushes
<1>3. vVirgl => BufferHolds(second, {"dot"}, new)
  <2>1. \A p \in Stream!Places : Painting(Stream!ClearTo(c), p, {"dot"}) <=> p = "dot"
    BY CommandFields DEF Painting
  <2>2. \A p \in Stream!Places : new[p] = IF p = "dot" THEN c ELSE vPicture[p]   BY <1>1
  <2> HIDE DEF first
  <2> QED BY <1>0, <1>2, <2>1, <2>2, CommandFields, Pushes
<1>4. vVirgl => BufferHolds(third, Stream!Places, new)
  <2>1. \A p \in Stream!Places : ~Painting(Stream!Scissor(Stream!Places), p, {"dot"})
    BY <1>0, CommandFields DEF Painting
  <2> HIDE DEF second
  <2> QED BY <1>0, <1>3, <2>1, CommandFields, Pushes
<1>5. Stream!Draws(third, new)   BY DEF Stream!ScissorPutBack
<1> HIDE DEF third
<1> QED BY <1>4, <1>5, StreamDraws

\* pyrion_flush_virtio: what the host makes of the stream is the picture, once or twice.
LEMMA StreamFlushed == ASSUME StreamInv, Stream!FlushVirgl PROVE StreamInv'
<1> DEFINE b == Stream!Push(Stream!Buffer, Stream!Blit)
           h == Stream!Executed(b.stream)
<1>0. vVirgl /\ vVirgl' /\ vNeeded /\ vPicture' = vPicture /\ vDropped' = b.dropped
  BY DEF Stream!FlushVirgl
<1>1. BufferHolds(b, Stream!Places, vPicture)
  <2>1. Stream!Blit \in StreamCommand /\ \A p
        \in Stream!Places : ~Painting(Stream!Blit, p, Stream!Places)
    BY CommandFields DEF Painting, StreamCommand
  <2> QED BY <1>0, <2>1, CommandFields, StreamBuffer, Pushes
<1>2. vPicture \in [Stream!Places -> Frames]   BY DEF StreamInv, StreamTyped
<1>3. /\ h.scissor = Stream!InForce(b.stream, Len(b.stream) + 1)
      /\ h.target = [p \in Stream!Places |->
                       IF Stream!Paints(b.stream, p) = {} THEN vTarget[p]
                       ELSE b.stream[Stream!Max(Stream!Paints(b.stream, p))].to]
  BY DEF Stream!Executed
<1>4. ASSUME ~b.dropped
      PROVE  /\ vScissor = Stream!Places /\ h.scissor = Stream!Places /\ h.target = vPicture
             /\ Leaves(b.stream, vTarget, Stream!Places, vPicture)
  <2>1. ~vDropped /\ Leaves(b.stream, vTarget, Stream!Places, vPicture)
        /\ b.stream \in Seq(StreamCommand)
    BY <1>1, <1>4 DEF BufferHolds
  <2>2. vScissor = Stream!Places   BY <1>0, <2>1 DEF StreamInv, StreamTrue
  <2> HIDE DEF b
  <2>3. \A k : Stream!InForce(b.stream, k) = ScissorAt(b.stream, k)
    BY <2>2 DEF Stream!InForce, ScissorAt
  <2>4. \A p : Stream!Paints(b.stream, p) = Painted(b.stream, p)
    BY <2>3 DEF Stream!Paints, Painted
  <2>5. h.scissor = Stream!Places
    <3>1. LastIs(b.stream,
                 Stream!Scissors(b.stream, Len(b.stream) + 1), Stream!Places, Stream!Places)
      BY <2>1 DEF Leaves
    <3>2. Stream!Scissors(b.stream, Len(b.stream) + 1) \in SUBSET Nat   BY <2>1 DEF Stream!Scissors
    <3> QED BY <1>3, <2>2, <3>1, <3>2, LastTaken DEF Stream!InForce
  <2>6. ASSUME NEW p \in Stream!Places PROVE h.target[p] = vPicture[p]
    <3>1. LastIs(b.stream, Painted(b.stream, p), vPicture[p], vTarget[p])   BY <2>1 DEF Leaves
    <3>2. Painted(b.stream, p) \in SUBSET Nat   BY <2>1 DEF Painted
    <3> HIDE DEF h
    <3>3. h.target[p] = IF Painted(b.stream, p) = {} THEN vTarget[p]
                        ELSE b.stream[Stream!Max(Painted(b.stream, p))].to
      BY <1>3, <2>4
    <3> QED BY <3>1, <3>2, <3>3, LastTaken
  <2> HIDE DEF h
  <2>7. h.target = vPicture   BY <1>2, <1>3, <2>6
  <2> QED BY <2>1, <2>2, <2>5, <2>7
<1>5. CASE /\ vScissor' = h.scissor /\ vTarget' = h.target /\ vStream' = <<>>
           /\ vNeeded' \in BOOLEAN
  <2>1. StreamTyped'   BY <1>0, <1>1, <1>5 DEF StreamInv, StreamTyped, Stream!FlushVirgl,
        BufferHolds
  <2>2. ~vDropped' => vScissor' = Stream!Places /\ vTarget' = vPicture'   BY <1>0, <1>4, <1>5
  <2>3. ~vDropped' => Leaves(vStream', vTarget', Stream!Places, vPicture')
    BY <1>5, <2>2, NothingLeft
  <2> QED BY <1>0, <2>1, <2>2, <2>3 DEF StreamInv, StreamTrue, Stream!ShownMeansDrawn
<1>6. CASE /\ \/ vScissor' = h.scissor /\ vTarget' = h.target
              \/ UNCHANGED <<vScissor, vTarget>>
           /\ vStream' = b.stream /\ vNeeded' = vNeeded
  <2>1. StreamTyped'   BY <1>0, <1>1, <1>6 DEF StreamInv, StreamTyped, Stream!FlushVirgl,
        BufferHolds
  <2> HIDE DEF h, b
  <2>2. ~vDropped' => vScissor' = Stream!Places /\ (vTarget' = vPicture \/ vTarget' = vTarget)
    BY <1>0, <1>4, <1>6
  <2>3. ~vDropped' => Leaves(vStream', vTarget', Stream!Places, vPicture')
    BY <1>0, <1>4, <1>6, <2>2, SentAgain
  <2> QED BY <1>0, <1>6, <2>1, <2>2, <2>3 DEF StreamInv, StreamTrue, Stream!ShownMeansDrawn
<1> QED BY <1>5, <1>6 DEF Stream!FlushVirgl, Stream!KeepsUnsent

\* Every step keeps it.
LEMMA StreamStep == StreamInv /\ [Stream!Next]_(Stream!streamVars) => StreamInv'
<1> SUFFICES ASSUME StreamInv, [Stream!Next]_(Stream!streamVars) PROVE StreamInv'
  OBVIOUS
<1>0. vPicture \in [Stream!Places -> Frames]   BY DEF StreamInv, StreamTyped
<1>1. ASSUME NEW c \in Frames, Stream!Clear(c) PROVE StreamInv'
  <2>1. Stream!All(c) \in [Stream!Places -> Frames]
        /\ \A p \in Stream!Places : Stream!All(c)[p] = c   BY DEF Stream!All
  <2>2. Stream!ClearTo(c) \in StreamCommand /\ \A p
        \in Stream!Places : Painting(Stream!ClearTo(c), p, Stream!Places)
    BY CommandFields DEF Painting, StreamCommand
  <2> QED BY <1>1, <2>1, <2>2, CommandFields, StreamOne DEF Stream!Clear
<1>2. ASSUME NEW c \in Frames, Stream!Pixel(c) \/ Stream!Rect(c) PROVE StreamInv'
  <2>1. [vPicture EXCEPT !["dot"] = c] \in [Stream!Places -> Frames]   BY <1>0
  <2> QED BY <1>2, <2>1, StreamScissored DEF Stream!Pixel, Stream!Rect
<1>3. ASSUME NEW c \in Frames, Stream!DrawChar(c) PROVE StreamInv'
  <2> DEFINE new == [vPicture EXCEPT !["dot"] = c]
  <2>1. new \in [Stream!Places -> Frames] /\ \A p
        \in Stream!Places : new[p] = IF p = "dot" THEN c ELSE vPicture[p]
    BY <1>0
  <2>2. Stream!CopyTo(c) \in StreamCommand /\ \A p
        \in Stream!Places : Painting(Stream!CopyTo(c), p, Stream!Places) <=> p = "dot"
    BY CommandFields DEF Painting, StreamCommand
  <2>3. Stream!Draws(Stream!Push(Stream!Buffer, Stream!CopyTo(c)), new)
    BY <1>3 DEF Stream!DrawChar
  <2> HIDE DEF new
  <2> QED BY <2>1, <2>2, <2>3, CommandFields, StreamOne
<1>4. CASE Stream!FlushPlain
  <2>1. StreamTyped'   BY <1>4 DEF StreamInv, StreamTyped, Stream!FlushPlain
  <2>2. StreamTrue'   BY <1>4 DEF StreamInv, StreamTrue, Stream!ShownMeansDrawn, Stream!FlushPlain
  <2> QED BY <2>1, <2>2 DEF StreamInv
<1>5. CASE UNCHANGED Stream!streamVars
  <2>1. StreamTyped'   BY <1>5 DEF StreamInv, StreamTyped, Stream!streamVars
  <2>2. StreamTrue'   BY <1>5 DEF StreamInv, StreamTrue, Stream!ShownMeansDrawn, Stream!streamVars
  <2> QED BY <2>1, <2>2 DEF StreamInv
<1> QED BY <1>1, <1>2, <1>3, <1>4, <1>5, StreamFlushed DEF Stream!Next

\* What the stream leaves is what was drawn.
THEOREM StreamInductive == StreamSpec => []StreamInv
BY StreamInit, StreamStep, PTL DEF StreamSpec

\* After a flush that succeeded the host has the picture.
THEOREM StreamShown == StreamSpec => []Stream!ShownMeansDrawn
<1>1. StreamInv => Stream!ShownMeansDrawn   BY DEF StreamInv, StreamTrue
<1> QED BY <1>1, StreamInductive, PTL

-----------------------------------------------------------------------------
(***************************************************************************)
(* The device drivers side by side (MC_Devices): a step of theirs is a     *)
(* step of the one at work and a stutter of each other, so that what is    *)
(* proved about each driver holds of all of them together.                 *)
(***************************************************************************)

DevicesVars ==
  <<driver, nvmeVars, controllerAll, sataAll, ahciAll, usbAll, ringAll, gpuAll, contextsAll,
    streamAll, diskAll, firmwareAll, timeAll>>

\* A behaviour of the drivers is one of the NVMe queue.
LEMMA NvmeWithin == Spec => NvmeSpec
<1>1. Init => NvmeInit   BY DEF Init
<1>2. [Next]_DevicesVars => [NvmeNext]_nvmeVars   BY DEF Next, OthersKeep, DevicesVars
<1> QED BY <1>1, <1>2, PTL DEF Spec, NvmeSpec, DevicesVars

\* And one of each of the others.
LEMMA ControllerWithin == Spec => NvmeSetupSpec
<1>1. Init => Controller!Init   BY DEF Init
<1>2. [Next]_DevicesVars => [Controller!Next]_(Controller!nvmeInitVars)
  BY DEF Next, OthersKeep, DevicesVars, controllerAll, Controller!nvmeInitVars
<1> QED BY <1>1, <1>2, PTL DEF Spec, NvmeSetupSpec, DevicesVars

LEMMA SataWithin == Spec => SataSpec
<1>1. Init => Sata!Init   BY DEF Init
<1>2. [Next]_DevicesVars => [Sata!Next]_(Sata!sataVars)
  BY DEF Next, OthersKeep, DevicesVars, sataAll, Sata!sataVars
<1> QED BY <1>1, <1>2, PTL DEF Spec, SataSpec, DevicesVars

LEMMA AhciWithin == Spec => SataSetupSpec
<1>1. Init => Ahci!Init   BY DEF Init
<1>2. [Next]_DevicesVars => [Ahci!Next]_(Ahci!sataInitVars)
  BY DEF Next, OthersKeep, DevicesVars, ahciAll, Ahci!sataInitVars
<1> QED BY <1>1, <1>2, PTL DEF Spec, SataSetupSpec, DevicesVars

LEMMA UsbWithin == Spec => XhciSpec
<1>1. Init => Usb!Init   BY DEF Init
<1>2. [Next]_DevicesVars => [Usb!Next]_(Usb!xhciVars)
  BY DEF Next, OthersKeep, DevicesVars, usbAll, Usb!xhciVars, Usb!ringVars
<1> QED BY <1>1, <1>2, PTL DEF Spec, XhciSpec, DevicesVars

LEMMA RingWithin == Spec => RingSpec
<1>1. Init => Ring!Init   BY DEF Init
<1>2. [Next]_DevicesVars => [Ring!Next]_(Ring!virtqueueVars)
  BY DEF Next, OthersKeep, DevicesVars, ringAll, Ring!virtqueueVars, Ring!ringVars
<1> QED BY <1>1, <1>2, PTL DEF Spec, RingSpec, DevicesVars

LEMMA DiskWithin == Spec => Disk!Spec
<1>1. Init => Disk!Init   BY DEF Init
<1>2. [Next]_DevicesVars => [Disk!Next]_(Disk!ataVars)
  BY DEF Next, OthersKeep, DevicesVars, diskAll, Disk!ataVars
<1> QED BY <1>1, <1>2, PTL DEF Spec, Disk!Spec, DevicesVars

LEMMA GpuWithin == Spec => GpuSpec
<1>1. Init => Gpu!Init   BY DEF Init
<1>2. [Next]_DevicesVars => [Gpu!Next]_(Gpu!gpuVars)
  BY DEF Next, OthersKeep, DevicesVars, gpuAll, Gpu!gpuVars
<1> QED BY <1>1, <1>2, PTL DEF Spec, GpuSpec, DevicesVars

LEMMA ContextsWithin == Spec => ContextsSpec
<1>1. Init => Contexts!Init   BY DEF Init
<1>2. [Next]_DevicesVars => [Contexts!Next]_(Contexts!pyrionVars)
  BY DEF Next, OthersKeep, DevicesVars, contextsAll, Contexts!pyrionVars
<1> QED BY <1>1, <1>2, PTL DEF Spec, ContextsSpec, DevicesVars

LEMMA StreamWithin == Spec => StreamSpec
<1>1. Init => Stream!Init   BY DEF Init
<1>2. [Next]_DevicesVars => [Stream!Next]_(Stream!streamVars)
  BY DEF Next, OthersKeep, DevicesVars, streamAll, Stream!streamVars
<1> QED BY <1>1, <1>2, PTL DEF Spec, StreamSpec, DevicesVars

LEMMA FirmwareWithin == Spec => FirmwareSpec
<1>1. Init => Firmware!Init   BY DEF Init
<1>2. [Next]_DevicesVars => [Firmware!Next]_(Firmware!acpiVars)
  BY DEF Next, OthersKeep, DevicesVars, firmwareAll, Firmware!acpiVars
<1> QED BY <1>1, <1>2, PTL DEF Spec, FirmwareSpec, DevicesVars

LEMMA TimeWithin == Spec => Time!Spec
<1>1. Init => Time!Init   BY DEF Init
<1>2. [Next]_DevicesVars => [Time!Next]_(Time!clockVars)
  BY DEF Next, OthersKeep, DevicesVars, timeAll, Time!clockVars
<1> QED BY <1>1, <1>2, PTL DEF Spec, Time!Spec, DevicesVars

-----------------------------------------------------------------------------
(* The properties of MC_Devices. *)

\* No two commands of an NVMe queue have the same CID (nvme_queue_cmd).
THEOREM DevicesCids == Spec => []OutstandingCids
BY NvmeWithin, CidsOutstanding, PTL

\* What the NVMe and xHCI drivers hand over is what their devices see.
THEOREM DevicesSee == XhciSensible => (Spec => []NothingUnseen)
<1> SUFFICES ASSUME XhciSensible PROVE Spec => []NothingUnseen
  OBVIOUS
<1>1. NothingOverlooked /\ Usb!SentIsVisible => NothingUnseen   BY DEF NothingUnseen
<1>2. XhciSpec => []Usb!SentIsVisible   BY XhciSentVisible
<1> QED BY <1>1, <1>2, NvmeWithin, UsbWithin, AnnouncedIsSeen, PTL

\* A storage controller in the table has all its structures, and one that failed to start has
\* left none behind.
THEOREM DevicesWhole ==
  MaxNamespaces \in Nat \ {0} /\ Ports \in Nat => (Spec => []StructuresWhole)
<1> SUFFICES ASSUME MaxNamespaces \in Nat \ {0}, Ports \in Nat PROVE Spec => []StructuresWhole
  OBVIOUS
<1>1. Controller!ControllersWhole /\ Ahci!PortsWhole => StructuresWhole
  BY DEF StructuresWhole
<1>2. NvmeSetupSpec => []Controller!ControllersWhole   BY NvmeControllersWhole
<1>3. SataSetupSpec => []Ahci!PortsWhole   BY SataPortsWhole
<1> QED BY <1>1, <1>2, <1>3, ControllerWithin, AhciWithin, PTL

\* While a SATA engine or the xHCI controller runs, what it reaches is held.
THEOREM DevicesHeld ==
  SataSensible /\ Ports \in Nat /\ XhciSensible => (Spec => []HeldWhileRunning)
<1> SUFFICES ASSUME SataSensible, Ports \in Nat, XhciSensible PROVE Spec => []HeldWhileRunning
  OBVIOUS
<1>1. Sata!DmaIntoLive /\ Ahci!EngineOverHeld /\ Usb!HeldWhileRunning => HeldWhileRunning
  BY DEF HeldWhileRunning
<1>2. SataSpec => []Sata!DmaIntoLive   BY SataBuffersLive
<1>3. SataSetupSpec => []Ahci!EngineOverHeld   BY SataEnginesHeld
<1>4. XhciSpec => []Usb!HeldWhileRunning   BY XhciHeld
<1> QED BY <1>1, <1>2, <1>3, <1>4, SataWithin, AhciWithin, UsbWithin, PTL

\* sata_exec reports success only for what the disk has executed.
THEOREM DevicesExecuted == SataSensible => (Spec => []SuccessMeansExecuted)
<1> SUFFICES ASSUME SataSensible PROVE Spec => []SuccessMeansExecuted
  OBVIOUS
<1>1. Sata!SuccessMeansExecuted => SuccessMeansExecuted   BY DEF SuccessMeansExecuted
<1>2. SataSpec => []Sata!SuccessMeansExecuted   BY SataAnswersTrue
<1> QED BY <1>1, <1>2, SataWithin, PTL

\* A PIO transfer that succeeds is the one asked for (io.c).
THEOREM DevicesTransfer == AtaSensible => (Spec => []AtaTrue)
<1> SUFFICES ASSUME AtaSensible PROVE Spec => []AtaTrue
  OBVIOUS
<1>1. Disk!AtaTrue => AtaTrue   BY DEF AtaTrue
<1>2. Disk!Spec => []Disk!AtaTrue   BY AtaAnswersTrue
<1> QED BY <1>1, <1>2, DiskWithin, PTL

\* An answer of xHCI or VirtIO GPU is about the command it is taken for.
THEOREM DevicesAnswer == XhciSensible /\ RingSensible => (Spec => []AnswerIsOwn)
<1> SUFFICES ASSUME XhciSensible, RingSensible PROVE Spec => []AnswerIsOwn
  OBVIOUS
<1>1. Usb!AnswerIsOwn /\ Ring!AnsweredAlone => AnswerIsOwn   BY DEF AnswerIsOwn
<1>2. XhciSpec => []Usb!AnswerIsOwn   BY XhciAnswers
<1>3. RingSpec => []Ring!AnsweredAlone   BY VirtqueueAnswers
<1> QED BY <1>1, <1>2, <1>3, UsbWithin, RingWithin, PTL

\* A descriptor of the virtqueue is free or in one chain.
THEOREM DevicesDescriptors == RingSensible => (Spec => []DescriptorsOwned)
<1> SUFFICES ASSUME RingSensible PROVE Spec => []DescriptorsOwned
  OBVIOUS
<1>1. Ring!DescriptorsOwned => DescriptorsOwned   BY DEF DescriptorsOwned
<1>2. RingSpec => []Ring!DescriptorsOwned   BY VirtqueueOwned
<1> QED BY <1>1, <1>2, RingWithin, PTL

\* What can be drawn on is mapped, attached and held: by VirtIO GPU and by pyrion.
THEOREM DevicesUsable == ContextsSensible => (Spec => []UsableMeansHeld)
<1> SUFFICES ASSUME ContextsSensible PROVE Spec => []UsableMeansHeld
  OBVIOUS
<1>1. Gpu!UsableMeansMapped /\ Contexts!BackingHeld => UsableMeansHeld   BY DEF UsableMeansHeld
<1>2. GpuSpec => []Gpu!UsableMeansMapped   BY GpuUsable
<1>3. ContextsSpec => []Contexts!BackingHeld   BY ContextsBacked
<1> QED BY <1>1, <1>2, <1>3, GpuWithin, ContextsWithin, PTL

\* After a flush the screen shows the last picture drawn (virtio.c 1600-1668).
THEOREM DevicesShown == Spec => []ShownMeansDrawn
<1>1. Stream!ShownMeansDrawn => ShownMeansDrawn   BY DEF ShownMeansDrawn
<1> QED BY <1>1, StreamWithin, StreamShown, PTL

\* The tables found are the firmware's, and a delay lasts as long as asked (acpi.c).
THEOREM DevicesTables == FirmwareSensible => (Spec => []TablesTrue)
<1> SUFFICES ASSUME FirmwareSensible PROVE Spec => []TablesTrue
  OBVIOUS
<1>1. Firmware!TablesTrue => TablesTrue   BY DEF TablesTrue
<1>2. FirmwareSpec => []Firmware!TablesTrue   BY FirmwareTrue
<1> QED BY <1>1, <1>2, FirmwareWithin, PTL

\* The time stamp of ktimer_calibrate is the time there was (kfuncs.c).
THEOREM DevicesClock == ClockSensible => (Spec => []ClockRight)
<1> SUFFICES ASSUME ClockSensible PROVE Spec => []ClockRight
  OBVIOUS
<1>1. Time!ClockRight => ClockRight   BY DEF ClockRight
<1>2. Time!Spec => []Time!ClockRight   BY ClockTrue
<1> QED BY <1>1, <1>2, TimeWithin, PTL
==============================================================================
