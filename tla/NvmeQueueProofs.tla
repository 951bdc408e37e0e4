--------------------------- MODULE NvmeQueueProofs ---------------------------
(***************************************************************************)
(* Proofs about NvmeQueue, for both queue pairs, rings of any length from  *)
(* two entries on, and any set of commands; and, at the end, about         *)
(* NvmeController.                                                         *)
(***************************************************************************)
EXTENDS NvmeQueue, FiniteSetTheorems, SequenceTheorems, TLAPS

(***************************************************************************)
(* The doorbells: the device is told of the driver's head at once, and of  *)
(* its tail except between a send and its notification, when the last entry*)
(* is one that the device cannot have fetched.                             *)
(***************************************************************************)
DoorbellsRung ==
  /\ cqDb = head
  /\ IF cur # None /\ ~sent THEN After(sqDb) = tail /\ Unfetched # {} ELSE sqDb = tail

(***************************************************************************)
(* The phase tags: the entries below the device's place carry its phase,   *)
(* the others that of its last time around; the driver expects the phase of*)
(* the entries that it has not read.                                       *)
(***************************************************************************)
PhaseTags ==
  /\ phase = IF head <= dTail THEN dPhase ELSE 1 - dPhase
  /\ \A i \in Slots :
       IF i < dTail THEN cq[i] # None /\ cq[i].phase = dPhase
                    ELSE cq[i] # None => cq[i].phase = 1 - dPhase

(***************************************************************************)
(* Every place with an outstanding command holds an entry, no two hold the *)
(* same CID, and the CIDs held are those taken.                            *)
(***************************************************************************)
PlacesFilled ==
  /\ \A i \in Unfetched : sq[i] # None
  /\ \A i \in Unread : cq[i] # None

CidsApart ==
  /\ \A i, j \in Unfetched : sq[i].cid = sq[j].cid => i = j
  /\ \A e, f \in running : e.cid = f.cid => e = f
  /\ \A i, j \in Unread : cq[i].cid = cq[j].cid => i = j
  /\ \A i \in Unfetched, e \in running : sq[i].cid # e.cid
  /\ \A i \in Unfetched, j \in Unread : sq[i].cid # cq[j].cid
  /\ \A e \in running, j \in Unread : e.cid # cq[j].cid

CidsTaken ==
  /\ \A id \in Slots :
       id \in used <=> \/ \E i \in Unfetched : sq[i].cid = id
                       \/ \E e \in running : e.cid = id
                       \/ \E i \in Unread : cq[i].cid = id
  /\ count = Cardinality(used)

(***************************************************************************)
(* What the caller may conclude from a completion: with its CID comes its  *)
(* command, and that has been executed.                                    *)
(***************************************************************************)
OwnCid(e) == cur # None /\ e.cid = curCid => e.cmd = cur

CidsOwned ==
  /\ \A i \in Unfetched : OwnCid(sq[i]) /\ outcome[sq[i].cmd] # "new"
  /\ \A e \in running : OwnCid(e) /\ outcome[e.cmd] # "new"
  /\ \A i \in Unread : OwnCid(cq[i]) /\ cq[i].cmd \in executed

CallsRight ==
  /\ \A c \in Commands : outcome[c] = "asked" <=> cur = c
  /\ \A c \in Commands : outcome[c] = "done" => c \in executed

NvmeInv ==
  /\ NvmeTypeOK /\ DoorbellsRung /\ PhaseTags /\ PlacesFilled
  /\ CidsApart /\ CidsTaken /\ CidsOwned /\ CallsRight
-----------------------------------------------------------------------------
(***************************************************************************)
(* Rings.                                                                  *)
(***************************************************************************)
LEMMA SizeType ==
  ASSUME ring \in {"admin", "io"}
  PROVE  Size \in Nat /\ Size >= 2
BY SizeAssumption DEF Size

LEMMA SizeFixed ==
  ASSUME ring' = ring
  PROVE  Size' = Size /\ Slots' = Slots
BY DEF Size, Slots

(***************************************************************************)
(* The entry that is no entry of a ring.                                   *)
(***************************************************************************)
LEMMA NoneIsNoEntry ==
  ASSUME Size \in Nat, NEW c \in Commands, NEW id \in Slots
  PROVE  /\ [cmd |-> c, cid |-> id] # None
         /\ \A b \in 0 .. 1 : [cmd |-> c, cid |-> id, phase |-> b] # None
<1>1. id \in Nat
  BY DEF Slots
<1> QED BY <1>1, NoneAssumption

LEMMA AfterInSlots ==
  ASSUME Size \in Nat, Size >= 2, NEW i \in Slots
  PROVE  After(i) \in Slots /\ After(i) # i
BY DEF Slots, After

(***************************************************************************)
(* Between(i, j) gains j when j moves on, unless that closes the ring, and *)
(* loses i when i does.                                                    *)
(***************************************************************************)
LEMMA BetweenSame ==
  ASSUME NEW i \in Slots
  PROVE  Between(i, i) = {}
BY DEF Slots, Between

LEMMA BetweenDiffer ==
  ASSUME NEW i \in Slots, NEW j \in Slots, i # j
  PROVE  i \in Between(i, j)
BY DEF Slots, Between

LEMMA BetweenGrows ==
  ASSUME Size \in Nat, Size >= 2, NEW i \in Slots, NEW j \in Slots
  PROVE  /\ j \notin Between(i, j)
         /\ After(j) # i => Between(i, After(j)) = Between(i, j) \cup {j}
         /\ After(j) = i => Between(i, j) = Slots \ {j}
<1>1. j \notin Between(i, j)
  BY DEF Slots, Between
<1>2. ASSUME After(j) # i
      PROVE  Between(i, After(j)) = Between(i, j) \cup {j}
  BY <1>2 DEF Slots, Between, After
<1>3. ASSUME After(j) = i
      PROVE  Between(i, j) = Slots \ {j}
  BY <1>3 DEF Slots, Between, After
<1> QED BY <1>1, <1>2, <1>3

LEMMA BetweenShrinks ==
  ASSUME Size \in Nat, Size >= 2, NEW i \in Slots, NEW j \in Slots, i # j
  PROVE  Between(After(i), j) = Between(i, j) \ {i}
BY DEF Slots, Between, After

LEMMA FullRingShrinks ==
  ASSUME Size \in Nat, Size >= 2, NEW i \in Slots
  PROVE  Between(After(i), i) = Slots \ {i}
BY DEF Slots, Between, After
-----------------------------------------------------------------------------
(***************************************************************************)
(* Types.                                                                  *)
(***************************************************************************)
LEMMA RingFixed ==
  ASSUME NvmeNext
  PROVE  ring' = ring
BY DEF NvmeNext, AdminSend, IoSend, AdminNotify, IoNotify, AdminPoll, IoPoll, Send, Refuse,
   Notify, TakeEntry, GiveUp, Fetch, Complete, Fail

(***************************************************************************)
(* The actions, whichever queue pair they are about.                       *)
(***************************************************************************)
LEMMA NextActions ==
  ASSUME NvmeNext
  PROVE  \/ \E c \in Commands : Send(c) \/ Refuse(c)
         \/ Notify \/ TakeEntry \/ GiveUp \/ Fetch \/ Complete \/ Fail
BY DEF NvmeNext, AdminSend, IoSend, AdminNotify, IoNotify, AdminPoll, IoPoll

(***************************************************************************)
(* The driver reads the completion ring only where the device has written. *)
(***************************************************************************)
LEMMA EntryIsUnread ==
  ASSUME NvmeTypeOK, PhaseTags, TakeEntry
  PROVE  head # dTail
<1>1. SUFFICES ASSUME head = dTail
               PROVE  FALSE
  OBVIOUS
<1>2. cq[head] # None /\ cq[head].phase = phase
  BY DEF TakeEntry
<1>3. phase = dPhase /\ dPhase \in 0 .. 1
  BY <1>1, SizeType DEF PhaseTags, NvmeTypeOK, Slots
<1>4. cq[head].phase = 1 - dPhase
  BY <1>1, <1>2, SizeType DEF PhaseTags, NvmeTypeOK, Slots
<1> QED BY <1>2, <1>3, <1>4

LEMMA TypeStep ==
  ASSUME NvmeTypeOK, PhaseTags, NvmeNext
  PROVE  NvmeTypeOK'
<1>1. Size \in Nat /\ Size >= 2 /\ Size' = Size /\ Slots' = Slots
  BY RingFixed, SizeType, SizeFixed DEF NvmeTypeOK
<1>2. Entries' = Entries /\ Completions' = Completions
  BY <1>1 DEF Entries, Completions
<1>3. \A i \in Slots : After(i) \in Slots
  BY <1>1, AfterInSlots
<1>4. ring' = ring /\ ring \in {"admin", "io"}
  BY RingFixed DEF NvmeTypeOK
<1> USE <1>1, <1>2, <1>3, <1>4 DEF NvmeTypeOK, driverVars, deviceVars
<1>5. ASSUME NEW c \in Commands, Send(c)
      PROVE  NvmeTypeOK'
  <2>1. PICK id \in Slots :
          /\ used' = used \cup {id} /\ next' = After(id) /\ curCid' = id
          /\ sq' = [sq EXCEPT ![tail] = [cmd |-> c, cid |-> id]]
    BY <1>5 DEF Send, FirstUnused, Unused
  <2>2. [cmd |-> c, cid |-> id] \in Entries
    BY DEF Entries
  <2>3. count' \in 0 .. Size
    BY <1>5 DEF Send
  <2> QED BY <1>5, <2>1, <2>2, <2>3 DEF Send
<1>6. ASSUME NEW c \in Commands, Refuse(c)
      PROVE  NvmeTypeOK'
  BY <1>6 DEF Refuse
<1>7. CASE Notify
  BY <1>7 DEF Notify, DoorbellValue
<1>8. CASE TakeEntry
  <2>1. phase' \in 0 .. 1
    BY <1>8 DEF TakeEntry, NextPhase
  <2>2. count' \in 0 .. Size
    BY <1>8 DEF TakeEntry
  <2> QED BY <1>8, <2>1, <2>2 DEF TakeEntry
<1>9. CASE GiveUp
  BY <1>9 DEF GiveUp, KeepsCid
<1>10. CASE Fetch
  BY <1>10 DEF Fetch
<1>11. CASE Complete
  <2>1. PICK e \in running :
          /\ running' = running \ {e} /\ executed' = executed \cup {e.cmd}
          /\ cq' = [cq EXCEPT ![dTail] = [cmd |-> e.cmd, cid |-> e.cid, phase |-> dPhase]]
    BY <1>11 DEF Complete
  <2>2. [cmd |-> e.cmd, cid |-> e.cid, phase |-> dPhase] \in Completions /\ e.cmd \in Commands
    BY DEF Completions, Entries
  <2>3. dPhase' \in 0 .. 1
    BY <1>11 DEF Complete
  <2> QED BY <1>11, <2>1, <2>2, <2>3 DEF Complete
<1>12. CASE Fail
  BY <1>12 DEF Fail
<1> QED BY <1>5, <1>6, <1>7, <1>8, <1>9, <1>10, <1>11, <1>12, NextActions
-----------------------------------------------------------------------------
(***************************************************************************)
(* Phase tags.                                                             *)
(***************************************************************************)
LEMMA PhaseTagsStep ==
  ASSUME NvmeTypeOK, PhaseTags, DoorbellsRung, NvmeNext
  PROVE  PhaseTags'
<1>1. Size \in Nat /\ Size >= 2 /\ Slots' = Slots /\ Slots = 0 .. Size - 1
  BY RingFixed, SizeType, SizeFixed DEF NvmeTypeOK, Slots
<1>2. head \in Slots /\ dTail \in Slots /\ phase \in 0 .. 1 /\ dPhase \in 0 .. 1 /\ cqDb = head
  BY DEF NvmeTypeOK, DoorbellsRung
<1>3. CASE TakeEntry
  <2>1. head # dTail
    BY <1>3, EntryIsUnread
  <2>2. cq' = cq /\ dTail' = dTail /\ dPhase' = dPhase /\ head' = After(head) /\ phase' = NextPhase
    BY <1>3 DEF TakeEntry, deviceVars
  <2>3. phase' = IF head' <= dTail' THEN dPhase' ELSE 1 - dPhase'
    BY <1>1, <1>2, <2>1, <2>2 DEF PhaseTags, After, NextPhase
  <2> QED BY <1>1, <2>2, <2>3 DEF PhaseTags
<1>4. CASE Complete
  <2>1. PICK e \in running :
          cq' = [cq EXCEPT ![dTail] = [cmd |-> e.cmd, cid |-> e.cid, phase |-> dPhase]]
    BY <1>4 DEF Complete
  <2>2. /\ head' = head /\ phase' = phase /\ After(dTail) # head /\ dTail' = After(dTail)
        /\ dPhase' = IF dTail + 1 >= Size THEN 1 - dPhase ELSE dPhase
    BY <1>2, <1>4 DEF Complete, driverVars
  <2>3. phase' = IF head' <= dTail' THEN dPhase' ELSE 1 - dPhase'
    BY <1>1, <1>2, <2>2 DEF PhaseTags, After
  <2>4. cq'[dTail] # None /\ cq'[dTail].phase = dPhase
    <3>1. e.cmd \in Commands /\ e.cid \in Slots
      BY DEF NvmeTypeOK, Entries
    <3>2. [cmd |-> e.cmd, cid |-> e.cid, phase |-> dPhase] # None
      BY <1>1, <1>2, <3>1, NoneIsNoEntry
    <3> QED BY <1>2, <2>1, <3>2 DEF NvmeTypeOK
  <2>5. \A i \in Slots : i # dTail => cq'[i] = cq[i]
    BY <2>1 DEF NvmeTypeOK
  <2>6. ASSUME NEW i \in Slots
        PROVE  IF i < dTail' THEN cq'[i] # None /\ cq'[i].phase = dPhase'
                             ELSE cq'[i] # None => cq'[i].phase = 1 - dPhase'
    BY <1>1, <1>2, <2>2, <2>4, <2>5 DEF PhaseTags, After
  <2> QED BY <1>1, <2>3, <2>6 DEF PhaseTags
<1>5. CASE ~TakeEntry /\ ~Complete
  <2>1. cq' = cq /\ dTail' = dTail /\ dPhase' = dPhase /\ head' = head /\ phase' = phase
    BY <1>5, NextActions DEF Send, Refuse, Notify, GiveUp, Fetch, Fail, deviceVars, driverVars
  <2> QED BY <1>1, <2>1 DEF PhaseTags
<1> QED BY <1>3, <1>4, <1>5

(***************************************************************************)
(* How the outstanding commands move from place to place.                  *)
(***************************************************************************)
LEMMA UnreadIsBetween ==
  ASSUME NvmeTypeOK, PhaseTags
  PROVE  Unread = Between(head, dTail)
BY SizeType DEF NvmeTypeOK, PhaseTags, Slots, Unread

LEMMA NotFull ==
  ASSUME dHead # tail \/ count # Size \/ running # {} \/ Between(head, dTail) # {}
  PROVE  Unfetched = Between(dHead, tail)
BY DEF Unfetched

LEMMA PlacesNext ==
  ASSUME NvmeTypeOK', PhaseTags', ring' = ring
  PROVE  /\ Unread' = Between(head', dTail')
         /\ Unfetched' = IF dHead' = tail' /\ count' = Size /\ running' = {}
                             /\ Between(head', dTail') = {}
                           THEN Slots ELSE Between(dHead', tail')
<1>1. Size' = Size /\ Slots' = Slots /\ Size \in Nat
  BY SizeFixed, SizeType DEF NvmeTypeOK
<1>2. /\ Between(head, dTail)' = Between(head', dTail')
      /\ Between(dHead, tail)' = Between(dHead', tail')
  BY <1>1 DEF Between
<1>3. head' = dTail' => phase' = dPhase'
  <2>1. head' \in Nat /\ dTail' \in Nat
    BY <1>1 DEF NvmeTypeOK, Slots
  <2> QED BY <2>1 DEF PhaseTags
<1> QED BY <1>1, <1>2, <1>3 DEF Unread, Unfetched

LEMMA TakeEntryMoves ==
  ASSUME NvmeTypeOK, PhaseTags, CidsTaken, NvmeNext, TakeEntry, NvmeTypeOK', PhaseTags'
  PROVE  head \in Unread /\ Unread' = Unread \ {head} /\ Unfetched' = Unfetched
<1>1. Size \in Nat /\ Size >= 2 /\ ring' = ring /\ head \in Slots /\ dTail \in Slots
  BY RingFixed, SizeType DEF NvmeTypeOK
<1>2. head # dTail /\ Unread = Between(head, dTail) /\ head \in Unread
  BY <1>1, EntryIsUnread, UnreadIsBetween, BetweenDiffer
<1>3. /\ head' = After(head) /\ dTail' = dTail /\ dHead' = dHead /\ tail' = tail
      /\ count' = IF count > 0 THEN count - 1 ELSE 0
  BY DEF TakeEntry, deviceVars
<1>4. Unread' = Unread \ {head}
  BY <1>1, <1>2, <1>3, PlacesNext, BetweenShrinks
<1>5. count' # Size
  BY <1>1, <1>3 DEF NvmeTypeOK
<1>6. Unfetched = Between(dHead, tail) /\ Unfetched' = Between(dHead, tail)
  BY <1>1, <1>2, <1>3, <1>5, NotFull, PlacesNext
<1> QED BY <1>2, <1>4, <1>6

LEMMA CompleteMoves ==
  ASSUME NvmeTypeOK, PhaseTags, DoorbellsRung, NvmeNext, Complete, NvmeTypeOK', PhaseTags'
  PROVE  dTail \notin Unread /\ Unread' = Unread \cup {dTail} /\ Unfetched' = Unfetched
<1>1. /\ Size \in Nat /\ Size >= 2 /\ ring' = ring /\ head \in Slots /\ dTail \in Slots
      /\ Unread = Between(head, dTail)
  BY RingFixed, SizeType, UnreadIsBetween DEF NvmeTypeOK
<1>2. /\ head' = head /\ dTail' = After(dTail) /\ After(dTail) # head /\ dHead' = dHead
      /\ tail' = tail /\ running # {}
  BY DEF Complete, driverVars, DoorbellsRung
<1>3. dTail \notin Unread /\ Unread' = Unread \cup {dTail}
  BY <1>1, <1>2, PlacesNext, BetweenGrows
<1>4. Unfetched = Between(dHead, tail)
  BY <1>2, NotFull
<1>5. Unfetched' = Between(dHead, tail)
  BY <1>1, <1>2, <1>3, PlacesNext
<1> QED BY <1>3, <1>4, <1>5

LEMMA FetchMoves ==
  ASSUME NvmeTypeOK, PhaseTags, DoorbellsRung, NvmeNext, Fetch, NvmeTypeOK', PhaseTags'
  PROVE  dHead \in Unfetched /\ Unfetched' = Unfetched \ {dHead} /\ Unread' = Unread
<1>1. /\ Size \in Nat /\ Size >= 2 /\ ring' = ring /\ dHead \in Slots /\ tail \in Slots
      /\ Unread = Between(head, dTail)
  BY RingFixed, SizeType, UnreadIsBetween DEF NvmeTypeOK
<1>2. /\ head' = head /\ dTail' = dTail /\ dHead' = After(dHead) /\ tail' = tail
      /\ running' # {} /\ dHead # sqDb
  BY DEF Fetch, driverVars
<1>3. Unread' = Unread
  BY <1>1, <1>2, PlacesNext
<1>4. Unfetched' = Between(After(dHead), tail)
  BY <1>1, <1>2, PlacesNext
<1>5. CASE dHead = tail
  <2>1. Unfetched = Slots
    BY <1>1, <1>2, <1>5, BetweenSame DEF DoorbellsRung, Unfetched
  <2> QED BY <1>1, <1>3, <1>4, <1>5, <2>1, FullRingShrinks
<1>6. CASE dHead # tail
  BY <1>1, <1>3, <1>4, <1>6, NotFull, BetweenDiffer, BetweenShrinks
<1> QED BY <1>5, <1>6

(***************************************************************************)
(* The CIDs run out before the ring can be filled a second time: with a    *)
(* command in the device or in the completion ring a send that closes the  *)
(* submission ring finds sq_count at its limit.                            *)
(***************************************************************************)
LEMMA CidsRunOut ==
  ASSUME NvmeTypeOK, PlacesFilled, CidsApart, CidsTaken,
         Unfetched = Slots \ {tail}, count < Size
  PROVE  running = {} /\ Unread = {} /\ count = Size - 1
<1>1. Size \in Nat /\ Size >= 2 /\ tail \in Slots /\ used \subseteq Slots /\ count \in Nat
  BY SizeType DEF NvmeTypeOK
<1>2. IsFiniteSet(Slots) /\ Cardinality(Slots) = Size
  BY <1>1, FS_Interval DEF Slots
<1>3. IsFiniteSet(used) /\ Cardinality(used) < Cardinality(Slots)
  BY <1>1, <1>2, FS_Subset DEF CidsTaken
<1>4. \A i \in Slots \ {tail} : sq[i].cid \in used
  <2>1. \A i \in Slots \ {tail} : sq[i].cid \in Slots
    BY DEF NvmeTypeOK, Entries, PlacesFilled
  <2> QED BY <2>1 DEF CidsTaken
<1>5. ASSUME NEW id \in used, \A i \in Unfetched : sq[i].cid # id
      PROVE  FALSE
  <2> DEFINE f == [i \in Slots |-> IF i = tail THEN id ELSE sq[i].cid]
  <2>1. f \in [Slots -> used]
    BY <1>4
  <2>2. \A x, y \in Slots : f[x] = f[y] => x = y
    BY <1>5 DEF CidsApart
  <2> HIDE DEF f
  <2> QED BY <1>2, <1>3, <2>1, <2>2, FS_PigeonHole
<1>6. running = {}
  <2>1. SUFFICES ASSUME NEW e \in running
                 PROVE  FALSE
    OBVIOUS
  <2>2. e.cid \in used /\ \A i \in Unfetched : sq[i].cid # e.cid
    BY DEF NvmeTypeOK, Entries, CidsTaken, CidsApart
  <2> QED BY <1>5, <2>2
<1>7. Unread = {}
  <2>1. SUFFICES ASSUME NEW j \in Unread
                 PROVE  FALSE
    OBVIOUS
  <2>2. j \in Slots /\ cq[j] # None
    BY DEF Unread, Between, PlacesFilled
  <2>3. cq[j].cid \in used /\ \A i \in Unfetched : sq[i].cid # cq[j].cid
    BY <2>2 DEF NvmeTypeOK, Completions, CidsTaken, CidsApart
  <2> QED BY <1>5, <2>3
<1>8. count >= Size - 1
  <2>1. SUFFICES ASSUME count < Size - 1
                 PROVE  FALSE
    BY <1>1
  <2> DEFINE S == Slots \ {tail}
             f == [i \in S |-> sq[i].cid]
  <2>2. IsFiniteSet(S) /\ Cardinality(S) = Size - 1
    BY <1>1, <1>2, FS_RemoveElement
  <2>3. f \in [S -> used]
    BY <1>4
  <2>4. \A x, y \in S : f[x] = f[y] => x = y
    BY DEF CidsApart
  <2>5. Cardinality(used) < Cardinality(S)
    BY <2>1, <2>2 DEF CidsTaken
  <2> HIDE DEF f, S
  <2> QED BY <1>3, <2>2, <2>3, <2>4, <2>5, FS_PigeonHole
<1> QED BY <1>1, <1>6, <1>7, <1>8

LEMMA SendMoves ==
  ASSUME NvmeTypeOK, PhaseTags, PlacesFilled, CidsApart, CidsTaken, NvmeNext,
         NEW c \in Commands, Send(c), NvmeTypeOK', PhaseTags'
  PROVE  tail \notin Unfetched /\ Unfetched' = Unfetched \cup {tail} /\ Unread' = Unread
<1>1. /\ Size \in Nat /\ Size >= 2 /\ ring' = ring /\ dHead \in Slots /\ tail \in Slots
      /\ Unread = Between(head, dTail)
  BY RingFixed, SizeType, UnreadIsBetween DEF NvmeTypeOK
<1>2. /\ head' = head /\ dTail' = dTail /\ dHead' = dHead /\ tail' = After(tail)
      /\ running' = running /\ count < Size /\ count' = count + 1
  BY DEF Send, deviceVars
<1>3. Unread' = Unread
  BY <1>1, <1>2, PlacesNext
<1>4. Unfetched = Between(dHead, tail) /\ tail \notin Unfetched
  BY <1>1, <1>2, NotFull, BetweenGrows
<1>5. CASE After(tail) # dHead
  BY <1>1, <1>2, <1>3, <1>4, <1>5, PlacesNext, BetweenGrows
<1>6. CASE After(tail) = dHead
  <2>1. Unfetched = Slots \ {tail}
    BY <1>1, <1>4, <1>6, BetweenGrows
  <2>2. running = {} /\ Unread = {} /\ count = Size - 1
    BY <1>2, <2>1, CidsRunOut
  <2> QED BY <1>1, <1>2, <1>3, <1>4, <1>6, <2>1, <2>2, PlacesNext
<1> QED BY <1>5, <1>6
-----------------------------------------------------------------------------
(***************************************************************************)
(* The step of each action, conjunct by conjunct.                          *)
(***************************************************************************)
Kept == DoorbellsRung /\ PlacesFilled /\ CidsApart /\ CidsTaken /\ CidsOwned /\ CallsRight

LEMMA PlacesAreSlots == Unfetched \subseteq Slots /\ Unread \subseteq Slots
BY DEF Unfetched, Unread, Between

LEMMA EntryTypes ==
  ASSUME NvmeTypeOK, PlacesFilled
  PROVE  /\ \A i \in Unfetched : sq[i].cid \in Slots /\ sq[i].cmd \in Commands
         /\ \A i \in Unread : cq[i].cid \in Slots /\ cq[i].cmd \in Commands
         /\ \A e \in running : e.cid \in Slots /\ e.cmd \in Commands
<1>1. \A i \in Unfetched : sq[i] \in Entries
  BY PlacesAreSlots DEF NvmeTypeOK, PlacesFilled
<1>2. \A i \in Unread : cq[i] \in Completions
  BY PlacesAreSlots DEF NvmeTypeOK, PlacesFilled
<1> QED BY <1>1, <1>2 DEF Entries, Completions, NvmeTypeOK

LEMMA UsedIsFinite ==
  ASSUME NvmeTypeOK
  PROVE  IsFiniteSet(used)
<1>1. Size \in Nat /\ used \subseteq Slots
  BY SizeType DEF NvmeTypeOK
<1>2. IsFiniteSet(Slots)
  BY <1>1, FS_Interval DEF Slots
<1> QED BY <1>1, <1>2, FS_Subset

LEMMA SendKeeps ==
  ASSUME NvmeInv, NvmeNext, NEW c \in Commands, Send(c), NvmeTypeOK', PhaseTags'
  PROVE  Kept'
<1>1. PICK id \in Slots :
         /\ id \notin used /\ used' = used \cup {id} /\ curCid' = id
         /\ sq' = [sq EXCEPT ![tail] = [cmd |-> c, cid |-> id]]
  BY DEF Send, FirstUnused, Unused
<1>2. /\ cur = None /\ outcome[c] = "new" /\ count' = count + 1 /\ cur' = c /\ ~sent'
      /\ outcome' = [outcome EXCEPT ![c] = "asked"] /\ c # None
      /\ cq' = cq /\ head' = head /\ sqDb' = sqDb /\ cqDb' = cqDb /\ running' = running
      /\ executed' = executed /\ tail' = After(tail)
  BY SizeAssumption DEF Send, deviceVars
<1>3. tail \notin Unfetched /\ Unfetched' = Unfetched \cup {tail} /\ Unread' = Unread
  BY SendMoves DEF NvmeInv
<1>4. /\ Size \in Nat /\ Size' = Size /\ Slots' = Slots /\ tail \in Slots
      /\ \A i \in Slots : After(i)' = After(i)
  BY RingFixed, SizeType, SizeFixed DEF NvmeInv, NvmeTypeOK, After
<1>5. sq'[tail] = [cmd |-> c, cid |-> id] /\ \A i \in Unfetched : sq'[i] = sq[i]
  BY <1>1, <1>3, <1>4, PlacesAreSlots DEF NvmeInv, NvmeTypeOK
<1>6. DoorbellsRung'
  <2>1. sqDb = tail /\ cqDb = head
    BY <1>2 DEF NvmeInv, DoorbellsRung
  <2> QED BY <1>2, <1>3, <1>4, <2>1 DEF DoorbellsRung, After
<1>7. PlacesFilled'
  BY <1>2, <1>3, <1>4, <1>5, NoneIsNoEntry DEF NvmeInv, PlacesFilled
<1>8. /\ \A i \in Unfetched : sq[i].cid # id
      /\ \A e \in running : e.cid # id
      /\ \A i \in Unread : cq[i].cid # id
  BY <1>1, EntryTypes DEF NvmeInv, CidsTaken
<1>9. CidsApart'
  BY <1>2, <1>3, <1>5, <1>8 DEF NvmeInv, CidsApart
<1>10. CidsTaken'
  <2>1. IsFiniteSet(used)
    BY UsedIsFinite DEF NvmeInv
  <2>2. count' = Cardinality(used')
    BY <1>1, <1>2, <2>1, FS_AddElement DEF NvmeInv, CidsTaken
  <2>3. \A k \in Slots :
          k \in used' <=> \/ \E i \in Unfetched' : sq'[i].cid = k
                          \/ \E e \in running' : e.cid = k
                          \/ \E i \in Unread' : cq'[i].cid = k
    BY <1>1, <1>2, <1>3, <1>5 DEF NvmeInv, CidsTaken
  <2> QED BY <1>4, <2>2, <2>3 DEF CidsTaken
<1>11. CidsOwned'
  BY <1>1, <1>2, <1>3, <1>5, <1>8, EntryTypes DEF NvmeInv, NvmeTypeOK, CidsOwned, OwnCid
<1>12. CallsRight'
  BY <1>2, SizeAssumption DEF NvmeInv, NvmeTypeOK, CallsRight
<1> QED BY <1>6, <1>7, <1>9, <1>10, <1>11, <1>12 DEF Kept

LEMMA TakeEntryKeeps ==
  ASSUME NvmeInv, NvmeNext, TakeEntry, NvmeTypeOK', PhaseTags'
  PROVE  Kept'
<1>1. head \in Unread /\ Unread' = Unread \ {head} /\ Unfetched' = Unfetched
  BY TakeEntryMoves DEF NvmeInv
<1>2. /\ cur # None /\ sent /\ sent' = sent /\ head' = After(head) /\ cqDb' = After(head)
      /\ count' = (IF count > 0 THEN count - 1 ELSE 0) /\ used' = used \ {cq[head].cid}
      /\ sq' = sq /\ cq' = cq /\ running' = running /\ executed' = executed /\ sqDb' = sqDb
      /\ tail' = tail /\ curCid' = curCid
  BY DEF TakeEntry, deviceVars
<1>3. \/ cur' = cur /\ outcome' = outcome
      \/ /\ cur' = None /\ cq[head].cid = curCid
         /\ outcome' = [outcome EXCEPT ![cur] = "done"]
  BY DEF TakeEntry
<1>4. Size \in Nat /\ Slots' = Slots /\ \A i \in Slots : After(i)' = After(i)
  BY RingFixed, SizeType, SizeFixed DEF NvmeInv, NvmeTypeOK, After
<1>5. cq[head].cid \in Slots /\ cq[head].cid \in used
  BY <1>1, EntryTypes DEF NvmeInv, CidsTaken
<1>6. DoorbellsRung'
  BY <1>2 DEF NvmeInv, DoorbellsRung
<1>7. PlacesFilled'
  BY <1>1, <1>2 DEF NvmeInv, PlacesFilled
<1>8. CidsApart'
  BY <1>1, <1>2 DEF NvmeInv, CidsApart
<1>9. CidsTaken'
  <2>1. IsFiniteSet(used)
    BY UsedIsFinite DEF NvmeInv
  <2>2. Cardinality(used) \in Nat /\ Cardinality(used) > 0
    BY <1>5, <2>1, FS_CardinalityType, FS_EmptySet
  <2>3. count' = Cardinality(used')
    BY <1>2, <1>5, <2>1, <2>2, FS_RemoveElement DEF NvmeInv, CidsTaken
  <2>4. \A k \in Slots :
          k \in used' <=> \/ \E i \in Unfetched' : sq'[i].cid = k
                          \/ \E e \in running' : e.cid = k
                          \/ \E i \in Unread' : cq'[i].cid = k
    BY <1>1, <1>2 DEF NvmeInv, CidsTaken, CidsApart
  <2> QED BY <1>4, <2>3, <2>4 DEF CidsTaken
<1>10. cq[head].cid = curCid => cq[head].cmd = cur /\ cur \in executed /\ cur \in Commands
  BY <1>1, <1>2, EntryTypes DEF NvmeInv, CidsOwned, OwnCid
<1>11. CidsOwned'
  BY <1>1, <1>2, <1>3, EntryTypes DEF NvmeInv, NvmeTypeOK, CidsOwned, OwnCid
<1>12. CallsRight'
  BY <1>2, <1>3, <1>10, SizeAssumption DEF NvmeInv, NvmeTypeOK, CallsRight
<1> QED BY <1>6, <1>7, <1>8, <1>9, <1>11, <1>12 DEF Kept

LEMMA FetchKeeps ==
  ASSUME NvmeInv, NvmeNext, Fetch, NvmeTypeOK', PhaseTags'
  PROVE  Kept'
<1>1. dHead \in Unfetched /\ Unfetched' = Unfetched \ {dHead} /\ Unread' = Unread
  BY FetchMoves DEF NvmeInv
<1>2. /\ running' = running \cup {sq[dHead]} /\ dHead # sqDb
      /\ cur' = cur /\ sent' = sent /\ head' = head /\ cqDb' = cqDb /\ sqDb' = sqDb
      /\ tail' = tail /\ count' = count /\ used' = used /\ sq' = sq /\ cq' = cq
      /\ executed' = executed /\ curCid' = curCid /\ outcome' = outcome
  BY DEF Fetch, driverVars
<1>3. Size \in Nat /\ Slots' = Slots /\ \A i \in Slots : After(i)' = After(i)
  BY RingFixed, SizeType, SizeFixed DEF NvmeInv, NvmeTypeOK, After
<1>4. DoorbellsRung'
  <2>1. ASSUME cur # None, ~sent
        PROVE  sqDb \in Unfetched'
    <3>1. After(sqDb) = tail /\ sqDb \in Slots /\ dHead \in Slots /\ tail \in Slots /\ Size >= 2
      BY <2>1, SizeType DEF NvmeInv, NvmeTypeOK, DoorbellsRung
    <3>2. Unfetched = Slots \/ Unfetched = Between(dHead, tail)
      BY DEF Unfetched
    <3>3. dHead # tail => sqDb \in Between(dHead, tail)
      BY <1>2, <1>3, <3>1 DEF Between, After, Slots
    <3>4. dHead = tail => Unfetched = Slots
      BY <1>1, <3>1, <3>2, BetweenSame
    <3> QED BY <1>1, <1>2, <3>1, <3>2, <3>3, <3>4
  <2> QED BY <1>2, <1>3, <2>1 DEF NvmeInv, NvmeTypeOK, DoorbellsRung
<1>5. PlacesFilled'
  BY <1>1, <1>2 DEF NvmeInv, PlacesFilled
<1>6. CidsApart'
  BY <1>1, <1>2 DEF NvmeInv, CidsApart
<1>7. CidsTaken'
  <2>1. \A k \in Slots :
          k \in used' <=> \/ \E i \in Unfetched' : sq'[i].cid = k
                          \/ \E e \in running' : e.cid = k
                          \/ \E i \in Unread' : cq'[i].cid = k
    BY <1>1, <1>2 DEF NvmeInv, CidsTaken
  <2> QED BY <1>2, <1>3, <2>1 DEF NvmeInv, CidsTaken
<1>8. CidsOwned'
  BY <1>1, <1>2 DEF NvmeInv, CidsOwned, OwnCid
<1>9. CallsRight'
  BY <1>2 DEF NvmeInv, CallsRight
<1> QED BY <1>4, <1>5, <1>6, <1>7, <1>8, <1>9 DEF Kept

LEMMA CompleteKeeps ==
  ASSUME NvmeInv, NvmeNext, Complete, NvmeTypeOK', PhaseTags'
  PROVE  Kept'
<1>1. dTail \notin Unread /\ Unread' = Unread \cup {dTail} /\ Unfetched' = Unfetched
  BY CompleteMoves DEF NvmeInv
<1>2. PICK e \in running :
        /\ running' = running \ {e} /\ executed' = executed \cup {e.cmd}
        /\ cq' = [cq EXCEPT ![dTail] = [cmd |-> e.cmd, cid |-> e.cid, phase |-> dPhase]]
  BY DEF Complete
<1>3. /\ cur' = cur /\ sent' = sent /\ head' = head /\ cqDb' = cqDb /\ sqDb' = sqDb
      /\ tail' = tail /\ count' = count /\ used' = used /\ sq' = sq
      /\ curCid' = curCid /\ outcome' = outcome
  BY DEF Complete, driverVars
<1>4. Size \in Nat /\ Slots' = Slots /\ \A i \in Slots : After(i)' = After(i)
  BY RingFixed, SizeType, SizeFixed DEF NvmeInv, NvmeTypeOK, After
<1>5. /\ cq'[dTail] = [cmd |-> e.cmd, cid |-> e.cid, phase |-> dPhase]
      /\ \A i \in Unread : cq'[i] = cq[i]
  BY <1>1, <1>2, PlacesAreSlots DEF NvmeInv, NvmeTypeOK
<1>6. e.cid \in Slots /\ e.cmd \in Commands /\ dPhase \in 0 .. 1
  BY EntryTypes DEF NvmeInv, NvmeTypeOK
<1>7. DoorbellsRung'
  BY <1>1, <1>3, <1>4 DEF NvmeInv, NvmeTypeOK, DoorbellsRung
<1>8. PlacesFilled'
  BY <1>1, <1>3, <1>4, <1>5, <1>6, NoneIsNoEntry DEF NvmeInv, PlacesFilled
<1>9. CidsApart'
  BY <1>1, <1>2, <1>3, <1>5 DEF NvmeInv, CidsApart
<1>10. CidsTaken'
  <2>1. \A k \in Slots :
          k \in used' <=> \/ \E i \in Unfetched' : sq'[i].cid = k
                          \/ \E f \in running' : f.cid = k
                          \/ \E i \in Unread' : cq'[i].cid = k
    BY <1>1, <1>2, <1>3, <1>5 DEF NvmeInv, CidsTaken, CidsApart
  <2> QED BY <1>3, <1>4, <2>1 DEF NvmeInv, CidsTaken
<1>11. CidsOwned'
  BY <1>1, <1>2, <1>3, <1>5 DEF NvmeInv, CidsOwned, OwnCid
<1>12. CallsRight'
  BY <1>2, <1>3 DEF NvmeInv, CallsRight
<1> QED BY <1>7, <1>8, <1>9, <1>10, <1>11, <1>12 DEF Kept

LEMMA NvmeOthersKeep ==
  ASSUME NvmeInv, NvmeNext, NvmeTypeOK', PhaseTags',
         (\E c \in Commands : Refuse(c)) \/ Notify \/ GiveUp \/ Fail
  PROVE  Kept'
<1>1. /\ sq' = sq /\ cq' = cq /\ tail' = tail /\ count' = count /\ used' = used
      /\ head' = head /\ phase' = phase /\ curCid' = curCid /\ cqDb' = cqDb
      /\ dHead' = dHead /\ dTail' = dTail /\ dPhase' = dPhase /\ running' = running
      /\ executed' = executed
  BY DEF Refuse, Notify, GiveUp, KeepsCid, Fail, driverVars, deviceVars
<1>2. ring' = ring /\ Slots' = Slots /\ Size' = Size
  BY RingFixed, SizeFixed
<1>3. Unfetched' = Unfetched /\ Unread' = Unread
  BY <1>1, <1>2 DEF Unfetched, Unread, Between
<1>4. PlacesFilled' /\ CidsApart' /\ CidsTaken'
  BY <1>1, <1>2, <1>3 DEF NvmeInv, PlacesFilled, CidsApart, CidsTaken
<1>5. DoorbellsRung' /\ CidsOwned' /\ CallsRight'
  <2> USE SizeAssumption DEF NvmeInv, NvmeTypeOK, DoorbellsRung, CidsOwned, CallsRight, OwnCid,
          After
  <2>1. ASSUME NEW c \in Commands, Refuse(c)
        PROVE  DoorbellsRung' /\ CidsOwned' /\ CallsRight'
    BY <1>1, <1>2, <1>3, <2>1, EntryTypes DEF Refuse
  <2>2. CASE Notify
    BY <1>1, <1>2, <1>3, <2>2 DEF Notify, DoorbellValue
  <2>3. CASE GiveUp
    BY <1>1, <1>2, <1>3, <2>3, EntryTypes DEF GiveUp
  <2>4. CASE Fail
    BY <1>1, <1>2, <1>3, <2>4 DEF Fail, driverVars
  <2> QED BY <2>1, <2>2, <2>3, <2>4
<1> QED BY <1>4, <1>5 DEF Kept
-----------------------------------------------------------------------------
(***************************************************************************)
(* The inductive invariant.  OutstandingCids alone is not inductive: that  *)
(* a completion is read once depends on the phase tags, that a command is  *)
(* fetched once on the doorbells, and that the ring is not closed on       *)
(* commands still in the device on there being no more CIDs than entries.  *)
(***************************************************************************)
THEOREM NvmeInductive == NvmeSpec => []NvmeInv
<1>1. NvmeInit => NvmeInv
  <2> SUFFICES ASSUME NvmeInit
               PROVE  NvmeInv
    OBVIOUS
  <2>1. Size \in Nat /\ Size >= 2
    BY SizeType DEF NvmeInit
  <2>2. 0 \in Slots /\ \A i \in Slots : ~(i < 0)
    BY <2>1 DEF Slots
  <2>3. NvmeTypeOK
    <3>1. /\ sq \in [Slots -> Entries \cup {None}] /\ cq \in [Slots -> Completions \cup {None}]
          /\ outcome \in [Commands -> {"new", "asked", "done", "failed"}]
      BY DEF NvmeInit
    <3>2. count \in 0 .. Size /\ phase \in 0 .. 1 /\ dPhase \in 0 .. 1
      BY <2>1 DEF NvmeInit
    <3> QED BY <2>2, <3>1, <3>2 DEF NvmeInit, NvmeTypeOK
  <2>4. Unfetched = {} /\ Unread = {}
    BY <2>1, <2>2, BetweenSame DEF NvmeInit, Unfetched, Unread
  <2>5. DoorbellsRung /\ PhaseTags
    BY <2>2 DEF NvmeInit, DoorbellsRung, PhaseTags
  <2>6. PlacesFilled /\ CidsApart /\ CidsOwned
    BY <2>4 DEF NvmeInit, PlacesFilled, CidsApart, CidsOwned
  <2>7. CidsTaken
    BY <2>4, FS_EmptySet DEF NvmeInit, CidsTaken
  <2>8. CallsRight
    BY SizeAssumption DEF NvmeInit, CallsRight
  <2> QED BY <2>3, <2>5, <2>6, <2>7, <2>8 DEF NvmeInv
<1>2. NvmeInv /\ [NvmeNext]_nvmeVars => NvmeInv'
  <2> SUFFICES ASSUME NvmeInv, [NvmeNext]_nvmeVars
               PROVE  NvmeInv'
    OBVIOUS
  <2>1. CASE NvmeNext
    <3>1. NvmeTypeOK' /\ PhaseTags'
      BY <2>1, TypeStep, PhaseTagsStep DEF NvmeInv
    <3>2. Kept'
      BY <2>1, <3>1, NextActions, SendKeeps, TakeEntryKeeps, FetchKeeps, CompleteKeeps,
         NvmeOthersKeep
    <3> QED BY <3>1, <3>2 DEF NvmeInv, Kept
  <2>2. CASE UNCHANGED nvmeVars
    <3>1. Slots' = Slots /\ Size' = Size /\ Unfetched' = Unfetched /\ Unread' = Unread
      BY <2>2 DEF nvmeVars, driverVars, deviceVars, Slots, Size, Unfetched, Unread, Between
    <3>2. NvmeTypeOK' /\ PhaseTags'
      BY <2>2, <3>1 DEF NvmeInv, nvmeVars, driverVars, deviceVars, NvmeTypeOK, PhaseTags, Entries,
         Completions
    <3>3. Kept'
      BY <2>2, <3>1 DEF NvmeInv, nvmeVars, driverVars, deviceVars, Kept, DoorbellsRung,
         PlacesFilled, CidsApart, CidsTaken, CidsOwned, OwnCid, CallsRight, After
    <3> QED BY <3>2, <3>3 DEF NvmeInv, Kept
  <2> QED BY <2>1, <2>2
<1> QED BY <1>1, <1>2, PTL DEF NvmeSpec

(***************************************************************************)
(* The commands on their way through the rings and the device, however     *)
(* long ago their callers gave up, have CIDs of their own, exactly those   *)
(* that cid_bitmap marks, and sq_count is their number.                    *)
(***************************************************************************)
THEOREM CidsOutstanding == NvmeSpec => []OutstandingCids
<1>1. NvmeInv => OutstandingCids
  <2> SUFFICES ASSUME NvmeInv
               PROVE  OutstandingCids
    OBVIOUS
  <2> DEFINE inSq == {sq[i] : i \in Unfetched}
             inCq == {[cmd |-> cq[i].cmd, cid |-> cq[i].cid] : i \in Unread}
             all == inSq \cup running \cup inCq
             f == [e \in all |-> e.cid]
  <2>1. None \notin inSq
    BY DEF NvmeInv, PlacesFilled
  <2>2. \A e \in all : e.cid \in used
    BY EntryTypes DEF NvmeInv, CidsTaken
  <2>3. ASSUME NEW id \in used
        PROVE  \E e \in all : e.cid = id
    <3>1. \/ \E i \in Unfetched : sq[i].cid = id
          \/ \E e \in running : e.cid = id
          \/ \E i \in Unread : cq[i].cid = id
      BY DEF NvmeInv, NvmeTypeOK, CidsTaken
    <3>2. \A i \in Unread : [cmd |-> cq[i].cmd, cid |-> cq[i].cid] \in all
      OBVIOUS
    <3>3. \A i \in Unread : cq[i].cid = id => [cmd |-> cq[i].cmd, cid |-> cq[i].cid].cid = id
      OBVIOUS
    <3> QED BY <3>1, <3>2, <3>3
  <2>4. \A d, e \in all : d.cid = e.cid => d = e
    BY DEF NvmeInv, CidsApart
  <2>5. {e.cid : e \in all} = used
    BY <2>2, <2>3
  <2>6. Cardinality(all) = Cardinality(used)
    <3>1. f \in Injection(all, used)
      BY <2>2, <2>4 DEF Injection, IsInjective
    <3>2. f \in Surjection(all, used)
      BY <2>2, <2>3 DEF Surjection
    <3> HIDE DEF f, all
    <3> QED BY <3>1, <3>2, FS_Injection, UsedIsFinite DEF NvmeInv
  <2>7. Cardinality(used) = count
    BY DEF NvmeInv, CidsTaken
  <2> QED BY <2>1, <2>5, <2>6, <2>7 DEF OutstandingCids
<1> QED BY <1>1, NvmeInductive, PTL

(***************************************************************************)
(* A command that was announced is one the device can see, unless the ring *)
(* is full: the doorbell is the driver's tail, and the device is behind it *)
(* as long as entries are left between the two.                            *)
(***************************************************************************)
THEOREM AnnouncedIsSeen == NvmeSpec => []NothingOverlooked
<1>1. NvmeInv => NothingOverlooked
  <2> SUFFICES ASSUME NvmeInv, sent, Unfetched # {}, count < Size, dHead = sqDb
               PROVE  FALSE
    BY DEF NothingOverlooked
  <2>1. sqDb = tail /\ count # Size /\ tail \in Slots
    BY SizeType DEF NvmeInv, NvmeTypeOK, DoorbellsRung
  <2>2. Unfetched = Between(tail, tail)
    BY <2>1 DEF Unfetched
  <2> QED BY <2>1, <2>2, BetweenSame
<1> QED BY <1>1, NvmeInductive, PTL

(***************************************************************************)
(* The driver implements the service: whatever completions of commands     *)
(* given up arrive, a caller is answered about its own command once it has *)
(* been executed.                                                          *)
(***************************************************************************)
THEOREM ServiceImplemented == NvmeSpec => ImplementsCommandService
<1>1. NvmeInit => Service!Init
  BY DEF NvmeInit, Service!Init
<1>2. NvmeInv /\ [NvmeNext]_nvmeVars => [Service!Next]_Service!vars
  <2> SUFFICES ASSUME NvmeInv, [NvmeNext]_nvmeVars
               PROVE  Service!Next \/ UNCHANGED <<outcome, executed>>
    BY DEF Service!vars
  <2>1. ASSUME NEW c \in Commands, Send(c)
        PROVE  Service!Next
    <3>1. \A d \in Commands : outcome[d] # "asked"
      BY <2>1, SizeAssumption DEF NvmeInv, CallsRight, Send
    <3>2. Service!Ask(c)
      BY <2>1, <3>1 DEF Send, deviceVars, Service!Ask
    <3> QED BY <3>2 DEF Service!Next
  <2>2. ASSUME NEW c \in Commands, Refuse(c)
        PROVE  Service!Next
    BY <2>2 DEF Refuse, deviceVars, Service!Next, Service!Fail
  <2>3. CASE TakeEntry
    <3>1. CASE cq[head].cid = curCid
      <4>1. head \in Unread /\ cur # None /\ cur \in Commands
        BY <2>3, EntryIsUnread, UnreadIsBetween, BetweenDiffer DEF NvmeInv, NvmeTypeOK, TakeEntry
      <4>2. cur \in executed /\ outcome[cur] = "asked"
        BY <3>1, <4>1 DEF NvmeInv, CidsOwned, OwnCid, CallsRight
      <4>3. Service!Answer(cur)
        BY <2>3, <3>1, <4>2 DEF TakeEntry, deviceVars, Service!Answer
      <4> QED BY <4>1, <4>3 DEF Service!Next
    <3>2. CASE cq[head].cid # curCid
      BY <2>3, <3>2 DEF TakeEntry, deviceVars
    <3> QED BY <3>1, <3>2
  <2>4. CASE GiveUp
    <3>1. Service!Fail(cur)
      BY <2>4 DEF GiveUp, deviceVars, Service!Fail, NvmeInv, NvmeTypeOK, CallsRight
    <3> QED BY <2>4, <3>1 DEF GiveUp, Service!Next, NvmeInv, NvmeTypeOK
  <2>5. CASE Complete
    <3>1. PICK e \in running : executed' = executed \cup {e.cmd}
      BY <2>5 DEF Complete
    <3>2. e.cmd \in Commands /\ outcome[e.cmd] # "new" /\ outcome' = outcome
      BY <2>5, EntryTypes DEF Complete, driverVars, NvmeInv, CidsOwned
    <3>3. CASE e.cmd \in executed
      BY <3>1, <3>2, <3>3
    <3>4. CASE e.cmd \notin executed
      <4>1. Service!Execute(e.cmd)
        BY <3>1, <3>2, <3>4 DEF Service!Execute, NvmeInv, NvmeTypeOK, CallsRight
      <4> QED BY <3>2, <4>1 DEF Service!Next
    <3> QED BY <3>3, <3>4
  <2>6. CASE Notify \/ Fetch \/ Fail
    BY <2>6 DEF Notify, Fetch, Fail, deviceVars, driverVars
  <2>7. CASE UNCHANGED nvmeVars
    BY <2>7 DEF nvmeVars, driverVars, deviceVars
  <2> QED BY <2>1, <2>2, <2>3, <2>4, <2>5, <2>6, <2>7, NextActions
<1> QED BY <1>1, <1>2, NvmeInductive, PTL DEF NvmeSpec, ImplementsCommandService, Service!Spec
=============================================================================
