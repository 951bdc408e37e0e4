--------------------------- MODULE ServiceProofs ---------------------------
(***************************************************************************)
(* Proofs about the kernel's services, each for every value of its         *)
(* constants, and about all of them side by side (MC_Services), whose      *)
(* names the variables have.                                               *)
(***************************************************************************)
EXTENDS MC_Services, BootMemoryProofs

-----------------------------------------------------------------------------
(***************************************************************************)
(* The disk over many runs of the kernel (Volume).                         *)
(***************************************************************************)

DiskSpec == Disk!Init /\ [][Disk!Next]_(Disk!volumeVars)

Words == Seq(Nat)

DiskTypeOK ==
  /\ vFs \in Nat /\ vSaid \in Nat /\ vKflag \in BOOLEAN /\ vMounted \in BOOLEAN
  /\ vLog \in [buf : {"pre", "heap", "none"}, text : Words, present : BOOLEAN]
  /\ vFile \in Words \cup {Disk!NoFile}

\* A log that takes itself for the file's begins with what the file holds.
LogHoldsFile ==
  vLog.buf # "none" /\ vLog.present /\ vFile # Disk!NoFile =>
    Disk!SaidIn(vFile) \subseteq ToSet(vLog.text)

\* The inductive invariant of the disk: a mounted file system is the one that is there,
\* and from the start of a run to its halt the flag is on the disk.
DiskInv ==
  /\ DiskTypeOK /\ LogHoldsFile
  /\ vMounted => vMount = vFs
  /\ vEnded = "crashed" => vKflag
  /\ Disk!LogKept /\ Disk!StaleUnused

\* What a sequence holds, element by element (io.c: the log's bytes).
LEMMA HeldIn ==
  ASSUME NEW s \in Words
  PROVE  /\ \A e : e \in ToSet(s) <=> \E i \in 1..Len(s) : s[i] = e
         /\ ToSet(s) \subseteq Nat
  BY DEF Words, ToSet

\* No file holds nothing; a file holds what its words are, without the garbage.
LEMMA SaidInWords ==
  /\ Disk!SaidIn(Disk!NoFile) = {}
  /\ \A s \in Words : Disk!SaidIn(s) = ToSet(s) \ {0} /\ s # Disk!NoFile
<1>1. \A s \in Words : s # Disk!NoFile
  <2> SUFFICES ASSUME NEW s \in Words, s = <<-1>> PROVE FALSE
    BY DEF Disk!NoFile
  <2> QED BY DEF Words
<1> QED BY <1>1 DEF Disk!SaidIn, Disk!NoFile, Disk!Garbage, Disk!ToSet, ToSet

\* A message more, and a file behind what was said so far (serial_init_klog).
LEMMA HeldInJoin ==
  ASSUME NEW s \in Words, NEW t \in Words
  PROVE  s \o t \in Words /\ ToSet(s \o t) = ToSet(s) \cup ToSet(t)
<1>1. s \o t \in Words /\ Len(s \o t) = Len(s) + Len(t)
  BY DEF Words
<1>2. \A i \in 1..Len(s) : (s \o t)[i] = s[i] /\ i \in 1..Len(s \o t)
  BY <1>1 DEF Words
<1>3. \A i \in 1..Len(t) : (s \o t)[Len(s) + i] = t[i] /\ Len(s) + i \in 1..Len(s \o t)
  BY <1>1 DEF Words
<1>4. \A i \in 1..Len(s \o t) : (s \o t)[i] \in ToSet(s) \cup ToSet(t)
  <2> SUFFICES ASSUME NEW i \in 1..Len(s \o t)
               PROVE  (s \o t)[i] \in ToSet(s) \cup ToSet(t)
    OBVIOUS
  <2>1. CASE i <= Len(s) BY <2>1, <1>2, HeldIn DEF Words
  <2>2. CASE i > Len(s)
    <3>1. i - Len(s) \in 1..Len(t) /\ Len(s) + (i - Len(s)) = i
      BY <2>2, <1>1 DEF Words
    <3> QED BY <3>1, <1>3, HeldIn DEF Words
  <2> QED BY <2>1, <2>2, <1>1 DEF Words
<1>5. ToSet(s) \subseteq ToSet(s \o t)
  <2> SUFFICES ASSUME NEW e \in ToSet(s) PROVE e \in ToSet(s \o t)
    OBVIOUS
  <2>1. PICK i \in 1..Len(s) : s[i] = e
    BY HeldIn
  <2>2. i \in 1..Len(s \o t) /\ (s \o t)[i] = e
    BY <2>1, <1>2
  <2> QED BY <2>2, <1>1, HeldIn
<1>6. ToSet(t) \subseteq ToSet(s \o t)
  <2> SUFFICES ASSUME NEW e \in ToSet(t) PROVE e \in ToSet(s \o t)
    OBVIOUS
  <2>1. PICK i \in 1..Len(t) : t[i] = e
    BY HeldIn
  <2>2. Len(s) + i \in 1..Len(s \o t) /\ (s \o t)[Len(s) + i] = e
    BY <2>1, <1>3
  <2> QED BY <2>2, <1>1, HeldIn
<1>7. ToSet(s \o t) \subseteq ToSet(s) \cup ToSet(t)
  BY <1>1, <1>4, HeldIn
<1> QED BY <1>1, <1>5, <1>6, <1>7

LEMMA HeldInMore ==
  ASSUME NEW s \in Words, NEW n \in Nat
  PROVE  Append(s, n) \in Words /\ ToSet(s) \subseteq ToSet(Append(s, n))
<1>1. Append(s, n) \in Words /\ Len(Append(s, n)) = Len(s) + 1
  BY DEF Words
<1>2. \A i \in 1..Len(s) : Append(s, n)[i] = s[i] /\ i \in 1..Len(Append(s, n))
  BY <1>1 DEF Words
<1>3. SUFFICES ASSUME NEW e \in ToSet(s) PROVE e \in ToSet(Append(s, n))
  BY <1>1
<1>4. PICK i \in 1..Len(s) : s[i] = e
  BY HeldIn
<1> QED BY <1>1, <1>2, <1>4, HeldIn

\* The log of a run begins with the file, if the file could be read, and keeps its words.
LEMMA InitKlogHolds ==
  ASSUME DiskTypeOK, NEW l \in Disk!InitKlog
  PROVE  /\ l \in [buf : {"pre", "heap", "none"}, text : Words, present : BOOLEAN]
         /\ l.buf # "none" /\ l.present /\ vFile # Disk!NoFile =>
              Disk!SaidIn(vFile) \subseteq ToSet(l.text)
<1>1. CASE l = [buf |-> "none", text |-> vLog.text, present |-> vLog.present]
  BY <1>1 DEF DiskTypeOK
<1>2. ASSUME NEW read \in (IF vFile = Disk!NoFile THEN {FALSE} ELSE BOOLEAN),
             l = [buf |-> "heap", present |-> Disk!PresentIf(read),
                  text |-> vLog.text \o
                    (CASE vFile = Disk!NoFile -> <<>>
                       [] read -> vFile
                       [] OTHER -> [i \in 1..Len(vFile) |-> Disk!Garbage])]
      PROVE  /\ l \in [buf : {"pre", "heap", "none"}, text : Words, present : BOOLEAN]
             /\ l.present /\ vFile # Disk!NoFile =>
                  Disk!SaidIn(vFile) \subseteq ToSet(l.text)
  <2>1. vLog.text \in Words /\ read \in BOOLEAN
    BY DEF DiskTypeOK
  <2>2. CASE vFile = Disk!NoFile
    <3>1. <<>> \in Words BY DEF Words
    <3>2. l.text = vLog.text \o <<>> /\ l.buf = "heap" /\ l.present = read
      BY <1>2, <2>2 DEF Disk!PresentIf
    <3> QED BY <1>2, <2>1, <2>2, <3>1, <3>2, HeldInJoin DEF Disk!PresentIf
  <2>3. CASE vFile # Disk!NoFile /\ read
    <3>1. vFile \in Words BY <2>3 DEF DiskTypeOK
    <3>2. l = [buf |-> "heap", present |-> TRUE, text |-> vLog.text \o vFile]
      BY <1>2, <2>3 DEF Disk!PresentIf
    <3> QED BY <2>1, <3>1, <3>2, HeldInJoin, SaidInWords
  <2>4. CASE vFile # Disk!NoFile /\ ~read
    <3> DEFINE hole == [i \in 1..Len(vFile) |-> Disk!Garbage]
    <3>1. vFile \in Words BY <2>4 DEF DiskTypeOK
    <3>2. hole \in Words BY <3>1 DEF Words, Disk!Garbage
    <3>3. l = [buf |-> "heap", present |-> FALSE, text |-> vLog.text \o hole]
      BY <1>2, <2>1, <2>4 DEF Disk!PresentIf
    <3> QED BY <2>1, <3>2, <3>3, HeldInJoin
  <2> QED BY <2>1, <2>2, <2>3, <2>4
<1> QED BY <1>1, <1>2 DEF Disk!InitKlog

\* A flush loses nothing of the file (serial_flush_klog).
LEMMA FlushKeeps ==
  ASSUME vFile \in Words \cup {Disk!NoFile},
         NEW l \in [buf : {"pre", "heap", "none"}, text : Words, present : BOOLEAN],
         l.buf # "none" /\ l.present /\ vFile # Disk!NoFile =>
           Disk!SaidIn(vFile) \subseteq ToSet(l.text),
         NEW f \in Disk!Flushed(l)
  PROVE  /\ f \in Words \cup {Disk!NoFile}
         /\ Disk!SaidIn(vFile) \subseteq Disk!SaidIn(f)
         /\ l.buf # "none" /\ l.present /\ f # Disk!NoFile =>
              Disk!SaidIn(f) \subseteq ToSet(l.text)
<1>1. CASE f = vFile BY <1>1
<1>2. CASE /\ f # vFile /\ l.buf # "none" /\ f = l.text
           /\ l.present = (vFile # Disk!NoFile)
  <2>1. f \in Words /\ Disk!SaidIn(f) = ToSet(l.text) \ {0}
    BY <1>2, SaidInWords
  <2>2. Disk!SaidIn(vFile) \subseteq Disk!SaidIn(f)
    <3>1. CASE vFile = Disk!NoFile BY <3>1, SaidInWords
    <3>2. CASE vFile # Disk!NoFile
      <4>1. Disk!SaidIn(vFile) \subseteq ToSet(l.text) BY <1>2, <3>2
      <4>2. Disk!SaidIn(vFile) = ToSet(vFile) \ {0} BY <3>2, SaidInWords
      <4> QED BY <4>1, <4>2, <2>1
    <3> QED BY <3>1, <3>2
  <2> QED BY <2>1, <2>2
<1> QED BY <1>1, <1>2 DEF Disk!Flushed
\* What a flush through the mount keeps of the invariant.
LEMMA FlushThroughKeeps ==
  ASSUME DiskInv, NEW who, Disk!FlushThrough(vLog, who), who = "command" => vMount = vFs
  PROVE  /\ vFile' \in Words \cup {Disk!NoFile}
         /\ vKept' \subseteq Disk!SaidIn(vFile')
         /\ "command" \notin vStale'
         /\ vLog.buf # "none" /\ vLog.present /\ vFile' # Disk!NoFile =>
              Disk!SaidIn(vFile') \subseteq ToSet(vLog.text)
<1> USE DEF DiskInv, DiskTypeOK, LogHoldsFile, Disk!LogKept, Disk!StaleUnused
<1>1. CASE vMount = vFs
  <2>1. vFile' \in Disk!Flushed(vLog) /\ vKept' = vKept \cup Disk!SaidIn(vFile') /\ vStale' = vStale
    BY <1>1 DEF Disk!FlushThrough
  <2>2. /\ vFile' \in Words \cup {Disk!NoFile} /\ Disk!SaidIn(vFile) \subseteq Disk!SaidIn(vFile')
        /\ vLog.buf # "none" /\ vLog.present /\ vFile' # Disk!NoFile =>
             Disk!SaidIn(vFile') \subseteq ToSet(vLog.text)
    BY <2>1, FlushKeeps
  <2> QED BY <2>1, <2>2
<1>2. CASE vMount # vFs
  <2>1. who # "command" /\ vFile' = vFile /\ vKept' = vKept /\ vStale' \subseteq vStale \cup {who}
    BY <1>2 DEF Disk!FlushThrough
  <2> QED BY <2>1
<1> QED BY <1>1, <1>2

\* At the mount the log that is made holds the file before it is written to it.
LEMMA MountKeeps == DiskInv /\ Disk!Mount => DiskInv'
<1> SUFFICES ASSUME DiskInv, Disk!Mount PROVE DiskInv'
  OBVIOUS
<1> USE DEF DiskInv, DiskTypeOK, LogHoldsFile, Disk!LogKept, Disk!StaleUnused
<1>1. UNCHANGED <<vFs, vSaid, vKflag, vEnded, vStale>>
  BY DEF Disk!Mount
<1>2. CASE UNCHANGED <<vMounted, vMount, vLog, vFile, vKept>>
  BY <1>1, <1>2
<1>3. CASE /\ vMount' = vFs /\ vLog' \in Disk!InitKlog /\ vFile' \in Disk!Flushed(vLog')
           /\ vKept' = vKept \cup Disk!SaidIn(vFile') /\ vMounted' \in BOOLEAN
  <2>1. /\ vLog' \in [buf : {"pre", "heap", "none"}, text : Words, present : BOOLEAN]
        /\ vLog'.buf # "none" /\ vLog'.present /\ vFile # Disk!NoFile =>
             Disk!SaidIn(vFile) \subseteq ToSet(vLog'.text)
    BY <1>3, InitKlogHolds
  <2>2. /\ vFile' \in Words \cup {Disk!NoFile} /\ Disk!SaidIn(vFile) \subseteq Disk!SaidIn(vFile')
        /\ vLog'.buf # "none" /\ vLog'.present /\ vFile' # Disk!NoFile =>
             Disk!SaidIn(vFile') \subseteq ToSet(vLog'.text)
    BY <1>3, <2>1, FlushKeeps
  <2> QED BY <1>1, <1>3, <2>1, <2>2
<1> QED BY <1>2, <1>3 DEF Disk!Mount

\* A message is put behind the others, or dropped (klog_printc).
LEMMA SayKeeps == DiskInv /\ Disk!Say => DiskInv'
<1> SUFFICES ASSUME DiskInv, Disk!Say PROVE DiskInv'
  OBVIOUS
<1> USE DEF DiskInv, DiskTypeOK, LogHoldsFile, Disk!LogKept, Disk!StaleUnused
<1>1. /\ vSaid' = vSaid + 1
      /\ UNCHANGED <<vMounted, vMount, vFs, vFile, vKept, vKflag, vEnded, vStale>>
  BY DEF Disk!Say
<1>2. CASE UNCHANGED vLog
  BY <1>1, <1>2
<1>3. CASE vLog' = [vLog EXCEPT !.text = Append(@, vSaid + 1)]
  <2>1. vLog.text \in Words /\ vSaid + 1 \in Nat
    OBVIOUS
  <2>2. /\ Append(vLog.text, vSaid + 1) \in Words
        /\ ToSet(vLog.text) \subseteq ToSet(Append(vLog.text, vSaid + 1))
    BY <2>1, HeldInMore
  <2>3. vLog' = [buf |-> vLog.buf, text |-> Append(vLog.text, vSaid + 1), present |-> vLog.present]
    BY <1>3
  <2> QED BY <1>1, <2>2, <2>3
<1> QED BY <1>2, <1>3 DEF Disk!Say

\* The invariant of the disk is inductive: every step of a run, of the loader and of a crash
\* keeps it (aos.c, io.c, bootloader_uefi.c).
THEOREM DiskInductive == DiskSpec => []DiskInv
<1> USE DEF DiskInv, DiskTypeOK, LogHoldsFile, Disk!LogKept, Disk!StaleUnused
<1>1. Disk!Init => DiskInv
  <2> SUFFICES ASSUME Disk!Init PROVE DiskInv
    OBVIOUS
  <2>1. <<>> \in Words BY DEF Words
  <2>2. vFile = Disk!NoFile /\ vLog = Disk!Empty /\ vLog.present = FALSE
    BY DEF Disk!Init, Disk!Empty
  <2>3. DiskTypeOK
    <3>1. vLog = [buf |-> "pre", text |-> <<>>, present |-> FALSE]
      BY <2>2 DEF Disk!Empty
    <3>2. vLog \in [buf : {"pre", "heap", "none"}, text : Words, present : BOOLEAN]
      BY <2>1, <3>1
    <3>3. vFs = 0 /\ vSaid = 0 /\ vKflag = FALSE /\ vMounted = FALSE /\ vFile = Disk!NoFile
      BY DEF Disk!Init
    <3> QED BY <3>2, <3>3
  <2>4. LogHoldsFile /\ Disk!LogKept
    BY <2>2 DEF Disk!Init
  <2> QED BY <2>3, <2>4 DEF Disk!Init
<1>2. DiskInv /\ [Disk!Next]_(Disk!volumeVars) => DiskInv'
  <2> SUFFICES ASSUME DiskInv, [Disk!Next]_(Disk!volumeVars) PROVE DiskInv'
    OBVIOUS
  <2>1. CASE Disk!LoadKernel
    <3>1. /\ vLog' = Disk!Empty /\ vMounted' = FALSE /\ vKflag' = TRUE
          /\ UNCHANGED <<vFs, vSaid, vFile, vKept, vStale>>
      BY <2>1 DEF Disk!LoadKernel, Disk!FlagAtStart
    <3>2. <<>> \in Words BY DEF Words
    <3> QED BY <3>1, <3>2 DEF Disk!Empty
  <2>2. CASE Disk!Say BY <2>2, SayKeeps
  <2>3. CASE Disk!Mount BY <2>3, MountKeeps
  <2>4. CASE Disk!Format
    <3>1. /\ vFs' = vFs + 1 /\ vFile' = Disk!NoFile /\ vKept' = {} /\ vMounted' = FALSE
          /\ vKflag' \in BOOLEAN /\ vEnded' = "unknown" /\ UNCHANGED <<vLog, vSaid, vStale>>
      BY <2>4 DEF Disk!Format, Disk!AfterFormat
    <3>2. vFs' \in Nat
      BY <3>1
    <3>3. DiskTypeOK' /\ LogHoldsFile' /\ Disk!StaleUnused'
      BY <3>1, <3>2
    <3>4. Disk!LogKept'
      BY <3>1
    <3> QED BY <3>1, <3>3, <3>4
  <2>5. CASE Disk!Remount
    BY <2>5 DEF Disk!Remount
  <2>6. CASE Disk!MakeDir
    BY <2>6 DEF Disk!MakeDir
  <2>7. CASE Disk!FlushKlog
    <3>1. Disk!FlushThrough(vLog, "command") /\ vMount = vFs
      BY <2>7 DEF Disk!FlushKlog
    <3>2. UNCHANGED <<vMounted, vMount, vFs, vLog, vSaid, vKflag, vEnded>>
      BY <2>7 DEF Disk!FlushKlog
    <3> QED BY <3>1, <3>2, FlushThroughKeeps
  <2>8. CASE Disk!Halt
    <3>1. /\ vKflag' \in BOOLEAN /\ vEnded' = "orderly"
          /\ UNCHANGED <<vMounted, vMount, vFs, vSaid>>
      BY <2>8 DEF Disk!Halt
    <3>2. CASE vMount # Disk!Inactive
      <4>1. Disk!FlushThrough(vLog, "halt")
        BY <2>8, <3>2 DEF Disk!Halt
      <4>2. vLog' = [buf |-> "none", text |-> <<>>, present |-> TRUE]
        BY <2>8, <3>2 DEF Disk!Halt, Disk!Empty
      <4>3. <<>> \in Words BY DEF Words
      <4> QED BY <3>1, <4>1, <4>2, <4>3, FlushThroughKeeps
    <3>3. CASE vMount = Disk!Inactive
      BY <2>8, <3>1, <3>3 DEF Disk!Halt
    <3> QED BY <3>2, <3>3
  <2>9. CASE Disk!Crash
    BY <2>9 DEF Disk!Crash
  <2>10. CASE UNCHANGED Disk!volumeVars
    BY <2>10 DEF Disk!volumeVars
  <2> QED
    BY <2>1, <2>2, <2>3, <2>4, <2>5, <2>6, <2>7, <2>8, <2>9, <2>10 DEF Disk!Next
<1> QED BY <1>1, <1>2, PTL DEF DiskSpec

\* What klog.log has held it keeps until the next format, no command writes through the mount
\* of a file system that is gone, and a run that was cut off leaves the flag set, for any
\* number of messages, formats and runs (io.c, aos.c 185-215).
THEOREM DiskIsRight == DiskSpec => []Disk!DiskRight
<1>1. DiskInv => Disk!DiskRight
  BY DEF DiskInv, Disk!DiskRight, Disk!DiskKept, Disk!CrashNoticed
<1> QED BY <1>1, DiskInductive, PTL

-----------------------------------------------------------------------------
(***************************************************************************)
(* An open file (FileHandle), for any chunk size.                          *)
(***************************************************************************)

FileSpec == Handle!Init /\ [][Handle!Next]_(Handle!fileVars)

Data == Seq(FileBytes \cup {ZeroByte})

Handles == [have : BOOLEAN, cache : Data, refresh : BOOLEAN, pending : BOOLEAN]

FileTypeOK ==
  /\ hDisk \in Data /\ hWant \in Data
  /\ hH \in Handles
  /\ hState \in {"none", "open", "closing", "flushed"}
  /\ hSeek \in Nat /\ hFailed \in BOOLEAN

\* A cache that was filled is the beginning of what was written, and what waits is in one.
CacheTrue ==
  /\ hH.have /\ ~hH.refresh => Handle!IsPrefix(hH.cache, hWant)
  /\ hH.pending => hH.have /\ ~hH.refresh

\* The inductive invariant of an open file: what still waits when the close has flushed is
\* what PBFS has refused, and without a handle nothing waits.
FileInv ==
  /\ FileTypeOK /\ CacheTrue
  /\ ~hH.pending => Handle!IsPrefix(hDisk, hWant)
  /\ hState = "flushed" /\ hH.pending => hFailed
  /\ hState = "none" => ~hH.pending

\* A prefix, byte by byte.
LEMMA PrefixBytes ==
  ASSUME NEW s \in Data, NEW t \in Data
  PROVE  Handle!IsPrefix(s, t) <=>
           Len(s) <= Len(t) /\ \A i \in 1..Len(s) : s[i] = t[i]
<1>1. ASSUME Handle!IsPrefix(s, t), NEW i \in 1..Len(s)
      PROVE  s[i] = t[i]
  <2>1. SubSeq(s, 1, Len(s))[i] = s[i] /\ SubSeq(t, 1, Len(s))[i] = t[i]
    BY <1>1 DEF Handle!IsPrefix, Data
  <2> QED BY <1>1, <2>1 DEF Handle!IsPrefix
<1>2. ASSUME Len(s) <= Len(t), \A i \in 1..Len(s) : s[i] = t[i]
      PROVE  SubSeq(s, 1, Len(s)) = SubSeq(t, 1, Len(s))
  <2>1. SubSeq(s, 1, Len(s)) = [i \in 1..Len(s) |-> s[i]]
    BY DEF Data
  <2>2. SubSeq(t, 1, Len(s)) = [i \in 1..Len(s) |-> t[i]]
    BY <1>2 DEF Data
  <2> QED BY <1>2, <2>1, <2>2
<1> QED BY <1>1, <1>2 DEF Handle!IsPrefix

\* What is read of a prefix is a prefix (fs.c fills the cache with no more than it is asked).
LEMMA PrefixOfPrefix ==
  ASSUME NEW s \in Data, NEW t \in Data, Handle!IsPrefix(s, t), NEW n \in Nat
  PROVE  /\ Handle!Prefix(s, n) \in Data /\ Handle!IsPrefix(Handle!Prefix(s, n), t)
         /\ Handle!IsPrefix(<<>>, t) /\ <<>> \in Data /\ Handle!IsPrefix(t, t)
<1> DEFINE m == IF n < Len(s) THEN n ELSE Len(s)
<1>1. m \in 0..Len(s)
  BY DEF Data
<1>2. SubSeq(s, 1, m) \in Data /\ Len(SubSeq(s, 1, m)) = m
  BY <1>1 DEF Data
<1>3. \A i \in 1..m : SubSeq(s, 1, m)[i] = s[i]
  BY <1>1 DEF Data
<1>4. Len(s) <= Len(t) /\ \A i \in 1..Len(s) : s[i] = t[i]
  BY PrefixBytes
<1> DEFINE u == SubSeq(s, 1, m)
<1>5. Handle!IsPrefix(u, t)
  <2>1. u \in Data /\ Len(u) = m /\ m <= Len(t)
    BY <1>1, <1>2, <1>4 DEF Data
  <2>2. \A i \in 1..Len(u) : u[i] = t[i]
    BY <1>1, <1>3, <1>4, <2>1 DEF Data
  <2> HIDE DEF u
  <2> QED BY <2>1, <2>2, PrefixBytes
<1>6. <<>> \in Data /\ Len(<<>>) = 0
  BY DEF Data
<1>7. Handle!IsPrefix(<<>>, t) /\ Handle!IsPrefix(t, t)
  <2>1. Len(<<>>) <= Len(t) /\ Len(t) <= Len(t)
    BY <1>6 DEF Data
  <2>2. \A i \in 1..Len(<<>>) : <<>>[i] = t[i]
    BY <1>6
  <2> QED BY <1>6, <2>1, <2>2, PrefixBytes
<1> QED BY <1>2, <1>5, <1>6, <1>7 DEF Handle!Prefix

\* A write into the cache and the same write into what was written (write_file).
LEMMA OverPrefix ==
  ASSUME NEW s \in Data, NEW t \in Data, Handle!IsPrefix(s, t), NEW b \in Data, hSeek \in Nat,
         Len(b) <= Len(s) - hSeek
  PROVE  /\ Handle!Over(s, b) \in Data /\ Handle!Over(t, b) \in Data
         /\ Handle!IsPrefix(Handle!Over(s, b), Handle!Over(t, b))
<1>1. ASSUME NEW u \in Data, Len(s) <= Len(u)
      PROVE  /\ Handle!Over(u, b) \in Data /\ Len(Handle!Over(u, b)) = Len(u)
             /\ \A i \in 1..Len(u) :
                  Handle!Over(u, b)[i]
                    = IF i \in hSeek + 1..hSeek + Len(b) THEN b[i - hSeek] ELSE u[i]
  <2> DEFINE byte(i) == IF i \in hSeek + 1..hSeek + Len(b) THEN b[i - hSeek] ELSE u[i]
  <2>1. \A i \in 1..Len(u) : byte(i) \in FileBytes \cup {ZeroByte}
    <3> SUFFICES ASSUME NEW i \in 1..Len(u) PROVE byte(i) \in FileBytes \cup {ZeroByte}
      OBVIOUS
    <3>1. CASE i \in hSeek + 1..hSeek + Len(b)
      <4>1. i - hSeek \in 1..Len(b) BY <3>1 DEF Data
      <4> QED BY <3>1, <4>1 DEF Data
    <3>2. CASE i \notin hSeek + 1..hSeek + Len(b)
      BY <3>2 DEF Data
    <3> QED BY <3>1, <3>2
  <2>2. Handle!Over(u, b) = [i \in 1..Len(u) |-> byte(i)]
    BY DEF Handle!Over
  <2>3. Len(u) \in Nat
    BY DEF Data
  <2> HIDE DEF byte
  <2>4. [i \in 1..Len(u) |-> byte(i)] \in Data
    BY <2>1, <2>3 DEF Data
  <2>5. Len([i \in 1..Len(u) |-> byte(i)]) = Len(u)
    BY <2>3
  <2> QED BY <2>2, <2>4, <2>5 DEF byte
<1>2. Len(s) <= Len(t) /\ \A i \in 1..Len(s) : s[i] = t[i]
  BY PrefixBytes
<1>3. /\ Handle!Over(s, b) \in Data /\ Len(Handle!Over(s, b)) = Len(s)
      /\ Handle!Over(t, b) \in Data /\ Len(Handle!Over(t, b)) = Len(t)
  <2>1. Len(s) <= Len(s) BY DEF Data
  <2> QED BY <1>1, <1>2, <2>1
<1>4. \A i \in 1..Len(s) : Handle!Over(s, b)[i] = Handle!Over(t, b)[i]
  <2> SUFFICES ASSUME NEW i \in 1..Len(s)
               PROVE  Handle!Over(s, b)[i] = Handle!Over(t, b)[i]
    OBVIOUS
  <2>1. i \in 1..Len(t) BY <1>2 DEF Data
  <2>2. Len(s) <= Len(s) BY DEF Data
  <2> QED BY <1>1, <1>2, <2>1, <2>2
<1> QED BY <1>2, <1>3, <1>4, PrefixBytes
\* What a caller writes is data.
LEMMA ContentsAreData ==
  ASSUME Chunk \in Nat
  PROVE  Handle!Contents \subseteq Data
<1> SUFFICES ASSUME NEW b \in Handle!Contents PROVE b \in Data
  OBVIOUS
<1>1. PICK m \in 0..Chunk : b \in [1..m -> FileBytes]
  BY DEF Handle!Contents, Handle!SeqOf
<1>2. m \in Nat
  BY <1>1
<1>3. b \in [1..m -> FileBytes \cup {ZeroByte}]
  BY <1>1
<1> QED BY <1>2, <1>3 DEF Data

\* Whatever comes of filling the cache, it is the beginning of what was written, what waits
\* is untouched, and a cache with something in it was filled.
LEMMA RefreshedTrue ==
  ASSUME FileInv, NEW n \in Nat, NEW r \in Handle!Refreshed(n)
  PROVE  /\ r.h \in Handles
         /\ r.h.pending = hH.pending
         /\ r.h.have /\ ~r.h.refresh => Handle!IsPrefix(r.h.cache, hWant)
         /\ r.h.pending => r.h.have /\ ~r.h.refresh
         /\ r.ok => r.h.have /\ ~r.h.refresh
<1> USE DEF FileInv, FileTypeOK, CacheTrue
<1>1. CASE hH.have /\ ~hH.refresh
  <2>1. r = [h |-> hH, ok |-> TRUE]
    BY <1>1 DEF Handle!Refreshed
  <2> QED BY <1>1, <2>1
<1>2. CASE ~(hH.have /\ ~hH.refresh)
  <2>1. ~hH.pending /\ Handle!IsPrefix(hDisk, hWant)
    BY <1>2
  <2>2. /\ Handle!Prefix(hDisk, n) \in Data /\ Handle!IsPrefix(Handle!Prefix(hDisk, n), hWant)
        /\ <<>> \in Data /\ Handle!IsPrefix(<<>>, hWant)
    BY <2>1, PrefixOfPrefix
  <2> DEFINE full == [hH EXCEPT !.have = TRUE, !.cache = Handle!Prefix(hDisk, n),
                                !.refresh = FALSE]
             none == [hH EXCEPT !.have = TRUE, !.cache = <<>>]
  <2> HIDE DEF FileInv, FileTypeOK, CacheTrue
  <2>9. hH \in Handles
    BY DEF FileInv, FileTypeOK
  <2>3. /\ full \in Handles /\ full.cache = Handle!Prefix(hDisk, n) /\ full.have = TRUE
        /\ full.refresh = FALSE /\ full.pending = hH.pending
    BY <2>2, <2>9 DEF Handles
  <2>4. /\ none \in Handles /\ none.cache = <<>> /\ none.have = TRUE
        /\ none.refresh = hH.refresh /\ none.pending = hH.pending
    BY <2>2, <2>9 DEF Handles
  <2>5. \/ r = [h |-> full, ok |-> Handle!Served("read")]
        \/ r = [h |-> none, ok |-> FALSE]
        \/ ~hH.have /\ r = [h |-> hH, ok |-> FALSE]
    BY <1>2 DEF Handle!Refreshed
  <2> HIDE DEF full, none
  <2> USE DEF FileInv, FileTypeOK, CacheTrue
  <2>6. CASE r = [h |-> full, ok |-> Handle!Served("read")]
    BY <2>1, <2>2, <2>3, <2>6
  <2>7. CASE r = [h |-> none, ok |-> FALSE]
    BY <2>1, <2>2, <2>4, <2>7
  <2>8. CASE ~hH.have /\ r = [h |-> hH, ok |-> FALSE]
    BY <2>1, <2>8
  <2> QED BY <2>5, <2>6, <2>7, <2>8
<1> QED BY <1>1, <1>2

\* A call that ends with its cache filled and the rest as it was.
LEMMA CallKeeps ==
  ASSUME FileInv, NEW n \in Nat, NEW r \in Handle!Refreshed(n),
         hH' = r.h, hSeek' \in Nat, UNCHANGED <<hKind, hDisk, hWant, hState, hFailed>>
  PROVE  FileInv'
<1>1. /\ r.h \in Handles
      /\ r.h.pending = hH.pending
      /\ r.h.have /\ ~r.h.refresh => Handle!IsPrefix(r.h.cache, hWant)
      /\ r.h.pending => r.h.have /\ ~r.h.refresh
  BY RefreshedTrue
<1> QED BY <1>1 DEF FileInv, FileTypeOK, CacheTrue

\* The flush of a handle, by itself and as a part of the close (flush_file).
LEMMA FlushStepsKeep ==
  ASSUME FileInv, Handle!FlushSteps, UNCHANGED <<hWant, hSeek>>,
         hState' \in {"none", "open", "closing", "flushed"},
         hState' = hState \/ (hState' = "flushed" /\ hState # "none"),
         hState # "none"
  PROVE  FileInv'
<1> USE DEF FileInv, FileTypeOK, CacheTrue
<1>1. CASE ~hH.pending /\ UNCHANGED <<hDisk, hH, hFailed>>
  BY <1>1
<1>2. CASE /\ hH.pending /\ hDisk' = hH.cache /\ hH' = Handle!NoHandle
           /\ hFailed' = FALSE
  <2>1. hDisk' \in Data /\ Handle!IsPrefix(hDisk', hWant')
    BY <1>2 DEF Handles
  <2>2. hH' = [have |-> FALSE, cache |-> <<>>, refresh |-> TRUE, pending |-> FALSE]
    BY <1>2 DEF Handle!NoHandle
  <2>3. <<>> \in Data BY DEF Data
  <2>4. hH' \in Handles
    BY <2>2, <2>3 DEF Handles
  <2>5. hH'.have = FALSE /\ hH'.pending = FALSE
    BY <2>2
  <2> QED BY <1>2, <2>1, <2>4, <2>5
<1>3. CASE hH.pending /\ hFailed' = TRUE /\ UNCHANGED <<hDisk, hH>>
  BY <1>3
<1> QED BY <1>1, <1>2, <1>3 DEF Handle!FlushSteps
\* A write goes over the cache and over what was written alike (write_file).
LEMMA WriteKeeps ==
  ASSUME FileInv, Chunk \in Nat, NEW b \in Handle!Contents, Handle!Write(b)
  PROVE  FileInv'
<1>1. PICK r \in Handle!Refreshed(Chunk) :
        \/ Handle!Refuse(r)
        \/ /\ Handle!InFile(r, Len(b))
           /\ hH' = [r.h EXCEPT !.cache = Handle!Over(r.h.cache, b), !.pending = TRUE]
           /\ hWant' = Handle!Over(hWant, b) /\ hSeek' = hSeek + Len(b)
           /\ UNCHANGED <<hKind, hDisk, hState, hFailed>>
  BY DEF Handle!Write
<1>2. hSeek \in Nat
  BY DEF FileInv, FileTypeOK
<1>3. CASE Handle!Refuse(r)
  BY <1>2, <1>3, CallKeeps DEF Handle!Refuse
<1>4. CASE /\ Handle!InFile(r, Len(b))
           /\ hH' = [r.h EXCEPT !.cache = Handle!Over(r.h.cache, b), !.pending = TRUE]
           /\ hWant' = Handle!Over(hWant, b) /\ hSeek' = hSeek + Len(b)
           /\ UNCHANGED <<hKind, hDisk, hState, hFailed>>
  <2>1. b \in Data
    BY ContentsAreData
  <2>2. /\ r.h \in Handles /\ r.h.have /\ ~r.h.refresh
        /\ Handle!IsPrefix(r.h.cache, hWant)
    BY <1>4, RefreshedTrue DEF Handle!InFile
  <2>3. /\ r.h.cache \in Data /\ hWant \in Data
        /\ Len(b) <= Len(r.h.cache) - hSeek
    BY <1>4, <2>2 DEF Handles, FileInv, FileTypeOK, Handle!InFile
  <2> DEFINE over == Handle!Over(r.h.cache, b)
  <2>4. over \in Data /\ hWant' \in Data /\ Handle!IsPrefix(over, hWant')
    BY <1>2, <1>4, <2>1, <2>2, <2>3, OverPrefix
  <2> HIDE DEF over
  <2>5. hH' = [r.h EXCEPT !.cache = over, !.pending = TRUE]
    BY <1>4 DEF over
  <2>6. /\ hH' \in Handles /\ hH'.cache = over /\ hH'.have = r.h.have
        /\ hH'.refresh = r.h.refresh /\ hH'.pending = TRUE
    BY <2>2, <2>4, <2>5 DEF Handles
  <2>7. hSeek' \in Nat
    BY <1>2, <1>4, <2>1 DEF Data
  <2>8. hState # "none" /\ hState # "flushed"
    BY DEF Handle!Write, Handle!MayWrite, Handle!Usable
  <2>9. FileTypeOK'
    BY <1>4, <2>4, <2>6, <2>7 DEF FileInv, FileTypeOK
  <2> QED BY <1>4, <2>2, <2>4, <2>6, <2>8, <2>9 DEF FileInv, CacheTrue
<1> QED BY <1>1, <1>3, <1>4

\* An open gives out a handle that holds nothing, or the beginning of the file (fs_open).
LEMMA OpenKeeps ==
  ASSUME FileInv, Chunk \in Nat, Handle!Open
  PROVE  FileInv'
<1> DEFINE full == [Handle!NoHandle EXCEPT !.have = TRUE, !.cache = Handle!Prefix(hDisk, Chunk),
                                           !.refresh = FALSE]
           bare == [Handle!NoHandle EXCEPT !.have = TRUE]
<1>1. /\ hDisk \in Data /\ hWant \in Data /\ Handle!IsPrefix(hDisk, hWant)
      /\ hState' = "open" /\ hSeek' = 0 /\ hFailed' = FALSE
      /\ UNCHANGED <<hKind, hDisk, hWant>>
  BY DEF FileInv, FileTypeOK, Handle!Open
<1>2. /\ Handle!Prefix(hDisk, Chunk) \in Data /\ <<>> \in Data
      /\ Handle!IsPrefix(Handle!Prefix(hDisk, Chunk), hWant)
  BY <1>1, PrefixOfPrefix
<1>3. /\ Handle!NoHandle \in Handles /\ bare \in Handles /\ full \in Handles
      /\ Handle!NoHandle.have = FALSE /\ bare.refresh = TRUE
      /\ full.cache = Handle!Prefix(hDisk, Chunk)
      /\ Handle!NoHandle.pending = FALSE /\ bare.pending = FALSE /\ full.pending = FALSE
  BY <1>2 DEF Handles, Handle!NoHandle
<1>4. hH' = Handle!NoHandle \/ hH' = bare \/ hH' = full
  BY DEF Handle!Open
<1> HIDE DEF full, bare
<1>5. hH' \in Handles /\ hH'.pending = FALSE
  BY <1>3, <1>4
<1>6. hH'.have /\ ~hH'.refresh => hH' = full
  BY <1>3, <1>4
<1>7. FileTypeOK'
  BY <1>1, <1>5 DEF FileTypeOK
<1> QED BY <1>1, <1>2, <1>3, <1>5, <1>6, <1>7 DEF FileInv, CacheTrue

\* The handle goes: nothing waited that PBFS had not refused (fs_close).
LEMMA CloseFreeKeeps ==
  ASSUME FileInv, Handle!CloseFree
  PROVE  FileInv'
<1>1. /\ hState = "flushed" /\ hState' = "none" /\ hH' = Handle!NoHandle
      /\ hWant' = (IF hFailed THEN hDisk ELSE hWant) /\ UNCHANGED <<hKind, hDisk, hSeek, hFailed>>
  BY DEF Handle!CloseFree
<1>2. <<>> \in Data
  BY DEF Data
<1>3. hH' \in Handles /\ hH'.have = FALSE /\ hH'.pending = FALSE
  BY <1>1, <1>2 DEF Handles, Handle!NoHandle
<1>4. Handle!IsPrefix(hDisk, hDisk)
  <2>1. hDisk \in Data /\ Len(hDisk) <= Len(hDisk)
    BY DEF FileInv, FileTypeOK, Data
  <2> QED BY <2>1, PrefixBytes
<1>5. Handle!IsPrefix(hDisk', hWant')
  BY <1>1, <1>4 DEF FileInv
<1>6. FileTypeOK'
  BY <1>1, <1>3 DEF FileInv, FileTypeOK
<1> QED BY <1>1, <1>3, <1>5, <1>6 DEF FileInv, CacheTrue

\* The invariant of an open file is inductive (fs.c), for any chunk size and any bytes.
THEOREM FileInductive == Chunk \in Nat => (FileSpec => []FileInv)
<1> SUFFICES ASSUME Chunk \in Nat PROVE FileSpec => []FileInv
  OBVIOUS
<1>1. Handle!Init => FileInv
  <2> SUFFICES ASSUME Handle!Init PROVE FileInv
    OBVIOUS
  <2>1. hDisk \in Data
    <3>1. CASE hKind = "plain"
      BY <3>1, ContentsAreData DEF Handle!Init
    <3>2. CASE hKind # "plain"
      <4>1. hDisk = [i \in 1..Chunk |-> ZeroByte]
        BY <3>2 DEF Handle!Init
      <4>2. hDisk \in [1..Chunk -> FileBytes \cup {ZeroByte}]
        BY <4>1
      <4> QED BY <4>2 DEF Data
    <3> QED BY <3>1, <3>2
  <2>2. hWant = hDisk /\ hState = "none" /\ hH = Handle!NoHandle /\ hSeek = 0 /\ hFailed = FALSE
    BY DEF Handle!Init
  <2>3. <<>> \in Data
    BY DEF Data
  <2>4. hH \in Handles /\ hH.have = FALSE /\ hH.pending = FALSE
    BY <2>2, <2>3 DEF Handles, Handle!NoHandle
  <2>5. Handle!IsPrefix(hDisk, hWant)
    <3>1. Len(hDisk) <= Len(hDisk)
      BY <2>1 DEF Data
    <3> QED BY <2>1, <2>2, <3>1, PrefixBytes
  <2>6. FileTypeOK
    BY <2>1, <2>2, <2>4 DEF FileTypeOK
  <2> QED BY <2>2, <2>4, <2>5, <2>6 DEF FileInv, CacheTrue
<1>2. FileInv /\ [Handle!Next]_(Handle!fileVars) => FileInv'
  <2> SUFFICES ASSUME FileInv, [Handle!Next]_(Handle!fileVars) PROVE FileInv'
    OBVIOUS
  <2>1. ASSUME NEW n \in 1..Chunk, Handle!Read(n) PROVE FileInv'
    <3>1. PICK r \in Handle!Refreshed(n) :
            \/ Handle!Refuse(r)
            \/ hH' = r.h /\ hSeek' = hSeek + n /\ UNCHANGED <<hKind, hDisk, hWant, hState, hFailed>>
      BY <2>1 DEF Handle!Read
    <3>2. n \in Nat /\ hSeek \in Nat /\ hSeek + n \in Nat
      BY DEF FileInv, FileTypeOK
    <3> QED BY <3>1, <3>2, CallKeeps DEF Handle!Refuse
  <2>2. ASSUME NEW b \in Handle!Contents \ {<<>>}, Handle!Write(b) PROVE FileInv'
    BY <2>2, WriteKeeps
  <2>3. ASSUME NEW mode, NEW to \in 0..Chunk, Handle!Seek(mode, to) PROVE FileInv'
    <3>1. PICK r \in Handle!Refreshed(Chunk) :
            \/ Handle!Refuse(r)
            \/ /\ Handle!Target(mode, to, Len(r.h.cache)) \in 0..Len(r.h.cache)
               /\ hSeek' = Handle!Target(mode, to, Len(r.h.cache)) /\ hH' = r.h
               /\ UNCHANGED <<hKind, hDisk, hWant, hState, hFailed>>
      BY <2>3 DEF Handle!Seek
    <3>2. r.h.cache \in Data
      BY RefreshedTrue DEF Handles
    <3>3. Len(r.h.cache) \in Nat
      BY <3>2 DEF Data
    <3>4. hSeek \in Nat
      BY DEF FileInv, FileTypeOK
    <3> QED BY <3>1, <3>3, <3>4, CallKeeps DEF Handle!Refuse
  <2>4. CASE Handle!Flush
    BY <2>4, FlushStepsKeep DEF Handle!Flush, FileInv, FileTypeOK
  <2>5. CASE Handle!Open
    BY <2>5, OpenKeeps
  <2>6. CASE Handle!CloseMark
    BY <2>6 DEF Handle!CloseMark, FileInv, FileTypeOK, CacheTrue
  <2>7. CASE Handle!CloseFlush
    BY <2>7, FlushStepsKeep DEF Handle!CloseFlush
  <2>8. CASE Handle!CloseFree
    BY <2>8, CloseFreeKeeps
  <2>9. CASE UNCHANGED Handle!fileVars
    BY <2>9 DEF Handle!fileVars, FileInv, FileTypeOK, CacheTrue
  <2> QED
    BY <2>1, <2>2, <2>3, <2>4, <2>5, <2>6, <2>7, <2>8, <2>9 DEF Handle!Next
<1> QED BY <1>1, <1>2, PTL DEF FileSpec

\* A write that returned TRUE is in the cache until PBFS has it and then on the disk, for any
\* chunk size, any file and any order of calls (fs.c 30-300).
THEOREM FileKeepsWrites == Chunk \in Nat => (FileSpec => []Handle!WritesKept)
<1>1. FileInv => Handle!WritesKept
  BY DEF FileInv, CacheTrue, Handle!WritesKept
<1> QED BY <1>1, FileInductive, PTL

-----------------------------------------------------------------------------
(***************************************************************************)
(* The table of drivers (ModuleRegistry), for any number of PCI functions  *)
(* and any step by which the table grows. An entry is of one function that *)
(* was scanned, and no two are of the same one, so that a copy that is     *)
(* freed is in the table no longer.                                        *)
(***************************************************************************)

RegistrySpec == Drivers!Init /\ [][Drivers!Next]_(Drivers!registryVars)

RegistrySensible == Functions \in Nat /\ TableStep \in Nat \ {0}

\* The drivers, and what an entry of the table may be.
DriverSet == {Drivers!Drivers[i] : i \in 1..4}
Copies == {[at |-> p, type |-> d.type, driver |-> d] : p \in 1..Functions, d \in DriverSet}

\* The types; the bus is what was scanned.
RegistryTyped ==
  /\ rReg \in Seq(Copies \cup {Drivers!Hole}) /\ rCap \in Nat /\ Len(rReg) <= rCap
  /\ rBus \in Seq(Drivers!Kinds) /\ rPos \in Nat \ {0} /\ Len(rBus) = rPos - 1
  /\ rPos <= Functions + 1
  /\ rBoot \in 1..Functions

\* An entry is of a function that was scanned, and no two are of the same one.
EntriesOwn ==
  /\ \A i \in 1..Len(rReg) : rReg[i] # Drivers!Hole =>
       /\ rReg[i].at < rPos /\ rReg[i].at \in rLive
       /\ rReg[i].driver.early => rReg[i].at \in rReady
       /\ rReg[i].driver.class = rBus[rReg[i].at].class
  /\ \A i, j \in 1..Len(rReg) :
       rReg[i] # Drivers!Hole /\ rReg[j] # Drivers!Hole /\ rReg[i].at = rReg[j].at => i = j

\* The inductive invariant.
RegistryInv ==
  /\ RegistryTyped /\ EntriesOwn /\ Drivers!BootDriveFound
  /\ rDrive # Drivers!NotSearched => rPos > Functions

-----------------------------------------------------------------------------
\* Places of a table of n entries, and those before one of them.
PlacesOf(n) == SUBSET (1..n)
EarlierOnes(fitting, i) == {j \in fitting : j < i}

\* Of the places before one there are fewer than places, and more before a later one.
LEMMA Counting ==
  ASSUME NEW n \in Nat, NEW fitting \in PlacesOf(n)
  PROVE  /\ \A i \in fitting : Cardinality(EarlierOnes(fitting, i)) \in 0..n - 1
         /\ \A i, j \in fitting :
              Cardinality(EarlierOnes(fitting, i)) = Cardinality(EarlierOnes(fitting, j)) => i = j
<1>0. \A i \in fitting : i \in 1..n /\ i \in Int BY DEF PlacesOf
<1>1. \A i \in fitting : /\ EarlierOnes(fitting, i) \subseteq 1..i - 1
                         /\ IsFiniteSet(EarlierOnes(fitting, i))
                         /\ Cardinality(EarlierOnes(fitting, i)) \in Nat
                         /\ Cardinality(EarlierOnes(fitting, i)) <= i - 1
  <2> TAKE i \in fitting
  <2>1. EarlierOnes(fitting, i) \subseteq 1..i - 1
    <3> SUFFICES ASSUME NEW j \in fitting, j < i PROVE j \in 1..i - 1
      BY DEF EarlierOnes
    <3>1. i \in Int /\ j \in Int /\ j >= 1 BY <1>0
    <3> QED BY <3>1
  <2>2. i - 1 \in Nat BY <1>0
  <2>3. IsFiniteSet(1..i - 1) /\ Cardinality(1..i - 1) = i - 1
    BY <2>2, FS_Interval
  <2>4. IsFiniteSet(EarlierOnes(fitting, i)) /\ Cardinality(EarlierOnes(fitting, i)) <= i - 1
    BY <2>1, <2>3, FS_Subset
  <2> QED BY <2>1, <2>4, FS_CardinalityType
<1>2. ASSUME NEW i \in fitting, NEW j \in fitting, i < j
      PROVE  Cardinality(EarlierOnes(fitting, i)) < Cardinality(EarlierOnes(fitting, j))
  <2>1. EarlierOnes(fitting, i) \subseteq EarlierOnes(fitting, j)
    <3> SUFFICES ASSUME NEW l \in fitting, l < i PROVE l < j
      BY DEF EarlierOnes
    <3>1. i \in Int /\ j \in Int /\ l \in Int BY <1>0
    <3> QED BY <3>1, <1>2
  <2>2. i \in EarlierOnes(fitting, j) /\ i \notin EarlierOnes(fitting, i) BY <1>0,
        <1>2 DEF EarlierOnes
  <2>3. Cardinality(EarlierOnes(fitting, i)) <= Cardinality(EarlierOnes(fitting, j))
        /\ (Cardinality(EarlierOnes(fitting, i)) = Cardinality(EarlierOnes(fitting, j))
              => EarlierOnes(fitting, i) = EarlierOnes(fitting, j))
    BY <1>1, <2>1, FS_Subset
  <2> QED BY <1>1, <2>2, <2>3
<1>3. ASSUME NEW i \in fitting, NEW j \in fitting,
             Cardinality(EarlierOnes(fitting, i)) = Cardinality(EarlierOnes(fitting, j))
      PROVE  i = j
  <2>1. i < j \/ j < i \/ i = j BY <1>0
  <2> QED BY <2>1, <1>1, <1>2, <1>3
<1> QED BY <1>0, <1>1, <1>3

\* The module counts with the library's Cardinality.
LEMMA SameCount == \A S : Drivers!Cardinality(S) = Cardinality(S)
  BY DEF Cardinality, Drivers!Cardinality, IsFiniteSet, Drivers!IsFiniteSet

\* The search gives an entry that fits, each at one count, or none.
LEMMA NthGives ==
  ASSUME NEW s, NEW n \in Nat, NEW fitting \in PlacesOf(n), NEW k
  PROVE  /\ \/ Drivers!Nth(s, fitting, k) = Drivers!Hole
            \/ \E i \in fitting : Drivers!Nth(s, fitting, k) = s[i]
         /\ \A i \in fitting :
              k = Cardinality(EarlierOnes(fitting, i)) => Drivers!Nth(s, fitting, k) = s[i]
<1> DEFINE hits == {i \in fitting : Drivers!Cardinality({j \in fitting : j < i}) = k}
<1>0. \A i \in fitting :
        Drivers!Cardinality({j \in fitting : j < i}) = Cardinality(EarlierOnes(fitting, i))
  BY SameCount DEF EarlierOnes
<1>1. Drivers!Nth(s, fitting, k) = IF hits = {} THEN Drivers!Hole ELSE s[CHOOSE i \in hits : TRUE]
  BY DEF Drivers!Nth
<1>2. ASSUME NEW i \in hits PROVE Drivers!Nth(s, fitting, k) = s[i]
  <2> DEFINE c == CHOOSE j \in hits : TRUE
  <2>1. c \in hits BY <1>2
  <2>2. c \in fitting /\ Cardinality(EarlierOnes(fitting, c)) = k BY <2>1, <1>0
  <2>3. i \in fitting /\ Cardinality(EarlierOnes(fitting, i)) = k BY <1>0
  <2>4. c = i BY <2>2, <2>3, Counting
  <2> QED BY <1>1, <1>2, <2>4
<1> QED BY <1>0, <1>1, <1>2

\* The first of them is found when there is one.
LEMMA FirstGives ==
  ASSUME NEW s, NEW n \in Nat, NEW fitting \in PlacesOf(n), fitting # {}
  PROVE  \E i \in fitting : Drivers!Nth(s, fitting, 0) = s[i]
<1>0. fitting \subseteq Nat BY DEF PlacesOf
<1>1. PICK i \in fitting : \A j \in fitting : i <= j
  BY <1>0, NatLeast
<1>2. EarlierOnes(fitting, i) = {}
  <2> SUFFICES ASSUME NEW j \in fitting, j < i PROVE FALSE
    BY DEF EarlierOnes
  <2>1. i \in Int /\ j \in Int /\ i <= j BY <1>0, <1>1
  <2> QED BY <2>1
<1>3. Cardinality(EarlierOnes(fitting, i)) = 0 BY <1>2, FS_EmptySet
<1>4. Drivers!Nth(s, fitting, 0) = s[i] BY <1>3, NthGives
<1> QED BY <1>4

-----------------------------------------------------------------------------
\* The drivers there are.
LEMMA DriversAre ==
  /\ Len(Drivers!Drivers) = 4
  /\ \A d \in DriverSet : /\ d # Drivers!Hole
                          /\ d.type = "sata" => d.class = "storage"
<1>1. Len(Drivers!Drivers) = 4 BY DEF Drivers!Drivers
<1>2. ASSUME NEW i \in 1..4
      PROVE  Drivers!Drivers[i] # Drivers!Hole
             /\ (Drivers!Drivers[i].type = "sata" => Drivers!Drivers[i].class = "storage")
  <2>1. i = 1 \/ i = 2 \/ i = 3 \/ i = 4 OBVIOUS
  <2> QED BY <2>1 DEF Drivers!Drivers, Drivers!Driver, Drivers!Hole
<1> QED BY <1>1, <1>2 DEF DriverSet

\* A copy says what it is a copy of.
LEMMA CopiesAre ==
  \A m \in Copies : /\ m # Drivers!Hole /\ m.at \in 1..Functions /\ m.driver \in DriverSet
                    /\ m.type = m.driver.type
                    /\ m = [at |-> m.at, type |-> m.driver.type, driver |-> m.driver]
  BY DEF Copies, Drivers!Hole

\* An empty table.
LEMMA RegistryBegins == RegistrySensible /\ Drivers!Init => RegistryInv
  BY DEF RegistrySensible, Drivers!Init, RegistryInv, RegistryTyped, EntriesOwn,
       Drivers!BootDriveFound,
     Drivers!Registered, Drivers!NotSearched, Drivers!Failed

\* What the driver of a function is: one that fits its class.
LEMMA DriverOfFunction ==
  ASSUME NEW f \in Drivers!Kinds
  PROVE  Drivers!ApplicableDriver(f, 0) # Drivers!Hole =>
           /\ Drivers!ApplicableDriver(f, 0) \in DriverSet
           /\ Drivers!ApplicableDriver(f, 0).class = f.class
<1> DEFINE fitting == {i \in 1..Len(Drivers!Drivers) : Drivers!Fits(Drivers!Drivers[i], f)}
<1>1. fitting \in PlacesOf(4) BY DriversAre DEF PlacesOf
<1>2. Drivers!ApplicableDriver(f, 0) = Drivers!Hole
      \/ \E i \in fitting : Drivers!ApplicableDriver(f, 0) = Drivers!Drivers[i]
  <2>1. Drivers!ApplicableDriver(f, 0)
        = Drivers!Nth(Drivers!Drivers, fitting, 0) BY DEF Drivers!ApplicableDriver
  <2> HIDE DEF fitting
  <2> QED BY <1>1, <2>1, NthGives
<1>3. ASSUME NEW i \in fitting PROVE Drivers!Drivers[i] \in DriverSet
      /\ Drivers!Drivers[i].class = f.class
  BY <1>1 DEF Drivers!Fits, DriverSet, PlacesOf
<1> HIDE DEF fitting
<1> QED BY <1>2, <1>3

\* The least hole is one.
LEMMA HoleFirst ==
  ASSUME RegistryInv, Drivers!Holes # {}
  PROVE  Drivers!FirstHole \in 1..Len(rReg) /\ rReg[Drivers!FirstHole] = Drivers!Hole
<1>1. Drivers!Holes \subseteq Nat BY DEF Drivers!Holes
<1>2. \E i \in Drivers!Holes : \A j \in Drivers!Holes : i <= j BY <1>1, NatLeast
<1>3. Drivers!FirstHole \in Drivers!Holes BY <1>2 DEF Drivers!FirstHole
<1> QED BY <1>3 DEF Drivers!Holes

\* A step that leaves the table, the scan and what was found as they are.
LEMMA RegistryAlike ==
  ASSUME RegistryInv, rReg' = rReg, rCap' = rCap, rBus' = rBus, rPos' = rPos, rBoot' = rBoot,
         rLive' = rLive, rReady' = rReady, rWorks' = rWorks, rDrive' = rDrive
  PROVE  RegistryInv'
<1>1. RegistryTyped' BY DEF RegistryInv, RegistryTyped
<1>2. EntriesOwn' BY DEF RegistryInv, EntriesOwn
<1>3. Drivers!BootDriveFound' BY DEF RegistryInv, Drivers!BootDriveFound, Drivers!Registered
<1> QED BY <1>1, <1>2, <1>3 DEF RegistryInv

\* One copy more, of the function that was scanned.
LEMMA RegisterKeeps ==
  ASSUME RegistrySensible, RegistryInv, NEW f \in Drivers!Kinds, NEW d \in DriverSet, NEW m,
         rPos <= Functions, rPos' = rPos + 1, rBus' = Append(rBus, f), d.class = f.class,
         m = [at |-> rPos, type |-> d.type, driver |-> d], Drivers!Register(m),
         rLive' = rLive \cup {rPos}, rReady' = IF d.early THEN rReady \cup {rPos} ELSE rReady,
         rBoot' = rBoot, rWorks' = rWorks, rDrive' = rDrive
  PROVE  RegistryInv'
<1> DEFINE C == Copies \cup {Drivers!Hole}
<1>1. /\ rReg \in Seq(C) /\ rCap \in Nat /\ Len(rReg) <= rCap /\ rBus \in Seq(Drivers!Kinds)
      /\ rPos \in Nat \ {0} /\ Len(rBus) = rPos - 1 /\ Len(rReg) \in Nat
  BY DEF RegistryInv, RegistryTyped
<1>2. m \in Copies /\ m.at = rPos /\ m.driver = d /\ m # Drivers!Hole
  <2>1. rPos \in 1..Functions BY <1>1 DEF RegistrySensible
  <2>2. m \in Copies BY <2>1 DEF Copies
  <2> QED BY <2>2, CopiesAre
<1>3. /\ rBus' \in Seq(Drivers!Kinds) /\ Len(rBus') = rPos /\ rBus'[rPos] = f
      /\ \A p \in 1..rPos - 1 : rBus'[p] = rBus[p]
  BY <1>1
\* The table holds the new copy at one place, and at the others what it held.
<1>4. \/ rReg' = rReg /\ rCap' = rCap
      \/ \E k \in Nat \ {0} :
           /\ rReg' \in Seq(C) /\ Len(rReg') <= rCap' /\ rCap' \in Nat /\ k \in 1..Len(rReg')
           /\ rReg'[k] = m
           /\ \A i \in 1..Len(rReg') : i # k => i \in 1..Len(rReg) /\ rReg'[i] = rReg[i]
  <2>1. CASE Drivers!Holes # {} /\ rReg' = [rReg EXCEPT ![Drivers!FirstHole] = m] /\ rCap' = rCap
    <3>1. PICK k \in 1..Len(rReg) : k = Drivers!FirstHole BY <2>1, HoleFirst
    <3>2. rReg' \in Seq(C) /\ Len(rReg') = Len(rReg) /\ rReg'[k] = m
          /\ \A i \in 1..Len(rReg) : i # k => rReg'[i] = rReg[i]
      BY <1>1, <1>2, <2>1, <3>1
    <3> QED BY <3>2, <2>1, <1>1
  <2>2. CASE rReg' = Append(rReg, m) /\ rCap' \in Nat /\ Len(rReg) < rCap'
    <3>1. rReg' \in Seq(C) /\ Len(rReg') = Len(rReg) + 1 /\ rReg'[Len(rReg) + 1] = m
          /\ \A i \in 1..Len(rReg) : rReg'[i] = rReg[i]
      BY <1>1, <1>2, <2>2
    <3>2. /\ Len(rReg) + 1 \in Nat \ {0} /\ Len(rReg') <= rCap' /\ Len(rReg) + 1 \in 1..Len(rReg')
          /\ \A i \in 1..Len(rReg') : i # Len(rReg) + 1 => i \in 1..Len(rReg)
      BY <1>1, <2>2, <3>1
    <3> QED BY <3>1, <3>2, <2>2
  <2>3. CASE Drivers!Holes = {} /\ Len(rReg) < rCap /\ rReg' = Append(rReg, m) /\ UNCHANGED rCap
    BY <2>2, <2>3, <1>1
  <2>4. CASE Drivers!Holes = {} /\ Len(rReg) >= rCap /\ rCap' = rCap + TableStep
             /\ rReg' = Append(rReg, m)
    <3>1. rCap + TableStep \in Nat /\ Len(rReg) < rCap + TableStep BY <1>1 DEF RegistrySensible
    <3> QED BY <3>1, <2>2, <2>4
  <2> QED BY <2>1, <2>3, <2>4 DEF Drivers!Register
<1>5. rDrive' = Drivers!NotSearched BY <1>1 DEF RegistryInv, RegistrySensible
<1>6. Drivers!BootDriveFound'
  BY <1>5 DEF Drivers!BootDriveFound, Drivers!NotSearched, Drivers!Failed
<1>7. rPos' \in Nat \ {0} /\ Len(rBus') = rPos' - 1 /\ rPos' <= Functions + 1
      /\ (rDrive' # Drivers!NotSearched => rPos' > Functions)
  BY <1>1, <1>3, <1>5 DEF RegistrySensible
<1>8. \A i \in 1..Len(rReg) : rReg[i] # Drivers!Hole =>
        /\ rReg[i].at \in 1..rPos - 1 /\ rReg[i].at \in rLive
        /\ (rReg[i].driver.early => rReg[i].at \in rReady)
        /\ rReg[i].driver.class = rBus[rReg[i].at].class
  <2> SUFFICES ASSUME NEW i \in 1..Len(rReg), rReg[i] # Drivers!Hole PROVE rReg[i].at
       \in 1..rPos - 1
    BY DEF RegistryInv, EntriesOwn
  <2>1. rReg[i] \in Copies BY <1>1
  <2>2. rReg[i].at \in 1..Functions /\ rReg[i].at < rPos
    BY <2>1, CopiesAre DEF RegistryInv, EntriesOwn
  <2> QED BY <2>2, <1>1 DEF RegistrySensible
<1>9. RegistryTyped' /\ EntriesOwn'
  <2>1. CASE rReg' = rReg /\ rCap' = rCap
    <3>1. RegistryTyped' BY <2>1, <1>1, <1>3, <1>7 DEF RegistryInv, RegistryTyped
    <3>2. EntriesOwn'
      BY <2>1, <1>1, <1>3, <1>8 DEF RegistryInv, EntriesOwn
    <3> QED BY <3>1, <3>2
  <2>2. ASSUME NEW k \in Nat \ {0},
               rReg' \in Seq(C), Len(rReg') <= rCap', rCap' \in Nat, k \in 1..Len(rReg'),
                    rReg'[k] = m,
               \A i \in 1..Len(rReg') : i # k => i \in 1..Len(rReg) /\ rReg'[i] = rReg[i]
        PROVE  RegistryTyped' /\ EntriesOwn'
    <3>1. RegistryTyped' BY <2>2, <1>1, <1>3, <1>7 DEF RegistryInv, RegistryTyped
    <3>2. ASSUME NEW i \in 1..Len(rReg'), rReg'[i] # Drivers!Hole
          PROVE  /\ rReg'[i].at < rPos' /\ rReg'[i].at \in rLive'
                 /\ (rReg'[i].driver.early => rReg'[i].at \in rReady')
                 /\ rReg'[i].driver.class = rBus'[rReg'[i].at].class
      <4>1. CASE i = k
        BY <4>1, <2>2, <1>1, <1>2, <1>3
      <4>2. CASE i # k
        <5>1. rReg'[i] = rReg[i] /\ i \in 1..Len(rReg) BY <4>2, <2>2
        <5>2. rBus'[rReg[i].at] = rBus[rReg[i].at] BY <5>1, <3>2, <1>3, <1>8
        <5> QED BY <5>1, <5>2, <3>2, <1>1, <1>8
      <4> QED BY <4>1, <4>2
    <3>3. ASSUME NEW i \in 1..Len(rReg'), NEW j \in 1..Len(rReg'), rReg'[i] # Drivers!Hole,
                 rReg'[j] # Drivers!Hole, rReg'[i].at = rReg'[j].at
          PROVE  i = j
      <4>1. CASE i # k /\ j # k
        BY <4>1, <3>3, <2>2 DEF RegistryInv, EntriesOwn
      <4>2. ASSUME NEW l
            \in 1..Len(rReg'), l # k, rReg'[l] # Drivers!Hole PROVE rReg'[l].at # rReg'[k].at
        <5>1. rReg'[l] = rReg[l] /\ l \in 1..Len(rReg) BY <4>2, <2>2
        <5>2. rReg[l].at \in 1..rPos - 1 BY <5>1, <4>2, <1>8
        <5> QED BY <5>1, <5>2, <2>2, <1>1, <1>2
      <4> QED BY <4>1, <4>2, <3>3
    <3> QED BY <3>1, <3>2, <3>3 DEF EntriesOwn
  <2> HIDE DEF C
  <2> QED BY <1>4, <2>1, <2>2
<1> QED BY <1>6, <1>7, <1>9 DEF RegistryInv

\* A function without a driver, or whose driver does not start.
LEMMA SkipKeeps ==
  ASSUME RegistrySensible, RegistryInv, NEW f \in Drivers!Kinds,
         rPos <= Functions, rPos' = rPos + 1, rBus' = Append(rBus, f),
         UNCHANGED <<rReg, rCap, rLive, rReady>>, rBoot' = rBoot, rWorks' = rWorks, rDrive' = rDrive
  PROVE  RegistryInv'
<1>1. /\ rBus \in Seq(Drivers!Kinds) /\ rPos \in Nat \ {0} /\ Len(rBus) = rPos - 1
  BY DEF RegistryInv, RegistryTyped
<1>2. rBus' \in Seq(Drivers!Kinds) /\ Len(rBus') = rPos /\ \A p \in 1..rPos - 1 : rBus'[p] = rBus[p]
  BY <1>1
<1>3. RegistryTyped'
  BY <1>1, <1>2 DEF RegistryInv, RegistryTyped, RegistrySensible
<1>4. EntriesOwn'
  <2>1. \A i \in 1..Len(rReg) : rReg[i] # Drivers!Hole => rReg[i].at \in 1..rPos - 1
    <3> SUFFICES ASSUME NEW i \in 1..Len(rReg), rReg[i] # Drivers!Hole PROVE rReg[i].at
         \in 1..rPos - 1
      OBVIOUS
    <3>1. rReg[i] \in Copies BY DEF RegistryInv, RegistryTyped
    <3>2. rReg[i].at \in 1..Functions /\ rReg[i].at < rPos
      BY <3>1, CopiesAre DEF RegistryInv, EntriesOwn
    <3> QED BY <3>2, <1>1 DEF RegistrySensible
  <2> QED BY <2>1, <1>1, <1>2 DEF RegistryInv, EntriesOwn
<1>5. rDrive' = Drivers!NotSearched BY <1>1 DEF RegistryInv, RegistrySensible
<1> QED BY <1>3, <1>4, <1>5 DEF RegistryInv, Drivers!BootDriveFound, Drivers!NotSearched,
     Drivers!Failed

\* pcie_init, one function.
LEMMA ScanKeeps ==
  ASSUME RegistrySensible, RegistryInv, NEW f \in Drivers!Kinds, Drivers!Scan(f)
  PROVE  RegistryInv'
<1> DEFINE d == Drivers!ApplicableDriver(f, 0)
           m == [at |-> rPos, type |-> d.type, driver |-> d]
<1>1. /\ rPos <= Functions /\ rPos' = rPos + 1 /\ rBus' = Append(rBus, f)
      /\ rBoot' = rBoot /\ rWorks' = rWorks /\ rDrive' = rDrive
  BY DEF Drivers!Scan
<1>2. \/ UNCHANGED <<rReg, rCap, rLive, rReady>>
      \/ /\ d # Drivers!Hole /\ rLive' = rLive \cup {rPos}
         /\ rReady' = IF d.early THEN rReady \cup {rPos} ELSE rReady
         /\ Drivers!Register(m)
  BY DEF Drivers!Scan, Drivers!FailedInit
<1>3. d # Drivers!Hole => d \in DriverSet /\ d.class = f.class
  BY DriverOfFunction
<1> HIDE DEF d
<1>4. CASE UNCHANGED <<rReg, rCap, rLive, rReady>> BY <1>1, <1>4, SkipKeeps
<1>5. CASE /\ d # Drivers!Hole /\ rLive' = rLive \cup {rPos}
           /\ rReady' = IF d.early THEN rReady \cup {rPos} ELSE rReady
           /\ Drivers!Register(m)
  <2>1. PICK e \in DriverSet : e = d /\ e.class = f.class BY <1>3, <1>5
  <2>2. PICK c : c = m OBVIOUS
  <2>3. c = [at |-> rPos, type |-> e.type, driver |-> e] /\ Drivers!Register(c)
        /\ rLive' = rLive \cup {rPos} /\ rReady' = IF e.early THEN rReady \cup {rPos} ELSE rReady
    BY <2>1, <2>2, <1>5
  <2> QED BY <2>1, <2>3, <1>1, RegisterKeeps
<1> QED BY <1>2, <1>4, <1>5

\* An entry that is taken out leaves a hole, and its copy may be freed.
LEMMA UnregisterKeeps ==
  ASSUME RegistryInv, NEW k \in 1..Len(rReg), NEW dealloc \in BOOLEAN, rReg[k] # Drivers!Hole,
         Drivers!Unregister(rReg[k], dealloc)
  PROVE  RegistryInv'
<1> DEFINE C == Copies \cup {Drivers!Hole}
<1>1. rReg \in Seq(C) /\ Len(rReg) \in Nat BY DEF RegistryInv, RegistryTyped
<1>2. /\ rReg' = [i \in 1..Len(rReg) |-> IF rReg[i] = rReg[k] THEN Drivers!Hole ELSE rReg[i]]
      /\ rLive' = IF dealloc THEN rLive \ {rReg[k].at} ELSE rLive
      /\ UNCHANGED <<rBus, rBoot, rPos, rCap, rReady, rWorks, rDrive, rAny, rGpu>>
      /\ rDrive = Drivers!NotSearched
  BY DEF Drivers!Unregister
<1>3. rReg' \in Seq(C) /\ Len(rReg') = Len(rReg)
      /\ \A i \in 1..Len(rReg) : rReg'[i] = IF rReg[i] = rReg[k] THEN Drivers!Hole ELSE rReg[i]
  BY <1>1, <1>2
<1>4. RegistryTyped' BY <1>2, <1>3 DEF RegistryInv, RegistryTyped
<1>5. EntriesOwn'
  <2>1. \A i \in 1..Len(rReg) : rReg'[i] # Drivers!Hole =>
          rReg'[i] = rReg[i] /\ rReg[i] # rReg[k] /\ rReg[i] # Drivers!Hole
               /\ rReg[i].at # rReg[k].at
    BY <1>3 DEF RegistryInv, EntriesOwn
  <2> QED BY <2>1, <1>2, <1>3 DEF RegistryInv, EntriesOwn
<1> QED BY <1>2, <1>4, <1>5 DEF RegistryInv, Drivers!BootDriveFound, Drivers!NotSearched,
     Drivers!Failed

\* Of the storage entries each is among the candidates, and no candidate is another entry.
LEMMA CandidatesAre ==
  ASSUME RegistryInv, Drivers!Scanned
  PROVE  /\ DOMAIN Drivers!Candidates = 1..Len(rReg)
         /\ \A k \in 1..Len(rReg) : Drivers!Candidates[k] = Drivers!Hole
              \/ Drivers!Candidates[k] \in Drivers!Registered
         /\ \A m \in Drivers!Registered : m.driver.class = "storage" =>
              \E k \in 1..Len(rReg) : Drivers!Candidates[k] = m
<1>1. PICK n \in Nat : n = Len(rReg) /\ rReg \in Seq(Copies \cup {Drivers!Hole})
  BY DEF RegistryInv, RegistryTyped
<1> DEFINE fitting == {i \in 1..Len(rReg) : Drivers!Fits(rReg[i].driver, Drivers!Storage)}
<1>2. fitting \in PlacesOf(n) BY <1>1 DEF PlacesOf
<1>3. /\ DOMAIN Drivers!Candidates = 1..n
      /\ \A k \in 1..n : Drivers!Candidates[k] = Drivers!Nth(rReg, fitting, k - 1)
  BY <1>1 DEF Drivers!Candidates, Drivers!ApplicableRegistered
<1>4. \A i \in 1..n : rReg[i] # Drivers!Hole /\ rReg[i] \in Drivers!Registered
  BY <1>1 DEF Drivers!Scanned, Drivers!Holes, Drivers!Registered
<1>5. ASSUME NEW k \in 1..n PROVE Drivers!Candidates[k] = Drivers!Hole
      \/ Drivers!Candidates[k] \in Drivers!Registered
  <2>1. Drivers!Nth(rReg, fitting, k - 1) = Drivers!Hole
        \/ \E i \in fitting : Drivers!Nth(rReg, fitting, k - 1) = rReg[i]
    <3> HIDE DEF fitting
    <3> QED BY <1>2, NthGives
  <2> QED BY <2>1, <1>1, <1>3, <1>4
<1>6. ASSUME NEW m \in Drivers!Registered, m.driver.class = "storage"
      PROVE  \E k \in 1..n : Drivers!Candidates[k] = m
  <2>1. PICK i \in 1..n : rReg[i] = m BY <1>1 DEF Drivers!Registered
  <2>2. i \in fitting
    BY <2>1, <1>1, <1>6 DEF Drivers!Fits, Drivers!Storage, Drivers!Agree
  <2> DEFINE c == Cardinality(EarlierOnes(fitting, i))
  <2> HIDE DEF fitting
  <2>3. c \in 0..n - 1 BY <2>2, <1>2, Counting
  <2>4. Drivers!Nth(rReg, fitting, c) = rReg[i] BY <2>2, <1>2, NthGives
  <2> HIDE DEF c
  <2>5. c + 1 \in 1..n /\ (c + 1) - 1 = c BY <2>3
  <2>6. Drivers!Candidates[c + 1] = m BY <2>1, <2>4, <2>5, <1>3
  <2> QED BY <2>5, <2>6
<1> QED BY <1>1, <1>3, <1>5, <1>6

\* The search for the boot drive (get_available_drives_pcie).
LEMMA BootSearchKeeps ==
  ASSUME RegistrySensible, RegistryInv, Drivers!FindBootDrive
  PROVE  RegistryInv'
<1> DEFINE matching == {i \in DOMAIN Drivers!Candidates :
                          Drivers!Candidates[i].at = rBoot /\ Drivers!Candidates[i].type = "sata"}
           m == Drivers!Nth(Drivers!Candidates, matching, 0)
<1>1. /\ Drivers!Scanned
         /\ rDrive' = IF m = Drivers!Hole THEN Drivers!Failed ELSE Drivers!SetSata(m)
      /\ UNCHANGED <<rBus, rBoot, rPos, rReg, rCap, rLive, rReady, rWorks, rAny, rGpu>>
  BY DEF Drivers!FindBootDrive
<1>2. PICK n \in Nat : n = Len(rReg)
  BY DEF RegistryInv, RegistryTyped
<1>3. matching \in PlacesOf(n) BY <1>1, <1>2, CandidatesAre DEF PlacesOf
<1>4. rBoot \in 1..Functions /\ rBoot # Drivers!Failed /\ rBoot \in Nat
  BY DEF RegistryInv, RegistryTyped, Drivers!Failed, RegistrySensible
<1>5. Drivers!Hole.at = 0 /\ \A c \in Drivers!Registered : c \in Copies /\ c # Drivers!Hole
  BY CopiesAre DEF Drivers!Hole, Drivers!Registered, RegistryInv, RegistryTyped
<1>6. ASSUME NEW i \in matching
      PROVE  Drivers!Candidates[i] \in Drivers!Registered /\ Drivers!Candidates[i].at = rBoot
             /\ Drivers!Candidates[i].type = "sata" /\ Drivers!Candidates[i] # Drivers!Hole
  <2>1. Drivers!Candidates[i].at = rBoot /\ Drivers!Candidates[i].type = "sata"
        /\ i \in 1..Len(rReg)
    BY <1>1, CandidatesAre
  <2>2. Drivers!Candidates[i] # Drivers!Hole BY <2>1, <1>4, <1>5 DEF Drivers!Failed
  <2> QED BY <2>1, <2>2, <1>1, CandidatesAre
<1>7. ASSUME NEW c \in Drivers!Registered, c.at = rBoot, c.type = "sata" PROVE matching # {}
  <2>1. c.driver.class = "storage" BY <1>5, <1>7, CopiesAre, DriversAre
  <2> QED BY <2>1, <1>1, <1>7, CandidatesAre
<1> HIDE DEF matching
<1>8. matching = {} => m = Drivers!Hole
  BY DEF Drivers!Nth
<1>9. matching # {} => \E i \in matching : m = Drivers!Candidates[i]
  BY <1>2, <1>3, FirstGives
<1> HIDE DEF m
<1>10. Drivers!BootDriveFound'
  <2>1. CASE matching = {}
    BY <2>1, <1>1, <1>7, <1>8 DEF Drivers!BootDriveFound, Drivers!Registered, Drivers!Failed
  <2>2. CASE matching # {}
    <3>1. m \in Drivers!Registered /\ m.at = rBoot /\ m.type = "sata" /\ m # Drivers!Hole
      BY <2>2, <1>6, <1>9
    <3>2. rDrive' = IF rBoot \in rWorks THEN rBoot ELSE Drivers!Failed
      BY <3>1, <1>1 DEF Drivers!SetSata
    <3>3. Drivers!Registered' = Drivers!Registered BY <1>1 DEF Drivers!Registered
    <3> QED BY <3>1, <3>2, <3>3, <1>1, <1>4 DEF Drivers!BootDriveFound, Drivers!Failed
  <2> QED BY <2>1, <2>2
<1>11. RegistryTyped' BY <1>1 DEF RegistryInv, RegistryTyped
<1>12. EntriesOwn' BY <1>1 DEF RegistryInv, EntriesOwn
<1>13. rPos' > Functions BY <1>1 DEF Drivers!Scanned
<1> QED BY <1>10, <1>11, <1>12, <1>13 DEF RegistryInv

\* Every step keeps the invariant.
LEMMA RegistryStep == RegistrySensible /\ RegistryInv
     /\ [Drivers!Next]_(Drivers!registryVars) => RegistryInv'
<1> SUFFICES ASSUME RegistrySensible, RegistryInv,
     [Drivers!Next]_(Drivers!registryVars) PROVE RegistryInv'
  OBVIOUS
<1>1. CASE Drivers!FindAnyDrive BY <1>1, RegistryAlike DEF Drivers!FindAnyDrive
<1>2. CASE Drivers!FindGpu BY <1>2, RegistryAlike DEF Drivers!FindGpu
<1>3. CASE UNCHANGED Drivers!registryVars BY <1>3, RegistryAlike DEF Drivers!registryVars
<1>4. ASSUME NEW f \in Drivers!Kinds, Drivers!Scan(f) PROVE RegistryInv' BY <1>4, ScanKeeps
<1>5. CASE Drivers!FindBootDrive BY <1>5, BootSearchKeeps
<1>6. ASSUME NEW i \in 1..Len(rReg), NEW dealloc \in BOOLEAN, rReg[i] # Drivers!Hole,
             Drivers!Unregister(rReg[i], dealloc)
      PROVE  RegistryInv'
  BY <1>6, UnregisterKeeps
<1> QED BY <1>1, <1>2, <1>3, <1>4, <1>5, <1>6 DEF Drivers!Next

\* What the invariant says of the table.
LEMMA RegistrySays == RegistryInv => Drivers!DriversRight
<1> SUFFICES ASSUME RegistryInv PROVE Drivers!RegistryWhole
  BY DEF Drivers!DriversRight, RegistryInv
<1>1. Len(rReg) <= rCap BY DEF RegistryInv, RegistryTyped
<1>2. ASSUME NEW i \in 1..Len(rReg), NEW j \in 1..Len(rReg), rReg[i] = rReg[j],
      rReg[i] # Drivers!Hole
      PROVE  i = j
  BY <1>2 DEF RegistryInv, EntriesOwn
<1>3. ASSUME NEW m \in Drivers!Registered
      PROVE  /\ m.at \in rLive /\ (m.driver.early => m.at \in rReady)
             /\ m.driver.class = rBus[m.at].class
  <2>1. PICK i \in 1..Len(rReg) : rReg[i] = m /\ m # Drivers!Hole BY DEF Drivers!Registered
  <2> QED BY <2>1 DEF RegistryInv, EntriesOwn
<1> QED BY <1>1, <1>2, <1>3 DEF Drivers!RegistryWhole

\* The table holds every driver once, started if it starts early and never one that was
\* freed, and the boot drive is found when it is there (DriversRight).
THEOREM DriversAreRight == RegistrySensible => (RegistrySpec => []Drivers!DriversRight)
<1> SUFFICES ASSUME RegistrySensible PROVE RegistrySpec => []Drivers!DriversRight
  OBVIOUS
<1>1. Drivers!Init => RegistryInv BY RegistryBegins
<1>2. RegistryInv /\ [Drivers!Next]_(Drivers!registryVars) => RegistryInv' BY RegistryStep
<1> QED BY <1>1, <1>2, RegistrySays, PTL DEF RegistrySpec

-----------------------------------------------------------------------------
(***************************************************************************)
(* The page tables (Pager), for any number of tables before and after the  *)
(* allocator is there and any frames to map. The tables are a tree: no     *)
(* table is reached by two ways, so that what is written below one address *)
(* changes what others translate to nowhere.                               *)
(***************************************************************************)

TablesSpec == Tables!Init /\ [][Tables!Next]_(Tables!pagerVars)

\* The boot loader leaves room for one table at least, the PML4; frames are numbers.
PagerSensible == EarlyTables \in Nat \ {0} /\ LateTables \in Nat /\ Targets \subseteq Nat

TableEntries == [to : Nat, present : BOOLEAN, huge : BOOLEAN]

\* The types.
PagerTyped ==
  /\ pMem \in [Tables!TableFrames -> [0..1 -> TableEntries]]
  /\ pUsed \subseteq Tables!TableFrames /\ Tables!Root \in pUsed
  /\ pTold \in [Tables!VirtPages -> Nat] /\ pBlocked \subseteq Tables!VirtPages

\* Entry a of the root, and entry b of the middle table below it.
RootEntry(a) == pMem[Tables!Root][a]
MiddleEntry(a, b) == pMem[RootEntry(a).to][b]

\* Entry b of the middle table below entry a of the root leads to a table.
LeadsOn(a, b) == RootEntry(a).present /\ MiddleEntry(a, b).present /\ ~MiddleEntry(a, b).huge

\* The tables are a tree: each is below one entry, and none is the root.
TablesTree ==
  /\ \A a \in 0..1 : RootEntry(a).present => RootEntry(a).to \in pUsed \ {Tables!Root}
  /\ \A a, b \in 0..1 : RootEntry(a).present /\ RootEntry(b).present
       /\ RootEntry(a).to = RootEntry(b).to => a = b
  /\ \A a, b \in 0..1 : LeadsOn(a, b) => MiddleEntry(a, b).to \in pUsed \ {Tables!Root}
  /\ \A a, b, c
       \in 0..1 : LeadsOn(a, b) /\ RootEntry(c).present => MiddleEntry(a, b).to # RootEntry(c).to
  /\ \A a, b, c, d \in 0..1 :
       LeadsOn(a, b) /\ LeadsOn(c, d) /\ MiddleEntry(a, b).to = MiddleEntry(c, d).to => a = c
            /\ b = d

\* The places of a walk.
Walks ==
  [at : {"dir", "mid", "low"}, table : Tables!TableFrames, v : Tables!VirtPages, f : Nat,
   left : Nat \ {0}]

\* Where the walk of a range is: at the table its page leads to.
WalkRight ==
  \/ pJob = Tables!NoJob
  \/ /\ pJob \in Walks
     /\ pJob.v + pJob.left - 1 \in Tables!VirtPages
     /\ pJob.at = "dir" => pJob.table = Tables!Root
     /\ pJob.at = "mid" => RootEntry(Tables!Top(pJob.v)).present
          /\ pJob.table = RootEntry(Tables!Top(pJob.v)).to
     /\ pJob.at = "low" => /\ LeadsOn(Tables!Top(pJob.v), Tables!Mid(pJob.v))
                           /\ pJob.table = MiddleEntry(Tables!Top(pJob.v), Tables!Mid(pJob.v)).to

\* What a huge page that was unmapped has left.
RestsBlocked ==
  \A v \in Tables!VirtPages : LET e == MiddleEntry(Tables!Top(v), Tables!Mid(v)) IN
    RootEntry(Tables!Top(v)).present /\ e.huge /\ ~e.present => v \in pBlocked

\* The inductive invariant: what the tables are, and where the walk is.
TreeRight == PagerTyped /\ TablesTree /\ RestsBlocked /\ Tables!TranslationsKept
PagerInv == TreeRight /\ WalkRight

\* A page is its three indices.
LEMMA VirtParts ==
  \A v \in Tables!VirtPages :
    /\ Tables!Top(v) \in 0..1 /\ Tables!Mid(v) \in 0..1 /\ Tables!Low(v) \in 0..1
    /\ v = 4 * Tables!Top(v) + 2 * Tables!Mid(v) + Tables!Low(v)
    /\ v \div 2 = 2 * Tables!Top(v) + Tables!Mid(v)
<1> TAKE v \in Tables!VirtPages
<1>1. v = 0 \/ v = 1 \/ v = 2 \/ v = 3 \/ v = 4 \/ v = 5 \/ v = 6 \/ v = 7
  BY DEF Tables!VirtPages
<1> QED BY <1>1 DEF Tables!Top, Tables!Mid, Tables!Low

\* The pages of a huge page, and how far each is from its beginning.
LEMMA UnitParts ==
  ASSUME NEW v \in Tables!VirtPages
  PROVE  /\ Tables!Unit(v) =
              {w \in Tables!VirtPages :
                 Tables!Top(w) = Tables!Top(v) /\ Tables!Mid(w) = Tables!Mid(v)}
         /\ (Tables!Low(v) = 0 => \A w \in Tables!Unit(v) : w - v = Tables!Low(w))
         /\ \A w \in Tables!VirtPages : Tables!Top(w) = Tables!Top(v)
              /\ Tables!Mid(w) = Tables!Mid(v) /\ Tables!Low(w) = Tables!Low(v) => w = v
<1>1. \A w \in Tables!VirtPages : w \div 2 = v \div 2 <=> Tables!Top(w) = Tables!Top(v)
      /\ Tables!Mid(w) = Tables!Mid(v)
  BY VirtParts
<1>2. Tables!Unit(v)
      = {w \in Tables!VirtPages : Tables!Top(w) = Tables!Top(v) /\ Tables!Mid(w) = Tables!Mid(v)}
  BY <1>1 DEF Tables!Unit
<1>3. \A w \in Tables!VirtPages : Tables!Top(w) = Tables!Top(v)
      /\ Tables!Mid(w) = Tables!Mid(v) => w - v = Tables!Low(w) - Tables!Low(v)
  BY VirtParts DEF Tables!VirtPages
<1>4. \A w \in Tables!VirtPages : Tables!Top(w) = Tables!Top(v) /\ Tables!Mid(w) = Tables!Mid(v)
      /\ Tables!Low(w) = Tables!Low(v) => w = v
  BY VirtParts
<1>5. ASSUME Tables!Low(v) = 0, NEW w \in Tables!Unit(v) PROVE w - v = Tables!Low(w)
  BY <1>2, <1>3, <1>5, VirtParts
<1> QED BY <1>2, <1>4, <1>5

\* The frame a new table gets is a free one.
LEMMA MinAvailable ==
  ASSUME PagerSensible, Tables!Available # {}
  PROVE  Tables!Min(Tables!Available) \in Tables!TableFrames
         /\ Tables!Min(Tables!Available) \notin pUsed
<1>1. Tables!Available \subseteq Tables!TableFrames /\ Tables!Available \cap pUsed = {}
  BY DEF Tables!Available, Tables!TableFrames, PagerSensible
<1>2. Tables!Available \subseteq Nat
  BY <1>1 DEF Tables!TableFrames, PagerSensible
<1>3. PICK f \in Tables!Available : \A y \in Tables!Available : f <= y
  BY <1>2, NatLeast
<1>4. Tables!Min(Tables!Available) \in Tables!Available
  BY <1>3 DEF Tables!Min
<1> QED BY <1>1, <1>4

\* An empty root translates nothing.
LEMMA TablesBegin == PagerSensible /\ Tables!Init => PagerInv
<1> SUFFICES ASSUME PagerSensible, Tables!Init PROVE PagerInv
  OBVIOUS
<1>1. Tables!Root \in Tables!TableFrames /\ Tables!TableFrames \subseteq Nat
  BY DEF PagerSensible, Tables!TableFrames, Tables!Root
<1>2. Tables!Zeroed \in [0..1 -> TableEntries] /\ Tables!Garbage \in [0..1 -> TableEntries]
  BY <1>1 DEF Tables!Zeroed, Tables!Garbage, Tables!Entry, TableEntries
<1>3. PagerTyped
  BY <1>1, <1>2 DEF Tables!Init, PagerTyped
<1>4. \A a \in 0..1 : ~RootEntry(a).present
  BY <1>1 DEF Tables!Init, RootEntry, Tables!Zeroed, Tables!Entry
<1>5. TablesTree /\ RestsBlocked
  BY <1>4, VirtParts DEF TablesTree, RestsBlocked, LeadsOn
<1>6. Tables!TranslationsKept
  BY <1>4, VirtParts DEF Tables!TranslationsKept, Tables!Translated, RootEntry, Tables!Init
<1> QED BY <1>3, <1>5, <1>6 DEF PagerInv, TreeRight, WalkRight, Tables!Init

\* The walk at its page: what WalkRight says where there is a walk.
LEMMA WalkPlaces ==
  ASSUME PagerInv, pJob # Tables!NoJob
  PROVE  /\ pJob.at \in {"dir", "mid", "low"} /\ pJob.table \in Tables!TableFrames
         /\ pJob.v \in Tables!VirtPages /\ pJob.f \in Nat /\ pJob.left \in Nat \ {0}
         /\ pJob.v + pJob.left - 1 \in Tables!VirtPages
         /\ pJob.at = "dir" => pJob.table = Tables!Root
         /\ pJob.at = "mid" => RootEntry(Tables!Top(pJob.v)).present
              /\ pJob.table = RootEntry(Tables!Top(pJob.v)).to
         /\ pJob.at = "low" => /\ LeadsOn(Tables!Top(pJob.v), Tables!Mid(pJob.v))
                               /\ pJob.table
                                    = MiddleEntry(Tables!Top(pJob.v), Tables!Mid(pJob.v)).to
         /\ \A at : \A t : LET j == [pJob EXCEPT !.at = at, !.table = t] IN
              at \in {"dir", "mid", "low"} /\ t \in Tables!TableFrames =>
                /\ j \in Walks
                /\ j.at = at /\ j.table = t /\ j.v = pJob.v /\ j.f = pJob.f /\ j.left = pJob.left
<1>1. /\ pJob \in Walks
      /\ pJob.v + pJob.left - 1 \in Tables!VirtPages
      /\ pJob.at = "dir" => pJob.table = Tables!Root
      /\ pJob.at = "mid" => RootEntry(Tables!Top(pJob.v)).present
           /\ pJob.table = RootEntry(Tables!Top(pJob.v)).to
      /\ pJob.at = "low" => /\ LeadsOn(Tables!Top(pJob.v), Tables!Mid(pJob.v))
                            /\ pJob.table = MiddleEntry(Tables!Top(pJob.v), Tables!Mid(pJob.v)).to
  BY DEF PagerInv, TreeRight, WalkRight
<1> QED BY <1>1 DEF Walks

\* pager_map_range goes on to the next page, or is done.
LEMMA WalkGoesOn ==
  ASSUME PagerSensible, PagerInv, pJob # Tables!NoJob, NEW pages, Tables!Done(pages),
         \A w \in pages : w - pJob.v \in Nat
  PROVE  /\ pTold' \in [Tables!VirtPages -> Nat] /\ WalkRight'
         /\ \A w \in Tables!VirtPages : pTold'[w] = IF w
              \in pages THEN pJob.f + (w - pJob.v) ELSE pTold[w]
<1>1. /\ pJob.v \in Tables!VirtPages /\ pJob.f \in Nat /\ pJob.left \in Nat \ {0}
      /\ pJob.v + pJob.left - 1 \in Tables!VirtPages
  BY WalkPlaces
<1>2. pTold \in [Tables!VirtPages -> Nat] /\ Tables!VirtPages \subseteq Int
  BY DEF PagerInv, TreeRight, PagerTyped, Tables!VirtPages
<1>3. pTold' \in [Tables!VirtPages -> Nat]
  BY <1>1, <1>2 DEF Tables!Done
<1>4. /\ Tables!Step \in {1, 2} /\ (pJob.left = 1 => Tables!Step = 1)
  BY <1>1 DEF Tables!Step, Tables!Huge
<1>5. ASSUME pJob.left # Tables!Step PROVE WalkRight'
  <2>1. pJob' = [at |-> "dir", table |-> Tables!Root, v |-> pJob.v + Tables!Step,
                 f |-> pJob.f + Tables!Step, left |-> pJob.left - Tables!Step]
    BY <1>5 DEF Tables!Done
  <2> DEFINE n == Tables!Step   l == pJob.left   v == pJob.v   f == pJob.f
  <2>a. /\ n \in {1, 2} /\ (l = 1 => n = 1) /\ l # n /\ v \in 0..7 /\ f \in Nat
        /\ l \in Nat \ {0} /\ v + l - 1 \in 0..7
    BY <1>1, <1>4, <1>5 DEF Tables!VirtPages
  <2> HIDE DEF n, l, v, f
  <2>b. l - n \in Nat \ {0} /\ f + n \in Nat /\ v + n \in 0..7
    BY <2>a
  <2> USE DEF n, l, v, f
  <2>2. pJob.left - Tables!Step \in Nat \ {0} /\ pJob.f + Tables!Step \in Nat
        /\ pJob.v + Tables!Step \in Tables!VirtPages
    BY <2>b DEF Tables!VirtPages
  <2>3. pJob'.v + pJob'.left - 1 = pJob.v + pJob.left - 1
    BY <2>1, <1>1, <1>4 DEF Tables!VirtPages
  <2>4. Tables!Root \in Tables!TableFrames
    BY DEF Tables!Root, Tables!TableFrames, PagerSensible
  <2> QED BY <2>1, <2>2, <2>3, <2>4, <1>1 DEF WalkRight, Walks
<1>6. pJob.left = Tables!Step => WalkRight'
  BY DEF Tables!Done, WalkRight, Tables!NoJob
<1>7. \A w \in Tables!VirtPages : pTold'[w] = IF w
      \in pages THEN pJob.f + (w - pJob.v) ELSE pTold[w]
  BY DEF Tables!Done
<1> QED BY <1>3, <1>5, <1>6, <1>7

\* Where no table changes, the tree stays, and every page translates as before.
LEMMA TablesAlike ==
  ASSUME PagerInv, pMem' = pMem, pUsed' = pUsed
  PROVE  /\ TablesTree' /\ \A v \in Tables!VirtPages : Tables!Translated(v)' = Tables!Translated(v)
         /\ \A a, b \in 0..1 : RootEntry(a)' = RootEntry(a)
              /\ MiddleEntry(a, b)' = MiddleEntry(a, b)
                              /\ LeadsOn(a, b)' = LeadsOn(a, b)
  BY VirtParts DEF PagerInv, TreeRight, TablesTree, RootEntry, MiddleEntry, LeadsOn,
       Tables!Translated

\* What is in the tables when f has become one, below entry i of t.
TableNow(t, i, f) ==
  /\ pMem' \in [Tables!TableFrames -> [0..1 -> TableEntries]]
  /\ \A u \in Tables!TableFrames : u # t /\ u # f => pMem'[u] = pMem[u]
  /\ \A k \in 0..1 : pMem'[t][k] = IF k = i THEN Tables!Entry(f, TRUE, FALSE) ELSE pMem[t][k]
  /\ \A k \in 0..1 : pMem'[f][k] = Tables!Entry(0, FALSE, FALSE)

\* Nor does anything where callers were told nothing either.
LEMMA WalkOnly ==
  ASSUME PagerInv, pMem' = pMem, pUsed' = pUsed, pTold' = pTold, pBlocked' = pBlocked
  PROVE  TreeRight'
<1>1. PagerTyped' BY DEF PagerInv, TreeRight, PagerTyped
<1>2. RestsBlocked' BY TablesAlike, VirtParts DEF PagerInv, TreeRight, RestsBlocked
<1>3. Tables!TranslationsKept' BY TablesAlike DEF PagerInv, TreeRight, Tables!TranslationsKept
<1> QED BY <1>1, <1>2, <1>3, TablesAlike DEF TreeRight

\* A table is made below entry i of table t, which led nowhere; nothing translates anew.
LEMMA TableMade ==
  ASSUME PagerSensible, PagerInv, NEW t \in pUsed, NEW i \in 0..1, NEW f,
         f \in Tables!TableFrames, f \notin pUsed, ~pMem[t][i].present,
         pMem' = Tables!Set(Tables!Fresh(f), t, i, Tables!Entry(f, TRUE, FALSE)),
              pUsed' = pUsed \cup {f}
  PROVE  TableNow(t, i, f)
<1>1. pMem \in [Tables!TableFrames -> [0..1 -> TableEntries]] /\ t \in Tables!TableFrames /\ t # f
  BY DEF PagerInv, TreeRight, PagerTyped
<1>2. Tables!Zeroed \in [0..1 -> TableEntries] /\ \A k
      \in 0..1 : Tables!Zeroed[k] = Tables!Entry(0, FALSE, FALSE)
  BY DEF Tables!Zeroed, Tables!Entry, TableEntries
<1>3. Tables!Entry(f, TRUE, FALSE) \in TableEntries
  BY DEF Tables!Entry, TableEntries, Tables!TableFrames, PagerSensible
<1>4. Tables!Fresh(f) \in [Tables!TableFrames -> [0..1 -> TableEntries]]
      /\ Tables!Fresh(f)[f] = Tables!Zeroed
      /\ \A u \in Tables!TableFrames \ {f} : Tables!Fresh(f)[u] = pMem[u]
  BY <1>1, <1>2 DEF Tables!Fresh
<1> QED BY <1>1, <1>2, <1>3, <1>4 DEF Tables!Set, TableNow

\* A middle table is made (alloc_page_table): where the root had no entry, nothing was
\* mapped.
LEMMA RootTableMade ==
  ASSUME PagerSensible, PagerInv, NEW i \in 0..1, NEW f,
         f \in Tables!TableFrames, f \notin pUsed, ~RootEntry(i).present,
         pMem' = Tables!Set(Tables!Fresh(f), Tables!Root, i, Tables!Entry(f, TRUE, FALSE)),
              pUsed' = pUsed \cup {f},
         pBlocked' = pBlocked, pTold' = pTold
  PROVE  /\ TreeRight'
         /\ RootEntry(i)'.present /\ RootEntry(i)'.to = f
<1>1. TableNow(Tables!Root, i, f)
  <2>1. Tables!Root \in pUsed BY DEF PagerInv, TreeRight, PagerTyped
  <2>2. ~pMem[Tables!Root][i].present BY DEF RootEntry
  <2> QED BY <2>1, <2>2, TableMade
<1> USE DEF TableNow
<1>2. PagerTyped'
  BY <1>1 DEF PagerInv, TreeRight, PagerTyped
<1>3. \A a \in 0..1 : a # i => RootEntry(a)' = RootEntry(a)
  BY <1>1 DEF RootEntry
<1>4. RootEntry(i)' = Tables!Entry(f, TRUE, FALSE)
  BY <1>1 DEF RootEntry
<1>5. \A a, b \in 0..1 : a # i /\ RootEntry(a).present => MiddleEntry(a, b)' = MiddleEntry(a, b)
  <2> SUFFICES ASSUME NEW a \in 0..1, NEW b \in 0..1, a # i, RootEntry(a).present
               PROVE  MiddleEntry(a, b)' = MiddleEntry(a, b)
    OBVIOUS
  <2>1. RootEntry(a)' = RootEntry(a) BY <1>3
  <2>2. RootEntry(a).to \in pUsed \ {Tables!Root} BY DEF PagerInv, TreeRight, TablesTree
  <2>3. RootEntry(a).to \in Tables!TableFrames \ {Tables!Root, f} BY <2>2 DEF PagerInv, TreeRight,
        PagerTyped
  <2>4. pMem'[RootEntry(a).to] = pMem[RootEntry(a).to] BY <2>3, <1>1
  <2> QED BY <2>1, <2>4 DEF MiddleEntry
<1>6. \A b \in 0..1 : MiddleEntry(i, b)' = Tables!Entry(0, FALSE, FALSE)
  BY <1>1, <1>4 DEF MiddleEntry, Tables!Entry
<1>7. \A a, b \in 0..1 : LeadsOn(a, b)' <=> a # i /\ LeadsOn(a, b)
  BY <1>3, <1>5, <1>6 DEF LeadsOn, Tables!Entry
<1>8. TablesTree'
  BY <1>3, <1>4, <1>5, <1>7 DEF PagerInv, TreeRight, PagerTyped, TablesTree, Tables!Entry, LeadsOn
<1>9. RestsBlocked'
  BY <1>3, <1>5, <1>6, VirtParts DEF PagerInv, TreeRight, RestsBlocked, Tables!Entry
<1>10. ASSUME NEW v \in Tables!VirtPages PROVE Tables!Translated(v)' = Tables!Translated(v)
  <2>1. CASE Tables!Top(v) = i
    <3>1. ~RootEntry(Tables!Top(v)).present BY <2>1
    <3>2. Tables!Translated(v) = 0 BY <3>1 DEF Tables!Translated, RootEntry
    <3>3. MiddleEntry(Tables!Top(v), Tables!Mid(v))' = Tables!Entry(0, FALSE, FALSE) BY <2>1,
          <1>6, VirtParts
    <3>4. Tables!Translated(v)' = 0
      <4> DEFINE e == pMem'[pMem'[Tables!Root][Tables!Top(v)].to][Tables!Mid(v)]
      <4>1. e = Tables!Entry(0, FALSE, FALSE) BY <3>3 DEF MiddleEntry, RootEntry
      <4>2. ~e.huge /\ ~e.present BY <4>1 DEF Tables!Entry
      <4> QED BY <4>2 DEF Tables!Translated
    <3> QED BY <3>2, <3>4
  <2>2. CASE Tables!Top(v) # i
    <3> DEFINE a == Tables!Top(v)   b == Tables!Mid(v)
    <3>1. a \in 0..1 /\ b \in 0..1 BY VirtParts
    <3>2. RootEntry(a)' = RootEntry(a)
          /\ (RootEntry(a).present => MiddleEntry(a, b)' = MiddleEntry(a, b))
      BY <3>1, <1>3, <1>5, <2>2
    <3>3. LeadsOn(a, b) => pMem'[MiddleEntry(a, b).to] = pMem[MiddleEntry(a, b).to]
      <4> SUFFICES ASSUME LeadsOn(a, b) PROVE pMem'[MiddleEntry(a, b).to]
           = pMem[MiddleEntry(a, b).to]
        OBVIOUS
      <4>1. MiddleEntry(a, b).to \in pUsed \ {Tables!Root} BY <3>1 DEF PagerInv, TreeRight,
            TablesTree
      <4>2. MiddleEntry(a, b).to \in Tables!TableFrames \ {Tables!Root, f} BY <4>1 DEF PagerInv,
            TreeRight, PagerTyped
      <4> QED BY <4>2, <1>1
    <3> QED BY <3>2, <3>3 DEF Tables!Translated, RootEntry, MiddleEntry, LeadsOn
  <2> QED BY <2>1, <2>2
<1>11. Tables!TranslationsKept'
  BY <1>10 DEF PagerInv, TreeRight, Tables!TranslationsKept
<1> QED BY <1>2, <1>4, <1>8, <1>9, <1>11 DEF Tables!Entry, TreeRight

\* A table of small pages is made below a middle table.
LEMMA MidTableMade ==
  ASSUME PagerSensible, PagerInv, NEW i \in 0..1, NEW j \in 0..1, NEW f,
         f \in Tables!TableFrames, f \notin pUsed,
         RootEntry(i).present, ~MiddleEntry(i, j).present, ~MiddleEntry(i, j).huge,
         pMem' = Tables!Set(Tables!Fresh(f), RootEntry(i).to, j, Tables!Entry(f, TRUE, FALSE)),
         pUsed' = pUsed \cup {f}, pBlocked' = pBlocked, pTold' = pTold
  PROVE  /\ TreeRight'
         /\ LeadsOn(i, j)' /\ MiddleEntry(i, j)'.to = f
<1> DEFINE t == RootEntry(i).to
<1>0. t \in pUsed \ {Tables!Root} /\ f # Tables!Root /\ pUsed \subseteq Tables!TableFrames
  BY DEF PagerInv, TreeRight, PagerTyped, TablesTree
<1>1. TableNow(t, j, f)
  <2>1. ~pMem[t][j].present BY DEF MiddleEntry
  <2> QED BY <1>0, <2>1, TableMade
<1>2. PagerTyped'
  BY <1>1 DEF PagerInv, TreeRight, PagerTyped, TableNow
<1>3. \A a \in 0..1 : RootEntry(a)' = RootEntry(a)
  <2>1. pMem'[Tables!Root] = pMem[Tables!Root]
    BY <1>0, <1>1 DEF TableNow, PagerInv, TreeRight, PagerTyped
  <2> QED BY <2>1 DEF RootEntry
<1>4. ASSUME NEW a \in 0..1, NEW b \in 0..1, RootEntry(a).present
      PROVE  MiddleEntry(a, b)' = IF a = i
             /\ b = j THEN Tables!Entry(f, TRUE, FALSE) ELSE MiddleEntry(a, b)
  <2>1. RootEntry(a)' = RootEntry(a) BY <1>3
  <2>2. RootEntry(a).to \in pUsed /\ (RootEntry(a).to = t => a = i)
    BY <1>4 DEF PagerInv, TreeRight, TablesTree
  <2>3. CASE a = i
    BY <2>1, <2>3, <1>1 DEF MiddleEntry, TableNow
  <2>4. CASE a # i
    <3>1. RootEntry(a).to # t /\ RootEntry(a).to # f /\ RootEntry(a).to \in Tables!TableFrames
      BY <2>2, <2>4, <1>0
    <3> QED BY <3>1, <2>1, <2>4, <1>1 DEF MiddleEntry, TableNow
  <2> QED BY <2>3, <2>4
<1>5. \A a, b \in 0..1 : LeadsOn(a, b)' <=> LeadsOn(a, b) \/ (a = i /\ b = j)
  BY <1>3, <1>4 DEF LeadsOn, Tables!Entry
<1>6. MiddleEntry(i, j)' = Tables!Entry(f, TRUE, FALSE)
  BY <1>4
<1>7. \A a, b \in 0..1 : LeadsOn(a, b) => MiddleEntry(a, b)' = MiddleEntry(a, b)
      /\ RootEntry(a)' = RootEntry(a)
  BY <1>3, <1>4 DEF LeadsOn
<1>8. TablesTree'
  BY <1>0, <1>3, <1>5, <1>6, <1>7 DEF PagerInv, TreeRight, TablesTree, Tables!Entry
<1>9. RestsBlocked'
  <2> SUFFICES ASSUME NEW v \in Tables!VirtPages, RootEntry(Tables!Top(v))'.present,
       MiddleEntry(Tables!Top(v), Tables!Mid(v))'.huge,
                      ~MiddleEntry(Tables!Top(v), Tables!Mid(v))'.present
               PROVE  v \in pBlocked'
    BY DEF RestsBlocked
  <2>1. Tables!Top(v) \in 0..1 /\ Tables!Mid(v) \in 0..1 BY VirtParts
  <2>2. RootEntry(Tables!Top(v)).present BY <1>3, <2>1
  <2>3. ~(Tables!Top(v) = i /\ Tables!Mid(v) = j) BY <1>6 DEF Tables!Entry
  <2>4. MiddleEntry(Tables!Top(v), Tables!Mid(v))'
        = MiddleEntry(Tables!Top(v), Tables!Mid(v)) BY <1>4, <2>1, <2>2, <2>3
  <2> QED BY <2>2, <2>4 DEF PagerInv, TreeRight, RestsBlocked
<1>10. ASSUME NEW v \in Tables!VirtPages PROVE Tables!Translated(v)' = Tables!Translated(v)
  <2> DEFINE a == Tables!Top(v)   b == Tables!Mid(v)
  <2>1. a \in 0..1 /\ b \in 0..1 BY VirtParts
  <2>2. RootEntry(a)' = RootEntry(a) BY <2>1, <1>3
  <2>3. CASE a = i /\ b = j
    <3>1. ~MiddleEntry(a, b).present /\ ~MiddleEntry(a, b).huge BY <2>3
    <3>2. Tables!Translated(v) = 0 BY <3>1 DEF Tables!Translated, MiddleEntry, RootEntry
    <3>3. pMem'[f][Tables!Low(v)] = Tables!Entry(0, FALSE, FALSE) BY <1>1, VirtParts DEF TableNow
    <3>4. MiddleEntry(a, b)' = Tables!Entry(f, TRUE, FALSE) BY <1>6, <2>3
    <3> DEFINE e == pMem'[pMem'[Tables!Root][a].to][b]
    <3>5. e = Tables!Entry(f, TRUE, FALSE) BY <3>4 DEF MiddleEntry, RootEntry
    <3>6. ~e.huge /\ e.to = f BY <3>5 DEF Tables!Entry
    <3>7. ~pMem'[e.to][Tables!Low(v)].present
      <4>1. ~pMem'[f][Tables!Low(v)].present BY <3>3 DEF Tables!Entry
      <4> HIDE DEF e
      <4> QED BY <4>1, <3>6
    <3>8. Tables!Translated(v)' = 0 BY <3>6, <3>7 DEF Tables!Translated
    <3> QED BY <3>2, <3>8
  <2>4. CASE ~(a = i /\ b = j)
    <3>1. RootEntry(a).present => MiddleEntry(a, b)' = MiddleEntry(a, b)
      BY <2>1, <2>4, <1>4
    <3>2. LeadsOn(a, b) => pMem'[MiddleEntry(a, b).to] = pMem[MiddleEntry(a, b).to]
      <4> SUFFICES ASSUME LeadsOn(a, b) PROVE pMem'[MiddleEntry(a, b).to]
           = pMem[MiddleEntry(a, b).to]
        OBVIOUS
      <4>1. MiddleEntry(a, b).to \in pUsed /\ MiddleEntry(a, b).to # t
        BY <2>1 DEF PagerInv, TreeRight, TablesTree
      <4> QED BY <4>1, <1>0, <1>1 DEF TableNow
    <3> QED BY <2>2, <3>1, <3>2 DEF Tables!Translated, RootEntry, MiddleEntry, LeadsOn
  <2> QED BY <2>3, <2>4
<1>11. Tables!TranslationsKept'
  BY <1>10 DEF PagerInv, TreeRight, Tables!TranslationsKept
<1>12. LeadsOn(i, j)' BY <1>5
<1> QED BY <1>2, <1>6, <1>8, <1>9, <1>11, <1>12 DEF Tables!Entry, TreeRight

\* An entry of a middle table that leads to no table becomes one of a huge page.
LEMMA HugeChanged ==
  ASSUME PagerSensible, PagerInv, NEW i \in 0..1, NEW j \in 0..1, NEW e \in TableEntries,
         RootEntry(i).present, ~LeadsOn(i, j), e.huge,
         pMem' = Tables!Set(pMem, RootEntry(i).to, j, e), pUsed' = pUsed
  PROVE  /\ pMem' \in [Tables!TableFrames -> [0..1 -> TableEntries]] /\ TablesTree'
         /\ \A a \in 0..1 : RootEntry(a)' = RootEntry(a)
         /\ \A a, b \in 0..1 : RootEntry(a).present =>
              MiddleEntry(a, b)' = IF a = i /\ b = j THEN e ELSE MiddleEntry(a, b)
         /\ \A v \in Tables!VirtPages : Tables!Translated(v)' =
              IF Tables!Top(v) = i
                   /\ Tables!Mid(v) = j THEN IF e.present THEN e.to + Tables!Low(v) ELSE 0
              ELSE Tables!Translated(v)
<1> DEFINE t == RootEntry(i).to
<1>0. t \in pUsed \ {Tables!Root} /\ pUsed \subseteq Tables!TableFrames
      /\ Tables!Root \in Tables!TableFrames
  BY DEF PagerInv, TreeRight, PagerTyped, TablesTree
<1>1. /\ pMem' \in [Tables!TableFrames -> [0..1 -> TableEntries]]
      /\ \A u \in Tables!TableFrames : u # t => pMem'[u] = pMem[u]
      /\ \A k \in 0..1 : pMem'[t][k] = IF k = j THEN e ELSE pMem[t][k]
  BY <1>0 DEF Tables!Set, PagerInv, TreeRight, PagerTyped
<1>3. \A a \in 0..1 : RootEntry(a)' = RootEntry(a)
  <2>1. pMem'[Tables!Root] = pMem[Tables!Root]
    BY <1>0, <1>1
  <2> QED BY <2>1 DEF RootEntry
<1>4. ASSUME NEW a \in 0..1, NEW b \in 0..1, RootEntry(a).present
      PROVE  MiddleEntry(a, b)' = IF a = i /\ b = j THEN e ELSE MiddleEntry(a, b)
  <2>1. RootEntry(a)' = RootEntry(a) BY <1>3
  <2>2. RootEntry(a).to \in pUsed /\ (RootEntry(a).to = t => a = i)
    BY <1>4 DEF PagerInv, TreeRight, TablesTree
  <2>3. CASE a = i
    BY <2>1, <2>3, <1>1 DEF MiddleEntry
  <2>4. CASE a # i
    <3>1. RootEntry(a).to # t /\ RootEntry(a).to \in Tables!TableFrames
      BY <2>2, <2>4, <1>0
    <3> QED BY <3>1, <2>1, <2>4, <1>1 DEF MiddleEntry
  <2> QED BY <2>3, <2>4
<1>5. \A a, b \in 0..1 : LeadsOn(a, b)' <=> LeadsOn(a, b)
  BY <1>3, <1>4 DEF LeadsOn
<1>7. \A a, b \in 0..1 : LeadsOn(a, b) => MiddleEntry(a, b)' = MiddleEntry(a, b)
      /\ RootEntry(a)' = RootEntry(a)
  BY <1>3, <1>4 DEF LeadsOn
<1>8. TablesTree'
  BY <1>3, <1>5, <1>7 DEF PagerInv, TreeRight, TablesTree
<1>10. ASSUME NEW v \in Tables!VirtPages
       PROVE  Tables!Translated(v)' =
                IF Tables!Top(v) = i
                     /\ Tables!Mid(v) = j THEN IF e.present THEN e.to + Tables!Low(v) ELSE 0
                ELSE Tables!Translated(v)
  <2> DEFINE a == Tables!Top(v)   b == Tables!Mid(v)
  <2>1. a \in 0..1 /\ b \in 0..1 BY VirtParts
  <2>2. RootEntry(a)' = RootEntry(a) BY <2>1, <1>3
  <2>3. CASE a = i /\ b = j
    <3>1. RootEntry(a)'.present BY <2>2, <2>3
    <3>2. MiddleEntry(a, b)' = e BY <1>4, <2>3
    <3> QED BY <2>3, <3>1, <3>2 DEF Tables!Translated, RootEntry, MiddleEntry
  <2>4. CASE ~(a = i /\ b = j)
    <3>1. RootEntry(a).present => MiddleEntry(a, b)' = MiddleEntry(a, b)
      BY <2>1, <2>4, <1>4
    <3>2. LeadsOn(a, b) => pMem'[MiddleEntry(a, b).to] = pMem[MiddleEntry(a, b).to]
      <4> SUFFICES ASSUME LeadsOn(a, b) PROVE pMem'[MiddleEntry(a, b).to]
           = pMem[MiddleEntry(a, b).to]
        OBVIOUS
      <4>1. MiddleEntry(a, b).to \in pUsed /\ MiddleEntry(a, b).to # t
        BY <2>1 DEF PagerInv, TreeRight, TablesTree
      <4> QED BY <4>1, <1>0, <1>1
    <3>3. Tables!Translated(v)' = Tables!Translated(v)
      BY <2>2, <3>1, <3>2 DEF Tables!Translated, RootEntry, MiddleEntry, LeadsOn
    <3> QED BY <3>3, <2>4
  <2> QED BY <2>3, <2>4
<1> QED BY <1>1, <1>3, <1>4, <1>8, <1>10

\* An entry of a table of small pages is written.
LEMMA SmallChanged ==
  ASSUME PagerSensible, PagerInv, NEW i \in 0..1, NEW j \in 0..1, NEW k \in 0..1,
         NEW e \in TableEntries, LeadsOn(i, j),
              pMem' = Tables!Set(pMem, MiddleEntry(i, j).to, k, e), pUsed' = pUsed
  PROVE  /\ pMem' \in [Tables!TableFrames -> [0..1 -> TableEntries]] /\ TablesTree'
         /\ \A a \in 0..1 : RootEntry(a)' = RootEntry(a)
         /\ \A a, b \in 0..1 : RootEntry(a).present => MiddleEntry(a, b)' = MiddleEntry(a, b)
         /\ \A v \in Tables!VirtPages : Tables!Translated(v)' =
              IF Tables!Top(v) = i /\ Tables!Mid(v) = j
                   /\ Tables!Low(v) = k THEN IF e.present THEN e.to ELSE 0
              ELSE Tables!Translated(v)
<1> DEFINE t == MiddleEntry(i, j).to
<1>0. t \in pUsed \ {Tables!Root} /\ pUsed \subseteq Tables!TableFrames
      /\ Tables!Root \in Tables!TableFrames
  BY DEF PagerInv, TreeRight, PagerTyped, TablesTree
<1>1. /\ pMem' \in [Tables!TableFrames -> [0..1 -> TableEntries]]
      /\ \A u \in Tables!TableFrames : u # t => pMem'[u] = pMem[u]
      /\ \A c \in 0..1 : pMem'[t][c] = IF c = k THEN e ELSE pMem[t][c]
  BY <1>0 DEF Tables!Set, PagerInv, TreeRight, PagerTyped
<1>3. \A a \in 0..1 : RootEntry(a)' = RootEntry(a)
  <2>1. pMem'[Tables!Root] = pMem[Tables!Root]
    BY <1>0, <1>1
  <2> QED BY <2>1 DEF RootEntry
<1>4. ASSUME NEW a \in 0..1, NEW b \in 0..1, RootEntry(a).present
      PROVE  MiddleEntry(a, b)' = MiddleEntry(a, b)
  <2>1. RootEntry(a)' = RootEntry(a) BY <1>3
  <2>2. RootEntry(a).to \in pUsed /\ RootEntry(a).to # t
    BY <1>4 DEF PagerInv, TreeRight, TablesTree
  <2>3. pMem'[RootEntry(a).to] = pMem[RootEntry(a).to] BY <2>2, <1>0, <1>1
  <2> QED BY <2>1, <2>3 DEF MiddleEntry
<1>5. \A a, b \in 0..1 : LeadsOn(a, b)' <=> LeadsOn(a, b)
  BY <1>3, <1>4 DEF LeadsOn
<1>7. \A a, b \in 0..1 : LeadsOn(a, b) => MiddleEntry(a, b)' = MiddleEntry(a, b)
      /\ RootEntry(a)' = RootEntry(a)
  BY <1>3, <1>4 DEF LeadsOn
<1>8. TablesTree'
  BY <1>3, <1>5, <1>7 DEF PagerInv, TreeRight, TablesTree
<1>10. ASSUME NEW v \in Tables!VirtPages
       PROVE  Tables!Translated(v)' =
                IF Tables!Top(v) = i /\ Tables!Mid(v) = j
                     /\ Tables!Low(v) = k THEN IF e.present THEN e.to ELSE 0
                ELSE Tables!Translated(v)
  <2> DEFINE a == Tables!Top(v)   b == Tables!Mid(v)   c == Tables!Low(v)
  <2>1. a \in 0..1 /\ b \in 0..1 /\ c \in 0..1 BY VirtParts
  <2>2. RootEntry(a)' = RootEntry(a) BY <2>1, <1>3
  <2>3. CASE a = i /\ b = j
    <3>1. RootEntry(a).present /\ MiddleEntry(a, b).present
          /\ ~MiddleEntry(a, b).huge BY <2>3 DEF LeadsOn
    <3>2. RootEntry(a)'.present /\ MiddleEntry(a, b)' = MiddleEntry(a, b) BY <3>1, <2>1, <2>2, <1>4
    <3>3. Tables!Translated(v) = IF pMem[t][c].present THEN pMem[t][c].to ELSE 0
      BY <3>1, <2>3 DEF Tables!Translated, RootEntry, MiddleEntry
    <3>4. Tables!Translated(v)' = IF pMem'[t][c].present THEN pMem'[t][c].to ELSE 0
      BY <3>1, <3>2, <2>3 DEF Tables!Translated, RootEntry, MiddleEntry
    <3> QED BY <2>1, <2>3, <3>3, <3>4, <1>1
  <2>4. CASE ~(a = i /\ b = j)
    <3>1. RootEntry(a).present => MiddleEntry(a, b)' = MiddleEntry(a, b)
      BY <2>1, <1>4
    <3>2. LeadsOn(a, b) => pMem'[MiddleEntry(a, b).to] = pMem[MiddleEntry(a, b).to]
      <4> SUFFICES ASSUME LeadsOn(a, b) PROVE pMem'[MiddleEntry(a, b).to]
           = pMem[MiddleEntry(a, b).to]
        OBVIOUS
      <4>1. MiddleEntry(a, b).to \in pUsed /\ MiddleEntry(a, b).to # t
        BY <2>1, <2>4 DEF PagerInv, TreeRight, TablesTree
      <4> QED BY <4>1, <1>0, <1>1
    <3>3. Tables!Translated(v)' = Tables!Translated(v)
      BY <2>2, <3>1, <3>2 DEF Tables!Translated, RootEntry, MiddleEntry, LeadsOn
    <3> QED BY <3>3, <2>4
  <2> QED BY <2>3, <2>4
<1> QED BY <1>1, <1>3, <1>4, <1>8, <1>10

\* The walk at the root, with or without a table below.
LEMMA DescendKeeps ==
  ASSUME PagerSensible, PagerInv, Tables!WalkDir
  PROVE  PagerInv'
<1>0. pJob.at = "dir" /\ pJob # Tables!NoJob BY DEF Tables!WalkDir, Tables!NoJob
<1>1. pJob # Tables!NoJob /\ pJob.table = Tables!Root BY <1>0, WalkPlaces
<1>2. PICK i \in 0..1 : i = Tables!Top(pJob.v) BY <1>1, WalkPlaces, VirtParts
<1>3. CASE Tables!NoTable(i)
  <2>1. pMem' = pMem /\ pUsed' = pUsed /\ pTold' = pTold /\ pBlocked' = pBlocked
        /\ pJob' = Tables!NoJob
    BY <1>3 DEF Tables!NoTable
  <2> QED BY <2>1, WalkOnly DEF PagerInv, WalkRight
<1>4. CASE RootEntry(i).present /\ pMem' = pMem /\ pUsed' = pUsed /\ pTold' = pTold
           /\ pBlocked' = pBlocked
           /\ pJob' = [pJob EXCEPT !.at = "mid", !.table = RootEntry(i).to]
  <2>1. RootEntry(i).to \in Tables!TableFrames
    BY <1>2, <1>4 DEF PagerInv, TreeRight, PagerTyped, TablesTree
  <2>2. WalkRight'
    <3>1. /\ pJob' \in Walks
          /\ pJob'.at = "mid" /\ pJob'.table = RootEntry(i).to /\ pJob'.v = pJob.v
          /\ pJob'.left = pJob.left
      BY <1>1, <1>4, <2>1, WalkPlaces DEF Walks
    <3>2. pJob.v + pJob.left - 1 \in Tables!VirtPages BY <1>1, WalkPlaces
    <3> QED BY <3>1, <3>2, <1>2, <1>4 DEF WalkRight, RootEntry
  <2> QED BY <1>4, <2>2, WalkOnly DEF PagerInv
<1>5. ASSUME NEW f, f \in Tables!TableFrames, f \notin pUsed, ~RootEntry(i).present,
             pMem' = Tables!Set(Tables!Fresh(f), Tables!Root, i, Tables!Entry(f, TRUE, FALSE)),
                  pUsed' = pUsed \cup {f},
             pJob' = [pJob EXCEPT !.at = "mid", !.table = f], pTold' = pTold, pBlocked' = pBlocked
      PROVE  PagerInv'
  <2>1. /\ TreeRight'
        /\ RootEntry(i)'.present /\ RootEntry(i)'.to = f
    BY <1>2, <1>5, RootTableMade
  <2>2. WalkRight'
    <3>1. /\ pJob' \in Walks
          /\ pJob'.at = "mid" /\ pJob'.table = f /\ pJob'.v = pJob.v /\ pJob'.left = pJob.left
      BY <1>1, <1>5, WalkPlaces DEF Walks
    <3>2. pJob.v + pJob.left - 1 \in Tables!VirtPages BY <1>1, WalkPlaces
    <3> QED BY <3>1, <3>2, <1>2, <2>1 DEF WalkRight
  <2> QED BY <2>1, <2>2 DEF PagerInv
<1>6. CASE Tables!Descend(i, "mid")
  <2>1. CASE RootEntry(i).present /\ pJob' = [pJob EXCEPT !.at = "mid", !.table = RootEntry(i).to]
             /\ UNCHANGED <<pMem, pUsed>>
    BY <2>1, <1>4, <1>6 DEF Tables!Descend
  <2> DEFINE f == Tables!Min(Tables!Available)
  <2>2. CASE /\ ~RootEntry(i).present /\ Tables!Available # {}
             /\ pMem'
                  = Tables!Set(Tables!Fresh(f), Tables!Root, i, Tables!Entry(f, TRUE, FALSE))
                       /\ pUsed' = pUsed \cup {f}
             /\ pJob' = [pJob EXCEPT !.at = "mid", !.table = f]
    <3>1. f \in Tables!TableFrames /\ f \notin pUsed BY <2>2, MinAvailable
    <3>2. pTold' = pTold /\ pBlocked' = pBlocked BY <1>6 DEF Tables!Descend
    <3> HIDE DEF f
    <3> QED BY <2>2, <3>1, <3>2, <1>5
  <2> QED BY <2>1, <2>2, <1>2, <1>6, <1>1 DEF Tables!Descend, RootEntry
<1> QED BY <1>2, <1>3, <1>6 DEF Tables!WalkDir

\* The entry of the middle table that the walk looks at.
LEMMA AtMiddle ==
  ASSUME PagerInv, pJob.at = "mid"
  PROVE  /\ pJob # Tables!NoJob /\ pJob.v \in Tables!VirtPages /\ pJob.f \in Nat
         /\ Tables!Top(pJob.v) \in 0..1 /\ Tables!Mid(pJob.v) \in 0..1
         /\ Tables!Low(pJob.v) \in 0..1
         /\ RootEntry(Tables!Top(pJob.v)).present /\ pJob.table = RootEntry(Tables!Top(pJob.v)).to
         /\ Tables!Mine = MiddleEntry(Tables!Top(pJob.v), Tables!Mid(pJob.v))
<1>1. pJob # Tables!NoJob BY DEF Tables!NoJob
<1>2. pJob.v \in Tables!VirtPages /\ pJob.f \in Nat
      /\ RootEntry(Tables!Top(pJob.v)).present /\ pJob.table = RootEntry(Tables!Top(pJob.v)).to
  BY <1>1, WalkPlaces
<1> QED BY <1>1, <1>2, VirtParts DEF Tables!Mine, MiddleEntry

\* The walk at the middle table.
LEMMA MiddleKeeps ==
  ASSUME PagerSensible, PagerInv, Tables!WalkMid
  PROVE  PagerInv'
<1>1. pJob.at = "mid" /\ ~Tables!Mine.huge /\ pJob # Tables!NoJob BY AtMiddle DEF Tables!WalkMid
<1>2. PICK i \in 0..1, j \in 0..1 :
        /\ i = Tables!Top(pJob.v) /\ j = Tables!Mid(pJob.v) /\ RootEntry(i).present
        /\ pJob.table = RootEntry(i).to
        /\ Tables!Mine = MiddleEntry(i, j)
  BY <1>1, AtMiddle
<1>3. CASE Tables!NoTable(j)
  <2>1. pMem' = pMem /\ pUsed' = pUsed /\ pTold' = pTold /\ pBlocked' = pBlocked
        /\ pJob' = Tables!NoJob
    BY <1>3 DEF Tables!NoTable
  <2> QED BY <2>1, WalkOnly DEF PagerInv, WalkRight
<1>4. CASE LeadsOn(i, j) /\ pMem' = pMem /\ pUsed' = pUsed /\ pTold' = pTold /\ pBlocked' = pBlocked
           /\ pJob' = [pJob EXCEPT !.at = "low", !.table = MiddleEntry(i, j).to]
  <2>1. MiddleEntry(i, j).to \in Tables!TableFrames
    BY <1>4 DEF PagerInv, TreeRight, PagerTyped, TablesTree
  <2>2. WalkRight'
    <3>1. /\ pJob' \in Walks
          /\ pJob'.at = "low" /\ pJob'.table = MiddleEntry(i, j).to /\ pJob'.v = pJob.v
          /\ pJob'.left = pJob.left
      BY <1>1, <1>4, <2>1, WalkPlaces DEF Walks
    <3>2. pJob.v + pJob.left - 1 \in Tables!VirtPages BY <1>1, WalkPlaces
    <3>3. MiddleEntry(i, j)' = MiddleEntry(i, j) /\ LeadsOn(i, j)' BY <1>4, TablesAlike
    <3>4. Tables!Top(pJob'.v) = i /\ Tables!Mid(pJob'.v) = j BY <1>2, <3>1
    <3> QED BY <3>1, <3>2, <3>3, <3>4 DEF WalkRight
  <2> QED BY <1>4, <2>2, WalkOnly DEF PagerInv
<1>5. ASSUME NEW f, f \in Tables!TableFrames, f \notin pUsed, ~MiddleEntry(i, j).present,
             pMem' = Tables!Set(Tables!Fresh(f), RootEntry(i).to, j, Tables!Entry(f, TRUE, FALSE)),
             pUsed' = pUsed \cup {f}, pJob' = [pJob EXCEPT !.at = "low", !.table = f],
                  pTold' = pTold, pBlocked' = pBlocked
      PROVE  PagerInv'
  <2>1. TreeRight' /\ LeadsOn(i, j)' /\ MiddleEntry(i, j)'.to = f
    <3>1. ~MiddleEntry(i, j).huge BY <1>1, <1>2
    <3> QED BY <1>2, <1>5, <3>1, MidTableMade
  <2>2. WalkRight'
    <3>1. /\ pJob' \in Walks
          /\ pJob'.at = "low" /\ pJob'.table = f /\ pJob'.v = pJob.v /\ pJob'.left = pJob.left
      BY <1>1, <1>5, WalkPlaces DEF Walks
    <3>2. pJob.v + pJob.left - 1 \in Tables!VirtPages BY <1>1, WalkPlaces
    <3>3. Tables!Top(pJob'.v) = i /\ Tables!Mid(pJob'.v) = j BY <1>2, <3>1
    <3> QED BY <3>1, <3>2, <3>3, <2>1 DEF WalkRight
  <2> QED BY <2>1, <2>2 DEF PagerInv
<1>6. CASE Tables!Descend(j, "low")
  <2>1. CASE MiddleEntry(i, j).present
             /\ pJob' = [pJob EXCEPT !.at = "low", !.table = MiddleEntry(i, j).to]
             /\ UNCHANGED <<pMem, pUsed>>
    <3>1. LeadsOn(i, j) BY <1>1, <1>2, <2>1 DEF LeadsOn
    <3> QED BY <3>1, <2>1, <1>4, <1>6 DEF Tables!Descend
  <2> DEFINE f == Tables!Min(Tables!Available)
  <2>2. CASE /\ ~MiddleEntry(i, j).present /\ Tables!Available # {}
             /\ pMem'
                  = Tables!Set(Tables!Fresh(f), RootEntry(i).to, j, Tables!Entry(f, TRUE, FALSE))
             /\ pUsed' = pUsed \cup {f}
             /\ pJob' = [pJob EXCEPT !.at = "low", !.table = f]
    <3>1. f \in Tables!TableFrames /\ f \notin pUsed BY <2>2, MinAvailable
    <3>2. pTold' = pTold /\ pBlocked' = pBlocked BY <1>6 DEF Tables!Descend
    <3> HIDE DEF f
    <3> QED BY <2>2, <3>1, <3>2, <1>5
  <2>3. pMem[pJob.table][j] = MiddleEntry(i, j) BY <1>2 DEF MiddleEntry
  <2> QED BY <2>1, <2>2, <2>3, <1>2, <1>6 DEF Tables!Descend
<1> QED BY <1>2, <1>3, <1>6 DEF Tables!WalkMid

\* A huge page is mapped, where nothing is present.
LEMMA HugeKeeps ==
  ASSUME PagerSensible, PagerInv, Tables!MapHuge
  PROVE  PagerInv'
<1>1. pJob.at = "mid" /\ Tables!Huge BY DEF Tables!MapHuge
<1>2. PICK i \in 0..1, j \in 0..1, v \in Tables!VirtPages, f \in Nat :
        /\ i = Tables!Top(v) /\ j = Tables!Mid(v) /\ RootEntry(i).present
        /\ pJob.table = RootEntry(i).to
        /\ Tables!Mine = MiddleEntry(i, j) /\ v = pJob.v /\ f = pJob.f
  BY <1>1, AtMiddle
<1>3. pJob # Tables!NoJob /\ Tables!Low(v) = 0 BY <1>1, <1>2, AtMiddle DEF Tables!Huge
<1>4. CASE Tables!Mine.present /\ pMem' = pMem /\ Tables!Done({}) /\ pBlocked' = pBlocked
           /\ pUsed' = pUsed
  <2>1. WalkRight' /\ pTold' = pTold
    <3>1. /\ pTold' \in [Tables!VirtPages -> Nat] /\ WalkRight'
          /\ \A w \in Tables!VirtPages : pTold'[w] = pTold[w]
      BY <1>3, <1>4, WalkGoesOn
    <3> QED BY <3>1 DEF PagerInv, TreeRight, PagerTyped
  <2> QED BY <2>1, <1>4, WalkOnly DEF PagerInv
<1>5. CASE /\ ~Tables!Mine.present
           /\ pMem' = Tables!Set(pMem, RootEntry(i).to, j, Tables!Entry(f, TRUE, TRUE))
           /\ Tables!Done(Tables!Unit(v)) /\ pBlocked' = pBlocked \ Tables!Unit(v) /\ pUsed' = pUsed
  <2>1. PICK e \in TableEntries : e = Tables!Entry(f, TRUE, TRUE) /\ e.huge /\ e.present /\ e.to = f
    <3>1. Tables!Entry(f, TRUE, TRUE) \in TableEntries BY DEF Tables!Entry, TableEntries
    <3>2. PICK e \in TableEntries : e = Tables!Entry(f, TRUE, TRUE) BY <3>1
    <3>3. e.huge /\ e.present /\ e.to = f BY <3>2 DEF Tables!Entry
    <3> QED BY <3>2, <3>3
  <2>2. ~LeadsOn(i, j) BY <1>2, <1>5 DEF LeadsOn
  <2>3. /\ pMem' \in [Tables!TableFrames -> [0..1 -> TableEntries]] /\ TablesTree'
        /\ \A a \in 0..1 : RootEntry(a)' = RootEntry(a)
        /\ \A a, b \in 0..1 : RootEntry(a).present =>
             MiddleEntry(a, b)' = IF a = i /\ b = j THEN e ELSE MiddleEntry(a, b)
        /\ \A w \in Tables!VirtPages : Tables!Translated(w)' =
             IF Tables!Top(w) = i
                  /\ Tables!Mid(w) = j THEN IF e.present THEN e.to + Tables!Low(w) ELSE 0
             ELSE Tables!Translated(w)
    <3>1. pMem' = Tables!Set(pMem, RootEntry(i).to, j, e) /\ pUsed' = pUsed BY <2>1, <1>5
    <3>2. e.huge /\ RootEntry(i).present BY <2>1, <1>2
    <3> QED BY <3>1, <3>2, <2>2, HugeChanged
  <2>4. \A w \in Tables!Unit(v) : w - v = Tables!Low(w) /\ Tables!Low(w) \in Nat
        /\ w \in Tables!VirtPages
    BY <1>3, UnitParts, VirtParts
  <2>5. /\ pTold' \in [Tables!VirtPages -> Nat] /\ WalkRight'
        /\ \A w \in Tables!VirtPages : pTold'[w] = IF w
             \in Tables!Unit(v) THEN f + (w - v) ELSE pTold[w]
    BY <1>2, <1>3, <1>5, <2>4, WalkGoesOn
  <2>6. Tables!Unit(v) = {w \in Tables!VirtPages : Tables!Top(w) = i /\ Tables!Mid(w) = j}
    BY <1>2, UnitParts
  <2>7. PagerTyped'
    BY <2>3, <2>5, <1>5 DEF PagerInv, TreeRight, PagerTyped
  <2>8. Tables!TranslationsKept'
    <3> SUFFICES ASSUME NEW w
         \in Tables!VirtPages, w \notin pBlocked' PROVE Tables!Translated(w)' = pTold'[w]
      BY DEF Tables!TranslationsKept
    <3>1. CASE w \in Tables!Unit(v)
      BY <3>1, <2>1, <2>3, <2>4, <2>5, <2>6
    <3>2. CASE w \notin Tables!Unit(v)
      BY <3>2, <2>3, <2>5, <2>6, <1>5 DEF PagerInv, TreeRight, Tables!TranslationsKept
    <3> QED BY <3>1, <3>2
  <2>9. RestsBlocked'
    <3> SUFFICES ASSUME NEW w \in Tables!VirtPages, RootEntry(Tables!Top(w))'.present,
         MiddleEntry(Tables!Top(w), Tables!Mid(w))'.huge,
                        ~MiddleEntry(Tables!Top(w), Tables!Mid(w))'.present
                 PROVE  w \in pBlocked'
      BY DEF RestsBlocked
    <3>1. Tables!Top(w) \in 0..1 /\ Tables!Mid(w) \in 0..1 BY VirtParts
    <3>2. RootEntry(Tables!Top(w)).present BY <2>3, <3>1
    <3>3. ~(Tables!Top(w) = i /\ Tables!Mid(w) = j) BY <3>1, <3>2, <2>1, <2>3
    <3>4. MiddleEntry(Tables!Top(w), Tables!Mid(w))'
          = MiddleEntry(Tables!Top(w), Tables!Mid(w)) BY <2>3, <3>1, <3>2, <3>3
    <3> QED BY <3>2, <3>3, <3>4, <2>6, <1>5 DEF PagerInv, TreeRight, RestsBlocked
  <2> QED BY <2>3, <2>5, <2>7, <2>8, <2>9 DEF PagerInv, TreeRight
<1> QED BY <1>2, <1>4, <1>5 DEF Tables!MapHuge

\* A huge page answers for the page: what was told is what it translates to, or the page is
\* one of those excepted.
LEMMA AnswerKeeps ==
  ASSUME PagerSensible, PagerInv, Tables!HugeInTheWay
  PROVE  PagerInv'
<1>1. pJob.at = "mid" /\ Tables!Mine.huge BY DEF Tables!HugeInTheWay
<1>2. PICK i \in 0..1, j \in 0..1, v \in Tables!VirtPages, f \in Nat :
        /\ i = Tables!Top(v) /\ j = Tables!Mid(v) /\ RootEntry(i).present
        /\ Tables!Mine = MiddleEntry(i, j) /\ v = pJob.v /\ f = pJob.f
  BY <1>1, AtMiddle
<1>3. pJob # Tables!NoJob BY <1>1, AtMiddle
<1>4. pMem' = pMem /\ pUsed' = pUsed /\ pBlocked' = pBlocked BY DEF Tables!HugeInTheWay
<1> DEFINE p == IF Tables!Mine.to + Tables!Low(v) = f THEN {v} ELSE {}
<1>5. /\ pTold' \in [Tables!VirtPages -> Nat] /\ WalkRight'
      /\ \A w \in Tables!VirtPages : pTold'[w] = IF w \in p THEN f + (w - v) ELSE pTold[w]
  <2>1. Tables!Done(p) BY <1>2 DEF Tables!HugeInTheWay
  <2>2. \A w \in p : w - v = 0 BY DEF Tables!VirtPages
  <2> QED BY <2>1, <2>2, <1>2, <1>3, WalkGoesOn
<1>6. PagerTyped' /\ TablesTree' /\ RestsBlocked'
  BY <1>4, <1>5, TablesAlike, VirtParts DEF PagerInv, TreeRight, PagerTyped, RestsBlocked
<1>7. Tables!TranslationsKept'
  <2> SUFFICES ASSUME NEW w
       \in Tables!VirtPages, w \notin pBlocked PROVE Tables!Translated(w) = pTold'[w]
    BY <1>4, TablesAlike DEF Tables!TranslationsKept
  <2>1. CASE w \in p
    <3>1. w = v /\ Tables!Mine.to + Tables!Low(v) = f BY <2>1
    <3>2. Tables!Mine.present BY <1>1, <1>2, <3>1 DEF PagerInv, TreeRight, RestsBlocked
    <3>3. Tables!Translated(v) = Tables!Mine.to + Tables!Low(v)
      BY <1>1, <1>2, <3>2 DEF Tables!Translated, RootEntry, MiddleEntry
    <3>4. pTold'[w] = f BY <2>1, <3>1, <1>5 DEF Tables!VirtPages
    <3> QED BY <3>1, <3>3, <3>4
  <2>2. CASE w \notin p
    BY <2>2, <1>5 DEF PagerInv, TreeRight, Tables!TranslationsKept
  <2> QED BY <2>1, <2>2
<1> QED BY <1>5, <1>6, <1>7 DEF PagerInv, TreeRight

\* A small page is mapped: only its own address translates anew, as only one way leads to its
\* entry.
LEMMA SmallKeeps ==
  ASSUME PagerSensible, PagerInv, Tables!MapSmall
  PROVE  PagerInv'
<1>1. pJob.at = "low" /\ pJob # Tables!NoJob BY DEF Tables!MapSmall, Tables!NoJob
<1>2. PICK i \in 0..1, j \in 0..1, k \in 0..1, v \in Tables!VirtPages, f \in Nat :
        /\ i = Tables!Top(v) /\ j = Tables!Mid(v) /\ k = Tables!Low(v) /\ LeadsOn(i, j)
        /\ pJob.table = MiddleEntry(i, j).to /\ v = pJob.v /\ f = pJob.f
  BY <1>1, WalkPlaces, VirtParts
<1>3. \A w \in {v} : w - pJob.v = 0 /\ w - v = 0 BY <1>2 DEF Tables!VirtPages
<1>4. CASE pMem' = pMem /\ Tables!Done({}) /\ pBlocked' = pBlocked /\ pUsed' = pUsed
  <2>1. WalkRight' /\ pTold' = pTold
    <3>1. /\ pTold' \in [Tables!VirtPages -> Nat] /\ WalkRight'
          /\ \A w \in Tables!VirtPages : pTold'[w] = pTold[w]
      BY <1>1, <1>4, WalkGoesOn
    <3> QED BY <3>1 DEF PagerInv, TreeRight, PagerTyped
  <2> QED BY <2>1, <1>4, WalkOnly DEF PagerInv
<1>5. CASE /\ pMem' = Tables!Set(pMem, MiddleEntry(i, j).to, k, Tables!Entry(f, TRUE, FALSE))
           /\ Tables!Done({v}) /\ pBlocked' = pBlocked /\ pUsed' = pUsed
  <2>1. PICK e \in TableEntries : e = Tables!Entry(f, TRUE, FALSE) /\ e.present /\ e.to = f
    <3>1. Tables!Entry(f, TRUE, FALSE) \in TableEntries BY DEF Tables!Entry, TableEntries
    <3>2. PICK e \in TableEntries : e = Tables!Entry(f, TRUE, FALSE) BY <3>1
    <3>3. e.present /\ e.to = f BY <3>2 DEF Tables!Entry
    <3> QED BY <3>2, <3>3
  <2>2. pMem' = Tables!Set(pMem, MiddleEntry(i, j).to, k, e) /\ pUsed' = pUsed BY <2>1, <1>5
  <2>3. /\ pMem' \in [Tables!TableFrames -> [0..1 -> TableEntries]] /\ TablesTree'
        /\ \A a \in 0..1 : RootEntry(a)' = RootEntry(a)
        /\ \A a, b \in 0..1 : RootEntry(a).present => MiddleEntry(a, b)' = MiddleEntry(a, b)
        /\ \A w \in Tables!VirtPages : Tables!Translated(w)' =
             IF Tables!Top(w) = i /\ Tables!Mid(w) = j
                  /\ Tables!Low(w) = k THEN IF e.present THEN e.to ELSE 0
             ELSE Tables!Translated(w)
    BY <2>2, <1>2, SmallChanged
  <2>5. /\ pTold' \in [Tables!VirtPages -> Nat] /\ WalkRight'
        /\ \A w \in Tables!VirtPages : pTold'[w] = IF w \in {v} THEN f + (w - v) ELSE pTold[w]
    BY <1>1, <1>2, <1>3, <1>5, WalkGoesOn
  <2>7. PagerTyped'
    BY <2>3, <2>5, <1>5 DEF PagerInv, TreeRight, PagerTyped
  <2>8. Tables!TranslationsKept'
    <3> SUFFICES ASSUME NEW w
         \in Tables!VirtPages, w \notin pBlocked' PROVE Tables!Translated(w)' = pTold'[w]
      BY DEF Tables!TranslationsKept
    <3>1. CASE w = v
      <4>0. pTold'[w] = f + (w - v) /\ w - v = 0 BY <3>1, <2>5, <1>3
      <4>1. pTold'[w] = f BY <4>0
      <4> QED BY <4>1, <3>1, <2>1, <2>3, <1>2
    <3>2. CASE w # v
      <4>1. ~(Tables!Top(w) = i /\ Tables!Mid(w) = j /\ Tables!Low(w) = k) BY <3>2, <1>2, UnitParts
      <4> QED BY <4>1, <3>2, <2>3, <2>5, <1>5 DEF PagerInv, TreeRight, Tables!TranslationsKept
    <3> QED BY <3>1, <3>2
  <2>9. RestsBlocked'
    BY <2>3, <1>5, VirtParts DEF PagerInv, TreeRight, RestsBlocked
  <2> QED BY <2>3, <2>5, <2>7, <2>8, <2>9 DEF PagerInv, TreeRight
<1> QED BY <1>2, <1>4, <1>5 DEF Tables!MapSmall

\* pager_unmap, of a huge page and of a small one.
LEMMA UnmapKeeps ==
  ASSUME PagerSensible, PagerInv, NEW v \in Tables!VirtPages, Tables!Unmap(v)
  PROVE  PagerInv'
<1>1. /\ pJob' = pJob /\ pJob = Tables!NoJob /\ pUsed' = pUsed BY DEF Tables!Unmap
<1>2. WalkRight' BY <1>1 DEF WalkRight, Tables!NoJob
<1>3. PICK i \in 0..1, j \in 0..1, k \in 0..1 : i = Tables!Top(v) /\ j = Tables!Mid(v)
      /\ k = Tables!Low(v)
  BY VirtParts
<1>4. pTold \in [Tables!VirtPages -> Nat] /\ pMem \in [Tables!TableFrames -> [0..1 -> TableEntries]]
      /\ pBlocked \subseteq Tables!VirtPages /\ pUsed \subseteq Tables!TableFrames
  BY DEF PagerInv, TreeRight, PagerTyped
<1>5. Tables!Unit(v) = {w \in Tables!VirtPages : Tables!Top(w) = i /\ Tables!Mid(w) = j}
  BY <1>3, UnitParts
<1>6. CASE /\ RootEntry(i).present /\ MiddleEntry(i, j).huge
           /\ pMem' = Tables!Absent(RootEntry(i).to, j)
           /\ pTold' = [w \in Tables!VirtPages |-> IF w \in Tables!Unit(v) THEN 0 ELSE pTold[w]]
           /\ pBlocked' = pBlocked \cup Tables!Unit(v)
  <2>0. RootEntry(i).to \in Tables!TableFrames
    BY <1>4, <1>6 DEF PagerInv, TreeRight, TablesTree
  <2>1. PICK e \in TableEntries : e = [MiddleEntry(i, j) EXCEPT !.present = FALSE]
    <3>1. MiddleEntry(i, j) \in TableEntries BY <1>4, <2>0 DEF MiddleEntry
    <3>2. [MiddleEntry(i, j) EXCEPT !.present = FALSE] \in TableEntries BY <3>1 DEF TableEntries
    <3> QED BY <3>2
  <2>2. e.huge /\ ~e.present
    <3>1. MiddleEntry(i, j) \in TableEntries BY <1>4, <2>0 DEF MiddleEntry
    <3> QED BY <3>1, <2>1, <1>6 DEF TableEntries
  <2>3. pMem' = Tables!Set(pMem, RootEntry(i).to, j, e)
    BY <2>1, <1>6, <1>4, <2>0 DEF Tables!Absent, Tables!Set, MiddleEntry
  <2>4. ~LeadsOn(i, j) BY <1>6 DEF LeadsOn
  <2>5. /\ pMem' \in [Tables!TableFrames -> [0..1 -> TableEntries]] /\ TablesTree'
        /\ \A a \in 0..1 : RootEntry(a)' = RootEntry(a)
        /\ \A a, b \in 0..1 : RootEntry(a).present =>
             MiddleEntry(a, b)' = IF a = i /\ b = j THEN e ELSE MiddleEntry(a, b)
        /\ \A w \in Tables!VirtPages : Tables!Translated(w)' =
             IF Tables!Top(w) = i
                  /\ Tables!Mid(w) = j THEN IF e.present THEN e.to + Tables!Low(w) ELSE 0
             ELSE Tables!Translated(w)
    BY <2>2, <2>3, <2>4, <1>1, <1>6, HugeChanged
  <2>6. PagerTyped'
    BY <2>5, <1>1, <1>4, <1>5, <1>6 DEF PagerInv, TreeRight, PagerTyped
  <2>7. Tables!TranslationsKept'
    BY <2>5, <1>5, <1>6 DEF PagerInv, TreeRight, Tables!TranslationsKept
  <2>8. RestsBlocked'
    <3> SUFFICES ASSUME NEW w \in Tables!VirtPages, RootEntry(Tables!Top(w))'.present,
         MiddleEntry(Tables!Top(w), Tables!Mid(w))'.huge,
                        ~MiddleEntry(Tables!Top(w), Tables!Mid(w))'.present
                 PROVE  w \in pBlocked'
      BY DEF RestsBlocked
    <3>1. Tables!Top(w) \in 0..1 /\ Tables!Mid(w) \in 0..1 BY VirtParts
    <3>2. RootEntry(Tables!Top(w)).present BY <2>5, <3>1
    <3>3. CASE Tables!Top(w) = i /\ Tables!Mid(w) = j
      BY <3>3, <1>5, <1>6
    <3>4. CASE ~(Tables!Top(w) = i /\ Tables!Mid(w) = j)
      <4>1. MiddleEntry(Tables!Top(w), Tables!Mid(w))'
            = MiddleEntry(Tables!Top(w), Tables!Mid(w)) BY <2>5, <3>1, <3>2, <3>4
      <4> QED BY <3>2, <4>1, <1>6 DEF PagerInv, TreeRight, RestsBlocked
    <3> QED BY <3>3, <3>4
  <2> QED BY <2>5, <2>6, <2>7, <2>8, <1>2 DEF PagerInv, TreeRight
<1>7. CASE /\ RootEntry(i).present /\ ~MiddleEntry(i, j).huge /\ MiddleEntry(i, j).present
           /\ pMem' = Tables!Absent(MiddleEntry(i, j).to, k)
           /\ pTold' = [pTold EXCEPT ![v] = 0] /\ pBlocked' = pBlocked
  <2>0. LeadsOn(i, j) BY <1>7 DEF LeadsOn
  <2> DEFINE t == MiddleEntry(i, j).to
  <2>1. t \in Tables!TableFrames
    BY <2>0, <1>4 DEF PagerInv, TreeRight, TablesTree
  <2>2. PICK e \in TableEntries : e = [pMem[t][k] EXCEPT !.present = FALSE]
    <3>1. pMem[t][k] \in TableEntries BY <1>4, <2>1
    <3>2. [pMem[t][k] EXCEPT !.present = FALSE] \in TableEntries BY <3>1 DEF TableEntries
    <3> QED BY <3>2
  <2>3. ~e.present
    <3>1. pMem[t][k] \in TableEntries BY <1>4, <2>1
    <3> QED BY <3>1, <2>2 DEF TableEntries
  <2>4. pMem' = Tables!Set(pMem, t, k, e)
    BY <2>2, <1>7, <1>4, <2>1 DEF Tables!Absent, Tables!Set
  <2>5. /\ pMem' \in [Tables!TableFrames -> [0..1 -> TableEntries]] /\ TablesTree'
        /\ \A a \in 0..1 : RootEntry(a)' = RootEntry(a)
        /\ \A a, b \in 0..1 : RootEntry(a).present => MiddleEntry(a, b)' = MiddleEntry(a, b)
        /\ \A w \in Tables!VirtPages : Tables!Translated(w)' =
             IF Tables!Top(w) = i /\ Tables!Mid(w) = j
                  /\ Tables!Low(w) = k THEN IF e.present THEN e.to ELSE 0
             ELSE Tables!Translated(w)
    BY <2>0, <2>4, <1>1, SmallChanged
  <2>6. PagerTyped'
    BY <2>5, <1>1, <1>4, <1>7 DEF PagerInv, TreeRight, PagerTyped
  <2>7. Tables!TranslationsKept'
    <3> SUFFICES ASSUME NEW w
         \in Tables!VirtPages, w \notin pBlocked PROVE Tables!Translated(w)' = pTold'[w]
      BY <1>7 DEF Tables!TranslationsKept
    <3>1. CASE w = v
      BY <3>1, <2>3, <2>5, <1>3, <1>4, <1>7
    <3>2. CASE w # v
      <4>1. ~(Tables!Top(w) = i /\ Tables!Mid(w) = j /\ Tables!Low(w) = k) BY <3>2, <1>3, UnitParts
      <4>2. pTold'[w] = pTold[w] BY <3>2, <1>4, <1>7
      <4> QED BY <4>1, <4>2, <2>5 DEF PagerInv, TreeRight, Tables!TranslationsKept
    <3> QED BY <3>1, <3>2
  <2>8. RestsBlocked'
    BY <2>5, <1>7, VirtParts DEF PagerInv, TreeRight, RestsBlocked
  <2> QED BY <2>5, <2>6, <2>7, <2>8, <1>2 DEF PagerInv, TreeRight
<1> QED BY <1>3, <1>6, <1>7 DEF Tables!Unmap, RootEntry, MiddleEntry

\* Every step keeps the invariant.
LEMMA TablesStep == PagerSensible /\ PagerInv /\ [Tables!Next]_(Tables!pagerVars) => PagerInv'
<1> SUFFICES ASSUME PagerSensible, PagerInv, [Tables!Next]_(Tables!pagerVars) PROVE PagerInv'
  OBVIOUS
<1>1. ASSUME pMem' = pMem, pUsed' = pUsed, pTold' = pTold, pBlocked' = pBlocked, pJob' = pJob
      PROVE  PagerInv'
  <2>1. \A a, b \in 0..1 : RootEntry(a)' = RootEntry(a) /\ MiddleEntry(a, b)' = MiddleEntry(a, b)
                         /\ LeadsOn(a, b)' = LeadsOn(a, b)
    BY <1>1, TablesAlike
  <2>2. CASE pJob = Tables!NoJob
    BY <2>2, <1>1, WalkOnly DEF PagerInv, WalkRight
  <2>3. CASE pJob # Tables!NoJob
    <3>1. PICK i \in 0..1, j \in 0..1 : i = Tables!Top(pJob.v) /\ j = Tables!Mid(pJob.v)
      BY <2>3, WalkPlaces, VirtParts
    <3>2. WalkRight' BY <2>1, <2>3, <3>1, <1>1 DEF PagerInv, WalkRight
    <3> QED BY <3>2, <1>1, WalkOnly DEF PagerInv
  <2> QED BY <2>2, <2>3
<1>2. ASSUME NEW v \in Tables!VirtPages, NEW f \in Targets, NEW n \in 1..3, Tables!MapRange(v, f, n)
      PROVE  PagerInv'
  <2>1. pJob' \in Walks
    <3>1. f \in Nat /\ n \in Nat \ {0} /\ Tables!Root \in Tables!TableFrames
      BY DEF PagerSensible, Tables!Root, Tables!TableFrames
    <3> QED BY <3>1, <1>2 DEF Tables!MapRange, Walks
  <2>2. WalkRight' BY <2>1, <1>2 DEF Tables!MapRange, WalkRight, Walks
  <2> QED BY <2>2, <1>2, WalkOnly DEF Tables!MapRange, PagerInv
<1>3. CASE Tables!Ready BY <1>1, <1>3 DEF Tables!Ready
<1>4. CASE UNCHANGED Tables!pagerVars BY <1>1, <1>4 DEF Tables!pagerVars
<1> QED BY <1>2, <1>3, <1>4, DescendKeeps, MiddleKeeps, HugeKeeps, AnswerKeeps, SmallKeeps,
        UnmapKeeps DEF Tables!Next

\* Every address translates as was last asked for (TranslationsKept), whatever the order in
\* which pages and ranges are mapped and unmapped and tables made.
THEOREM TablesTranslate == PagerSensible => (TablesSpec => []Tables!TranslationsKept)
<1> SUFFICES ASSUME PagerSensible PROVE TablesSpec => []Tables!TranslationsKept
  OBVIOUS
<1>1. Tables!Init => PagerInv BY TablesBegin
<1>2. PagerInv /\ [Tables!Next]_(Tables!pagerVars) => PagerInv' BY TablesStep
<1>3. PagerInv => Tables!TranslationsKept BY DEF PagerInv, TreeRight
<1> QED BY <1>1, <1>2, <1>3, PTL DEF TablesSpec

-----------------------------------------------------------------------------
(***************************************************************************)
(* The services side by side (MC_Services): a step of theirs is a step of  *)
(* the one at work and a stutter of each other, so that what is proved     *)
(* about each service holds of all of them together.                       *)
(***************************************************************************)
ServicesVars ==
  <<service, avmfVars, mapAll, handleAll, driversAll, diskAll, tablesAll, menuAll, editorAll,
    callsAll, shellAll, outputAll, visibleAll, fontAll, loaderAll>>

\* A behaviour of the services is one of the allocator.
LEMMA AvmfWithin == Spec => AvmfSpec
<1>1. Init => AvmfInit   BY DEF Init
<1>2. [Next]_ServicesVars => [AvmfNext]_avmfVars   BY DEF Next, OthersKeep, ServicesVars
<1> QED BY <1>1, <1>2, PTL DEF Spec, AvmfSpec, ServicesVars

\* It is one of the file.
LEMMA FileWithin == Spec => FileSpec
<1>1. Init => Handle!Init   BY DEF Init
<1>2. [Next]_ServicesVars => [Handle!Next]_(Handle!fileVars)
  BY DEF Next, OthersKeep, ServicesVars, handleAll, Handle!fileVars
<1> QED BY <1>1, <1>2, PTL DEF Spec, FileSpec, ServicesVars

\* It is one of the disk.
LEMMA DiskWithin == Spec => DiskSpec
<1>1. Init => Disk!Init   BY DEF Init
<1>2. [Next]_ServicesVars => [Disk!Next]_(Disk!volumeVars)
  BY DEF Next, OthersKeep, ServicesVars, diskAll, Disk!volumeVars
<1> QED BY <1>1, <1>2, PTL DEF Spec, DiskSpec, ServicesVars

\* The headers and frames of the allocator are whole with the services around it.
THEOREM ServicesMemory == MemSensible => (Spec => []MemoryWhole)
<1> SUFFICES ASSUME MemSensible PROVE Spec => []MemoryWhole
  OBVIOUS
<1>1. AvmfSpec => []MemoryWhole   BY MemoryIsWhole
<1> QED BY <1>1, AvmfWithin, PTL

\* What was written to a file handle is read back and reaches the disk (fs.c).
THEOREM ServicesWrites == Chunk \in Nat => (Spec => []WritesKept)
<1> SUFFICES ASSUME Chunk \in Nat PROVE Spec => []WritesKept
  OBVIOUS
<1>1. Handle!WritesKept => WritesKept   BY DEF WritesKept
<1>2. FileSpec => []Handle!WritesKept   BY FileKeepsWrites
<1> QED BY <1>1, <1>2, FileWithin, PTL

\* The log on the disk keeps what was saved, and a crash is noticed (io.c, aos.c).
THEOREM ServicesDisk == Spec => []DiskRight
<1>1. Disk!DiskRight => DiskRight   BY DEF DiskRight
<1> QED BY <1>1, DiskIsRight, DiskWithin, PTL

\* It is one of the page tables.
LEMMA TablesWithin == Spec => TablesSpec
<1>1. Init => Tables!Init   BY DEF Init
<1>2. [Next]_ServicesVars => [Tables!Next]_(Tables!pagerVars)
  BY DEF Next, OthersKeep, ServicesVars, tablesAll, Tables!pagerVars
<1> QED BY <1>1, <1>2, PTL DEF Spec, TablesSpec, ServicesVars

\* Every address translates as was last asked for (pager.c).
THEOREM ServicesTranslations == PagerSensible => (Spec => []TranslationsKept)
<1> SUFFICES ASSUME PagerSensible PROVE Spec => []TranslationsKept
  OBVIOUS
<1>1. Tables!TranslationsKept => TranslationsKept   BY DEF TranslationsKept
<1>2. TablesSpec => []Tables!TranslationsKept   BY TablesTranslate
<1> QED BY <1>1, <1>2, TablesWithin, PTL

\* It is one of the table of drivers.
LEMMA RegistryWithin == Spec => RegistrySpec
<1>1. Init => Drivers!Init   BY DEF Init
<1>2. [Next]_ServicesVars => [Drivers!Next]_(Drivers!registryVars)
  BY DEF Next, OthersKeep, ServicesVars, driversAll, Drivers!registryVars
<1> QED BY <1>1, <1>2, PTL DEF Spec, RegistrySpec, ServicesVars

\* The table of drivers is whole and the boot drive is found (module.c, drive.c).
THEOREM ServicesDrivers == RegistrySensible => (Spec => []DriversRight)
<1> SUFFICES ASSUME RegistrySensible PROVE Spec => []DriversRight
  OBVIOUS
<1>1. Drivers!DriversRight => DriversRight   BY DEF DriversRight
<1>2. RegistrySpec => []Drivers!DriversRight   BY DriversAreRight
<1> QED BY <1>1, <1>2, RegistryWithin, PTL

\* It is one of the memory map.
LEMMA MapWithin == Spec => BootMapSpec
<1>1. Init => Map!Init   BY DEF Init
<1>2. [Next]_ServicesVars => [Map!Next]_(Map!bootMapVars)
  BY DEF Next, OthersKeep, ServicesVars, mapAll, Map!bootMapVars
<1> QED BY <1>1, <1>2, PTL DEF Spec, BootMapSpec, ServicesVars

\* It is one of the ELF loader.
LEMMA LoaderWithin == Spec => LoaderSpec
<1>1. Init => Loader!Init   BY DEF Init
<1>2. [Next]_ServicesVars => [Loader!Next]_(Loader!elfVars)
  BY DEF Next, OthersKeep, ServicesVars, loaderAll, Loader!elfVars
<1> QED BY <1>1, <1>2, PTL DEF Spec, LoaderSpec, ServicesVars

\* It is one of the menu.
LEMMA MenuWithin == Spec => MenuSpec
<1>1. Init => Menu!Init   BY DEF Init
<1>2. [Next]_ServicesVars => [Menu!Next]_(Menu!bootMenuVars)
  BY DEF Next, OthersKeep, ServicesVars, menuAll, Menu!bootMenuVars
<1> QED BY <1>1, <1>2, PTL DEF Spec, MenuSpec, ServicesVars

\* It is one of the settings.
LEMMA EditorWithin == Spec => EditorSpec
<1>1. Init => Editor!Init   BY DEF Init
<1>2. [Next]_ServicesVars => [Editor!Next]_(Editor!settingsVars)
  BY DEF Next, OthersKeep, ServicesVars, editorAll, Editor!settingsVars
<1> QED BY <1>1, <1>2, PTL DEF Spec, EditorSpec, ServicesVars

\* The loader hands the kernel a faithful map and a whole image (bootloader_uefi.c, elf.c).
THEOREM ServicesHandOver == BootMapSensible /\ LoaderSensible => (Spec => []HandedOverWhole)
<1> SUFFICES ASSUME BootMapSensible, LoaderSensible PROVE Spec => []HandedOverWhole
  OBVIOUS
<1>1. Map!MapFaithful /\ Loader!ImageWhole => HandedOverWhole   BY DEF HandedOverWhole
<1>2. BootMapSpec => []Map!MapFaithful   BY MapIsFaithful
<1>3. LoaderSpec => []Loader!ImageWhole   BY ImageIsWhole
<1> QED BY <1>1, <1>2, <1>3, MapWithin, LoaderWithin, PTL

\* The loader's menu is true and its settings are kept (bootloader_uefi.c, ambrc.c).
THEOREM ServicesLoader == MenuSensible /\ EditorSensible => (Spec => []LoaderTrue)
<1> SUFFICES ASSUME MenuSensible, EditorSensible PROVE Spec => []LoaderTrue
  OBVIOUS
<1>1. Menu!MenuTrue /\ Editor!SettingsKept => LoaderTrue   BY DEF LoaderTrue
<1>2. MenuSpec => []Menu!MenuTrue   BY MenuIsTrue
<1>3. EditorSpec => []Editor!SettingsKept   BY SettingsAreKept
<1> QED BY <1>1, <1>2, <1>3, MenuWithin, EditorWithin, PTL
============================================================================
