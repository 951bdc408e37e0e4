------------------------------ MODULE Settings ------------------------------
(***************************************************************************)
(* The boot loader's settings (ambrc.c): the structure in memory with its  *)
(* check sum, the one compiled in that stands in for it, the editor with   *)
(* its tabs, rows and questions, and the disk. A check sum is the values   *)
(* it was computed over.                                                   *)
(***************************************************************************)
EXTENDS Integers

CONSTANTS MaxKernels,     \* AMBRC_MAX_KERNELS
          Colours,        \* 16 in the code: colours wrap around
          Addresses,      \* 2^64 in the code, counted in pages: they wrap around
          MaxEdits        \* bound: values changed or reset

VARIABLES base,           \* the structure at 0x500: values, crc, and is its head as it should be
          backup,         \* backup_ambrc
          disk,           \* what start_ambrc has written to block 2046, if it has
          place,          \* what get_ambrc has returned: base or backup
          at,             \* out of the editor, or what it reads keys for
          tab, row, kernel, \* selected, data_selected, active_k_idx
          changes,        \* changes_made
          before, reset,  \* for the property: the values at the start, and was a tab reset
          edits,          \* counts up to MaxEdits
          screen          \* the tab marked, and the right part

settingsVars == <<base, backup, disk, place, at, tab, row, kernel, changes, before, reset, edits,
                  screen>>

Values == [colour : 0..Colours - 1, top : BOOLEAN, number : 0..MaxKernels,
           info : [0..MaxKernels - 1 -> [load : 0..Addresses - 1, entry : 0..Addresses - 1]]]

Default ==
  [colour |-> 0, top |-> FALSE, number |-> 0,
   info |-> [k \in 0..MaxKernels - 1 |-> [load |-> 0, entry |-> 0]]]

Other == [Default EXCEPT !.colour = 1, !.top = TRUE, !.number = MaxKernels]

\* Written by an earlier loader, damaged, or of another version.
Init ==
  /\ base \in [values : {Default, Other}, crc : {Default, Other}, head : BOOLEAN]
  /\ backup = [values |-> Default, crc |-> Default, head |-> TRUE]
  /\ disk = <<>> /\ place = "backup" /\ at = "out"
  /\ tab = 0 /\ row = 0 /\ kernel = 0 /\ changes = FALSE
  /\ before = Default /\ reset = FALSE /\ edits = 0
  /\ screen = [tab |-> 0, pane |-> "blank"]

Accepted(s) == s.head /\ s.crc = s.values

GetAmbrc(s) == IF Accepted(s) THEN "base" ELSE "backup"

InUse == IF place = "base" THEN base.values ELSE backup.values

SetValues(v) ==
  /\ base' = IF place = "base" THEN [base EXCEPT !.values = v] ELSE base
  /\ backup' = IF place = "base" THEN backup ELSE [backup EXCEPT !.values = v]

-----------------------------------------------------------------------------
(* The screen *)

DrawTabs(t) == [tab |-> t, pane |-> "blank"]

\* The rows of a tab with their values, and the row that is marked.
DrawData(v, t, r, k) ==
  [tab |-> t,
   pane |-> <<r, CASE t = 0 -> <<v.colour, v.top>>
                   [] t = 1 -> <<v.number>>
                   [] OTHER -> <<k, v.info[k]>> >>]

Popup == screen' = [screen EXCEPT !.pane = "popup"]

-----------------------------------------------------------------------------
(* Keys among the tabs *)

\* start_ambrc; without the size of the screen it returns at once.
Start ==
  /\ at = "out" /\ at' = "tabs"
  /\ place' = GetAmbrc(base)
  /\ before' = IF Accepted(base) THEN base.values ELSE backup.values
  /\ tab' = 0 /\ row' = 0 /\ reset' = FALSE
  /\ screen' = DrawTabs(0)
  /\ UNCHANGED <<base, backup, disk, kernel, changes, edits>>

TabKept == UNCHANGED <<base, backup, disk, place, kernel, changes, before, reset, edits>>

OtherTab ==
  /\ at = "tabs"
  /\ \E t \in {tab - 1, tab + 1} \cap 0..2 : tab' = t /\ screen' = DrawTabs(t)
  /\ TabKept /\ UNCHANGED <<at, row>>

EnterTab ==
  /\ at = "tabs" /\ at' = "data"
  /\ row' = 0 /\ screen' = DrawData(InUse, tab, 0, kernel)
  /\ TabKept /\ UNCHANGED tab

LeaveTab ==
  /\ at = "data" /\ at' = "tabs"
  /\ row' = 0 /\ screen' = DrawTabs(tab)
  /\ TabKept /\ UNCHANGED tab

-----------------------------------------------------------------------------
(* Keys within a tab *)

LastRow(t) == CASE t = 0 -> 1 [] t = 1 -> 0 [] OTHER -> MaxKernels - 1

OtherRow ==
  /\ at = "data"
  /\ \E r \in {row - 1, row + 1} \cap 0..LastRow(tab) :
       row' = r /\ screen' = DrawData(InUse, tab, r, kernel)
  /\ TabKept /\ UNCHANGED <<at, tab>>

\* One up or down, unless that leaves low..high.
Stepped(n, dir, low, high) == IF n + dir \in low..high THEN n + dir ELSE n

\* The values after an arrow key.
Turned(v, dir) ==
  CASE tab = 0 /\ row = 0 -> [v EXCEPT !.colour = (@ + dir) % Colours]
    [] tab = 0 /\ row = 1 -> [v EXCEPT !.top = ~@]
    [] tab = 1 /\ row = 0 -> [v EXCEPT !.number = Stepped(@, dir, 0, MaxKernels)]
    [] tab = 2 /\ row = 1 -> [v EXCEPT !.info[kernel].load = (@ + dir) % Addresses]
    [] tab = 2 /\ row = 2 -> [v EXCEPT !.info[kernel].entry = (@ + dir) % Addresses]
    [] OTHER -> v

NextKernel(dir) == Stepped(kernel, dir, 0, MaxKernels - 1)

\* Rows of the last tab below the third return before changes_made is set.
Counts == tab = 2 => row <= 2

Noted == IF Counts THEN TRUE ELSE changes

SetData(dir) ==
  /\ at = "data"
  /\ edits' = edits + (IF Turned(InUse, dir) = InUse THEN 0 ELSE 1) /\ edits' <= MaxEdits
  /\ SetValues(Turned(InUse, dir))
  /\ kernel' = IF tab = 2 /\ row = 0 THEN NextKernel(dir) ELSE kernel
  /\ changes' = Noted
  /\ screen' = DrawData(Turned(InUse, dir), tab, row, kernel')
  /\ UNCHANGED <<disk, place, at, tab, row, before, reset>>

AskReset ==
  /\ at = "data" /\ at' = "reset" /\ Popup
  /\ TabKept /\ UNCHANGED <<tab, row>>

Reset(v) ==
  CASE tab = 0 -> [v EXCEPT !.colour = Default.colour, !.top = Default.top]
    [] tab = 1 -> [v EXCEPT !.number = Default.number]
    [] OTHER -> [v EXCEPT !.info[kernel] = Default.info[kernel]]

\* A tab put back to the defaults does not count as a change.
ResetTab ==
  /\ at = "reset" /\ at' = "data" /\ edits < MaxEdits /\ edits' = edits + 1
  /\ SetValues(Reset(InUse)) /\ reset' = TRUE
  /\ screen' = DrawData(Reset(InUse), tab, row, kernel)
  /\ UNCHANGED <<disk, place, tab, row, kernel, changes, before>>

KeepTab ==
  /\ at = "reset" /\ at' = "data"
  /\ screen' = DrawData(InUse, tab, row, kernel)
  /\ TabKept /\ UNCHANGED <<tab, row>>

-----------------------------------------------------------------------------
(* Leaving *)

\* The loader asks for the settings again (bootloader_uefi.c 851).
Leave(s) == at' = "out" /\ place' = GetAmbrc(s)

LeaveUnchanged ==
  /\ at = "tabs" /\ ~changes
  /\ Leave(base)
  /\ UNCHANGED <<base, backup, disk, tab, row, kernel, changes, before, reset, edits, screen>>

AskSave ==
  /\ at = "tabs" /\ changes /\ at' = "save" /\ Popup
  /\ TabKept /\ UNCHANGED <<tab, row>>

\* Mutant of Sealed: the sum of before the changes.
SealKept(s) == s

Sealed(s) == [s EXCEPT !.crc = s.values]

\* changes_made is never reset, and the answer of the disk is not looked at.
Save(written) ==
  /\ at = "save"
  /\ base' = IF place = "base" THEN Sealed(base) ELSE base
  /\ backup' = IF place = "base" THEN backup ELSE Sealed(backup)
  /\ disk' = IF written THEN <<IF place = "base" THEN base' ELSE backup'>> ELSE disk
  /\ Leave(base')
  /\ UNCHANGED <<tab, row, kernel, changes, before, reset, edits, screen>>

\* The changes stay in memory, without their sum.
DontSave ==
  /\ at = "save"
  /\ Leave(base)
  /\ UNCHANGED <<base, backup, disk, tab, row, kernel, changes, before, reset, edits, screen>>

Cancel ==
  /\ at = "save" /\ at' = "tabs" /\ screen' = DrawTabs(tab)
  /\ TabKept /\ UNCHANGED <<tab, row>>

Next ==
  \/ Start \/ OtherTab \/ EnterTab \/ LeaveTab \/ OtherRow
  \/ \E dir \in {-1, 1} : SetData(dir)
  \/ AskReset \/ ResetTab \/ KeepTab
  \/ LeaveUnchanged \/ AskSave \/ \E written \in BOOLEAN : Save(written)
  \/ DontSave \/ Cancel

-----------------------------------------------------------------------------
(***************************************************************************)
(* What is written to the disk is accepted at the next start, and what the *)
(* editor changes is never out of range: numbers name a kernel there can   *)
(* be, and the kernel edited is one of the table. Leaving without having   *)
(* been asked changes nothing but what was reset. While keys are read the  *)
(* screen shows the settings in use and no question that was answered.     *)
(***************************************************************************)
SettingsKept ==
  /\ disk # <<>> => Accepted(disk[1])
  /\ base.values \in Values /\ backup.values \in Values /\ kernel < MaxKernels
  /\ at = "tabs" /\ ~changes /\ ~reset => InUse = before
  /\ at = "tabs" => screen = DrawTabs(tab)
  /\ at = "data" => screen = DrawData(InUse, tab, row, kernel)
=============================================================================
