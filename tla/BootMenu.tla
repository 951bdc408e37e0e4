------------------------------ MODULE BootMenu ------------------------------
(***************************************************************************)
(* The UEFI boot loader up to the choice of a kernel: what it needs from   *)
(* the firmware, the crash check, the menu with its partial redraws, the   *)
(* pop-up, the time limit and the loading (bootloader_uefi.c 424-950).     *)
(***************************************************************************)
EXTENDS Integers, FiniteSets

CONSTANTS MaxKernels,     \* bound: kernels on the disk
          Rows            \* VIEWPORT_HEIGHT

VARIABLES at,             \* where the loader is
          config,         \* ambrc: settings at the top, the three numbers, mode of the check
          kernels,        \* entry_count
          mode,           \* current_mode: 0 normal, 1 unsure, 2 panic
          selected, old, scroll, redraw,
          settings,       \* ambrc_entry
          popup,          \* popup_finished
          screen,         \* what each row shows, and whether it is marked
          chosen          \* timed out?, final_kernel_idx

bootMenuVars ==
  <<at, config, kernels, mode, selected, old, scroll, redraw, settings, popup, screen, chosen>>

Nothing == [timeout |-> FALSE, kernel |-> -2]

\* Numbers of kernels in the configuration: value + 1, 0: not present.
Init ==
  /\ at = "start"
  /\ config \in [top : BOOLEAN, normal : 0..2, safe : {0}, panic : 0..1, check : 0..3]
  /\ kernels = 0 /\ mode = 0 /\ selected = 0 /\ old = -1 /\ scroll = 0 /\ redraw = TRUE
  /\ settings = 0 /\ popup = FALSE
  /\ screen = [r \in 0..Rows - 1 |-> <<"blank", FALSE>>] /\ chosen = Nothing

-----------------------------------------------------------------------------
(* Before the menu *)

Pass(from, to) == at = from /\ at' \in {to, "failed"}

MenuKept == UNCHANGED <<selected, old, scroll, redraw, popup, screen, chosen>>

\* Text mode, library, a disk to boot from, memory for UniBootCore, the drive's place.
FindDrive ==
  /\ Pass("start", "mount")
  /\ MenuKept /\ UNCHANGED <<config, kernels, mode, settings>>

Mount ==
  /\ Pass("mount", "check")
  /\ MenuKept /\ UNCHANGED <<config, kernels, mode, settings>>

\* The counter ran longer than a cold start allows; the flag of the last run is still set.
Verify(late, flag) ==
  /\ at = "check" /\ at' = "screen"
  /\ mode' = CASE config.check = 0 -> 0
               [] config.check = 1 -> IF late THEN 2 ELSE 0
               [] config.check = 2 -> IF flag THEN 2 ELSE 0
               [] OTHER -> IF late /\ flag THEN 2 ELSE IF late \/ flag THEN 1 ELSE 0
  /\ MenuKept /\ UNCHANGED <<config, kernels, settings>>

SetMode ==
  /\ Pass("screen", "space")
  /\ MenuKept /\ UNCHANGED <<config, kernels, mode, settings>>

SettingsEntry(top, n) == IF top THEN 0 ELSE n

\* The space for the kernel's page tables, and the kernels of the disk; none if that fails.
ListKernels ==
  /\ Pass("space", "menu")
  /\ kernels' \in 0..MaxKernels
  /\ settings' = SettingsEntry(config.top, kernels')
  /\ MenuKept /\ UNCHANGED <<config, mode>>

-----------------------------------------------------------------------------
(* The menu *)

Items == kernels + 2
Firmware == kernels + 1

\* The kernel behind an item, from 0.
KernelOf(item) == IF settings = 0 THEN item - 1 ELSE item

NameOf(item) ==
  IF item = settings THEN "settings"
  ELSE IF item = Firmware THEN "firmware" ELSE KernelOf(item)

Row(r) ==
  IF scroll + r < Items THEN <<NameOf(scroll + r), scroll + r = selected>>
  ELSE <<"blank", FALSE>>

Full == [r \in 0..Rows - 1 |-> Row(r)]

\* The row that was marked and the one that is, as far as they are in view.
Partial ==
  [r \in 0..Rows - 1 |-> IF scroll + r \in {old, selected} THEN Row(r) ELSE screen[r]]

\* One number is set and a limit too: it is looked at once in a round of the loop only,
\* and each round waits for a key.
TimeOut ==
  /\ at = "menu"
  /\ config.normal > 0 \/ config.panic > 0 \/ config.safe > 0
  /\ at' = "load"
  /\ chosen' = [timeout |-> TRUE,
                kernel |-> (CASE mode = 0 -> config.normal
                              [] mode = 1 -> config.safe
                              [] OTHER -> config.panic) - 1]
  /\ UNCHANGED <<config, kernels, mode, selected, old, scroll, redraw, settings, popup, screen>>

Cleared == screen' = [r \in 0..Rows - 1 |-> <<"blank", FALSE>>] /\ redraw' = TRUE

\* "Did anything crash?": yes, with a shell; no; or never mind.
Popup(answer) ==
  /\ at = "menu" /\ mode = 1 /\ ~popup
  /\ mode' = CASE answer = "y" -> 2 [] answer = "n" -> 0 [] OTHER -> mode
  /\ popup' = TRUE /\ Cleared /\ at' = "draw"
  /\ UNCHANGED <<config, kernels, selected, old, scroll, settings, chosen>>

Draw ==
  /\ at \in {"menu", "draw"} /\ (at = "menu" /\ mode = 1 => popup)
  /\ at' = "key" /\ redraw' = FALSE /\ old' = selected
  /\ screen' = IF redraw THEN Full ELSE IF selected # old THEN Partial ELSE screen
  /\ UNCHANGED <<config, kernels, mode, selected, scroll, settings, popup, chosen>>

Key ==
  /\ at = "key" /\ at' = "menu"
  /\ UNCHANGED <<config, kernels, mode, old, settings, popup, screen, chosen>>

\* Mutant of UpScrolls: the rows are drawn again only on the way down.
UpScrollsQuietly == redraw

UpScrolls == redraw \/ selected - 1 < scroll

Up ==
  /\ Key
  /\ selected' = IF selected > 0 THEN selected - 1 ELSE selected
  /\ scroll' = IF selected' < scroll THEN scroll - 1 ELSE scroll
  /\ redraw' = IF selected > 0 THEN UpScrolls ELSE redraw

Down ==
  /\ Key
  /\ selected' = IF selected < Items - 1 THEN selected + 1 ELSE selected
  /\ scroll' = IF selected' >= scroll + Rows THEN scroll + 1 ELSE scroll
  /\ redraw' = (redraw \/ selected' >= scroll + Rows)

OtherKey == Key /\ UNCHANGED <<selected, scroll, redraw>>

Shell ==
  /\ at = "key" /\ at' = "menu" /\ Cleared
  /\ UNCHANGED <<config, kernels, mode, selected, old, scroll, settings, popup, chosen>>

\* The settings may put themselves in the other place; what is selected stays a number.
EnterSettings ==
  /\ at = "key" /\ selected = settings
  /\ at' = "menu" /\ Cleared
  /\ \E top \in BOOLEAN :
       config' = [config EXCEPT !.top = top] /\ settings' = SettingsEntry(top, kernels)
  /\ UNCHANGED <<kernels, mode, selected, old, scroll, popup, chosen>>

EnterFirmware ==
  /\ at = "key" /\ selected = Firmware /\ at' = "reset"
  /\ MenuKept /\ UNCHANGED <<config, kernels, mode, settings>>

EnterKernel ==
  /\ at = "key" /\ selected # settings /\ selected # Firmware
  /\ at' = "load" /\ chosen' = [timeout |-> FALSE, kernel |-> KernelOf(selected)]
  /\ UNCHANGED <<config, kernels, mode, selected, old, scroll, redraw, settings, popup, screen>>

-----------------------------------------------------------------------------
(* Memory, the disk, the image; the flag and the stack: each may end it. *)

LoadKernel ==
  /\ Pass("load", "flag")
  /\ MenuKept /\ UNCHANGED <<config, kernels, mode, settings>>

Stack ==
  /\ Pass("flag", "map")
  /\ MenuKept /\ UNCHANGED <<config, kernels, mode, settings>>

Next ==
  \/ FindDrive \/ Mount \/ SetMode \/ ListKernels
  \/ \E late, flag \in BOOLEAN : Verify(late, flag)
  \/ TimeOut \/ Draw \/ \E answer \in {"y", "n", "c"} : Popup(answer)
  \/ Up \/ Down \/ OtherKey \/ Shell \/ EnterSettings \/ EnterFirmware \/ EnterKernel
  \/ LoadKernel \/ Stack

-----------------------------------------------------------------------------
(***************************************************************************)
(* When the menu waits for a key the selected item is in view and every    *)
(* row shows what it stands for, after any sequence of keys, pop-ups and   *)
(* changed settings; and Enter starts the kernel whose name is marked.     *)
(***************************************************************************)
Shown == {r \in 0..Rows - 1 : screen[r][2]}

MenuTrue ==
  /\ at = "key" => screen = Full /\ Cardinality(Shown) = 1
  /\ at = "load" /\ ~chosen.timeout =>
       /\ chosen.kernel \in 0..kernels - 1
       /\ \A r \in Shown : screen[r][1] = chosen.kernel
=============================================================================
