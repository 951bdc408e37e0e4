---------------------------- MODULE VisibleShell ----------------------------
(***************************************************************************)
(* The shell of AOS++ (vshell.c) on the GPU's text (pyrion.c): the line    *)
(* that is typed, the commands that ask to be confirmed, the place of the  *)
(* next glyph in the viewport, and the font with its two allocations.      *)
(* A command's name, a message and the prompt are one glyph each; a glyph  *)
(* is as wide and high as the font's size, and a line as well. The shell   *)
(* ends as soon as something it prints is refused.                         *)
(***************************************************************************)
EXTENDS Integers, SequencesExt

CONSTANTS Width, Height,  \* vshell_viewport
          MaxLine         \* the bytes of cmd_buf without its end

VARIABLES at,             \* "off", "on", "safety": the safety shell, "reboot"
          own,            \* ctx->font, the allocations for fonts, whether a free was wrong
          x, y,           \* fb_cursor
          line,           \* cmd_buf[0 .. cmd_len - 1]
          shown,          \* ghost: the glyphs drawn since the prompt
          lastCmd,        \* 1, 2: exit, reboot wait for an answer
          reload,         \* need_reload_vshell
          before          \* history: the line obeyed before, when it is one that asks

shellVars == <<at, own, x, y, line, shown, lastCmd, reload, before>>

Asking == {"exit", "reboot"}
Words == Asking \cup {"size", "font", "clear", "yes", "other"}
NoFont == [valid |-> FALSE, base |-> 1, size |-> 1, allocs |-> {}]

Init ==
  /\ at = "off" /\ own = [font |-> NoFont, heap |-> {}, wrong |-> FALSE]
  /\ x = 0 /\ y = 0 /\ line = <<>> /\ shown = <<>> /\ lastCmd = 0 /\ reload = FALSE
  /\ before = <<>>

-----------------------------------------------------------------------------
(* Text: s is the cursor, whether all was accepted, and what was drawn. *)

\* draw_char: the ascent is not scaled, the bearing is.
Inside(f, s) ==
  LET top == s.y + f.base - f.size IN
    top >= 0 /\ s.x + f.size <= Width /\ top + f.size <= Height

Refuse(s) == [s EXCEPT !.ok = FALSE]

DrawChar(f, s, c) ==
  IF Inside(f, s) THEN [s EXCEPT !.x = @ + f.size, !.drawn = Append(@, c)] ELSE Refuse(s)

LineBelow(f, s) == [s EXCEPT !.x = 0, !.y = @ + f.size]
RoomBelow(f, s) == s.y + f.size <= Height

\* A backspace has no glyph.
PrintC(f, s, c) ==
  CASE c = "newline" -> IF RoomBelow(f, s) THEN LineBelow(f, s) ELSE Refuse(s)
    [] c = "erase" -> Refuse(s)
    [] OTHER -> IF s.x + f.size <= Width THEN DrawChar(f, s, c)
                ELSE IF RoomBelow(f, s) THEN DrawChar(f, LineBelow(f, s), c)
                ELSE s

Text(f, s, text) ==
  LET Put(t, c) == IF t.ok THEN PrintC(f, t, c) ELSE t IN FoldLeft(Put, s, text)

Cursor(a, b) == [x |-> a, y |-> b, ok |-> TRUE, drawn |-> <<>>]
Here == Cursor(x, y)
Prompt == <<"$">>
Message == <<"m", "newline">>

-----------------------------------------------------------------------------
(* Fonts: an atlas and its glyphs. *)

Least(h) == CHOOSE i \in 1..9 \ h : \A j \in 1..9 \ h : i <= j

NewFont(h, b) ==
  LET a == Least(h) IN
    [valid |-> TRUE, base |-> b, size |-> b, allocs |-> {a, Least(h \cup {a})}]

Take(o, f) == [o EXCEPT !.font = f, !.heap = @ \cup f.allocs]

\* pyrion_destroy_font
Destroy(o) ==
  IF o.font.valid
  THEN [font |-> NoFont, heap |-> o.heap \ o.font.allocs,
        wrong |-> o.wrong \/ ~(o.font.allocs \subseteq o.heap)]
  ELSE [o EXCEPT !.font = NoFont]

\* Mutant of ReplaceFont: the old font stays allocated.
ReplaceOnly(o) == Take(o, NewFont(o.heap, 2))

\* A font from a file is made, then pyrion_set_builtins_font destroys the old one.
ReplaceFont(o) == Take(Destroy(o), NewFont(o.heap, 2))

-----------------------------------------------------------------------------
(* start_vshell: what was printed goes on with the next line, or ends the shell. *)

Goes(s, o) ==
  /\ x' = s.x /\ y' = s.y /\ line' = <<>> /\ shown' = <<>>
  /\ at' = (IF s.ok THEN "on" ELSE "off") /\ own' = (IF s.ok THEN o ELSE Destroy(o))

\* The font comes from a file or is the built-in one, is uploaded, and its size set.
Start ==
  /\ at = "off"
  /\ \E b \in {1, 2} :
       LET f == [NewFont(own.heap, b) EXCEPT !.size = 1] IN
         Goes(Text(f, Cursor(0, 0), Message \o Prompt), Take(own, f))
  /\ lastCmd' = 0 /\ reload' = FALSE /\ before' = <<>>

\* An upload that fails leaves ctx->font a copy, not valid, of a font that is freed.
UploadFails ==
  /\ at = "off"
  /\ own' = Destroy([own EXCEPT !.font = [NewFont(own.heap, 2) EXCEPT !.valid = FALSE]])
  /\ UNCHANGED <<at, x, y, line, shown, lastCmd, reload, before>>

\* pyrion_clear or pyrion_flush fails.
DeviceFails ==
  /\ at = "on" /\ Goes([Here EXCEPT !.ok = FALSE], own)
  /\ UNCHANGED <<lastCmd, reload, before>>

Reload ==
  /\ at = "on" /\ reload /\ reload' = FALSE
  /\ Goes(Text(own.font, Cursor(0, 0), Prompt), own) /\ UNCHANGED <<lastCmd, before>>

-----------------------------------------------------------------------------
(* vshell_handle_user_input. A character counts when it has been accepted. *)

Waits == at = "on" /\ ~reload
Aside == UNCHANGED <<at, own, lastCmd, reload, before>>

Type(c) ==
  LET s == Text(own.font, Here, <<c>>) IN
  /\ Waits /\ Len(line) < MaxLine
  /\ x' = s.x /\ y' = s.y /\ shown' = shown \o s.drawn
  /\ line' = IF s.ok THEN Append(line, c) ELSE line
  /\ Aside

\* Mutant of Erase: the count goes down before the backspace is printed.
EraseFirst ==
  /\ Waits /\ line # <<>> /\ line' = Front(line) /\ UNCHANGED <<x, y, shown>> /\ Aside

Erase ==
  LET s == Text(own.font, Here, <<"erase">>) IN
  /\ Waits /\ line # <<>> /\ x' = s.x /\ y' = s.y
  /\ IF s.ok THEN line' = Front(line) /\ shown' = Front(shown) ELSE UNCHANGED <<line, shown>>
  /\ Aside

-----------------------------------------------------------------------------
(* vshell_handle_shell. Where there is no room for a newline, Enter does nothing. *)

Entered == Text(own.font, Here, <<"newline">>)
Reply(f, text) == Text(f, Entered, text \o Prompt)

EmptyLine ==
  /\ Waits /\ line = <<>> /\ Entered.ok
  /\ x' = Entered.x /\ y' = Entered.y /\ shown' = <<>> /\ UNCHANGED line /\ Aside

Obey ==
  /\ Waits /\ line # <<>> /\ Entered.ok
  /\ before' = IF line \in {<<w>> : w \in Asking} THEN line ELSE <<>>

\* The question takes the place of the prompt.
Ask(n, word) ==
  /\ Obey /\ line = <<word>> /\ lastCmd \notin {1, n}
  /\ lastCmd' = n /\ Goes(Text(own.font, Entered, Prompt), own) /\ UNCHANGED reload

Cancels == lastCmd # 0 /\ line # <<"yes">> /\ ~(lastCmd = 2 /\ line = <<"exit">>)
Cancelled == Reply(own.font, <<"newline">> \o Message)

\* Mutant of Cancel: the question stays open.
CancelOnly == Obey /\ Cancels /\ Goes(Cancelled, own) /\ UNCHANGED <<lastCmd, reload>>

Cancel == Obey /\ Cancels /\ Goes(Cancelled, own) /\ lastCmd' = 0 /\ UNCHANGED reload

Confirmed(n) == Waits /\ line = <<"yes">> /\ lastCmd = n /\ Entered.ok

\* int 0x50, which does not come back, and acpi_reboot, which may.
Leave(n, where) ==
  /\ Confirmed(n) /\ at' = where
  /\ UNCHANGED <<own, x, y, line, shown, lastCmd, reload, before>>

RebootFails ==
  /\ Confirmed(2) /\ Obey /\ lastCmd' = 0 /\ Goes(Cancelled, own) /\ UNCHANGED reload

Command(word) == Obey /\ lastCmd = 0 /\ line = <<word>> /\ UNCHANGED lastCmd

Clear ==
  Command("clear") /\ Goes(Text(own.font, Cursor(0, 0), Prompt), own) /\ UNCHANGED reload

\* A size below 1 is refused, without a word.
SetSize ==
  /\ Command("size") /\ reload' = TRUE
  /\ \E n \in 0..2 :
       LET f == IF n = 0 THEN own.font ELSE [own.font EXCEPT !.size = n] IN
         Goes(Reply(f, <<>>), [own EXCEPT !.font = f])

SetFont ==
  /\ Command("font") /\ reload' = TRUE
  /\ LET o == ReplaceFont(own) IN Goes(Reply(o.font, Message), o)

\* A font that cannot be loaded or has no line height, and every other command.
Answered ==
  /\ \/ Command("font")
     \/ Obey /\ lastCmd = 0 /\ line \notin {<<w>> : w \in Words \ {"yes", "other"}}
        /\ UNCHANGED lastCmd
  /\ Goes(Reply(own.font, Message), own) /\ UNCHANGED reload

Next ==
  \/ Start \/ UploadFails \/ DeviceFails \/ Reload
  \/ \E c \in Words : Type(c)
  \/ Erase \/ EmptyLine \/ Cancel
  \/ \E n \in {1, 2} : Ask(n, IF n = 1 THEN "exit" ELSE "reboot")
  \/ Leave(1, "safety") \/ Leave(2, "reboot") \/ RebootFails
  \/ Clear \/ SetSize \/ SetFont \/ Answered

Spec == Init /\ [][Next]_shellVars

-----------------------------------------------------------------------------
(***************************************************************************)
(* What the shell will obey is what can be read behind its prompt, though  *)
(* printing may be refused at any glyph; it is left only by a yes to the   *)
(* very question; and while it runs exactly the font in use is allocated,  *)
(* of which nothing is left or freed twice when the shell ends.            *)
(***************************************************************************)
ShellTrue ==
  /\ at = "on" => shown = line
  /\ at = "safety" => before = <<"exit">>
  /\ at = "reboot" => before = <<"reboot">>
  /\ ~own.wrong /\ own.heap = own.font.allocs
=============================================================================
