------------------------------ MODULE Terminal ------------------------------
(***************************************************************************)
(* The keyboard and the screen of the shell: codes wait in the PS/2        *)
(* controller, keyboard.c follows the shift keys and makes characters of   *)
(* them, ps2_read_line (io.c) keeps the line and echoes it, and the        *)
(* characters go to VGA text memory (io.c) or a frame buffer               *)
(* (framebuffer.c). A cell of the frame buffer is 8 by 16 pixels.          *)
(***************************************************************************)
EXTENDS Integers, Sequences

CONSTANTS Cols, Rows,
          MaxLine,        \* max_len: bytes of the line with its end
          MaxAhead,       \* bound: codes that wait
          MaxKeys         \* bound: keys pressed or let go

VARIABLES mode,           \* "vga" or "gop"
          held, capsOn,   \* the keyboard: shift keys that are down, caps lock
          codes,          \* the controller: codes, each with the character it was pressed for
          lshift, rshift, capslock, \* cur_state
          wrong,          \* history: a character is not the one that was meant
          line,           \* buf[0 .. idx - 1]
          cells, x, y,    \* the screen and the place of the next character
          astray,         \* history: the place or the screen is no longer the line's
          keys            \* counts up to MaxKeys

terminalVars == <<mode, held, capsOn, codes, lshift, rshift, capslock, wrong, line, cells, x, y,
                  astray, keys>>

Blank == " "
Screen == 0..Rows * Cols - 1

Init ==
  /\ mode \in {"vga", "gop"} /\ held = {} /\ capsOn = FALSE /\ codes = <<>>
  /\ lshift = FALSE /\ rshift = FALSE /\ capslock = FALSE /\ wrong = FALSE
  /\ line = <<>> /\ cells = [p \in Screen |-> Blank] /\ x = 0 /\ y = 0
  /\ astray = FALSE /\ keys = 0

-----------------------------------------------------------------------------
(* The keys: an arrow has the code of a digit of the number pad. *)

Upper == [a |-> "A"]
Shifted == [one |-> "!"]
Plain == [a |-> "a", one |-> "1", up |-> "8", tab |-> "tab", enter |-> "newline", erase |-> "erase"]

CharOf(key, shift, caps) ==
  IF key \in DOMAIN Upper THEN (IF shift # caps THEN Upper[key] ELSE Plain[key])
  ELSE IF shift /\ key \in DOMAIN Shifted THEN Shifted[key]
  ELSE Plain[key]

Send(code, char) ==
  /\ Len(codes) < MaxAhead /\ keys < MaxKeys /\ keys' = keys + 1
  /\ codes' = Append(codes, [code |-> code, meant |-> char])
  /\ UNCHANGED <<mode, lshift, rshift, capslock, wrong, line, cells, x, y, astray>>

PressShift(s) ==
  /\ s \notin held /\ held' = held \cup {s} /\ Send(s, "") /\ UNCHANGED capsOn

ReleaseShift(s) ==
  /\ s \in held /\ held' = held \ {s}
  /\ Send(IF s = "left" THEN "left up" ELSE "right up", "") /\ UNCHANGED capsOn

PressCaps == capsOn' = ~capsOn /\ Send("caps", "") /\ UNCHANGED held

Press(key) == Send(key, CharOf(key, held # {}, capsOn)) /\ UNCHANGED <<held, capsOn>>

-----------------------------------------------------------------------------
(* Characters on the screen: s has cells, x, y and astray *)

Shown == [cells |-> cells, x |-> x, y |-> y, astray |-> astray]

Show(s) == cells' = s.cells /\ x' = s.x /\ y' = s.y /\ astray' = s.astray

Place(s) == s.y * Cols + s.x

\* What lies outside is not seen: past the end of text memory, or of a line of pixels.
Put(s, c) ==
  IF s.x < Cols /\ Place(s) \in Screen THEN [s EXCEPT !.cells[Place(s)] = c] ELSE s

\* vmem_scroll_up moves as many cells as there are rows, by one, and y stays where it is.
ScrollVga(s) ==
  [s EXCEPT !.astray = TRUE,
            !.cells = [p \in Screen |-> IF p < Rows - 1 THEN s.cells[p + 1]
                                        ELSE IF p = Rows - 1 THEN Blank ELSE s.cells[p]]]

NewLineVga(s) ==
  LET t == [s EXCEPT !.x = 0, !.y = @ + 1] IN IF t.y >= Rows THEN ScrollVga(t) ELSE t

EraseVga(s) ==
  IF s.x = 0 /\ s.y = 0 THEN [s EXCEPT !.astray = TRUE]
  ELSE LET t == IF s.x > 0 THEN [s EXCEPT !.x = @ - 1] ELSE [s EXCEPT !.x = Cols - 1, !.y = @ - 1]
       IN  Put(t, Blank)

\* A tab is a character like others here.
PrintVga(s, c) ==
  CASE c = "newline" -> NewLineVga(s)
    [] c = "erase" -> EraseVga(s)
    [] OTHER -> LET t == [Put(s, c) EXCEPT !.x = @ + 1]
                IN  IF t.x >= Cols THEN NewLineVga(t) ELSE t

\* fb_scroll_up, and y is taken back.
ScrollFb(s) ==
  IF s.y >= Rows
  THEN [s EXCEPT !.y = @ - 1,
                 !.cells = [p \in Screen |-> IF p + Cols \in Screen THEN s.cells[p + Cols]
                                        ELSE Blank]]
  ELSE s

\* Mutant of WrapFb: the line is left a cell too late.
WrapFbLate(s) == IF s.x > Cols THEN [s EXCEPT !.x = 0, !.y = @ + 1] ELSE s

WrapFb(s) == IF s.x >= Cols THEN [s EXCEPT !.x = 0, !.y = @ + 1] ELSE s

GlyphFb(s, c) == ScrollFb(WrapFb([Put(s, c) EXCEPT !.x = @ + 1]))

\* At the beginning of a line the place becomes the one behind the last column.
EraseFb(s) ==
  IF s.x = 0 /\ s.y = 0 THEN [s EXCEPT !.astray = TRUE]
  ELSE IF s.x = 0 THEN [s EXCEPT !.x = Cols, !.y = @ - 1, !.astray = TRUE]
  ELSE Put([s EXCEPT !.x = @ - 1], Blank)

PrintFb(s, c) ==
  CASE c = "newline" -> ScrollFb([s EXCEPT !.x = 0, !.y = @ + 1])
    [] c = "tab" -> [GlyphFb(GlyphFb(GlyphFb(GlyphFb(s, Blank), Blank), Blank), Blank)
                      EXCEPT !.astray = TRUE]
    [] c = "erase" -> EraseFb(s)
    [] OTHER -> GlyphFb(s, c)

Echo(s, c) == IF mode = "vga" THEN PrintVga(s, c) ELSE PrintFb(s, c)

-----------------------------------------------------------------------------
(* The line *)

UpdateState(code) ==
  /\ lshift' = (code = "left" \/ (lshift /\ code # "left up"))
  /\ rshift' = (code = "right" \/ (rshift /\ code # "right up"))
  /\ capslock' = IF code = "caps" THEN ~capslock ELSE capslock

\* keyboard_ps2_get_char: "" for a code that makes no character.
GetChar(code) ==
  IF code \in DOMAIN Plain THEN CharOf(code, lshift \/ rshift, capslock) ELSE ""

\* One character; after the line's end the shell writes its prompt and reads the next.
ReadLine ==
  /\ codes # <<>> /\ codes' = Tail(codes)
  /\ UpdateState(Head(codes).code)
  /\ LET c == GetChar(Head(codes).code) IN
       /\ wrong' = (wrong \/ c # Head(codes).meant)
       /\ \/ c = "" /\ UNCHANGED line /\ Show(Shown)
          \/ c = "newline" /\ line' = <<>> /\ Show(Echo(Echo(Shown, "newline"), "$"))
          \/ /\ c = "erase" /\ line = <<>> /\ UNCHANGED line /\ Show(Shown)
          \/ /\ c = "erase" /\ line # <<>>
             /\ line' = SubSeq(line, 1, Len(line) - 1) /\ Show(Echo(Shown, "erase"))
          \/ /\ c \notin {"", "newline", "erase"} /\ Len(line) < MaxLine - 1
             /\ line' = Append(line, c) /\ Show(Echo(Shown, c))
          \/ /\ c \notin {"", "newline", "erase"} /\ Len(line) >= MaxLine - 1
             /\ UNCHANGED line /\ Show(Shown)
  /\ UNCHANGED <<mode, held, capsOn, keys>>

\* The shell's clear; what was drawn wrongly is gone.
ClearScreen ==
  /\ line = <<>> /\ keys < MaxKeys
  /\ cells' = [p \in Screen |-> Blank] /\ x' = 0 /\ y' = 0 /\ astray' = FALSE
  /\ keys' = keys + 1
  /\ UNCHANGED <<mode, held, capsOn, codes, lshift, rshift, capslock, wrong, line>>

Next ==
  \/ \E s \in {"left", "right"} : PressShift(s) \/ ReleaseShift(s)
  \/ PressCaps \/ \E key \in DOMAIN Plain : Press(key)
  \/ ReadLine \/ ClearScreen

Spec == Init /\ [][Next]_terminalVars

-----------------------------------------------------------------------------
(***************************************************************************)
(* What is typed ahead becomes the characters that were meant when the     *)
(* keys were pressed, and the line fits its buffer. The line is on the     *)
(* screen, right before the place of the next character, over the edge of  *)
(* a line and after the screen has moved up; only after a tab, an erasure  *)
(* over the edge, or VGA text memory being moved up is it not.             *)
(***************************************************************************)
EchoShown ==
  /\ ~wrong /\ Len(line) < MaxLine
  /\ ~astray =>
       /\ x < Cols /\ y < Rows
       /\ \A k \in 1..Len(line) :
            LET p == y * Cols + x - (Len(line) + 1 - k)
            IN  p \in Screen => cells[p] = line[k]
=============================================================================
