------------------------------ MODULE FontFile ------------------------------
(***************************************************************************)
(* A bitmap font from its BDF face to the text of the GPU: bdfconv writes  *)
(* an AOSBF file (bdfconv/src/aosbf.c), and the kernel (aosbf.c) reads it  *)
(* into a table of glyphs and an atlas of pixels. Header, strings and an   *)
(* entry of the table are one unit of the file each, as a byte of the      *)
(* bitmaps is; a byte is named by its glyph, row and column.               *)
(***************************************************************************)
EXTENDS Integers, Sequences, FiniteSets

CONSTANTS Width,          \* INITIAL_WIDTH of the atlas
          Step,           \* INITIAL_HEIGHT, and what heights are rounded up to
          MaxHeight,      \* AOSBF_ATLAS_MAX_HEIGHT
          Widths, Heights, Formats \* of the face's glyphs

VARIABLES at,             \* "convert", "file", "check", "load", "loaded", "refused"
          char,           \* the next character of the face, or glyph of the table
          table, blob,    \* the glyphs and bitmaps of the file
          size,           \* bytes of it that were written
          atlas,          \* aosbf_atlas_data
          out,            \* glyphs: index in the table, place in the atlas
          fallback,       \* fallback_glyph
          heap,           \* what is allocated
          short           \* history: memory was short

fontVars == <<at, char, table, blob, size, atlas, out, fallback, heap, short>>

Codes == <<"?", "a", "U+FFFD">>
PerByte == [a8 |-> 1, gray4 |-> 2, mono |-> 8]
NoAtlas == [cells |-> <<>>, height |-> 0, row |-> 0, x |-> 0, y |-> 0]
None == [codepoint |-> "", index |-> 0, x |-> 0, y |-> 0]

Init ==
  /\ at = "convert" /\ char = 1 /\ table = <<>> /\ blob = <<>> /\ size = 0
  /\ atlas = NoAtlas /\ out = <<>> /\ fallback = None /\ heap = {} /\ short = FALSE

-----------------------------------------------------------------------------
(* bdfconv: build_glyphs, one character at a time, then write_aosbf *)

Pitch(w, format) == (w + PerByte[format] - 1) \div PerByte[format]

\* The rows of a bitmap, as push_bitmap copies them.
Bitmap(g, w, h, format) ==
  LET p == Pitch(w, format) IN
    [k \in 1..p * h |-> [glyph |-> g, row |-> (k - 1) \div p, column |-> (k - 1) % p]]

Entry(valid, x, w, h, format) ==
  [codepoint |-> Codes[char], valid |-> valid, x |-> x, y |-> 0, w |-> w, h |-> h,
   pitch |-> Pitch(w, format), format |-> format,
   isFallback |-> Codes[char] \in {"?", "U+FFFD"}]

Converting == at = "convert" /\ char <= Len(Codes) /\ char' = char + 1
KernelIdle == UNCHANGED <<size, atlas, out, fallback, heap, short>>

PushBitmap(w, h, format) ==
  /\ Converting
  /\ table' = Append(table, Entry(TRUE, Len(blob), w, h, format))
  /\ blob' = blob \o Bitmap(Len(table) + 1, w, h, format)
  /\ UNCHANGED at /\ KernelIdle

\* A glyph without a bitmap, and one that cannot be loaded, which is not valid.
NoBitmap(valid) ==
  /\ Converting /\ table' = Append(table, Entry(valid, 0, 0, 0, "a8"))
  /\ UNCHANGED <<at, blob>> /\ KernelIdle

NoCharacter == Converting /\ UNCHANGED <<at, table, blob>> /\ KernelIdle

AtTable == 2
AtAtlas == AtTable + Len(table)
Whole == AtAtlas + Len(blob)

\* Writing may stop anywhere; what has been written stays.
Write ==
  /\ at = "convert" /\ char = Len(Codes) + 1 /\ table # <<>>
  /\ size' \in 1..Whole /\ at' = "file"
  /\ UNCHANGED <<char, table, blob, atlas, out, fallback, heap, short>>

-----------------------------------------------------------------------------
(* The kernel: aosbf_to_pyrion_font *)

FileIdle == UNCHANGED <<table, blob, size>>

Refuse ==
  at' = "refused" /\ heap' = {} /\ UNCHANGED <<char, atlas, out, fallback>> /\ FileIdle

Drawn == {i \in DOMAIN table : table[i].valid /\ table[i].w # 0 /\ table[i].h # 0}

\* The bytes of a glyph begin (y + 1) * x into the atlas of the file.
Source(g) == (g.y + 1) * g.x

\* Mutant of Valid: the end of the bitmaps is compared with the whole file.
ValidInFile ==
  /\ 1 < size /\ AtAtlas < size /\ Len(blob) >= 1
  /\ \A i \in Drawn : Source(table[i]) + table[i].pitch * table[i].h <= size

Valid ==
  /\ 1 < size /\ AtAtlas < size /\ Len(blob) >= 1
  /\ \A i \in Drawn : Source(table[i]) + table[i].pitch * table[i].h <= size - AtAtlas

\* aosbf_file_to_pyrion_font: the file is read into memory.
ReadFile ==
  /\ at = "file" /\ at' = "check" /\ heap' = {"data"}
  /\ UNCHANGED <<char, atlas, out, fallback, short>> /\ FileIdle

Check ==
  /\ at = "check"
  /\ \/ ~Valid /\ Refuse /\ UNCHANGED short
     \/ Valid /\ Drawn = {} /\ Refuse /\ UNCHANGED short
     \/ Valid /\ Drawn # {} /\ Refuse /\ short' = TRUE
     \/ /\ Valid /\ Drawn # {} /\ at' = "load" /\ char' = 1 /\ heap' = heap \cup {"glyphs"}
        /\ UNCHANGED <<atlas, out, fallback, short>> /\ FileIdle

-----------------------------------------------------------------------------
(* aosbf_convert_glyph_to_rgba8 *)

Cells(h) == 0..Width * h - 1
First(a) ==
  IF a.height = 0 THEN [a EXCEPT !.cells = [p \in Cells(Step) |-> <<>>], !.height = Step] ELSE a

\* A new row where the glyph and its padding do not fit.
Placed(a, w) ==
  IF a.x + w + 1 > Width THEN [a EXCEPT !.x = 0, !.y = @ + a.row + 1, !.row = 0] ELSE a

RoundUp(h) == ((h + Step - 1) \div Step) * Step

\* Mutant of Grown: the rows that are there are not copied.
GrownBlank(a, h) ==
  [a EXCEPT !.height = RoundUp(h), !.cells = [p \in Cells(RoundUp(h)) |-> <<>>]]

Grown(a, h) ==
  [a EXCEPT !.height = RoundUp(h),
            !.cells = [p \in Cells(RoundUp(h)) |->
                         IF p \in Cells(a.height) THEN a.cells[p] ELSE <<>>]]

\* The pixel at column c and row r: a byte, and the part of it.
Pixel(g, c, r) ==
  LET k == Source(g) + r * g.pitch + c \div PerByte[g.format] IN
    IF AtAtlas + k < size THEN <<blob[k + 1], c % PerByte[g.format]>> ELSE <<"outside">>

Paint(a, g) ==
  [a EXCEPT !.cells =
     [p \in DOMAIN a.cells |->
        LET c == (p % Width) - a.x
            r == (p \div Width) - a.y
        IN  IF c \in 0..g.w - 1 /\ r \in 0..g.h - 1 THEN Pixel(g, c, r) ELSE a.cells[p]]]

\* Mutant of Beside: the row is as high as its last glyph.
BesideLast(a, g) == [a EXCEPT !.x = @ + g.w + 1, !.row = g.h]

Beside(a, g) == [a EXCEPT !.x = @ + g.w + 1, !.row = IF g.h > @ THEN g.h ELSE @]

Skip ==
  /\ at = "load" /\ char <= Len(table) /\ char \notin Drawn /\ char' = char + 1
  /\ UNCHANGED <<at, atlas, out, fallback, heap, short>> /\ FileIdle

Convert ==
  /\ at = "load" /\ char <= Len(table) /\ char \in Drawn
  /\ LET g == table[char]
         a == Placed(First(atlas), g.w)
         need == a.y + g.h
         new == IF need > a.height THEN Grown(a, need) ELSE a
         o == [codepoint |-> g.codepoint, index |-> char, x |-> a.x, y |-> a.y] IN
       \/ /\ g.w <= Width /\ (need > a.height => RoundUp(need) <= MaxHeight)
          /\ char' = char + 1 /\ atlas' = Beside(Paint(new, g), g)
          /\ out' = Append(out, o)
          /\ fallback' = IF g.isFallback THEN o ELSE fallback
          /\ heap' = heap \cup {"atlas"} /\ UNCHANGED <<at, short>> /\ FileIdle
       \/ /\ g.w > Width \/ (need > a.height /\ RoundUp(need) > MaxHeight)
          /\ Refuse /\ UNCHANGED short
       \/ (atlas = NoAtlas \/ need > a.height) /\ Refuse /\ short' = TRUE

Finish ==
  /\ at = "load" /\ char = Len(table) + 1 /\ at' = "loaded" /\ heap' = heap \ {"data"}
  /\ UNCHANGED <<char, atlas, out, fallback, short>> /\ FileIdle

Next ==
  \/ \E w \in Widths, h \in Heights, f \in Formats : PushBitmap(w, h, f)
  \/ \E valid \in BOOLEAN : NoBitmap(valid)
  \/ NoCharacter \/ Write
  \/ ReadFile \/ Check \/ Skip \/ Convert \/ Finish

Spec == Init /\ [][Next]_fontVars

-----------------------------------------------------------------------------
(***************************************************************************)
(* A font that is loaded draws every glyph with the pixels of the face,    *)
(* each in cells of its own, though the atlas has grown meanwhile, and     *)
(* falls back on U+FFFD before the question mark; one that is refused      *)
(* leaves nothing allocated. A file that was written whole and has         *)
(* something to draw is refused only when memory is short or the atlas     *)
(* would be too large, and one that was cut short is never loaded.         *)
(***************************************************************************)
FaceShown(o) ==
  LET g == table[o.index] IN
    \A c \in 0..g.w - 1, r \in 0..g.h - 1 :
      /\ o.x + c < Width /\ o.y + r < atlas.height
      /\ atlas.cells[(o.y + r) * Width + o.x + c]
           = <<[glyph |-> o.index, row |-> r, column |-> c \div PerByte[g.format]],
               c % PerByte[g.format]>>

Preferred ==
  LET marked == {i \in Drawn : table[i].isFallback} IN
    IF marked = {} THEN 0 ELSE CHOOSE i \in marked : \A j \in marked : j <= i

FontTrue ==
  /\ at = "loaded" =>
       /\ size = Whole /\ {out[k].index : k \in DOMAIN out} = Drawn
       /\ \A k \in DOMAIN out : FaceShown(out[k])
       /\ fallback.index = Preferred /\ heap = {"atlas", "glyphs"}
  /\ at = "refused" =>
       /\ heap = {}
       /\ size = Whole /\ Drawn # {} /\ ~short =>
            \/ \E i \in Drawn : table[i].w > Width
            \/ \E i \in Drawn : RoundUp(atlas.y + atlas.row + 1 + table[i].h) > MaxHeight
=============================================================================
