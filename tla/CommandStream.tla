--------------------------- MODULE CommandStream ---------------------------
(***************************************************************************)
(* Drawing into one usable pyrion context (virtio.c 1103-1133, 1457-1510,  *)
(* 1600-2057): into its framebuffer, or, on a device with VirGL, as        *)
(* commands in a buffer of fixed size that the flush submits.  A picture is*)
(* one small region, "dot", and the rest of the viewport.                  *)
(***************************************************************************)
EXTENDS Integers, Sequences, SequencesExt

CONSTANTS Colours, Cap        \* stream_cap, in 32-bit words

VARIABLES virgl,              \* acceleration_present
          picture,            \* what the calls that returned TRUE have drawn
          stream,             \* cmd_stream
          needed,             \* flush_needed
          dropped,            \* a command found no room
          late,               \* a command timed out, of those the flush sends last
          scissor, target,    \* the host: its scissor, the 3D resource
          screen              \* what was shown last, without VirGL

streamVars == <<virgl, picture, stream, needed, dropped, late, scissor, target, screen>>

Places == {"dot", "rest"}
All(c) == [p \in Places |-> c]

\* A context with a viewport; the pictures begin alike.
Init ==
  /\ virgl \in BOOLEAN /\ stream = <<>> /\ needed = TRUE
  /\ dropped = FALSE /\ late = FALSE /\ scissor = Places
  /\ \E c \in Colours : picture = All(c) /\ target = All(c) /\ screen = All(c)

-----------------------------------------------------------------------------
(* The commands, and the words each takes with its header. *)

Scissor(places) == [op |-> "scissor", to |-> places, words |-> 4]
ClearTo(c) == [op |-> "clear", to |-> c, words |-> 9]
CopyTo(c) == [op |-> "copy", to |-> c, words |-> 14]
Blit == [op |-> "blit", to |-> 0, words |-> 22]

Words(s) == FoldLeft(LAMBDA n, c : n + c.words, 0, s)

Buffer == [stream |-> stream, dropped |-> dropped]

\* pyrion_push_virgl: without room the command is dropped, and nobody told.
Room(s, c) == Words(s) + c.words <= Cap
Push(b, c) == IF Room(b.stream, c) THEN [b EXCEPT !.stream = Append(b.stream, c)]
              ELSE [b EXCEPT !.dropped = TRUE]

Draws(after, new) ==
  /\ picture' = new
  /\ needed' = TRUE
  /\ IF virgl THEN stream' = after.stream /\ dropped' = after.dropped
              ELSE UNCHANGED <<stream, dropped>>
  /\ UNCHANGED <<virgl, late, scissor, target, screen>>

Clear(c) == Draws(Push(Buffer, ClearTo(c)), All(c))

\* Mutant of ScissorPutBack: the scissor stays at the dot.
ScissorKept(c) == Push(Push(Buffer, Scissor({"dot"})), ClearTo(c))

\* A pixel and a rectangle are a clear under a scissor, which is put back to the
\* viewport; a character is a copy from the font, which no scissor holds.
ScissorPutBack(c) == Push(Push(Push(Buffer, Scissor({"dot"})), ClearTo(c)), Scissor(Places))

Pixel(c) == Draws(ScissorPutBack(c), [picture EXCEPT !["dot"] = c])
Rect(c) == Draws(ScissorPutBack(c), [picture EXCEPT !["dot"] = c])
DrawChar(c) == Draws(Push(Buffer, CopyTo(c)), [picture EXCEPT !["dot"] = c])

-----------------------------------------------------------------------------
(* The host carries out a stream: the scissor that holds for command k, the *)
(* commands that paint a place, and what the whole leaves.                  *)

Scissors(s, k) == {j \in 1..k - 1 : s[j].op = "scissor"}
InForce(s, k) == IF Scissors(s, k) = {} THEN scissor ELSE s[Max(Scissors(s, k))].to

Paints(s, p) == {k \in 1..Len(s) : \/ s[k].op = "clear" /\ p \in InForce(s, k)
                                   \/ s[k].op = "copy" /\ p = "dot"}

Executed(s) ==
  [scissor |-> InForce(s, Len(s) + 1),
   target |-> [p \in Places |-> IF Paints(s, p) = {} THEN target[p]
                                ELSE s[Max(Paints(s, p))].to]]

-----------------------------------------------------------------------------
(* pyrion_flush_virtio *)

FlushPlain ==
  /\ ~virgl /\ needed
  /\ \/ screen' = picture /\ needed' = FALSE /\ UNCHANGED late
     \/ late' = TRUE /\ needed' \in BOOLEAN /\ UNCHANGED screen  \* virtio_flush is not asked
  /\ UNCHANGED <<virgl, picture, stream, dropped, scissor, target>>

\* The blit to the 2D resource goes last.  A submission that times out keeps the
\* stream, which is sent again, although the host may carry it out after all.
KeepsUnsent == stream' = Push(Buffer, Blit).stream

FlushVirgl ==
  /\ virgl /\ needed
  /\ dropped' = Push(Buffer, Blit).dropped
  /\ LET h == Executed(Push(Buffer, Blit).stream) IN
       \/ /\ scissor' = h.scissor /\ target' = h.target /\ stream' = <<>>
          /\ needed' \in BOOLEAN        \* the transfer that follows may time out
       \/ /\ \/ scissor' = h.scissor /\ target' = h.target
             \/ UNCHANGED <<scissor, target>>
          /\ KeepsUnsent /\ UNCHANGED needed
  /\ UNCHANGED <<virgl, picture, late, screen>>

Next ==
  \/ \E c \in Colours : Clear(c) \/ Pixel(c) \/ Rect(c) \/ DrawChar(c)
  \/ FlushPlain \/ FlushVirgl

-----------------------------------------------------------------------------
(***************************************************************************)
(* After a flush has succeeded the host has what was drawn, in the order   *)
(* and the places it was drawn in, also when earlier flushes timed out and *)
(* the stream went twice.  The exceptions: a command that found the stream *)
(* full, and, without VirGL, a last command that timed out.                *)
(***************************************************************************)
ShownMeansDrawn ==
  ~needed => IF virgl THEN dropped \/ target = picture ELSE late \/ screen = picture
=============================================================================
