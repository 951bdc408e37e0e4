------------------------------- MODULE Pyrion -------------------------------
(***************************************************************************)
(* Pyrion contexts on a VirtIO GPU (virtio.c 1006-1956): the pool of       *)
(* contexts, what each has on the host, its framebuffer, and the font.     *)
(* Commands are sent one after the other; at most one in a behaviour times *)
(* out (`late'), which is the bound.  The host ignores what makes no sense *)
(* to it, and the driver does not look at the host's error codes.          *)
(***************************************************************************)
EXTENDS Integers, FiniteSets

CONSTANTS MaxContexts, Frames, None

VARIABLES accelerated,      \* VIRTIO_GPU_F_VIRGL
          ctx,              \* p_contexts
          nxt,              \* p_nxt_ctx: a slot, or 0 for none
          live,             \* framebuffers allocated
          contexts, res,    \* on the host: contexts, and resources with their backing
          font,             \* the font's resource on the host
          late              \* a command timed out, or memory was short

pyrionVars == <<accelerated, ctx, nxt, live, contexts, res, font, late>>
host == <<contexts, res, font, late>>

Slots == 1 .. MaxContexts
Blank(id) == [id |-> id, valid |-> FALSE, usable |-> FALSE, device |-> FALSE,
              viewport |-> FALSE, stream |-> 0, frame |-> None, res2d |-> 0, res3d |-> 0]

\* pyrion_init_virtio: the context of slot i has number i.
Init ==
  /\ accelerated \in BOOLEAN
  /\ ctx = [s \in Slots |-> Blank(s)] /\ nxt = 1
  /\ live = {} /\ contexts = {} /\ res = {} /\ font = {} /\ late = FALSE

\* A resource number is the context's number in a range of its kind.
R2d(id) == <<"2d", id>>
R3d(id) == <<"3d", id>>
TimesOut(b) == (b => ~late) /\ late' = (late \/ b)
InRange(id) == id > 0 /\ id <= MaxContexts

-----------------------------------------------------------------------------
(* pyrion_get_free_ctx_slot and pyrion_create_ctx_virtio. *)

Free == {s \in Slots : ~ctx[s].valid}
FreeSlot == IF nxt \in Slots THEN nxt
            ELSE IF Free = {} THEN 0 ELSE CHOOSE s \in Free : \A t \in Free : s <= t

\* There may be no memory for the stream.  Whether the host has made the context
\* is not looked at.
CreateCtx(made) ==
  /\ FreeSlot # 0
  /\ nxt' = 0
  /\ \/ UNCHANGED <<ctx, contexts, late>>
     \/ /\ ctx' = [ctx EXCEPT ![FreeSlot].valid = TRUE, ![FreeSlot].usable = FALSE,
                              ![FreeSlot].stream = 0]
        /\ contexts' = IF made THEN contexts \cup {ctx[FreeSlot].id} ELSE contexts
        /\ TimesOut(~made)
  /\ UNCHANGED <<accelerated, live, res, font>>

-----------------------------------------------------------------------------
(* pyrion_use_device_virtio: rasterizer and blend state are sent at once.   *)
UseDevice(s) ==
  /\ ctx[s].valid /\ ~ctx[s].usable /\ ~ctx[s].device
  /\ \/ ctx' = [ctx EXCEPT ![s].device = TRUE, ![s].stream = 0] /\ UNCHANGED late
     \/ ctx' = [ctx EXCEPT ![s].device = FALSE, ![s].usable = FALSE] /\ TimesOut(TRUE)
  /\ UNCHANGED <<accelerated, nxt, live, contexts, res, font>>

\* pyrion_unuse_device_virtio
UnuseDevice(s) ==
  /\ ctx[s].valid /\ ctx[s].device
  /\ \/ ctx' = [ctx EXCEPT ![s].device = FALSE, ![s].usable = FALSE, ![s].stream = 0]
        /\ UNCHANGED late
     \/ ctx' = [ctx EXCEPT ![s].device = FALSE, ![s].usable = FALSE] /\ TimesOut(TRUE)
  /\ UNCHANGED <<accelerated, nxt, live, contexts, res, font>>

-----------------------------------------------------------------------------
\* Mutant of GivenBack: the resources stay on the host.
NothingGivenBack(c) == {}

(* pyrion_delete_viewport_res, as the parts of a step: the resources that   *)
(* are given back, whose numbers must be in range, and the framebuffer.     *)

GivenBack(c) ==
  (IF InRange(c.res2d) THEN {R2d(c.res2d)} ELSE {})
    \cup (IF accelerated /\ InRange(c.res3d) THEN {R3d(c.res3d)} ELSE {})

ResWithout(c) == {r \in res : r[1] \notin GivenBack(c)}
LiveWithout(c) == live \ {c.frame}
Deleted(c) == [c EXCEPT !.res2d = 0, !.res3d = 0, !.frame = None, !.viewport = FALSE]

\* pyrion_create_viewport_res: steps commands are carried out, then one is given
\* up: 2D resource, attach, 3D resource, attach, framebuffer, backing.
Made(c, steps, old, f) ==
  LET has(n) == \E r \in old : r[1] = n
      r2 == R2d(c.id)
      r3 == R3d(c.id)
      plain == old \cup (IF steps >= 1 /\ ~has(r2) THEN {<<r2, None>>} ELSE {})
                   \cup (IF steps >= 3 /\ accelerated /\ ~has(r3) THEN {<<r3, None>>} ELSE {})
  IN IF steps = 6 /\ <<r2, None>> \in plain
       THEN (plain \ {<<r2, None>>}) \cup {<<r2, f>>} ELSE plain

\* The old resources go first if the size changes.  A backing that was given up
\* may have been attached all the same.
Viewport(s, steps, resize) ==
  /\ ctx[s].valid /\ ctx[s].device
  /\ LET c == IF ctx[s].viewport /\ resize THEN Deleted(ctx[s]) ELSE ctx[s]
         old == IF ctx[s].viewport /\ resize THEN ResWithout(ctx[s]) ELSE res
         base == IF ctx[s].viewport /\ resize THEN LiveWithout(ctx[s]) ELSE live
     IN IF c.viewport
          THEN /\ ctx' = [ctx EXCEPT ![s].usable = steps = 6]
               /\ TimesOut(steps # 6)
               /\ UNCHANGED <<live, res>>
          ELSE \E f \in Frames \ base :
            /\ res' = Made(c, steps, old, f)
            /\ live' = IF steps = 6 THEN base \cup {f} ELSE base
            /\ \E shown \in {TRUE, steps # 6} :    \* the scanout may be given up, too
                 /\ TimesOut(steps # 6 \/ ~shown)
                 /\ ctx' = [ctx EXCEPT ![s] =
                      [c EXCEPT !.res2d = c.id, !.res3d = c.id, !.usable = steps = 6 /\ shown,
                                !.viewport = steps = 6 /\ shown,
                                !.frame = IF steps = 6 THEN f ELSE None]]
  /\ UNCHANGED <<accelerated, nxt, contexts, font>>

-----------------------------------------------------------------------------
(* pyrion_destroy_ctx_virtio: scanout, resources, device, context, stream.  *)
(* p_nxt_ctx becomes the context's number, which is its slot plus one, and  *)
(* the number itself is cleared.                                            *)

NextSlot(s) == IF ctx[s].id + 1 \in Slots THEN ctx[s].id + 1 ELSE 0

DestroyCtx(s, done) ==
  /\ ctx[s].valid
  /\ nxt' = NextSlot(s)
  /\ ctx' = [ctx EXCEPT ![s] = Blank(0)]
  /\ live' = LiveWithout(ctx[s])
  /\ IF done THEN /\ res' = ResWithout(ctx[s])
                  /\ contexts' = contexts \ {ctx[s].id} /\ UNCHANGED late
             ELSE TimesOut(TRUE) /\ UNCHANGED <<res, contexts>>
  /\ UNCHANGED <<accelerated, font>>

-----------------------------------------------------------------------------
(* Drawing: clear, pixel, rectangle, character, into the framebuffer or as  *)
(* commands in the stream; the flush sends the stream and shows the result. *)

MayDraw(s) == ctx[s].valid /\ ctx[s].usable /\ ctx[s].device

Draw(s) ==
  /\ MayDraw(s)
  /\ IF accelerated THEN ctx' = [ctx EXCEPT ![s].stream = 1]
                    ELSE ctx[s].frame # None /\ UNCHANGED ctx
  /\ UNCHANGED <<accelerated, nxt, live, host>>

Flush(s) ==
  /\ MayDraw(s) /\ ctx[s].viewport
  /\ \/ ctx' = [ctx EXCEPT ![s].stream = 0] /\ UNCHANGED late
     \/ TimesOut(TRUE) /\ UNCHANGED ctx
  /\ UNCHANGED <<accelerated, nxt, live, contexts, res, font>>

\* pyrion_upload_font_virtio: create, backing, attach, transfer.
UploadFont(s, steps) ==
  /\ MayDraw(s)
  /\ IF accelerated
       THEN /\ font' = IF steps >= 1 THEN font \cup {ctx[s].id} ELSE font
            /\ TimesOut(steps # 4)
       ELSE UNCHANGED <<font, late>>
  /\ UNCHANGED <<accelerated, ctx, nxt, live, contexts, res>>

\* pyrion_destroy_font_virtio; a failed detach ends it.
DestroyFont(s, done) ==
  /\ MayDraw(s) /\ font # {}
  /\ \E f \in font : IF done THEN font' = font \ {f} /\ UNCHANGED late
                             ELSE TimesOut(TRUE) /\ UNCHANGED font
  /\ UNCHANGED <<accelerated, ctx, nxt, live, contexts, res>>

Next ==
  \/ \E made \in BOOLEAN : CreateCtx(made)
  \/ \E s \in Slots :
       \/ UseDevice(s) \/ UnuseDevice(s) \/ Draw(s) \/ Flush(s)
       \/ \E n \in 0 .. 6, resize \in BOOLEAN : Viewport(s, n, resize)
       \/ \E n \in 0 .. 4 : UploadFont(s, n)
       \/ \E done \in BOOLEAN : DestroyCtx(s, done) \/ DestroyFont(s, done)

-----------------------------------------------------------------------------
(***************************************************************************)
(* The memory behind a host resource is a framebuffer in use by one        *)
(* context, or not in use by any, but not freed, through every order of    *)
(* creating, resizing and destroying.  The exceptions: a command that timed*)
(* out, and the contexts of number 0, whose resources are never given back.*)
(***************************************************************************)
BackingHeld ==
  /\ ~late => \A r \in res : r[2] # None /\ r[1][2] # 0 => r[2] \in live
  /\ \A s, t \in Slots : s # t /\ ctx[s].frame # None => ctx[s].frame # ctx[t].frame

(***************************************************************************)
(* "Ensure not a single resource id causes trouble": two contexts that have*)
(* resources have resources of different numbers.                          *)
(***************************************************************************)
ResourceIdsDiffer ==
  \A s, t \in Slots : s # t /\ ctx[s].frame # None /\ ctx[t].frame # None =>
    ctx[s].res2d # ctx[t].res2d
=============================================================================
