------------------------------ MODULE DrawState ------------------------------
(***************************************************************************)
(* What a primitive is drawn with.  The Gpu of src/gpu/gpu.c holds the     *)
(* guest's settings; the renderer keeps a copy of its own that only        *)
(* renderer_set_* changes, and four modes (dither, semi-transparency,      *)
(* texture, raw texture) that stay as the last primitive left them.  Each  *)
(* handler of src/gpu/gpu_commands.c sets some of the four before it       *)
(* pushes.  Vertices, colours and texture coordinates are left out; module *)
(* Gp0 has the words, Crtc the display area.                               *)
(***************************************************************************)
EXTENDS Naturals, FiniteSets

CONSTANTS Values    \* what a setting can be; 0 is its value after a reset

ASSUME DrawConstants == Values \subseteq Nat /\ {0, 1} \subseteq Values

(* "window" stands for the texture window and the drawing area, "mask" for *)
(* both bits of GP0(E6).                                                   *)
Settings == {"window", "offset", "mask", "depth", "blank"}
Shapes   == {"POLYGON", "RECT", "LINE", "POLYLINE"}

(* A drawing command by its opcode bits; page is a textured polygon's own  *)
(* texture page, with its semi-transparency mode.                          *)
Drawings == {c \in [shape : Shapes, shaded : BOOLEAN, textured : BOOLEAN,
                    semi : BOOLEAN, raw : BOOLEAN, page : Values] :
               /\ c.raw => c.textured
               /\ c.textured => c.shape \in {"POLYGON", "RECT"}
               /\ c.shape = "RECT" => ~c.shaded
               /\ ~(c.textured /\ c.shape = "POLYGON") => c.page = 0}

VARIABLES regs,     \* the Gpu: the settings, the draw mode of GP0(E1)
          shown,    \* the renderer's copy and its four modes
          pushed    \* history: what the last command was drawn with

draw_vars == <<regs, shown, pushed>>

Look == [texture : BOOLEAN, raw : BOOLEAN, dither : BOOLEAN, semi : BOOLEAN, page : Values]
NoPush == [shape |-> "NONE"]
ResetMark == [shape |-> "RESET"]

DrawTypeOK ==
  /\ regs \in [set : [Settings -> Values], dither : BOOLEAN, page : Values]
  /\ shown \in [set : [Settings -> Values], dither : BOOLEAN, semi : BOOLEAN,
                mode : Values, texture : BOOLEAN, raw : BOOLEAN]
  /\ pushed \in {NoPush, ResetMark} \/ pushed \in [shape : Shapes, asked : Look, drawn : Look]

ResetSettings == [s \in Settings |-> IF s = "blank" THEN 1 ELSE 0]
Fresh == [set |-> [s \in Settings |-> 0], dither |-> FALSE, semi |-> FALSE,
          mode |-> 0, texture |-> FALSE, raw |-> FALSE]

(* gpu_reset_state hands the renderer the window, the area and the blank.  *)
AfterReset(r) == [r EXCEPT !.set["window"] = 0, !.set["blank"] = 1]

DrawInit ==
  /\ regs = [set |-> ResetSettings, dither |-> FALSE, page |-> 0]
  /\ shown = AfterReset(Fresh)
  /\ pushed = NoPush
-----------------------------------------------------------------------------
(* The polygon handlers, gp0_tri_* and gp0_quad_*, after                   *)
(* apply_texpage_attribute: only the textured ones set the raw mode.  (An  *)
(* opaque monochrome triangle passes mode 0, which no opaque batch reads.) *)
FlatModes_KeepsTexture(c, r) ==
  [shown EXCEPT !.dither = r.dither /\ c.shaded, !.semi = c.semi, !.mode = r.page]

FlatModes(c, r) ==
  [shown EXCEPT !.dither = r.dither /\ c.shaded, !.semi = c.semi, !.mode = r.page,
                !.texture = FALSE]

TexturedModes(c, r) ==
  [shown EXCEPT !.dither = r.dither /\ ~c.raw, !.semi = c.semi, !.mode = r.page,
                !.raw = c.raw, !.texture = TRUE]

PolygonModes(c, r) == IF c.textured THEN TexturedModes(c, r) ELSE FlatModes(c, r)

(* draw_rectangle, behind every gp0_rect_*.                                *)
RectModes(c, r) ==
  [shown EXCEPT !.dither = FALSE, !.semi = c.semi, !.mode = r.page,
                !.raw = c.raw, !.texture = c.textured]

(* gp0_line_*_impl; flush_polyline sets the semi-transparency alone.       *)
LineModes(c, r) == [shown EXCEPT !.dither = r.dither, !.semi = c.semi, !.mode = r.page]
PolylineModes(c, r) == [shown EXCEPT !.semi = c.semi, !.mode = r.page]

Modes(c, r) == CASE c.shape = "POLYGON"  -> PolygonModes(c, r)
                 [] c.shape = "RECT"     -> RectModes(c, r)
                 [] c.shape = "LINE"     -> LineModes(c, r)
                 [] c.shape = "POLYLINE" -> PolylineModes(c, r)

Line(c) == c.shape \in {"LINE", "POLYLINE"}

(* The batch glr_draw or glr_push_line makes of it: a line is recorded     *)
(* opaque and untextured, the raw mode counts for textures, the page for   *)
(* textures and blending.                                                  *)
Batch(c, m, page) ==
  LET texture == m.texture /\ ~Line(c)
      semi    == m.semi /\ ~Line(c)
  IN [texture |-> texture, raw |-> texture /\ m.raw, dither |-> m.dither, semi |-> semi,
      page |-> IF texture THEN page ELSE IF semi THEN m.mode ELSE 0]

(* What its opcode asks for, whatever was drawn before.                    *)
Asked(c, page) ==
  LET semi == c.semi /\ ~Line(c) IN
  [texture |-> c.textured, raw |-> c.raw, semi |-> semi,
   dither |-> /\ regs.dither /\ ~c.raw /\ c.shape # "RECT"
              /\ Line(c) \/ c.shaded \/ c.textured,
   page |-> IF c.textured \/ semi THEN page ELSE 0]

(* A textured polygon is a draw-mode write.                                *)
Texpage(c) == IF c.textured /\ c.shape = "POLYGON" THEN [regs EXCEPT !.page = c.page] ELSE regs

DrawPrimitive(c) ==
  LET r == Texpage(c)
      m == Modes(c, r)
  IN /\ regs' = r /\ shown' = m
     /\ pushed' = [shape |-> c.shape, asked |-> Asked(c, r.page), drawn |-> Batch(c, m, r.page)]

(* GP0(E1).                                                                *)
SetDrawMode(dither, page) ==
  /\ regs' = [regs EXCEPT !.dither = dither, !.page = page]
  /\ pushed' = NoPush /\ UNCHANGED shown

Both(s, v) == /\ regs' = [regs EXCEPT !.set[s] = v]
              /\ shown' = [shown EXCEPT !.set[s] = v]
              /\ pushed' = NoPush

(* GP0(E2) to (E4) and (E6), GP1(03).                                      *)
SetWindow(v) == Both("window", v)
SetMask(v)   == Both("mask", v)
SetBlank(v)  == Both("blank", v)

(* gpu_update_display_mapping re-sends the offset, the depth and the blank *)
(* with the display area: after GP0(E5) and GP1(05) to (08).               *)
Remapped(set, to) == [s \in Settings |-> IF s \in {"offset", "depth", "blank"} THEN set[s] ELSE to[s]]

SetThroughMapping(s, v) ==
  LET set == [regs.set EXCEPT ![s] = v] IN
  /\ s \in {"offset", "depth"}
  /\ regs' = [regs EXCEPT !.set = set]
  /\ shown' = [shown EXCEPT !.set = Remapped(set, @)]
  /\ pushed' = NoPush

(* GP1(00).                                                                *)
ResetDrawing ==
  /\ regs' = [set |-> ResetSettings, dither |-> FALSE, page |-> 0]
  /\ shown' = AfterReset(shown)
  /\ pushed' = ResetMark

SwitchBackend_ForgetsMask ==
  /\ shown' = [Fresh EXCEPT !.set = [regs.set EXCEPT !["mask"] = 0]]
  /\ pushed' = NoPush /\ UNCHANGED regs

(* A backend started in mid game and gpu_reapply_renderer_state.           *)
SwitchBackend ==
  /\ shown' = [Fresh EXCEPT !.set = regs.set]
  /\ pushed' = NoPush /\ UNCHANGED regs

DrawNext ==
  \/ \E c \in Drawings : DrawPrimitive(c)
  \/ \E d \in BOOLEAN, page \in Values : SetDrawMode(d, page)
  \/ \E v \in Values : SetWindow(v) \/ SetMask(v) \/ SetBlank(v)
  \/ \E s \in {"offset", "depth"}, v \in Values : SetThroughMapping(s, v)
  \/ ResetDrawing
  \/ SwitchBackend

DrawSpec == DrawInit /\ [][DrawNext]_draw_vars
-----------------------------------------------------------------------------
(* A primitive is drawn as its own opcode and the draw mode say, whatever  *)
(* modes the primitives before it, a reset or a change of the backend left *)
(* behind (gpu.c:713-716 "the next primitive carries them anyway").  The   *)
(* dithering of a polyline is the exception: its push leaves it off.       *)
DrawnAsAsked ==
  pushed \notin {NoPush, ResetMark} =>
    IF pushed.shape = "POLYLINE"
    THEN [pushed.drawn EXCEPT !.dither = FALSE] = [pushed.asked EXCEPT !.dither = FALSE]
    ELSE pushed.drawn = pushed.asked

(* Nothing but GP1(00) parts the renderer's settings from the guest's, and *)
(* a backend started in mid game has all of them.                          *)
OnlyResetParts ==
  [][\/ pushed' = ResetMark
     \/ \A s \in Settings : shown.set[s] = regs.set[s] => shown'.set[s] = regs'.set[s]]_draw_vars

(* Both together: what is drawn next is what the guest set, and stays so.  *)
DrawsAreFaithful == []DrawnAsAsked /\ OnlyResetParts
=============================================================================
