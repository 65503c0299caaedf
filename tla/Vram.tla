---------------------------------- MODULE Vram ---------------------------------
(***************************************************************************)
(* Video memory, twice: gpu.vram.data holds what the CPU, DMA and the MDEC *)
(* wrote, the renderer holds that and what was drawn.  src/gpu/vram.c keeps *)
(* a map of the tiles where the renderer may be ahead, so that a transfer  *)
(* reads back only what it must.  This module has the state and its        *)
(* operators; the commands that move pixels are in Gp0.                     *)
(*                                                                         *)
(* A pixel has no colour here, only the relation between its two copies.   *)
(***************************************************************************)
EXTENDS Integers, FiniteSets

CONSTANTS
  VramWidth, VramHeight,   \* 1024 and 512
  TileSize                 \* 16, also the alignment of a fill

ASSUME VramConstants ==
  /\ VramWidth \in Nat \ {0} /\ VramHeight \in Nat \ {0} /\ TileSize \in Nat \ {0}
  /\ VramWidth % TileSize = 0 /\ VramHeight % TileSize = 0

Pixels == (0 .. VramWidth - 1) \X (0 .. VramHeight - 1)
Tiles  == (0 .. VramWidth \div TileSize - 1) \X (0 .. VramHeight \div TileSize - 1)

Same  == "SAME"      \* both copies hold the pixel
Drawn == "DRAWN"     \* the renderer may be ahead
Sent  == "SENT"      \* only the CPU copy has it

NoArea == [l |-> -1, t |-> -1, r |-> -1, b |-> -1]

Areas == [l : 0 .. VramWidth, t : 0 .. VramHeight, r : 0 .. VramWidth, b : 0 .. VramHeight]

(* pix relates the copies, tiles is s_raster_tiles, and area is the drawing *)
(* area last marked, or NoArea once s_area_marked is reset.                 *)
VramState == [pix : [Pixels -> {Same, Drawn, Sent}], tiles : SUBSET Tiles,
              area : Areas \cup {NoArea}]

BlankVram == [pix |-> [p \in Pixels |-> Same], tiles |-> {}, area |-> NoArea]

Lower(a, b)  == IF a < b THEN a ELSE b
Higher(a, b) == IF a > b THEN a ELSE b

(* vram_split_rect: the in-bounds pieces of a rectangle that wraps.         *)
SplitRect(r) ==
  LET w0 == Lower(r.w, VramWidth - r.x)
      h0 == Lower(r.h, VramHeight - r.y)
  IN {p \in {[x |-> r.x, y |-> r.y, w |-> w0, h |-> h0],
             [x |-> 0, y |-> r.y, w |-> r.w - w0, h |-> h0],
             [x |-> r.x, y |-> 0, w |-> w0, h |-> r.h - h0],
             [x |-> 0, y |-> 0, w |-> r.w - w0, h |-> r.h - h0]} : p.w > 0 /\ p.h > 0}

PiecePixels(p) == (p.x .. p.x + p.w - 1) \X (p.y .. p.y + p.h - 1)
RectPixels(r)  == UNION {PiecePixels(p) : p \in SplitRect(r)}

TileOf(px) == <<px[1] \div TileSize, px[2] \div TileSize>>

(* Every tile a piece touches.                                              *)
Touched(p) ==
  (p.x \div TileSize .. (p.x + p.w - 1) \div TileSize)
    \X (p.y \div TileSize .. (p.y + p.h - 1) \div TileSize)

(* The tiles it covers: the start rounded up, the end rounded down.         *)
Covered(p) ==
  ((p.x + TileSize - 1) \div TileSize .. (p.x + p.w) \div TileSize - 1)
    \X ((p.y + TileSize - 1) \div TileSize .. (p.y + p.h) \div TileSize - 1)

(* vram_raster_mark.                                                        *)
MarkRect(v, r) == [v EXCEPT !.tiles = @ \cup UNION {Touched(p) : p \in SplitRect(r)}]

(* vram_raster_mark_area: inverted areas count as their first column or    *)
(* row, and one that reaches past the last line as every line.              *)
MarkArea(v, a) ==
  LET right  == Lower(Higher(a.r, a.l), VramWidth - 1)
      bottom == Higher(a.b, a.t)
      past   == bottom > VramHeight - 1
      top    == IF past THEN 0 ELSE a.t
      rows   == IF past THEN VramHeight ELSE bottom - a.t + 1
      marked == [v EXCEPT !.area = a]
  IN CASE v.area = a -> v
       [] v.area # a /\ a.l > VramWidth - 1 -> marked
       [] OTHER -> MarkRect(marked, [x |-> a.l, y |-> top, w |-> right - a.l + 1, h |-> rows])

(* vram_raster_clear: the next primitive has to mark its area again.        *)
ClearPieces(v, ps) ==
  LET gone == UNION {Covered(p) : p \in ps}
  IN IF gone = {} THEN v ELSE [v EXCEPT !.tiles = @ \ gone, !.area = NoArea]

SetPixels(v, s, to) == [v EXCEPT !.pix = [p \in Pixels |-> IF p \in s THEN to ELSE v.pix[p]]]

(* gpu_vram_pull: read back the pieces with a tile that may be ahead.       *)
Pull(v, r) ==
  LET ps == {p \in SplitRect(r) : Touched(p) \cap v.tiles # {}}
  IN ClearPieces(SetPixels(v, UNION {PiecePixels(p) : p \in ps}, Same), ps)

(* gpu_vram_push: upload every piece.                                       *)
Push(v, r) ==
  ClearPieces(SetPixels(v, RectPixels(r), Same), SplitRect(r))

(* What a primitive can reach: the scissor of glr_set_drawing_area, which  *)
(* an inverted area leaves empty.                                           *)
Scissor(a) == {p \in Pixels : a.l <= p[1] /\ p[1] <= a.r /\ a.t <= p[2] /\ p[2] <= a.b}

(* Where the map says nothing was drawn, nothing was.                       *)
UnmarkedTilesAgree(v) == \A p \in Pixels : v.pix[p] = Drawn => TileOf(p) \in v.tiles
================================================================================
