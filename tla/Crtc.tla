--------------------------------- MODULE Crtc ---------------------------------
(***************************************************************************)
(* The display side of src/gpu/gpu.c: the registers of GP1(03) to (08),    *)
(* the rectangle of VRAM they make the renderer show, and the beam.  The   *)
(* numbers are the ones of the code.                                       *)
(***************************************************************************)
EXTENDS Integers

CONSTANTS
  Ranges,           \* GP1(06), start and end in video cycles
  LineRanges,       \* GP1(07), start and end in lines
  StartLines,       \* GP1(05), of which only the line matters here
  VideoModes,       \* GP1(08)
  Cropping          \* ZS1_OVERSCAN

ASSUME CrtcConstants ==
  /\ Ranges \subseteq (0 .. 4095) \X (0 .. 4095)
  /\ LineRanges \subseteq (0 .. 1023) \X (0 .. 1023)
  /\ StartLines \subseteq 0 .. 511
  /\ VideoModes \subseteq [hres : {256, 320, 368, 512, 640}, pal : BOOLEAN,
                           tall : BOOLEAN, interlaced : BOOLEAN]
  /\ Cropping \in BOOLEAN

Width  == 1024
Height == 512

VARIABLE crtc       \* the display registers and Gpu.crtc

ResetVideo == [hres |-> 256, pal |-> FALSE, tall |-> FALSE, interlaced |-> FALSE]

CrtcTypeOK ==
  crtc \in [range : Ranges \cup {<<512, 3072>>}, lines : LineRanges \cup {<<16, 256>>},
            start : StartLines \cup {0}, video : VideoModes \cup {ResetVideo}, hint : 256 .. 640,
            disabled : BOOLEAN,
            scanline : 0 .. 313, in_vblank : BOOLEAN, lsb : 0 .. 1, tag : 0 .. 1, field : 0 .. 1,
            region : [y : Int, w : Int, h : Int], blank : BOOLEAN]

CyclesPerPixel(v) == CASE v.hres = 256 -> 10 [] v.hres = 320 -> 8 [] v.hres = 368 -> 7
                       [] v.hres = 512 -> 5 [] v.hres = 640 -> 4

Lesser(a, b) == IF a < b THEN a ELSE b

(* (((X2-X1)/cycles_per_pix)+2) AND NOT 3, or the nominal width.           *)
ShownWidth(g) ==
  LET x1 == g.range[1]
      x2 == Lesser(g.range[2], IF g.video.pal THEN 3406 ELSE 3413)
      w  == IF x2 > x1 THEN (((x2 - x1) \div CyclesPerPixel(g.video) + 2) \div 4) * 4 ELSE 0
  IN Lesser(IF w = 0 THEN g.hint ELSE w, Width)

Doubled(v) == v.interlaced /\ v.tall

ShownHeight(g) ==
  LET y1 == g.lines[1]
      y2 == Lesser(g.lines[2], IF g.video.pal THEN 314 ELSE 263)
      h  == IF y2 > y1 THEN y2 - y1 ELSE 240
  IN Lesser(IF Doubled(g.video) THEN 2 * h ELSE h, Height)

Overscan(g) == 8 * (IF Doubled(g.video) THEN 2 ELSE 1)

Crops_Always(g) == Cropping /\ ~g.video.pal

Crops(g) == Cropping /\ ~g.video.pal /\ ShownHeight(g) > 2 * Overscan(g)

(* gpu_update_display_mapping; the renderer also gets the blank.           *)
Mapped(g) ==
  [g EXCEPT !.region = [y |-> IF Crops(g) THEN (g.start + Overscan(g)) % Height ELSE g.start,
                        w |-> ShownWidth(g),
                        h |-> ShownHeight(g) - (IF Crops(g) THEN 2 * Overscan(g) ELSE 0)],
            !.blank = g.disabled]

(* gpu_reset_state.                                                        *)
ResetCrtc ==
  [range |-> <<512, 3072>>, lines |-> <<16, 256>>, start |-> 0, video |-> ResetVideo,
   hint |-> 320, disabled |-> TRUE,
   scanline |-> 0, in_vblank |-> FALSE, lsb |-> 0, tag |-> 0, field |-> 1,
   region |-> [y |-> 0, w |-> 320, h |-> 240], blank |-> TRUE]

CrtcInit == crtc = ResetCrtc
-----------------------------------------------------------------------------
(* gpu_cycles_per_frame and the lines gpu_crtc_tick makes of it.           *)
LinesPerTick(v) == (IF v.pal THEN 680823 ELSE 566203) \div 2146
LinesTotal(v)   == IF v.pal THEN 314 ELSE 263

(* gpu_crtc_tick, from evq_handle_vblank; in_vblank is Timer 1's gate.     *)
CrtcTick ==
  LET v    == crtc.video
      line == (crtc.scanline + LinesPerTick(v)) % LinesTotal(v)
      tag  == IF Doubled(v) THEN 1 - crtc.tag ELSE crtc.tag
  IN crtc' = [crtc EXCEPT
       !.scanline = line,
       !.in_vblank = crtc.lines[1] < crtc.lines[2]
                       /\ (line < crtc.lines[1] \/ line >= crtc.lines[2]),
       !.lsb = 1 - @, !.tag = tag,
       !.field = IF Doubled(v) THEN tag ELSE @]

(* GP1(03), (05), (06), (07), (08) and (00).                               *)
DisplayEnable(off) == crtc' = [crtc EXCEPT !.disabled = off, !.blank = off]
DisplayStart(y)    == crtc' = Mapped([crtc EXCEPT !.start = y])
HorizontalRange(r) == crtc' = Mapped([crtc EXCEPT !.range = r])
VerticalRange(r)   == crtc' = Mapped([crtc EXCEPT !.lines = r])
DisplayMode(v)     == crtc' = Mapped([crtc EXCEPT !.video = v, !.hint = v.hres])
CrtcReset          == crtc' = ResetCrtc

(* GP0(E5) maps the display again.                                         *)
DrawOffset == crtc' = Mapped(crtc)

CrtcNext ==
  \/ CrtcTick
  \/ \E off \in BOOLEAN : DisplayEnable(off)
  \/ \E y \in StartLines : DisplayStart(y)
  \/ \E r \in Ranges : HorizontalRange(r)
  \/ \E r \in LineRanges : VerticalRange(r)
  \/ \E v \in VideoModes : DisplayMode(v)
  \/ CrtcReset
  \/ DrawOffset

CrtcSpec == CrtcInit /\ [][CrtcNext]_crtc
-----------------------------------------------------------------------------
(* Whatever a guest writes, in whatever order, the renderer is asked for a *)
(* rectangle that exists: no empty or negative size, none larger than VRAM,*)
(* and the blank is the register's.                                        *)
RegionIsShowable ==
  /\ crtc.region.w \in 1 .. Width /\ crtc.region.h \in 1 .. Height
  /\ crtc.region.y \in 0 .. Height - 1
  /\ crtc.blank = crtc.disabled

(* A tick advances the scanline counter (gpu.c:256 "Advance scanline       *)
(* counter (at least 1 scanline per call)").                               *)
TickAdvances ==
  [][crtc'.lsb # crtc.lsb /\ crtc' # ResetCrtc => crtc'.scanline # crtc.scanline]_crtc
=============================================================================
