----------------------------- MODULE GpuProofs ------------------------------
(***************************************************************************)
(* Proofs about the GPU's front end, for a video memory, tiles, rectangles *)
(* and drawing areas of any size.                                          *)
(***************************************************************************)
EXTENDS Gp0, DrawState, Crtc, TLAPS

(* DrawState: the renderer's settings follow the guest's.                  *)

Guest    == [set : [Settings -> Values], dither : BOOLEAN, page : Values]
Renderer == [set : [Settings -> Values], dither : BOOLEAN, semi : BOOLEAN,
             mode : Values, texture : BOOLEAN, raw : BOOLEAN]
Faithful(p) == IF p.shape = "POLYLINE"
               THEN [p.drawn EXCEPT !.dither = FALSE] = [p.asked EXCEPT !.dither = FALSE]
               ELSE p.drawn = p.asked
DrawIInv == /\ regs \in Guest /\ shown \in Renderer
            /\ \/ pushed \in {NoPush, ResetMark}
               \/ Faithful(pushed) /\ pushed \in [shape : Shapes, asked : Look, drawn : Look]

LEMMA FreshIsOne ==
  /\ ResetSettings \in [Settings -> Values] /\ Fresh \in Renderer
  /\ \A r \in Renderer : AfterReset(r) \in Renderer
  /\ {"window", "offset", "mask", "depth", "blank"} \subseteq Settings
<1>1. 0 \in Values /\ 1 \in Values
  BY DrawConstants
<1>2. ResetSettings \in [Settings -> Values]
  BY <1>1 DEF ResetSettings
<1>3. Fresh \in Renderer
  BY <1>1 DEF Fresh, Renderer
<1>4. ASSUME NEW r \in Renderer PROVE AfterReset(r) \in Renderer
  <2>1. [[r.set EXCEPT !["window"] = 0] EXCEPT !["blank"] = 1] \in [Settings -> Values]
    BY <1>1 DEF Renderer
  <2> DEFINE set == [[r.set EXCEPT !["window"] = 0] EXCEPT !["blank"] = 1]
  <2>2. AfterReset(r) = [r EXCEPT !.set = set]
    BY DEF AfterReset, Renderer
  <2>3. set \in [Settings -> Values]
    BY <2>1
  <2> HIDE DEF set
  <2> QED
    BY <2>2, <2>3 DEF Renderer
<1> QED
  BY <1>2, <1>3, <1>4 DEF Settings

LEMMA DrawInitIInv == DrawInit => DrawIInv
BY FreshIsOne, DrawConstants DEF DrawInit, DrawIInv, Guest

LEMMA SetTwice ==
  ASSUME NEW l \in Look, NEW v
  PROVE  [[l EXCEPT !.dither = v] EXCEPT !.dither = FALSE] = [l EXCEPT !.dither = FALSE]
BY DEF Look

LEMMA SameBoolean == \A p, q \in BOOLEAN : (p <=> q) => p = q
OBVIOUS

(* The modes a drawing is pushed with: its own, but a line's texture and   *)
(* raw modes and a polyline's dithering.                                   *)
LEMMA ModesAreItsOwn ==
  ASSUME NEW c \in Drawings, NEW r \in Guest, shown \in Renderer
  PROVE  LET m == Modes(c, r)
         IN /\ m \in Renderer /\ m.set = shown.set /\ m.semi = c.semi /\ m.mode = r.page
            /\ c.shape \in {"POLYGON", "RECT"} => (m.texture <=> c.textured)
            /\ c.textured => (m.raw <=> c.raw)
            /\ c.shape = "LINE" => (m.dither <=> r.dither)
            /\ c.shape = "RECT" => ~m.dither
            /\ c.shape = "POLYGON" => (m.dither <=> /\ r.dither /\ ~c.raw
                                                    /\ c.shaded \/ c.textured)
<1> DEFINE m == Modes(c, r)
<1>0. /\ c.shape \in Shapes /\ c.semi \in BOOLEAN /\ c.raw \in BOOLEAN /\ c.textured \in BOOLEAN
      /\ c.shaded \in BOOLEAN
      /\ c.raw => c.textured
      /\ c.textured => c.shape \in {"POLYGON", "RECT"}
  BY DEF Drawings
<1>1. r.dither \in BOOLEAN /\ r.page \in Values
  BY DEF Guest
<1>2. CASE c.shape = "POLYGON" /\ c.textured
  <2> DEFINE d == r.dither /\ ~c.raw
  <2>1. m = [shown EXCEPT !.dither = d, !.semi = c.semi, !.mode = r.page,
                          !.raw = c.raw, !.texture = TRUE]
    BY <1>2 DEF Modes, PolygonModes, TexturedModes
  <2>2. d \in BOOLEAN
    OBVIOUS
  <2>3. d <=> r.dither /\ ~c.raw /\ (c.shaded \/ c.textured)
    BY <1>2
  <2> HIDE DEF d, m
  <2>4. /\ m \in Renderer /\ m.set = shown.set /\ m.semi = c.semi /\ m.mode = r.page
        /\ m.texture = TRUE /\ m.raw = c.raw /\ m.dither = d
    BY <1>0, <1>1, <2>1, <2>2 DEF Renderer
  <2> QED
    BY <1>2, <2>3, <2>4 DEF m
<1>3. CASE c.shape = "POLYGON" /\ ~c.textured
  <2> DEFINE d == r.dither /\ c.shaded
  <2>1. m = [shown EXCEPT !.dither = d, !.semi = c.semi, !.mode = r.page, !.texture = FALSE]
    BY <1>3 DEF Modes, PolygonModes, FlatModes
  <2>2. d \in BOOLEAN
    OBVIOUS
  <2>3. d <=> r.dither /\ ~c.raw /\ (c.shaded \/ c.textured)
    BY <1>0, <1>3
  <2> HIDE DEF d, m
  <2>4. /\ m \in Renderer /\ m.set = shown.set /\ m.semi = c.semi /\ m.mode = r.page
        /\ m.texture = FALSE /\ m.dither = d
    BY <1>0, <1>1, <2>1, <2>2 DEF Renderer
  <2> QED
    BY <1>3, <2>3, <2>4 DEF m
<1>4. CASE c.shape = "RECT"
  <2>1. m = [shown EXCEPT !.dither = FALSE, !.semi = c.semi, !.mode = r.page,
                          !.raw = c.raw, !.texture = c.textured]
    BY <1>4 DEF Modes, RectModes
  <2> HIDE DEF m
  <2>2. /\ m \in Renderer /\ m.set = shown.set /\ m.semi = c.semi /\ m.mode = r.page
        /\ m.texture = c.textured /\ m.raw = c.raw /\ m.dither = FALSE
    BY <1>0, <1>1, <2>1 DEF Renderer
  <2> QED
    BY <1>4, <2>2 DEF m
<1>5. CASE c.shape = "LINE"
  <2>1. m = [shown EXCEPT !.dither = r.dither, !.semi = c.semi, !.mode = r.page]
    BY <1>5 DEF Modes, LineModes
  <2> HIDE DEF m
  <2>2. /\ m \in Renderer /\ m.set = shown.set /\ m.semi = c.semi /\ m.mode = r.page
        /\ m.dither = r.dither
    BY <1>0, <1>1, <2>1 DEF Renderer
  <2> QED
    BY <1>0, <1>5, <2>2 DEF m
<1>6. CASE c.shape = "POLYLINE"
  <2>1. m = [shown EXCEPT !.semi = c.semi, !.mode = r.page]
    BY <1>6 DEF Modes, PolylineModes
  <2> HIDE DEF m
  <2>2. m \in Renderer /\ m.set = shown.set /\ m.semi = c.semi /\ m.mode = r.page
    BY <1>0, <1>1, <2>1 DEF Renderer
  <2> QED
    BY <1>0, <1>6, <2>2 DEF m
<1> QED
  BY <1>0, <1>2, <1>3, <1>4, <1>5, <1>6 DEF Shapes

LEMMA DrawPrimitiveKeeps ==
  ASSUME DrawIInv, NEW c \in Drawings, DrawPrimitive(c)
  PROVE  DrawIInv' /\ shown'.set = shown.set /\ regs'.set = regs.set
<1> DEFINE r == Texpage(c)
           m == Modes(c, r)
           a == Asked(c, r.page)
           b == Batch(c, m, r.page)
<1>0. /\ c.shape \in Shapes /\ c.semi \in BOOLEAN /\ c.raw \in BOOLEAN /\ c.textured \in BOOLEAN
      /\ c.shaded \in BOOLEAN /\ c.page \in Values
      /\ c.raw => c.textured
      /\ c.textured => c.shape \in {"POLYGON", "RECT"}
      /\ c.shape = "RECT" => ~c.shaded
  BY DEF Drawings
<1>1. r \in Guest /\ r.set = regs.set /\ r.dither = regs.dither
  <2>1. regs \in Guest /\ c.page \in Values
    BY <1>0 DEF DrawIInv
  <2>2. r = regs \/ r = [regs EXCEPT !.page = c.page]
    BY DEF Texpage
  <2> HIDE DEF r
  <2> QED
    BY <2>1, <2>2 DEF Guest
<1>2. regs' = r /\ shown' = m /\ pushed' = [shape |-> c.shape, asked |-> a, drawn |-> b]
  BY DEF DrawPrimitive
<1>3. shown \in Renderer /\ r.page \in Values /\ r.dither \in BOOLEAN /\ 0 \in Values
  BY <1>1, DrawConstants DEF DrawIInv, Guest
<1> HIDE DEF r
<1>4. /\ m \in Renderer /\ m.set = shown.set /\ m.semi = c.semi /\ m.mode = r.page
      /\ c.shape \in {"POLYGON", "RECT"} => (m.texture <=> c.textured)
      /\ c.textured => (m.raw <=> c.raw)
      /\ c.shape = "LINE" => (m.dither <=> r.dither)
      /\ c.shape = "RECT" => ~m.dither
      /\ c.shape = "POLYGON" => (m.dither <=> /\ r.dither /\ ~c.raw
                                              /\ c.shaded \/ c.textured)
  BY <1>1, <1>3, ModesAreItsOwn
<1> HIDE DEF m
<1>5. m.texture \in BOOLEAN /\ m.raw \in BOOLEAN /\ m.dither \in BOOLEAN /\ m.semi \in BOOLEAN
  BY <1>4 DEF Renderer
<1>6. Line(c) <=> c.shape \in {"LINE", "POLYLINE"}
  BY DEF Line
<1>7. (m.texture /\ ~Line(c)) = c.textured
  BY <1>0, <1>4, <1>5, <1>6 DEF Shapes
<1>8. (c.textured /\ m.raw) = c.raw
  <2>1. (c.textured /\ m.raw) <=> c.raw
    BY <1>0, <1>4
  <2>2. (c.textured /\ m.raw) \in BOOLEAN
    OBVIOUS
  <2> QED
    BY <1>0, <2>1, <2>2, SameBoolean, Zenon
<1>9. c.shape # "POLYLINE" =>
        (m.dither <=> /\ regs.dither /\ ~c.raw /\ c.shape # "RECT"
                      /\ Line(c) \/ c.shaded \/ c.textured)
  BY <1>0, <1>1, <1>3, <1>4, <1>5, <1>6 DEF Shapes
<1> DEFINE semi == c.semi /\ ~Line(c)
           page == IF c.textured THEN r.page ELSE IF semi THEN r.page ELSE 0
           asks == /\ regs.dither /\ ~c.raw /\ c.shape # "RECT"
                   /\ Line(c) \/ c.shaded \/ c.textured
<1>10. b = [texture |-> c.textured, raw |-> c.raw, dither |-> m.dither, semi |-> semi,
            page |-> page]
  <2>1. b = [texture |-> m.texture /\ ~Line(c), raw |-> (m.texture /\ ~Line(c)) /\ m.raw,
             dither |-> m.dither, semi |-> m.semi /\ ~Line(c),
             page |-> IF m.texture /\ ~Line(c) THEN r.page
                      ELSE IF m.semi /\ ~Line(c) THEN m.mode ELSE 0]
    BY DEF Batch
  <2> QED
    BY <1>4, <1>7, <1>8, <2>1
<1>11. a = [texture |-> c.textured, raw |-> c.raw, semi |-> semi, dither |-> asks, page |-> page]
  BY DEF Asked
<1>12. semi \in BOOLEAN /\ asks \in BOOLEAN /\ page \in Values
  BY <1>3
<1>13. c.shape # "POLYLINE" => m.dither = asks
  BY <1>5, <1>9, <1>12, SameBoolean, Zenon
<1> HIDE DEF a, b, semi, asks, page
<1>14. a \in Look /\ b \in Look
  BY <1>0, <1>5, <1>10, <1>11, <1>12 DEF Look
<1>15. /\ c.shape # "POLYLINE" => a = b
       /\ [b EXCEPT !.dither = FALSE] = [a EXCEPT !.dither = FALSE]
  <2>1. c.shape # "POLYLINE" => a = b
    BY <1>10, <1>11, <1>13
  <2> DEFINE bare == [texture |-> c.textured, raw |-> c.raw, dither |-> FALSE, semi |-> semi,
                      page |-> page]
  <2>2. a = [bare EXCEPT !.dither = asks] /\ b = [bare EXCEPT !.dither = m.dither]
    BY <1>10, <1>11
  <2>3. bare \in Look
    BY <1>0, <1>12 DEF Look
  <2> HIDE DEF bare
  <2> QED
    BY <2>1, <2>2, <2>3, SetTwice
<1>16. Faithful(pushed') /\ pushed' \in [shape : Shapes, asked : Look, drawn : Look]
  BY <1>0, <1>2, <1>14, <1>15 DEF Faithful
<1> QED
  BY <1>1, <1>2, <1>4, <1>16 DEF DrawIInv

LEMMA DrawStep == DrawIInv /\ [DrawNext]_draw_vars => DrawIInv'
<1> SUFFICES ASSUME DrawIInv, [DrawNext]_draw_vars PROVE DrawIInv'
  OBVIOUS
<1>0. regs \in Guest /\ shown \in Renderer /\ {"window", "mask", "blank"} \subseteq Settings
  BY FreshIsOne DEF DrawIInv
<1>1. ASSUME NEW d \in BOOLEAN, NEW page \in Values, SetDrawMode(d, page) PROVE DrawIInv'
  <2>1. regs' = [regs EXCEPT !.dither = d, !.page = page] /\ shown' = shown /\ pushed' = NoPush
    BY <1>1 DEF SetDrawMode
  <2>2. regs' \in Guest
    BY <1>0, <2>1 DEF Guest
  <2> QED
    BY <1>0, <2>1, <2>2 DEF DrawIInv
<1>2. ASSUME NEW s \in Settings, NEW v \in Values, Both(s, v) PROVE DrawIInv'
  <2> DEFINE g == [regs.set EXCEPT ![s] = v]
             h == [shown.set EXCEPT ![s] = v]
  <2>1. regs' = [regs EXCEPT !.set = g] /\ shown' = [shown EXCEPT !.set = h] /\ pushed' = NoPush
    BY <1>2 DEF Both
  <2>2. g \in [Settings -> Values] /\ h \in [Settings -> Values]
    BY <1>0 DEF Guest, Renderer
  <2> HIDE DEF g, h
  <2>3. regs' \in Guest /\ shown' \in Renderer
    BY <1>0, <2>1, <2>2 DEF Guest, Renderer
  <2> QED
    BY <2>1, <2>3 DEF DrawIInv
<1>3. ASSUME NEW s \in Settings, NEW v \in Values, SetThroughMapping(s, v) PROVE DrawIInv'
  <2> DEFINE g == [regs.set EXCEPT ![s] = v]
             h == Remapped(g, shown.set)
  <2>1. regs' = [regs EXCEPT !.set = g] /\ shown' = [shown EXCEPT !.set = h] /\ pushed' = NoPush
    BY <1>3 DEF SetThroughMapping
  <2>2. g \in [Settings -> Values]
    BY <1>0 DEF Guest
  <2>3. h \in [Settings -> Values]
    <3> HIDE DEF g
    <3> QED
      BY <1>0, <2>2 DEF Renderer, Remapped
  <2> HIDE DEF g, h
  <2>4. regs' \in Guest /\ shown' \in Renderer
    BY <1>0, <2>1, <2>2, <2>3 DEF Guest, Renderer
  <2> QED
    BY <2>1, <2>4 DEF DrawIInv
<1>4. CASE ResetDrawing
  BY <1>0, <1>4, FreshIsOne, DrawConstants DEF ResetDrawing, DrawIInv, Guest
<1>5. CASE SwitchBackend
  <2>1. shown' = [Fresh EXCEPT !.set = regs.set] /\ regs' = regs /\ pushed' = NoPush
    BY <1>5 DEF SwitchBackend
  <2>2. shown' \in Renderer
    BY <1>0, <2>1, FreshIsOne DEF Guest, Renderer
  <2> QED
    BY <1>0, <2>1, <2>2 DEF DrawIInv
<1>6. CASE UNCHANGED draw_vars
  BY <1>6 DEF draw_vars, DrawIInv
<1>7. ASSUME NEW v \in Values, SetWindow(v) \/ SetMask(v) \/ SetBlank(v) PROVE DrawIInv'
  BY <1>0, <1>2, <1>7 DEF SetWindow, SetMask, SetBlank
<1>8. ASSUME NEW s \in {"offset", "depth"}, NEW v \in Values, SetThroughMapping(s, v)
      PROVE  DrawIInv'
  BY <1>3, <1>8, FreshIsOne
<1> QED
  BY <1>1, <1>4, <1>5, <1>6, <1>7, <1>8, DrawPrimitiveKeeps DEF DrawNext

(* Every setting goes to both copies.                                      *)
LEMMA OnlyResetPartsStep ==
  DrawIInv /\ DrawNext =>
     \/ pushed' = ResetMark
     \/ \A s \in Settings : shown.set[s] = regs.set[s] => shown'.set[s] = regs'.set[s]
<1> SUFFICES ASSUME DrawIInv, DrawNext, NEW s \in Settings, shown.set[s] = regs.set[s]
             PROVE  pushed' = ResetMark \/ shown'.set[s] = regs'.set[s]
  OBVIOUS
<1>0. /\ regs \in Guest /\ shown \in Renderer /\ {"window", "mask", "blank"} \subseteq Settings
      /\ regs.set \in [Settings -> Values] /\ shown.set \in [Settings -> Values]
  BY FreshIsOne DEF DrawIInv, Guest, Renderer
<1>1. ASSUME NEW t \in Settings, NEW v \in Values, Both(t, v) PROVE shown'.set[s] = regs'.set[s]
  <2>1. regs'.set = [regs.set EXCEPT ![t] = v] /\ shown'.set = [shown.set EXCEPT ![t] = v]
    BY <1>0, <1>1 DEF Both, Guest, Renderer
  <2> QED
    BY <1>0, <2>1
<1>2. ASSUME NEW t \in Settings, NEW v \in Values, SetThroughMapping(t, v)
      PROVE  shown'.set[s] = regs'.set[s]
  <2> DEFINE g == [regs.set EXCEPT ![t] = v]
  <2>1. regs'.set = g /\ shown'.set = Remapped(g, shown.set)
    BY <1>0, <1>2 DEF SetThroughMapping, Guest, Renderer
  <2>2. t \in {"offset", "depth"}
    BY <1>2 DEF SetThroughMapping
  <2>3. shown'.set[s] = IF s \in {"offset", "depth", "blank"} THEN g[s] ELSE shown.set[s]
    BY <2>1 DEF Remapped
  <2>4. s \notin {"offset", "depth", "blank"} => g[s] = regs.set[s]
    BY <1>0, <2>2
  <2> QED
    BY <2>1, <2>3, <2>4
<1>3. CASE SwitchBackend
  <2>1. shown' = [Fresh EXCEPT !.set = regs.set] /\ regs' = regs
    BY <1>3 DEF SwitchBackend
  <2>2. shown'.set = regs.set
    BY <2>1, FreshIsOne DEF Renderer
  <2> QED
    BY <2>1, <2>2
<1>4. ASSUME NEW d \in BOOLEAN, NEW page \in Values, SetDrawMode(d, page)
      PROVE  shown'.set[s] = regs'.set[s]
  BY <1>0, <1>4 DEF SetDrawMode, Guest
<1>5. CASE ResetDrawing
  BY <1>5 DEF ResetDrawing
<1>6. ASSUME NEW v \in Values, SetWindow(v) \/ SetMask(v) \/ SetBlank(v)
      PROVE  shown'.set[s] = regs'.set[s]
  BY <1>0, <1>1, <1>6 DEF SetWindow, SetMask, SetBlank
<1>7. ASSUME NEW t \in {"offset", "depth"}, NEW v \in Values, SetThroughMapping(t, v)
      PROVE  shown'.set[s] = regs'.set[s]
  BY <1>2, <1>7, FreshIsOne
<1>8. ASSUME NEW c \in Drawings, DrawPrimitive(c) PROVE shown'.set[s] = regs'.set[s]
  BY <1>8, DrawPrimitiveKeeps
<1> QED
  BY <1>3, <1>4, <1>5, <1>6, <1>7, <1>8 DEF DrawNext

(* A primitive is drawn as its opcode and the draw mode say, and only      *)
(* GP1(00) parts the renderer's settings from the guest's: for any values  *)
(* of the settings and any history of drawings, resets and backends        *)
(* (gp0_tri_*, gp0_quad_*, draw_rectangle, gp0_line_*_impl).               *)
THEOREM DrawingIsFaithful == DrawSpec => DrawsAreFaithful
<1>1. DrawSpec => []DrawIInv
  BY DrawInitIInv, DrawStep, PTL DEF DrawSpec
<1>2. DrawIInv => DrawnAsAsked
  BY DEF DrawIInv, DrawnAsAsked, Faithful
<1>3. DrawSpec => OnlyResetParts
  BY <1>1, OnlyResetPartsStep, PTL DEF DrawSpec, OnlyResetParts
<1> QED
  BY <1>1, <1>2, <1>3, PTL DEF DrawsAreFaithful

-----------------------------------------------------------------------------
(* Crtc: the rectangle shown exists.                                       *)

Videos  == VideoModes \cup {ResetVideo}
Regions == [y : 0 .. Height - 1, w : 1 .. Width, h : 1 .. Height]
Spans   == Ranges \cup {<<512, 3072>>}
LineSpans == LineRanges \cup {<<16, 256>>}
Starts  == StartLines \cup {0}
Hints   == 256 .. 640
Rows    == 0 .. 313
Bits    == 0 .. 1
Beams   == [range : Spans, lines : LineSpans, start : Starts, video : Videos, hint : Hints,
            disabled : BOOLEAN,
            scanline : Rows, in_vblank : BOOLEAN, lsb : Bits, tag : Bits, field : Bits,
            region : Regions, blank : BOOLEAN]
CrtcIInv == crtc \in Beams /\ crtc.blank = crtc.disabled

LEMMA VideosAre ==
  \A v \in Videos : /\ v.hres \in {256, 320, 368, 512, 640}
                    /\ v.pal \in BOOLEAN /\ v.tall \in BOOLEAN /\ v.interlaced \in BOOLEAN
                    /\ v.hres \in 256 .. 640
                    /\ CyclesPerPixel(v) \in {4, 5, 7, 8, 10}
<1> SUFFICES ASSUME NEW v \in Videos
             PROVE  /\ v.hres \in {256, 320, 368, 512, 640}
                    /\ v.pal \in BOOLEAN /\ v.tall \in BOOLEAN /\ v.interlaced \in BOOLEAN
                    /\ v.hres \in 256 .. 640
                    /\ CyclesPerPixel(v) \in {4, 5, 7, 8, 10}
  OBVIOUS
<1>1. v \in [hres : {256, 320, 368, 512, 640}, pal : BOOLEAN, tall : BOOLEAN, interlaced : BOOLEAN]
  <2>1. CASE v \in VideoModes
    BY <2>1, CrtcConstants
  <2>2. CASE v = ResetVideo
    BY <2>2 DEF ResetVideo
  <2> QED
    BY <2>1, <2>2 DEF Videos
<1>2. v.hres \in {256, 320, 368, 512, 640}
  BY <1>1
<1> QED
  BY <1>1, <1>2 DEF CyclesPerPixel

(* What the display registers hold when the mapping is made of them.       *)
Maps(g) == /\ g.range \in Spans /\ g.lines \in LineSpans /\ g.start \in Starts
           /\ g.video \in Videos /\ g.hint \in Hints

LEMMA MapsAre ==
  ASSUME NEW g, Maps(g)
  PROVE  /\ g.range[1] \in Int /\ g.range[2] \in Int
         /\ g.lines[1] \in 0 .. 1023 /\ g.lines[2] \in 0 .. 1023 /\ g.start \in 0 .. Height - 1
<1>1. Spans \subseteq (0 .. 4095) \X (0 .. 4095) /\ LineSpans \subseteq (0 .. 1023) \X (0 .. 1023)
      /\ Starts \subseteq 0 .. 511
  BY CrtcConstants DEF Spans, LineSpans, Starts
<1>2. \A n \in Nat : \A p \in (0 .. n) \X (0 .. n) : p[1] \in 0 .. n /\ p[2] \in 0 .. n
  OBVIOUS
<1>3. \A p \in Spans : p[1] \in 0 .. 4095 /\ p[2] \in 0 .. 4095
  BY <1>1, <1>2
<1>4. \A p \in LineSpans : p[1] \in 0 .. 1023 /\ p[2] \in 0 .. 1023
  BY <1>1, <1>2
<1>5. 511 = Height - 1 /\ \A n \in 0 .. 4095 : n \in Int
  BY DEF Height
<1>6. g.range[1] \in Int /\ g.range[2] \in Int
  <2> DEFINE Clocks == 0 .. 4095
  <2>0. g.range \in Spans /\ \A p \in Spans : p[1] \in Clocks /\ p[2] \in Clocks
    BY <1>3 DEF Maps
  <2> HIDE DEF Clocks
  <2>1. g.range[1] \in Clocks /\ g.range[2] \in Clocks
    BY <2>0
  <2> USE DEF Clocks
  <2> DEFINE p == g.range[1]
             q == g.range[2]
  <2>2. p \in 0 .. 4095 /\ q \in 0 .. 4095
    BY <2>1
  <2> HIDE DEF p, q
  <2>3. p \in Int /\ q \in Int
    BY <2>2
  <2> QED
    BY <2>3 DEF p, q
<1>7. g.start \in 0 .. Height - 1
  <2>1. Starts \subseteq 0 .. Height - 1
    BY <1>1 DEF Height
  <2> QED
    BY <2>1 DEF Maps
<1>8. g.lines[1] \in 0 .. 1023 /\ g.lines[2] \in 0 .. 1023
  BY <1>4 DEF Maps
<1> QED
  BY <1>6, <1>7, <1>8

LEMMA RoundedToFour ==
  ASSUME NEW d \in Nat, NEW c \in {4, 5, 7, 8, 10}
  PROVE  (((d \div c) + 2) \div 4) * 4 \in Nat
<1>1. d \div c \in Nat
  OBVIOUS
<1> DEFINE q == d \div c
<1>2. q \in Nat
  BY <1>1
<1> HIDE DEF q
<1>3. (q + 2) \div 4 \in Nat
  BY <1>2
<1>4. ((q + 2) \div 4) * 4 \in Nat
  BY <1>3
<1> QED
  BY <1>4 DEF q

LEMMA WidthIsSome ==
  ASSUME NEW g, Maps(g) PROVE ShownWidth(g) \in 1 .. Width
<1> DEFINE x1 == g.range[1]
           x2 == Lesser(g.range[2], IF g.video.pal THEN 3406 ELSE 3413)
           c  == CyclesPerPixel(g.video)
           w  == IF x2 > x1 THEN (((x2 - x1) \div c + 2) \div 4) * 4 ELSE 0
<1>1. x1 \in Int /\ x2 \in Int /\ c \in {4, 5, 7, 8, 10} /\ g.hint \in 256 .. 640
  BY MapsAre, VideosAre DEF Lesser, Maps, Hints
<1>2. ShownWidth(g) = Lesser(IF w = 0 THEN g.hint ELSE w, Width)
  BY DEF ShownWidth
<1> HIDE DEF x1, x2, c
<1>3. w \in Nat
  <2>1. CASE x2 > x1
    <3>1. x2 - x1 \in Nat
      BY <1>1, <2>1
    <3> QED
      BY <1>1, <2>1, <3>1, RoundedToFour
  <2>2. CASE ~(x2 > x1)
    BY <2>2
  <2> QED
    BY <2>1, <2>2
<1> HIDE DEF w
<1> QED
  BY <1>1, <1>2, <1>3 DEF Lesser, Width

LEMMA HeightIsSome ==
  ASSUME NEW g, Maps(g) PROVE ShownHeight(g) \in 1 .. Height
<1> DEFINE y1 == g.lines[1]
           y2 == Lesser(g.lines[2], IF g.video.pal THEN 314 ELSE 263)
           h  == IF y2 > y1 THEN y2 - y1 ELSE 240
<1>0. y1 \in 0 .. 1023 /\ g.lines[2] \in 0 .. 1023
  BY MapsAre
<1>1. y1 \in Int /\ y2 \in Int
  <2>1. \A n \in 0 .. 1023 : n \in Int /\ Lesser(n, 314) \in Int /\ Lesser(n, 263) \in Int
    BY DEF Lesser
  <2>2. y1 \in Int
    BY <1>0, <2>1, Zenon
  <2>3. y2 = Lesser(g.lines[2], 314) \/ y2 = Lesser(g.lines[2], 263)
    OBVIOUS
  <2>4. Lesser(g.lines[2], 314) \in Int /\ Lesser(g.lines[2], 263) \in Int
    <3> DEFINE n == g.lines[2]
    <3>1. n \in 0 .. 1023
      BY <1>0
    <3> HIDE DEF n
    <3>2. Lesser(n, 314) \in Int /\ Lesser(n, 263) \in Int
      BY <2>1, <3>1
    <3> QED
      BY <3>2 DEF n
  <2> QED
    BY <2>2, <2>3, <2>4, Zenon
<1>2. ShownHeight(g) = Lesser(IF Doubled(g.video) THEN 2 * h ELSE h, Height)
  BY DEF ShownHeight
<1> HIDE DEF y1, y2
<1>3. h \in Nat \ {0}
  BY <1>1
<1> HIDE DEF h
<1> QED
  BY <1>2, <1>3 DEF Lesser, Height

LEMMA MappedShows ==
  ASSUME NEW g, Maps(g)
  PROVE  LET crops == Crops(g)
             y == IF crops THEN (g.start + Overscan(g)) % Height ELSE g.start
             h == ShownHeight(g) - (IF crops THEN 2 * Overscan(g) ELSE 0)
         IN [y |-> y, w |-> ShownWidth(g), h |-> h] \in Regions
<1> DEFINE y == IF Crops(g) THEN (g.start + Overscan(g)) % Height ELSE g.start
           h == ShownHeight(g) - (IF Crops(g) THEN 2 * Overscan(g) ELSE 0)
<1>1. Overscan(g) \in {8, 16} /\ g.start \in 0 .. Height - 1 /\ ShownHeight(g) \in 1 .. Height
  BY MapsAre, HeightIsSome DEF Overscan
<1>2. Crops(g) => ShownHeight(g) > 2 * Overscan(g)
  BY DEF Crops
<1>3. y \in 0 .. Height - 1
  <2>1. (g.start + Overscan(g)) % Height \in 0 .. Height - 1
    BY <1>1 DEF Height
  <2> QED
    BY <1>1, <2>1
<1>4. h \in 1 .. Height
  BY <1>1, <1>2 DEF Height
<1> HIDE DEF y, h
<1>5. [y |-> y, w |-> ShownWidth(g), h |-> h] \in Regions
  BY <1>3, <1>4, WidthIsSome DEF Regions
<1> QED
  BY <1>5 DEF y, h

(* The fields that change together.                                        *)
LEMMA BeamWith ==
  ASSUME NEW g \in Beams
  PROVE  /\ \A r \in Regions, b \in BOOLEAN : [g EXCEPT !.region = r, !.blank = b] \in Beams
         /\ \A b \in BOOLEAN : [g EXCEPT !.disabled = b, !.blank = b] \in Beams
         /\ \A v \in Videos, n \in Hints : [g EXCEPT !.video = v, !.hint = n] \in Beams
<1>1. ASSUME NEW r \in Regions, NEW b \in BOOLEAN PROVE [g EXCEPT !.region = r, !.blank = b] \in Beams
  BY DEF Beams
<1>2. ASSUME NEW b \in BOOLEAN PROVE [g EXCEPT !.disabled = b, !.blank = b] \in Beams
  BY DEF Beams
<1>3. ASSUME NEW v \in Videos, NEW n \in Hints PROVE [g EXCEPT !.video = v, !.hint = n] \in Beams
  BY DEF Beams
<1> QED
  BY <1>1, <1>2, <1>3

LEMMA MappedKeeps ==
  ASSUME NEW g \in Beams PROVE Mapped(g) \in Beams /\ Mapped(g).blank = Mapped(g).disabled
<1> DEFINE r == [y |-> IF Crops(g) THEN (g.start + Overscan(g)) % Height ELSE g.start,
                 w |-> ShownWidth(g),
                 h |-> ShownHeight(g) - (IF Crops(g) THEN 2 * Overscan(g) ELSE 0)]
<1>1. Maps(g)
  BY DEF Beams, Maps
<1>2. r \in Regions
  BY <1>1, MappedShows
<1>3. Mapped(g) = [g EXCEPT !.region = r, !.blank = g.disabled]
  BY DEF Mapped
<1>4. g.disabled \in BOOLEAN
  BY DEF Beams
<1> DEFINE off == g.disabled
<1> HIDE DEF r, off
<1>5. Mapped(g) \in Beams
  <2>1. Mapped(g) = [g EXCEPT !.region = r, !.blank = off] /\ off \in BOOLEAN
    BY <1>3, <1>4 DEF off
  <2> QED
    BY <1>2, <2>1 DEF Beams
<1>6. Mapped(g).blank = g.disabled /\ Mapped(g).disabled = g.disabled
  BY <1>3 DEF Beams
<1> QED
  BY <1>5, <1>6

LEMMA ResetCrtcIs == ResetCrtc \in Beams /\ ResetCrtc.blank = ResetCrtc.disabled
<1>1. [y |-> 0, w |-> 320, h |-> 240] \in Regions
  BY DEF Regions, Width, Height
<1>2. ResetVideo \in Videos /\ 320 \in Hints /\ 0 \in Rows /\ {0, 1} \subseteq Bits
  BY DEF Videos, Hints, Rows, Bits
<1> QED
  BY <1>1, <1>2 DEF ResetCrtc, Beams, Spans, LineSpans, Starts

LEMMA TickKeeps ==
  ASSUME CrtcIInv, CrtcTick PROVE CrtcIInv'
<1> DEFINE v    == crtc.video
           line == (crtc.scanline + LinesPerTick(v)) % LinesTotal(v)
           tag  == IF Doubled(v) THEN 1 - crtc.tag ELSE crtc.tag
           in   == crtc.lines[1] < crtc.lines[2]
                     /\ (line < crtc.lines[1] \/ line >= crtc.lines[2])
           lsb  == 1 - crtc.lsb
           fld  == IF Doubled(v) THEN tag ELSE crtc.field
<1>1. crtc \in Beams /\ v \in Videos /\ crtc.scanline \in 0 .. 313
      /\ crtc.tag \in 0 .. 1 /\ crtc.lsb \in 0 .. 1 /\ crtc.field \in 0 .. 1
  BY DEF CrtcIInv, Beams, Rows, Bits
<1>2. line \in 0 .. 313
  <2>1. LinesTotal(v) \in {314, 263} /\ LinesPerTick(v) \in Nat
    BY DEF LinesTotal, LinesPerTick
  <2>2. crtc.scanline + LinesPerTick(v) \in Int
    BY <1>1, <2>1
  <2> DEFINE n == crtc.scanline + LinesPerTick(v)
             m == LinesTotal(v)
  <2>3. n \in Int /\ m \in {314, 263}
    BY <2>1, <2>2
  <2> HIDE DEF n, m
  <2>4. n % m \in 0 .. 313
    BY <2>3
  <2> QED
    BY <2>4 DEF n, m
<1>3. tag \in 0 .. 1 /\ lsb \in 0 .. 1 /\ in \in BOOLEAN
  BY <1>1
<1>4. fld \in 0 .. 1
  BY <1>1, <1>3
<1>5. crtc' = [crtc EXCEPT !.scanline = line, !.in_vblank = in, !.lsb = lsb, !.tag = tag,
                           !.field = fld]
  BY DEF CrtcTick
<1> HIDE DEF v, line, tag, in, lsb, fld
<1>6. crtc' \in Beams /\ crtc'.blank = crtc.blank /\ crtc'.disabled = crtc.disabled
  <2>1. line \in Rows /\ tag \in Bits /\ lsb \in Bits /\ fld \in Bits
    BY <1>2, <1>3, <1>4 DEF Rows, Bits
  <2> QED
    BY <1>1, <1>3, <1>5, <2>1 DEF Beams
<1> QED
  BY <1>6 DEF CrtcIInv

LEMMA CrtcStep == CrtcIInv /\ [CrtcNext]_crtc => CrtcIInv'
<1> SUFFICES ASSUME CrtcIInv, [CrtcNext]_crtc PROVE CrtcIInv'
  OBVIOUS
<1>0. crtc \in Beams
  BY DEF CrtcIInv
<1>1. ASSUME NEW off \in BOOLEAN, DisplayEnable(off) PROVE CrtcIInv'
  BY <1>0, <1>1, BeamWith DEF DisplayEnable, CrtcIInv, Beams
<1>2. ASSUME NEW y \in StartLines, DisplayStart(y) PROVE CrtcIInv'
  <2>1. [crtc EXCEPT !.start = y] \in Beams
    BY <1>0 DEF Beams, Starts
  <2> QED
    BY <1>2, <2>1, MappedKeeps DEF DisplayStart, CrtcIInv
<1>3. ASSUME NEW r \in Ranges, HorizontalRange(r) PROVE CrtcIInv'
  <2>1. [crtc EXCEPT !.range = r] \in Beams
    BY <1>0 DEF Beams, Spans
  <2> QED
    BY <1>3, <2>1, MappedKeeps DEF HorizontalRange, CrtcIInv
<1>4. ASSUME NEW r \in LineRanges, VerticalRange(r) PROVE CrtcIInv'
  <2>1. [crtc EXCEPT !.lines = r] \in Beams
    BY <1>0 DEF Beams, LineSpans
  <2> QED
    BY <1>4, <2>1, MappedKeeps DEF VerticalRange, CrtcIInv
<1>5. ASSUME NEW v \in VideoModes, DisplayMode(v) PROVE CrtcIInv'
  <2>1. v \in Videos /\ v.hres \in Hints
    BY VideosAre DEF Videos, Hints
  <2>2. [crtc EXCEPT !.video = v, !.hint = v.hres] \in Beams
    BY <1>0, <2>1, BeamWith
  <2> QED
    BY <1>5, <2>2, MappedKeeps DEF DisplayMode, CrtcIInv
<1>6. CASE CrtcReset
  BY <1>6, ResetCrtcIs DEF CrtcReset, CrtcIInv
<1>7. CASE DrawOffset
  BY <1>0, <1>7, MappedKeeps DEF DrawOffset, CrtcIInv
<1>8. CASE UNCHANGED crtc
  BY <1>8 DEF CrtcIInv
<1> QED
  BY <1>1, <1>2, <1>3, <1>4, <1>5, <1>6, <1>7, <1>8, TickKeeps DEF CrtcNext

(* Whatever ranges, modes and offsets a guest writes, in any order, the    *)
(* renderer is asked for a rectangle of VRAM that exists, with the guest's *)
(* blank: cropped or not (gpu_update_display_mapping).                     *)
THEOREM RegionExists == CrtcSpec => [](CrtcTypeOK /\ RegionIsShowable)
<1>1. CrtcInit => CrtcIInv
  BY ResetCrtcIs DEF CrtcInit, CrtcIInv
<1>2. CrtcIInv => CrtcTypeOK /\ RegionIsShowable
  <2> SUFFICES ASSUME CrtcIInv PROVE CrtcTypeOK /\ RegionIsShowable
    OBVIOUS
  <2>1. crtc.region \in Regions /\ crtc \in Beams
    BY DEF CrtcIInv, Beams
  <2>2. Regions \subseteq [y : Int, w : Int, h : Int]
    BY DEF Regions, Width, Height
  <2>3. crtc.region.w \in 1 .. Width /\ crtc.region.h \in 1 .. Height
        /\ crtc.region.y \in 0 .. Height - 1
    BY <2>1 DEF Regions
  <2> HIDE DEF Regions
  <2>4. CrtcTypeOK
    BY <2>1, <2>2 DEF CrtcTypeOK, Beams, Videos, Hints, Rows, Bits, Spans, LineSpans, Starts
  <2> QED
    BY <2>3, <2>4 DEF RegionIsShowable, CrtcIInv
<1> QED
  BY <1>1, <1>2, CrtcStep, PTL DEF CrtcSpec

-----------------------------------------------------------------------------
(* Vram and Gp0: words are framed and pixels are real.  What is inductive is *)
(* more than what is promised: every piece of a rectangle that wraps lies  *)
(* inside video memory, a tile is unmarked only when all its pixels agree  *)
(* and an area that will not be marked again is marked (Sound), the words  *)
(* owed are those of the command or image under way (Framed), and a        *)
(* transfer under way keeps the pixels it works from real (Pictured).      *)

(* Division of natural numbers.                                            *)
LEMMA DivBounds ==
  ASSUME NEW n \in Nat \ {0}, NEW a \in Nat
  PROVE  a \div n \in Nat /\ n * (a \div n) <= a /\ a < n * (a \div n) + n
OBVIOUS

LEMMA ModIs ==
  ASSUME NEW n \in Nat \ {0}, NEW a \in Nat, NEW q \in Nat, a < n * q + n, n * q <= a
  PROVE  a % n = a - n * q /\ a % n \in 0 .. n - 1
<1>1. a % n = a - n * q
  OBVIOUS
<1> QED
  BY <1>1

LEMMA TimesMono ==
  ASSUME NEW n \in Nat, NEW a \in Nat, NEW b \in Nat, a <= b
  PROVE  n * a <= n * b /\ n * a \in Nat /\ n * b \in Nat
OBVIOUS

LEMMA DivMono ==
  ASSUME NEW n \in Nat \ {0}, NEW a \in Nat, NEW b \in Nat, a <= b
  PROVE  a \div n <= b \div n
<1> DEFINE p == a \div n
           q == b \div n
<1>1. p \in Nat /\ q \in Nat /\ n * p <= a /\ b < n * q + n
  BY DivBounds
<1> HIDE DEF p, q
<1>2. ASSUME q + 1 <= p PROVE FALSE
  <2>1. n * (q + 1) <= n * p /\ n * p \in Nat
    BY <1>1, <1>2, TimesMono
  <2>2. n * (q + 1) = n * q + n /\ n * q \in Nat
    BY <1>1
  <2> QED
    BY <1>1, <2>1, <2>2
<1>3. p <= q
  BY <1>1, <1>2
<1> QED
  BY <1>3 DEF p, q

LEMMA DivLess ==
  ASSUME NEW n \in Nat \ {0}, NEW m \in Nat, NEW a \in Nat, a < n * m
  PROVE  a \div n < m
<1> DEFINE p == a \div n
<1>1. p \in Nat /\ n * p <= a
  BY DivBounds
<1> HIDE DEF p
<1>2. ASSUME m <= p PROVE FALSE
  BY <1>1, <1>2, TimesMono
<1>3. p < m
  BY <1>1, <1>2
<1> QED
  BY <1>3 DEF p

(* Going once around.                                                      *)
LEMMA Wrapped ==
  ASSUME NEW n \in Nat \ {0}, NEW a \in 0 .. n - 1, NEW b \in 0 .. n
  PROVE  (a + b) % n = IF b < n - a THEN a + b ELSE a + b - n
<1>1. CASE b < n - a
  BY <1>1, ModIs, n * 0 = 0
<1>2. CASE ~(b < n - a)
  BY <1>2, ModIs, n * 1 = n
<1> QED
  BY <1>1, <1>2
-----------------------------------------------------------------------------
(* A piece of video memory, inside it.                                     *)
Rects   == [x : 0 .. VramWidth - 1, y : 0 .. VramHeight - 1, w : 0 .. VramWidth, h : 0 .. VramHeight]
Boxed(p) == p \in Rects /\ p.w > 0 /\ p.h > 0 /\ p.x + p.w <= VramWidth /\ p.y + p.h <= VramHeight

LEMMA VramSizes ==
  /\ VramWidth \in Nat \ {0} /\ VramHeight \in Nat \ {0} /\ TileSize \in Nat \ {0}
  /\ VramWidth = TileSize * (VramWidth \div TileSize)
  /\ VramHeight = TileSize * (VramHeight \div TileSize)
<1>1. VramWidth \in Nat \ {0} /\ VramHeight \in Nat \ {0} /\ TileSize \in Nat \ {0}
  BY VramConstants
<1>2. ASSUME NEW n \in Nat \ {0}, n % TileSize = 0 PROVE n = TileSize * (n \div TileSize)
  <2> DEFINE q == n \div TileSize
  <2>1. q \in Nat /\ TileSize * q <= n /\ n < TileSize * q + TileSize
    BY <1>1, DivBounds
  <2> HIDE DEF q
  <2>2. n % TileSize = n - TileSize * q
    BY <1>1, <2>1, ModIs
  <2>3. TileSize * q \in Nat
    BY <1>1, <2>1
  <2>4. n = TileSize * q
    BY <1>2, <2>2, <2>3
  <2> QED
    BY <2>4 DEF q
<1> QED
  BY <1>1, <1>2, VramConstants

LEMMA SplitIsBoxed == ASSUME NEW r \in Rects, NEW p \in SplitRect(r) PROVE Boxed(p)
<1> DEFINE w0 == Lower(r.w, VramWidth - r.x)
           h0 == Lower(r.h, VramHeight - r.y)
<1>1. /\ r.x \in 0 .. VramWidth - 1 /\ r.y \in 0 .. VramHeight - 1
      /\ r.w \in 0 .. VramWidth /\ r.h \in 0 .. VramHeight
  BY DEF Rects
<1>2. /\ w0 \in 0 .. VramWidth - r.x /\ r.w - w0 \in 0 .. VramWidth /\ w0 <= r.w
      /\ h0 \in 0 .. VramHeight - r.y /\ r.h - h0 \in 0 .. VramHeight /\ h0 <= r.h
  BY <1>1, VramSizes DEF Lower
<1>3. p \in {[x |-> r.x, y |-> r.y, w |-> w0, h |-> h0],
             [x |-> 0, y |-> r.y, w |-> r.w - w0, h |-> h0],
             [x |-> r.x, y |-> 0, w |-> w0, h |-> r.h - h0],
             [x |-> 0, y |-> 0, w |-> r.w - w0, h |-> r.h - h0]} /\ p.w > 0 /\ p.h > 0
  BY DEF SplitRect
<1> DEFINE a == r.x
           b == r.y
           d == r.w - w0
           e == r.h - h0
<1>4. /\ a \in 0 .. VramWidth - 1 /\ b \in 0 .. VramHeight - 1 /\ 0 \in 0 .. VramWidth - 1
      /\ 0 \in 0 .. VramHeight - 1 /\ w0 \in 0 .. VramWidth /\ h0 \in 0 .. VramHeight
      /\ d \in 0 .. VramWidth /\ e \in 0 .. VramHeight
      /\ a + w0 <= VramWidth /\ b + h0 <= VramHeight
  BY <1>1, <1>2, VramSizes
<1>5. p \in {[x |-> a, y |-> b, w |-> w0, h |-> h0], [x |-> 0, y |-> b, w |-> d, h |-> h0],
             [x |-> a, y |-> 0, w |-> w0, h |-> e], [x |-> 0, y |-> 0, w |-> d, h |-> e]}
  BY <1>3
<1> HIDE DEF a, b, w0, h0, d, e
<1>6. /\ (p.x = 0 /\ p.w \in {w0, d}) \/ (p.x = a /\ p.w = w0)
      /\ (p.y = 0 /\ p.h \in {h0, e}) \/ (p.y = b /\ p.h = h0)
  <2>1. CASE p = [x |-> a, y |-> b, w |-> w0, h |-> h0]
    BY <2>1
  <2>2. CASE p = [x |-> 0, y |-> b, w |-> d, h |-> h0]
    BY <2>2
  <2>3. CASE p = [x |-> a, y |-> 0, w |-> w0, h |-> e]
    BY <2>3
  <2>4. CASE p = [x |-> 0, y |-> 0, w |-> d, h |-> e]
    BY <2>4
  <2> QED
    BY <1>5, <2>1, <2>2, <2>3, <2>4
<1>7. p \in Rects
  BY <1>4, <1>5 DEF Rects
<1>8. p.x + p.w <= VramWidth /\ p.y + p.h <= VramHeight
  BY <1>4, <1>6, VramSizes
<1> QED
  BY <1>3, <1>7, <1>8 DEF Boxed

LEMMA BoxPixels ==
  ASSUME NEW p, Boxed(p)
  PROVE  PiecePixels(p) \subseteq Pixels
BY VramSizes DEF Boxed, Rects, PiecePixels, Pixels

LEMMA PixelsAreInside == ASSUME NEW r \in Rects PROVE RectPixels(r) \subseteq Pixels
BY SplitIsBoxed, BoxPixels DEF RectPixels

(* A tile is touched when one of its pixels is in the piece.               *)
LEMMA TouchedTiles ==
  ASSUME NEW p, Boxed(p)
  PROVE  /\ Touched(p) \subseteq Tiles
         /\ \A px \in PiecePixels(p) : TileOf(px) \in Touched(p)
<1> DEFINE c == VramWidth \div TileSize
           d == VramHeight \div TileSize
           a == (p.x + p.w - 1) \div TileSize
           b == (p.y + p.h - 1) \div TileSize
           e == p.x \div TileSize
           f == p.y \div TileSize
<1>0. c \in Nat /\ d \in Nat /\ VramWidth = TileSize * c /\ VramHeight = TileSize * d
  BY VramSizes, DivBounds
<1>1. /\ p.x \in Nat /\ p.w \in Nat \ {0} /\ p.x + p.w - 1 \in Nat /\ p.x + p.w - 1 < TileSize * c
      /\ p.y \in Nat /\ p.h \in Nat \ {0} /\ p.y + p.h - 1 \in Nat /\ p.y + p.h - 1 < TileSize * d
      /\ c \in Nat /\ d \in Nat
  <2>1. /\ p.x \in Nat /\ p.w \in Nat \ {0} /\ p.x + p.w <= VramWidth
        /\ p.y \in Nat /\ p.h \in Nat \ {0} /\ p.y + p.h <= VramHeight
    BY VramSizes DEF Boxed, Rects
  <2>2. VramWidth \in Nat /\ VramHeight \in Nat
    BY VramSizes
  <2> HIDE DEF c, d
  <2>3. p.x + p.w - 1 < VramWidth /\ p.y + p.h - 1 < VramHeight
    BY <2>1, <2>2
  <2> QED
    BY <1>0, <2>1, <2>3
<1>2. a < c /\ b < d /\ a \in Nat /\ b \in Nat /\ e \in Nat /\ f \in Nat
  BY <1>1, VramSizes, DivLess, DivBounds
<1> HIDE DEF a, b, c, d, e, f
<1>3. Touched(p) = (e .. a) \X (f .. b) /\ Tiles = (0 .. c - 1) \X (0 .. d - 1)
  BY DEF Touched, Tiles, a, b, c, d, e, f
<1>4. Touched(p) \subseteq Tiles
  BY <1>1, <1>2, <1>3
<1>5. ASSUME NEW px \in PiecePixels(p) PROVE TileOf(px) \in Touched(p)
  <2>1. /\ px[1] \in p.x .. p.x + p.w - 1 /\ px[2] \in p.y .. p.y + p.h - 1
    BY <1>1, <1>5 DEF PiecePixels
  <2> DEFINE g == px[1] \div TileSize
             h == px[2] \div TileSize
  <2>2. g \in Nat /\ h \in Nat /\ e <= g /\ g <= a /\ f <= h /\ h <= b
    BY <1>1, <2>1, VramSizes, DivMono, DivBounds DEF a, b, e, f
  <2>3. TileOf(px) = <<g, h>>
    BY DEF TileOf
  <2> HIDE DEF g, h
  <2> QED
    BY <1>2, <1>3, <2>2, <2>3
<1> QED
  BY <1>4, <1>5

(* A tile is covered when all of its pixels are.                           *)
LEMMA CoveredTiles ==
  ASSUME NEW p, Boxed(p), NEW px \in Pixels, TileOf(px) \in Covered(p)
  PROVE  px \in PiecePixels(p)
<1>1. /\ p.x \in Nat /\ p.w \in Nat \ {0} /\ p.y \in Nat /\ p.h \in Nat \ {0}
      /\ px[1] \in Nat /\ px[2] \in Nat /\ px = <<px[1], px[2]>>
      /\ TileSize \in Nat \ {0}
  BY VramSizes DEF Boxed, Rects, Pixels
<1>2. ASSUME NEW n \in Nat, NEW a \in Nat, NEW m \in Nat,
             n \div TileSize \in (a + TileSize - 1) \div TileSize .. m \div TileSize - 1
      PROVE  a <= n /\ n < m
  <2> DEFINE q == n \div TileSize
             s == (a + TileSize - 1) \div TileSize
             t == m \div TileSize
  <2>1. /\ q \in Nat /\ TileSize * q <= n /\ n < TileSize * q + TileSize
        /\ s \in Nat /\ a + TileSize - 1 < TileSize * s + TileSize
        /\ t \in Nat /\ TileSize * t <= m
    <3>1. a + TileSize - 1 \in Nat
      BY <1>1
    <3>2. q \in Nat /\ TileSize * q <= n /\ n < TileSize * q + TileSize
      BY <1>1, DivBounds
    <3>3. s \in Nat /\ a + TileSize - 1 < TileSize * s + TileSize
      BY <1>1, <3>1, DivBounds
    <3>4. t \in Nat /\ TileSize * t <= m
      BY <1>1, DivBounds
    <3> QED
      BY <3>2, <3>3, <3>4
  <2> HIDE DEF q, s, t
  <2>2. s <= q /\ q + 1 <= t
    BY <1>2, <2>1 DEF q, s, t
  <2>3. TileSize * s <= TileSize * q /\ TileSize * (q + 1) <= TileSize * t
        /\ TileSize * s \in Nat /\ TileSize * q \in Nat /\ TileSize * t \in Nat
    BY <1>1, <2>1, <2>2, TimesMono
  <2>4. TileSize * (q + 1) = TileSize * q + TileSize
    BY <1>1, <2>1
  <2> QED
    BY <1>1, <2>1, <2>3, <2>4
<1>3. /\ px[1] \div TileSize \in (p.x + TileSize - 1) \div TileSize .. (p.x + p.w) \div TileSize - 1
      /\ px[2] \div TileSize \in (p.y + TileSize - 1) \div TileSize .. (p.y + p.h) \div TileSize - 1
  BY DEF TileOf, Covered
<1>4. p.x <= px[1] /\ px[1] < p.x + p.w /\ p.y <= px[2] /\ px[2] < p.y + p.h
  <2>1. p.x + p.w \in Nat /\ p.y + p.h \in Nat
    BY <1>1
  <2>2. p.x <= px[1] /\ px[1] < p.x + p.w
    BY <1>1, <1>2, <1>3, <2>1
  <2>3. p.y <= px[2] /\ px[2] < p.y + p.h
    BY <1>1, <1>2, <1>3, <2>1
  <2> QED
    BY <2>2, <2>3
<1>5. px[1] \in p.x .. p.x + p.w - 1 /\ px[2] \in p.y .. p.y + p.h - 1
  BY <1>1, <1>4
<1> QED
  BY <1>1, <1>5 DEF PiecePixels
-----------------------------------------------------------------------------
(* The map of tiles is sound: a pixel the renderer may be ahead of lies in *)
(* a marked tile, and the area that is not marked again is marked.         *)
Copies == {Same, Drawn, Sent}
Sound(v) ==
  /\ v \in VramState /\ UnmarkedTilesAgree(v)
  /\ v.area # NoArea => \A p \in Scissor(v.area) : TileOf(p) \in v.tiles

LEMMA SetPixelsIs ==
  ASSUME NEW v \in VramState, NEW s, NEW c \in Copies
  PROVE  LET u == SetPixels(v, s, c)
         IN /\ u \in VramState /\ u.tiles = v.tiles /\ u.area = v.area
            /\ \A p \in Pixels : u.pix[p] = IF p \in s THEN c ELSE v.pix[p]
<1> DEFINE f == [p \in Pixels |-> IF p \in s THEN c ELSE v.pix[p]]
<1>1. f \in [Pixels -> {Same, Drawn, Sent}] /\ \A p \in Pixels : f[p] = IF p \in s THEN c ELSE v.pix[p]
  BY DEF VramState, Copies
<1> HIDE DEF f
<1>2. SetPixels(v, s, c) = [v EXCEPT !.pix = f]
  BY DEF SetPixels, f
<1> QED
  BY <1>1, <1>2 DEF VramState

(* Giving pixels to the CPU copy, or to both, needs no mark.               *)
LEMMA SettleSound ==
  ASSUME NEW v, Sound(v), NEW s, NEW c \in {Same, Sent}
  PROVE  Sound(SetPixels(v, s, c))
<1> DEFINE u == SetPixels(v, s, c)
<1>1. c \in Copies /\ c # Drawn
  BY DEF Copies, Same, Sent, Drawn
<1>2. /\ u \in VramState /\ u.tiles = v.tiles /\ u.area = v.area
      /\ \A p \in Pixels : u.pix[p] = IF p \in s THEN c ELSE v.pix[p]
  BY <1>1, SetPixelsIs DEF Sound
<1> HIDE DEF u
<1>3. UnmarkedTilesAgree(u)
  BY <1>1, <1>2 DEF Sound, UnmarkedTilesAgree
<1> QED
  BY <1>2, <1>3 DEF Sound, u

(* A tile is unmarked only when all its pixels agree.                      *)
LEMMA ClearSound ==
  ASSUME NEW v, Sound(v), NEW ps, \A p \in ps : Boxed(p),
         \A p \in ps : \A px \in PiecePixels(p) : v.pix[px] # Drawn
  PROVE  Sound(ClearPieces(v, ps)) /\ ClearPieces(v, ps).pix = v.pix
<1> DEFINE gone == UNION {Covered(p) : p \in ps}
           u == [v EXCEPT !.tiles = @ \ gone, !.area = NoArea]
<1>1. u \in VramState /\ u.tiles = v.tiles \ gone /\ u.area = NoArea /\ u.pix = v.pix
  <2> HIDE DEF gone
  <2> QED
    BY DEF Sound, VramState
<1>2. ASSUME NEW px \in Pixels, v.pix[px] = Drawn PROVE TileOf(px) \in v.tiles \ gone
  <2>1. TileOf(px) \in v.tiles
    BY <1>2 DEF Sound, UnmarkedTilesAgree
  <2>2. ASSUME NEW p \in ps, TileOf(px) \in Covered(p) PROVE FALSE
    <3>1. px \in PiecePixels(p)
      BY <2>2, CoveredTiles
    <3> QED
      BY <1>2, <3>1
  <2> QED
    BY <2>1, <2>2
<1>3. ClearPieces(v, ps) = IF gone = {} THEN v ELSE u
  BY DEF ClearPieces
<1> HIDE DEF gone, u
<1>4. Sound(u)
  BY <1>1, <1>2 DEF Sound, UnmarkedTilesAgree
<1> QED
  BY <1>1, <1>3, <1>4

LEMMA PullSound ==
  ASSUME NEW v, Sound(v), NEW r \in Rects
  PROVE  LET u == Pull(v, r)
         IN /\ Sound(u)
            /\ \A px \in Pixels : u.pix[px] \in {Same, v.pix[px]}
            /\ \A px \in RectPixels(r) : u.pix[px] # Drawn
<1> DEFINE ps == {p \in SplitRect(r) : Touched(p) \cap v.tiles # {}}
           s == UNION {PiecePixels(p) : p \in ps}
           w == SetPixels(v, s, Same)
           u == ClearPieces(w, ps)
<1>1. \A p \in ps : Boxed(p)
  BY SplitIsBoxed
<1>2. Sound(w)
  BY SettleSound
<1>3. \A px \in Pixels : w.pix[px] = IF px \in s THEN Same ELSE v.pix[px]
  BY SetPixelsIs DEF Sound, Copies
<1>4. \A p \in ps : PiecePixels(p) \subseteq s
  OBVIOUS
<1>5. s \subseteq Pixels
  BY <1>1, BoxPixels
<1>6. Pull(v, r) = u
  BY DEF Pull
<1> HIDE DEF w
<1>7. \A p \in ps : \A px \in PiecePixels(p) : w.pix[px] # Drawn
  <2> HIDE DEF s, ps
  <2> QED
    BY <1>3, <1>4, <1>5 DEF Same, Drawn
<1>8. Sound(u) /\ u.pix = w.pix
  <2> HIDE DEF ps
  <2> QED
    BY <1>1, <1>2, <1>7, ClearSound
<1>9. ASSUME NEW px \in RectPixels(r) PROVE w.pix[px] # Drawn
  <2>1. PICK p \in SplitRect(r) : px \in PiecePixels(p)
    BY DEF RectPixels
  <2>2. px \in Pixels /\ TileOf(px) \in Touched(p)
    BY <2>1, SplitIsBoxed, BoxPixels, TouchedTiles
  <2>3. CASE p \in ps
    <3> HIDE DEF ps
    <3> QED
      BY <1>7, <2>1, <2>3
  <2>4. CASE p \notin ps
    <3>1. TileOf(px) \notin v.tiles
      BY <2>2, <2>4
    <3>2. v.pix[px] # Drawn
      BY <2>2, <3>1 DEF Sound, UnmarkedTilesAgree
    <3> HIDE DEF s
    <3> QED
      BY <1>3, <2>2, <3>2 DEF Same, Drawn
  <2> QED
    BY <2>3, <2>4
<1> HIDE DEF u, s
<1> QED
  BY <1>3, <1>6, <1>8, <1>9

LEMMA PushSound ==
  ASSUME NEW v, Sound(v), NEW r \in Rects
  PROVE  LET u == Push(v, r)
         IN /\ Sound(u)
            /\ \A px \in Pixels : u.pix[px] = IF px \in RectPixels(r) THEN Same ELSE v.pix[px]
<1> DEFINE w == SetPixels(v, RectPixels(r), Same)
           u == ClearPieces(w, SplitRect(r))
<1>1. \A p \in SplitRect(r) : Boxed(p)
  BY SplitIsBoxed
<1>2. Sound(w)
  BY SettleSound
<1>3. \A px \in Pixels : w.pix[px] = IF px \in RectPixels(r) THEN Same ELSE v.pix[px]
  BY SetPixelsIs DEF Sound, Copies
<1>4. Push(v, r) = u
  BY DEF Push
<1> HIDE DEF w
<1>5. ASSUME NEW p \in SplitRect(r), NEW px \in PiecePixels(p) PROVE w.pix[px] # Drawn
  <2>1. px \in Pixels /\ px \in RectPixels(r)
    BY <1>1, BoxPixels DEF RectPixels
  <2> QED
    BY <1>3, <2>1 DEF Same, Drawn
<1>6. Sound(u) /\ u.pix = w.pix
  BY <1>1, <1>2, <1>5, ClearSound
<1> HIDE DEF u
<1> QED
  BY <1>3, <1>4, <1>6

(* Marking an area marks every tile a primitive in it can reach.           *)
LEMMA MarkSound ==
  ASSUME NEW v, Sound(v), NEW a \in Areas
  PROVE  LET u == MarkArea(v, a)
         IN /\ Sound(u) /\ u.pix = v.pix
            /\ \A px \in Scissor(a) : TileOf(px) \in u.tiles
<1> DEFINE right  == Lower(Higher(a.r, a.l), VramWidth - 1)
           bottom == Higher(a.b, a.t)
           past   == bottom > VramHeight - 1
           top    == IF past THEN 0 ELSE a.t
           rows   == IF past THEN VramHeight ELSE bottom - a.t + 1
           marked == [v EXCEPT !.area = a]
           r      == [x |-> a.l, y |-> top, w |-> right - a.l + 1, h |-> rows]
           u      == MarkRect(marked, r)
<1>0. /\ a.l \in 0 .. VramWidth /\ a.r \in 0 .. VramWidth /\ a.t \in 0 .. VramHeight
      /\ a.b \in 0 .. VramHeight /\ VramWidth \in Nat \ {0} /\ VramHeight \in Nat \ {0}
      /\ a # NoArea
  <2>1. /\ a.l \in 0 .. VramWidth /\ a.r \in 0 .. VramWidth /\ a.t \in 0 .. VramHeight
        /\ a.b \in 0 .. VramHeight /\ VramWidth \in Nat \ {0} /\ VramHeight \in Nat \ {0}
    BY VramSizes DEF Areas
  <2>2. NoArea.l = -1
    BY DEF NoArea
  <2> QED
    BY <2>1, <2>2
<1>1. MarkArea(v, a) = IF v.area = a THEN v ELSE IF a.l > VramWidth - 1 THEN marked ELSE u
  <2>1. CASE v.area = a
    BY <2>1, Zenon DEF MarkArea
  <2>2. CASE v.area # a /\ a.l > VramWidth - 1
    BY <2>2, Zenon DEF MarkArea
  <2>3. CASE v.area # a /\ ~(a.l > VramWidth - 1)
    BY <2>3, Zenon DEF MarkArea
  <2> QED
    BY <2>1, <2>2, <2>3
<1>2. /\ marked \in VramState /\ marked.pix = v.pix /\ marked.tiles = v.tiles /\ marked.area = a
  BY DEF Sound, VramState
<1> HIDE DEF marked
<1>3. CASE v.area = a
  BY <1>0, <1>1, <1>3 DEF Sound
<1>4. CASE v.area # a /\ a.l > VramWidth - 1
  <2>1. Scissor(a) = {}
    BY <1>0, <1>4 DEF Scissor, Pixels
  <2>2. UnmarkedTilesAgree(marked)
    BY <1>2 DEF Sound, UnmarkedTilesAgree
  <2>3. MarkArea(v, a) = marked
    BY <1>1, <1>4
  <2> QED
    BY <1>2, <2>1, <2>2, <2>3 DEF Sound
<1>5. CASE v.area # a /\ ~(a.l > VramWidth - 1)
  <2> DEFINE ts == UNION {Touched(p) : p \in SplitRect(r)}
  <2>1. /\ right \in a.l .. VramWidth - 1 /\ top \in 0 .. VramHeight - 1
        /\ rows \in 1 .. VramHeight - top
    BY <1>0, <1>5 DEF Lower, Higher
  <2>2. \A px \in Scissor(a) :
          px[1] \in a.l .. right /\ px[2] \in top .. top + rows - 1 /\ px = <<px[1], px[2]>>
    BY <1>0, <1>5 DEF Lower, Higher, Scissor, Pixels
  <2> HIDE DEF right, top, rows
  <2>3. r \in Rects
    <3> DEFINE n == right - a.l + 1
               l == a.l
    <3>1. n \in 0 .. VramWidth /\ rows \in 0 .. VramHeight /\ l \in 0 .. VramWidth - 1
      BY <1>0, <1>5, <2>1
    <3> HIDE DEF n, l
    <3>2. [x |-> l, y |-> top, w |-> n, h |-> rows] \in Rects
      BY <2>1, <3>1 DEF Rects
    <3> QED
      BY <3>2 DEF n, l
  <2>4. r \in SplitRect(r)
    <3>1. Lower(r.w, VramWidth - r.x) = r.w /\ Lower(r.h, VramHeight - r.y) = r.h
      BY <1>0, <1>5, <2>1 DEF Lower
    <3>2. r = [x |-> r.x, y |-> r.y, w |-> r.w, h |-> r.h] /\ r.w > 0 /\ r.h > 0
      BY <1>0, <2>1
    <3> HIDE DEF r
    <3> QED
      BY <3>1, <3>2 DEF SplitRect
  <2>5. ts \subseteq Tiles
    BY <2>3, SplitIsBoxed, TouchedTiles
  <2>6. ASSUME NEW px \in Scissor(a) PROVE TileOf(px) \in ts
    <3>1. px \in PiecePixels(r)
      BY <1>0, <2>1, <2>2 DEF PiecePixels
    <3>2. TileOf(px) \in Touched(r)
      BY <2>3, <2>4, <3>1, SplitIsBoxed, TouchedTiles
    <3> HIDE DEF r
    <3> QED
      BY <2>4, <3>2
  <2>7. u = [marked EXCEPT !.tiles = @ \cup ts]
    BY DEF MarkRect
  <2> HIDE DEF ts, u
  <2>8. u \in VramState /\ u.pix = v.pix /\ u.tiles = v.tiles \cup ts /\ u.area = a
    BY <1>2, <2>5, <2>7 DEF VramState
  <2>9. UnmarkedTilesAgree(u)
    BY <2>8 DEF Sound, UnmarkedTilesAgree
  <2>10. MarkArea(v, a) = u
    BY <1>1, <1>5
  <2> QED
    BY <2>6, <2>8, <2>9, <2>10 DEF Sound
<1> QED
  BY <1>3, <1>4, <1>5

(* So drawing there is allowed.                                            *)
LEMMA DrawSound ==
  ASSUME NEW v, Sound(v), NEW a \in Areas, \A px \in Scissor(a) : TileOf(px) \in v.tiles
  PROVE  LET u == SetPixels(v, Scissor(a), Drawn)
         IN Sound(u) /\ \A px \in Pixels : u.pix[px] \in {Drawn, v.pix[px]}
<1> DEFINE u == SetPixels(v, Scissor(a), Drawn)
<1>1. /\ u \in VramState /\ u.tiles = v.tiles /\ u.area = v.area
      /\ \A p \in Pixels : u.pix[p] = IF p \in Scissor(a) THEN Drawn ELSE v.pix[p]
  BY SetPixelsIs DEF Sound, Copies
<1> HIDE DEF u
<1>2. UnmarkedTilesAgree(u)
  BY <1>1 DEF Sound, UnmarkedTilesAgree
<1>3. Sound(u) /\ \A px \in Pixels : u.pix[px] \in {Drawn, v.pix[px]}
  BY <1>1, <1>2 DEF Sound
<1> QED
  BY <1>3 DEF u

(* The pixels of a transfer are those of its rectangle.                    *)
LEMMA RectSizes ==
  ASSUME NEW r \in GpuRects
  PROVE  /\ r \in Rects /\ r.w \in Nat \ {0} /\ r.h \in Nat \ {0}
         /\ r.x \in 0 .. VramWidth - 1 /\ r.y \in 0 .. VramHeight - 1
         /\ r.w <= VramWidth /\ r.h <= VramHeight
         /\ Total(r) \in Nat \ {0} /\ ImageWords(r) \in Nat \ {0}
<1>1. /\ r.w \in 1 .. VramWidth /\ r.h \in 1 .. VramHeight
      /\ r.x \in 0 .. VramWidth - 1 /\ r.y \in 0 .. VramHeight - 1
  BY Gp0Constants
<1>2. r.w \in Nat \ {0} /\ r.h \in Nat \ {0} /\ r.w \in 0 .. VramWidth /\ r.h \in 0 .. VramHeight
      /\ r.w <= VramWidth /\ r.h <= VramHeight
  BY <1>1, VramSizes
<1>3. r \in Rects
  BY <1>1, <1>2, Gp0Constants DEF Rects
<1>4. Total(r) \in Nat \ {0}
  <2> DEFINE w == r.w
             h == r.h
  <2>1. w \in Nat \ {0} /\ h \in Nat \ {0}
    BY <1>2
  <2> HIDE DEF w, h
  <2>2. w * h \in Nat \ {0}
    BY <2>1
  <2> QED
    BY <2>2 DEF Total, w, h
<1>5. ImageWords(r) \in Nat \ {0}
  <2> DEFINE t == Total(r)
  <2>1. t \in Nat \ {0}
    BY <1>4
  <2> HIDE DEF t
  <2>2. (t + 1) \div 2 \in Nat \ {0}
    BY <2>1
  <2> QED
    BY <2>2 DEF ImageWords, t
<1> QED
  BY <1>1, <1>2, <1>3, <1>4, <1>5

(* An offset into a rectangle, wrapped at both edges, is in it.            *)
LEMMA OffsetInside ==
  ASSUME NEW r \in Rects, NEW i \in Nat, NEW j \in Nat, i < r.w, j < r.h
  PROVE  <<(r.x + i) % VramWidth, (r.y + j) % VramHeight>> \in RectPixels(r)
<1> DEFINE a  == r.x
           b  == r.y
           w0 == Lower(r.w, VramWidth - r.x)
           h0 == Lower(r.h, VramHeight - r.y)
           d  == r.w - w0
           e  == r.h - h0
           c  == (r.x + i) % VramWidth
           g  == (r.y + j) % VramHeight
<1>1. /\ a \in 0 .. VramWidth - 1 /\ b \in 0 .. VramHeight - 1
      /\ r.w \in 0 .. VramWidth /\ r.h \in 0 .. VramHeight
  BY DEF Rects
<1>2. /\ c = IF i < VramWidth - a THEN a + i ELSE a + i - VramWidth
      /\ g = IF j < VramHeight - b THEN b + j ELSE b + j - VramHeight
  <2>1. i \in 0 .. VramWidth /\ j \in 0 .. VramHeight
    BY <1>1, VramSizes
  <2> QED
    BY <1>1, <2>1, VramSizes, Wrapped
<1> SUFFICES <<c, g>> \in RectPixels(r)
  OBVIOUS
<1> HIDE DEF c, g
<1>3. (w0 > 0 /\ c \in a .. a + w0 - 1) \/ (d > 0 /\ c \in 0 .. 0 + d - 1)
  <2>1. CASE i < VramWidth - a
    BY <1>1, <1>2, <2>1, VramSizes DEF Lower
  <2>2. CASE ~(i < VramWidth - a)
    BY <1>1, <1>2, <2>2, VramSizes DEF Lower
  <2> QED
    BY <2>1, <2>2
<1>4. (h0 > 0 /\ g \in b .. b + h0 - 1) \/ (e > 0 /\ g \in 0 .. 0 + e - 1)
  <2>1. CASE j < VramHeight - b
    BY <1>1, <1>2, <2>1, VramSizes DEF Lower
  <2>2. CASE ~(j < VramHeight - b)
    BY <1>1, <1>2, <2>2, VramSizes DEF Lower
  <2> QED
    BY <2>1, <2>2
<1>5. SplitRect(r) =
        {p \in {[x |-> a, y |-> b, w |-> w0, h |-> h0], [x |-> 0, y |-> b, w |-> d, h |-> h0],
                [x |-> a, y |-> 0, w |-> w0, h |-> e], [x |-> 0, y |-> 0, w |-> d, h |-> e]} :
         p.w > 0 /\ p.h > 0}
  BY DEF SplitRect
<1> HIDE DEF a, b, w0, h0, d, e
<1>6. ASSUME NEW p \in SplitRect(r), c \in p.x .. p.x + p.w - 1, g \in p.y .. p.y + p.h - 1
      PROVE  <<c, g>> \in RectPixels(r)
  <2>1. <<c, g>> \in PiecePixels(p)
    BY <1>6 DEF PiecePixels
  <2> QED
    BY <2>1 DEF RectPixels
<1>7. CASE w0 > 0 /\ c \in a .. a + w0 - 1 /\ h0 > 0 /\ g \in b .. b + h0 - 1
  <2> DEFINE p == [x |-> a, y |-> b, w |-> w0, h |-> h0]
  <2>1. p \in SplitRect(r)
    BY <1>5, <1>7
  <2>2. c \in p.x .. p.x + p.w - 1 /\ g \in p.y .. p.y + p.h - 1
    BY <1>7
  <2> HIDE DEF p
  <2> QED
    BY <1>6, <2>1, <2>2
<1>8. CASE d > 0 /\ c \in 0 .. 0 + d - 1 /\ h0 > 0 /\ g \in b .. b + h0 - 1
  <2> DEFINE p == [x |-> 0, y |-> b, w |-> d, h |-> h0]
  <2>1. p \in SplitRect(r)
    BY <1>5, <1>8
  <2>2. c \in p.x .. p.x + p.w - 1 /\ g \in p.y .. p.y + p.h - 1
    BY <1>8
  <2> HIDE DEF p
  <2> QED
    BY <1>6, <2>1, <2>2
<1>9. CASE w0 > 0 /\ c \in a .. a + w0 - 1 /\ e > 0 /\ g \in 0 .. 0 + e - 1
  <2> DEFINE p == [x |-> a, y |-> 0, w |-> w0, h |-> e]
  <2>1. p \in SplitRect(r)
    BY <1>5, <1>9
  <2>2. c \in p.x .. p.x + p.w - 1 /\ g \in p.y .. p.y + p.h - 1
    BY <1>9
  <2> HIDE DEF p
  <2> QED
    BY <1>6, <2>1, <2>2
<1>10. CASE d > 0 /\ c \in 0 .. 0 + d - 1 /\ e > 0 /\ g \in 0 .. 0 + e - 1
  <2> DEFINE p == [x |-> 0, y |-> 0, w |-> d, h |-> e]
  <2>1. p \in SplitRect(r)
    BY <1>5, <1>10
  <2>2. c \in p.x .. p.x + p.w - 1 /\ g \in p.y .. p.y + p.h - 1
    BY <1>10
  <2> HIDE DEF p
  <2> QED
    BY <1>6, <2>1, <2>2
<1> QED
  BY <1>3, <1>4, <1>7, <1>8, <1>9, <1>10

LEMMA PixelInside ==
  ASSUME NEW r \in GpuRects, NEW i \in Nat, i < Total(r)
  PROVE  PixelAt(r, i) \in RectPixels(r) /\ PixelAt(r, i) \in Pixels
<1> DEFINE w == r.w
           h == r.h
           c == i % w
           d == i \div w
<1>1. w \in Nat \ {0} /\ h \in Nat \ {0} /\ i < w * h /\ r \in Rects
  BY RectSizes DEF Total
<1> HIDE DEF w, h
<1>2. c \in 0 .. w - 1
  BY <1>1
<1>3. c \in Nat /\ c < w
  BY <1>1, <1>2
<1>4. d \in Nat /\ d < h
  BY <1>1, DivBounds, DivLess
<1> HIDE DEF c, d
<1>5. <<(r.x + c) % VramWidth, (r.y + d) % VramHeight>> \in RectPixels(r)
  BY <1>1, <1>3, <1>4, OffsetInside DEF w, h
<1>6. PixelAt(r, i) \in RectPixels(r)
  BY <1>5 DEF PixelAt, c, d, w
<1> QED
  BY <1>1, <1>6, PixelsAreInside

(* The rows received and part of the next hold all that was received.      *)
WholeRows(g) == [g.rect EXCEPT !.h = Lower(g.loaded, Total(g.rect)) \div g.rect.w]
PartRow(g) == [g.rect EXCEPT !.y = (@ + Lower(g.loaded, Total(g.rect)) \div g.rect.w) % VramHeight,
                          !.w = Lower(g.loaded, Total(g.rect)) % g.rect.w, !.h = 1]

LEMMA PartialInside ==
  ASSUME NEW g, g.rect \in GpuRects, g.loaded \in Nat
  PROVE  /\ WholeRows(g) \in Rects /\ PartRow(g) \in Rects
         /\ \A i \in 0 .. Lower(g.loaded, Total(g.rect)) - 1 :
              PixelAt(g.rect, i) \in RectPixels(WholeRows(g)) \cup RectPixels(PartRow(g))
<1> DEFINE r == g.rect
           x == r.x
           y == r.y
           w == r.w
           h == r.h
           n == Lower(g.loaded, Total(r))
           q == n \div w
           m == n % w
           z == (y + q) % VramHeight
           s == [r EXCEPT !.h = q]
           t == [r EXCEPT !.y = z, !.w = m, !.h = 1]
<1>1. /\ r \in Rects /\ w \in Nat \ {0} /\ h \in Nat \ {0} /\ Total(r) = w * h /\ Total(r) \in Nat
      /\ x \in 0 .. VramWidth - 1 /\ y \in 0 .. VramHeight - 1 /\ w <= VramWidth /\ h <= VramHeight
  BY RectSizes DEF Total
<1>2. WholeRows(g) = s /\ PartRow(g) = t
  BY DEF WholeRows, PartRow
<1>3. n \in Nat /\ n <= w * h /\ w * h \in Nat
  BY <1>1 DEF Lower
<1> HIDE DEF x, y, w, h, n
<1>4. q \in Nat /\ w * q <= n /\ n < w * q + w /\ m = n - w * q /\ m \in 0 .. w - 1
  <2>1. q \in Nat /\ w * q <= n /\ n < w * q + w
    BY <1>1, <1>3, DivBounds
  <2> HIDE DEF q
  <2> QED
    BY <1>1, <1>3, <2>1, ModIs
<1>5. q <= h
  <2> HIDE DEF q, m
  <2>1. ASSUME h + 1 <= q PROVE FALSE
    <3>1. w * (h + 1) <= w * q /\ w * q \in Nat
      BY <1>1, <1>4, <2>1, TimesMono
    <3>2. w * (h + 1) = w * h + w
      BY <1>1
    <3> QED
      BY <1>1, <1>3, <1>4, <3>1, <3>2
  <2> QED
    BY <1>1, <1>4, <2>1
<1>6. z = (IF q < VramHeight - y THEN y + q ELSE y + q - VramHeight) /\ z \in 0 .. VramHeight - 1
  <2>1. q \in 0 .. VramHeight /\ VramHeight \in Nat \ {0}
    BY <1>1, <1>4, <1>5, VramSizes
  <2> HIDE DEF q
  <2>2. z = IF q < VramHeight - y THEN y + q ELSE y + q - VramHeight
    BY <1>1, <2>1, Wrapped
  <2> HIDE DEF z
  <2> QED
    BY <1>1, <2>1, <2>2
<1> HIDE DEF q, m, z
<1>7. s \in Rects /\ t \in Rects
  <2>1. q \in 0 .. VramHeight /\ m \in 0 .. VramWidth /\ 1 \in 0 .. VramHeight
    BY <1>1, <1>4, <1>5, VramSizes
  <2> QED
    BY <1>1, <1>6, <2>1 DEF Rects
<1>8. /\ s.x = x /\ s.y = y /\ s.w = w /\ s.h = q
      /\ t.x = x /\ t.y = z /\ t.w = m /\ t.h = 1
  BY <1>1 DEF Rects, x, y, w
<1> HIDE DEF s, t
<1>9. ASSUME NEW i \in 0 .. n - 1 PROVE PixelAt(r, i) \in RectPixels(s) \cup RectPixels(t)
  <2> DEFINE c == i % w
             d == i \div w
             px == <<(x + c) % VramWidth, (y + d) % VramHeight>>
  <2>1. i \in Nat /\ i < n
    BY <1>3
  <2>2. d \in Nat /\ w * d <= i /\ i < w * d + w /\ c = i - w * d /\ c \in 0 .. w - 1
    <3>1. d \in Nat /\ w * d <= i /\ i < w * d + w
      BY <1>1, <2>1, DivBounds
    <3> HIDE DEF d
    <3> QED
      BY <1>1, <2>1, <3>1, ModIs
  <2>3. PixelAt(r, i) = px
    BY DEF PixelAt, x, y, w
  <2>4. c \in Nat /\ c < w
    BY <1>1, <2>2
  <2> HIDE DEF c, d
  <2>5. d <= q
    <3>1. ASSUME q + 1 <= d PROVE FALSE
      <4>1. w * (q + 1) <= w * d /\ w * d \in Nat
        BY <1>1, <1>4, <2>2, <3>1, TimesMono
      <4>2. w * (q + 1) = w * q + w /\ w * q \in Nat
        BY <1>1, <1>4
      <4> QED
        BY <1>1, <1>3, <1>4, <2>1, <2>2, <4>1, <4>2
    <3> QED
      BY <1>4, <2>2, <3>1
  <2>6. CASE d < q
    <3>1. px \in RectPixels(s)
      BY <1>7, <1>8, <2>2, <2>4, <2>6, OffsetInside
    <3> QED
      BY <2>3, <3>1
  <2>7. CASE d = q
    <3>1. c < m
      BY <1>1, <1>3, <1>4, <2>1, <2>2, <2>7
    <3>2. <<(t.x + c) % VramWidth, (t.y + 0) % VramHeight>> \in RectPixels(t)
      BY <1>7, <1>8, <2>4, <3>1, OffsetInside
    <3>3. (t.y + 0) % VramHeight = (y + d) % VramHeight
      <4>1. (z + 0) % VramHeight = z
        <5>1. z + 0 = z /\ z \in Nat /\ VramHeight * 0 = 0 /\ z < VramHeight * 0 + VramHeight
          BY <1>6, VramSizes
        <5>2. z % VramHeight = z - VramHeight * 0
          BY <5>1, VramSizes, ModIs
        <5> QED
          BY <1>6, <5>1, <5>2
      <4>2. z = (y + q) % VramHeight
        BY DEF z
      <4> QED
        BY <1>8, <2>7, <4>1, <4>2
    <3> QED
      BY <1>8, <2>3, <3>2, <3>3
  <2> QED
    BY <1>4, <2>2, <2>5, <2>6, <2>7
<1> QED
  BY <1>2, <1>7, <1>9 DEF n

Gp0Modes  == {"COMMAND", "POLYLINE", "IMAGE_LOAD", "IMAGE_STORE", "EXITED"}
Gp0Ops    == DOMAIN CommandWords
Gp0Counts == 0 .. BufferWords
Gp0Polys  == 0 .. PolylineMax
Named  == GpuRects \cup {NoRect}
Gpus   == [mode : Gp0Modes, op : Gp0Ops, count : Gp0Counts, left : Nat, poly : Gp0Polys, rect : Named,
           loaded : Nat, area : Areas, test : BOOLEAN]

Received(g) == {PixelAt(g.rect, i) : i \in 0 .. Lower(g.loaded, Total(g.rect)) - 1}

(* Framing: what is owed of the command or image under way.  A store stays *)
(* a store, whatever is written in between.                                *)
Framed(g) ==
  /\ g.mode = "COMMAND" => g.loaded = 0
  /\ g.mode = "COMMAND" /\ g.left > 0 => g.count + g.left = CommandWords[g.op]
  /\ g.mode = "IMAGE_LOAD" =>
       g.rect \in GpuRects /\ 2 * g.left = 2 * ImageWords(g.rect) - g.loaded /\ g.left > 0
  /\ g.mode = "IMAGE_STORE" => g.rect \in GpuRects /\ g.left > 0 /\ g.op = "STORE"
  /\ g.mode = "POLYLINE" => g.left = 0 /\ g.poly > 0

(* The picture: only an upload has pixels the renderer lacks, a store has  *)
(* none the CPU copy lacks, and neither has an upload under the mask test. *)
Pictured(g, v) ==
  /\ Sound(v)
  /\ \A p \in Pixels : v.pix[p] = Sent => g.mode = "IMAGE_LOAD" /\ p \in Received(g)
  /\ g.mode = "IMAGE_STORE" => \A p \in RectPixels(g.rect) : v.pix[p] = Same
  /\ g.mode = "IMAGE_LOAD" /\ g.test => \A p \in RectPixels(g.rect) : v.pix[p] # Drawn

Gp0IInv == gp0 \in Gpus /\ Framed(gp0) /\ Pictured(gp0, vram) /\ misread = FALSE

LEMMA GpusAre == Gp0State = Gpus
BY DEF Gp0State, Gpus, Gp0Modes, Gp0Ops, Gp0Counts, Gp0Polys, Named

(* Nothing is sent and not yet pushed.                                     *)
Quiet(v) == Sound(v) /\ \A p \in Pixels : v.pix[p] # Sent

LEMMA QuietIsPictured ==
  ASSUME NEW g, g.mode \in {"COMMAND", "POLYLINE", "EXITED"}, NEW v, Quiet(v)
  PROVE  Pictured(g, v)
BY DEF Pictured, Quiet

LEMMA PicturedIsQuiet ==
  ASSUME NEW g, g.mode # "IMAGE_LOAD", NEW v, Pictured(g, v)
  PROVE  Quiet(v)
BY DEF Pictured, Quiet

LEMMA Opcodes ==
  /\ {"UNKNOWN", "STORE", "LOAD"} \subseteq Gp0Ops
  /\ \A op \in Gp0Ops : CommandWords[op] \in Nat
BY DEF Gp0Ops, CommandWords

LEMMA Limits ==
  /\ BufferWords \in Nat /\ PolylineMax \in Nat \ {0} /\ 0 \in Gp0Counts /\ 0 \in Gp0Polys
  /\ NoRect \in Named /\ GpuRects \subseteq Named
BY Gp0Constants DEF Gp0Counts, Gp0Polys, Named

LEMMA IdleIs ==
  ASSUME NEW g \in Gpus
  PROVE  /\ Idle(g) \in Gpus /\ Finished(g) \in Gpus
         /\ Idle(g).mode = "COMMAND" /\ Finished(g).mode = "COMMAND"
         /\ Idle(g).left = g.left /\ Finished(g).left = g.left
         /\ Idle(g).loaded = 0 /\ Finished(g).loaded = 0
<1> DEFINE a == [g EXCEPT !.mode = "COMMAND"]
           b == [a EXCEPT !.op = "UNKNOWN"]
           c == [b EXCEPT !.rect = NoRect]
           d == [c EXCEPT !.loaded = 0]
           e == [d EXCEPT !.count = 0]
<1>1. Idle(g) = d /\ Finished(g) = e
  BY DEF Idle, Finished
<1>2. a \in Gpus /\ a.mode = "COMMAND" /\ a.left = g.left
  BY DEF Gpus, Gp0Modes
<1> HIDE DEF a
<1>3. b \in Gpus /\ b.mode = "COMMAND" /\ b.left = g.left
  BY <1>2, Opcodes DEF Gpus
<1> HIDE DEF b
<1>4. c \in Gpus /\ c.mode = "COMMAND" /\ c.left = g.left
  BY <1>3, Limits DEF Gpus
<1> HIDE DEF c
<1>5. d \in Gpus /\ d.mode = "COMMAND" /\ d.left = g.left /\ d.loaded = 0
  BY <1>4 DEF Gpus
<1> HIDE DEF d
<1>6. e \in Gpus /\ e.mode = "COMMAND" /\ e.left = g.left /\ e.loaded = 0
  BY <1>5, Limits DEF Gpus
<1> QED
  BY <1>1, <1>5, <1>6

LEMMA FinishedFramed ==
  ASSUME NEW g \in Gpus, g.left = 0
  PROVE  Framed(Finished(g)) /\ Framed(Idle(g))
BY IdleIs DEF Framed

(* Receiving part of an image and giving it up.                            *)
LEMMA FlushKeeps ==
  ASSUME Gp0IInv
  PROVE  Quiet(FlushPartial(gp0, vram))
<1>1. CASE gp0.mode # "IMAGE_LOAD"
  <2>1. FlushPartial(gp0, vram) = vram
    BY <1>1 DEF FlushPartial
  <2> QED
    BY <1>1, <2>1, PicturedIsQuiet DEF Gp0IInv
<1>2. CASE gp0.mode = "IMAGE_LOAD"
  <2> DEFINE u == Push(vram, WholeRows(gp0))
             w == Push(u, PartRow(gp0))
  <2>1. FlushPartial(gp0, vram) = w
    BY <1>2 DEF FlushPartial, WholeRows, PartRow
  <2>2. gp0.rect \in GpuRects /\ gp0.loaded \in Nat
    BY <1>2 DEF Gp0IInv, Framed, Gpus
  <2>3. /\ WholeRows(gp0) \in Rects /\ PartRow(gp0) \in Rects
        /\ Received(gp0) \subseteq RectPixels(WholeRows(gp0)) \cup RectPixels(PartRow(gp0))
    BY <2>2, PartialInside DEF Received
  <2>4. /\ Sound(u)
        /\ \A p \in Pixels : u.pix[p] = IF p \in RectPixels(WholeRows(gp0)) THEN Same ELSE vram.pix[p]
    BY <2>3, PushSound DEF Gp0IInv, Pictured
  <2> HIDE DEF u
  <2>5. /\ Sound(w)
        /\ \A p \in Pixels : w.pix[p] = IF p \in RectPixels(PartRow(gp0)) THEN Same ELSE u.pix[p]
    BY <2>3, <2>4, PushSound
  <2> HIDE DEF w
  <2>6. \A p \in Pixels : w.pix[p] # Sent
    BY <2>3, <2>4, <2>5 DEF Gp0IInv, Pictured, Same, Sent
  <2> QED
    BY <2>1, <2>5, <2>6 DEF Quiet
<1> QED
  BY <1>1, <1>2

LEMMA NotedIs ==
  ASSUME NEW h \in Gpus, NEW v, Quiet(v)
  PROVE  LET u == NoteRaster(h, v)
         IN /\ Quiet(u) /\ u.pix = v.pix
            /\ h.op \in Rasterises => \A px \in Scissor(h.area) : TileOf(px) \in u.tiles
<1> DEFINE u == MarkArea(v, h.area)
<1>1. h.area \in Areas
  BY DEF Gpus
<1>2. Sound(u) /\ u.pix = v.pix /\ \A px \in Scissor(h.area) : TileOf(px) \in u.tiles
  BY <1>1, MarkSound DEF Quiet
<1> HIDE DEF u
<1>3. NoteRaster(h, v) = IF h.op \in Rasterises THEN u ELSE v
  BY DEF NoteRaster, u
<1> QED
  BY <1>2, <1>3 DEF Quiet

(* Drawing over a quiet picture.                                           *)
LEMMA DrawnIsQuiet ==
  ASSUME NEW v, Quiet(v), NEW a \in Areas, \A px \in Scissor(a) : TileOf(px) \in v.tiles
  PROVE  Quiet(SetPixels(v, Scissor(a), Drawn))
BY DrawSound DEF Quiet, Drawn, Sent

(* What is sent to a rectangle and pushed is in both copies.               *)
LEMMA SentAndPushed ==
  ASSUME NEW v, Quiet(v), NEW r \in Rects
  PROVE  Quiet(Push(SetPixels(v, RectPixels(r), Sent), r))
<1> DEFINE u == SetPixels(v, RectPixels(r), Sent)
<1>1. Sound(u)
  BY SettleSound DEF Quiet
<1>2. \A p \in Pixels : u.pix[p] = IF p \in RectPixels(r) THEN Sent ELSE v.pix[p]
  BY SetPixelsIs DEF Quiet, Sound, Copies
<1> HIDE DEF u
<1>3. /\ Sound(Push(u, r))
      /\ \A p \in Pixels : Push(u, r).pix[p] = IF p \in RectPixels(r) THEN Same ELSE u.pix[p]
  BY <1>1, PushSound
<1>4. \A p \in Pixels : Push(u, r).pix[p] # Sent
  BY <1>2, <1>3 DEF Quiet, Same, Sent
<1> QED
  BY <1>3, <1>4 DEF Quiet, u

LEMMA PullQuiet ==
  ASSUME NEW v, Quiet(v), NEW r \in Rects
  PROVE  LET u == Pull(v, r)
         IN /\ Quiet(u)
            /\ \A p \in Pixels : u.pix[p] \in {Same, v.pix[p]}
            /\ \A p \in RectPixels(r) : u.pix[p] = Same
<1> DEFINE u == Pull(v, r)
<1>1. /\ Sound(u)
      /\ \A p \in Pixels : u.pix[p] \in {Same, v.pix[p]}
      /\ \A p \in RectPixels(r) : u.pix[p] # Drawn
  BY PullSound DEF Quiet
<1>2. RectPixels(r) \subseteq Pixels
  BY PixelsAreInside
<1> HIDE DEF u
<1>3. \A p \in Pixels : u.pix[p] # Sent
  BY <1>1 DEF Quiet, Same, Sent
<1>4. \A p \in Pixels : u.pix[p] \in {Same, Drawn, Sent}
  BY <1>1 DEF Sound, VramState
<1> QED
  BY <1>1, <1>2, <1>3, <1>4 DEF Quiet, u

LEMMA FillRectInside ==
  ASSUME NEW r \in GpuRects
  PROVE  FillRect(r) \in Rects
<1> DEFINE x == r.x
           w == r.w
           c == VramWidth \div TileSize
           a == x \div TileSize
           b == (w + TileSize - 1) \div TileSize
           d == a * TileSize
           e == b * TileSize
<1>1. /\ x \in 0 .. VramWidth - 1 /\ w \in Nat \ {0} /\ w <= VramWidth /\ r \in Rects
  BY RectSizes
<1>2. TileSize \in Nat \ {0} /\ VramWidth = TileSize * c /\ c \in Nat /\ VramWidth \in Nat
  BY VramSizes, DivBounds
<1> HIDE DEF x, w, c
<1>3. a \in Nat /\ TileSize * a <= x
  BY <1>1, <1>2, DivBounds
<1>4. b \in Nat /\ TileSize * b <= w + TileSize - 1
  <2>1. w + TileSize - 1 \in Nat
    BY <1>1, <1>2
  <2> QED
    BY <1>2, <2>1, DivBounds
<1> HIDE DEF a, b
<1>5. d \in 0 .. VramWidth - 1
  BY <1>1, <1>2, <1>3
<1>6. b <= c
  <2>1. ASSUME c + 1 <= b PROVE FALSE
    <3>1. TileSize * (c + 1) <= TileSize * b /\ TileSize * b \in Nat
      BY <1>2, <1>4, <2>1, TimesMono
    <3>2. TileSize * (c + 1) = TileSize * c + TileSize
      BY <1>2
    <3> QED
      BY <1>1, <1>2, <1>4, <3>1, <3>2
  <2> QED
    BY <1>2, <1>4, <2>1
<1>7. e \in 0 .. VramWidth
  <2>1. TileSize * b <= TileSize * c /\ TileSize * b \in Nat
    BY <1>2, <1>4, <1>6, TimesMono
  <2>2. e = TileSize * b
    BY <1>2, <1>4
  <2> QED
    BY <1>2, <2>1, <2>2
<1>8. FillRect(r) = [r EXCEPT !.x = d, !.w = e]
  BY DEF FillRect, a, b, x, w
<1> HIDE DEF d, e
<1> QED
  BY <1>1, <1>5, <1>7, <1>8 DEF Rects

(* What the handlers are given: the last word of a command has arrived.    *)
Ready(h) ==
  /\ h \in Gpus /\ h.left = 0
  /\ \/ h.mode = "COMMAND" /\ h.loaded = 0
     \/ h.mode = "IMAGE_STORE" /\ h.op = "STORE"

LEMMA DrawKeeps ==
  ASSUME NEW h, Ready(h), NEW v, Quiet(v), \A px \in Scissor(h.area) : TileOf(px) \in v.tiles,
         misread = FALSE, Draw(h, v)
  PROVE  Gp0IInv'
<1>1. h \in Gpus /\ h.left = 0 /\ h.area \in Areas
  BY DEF Ready, Gpus
<1>2. gp0' = Finished(h) /\ vram' = SetPixels(v, Scissor(h.area), Drawn) /\ misread' = FALSE
  BY DEF Draw
<1>3. gp0' \in Gpus /\ Framed(gp0') /\ gp0'.mode = "COMMAND"
  BY <1>1, <1>2, IdleIs, FinishedFramed
<1>4. Quiet(vram')
  BY <1>1, <1>2, DrawnIsQuiet
<1> QED
  BY <1>2, <1>3, <1>4, QuietIsPictured DEF Gp0IInv

LEMMA FillKeeps ==
  ASSUME NEW h, Ready(h), NEW v, Quiet(v), misread = FALSE, Fill(h, v)
  PROVE  Gp0IInv'
<1>1. h \in Gpus /\ h.left = 0
  BY DEF Ready
<1>2. gp0' = Finished(h) /\ misread' = FALSE
  BY DEF Fill
<1>3. gp0' \in Gpus /\ Framed(gp0') /\ gp0'.mode = "COMMAND"
  BY <1>1, <1>2, IdleIs, FinishedFramed
<1>4. PICK r \in GpuRects :
        vram' = Push(SetPixels(v, RectPixels(FillRect(r)), Sent), FillRect(r))
  BY DEF Fill
<1>5. Quiet(vram')
  BY <1>4, FillRectInside, SentAndPushed
<1> QED
  BY <1>2, <1>3, <1>5, QuietIsPictured DEF Gp0IInv

LEMMA CopyKeeps ==
  ASSUME NEW h, Ready(h), NEW v, Quiet(v), misread = FALSE, Copy(h, v)
  PROVE  Gp0IInv'
<1>1. h \in Gpus /\ h.left = 0 /\ h.test \in BOOLEAN
  BY DEF Ready, Gpus
<1>2. gp0' = Finished(h)
  BY DEF Copy
<1>3. gp0' \in Gpus /\ Framed(gp0') /\ gp0'.mode = "COMMAND"
  BY <1>1, <1>2, IdleIs, FinishedFramed
<1>4. PICK r \in GpuRects, d \in GpuRects :
        LET dst  == [r EXCEPT !.x = d.x, !.y = d.y]
            src  == Pull(v, r)
            real == IF h.test THEN Pull(src, dst) ELSE src
        IN /\ misread' = (misread \/ Stale(real, RectPixels(r) \cup
                                            (IF h.test THEN RectPixels(dst) ELSE {})))
           /\ vram' = Push(SetPixels(real, RectPixels(dst), Sent), dst)
  BY DEF Copy
<1> DEFINE dst  == [r EXCEPT !.x = d.x, !.y = d.y]
           src  == Pull(v, r)
           real == IF h.test THEN Pull(src, dst) ELSE src
           s    == RectPixels(r) \cup (IF h.test THEN RectPixels(dst) ELSE {})
<1>5. misread' = (misread \/ Stale(real, s)) /\ vram' = Push(SetPixels(real, RectPixels(dst), Sent), dst)
  BY <1>4
<1>6. r \in Rects /\ dst \in Rects
  <2>1. r \in Rects /\ d.x \in 0 .. VramWidth - 1 /\ d.y \in 0 .. VramHeight - 1
    BY RectSizes
  <2> QED
    BY <2>1 DEF Rects
<1>7. /\ Quiet(src)
      /\ \A p \in RectPixels(r) : src.pix[p] = Same
  BY <1>6, PullQuiet
<1> HIDE DEF src
<1>8. RectPixels(r) \subseteq Pixels /\ RectPixels(dst) \subseteq Pixels
  BY <1>6, PixelsAreInside
<1>9. Quiet(real) /\ \A p \in s : real.pix[p] = Same
  <2>1. CASE ~h.test
    <3>1. real = src /\ s = RectPixels(r)
      BY <2>1
    <3> QED
      BY <1>7, <3>1
  <2>2. CASE h.test
    <3> DEFINE u == Pull(src, dst)
    <3>1. real = u /\ s = RectPixels(r) \cup RectPixels(dst)
      BY <2>2
    <3>2. /\ Quiet(u) /\ \A p \in Pixels : u.pix[p] \in {Same, src.pix[p]}
          /\ \A p \in RectPixels(dst) : u.pix[p] = Same
      BY <1>6, <1>7, PullQuiet
    <3> HIDE DEF u, dst, real, s
    <3> QED
      BY <1>7, <1>8, <3>1, <3>2
  <2> QED
    BY <1>1, <2>1, <2>2
<1> HIDE DEF real, s, dst
<1>10. misread' = FALSE
  BY <1>5, <1>9 DEF Stale
<1>11. Quiet(vram')
  BY <1>5, <1>6, <1>9, SentAndPushed
<1> QED
  BY <1>3, <1>10, <1>11, QuietIsPictured DEF Gp0IInv

LEMMA NoneReceived ==
  ASSUME NEW g, g.rect \in GpuRects, g.loaded = 0
  PROVE  Received(g) = {}
<1>1. Total(g.rect) \in Nat
  BY RectSizes
<1>2. Lower(0, Total(g.rect)) = 0
  BY <1>1 DEF Lower
<1> QED
  BY <1>2 DEF Received

LEMMA LoadKeeps ==
  ASSUME NEW h, Ready(h), h.mode = "COMMAND", NEW v, Quiet(v), misread = FALSE, ImageLoad(h, v)
  PROVE  Gp0IInv'
<1>1. h \in Gpus /\ h.loaded = 0 /\ h.test \in BOOLEAN
  BY DEF Ready, Gpus
<1>2. misread' = FALSE
  BY DEF ImageLoad
<1>3. PICK r \in GpuRects :
        /\ vram' = IF h.test THEN Pull(v, r) ELSE v
        /\ gp0' = [h EXCEPT !.mode = "IMAGE_LOAD", !.rect = r, !.left = ImageWords(r)]
  BY DEF ImageLoad
<1>4. r \in Rects /\ ImageWords(r) \in Nat \ {0} /\ r \in Named /\ "IMAGE_LOAD" \in Gp0Modes
  BY RectSizes, Limits DEF Gp0Modes
<1> DEFINE n == ImageWords(r)
           a == [h EXCEPT !.mode = "IMAGE_LOAD"]
           b == [a EXCEPT !.rect = r]
           c == [b EXCEPT !.left = n]
<1>5. gp0' = c
  BY <1>3
<1>6. n \in Nat \ {0}
  BY <1>4
<1> HIDE DEF n
<1>7. a \in Gpus /\ a.mode = "IMAGE_LOAD" /\ a.loaded = 0 /\ a.test = h.test
  BY <1>1, <1>4 DEF Gpus
<1> HIDE DEF a
<1>8. b \in Gpus /\ b.mode = "IMAGE_LOAD" /\ b.loaded = 0 /\ b.test = h.test /\ b.rect = r
  BY <1>4, <1>7 DEF Gpus
<1> HIDE DEF b
<1>9. c \in Gpus /\ c.mode = "IMAGE_LOAD" /\ c.loaded = 0 /\ c.test = h.test /\ c.rect = r /\ c.left = n
  BY <1>6, <1>8 DEF Gpus
<1> HIDE DEF c
<1>10. Framed(c)
  <2>1. 2 * c.left = 2 * ImageWords(c.rect) - c.loaded
    <3>1. ImageWords(c.rect) = n
      BY <1>9 DEF n
    <3> QED
      BY <1>6, <1>9, <3>1
  <2> QED
    BY <1>6, <1>9, <2>1 DEF Framed
<1>11. Quiet(vram') /\ (h.test => \A p \in RectPixels(r) : vram'.pix[p] = Same)
  <2>1. CASE h.test
    BY <1>3, <1>4, <2>1, PullQuiet
  <2>2. CASE ~h.test
    BY <1>3, <2>2
  <2> QED
    BY <2>1, <2>2
<1>12. Pictured(c, vram')
  BY <1>9, <1>11 DEF Pictured, Quiet, Same, Drawn
<1> QED
  BY <1>2, <1>5, <1>9, <1>10, <1>12 DEF Gp0IInv

LEMMA StoreKeeps ==
  ASSUME NEW h, Ready(h), h.op = "STORE", NEW v, Quiet(v), misread = FALSE, ImageStore(h, v)
  PROVE  Gp0IInv'
<1>1. h \in Gpus
  BY DEF Ready
<1>2. misread' = FALSE
  BY DEF ImageStore
<1>3. PICK r \in GpuRects :
        /\ vram' = Pull(v, r)
        /\ gp0' = [h EXCEPT !.mode = "IMAGE_STORE", !.rect = r, !.left = ImageWords(r), !.loaded = 0]
  BY DEF ImageStore
<1>4. r \in Rects /\ ImageWords(r) \in Nat \ {0} /\ r \in Named /\ "IMAGE_STORE" \in Gp0Modes
  BY RectSizes, Limits DEF Gp0Modes
<1> DEFINE n == ImageWords(r)
           a == [h EXCEPT !.mode = "IMAGE_STORE"]
           b == [a EXCEPT !.rect = r]
           c == [b EXCEPT !.left = n]
           d == [c EXCEPT !.loaded = 0]
<1>5. gp0' = d
  BY <1>3
<1>6. n \in Nat \ {0}
  BY <1>4
<1> HIDE DEF n
<1>7. a \in Gpus /\ a.mode = "IMAGE_STORE" /\ a.op = "STORE"
  BY <1>1, <1>4 DEF Gpus
<1> HIDE DEF a
<1>8. b \in Gpus /\ b.mode = "IMAGE_STORE" /\ b.op = "STORE" /\ b.rect = r
  BY <1>4, <1>7 DEF Gpus
<1> HIDE DEF b
<1>9. c \in Gpus /\ c.mode = "IMAGE_STORE" /\ c.op = "STORE" /\ c.rect = r /\ c.left = n
  BY <1>6, <1>8 DEF Gpus
<1> HIDE DEF c
<1>10. d \in Gpus /\ d.mode = "IMAGE_STORE" /\ d.op = "STORE" /\ d.rect = r /\ d.left = n
  BY <1>9 DEF Gpus
<1> HIDE DEF d
<1>11. Framed(d)
  BY <1>6, <1>10 DEF Framed
<1>12. Quiet(vram') /\ \A p \in RectPixels(r) : vram'.pix[p] = Same
  BY <1>3, <1>4, PullQuiet
<1>13. Pictured(d, vram')
  BY <1>10, <1>12 DEF Pictured, Quiet
<1> QED
  BY <1>2, <1>5, <1>10, <1>11, <1>13 DEF Gp0IInv

LEMMA AttributeKeeps ==
  ASSUME NEW h, Ready(h), h.mode = "COMMAND", NEW v, Quiet(v), misread = FALSE, SetAttribute(h, v)
  PROVE  Gp0IInv'
<1>1. h \in Gpus /\ h.left = 0 /\ h.area \in Areas
  BY DEF Ready, Gpus
<1>2. vram' = v /\ misread' = FALSE
  BY DEF SetAttribute
<1>3. ASSUME NEW g \in Gpus, g.left = 0, gp0' = Finished(g) PROVE Gp0IInv'
  <2>1. gp0' \in Gpus /\ Framed(gp0') /\ gp0'.mode = "COMMAND"
    BY <1>3, IdleIs, FinishedFramed
  <2> QED
    BY <1>2, <2>1, QuietIsPictured DEF Gp0IInv
<1>4. CASE \E a \in DrawAreas : gp0' = Finished([h EXCEPT !.area.l = a.l, !.area.t = a.t])
  <2>1. PICK a \in DrawAreas : gp0' = Finished([h EXCEPT !.area.l = a.l, !.area.t = a.t])
    BY <1>4
  <2> DEFINE k == [h.area EXCEPT !.l = a.l, !.t = a.t]
             g == [h EXCEPT !.area = k]
  <2>2. k \in Areas
    BY <1>1, Gp0Constants DEF Areas
  <2>3. [h EXCEPT !.area.l = a.l, !.area.t = a.t] = g
    BY <1>1 DEF Gpus, Areas
  <2> HIDE DEF k
  <2>4. g \in Gpus /\ g.left = 0
    BY <1>1, <2>2 DEF Gpus
  <2> HIDE DEF g
  <2> QED
    BY <1>3, <2>1, <2>3, <2>4
<1>5. CASE \E a \in DrawAreas : gp0' = Finished([h EXCEPT !.area.r = a.r, !.area.b = a.b])
  <2>1. PICK a \in DrawAreas : gp0' = Finished([h EXCEPT !.area.r = a.r, !.area.b = a.b])
    BY <1>5
  <2> DEFINE k == [h.area EXCEPT !.r = a.r, !.b = a.b]
             g == [h EXCEPT !.area = k]
  <2>2. k \in Areas
    BY <1>1, Gp0Constants DEF Areas
  <2>3. [h EXCEPT !.area.r = a.r, !.area.b = a.b] = g
    BY <1>1 DEF Gpus, Areas
  <2> HIDE DEF k
  <2>4. g \in Gpus /\ g.left = 0
    BY <1>1, <2>2 DEF Gpus
  <2> HIDE DEF g
  <2> QED
    BY <1>3, <2>1, <2>3, <2>4
<1>6. CASE \E b \in BOOLEAN : gp0' = Finished([h EXCEPT !.test = b])
  <2>1. PICK b \in BOOLEAN : gp0' = Finished([h EXCEPT !.test = b])
    BY <1>6
  <2> DEFINE g == [h EXCEPT !.test = b]
  <2>2. g \in Gpus /\ g.left = 0
    BY <1>1 DEF Gpus
  <2> QED
    BY <1>3, <2>1, <2>2
<1>7. CASE gp0' = [h EXCEPT !.mode = "POLYLINE", !.poly = 1]
  <2> DEFINE a == [h EXCEPT !.mode = "POLYLINE"]
             b == [a EXCEPT !.poly = 1]
  <2>1. gp0' = b
    BY <1>7
  <2>2. a \in Gpus /\ a.mode = "POLYLINE" /\ a.left = 0
    BY <1>1 DEF Gpus, Gp0Modes
  <2> HIDE DEF a
  <2>3. 1 \in Gp0Polys
    BY Limits DEF Gp0Polys
  <2>4. b \in Gpus /\ b.mode = "POLYLINE" /\ b.left = 0 /\ b.poly = 1
    BY <2>2, <2>3 DEF Gpus
  <2> HIDE DEF b
  <2> QED
    BY <1>2, <2>1, <2>4, QuietIsPictured DEF Gp0IInv, Framed
<1>8. CASE gp0' = Finished(h)
  BY <1>1, <1>3, <1>8
<1> QED
  BY <1>4, <1>5, <1>6, <1>7, <1>8 DEF SetAttribute

LEMMA ExecuteKeeps ==
  ASSUME NEW h, Ready(h), Quiet(vram), misread = FALSE, Execute(h)
  PROVE  Gp0IInv'
<1> DEFINE v == NoteRaster(h, vram)
<1>1. /\ Quiet(v)
      /\ h.op \in Drawing => \A px \in Scissor(h.area) : TileOf(px) \in v.tiles
  BY NotedIs DEF Ready, Rasterises
<1>2. \/ h.op \in Drawing /\ Draw(h, v)
      \/ h.op = "FILL"    /\ Fill(h, v)
      \/ h.op = "COPY"    /\ Copy(h, v)
      \/ h.op = "LOAD"    /\ ImageLoad(h, v)
      \/ h.op = "STORE"   /\ ImageStore(h, v)
      \/ SetAttribute(h, v)
  BY DEF Execute
<1> HIDE DEF v
<1>3. h.op # "STORE" => h.mode = "COMMAND"
  BY DEF Ready
<1>4. CASE h.op \in Drawing /\ Draw(h, v)
  BY <1>1, <1>4, DrawKeeps
<1>5. CASE h.op = "FILL" /\ Fill(h, v)
  BY <1>1, <1>5, FillKeeps
<1>6. CASE h.op = "COPY" /\ Copy(h, v)
  BY <1>1, <1>6, CopyKeeps
<1>7. CASE h.op = "LOAD" /\ ImageLoad(h, v)
  BY <1>1, <1>3, <1>7, LoadKeeps
<1>8. CASE h.op = "STORE" /\ ImageStore(h, v)
  BY <1>1, <1>8, StoreKeeps
<1>9. CASE SetAttribute(h, v)
  <2>1. h.op # "STORE"
    BY <1>9 DEF SetAttribute
  <2> QED
    BY <1>1, <1>3, <1>9, <2>1, AttributeKeeps
<1> QED
  BY <1>2, <1>4, <1>5, <1>6, <1>7, <1>8, <1>9

LEMMA StartIs ==
  ASSUME Gp0IInv, NEW w \in GpuWords, gp0.mode \in {"COMMAND", "IMAGE_STORE"}
  PROVE  LET h == StartCommand(w)
         IN /\ h \in Gpus /\ h.mode = gp0.mode
            /\ h.mode = "COMMAND" => h.loaded = 0 /\ h.count + h.left = CommandWords[h.op]
            /\ h.mode = "IMAGE_STORE" => h = gp0
<1>1. gp0 \in Gpus /\ Framed(gp0)
  BY DEF Gp0IInv
<1>2. CASE gp0.left > 0
  BY <1>1, <1>2 DEF StartCommand, Framed
<1>3. CASE ~(gp0.left > 0)
  <2>1. gp0.mode = "COMMAND"
    BY <1>1, <1>3 DEF Framed
  <2> DEFINE o == CommandOf(w)
             n == CommandWords[o]
             a == [gp0 EXCEPT !.op = o]
             b == [a EXCEPT !.count = 0]
             c == [b EXCEPT !.left = n]
  <2>2. StartCommand(w) = c
    BY <1>3 DEF StartCommand
  <2>3. o \in Gp0Ops /\ n \in Nat
    BY Gp0Words, Opcodes DEF Gp0Ops
  <2> HIDE DEF o
  <2>4. a \in Gpus /\ a.mode = "COMMAND" /\ a.loaded = 0 /\ a.op = o
    BY <1>1, <2>1, <2>3 DEF Gpus, Framed
  <2> HIDE DEF a
  <2>5. b \in Gpus /\ b.mode = "COMMAND" /\ b.loaded = 0 /\ b.op = o /\ b.count = 0
    BY <2>4, Limits DEF Gpus
  <2> HIDE DEF b, n
  <2>6. c \in Gpus /\ c.mode = "COMMAND" /\ c.loaded = 0 /\ c.op = o /\ c.count = 0 /\ c.left = n
    BY <2>3, <2>5 DEF Gpus
  <2> HIDE DEF c
  <2>7. c.count + c.left = CommandWords[c.op]
    BY <2>3, <2>6 DEF n
  <2> QED
    BY <2>1, <2>2, <2>6, <2>7
<1> QED
  BY <1>2, <1>3

LEMMA CommandKeeps ==
  ASSUME Gp0IInv, NEW w \in GpuWords, CommandWord(w)
  PROVE  Gp0IInv'
<1> DEFINE h == StartCommand(w)
           a == [h EXCEPT !.count = @ + 1]
           g == [a EXCEPT !.left = @ - 1]
<1>1. gp0.mode \in {"COMMAND", "IMAGE_STORE"}
  BY DEF CommandWord
<1>2. /\ h \in Gpus /\ h.mode = gp0.mode
      /\ h.mode = "COMMAND" => h.loaded = 0 /\ h.count + h.left = CommandWords[h.op]
      /\ h.mode = "IMAGE_STORE" => h = gp0
  BY <1>1, StartIs
<1>3. gp0 \in Gpus /\ Framed(gp0) /\ Quiet(vram) /\ misread = FALSE /\ Pictured(gp0, vram)
  BY <1>1, PicturedIsQuiet DEF Gp0IInv
<1>4. \/ /\ h.count >= BufferWords
         /\ gp0' = [gp0 EXCEPT !.mode = "EXITED"]
         /\ UNCHANGED <<vram, misread>>
      \/ /\ h.count < BufferWords /\ h.left = 0
         /\ gp0' = [h EXCEPT !.count = 1]
         /\ UNCHANGED <<vram, misread>>
      \/ /\ h.count < BufferWords /\ g.left > 0
         /\ gp0' = g
         /\ UNCHANGED <<vram, misread>>
      \/ h.count < BufferWords /\ g.left = 0 /\ Execute(g)
  BY DEF CommandWord
<1> HIDE DEF h
<1>5. h.count \in Nat /\ h.left \in Nat /\ BufferWords \in Nat
  BY <1>2, Limits DEF Gpus, Gp0Counts
<1>6. ASSUME h.count < BufferWords
      PROVE  /\ a.mode = h.mode /\ a.op = h.op /\ a.rect = h.rect /\ a.loaded = h.loaded
             /\ a.count = h.count + 1 /\ a.left = h.left /\ a \in Gpus
  <2>1. h.count + 1 \in Gp0Counts
    BY <1>5, <1>6 DEF Gp0Counts
  <2> QED
    BY <1>2, <2>1 DEF Gpus
<1> HIDE DEF a
<1>7. ASSUME h.count < BufferWords
      PROVE  /\ g.mode = h.mode /\ g.op = h.op /\ g.rect = h.rect /\ g.loaded = h.loaded
             /\ g.count = h.count + 1 /\ g.left = h.left - 1
             /\ g.left >= 0 => g \in Gpus
  <2> DEFINE n == a.left - 1
             k == [a EXCEPT !.left = n]
  <2>1. g = k /\ n = h.left - 1
    BY <1>6, <1>7
  <2> HIDE DEF n, g
  <2>2. k.mode = a.mode /\ k.op = a.op /\ k.rect = a.rect /\ k.loaded = a.loaded
        /\ k.count = a.count /\ k.left = n /\ (n \in Nat => k \in Gpus)
    BY <1>6, <1>7 DEF Gpus
  <2> HIDE DEF k
  <2>3. n >= 0 => n \in Nat
    BY <1>5, <2>1
  <2> QED
    BY <1>6, <1>7, <2>1, <2>2, <2>3
<1> HIDE DEF g
<1>8. CASE h.count >= BufferWords /\ gp0' = [gp0 EXCEPT !.mode = "EXITED"] /\ UNCHANGED <<vram, misread>>
  <2>1. gp0' \in Gpus /\ gp0'.mode = "EXITED"
    BY <1>3, <1>8 DEF Gpus, Gp0Modes
  <2>2. Framed(gp0')
    BY <2>1 DEF Framed
  <2>3. Quiet(vram') /\ misread' = FALSE
    BY <1>3, <1>8
  <2> QED
    BY <2>1, <2>2, <2>3, QuietIsPictured DEF Gp0IInv
<1>9. CASE h.count < BufferWords /\ h.left = 0 /\ gp0' = [h EXCEPT !.count = 1] /\ UNCHANGED <<vram, misread>>
  <2>1. h.mode = "COMMAND" /\ h.loaded = 0
    BY <1>1, <1>2, <1>3, <1>9 DEF Framed
  <2>2. 1 \in Gp0Counts
    BY <1>5, <1>9 DEF Gp0Counts
  <2>3. gp0' \in Gpus /\ gp0'.mode = "COMMAND" /\ gp0'.loaded = 0 /\ gp0'.left = 0
    BY <1>2, <1>9, <2>1, <2>2 DEF Gpus
  <2>4. Framed(gp0')
    BY <2>3 DEF Framed
  <2>5. Quiet(vram') /\ misread' = FALSE
    BY <1>3, <1>9
  <2> QED
    BY <2>3, <2>4, <2>5, QuietIsPictured DEF Gp0IInv
<1>10. CASE h.count < BufferWords /\ g.left > 0 /\ gp0' = g /\ UNCHANGED <<vram, misread>>
  <2>1. g \in Gpus /\ g.mode = gp0.mode
    BY <1>2, <1>5, <1>7, <1>10
  <2>2. Framed(g)
    <3>1. CASE g.mode = "COMMAND"
      <4>1. g.loaded = 0 /\ g.count + g.left = CommandWords[g.op]
        BY <1>2, <1>5, <1>7, <1>10, <3>1
      <4> QED
        BY <3>1, <4>1 DEF Framed
    <3>2. CASE g.mode = "IMAGE_STORE"
      <4>1. g.rect \in GpuRects /\ g.op = "STORE" /\ g.left > 0
        BY <1>2, <1>3, <1>7, <1>10, <3>2 DEF Framed
      <4> QED
        BY <3>2, <4>1 DEF Framed
    <3> QED
      BY <1>1, <2>1, <3>1, <3>2
  <2>3. Pictured(g, vram)
    <3>1. g.mode = "IMAGE_STORE" => g.rect = gp0.rect
      BY <1>2, <1>7, <1>10
    <3> QED
      BY <1>1, <1>3, <2>1, <3>1 DEF Pictured
  <2> QED
    BY <1>3, <1>10, <2>1, <2>2, <2>3 DEF Gp0IInv
<1>11. CASE h.count < BufferWords /\ g.left = 0 /\ Execute(g)
  <2>1. g \in Gpus /\ g.left = 0 /\ g.mode = h.mode /\ g.op = h.op /\ g.loaded = h.loaded
    BY <1>7, <1>11
  <2>2. h.mode = "IMAGE_STORE" => h.op = "STORE"
    BY <1>2, <1>3 DEF Framed
  <2>3. Ready(g)
    BY <1>1, <1>2, <2>1, <2>2 DEF Ready
  <2> QED
    BY <1>3, <1>11, <2>3, ExecuteKeeps
<1> QED
  BY <1>4, <1>8, <1>9, <1>10, <1>11

LEMMA PolylineKeeps ==
  ASSUME Gp0IInv, NEW w \in GpuWords, PolylineWord(w)
  PROVE  Gp0IInv'
<1>1. gp0.mode = "POLYLINE" /\ misread' = FALSE
  BY DEF PolylineWord, Gp0IInv
<1>2. gp0 \in Gpus /\ gp0.left = 0 /\ gp0.poly > 0 /\ gp0.poly \in Gp0Polys /\ gp0.area \in Areas
  BY <1>1 DEF Gp0IInv, Framed, Gpus
<1>3. Quiet(vram)
  BY <1>1, PicturedIsQuiet DEF Gp0IInv
<1>4. CASE w = Terminator
  <2> DEFINE a == Idle(gp0)
             b == [a EXCEPT !.poly = 0]
             u == MarkArea(vram, gp0.area)
  <2>1. gp0' = b
    BY <1>1, <1>4 DEF PolylineWord
  <2>2. a \in Gpus /\ a.mode = "COMMAND" /\ a.left = 0 /\ a.loaded = 0
    BY <1>2, IdleIs
  <2> HIDE DEF a
  <2>3. b \in Gpus /\ b.mode = "COMMAND" /\ b.left = 0 /\ b.loaded = 0
    BY <2>2, Limits DEF Gpus
  <2> HIDE DEF b
  <2>4. Framed(b)
    BY <2>3 DEF Framed
  <2>5. Quiet(u) /\ \A px \in Scissor(gp0.area) : TileOf(px) \in u.tiles
    BY <1>2, <1>3, MarkSound DEF Quiet
  <2>6. vram' = vram \/ vram' = SetPixels(u, Scissor(gp0.area), Drawn)
    BY <1>1, <1>4 DEF PolylineWord
  <2> HIDE DEF u
  <2>7. Quiet(vram')
    BY <1>2, <1>3, <2>5, <2>6, DrawnIsQuiet
  <2> QED
    BY <1>1, <2>1, <2>3, <2>4, <2>7, QuietIsPictured DEF Gp0IInv
<1>5. CASE w # Terminator
  <2> DEFINE n == Lower(gp0.poly + 1, PolylineMax)
             b == [gp0 EXCEPT !.poly = n]
  <2>1. gp0' = b /\ vram' = vram
    BY <1>1, <1>5 DEF PolylineWord
  <2>2. n \in Gp0Polys /\ n > 0
    BY <1>2, Limits DEF Gp0Polys, Lower
  <2> HIDE DEF n
  <2>3. b \in Gpus /\ b.mode = "POLYLINE" /\ b.left = 0 /\ b.poly > 0
    BY <1>1, <1>2, <2>2 DEF Gpus
  <2> HIDE DEF b
  <2>4. Framed(b)
    BY <2>3 DEF Framed
  <2>5. Quiet(vram')
    BY <1>3, <2>1
  <2> QED
    BY <1>1, <2>1, <2>3, <2>4, <2>5, QuietIsPictured DEF Gp0IInv
<1> QED
  BY <1>4, <1>5

(* What a word of image data adds.                                         *)
LEMMA MoreReceived ==
  ASSUME NEW g, g.rect \in GpuRects, g.loaded \in Nat
  PROVE  /\ Received(g) \subseteq RectPixels(g.rect)
         /\ NextPixels(g) \subseteq RectPixels(g.rect)
         /\ \A h : h.rect = g.rect /\ h.loaded = g.loaded + 2
                     => Received(g) \cup NextPixels(g) \subseteq Received(h)
<1> DEFINE r == g.rect
           t == Total(r)
           n == g.loaded
<1>1. t \in Nat /\ n \in Nat /\ r \in GpuRects
  BY RectSizes
<1>2. Received(g) = {PixelAt(r, i) : i \in 0 .. Lower(n, t) - 1}
  BY DEF Received
<1>3. NextPixels(g) = {PixelAt(r, i) : i \in {k \in {n, n + 1} : k < t}}
  BY DEF NextPixels
<1>4. \A i \in Nat : i < t => PixelAt(r, i) \in RectPixels(r)
  BY <1>1, PixelInside
<1> HIDE DEF t, n, r
<1>5. Received(g) \subseteq RectPixels(r)
  <2>1. \A i \in 0 .. Lower(n, t) - 1 : i \in Nat /\ i < t
    BY <1>1 DEF Lower
  <2> QED
    BY <1>2, <1>4, <2>1
<1>6. NextPixels(g) \subseteq RectPixels(r)
  <2>1. \A i \in {k \in {n, n + 1} : k < t} : i \in Nat /\ i < t
    BY <1>1
  <2> QED
    BY <1>3, <1>4, <2>1
<1>7. ASSUME NEW h, h.rect = r, h.loaded = n + 2 PROVE Received(g) \cup NextPixels(g) \subseteq Received(h)
  <2>1. Received(h) = {PixelAt(r, i) : i \in 0 .. Lower(n + 2, t) - 1}
    BY <1>7 DEF Received, t
  <2>2. \A i \in 0 .. Lower(n, t) - 1 : i \in 0 .. Lower(n + 2, t) - 1
    BY <1>1 DEF Lower
  <2>3. \A i \in {k \in {n, n + 1} : k < t} : i \in 0 .. Lower(n + 2, t) - 1
    BY <1>1 DEF Lower
  <2> QED
    BY <1>2, <1>3, <2>1, <2>2, <2>3
<1> QED
  BY <1>5, <1>6, <1>7 DEF n, r

LEMMA ImageKeeps == ASSUME Gp0IInv, ImageWord PROVE Gp0IInv'
<1> DEFINE s == NextPixels(gp0)
           v == SetPixels(vram, s, Sent)
           a == [gp0 EXCEPT !.loaded = @ + 2]
           g == [a EXCEPT !.left = @ - 1]
<1>1. gp0.mode = "IMAGE_LOAD"
  BY DEF ImageWord
<1>2. /\ gp0 \in Gpus /\ gp0.rect \in GpuRects /\ gp0.loaded \in Nat /\ gp0.left \in Nat \ {0}
      /\ 2 * gp0.left = 2 * ImageWords(gp0.rect) - gp0.loaded /\ gp0.test \in BOOLEAN
      /\ ImageWords(gp0.rect) \in Nat
  BY <1>1, RectSizes DEF Gp0IInv, Framed, Gpus
<1>3. /\ gp0' = (IF g.left = 0 THEN Idle(g) ELSE g)
      /\ vram' = (IF g.left = 0 THEN Push(v, g.rect) ELSE v)
      /\ misread' = (misread \/ (gp0.test /\ \E p \in s : vram.pix[p] = Drawn))
  BY DEF ImageWord
<1>4. /\ Received(gp0) \subseteq RectPixels(gp0.rect) /\ s \subseteq RectPixels(gp0.rect)
      /\ RectPixels(gp0.rect) \subseteq Pixels
  BY <1>2, MoreReceived, RectSizes, PixelsAreInside
<1>5. Received(gp0) \cup s \subseteq Received(g)
  <2>1. g.rect = gp0.rect /\ g.loaded = gp0.loaded + 2
    BY <1>2 DEF Gpus
  <2> HIDE DEF g
  <2> QED
    BY <1>2, <2>1, MoreReceived
<1>6. misread' = FALSE
  BY <1>1, <1>2, <1>3, <1>4 DEF Gp0IInv, Pictured
<1>7. Sound(v) /\ \A p \in Pixels : v.pix[p] = IF p \in s THEN Sent ELSE vram.pix[p]
  <2>1. Sound(vram)
    BY DEF Gp0IInv, Pictured
  <2>2. Sent \in {Same, Sent} /\ Sent \in Copies /\ vram \in VramState
    BY <2>1 DEF Copies, Sound
  <2> HIDE DEF s
  <2> QED
    BY <2>1, <2>2, SettleSound, SetPixelsIs
<1> HIDE DEF v, s
<1>8. \A p \in Pixels : v.pix[p] = Sent => p \in Received(g)
  BY <1>1, <1>5, <1>7 DEF Gp0IInv, Pictured
<1>9. /\ a \in Gpus /\ a.mode = "IMAGE_LOAD" /\ a.rect = gp0.rect /\ a.left = gp0.left
      /\ a.loaded = gp0.loaded + 2 /\ a.test = gp0.test
  <2> DEFINE n == gp0.loaded + 2
  <2>1. n \in Nat /\ a = [gp0 EXCEPT !.loaded = n]
    BY <1>2
  <2> HIDE DEF n, a
  <2>2. /\ a \in Gpus /\ a.mode = "IMAGE_LOAD" /\ a.rect = gp0.rect /\ a.left = gp0.left
        /\ a.loaded = n /\ a.test = gp0.test
    BY <1>1, <1>2, <2>1 DEF Gpus
  <2> QED
    BY <2>2 DEF n
<1> HIDE DEF a
<1>10. /\ g \in Gpus /\ g.mode = "IMAGE_LOAD" /\ g.rect = gp0.rect /\ g.left = gp0.left - 1
       /\ g.loaded = gp0.loaded + 2 /\ g.test = gp0.test
  <2> DEFINE n == a.left - 1
  <2>1. n \in Nat /\ g = [a EXCEPT !.left = n] /\ n = gp0.left - 1
    BY <1>2, <1>9
  <2> HIDE DEF n, g
  <2>2. /\ g \in Gpus /\ g.mode = "IMAGE_LOAD" /\ g.rect = a.rect /\ g.left = n
        /\ g.loaded = a.loaded /\ g.test = a.test
    BY <1>9, <2>1 DEF Gpus
  <2> QED
    BY <1>9, <2>1, <2>2
<1> HIDE DEF g
<1>11. CASE g.left = 0
  <2> DEFINE u == Push(v, g.rect)
  <2>1. Sound(u) /\ \A p \in Pixels : u.pix[p] = IF p \in RectPixels(gp0.rect) THEN Same ELSE v.pix[p]
    <3>1. gp0.rect \in Rects
      BY <1>2, RectSizes
    <3> QED
      BY <1>7, <1>10, <3>1, PushSound
  <2> HIDE DEF u
  <2>2. \A p \in Pixels : u.pix[p] # Sent
    <3>1. \A p \in Pixels : v.pix[p] = Sent => p \in RectPixels(gp0.rect)
      BY <1>1, <1>4, <1>7 DEF Gp0IInv, Pictured
    <3> QED
      BY <2>1, <3>1 DEF Same, Sent
  <2>3. vram' = u /\ gp0' = Idle(g)
    BY <1>3, <1>11 DEF u
  <2>4. gp0' \in Gpus /\ gp0'.mode = "COMMAND" /\ Framed(gp0')
    BY <1>10, <1>11, <2>3, IdleIs, FinishedFramed
  <2>5. Quiet(vram')
    BY <2>1, <2>2, <2>3 DEF Quiet
  <2> QED
    BY <1>6, <2>4, <2>5, QuietIsPictured DEF Gp0IInv
<1>12. CASE g.left # 0
  <2>1. gp0' = g /\ vram' = v
    BY <1>3, <1>12
  <2>2. Framed(g)
    <3>1. 2 * g.left = 2 * ImageWords(g.rect) - g.loaded
      <4> DEFINE n == ImageWords(gp0.rect)
      <4>1. n \in Nat /\ 2 * gp0.left = 2 * n - gp0.loaded
        BY <1>2
      <4>2. ImageWords(g.rect) = n
        BY <1>10
      <4> HIDE DEF n
      <4> QED
        BY <1>2, <1>10, <4>1, <4>2
    <3>2. g.left > 0
      BY <1>2, <1>10, <1>12
    <3> QED
      BY <1>2, <1>10, <3>1, <3>2 DEF Framed
  <2>3. Pictured(g, v)
    <3>1. g.test => \A p \in RectPixels(gp0.rect) : v.pix[p] # Drawn
      BY <1>1, <1>4, <1>7, <1>10 DEF Gp0IInv, Pictured, Sent, Drawn
    <3> QED
      BY <1>7, <1>8, <1>10, <3>1 DEF Pictured
  <2> QED
    BY <1>6, <1>10, <2>1, <2>2, <2>3 DEF Gp0IInv
<1> QED
  BY <1>11, <1>12

LEMMA ReadKeeps == ASSUME Gp0IInv, ReadImage PROVE Gp0IInv'
<1> DEFINE n == Lower(gp0.loaded + 2, Total(gp0.rect))
           a == [gp0 EXCEPT !.loaded = n]
           g == [a EXCEPT !.left = @ - 1]
<1>1. gp0.mode = "IMAGE_STORE" /\ gp0.left > 0 /\ vram' = vram
  BY DEF ReadImage
<1>2. /\ gp0 \in Gpus /\ gp0.rect \in GpuRects /\ gp0.loaded \in Nat /\ gp0.left \in Nat
      /\ gp0.op = "STORE" /\ Pictured(gp0, vram) /\ misread = FALSE
  BY <1>1 DEF Gp0IInv, Framed, Gpus
<1>3. gp0' = (IF g.left = 0 THEN Idle(g) ELSE g)
  BY DEF ReadImage
<1>4. misread' = FALSE
  <2>1. NextPixels(gp0) \subseteq RectPixels(gp0.rect)
    BY <1>2, MoreReceived
  <2>2. ~Stale(vram, NextPixels(gp0))
    BY <1>1, <1>2, <2>1 DEF Pictured, Stale
  <2>3. misread' = (misread \/ Stale(vram, NextPixels(gp0)))
    BY DEF ReadImage
  <2> QED
    BY <1>2, <2>2, <2>3
<1>5. n \in Nat
  <2>1. Total(gp0.rect) \in Nat
    BY <1>2, RectSizes
  <2> QED
    BY <1>2, <2>1 DEF Lower
<1> HIDE DEF n
<1>6. a \in Gpus /\ a.mode = "IMAGE_STORE" /\ a.rect = gp0.rect /\ a.left = gp0.left /\ a.op = "STORE"
  BY <1>1, <1>2, <1>5 DEF Gpus
<1> HIDE DEF a
<1>7. g \in Gpus /\ g.mode = "IMAGE_STORE" /\ g.rect = gp0.rect /\ g.left = gp0.left - 1 /\ g.op = "STORE"
  <2> DEFINE k == a.left - 1
  <2>1. k \in Nat /\ g = [a EXCEPT !.left = k] /\ k = gp0.left - 1
    BY <1>1, <1>2, <1>6
  <2> HIDE DEF k, g
  <2>2. g \in Gpus /\ g.mode = a.mode /\ g.rect = a.rect /\ g.left = k /\ g.op = a.op
    BY <1>6, <2>1 DEF Gpus
  <2> QED
    BY <1>6, <2>1, <2>2
<1> HIDE DEF g
<1>8. CASE g.left = 0
  <2>1. gp0' \in Gpus /\ gp0'.mode = "COMMAND" /\ Framed(gp0')
    BY <1>3, <1>7, <1>8, IdleIs, FinishedFramed
  <2>2. Quiet(vram')
    BY <1>1, <1>2, PicturedIsQuiet
  <2> QED
    BY <1>4, <2>1, <2>2, QuietIsPictured DEF Gp0IInv
<1>9. CASE g.left # 0
  <2>1. gp0' = g
    BY <1>3, <1>9
  <2>2. Framed(g)
    BY <1>1, <1>2, <1>7, <1>9 DEF Framed
  <2>3. Pictured(g, vram)
    BY <1>1, <1>2, <1>7 DEF Pictured
  <2> QED
    BY <1>1, <1>4, <1>7, <2>1, <2>2, <2>3 DEF Gp0IInv
<1> QED
  BY <1>8, <1>9

LEMMA ResetGp0Is ==
  /\ ResetGp0 \in Gpus /\ Framed(ResetGp0) /\ ResetGp0.mode = "COMMAND"
<1>1. FullArea \in Areas
  BY VramSizes DEF FullArea, Areas
<1>2. ResetGp0 \in Gpus
  BY <1>1, Limits, Opcodes DEF ResetGp0, Gpus, Gp0Modes
<1>3. ResetGp0.mode = "COMMAND" /\ ResetGp0.left = 0 /\ ResetGp0.loaded = 0
  BY DEF ResetGp0
<1> QED
  BY <1>2, <1>3 DEF Framed

(* Bringing everything back, but what only the CPU copy has.               *)
LEMMA CaptureKeeps == ASSUME Gp0IInv, CaptureVram PROVE Gp0IInv'
<1> DEFINE f == [p \in Pixels |-> IF vram.pix[p] = Sent THEN Sent ELSE Same]
<1>1. vram' = [pix |-> f, tiles |-> {}, area |-> NoArea] /\ gp0' = gp0 /\ misread' = misread
  BY DEF CaptureVram
<1>2. f \in [Pixels -> {Same, Drawn, Sent}]
      /\ \A p \in Pixels : f[p] = IF vram.pix[p] = Sent THEN Sent ELSE Same
  OBVIOUS
<1> HIDE DEF f
<1>3. vram' \in VramState /\ vram'.pix = f /\ vram'.tiles = {} /\ vram'.area = NoArea
  BY <1>1, <1>2 DEF VramState
<1>4. Sound(vram')
  <2>1. \A p \in Pixels : vram'.pix[p] # Drawn
    BY <1>2, <1>3 DEF Same, Sent, Drawn
  <2> QED
    BY <1>3, <2>1 DEF Sound, UnmarkedTilesAgree
<1>5. gp0.mode \in {"IMAGE_LOAD", "IMAGE_STORE"} => RectPixels(gp0.rect) \subseteq Pixels
  BY RectSizes, PixelsAreInside DEF Gp0IInv, Framed
<1>6. Pictured(gp0, vram')
  <2>1. \A p \in Pixels : vram'.pix[p] = Sent => gp0.mode = "IMAGE_LOAD" /\ p \in Received(gp0)
    BY <1>2, <1>3 DEF Gp0IInv, Pictured, Same, Sent
  <2>2. gp0.mode = "IMAGE_STORE" => \A p \in RectPixels(gp0.rect) : vram'.pix[p] = Same
    BY <1>2, <1>3, <1>5 DEF Gp0IInv, Pictured, Same, Sent
  <2>3. gp0.mode = "IMAGE_LOAD" /\ gp0.test => \A p \in RectPixels(gp0.rect) : vram'.pix[p] # Drawn
    BY <1>2, <1>3, <1>5 DEF Same, Sent, Drawn
  <2> QED
    BY <1>4, <2>1, <2>2, <2>3 DEF Pictured
<1> QED
  BY <1>1, <1>6 DEF Gp0IInv
-----------------------------------------------------------------------------
LEMMA InitGp0 == Gp0Init => Gp0IInv
<1> SUFFICES ASSUME Gp0Init PROVE Gp0IInv
  OBVIOUS
<1>1. gp0 = ResetGp0 /\ vram = BlankVram /\ misread = FALSE
  BY DEF Gp0Init
<1>2. vram \in VramState /\ vram.area = NoArea /\ \A p \in Pixels : vram.pix[p] = Same
  BY <1>1 DEF BlankVram, VramState
<1>3. Quiet(vram)
  BY <1>2 DEF Quiet, Sound, UnmarkedTilesAgree, Same, Drawn, Sent
<1> QED
  BY <1>1, <1>3, ResetGp0Is, QuietIsPictured DEF Gp0IInv

LEMMA NextGp0 == Gp0IInv /\ [Gp0Next]_gp0_vars => Gp0IInv'
<1> SUFFICES ASSUME Gp0IInv, [Gp0Next]_gp0_vars PROVE Gp0IInv'
  OBVIOUS
<1>1. ASSUME NEW w \in GpuWords, PolylineWord(w) PROVE Gp0IInv'
  BY <1>1, PolylineKeeps
<1>2. ASSUME NEW w \in GpuWords, CommandWord(w) PROVE Gp0IInv'
  BY <1>2, CommandKeeps
<1>3. CASE ImageWord
  BY <1>3, ImageKeeps
<1>4. CASE ReadImage
  BY <1>4, ReadKeeps
<1>5. CASE ResetBuffer
  <2> DEFINE a == Finished(gp0)
             b == [a EXCEPT !.left = 0]
  <2>1. Quiet(vram') /\ gp0' = b /\ misread' = FALSE
    BY <1>5, FlushKeeps DEF ResetBuffer, Gp0IInv
  <2>2. a \in Gpus /\ a.mode = "COMMAND" /\ a.loaded = 0
    BY IdleIs DEF Gp0IInv
  <2> HIDE DEF a
  <2>3. b \in Gpus /\ b.mode = "COMMAND" /\ b.loaded = 0 /\ b.left = 0
    BY <2>2 DEF Gpus
  <2> HIDE DEF b
  <2>4. Framed(b)
    BY <2>3 DEF Framed
  <2> QED
    BY <2>1, <2>3, <2>4, QuietIsPictured DEF Gp0IInv
<1>6. CASE SoftReset0
  <2>1. Quiet(vram') /\ gp0' = ResetGp0 /\ misread' = FALSE
    BY <1>6, FlushKeeps DEF SoftReset0, Gp0IInv
  <2> QED
    BY <2>1, ResetGp0Is, QuietIsPictured DEF Gp0IInv
<1>7. CASE CaptureVram
  BY <1>7, CaptureKeeps
<1>8. CASE Exited
  BY <1>8 DEF Exited, gp0_vars, Gp0IInv
<1>9. CASE UNCHANGED gp0_vars
  BY <1>9 DEF gp0_vars, Gp0IInv
<1> QED
  BY <1>1, <1>2, <1>3, <1>4, <1>5, <1>6, <1>7, <1>8, <1>9 DEF Gp0Next

LEMMA SpecGp0 == Gp0Spec => []Gp0IInv
<1>1. Gp0Init => Gp0IInv
  BY InitGp0
<1>2. Gp0IInv /\ [Gp0Next]_gp0_vars => Gp0IInv'
  BY NextGp0
<1> QED
  BY <1>1, <1>2, PTL DEF Gp0Spec

(* gpu_gp0_handle_word never takes a word of one command for another's:    *)
(* the words owed are those the command, or the image, still lacks.        *)
THEOREM WordsAreFramed == Gp0Spec => [](Gp0TypeOK /\ WordsAreAccounted)
<1>1. Gp0IInv => Gp0TypeOK /\ WordsAreAccounted
  BY GpusAre DEF Gp0IInv, Gp0TypeOK, WordsAreAccounted, Framed, Pictured, Sound
<1> QED
  BY <1>1, SpecGp0, PTL

(* vram.c's tile map: the two copies of video memory differ only where the *)
(* map or the upload under way says, and no copy, masked upload or GPUREAD *)
(* uses a pixel whose newer value is in the renderer.                      *)
THEOREM TransfersAreReal == Gp0Spec => []PixelsAreReal
<1>1. Gp0IInv => PixelsAreReal
  BY DEF Gp0IInv, PixelsAreReal, CopiesAgree, TransfersReadTheRealPixels, Pictured, Sound, Received
<1> QED
  BY <1>1, SpecGp0, PTL
=============================================================================
