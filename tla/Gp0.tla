---------------------------------- MODULE Gp0 ----------------------------------
(***************************************************************************)
(* The command processor of src/gpu/gpu_commands.c: words written to GP0   *)
(* are framed into commands, polylines and image data, and the commands    *)
(* that move pixels between the CPU copy of video memory and the renderer  *)
(* (fill, copy, image load and image store) keep the two in step (module   *)
(* Vram).  GPUREAD, the two GP1 commands that cut a transfer short, and    *)
(* the readback a save state makes are here too.                            *)
(*                                                                         *)
(* A word is the class of command it would start; as a parameter or as     *)
(* image data it only counts.  The rectangle or area a command carries is  *)
(* chosen when its last word arrives.  gp0_fifo is drained by every write,  *)
(* so it is not kept.  The renderer always answers a readback.             *)
(***************************************************************************)
EXTENDS Vram

CONSTANTS
  GpuWords,        \* the words the guest sends
  GpuRects,        \* the rectangles its transfers name
  DrawAreas,       \* the corners E3h and E4h set
  BufferWords,     \* MAX_GPU_COMMAND_WORDS, 16
  PolylineMax      \* 256 entries of polyline_buffer

ASSUME Gp0Constants ==
  /\ GpuRects \subseteq [x : 0 .. VramWidth - 1, y : 0 .. VramHeight - 1,
                         w : 1 .. VramWidth, h : 1 .. VramHeight]
  /\ DrawAreas \subseteq Areas
  /\ BufferWords \in Nat /\ PolylineMax \in Nat \ {0}

(* gp0_table, a row for each kind of handler; UNKNOWN has no handler.       *)
CommandWords ==
  [NOP |-> 1, FILL |-> 3, IRQ |-> 1, TRI |-> 4, QUAD |-> 5, TEXQUAD |-> 9, GOURAUDQUAD |-> 12,
   LINE |-> 3, POLYLINE |-> 1, RECT |-> 2, COPY |-> 4, LOAD |-> 3, STORE |-> 3,
   E3 |-> 1, E4 |-> 1, E6 |-> 1, UNKNOWN |-> 0]

Drawing    == {"TRI", "QUAD", "TEXQUAD", "GOURAUDQUAD", "LINE", "RECT"}
Rasterises == Drawing \cup {"POLYLINE"}                     \* 20h to 7Fh

Terminator == "5000_5000"

(* As a command the terminator is 50h, a shaded line (here any line).       *)
CommandOf(w) == IF w = Terminator THEN "LINE" ELSE w

ASSUME Gp0Words == \A w \in GpuWords : CommandOf(w) \in DOMAIN CommandWords

FullArea == [l |-> 0, t |-> 0, r |-> VramWidth - 1, b |-> VramHeight - 1]
NoRect   == [x |-> 0, y |-> 0, w |-> 0, h |-> 0]

VARIABLES gp0,       \* the command processor: a record of its Gpu fields
          vram,      \* the two copies of video memory
          misread    \* history: a transfer used a pixel whose other copy was newer

gp0_vars == <<gp0, vram, misread>>

Gp0State ==
  [mode : {"COMMAND", "POLYLINE", "IMAGE_LOAD", "IMAGE_STORE", "EXITED"},
   op : DOMAIN CommandWords, count : 0 .. BufferWords,
   left : Nat,                                   \* gp0_words_remaining
   poly : 0 .. PolylineMax, rect : GpuRects \cup {NoRect},
   loaded : Nat,                                 \* vram_load_count
   area : Areas, test : BOOLEAN]                 \* preserve_masked_pixels

Gp0TypeOK == gp0 \in Gp0State /\ vram \in VramState /\ misread \in BOOLEAN

ResetGp0 == [mode |-> "COMMAND", op |-> "UNKNOWN", count |-> 0, left |-> 0, poly |-> 0,
             rect |-> NoRect, loaded |-> 0, area |-> FullArea, test |-> FALSE]

Gp0Init == gp0 = ResetGp0 /\ vram = BlankVram /\ misread = FALSE
-----------------------------------------------------------------------------
Total(r)      == r.w * r.h
ImageWords(r) == (Total(r) + 1) \div 2

(* The i-th pixel of a transfer, wrapping at both edges.                    *)
PixelAt(r, i) == <<(r.x + (i % r.w)) % VramWidth, (r.y + (i \div r.w)) % VramHeight>>

NextPixels(g) ==
  {PixelAt(g.rect, i) : i \in {k \in {g.loaded, g.loaded + 1} : k < Total(g.rect)}}

Stale(v, s) == \E p \in s : v.pix[p] # Same

(* The area rounding of gp0_fill_rectangle.                                 *)
FillRect(r) ==
  [r EXCEPT !.x = (@ \div TileSize) * TileSize,
            !.w = ((@ + TileSize - 1) \div TileSize) * TileSize]

(* A command is over: what nothing reads again is dropped.                  *)
Idle(g)     == [g EXCEPT !.mode = "COMMAND", !.op = "UNKNOWN", !.rect = NoRect, !.loaded = 0]
Finished(g) == [Idle(g) EXCEPT !.count = 0]

(* gpu_note_raster, called for the opcodes that draw before their handler.  *)
NoteRaster(g, v) == IF g.op \in Rasterises THEN MarkArea(v, g.area) ELSE v

(* A primitive may change any pixel of its area, so all of them count.      *)
Draw(h, v) == /\ vram' = SetPixels(v, Scissor(h.area), Drawn)
              /\ gp0' = Finished(h)
              /\ UNCHANGED misread

(* gp0_fill_rectangle: the CPU copy, then the renderer.                     *)
Fill(h, v) ==
  /\ \E r \in GpuRects :
       LET f == FillRect(r) IN vram' = Push(SetPixels(v, RectPixels(f), Sent), f)
  /\ gp0' = Finished(h)
  /\ UNCHANGED misread

(* gp0_copy_rectangle: with the mask test on, the destination is read too.  *)
Copy(h, v) ==
  /\ \E r \in GpuRects, d \in GpuRects :
       LET dst  == [r EXCEPT !.x = d.x, !.y = d.y]
           src  == Pull(v, r)
           real == IF h.test THEN Pull(src, dst) ELSE src
       IN /\ misread' = (misread \/ Stale(real, RectPixels(r) \cup
                                            (IF h.test THEN RectPixels(dst) ELSE {})))
          /\ vram' = Push(SetPixels(real, RectPixels(dst), Sent), dst)
  /\ gp0' = Finished(h)

ImageLoad_NoPull(h, v) ==
  /\ \E r \in GpuRects :
       /\ vram' = v
       /\ gp0' = [h EXCEPT !.mode = "IMAGE_LOAD", !.rect = r, !.left = ImageWords(r)]
  /\ UNCHANGED misread

(* gp0_image_load: the mask test needs the destination's real pixels.       *)
ImageLoad(h, v) ==
  /\ \E r \in GpuRects :
       /\ vram' = IF h.test THEN Pull(v, r) ELSE v
       /\ gp0' = [h EXCEPT !.mode = "IMAGE_LOAD", !.rect = r, !.left = ImageWords(r)]
  /\ UNCHANGED misread

(* gp0_image_store.                                                         *)
ImageStore(h, v) ==
  /\ \E r \in GpuRects :
       /\ vram' = Pull(v, r)
       /\ gp0' = [h EXCEPT !.mode = "IMAGE_STORE", !.rect = r, !.left = ImageWords(r), !.loaded = 0]
  /\ UNCHANGED misread

(* E3h, E4h and E6h, and the polyline initiators.                           *)
SetAttribute(h, v) ==
  /\ \/ /\ h.op = "E3"
        /\ \E a \in DrawAreas : gp0' = Finished([h EXCEPT !.area.l = a.l, !.area.t = a.t])
     \/ /\ h.op = "E4"
        /\ \E a \in DrawAreas : gp0' = Finished([h EXCEPT !.area.r = a.r, !.area.b = a.b])
     \/ h.op = "E6" /\ \E b \in BOOLEAN : gp0' = Finished([h EXCEPT !.test = b])
     \/ h.op = "POLYLINE" /\ gp0' = [h EXCEPT !.mode = "POLYLINE", !.poly = 1]
     \/ h.op \in {"NOP", "IRQ"} /\ gp0' = Finished(h)
  /\ vram' = v
  /\ UNCHANGED misread

(* The handler of gp0_table runs on the command's last word.                *)
Execute(h) ==
  LET v == NoteRaster(h, vram)
  IN \/ h.op \in Drawing /\ Draw(h, v)
     \/ h.op = "FILL"    /\ Fill(h, v)
     \/ h.op = "COPY"    /\ Copy(h, v)
     \/ h.op = "LOAD"    /\ ImageLoad(h, v)
     \/ h.op = "STORE"   /\ ImageStore(h, v)
     \/ SetAttribute(h, v)
-----------------------------------------------------------------------------
(* gpu_gp0_handle_word, polyline accumulation.                              *)
PolylineWord(w) ==
  /\ gp0.mode = "POLYLINE"
  /\ IF w = Terminator
     THEN /\ gp0' = [Idle(gp0) EXCEPT !.poly = 0]
          /\ IF gp0.poly < 3 THEN vram' = vram            \* flush_polyline drops it
             ELSE vram' = SetPixels(MarkArea(vram, gp0.area), Scissor(gp0.area), Drawn)
     ELSE /\ gp0' = [gp0 EXCEPT !.poly = Lower(@ + 1, PolylineMax)]
          /\ UNCHANGED vram
  /\ UNCHANGED misread

(* Image data: two pixels a word; the last word uploads the rectangle.  A   *)
(* pixel the mask test keeps may count as sent: both copies hold it.        *)
ImageWord ==
  /\ gp0.mode = "IMAGE_LOAD"
  /\ LET v == SetPixels(vram, NextPixels(gp0), Sent)
         g == [gp0 EXCEPT !.loaded = @ + 2, !.left = @ - 1]
     IN /\ gp0' = IF g.left = 0 THEN Idle(g) ELSE g
        /\ vram' = IF g.left = 0 THEN Push(v, g.rect) ELSE v
  /\ misread' = (misread \/ (gp0.test /\ \E p \in NextPixels(gp0) : vram.pix[p] = Drawn))

StartCommand_KeepsBuffer(w) ==
  IF gp0.left > 0 THEN gp0
  ELSE [gp0 EXCEPT !.op = CommandOf(w), !.left = CommandWords[CommandOf(w)]]

(* A new command is decoded only when no word of the last one is owed.     *)
StartCommand(w) ==
  IF gp0.left > 0 THEN gp0
  ELSE [gp0 EXCEPT !.op = CommandOf(w), !.count = 0, !.left = CommandWords[CommandOf(w)]]

(* gpu_gp0_handle_word in any other mode; a full buffer ends the process.   *)
CommandWord(w) ==
  LET h == StartCommand(w)
      g == [h EXCEPT !.count = @ + 1, !.left = @ - 1]
  IN /\ gp0.mode \in {"COMMAND", "IMAGE_STORE"}
     /\ \/ /\ h.count >= BufferWords
           /\ gp0' = [gp0 EXCEPT !.mode = "EXITED"]
           /\ UNCHANGED <<vram, misread>>
        \/ /\ h.count < BufferWords /\ h.left = 0         \* no handler
           /\ gp0' = [h EXCEPT !.count = 1]
           /\ UNCHANGED <<vram, misread>>
        \/ /\ h.count < BufferWords /\ g.left > 0
           /\ gp0' = g
           /\ UNCHANGED <<vram, misread>>
        \/ h.count < BufferWords /\ g.left = 0 /\ Execute(g)

(* gpu_read_data: two pixels a word, straight from the CPU copy.            *)
ReadImage ==
  /\ gp0.mode = "IMAGE_STORE" /\ gp0.left > 0
  /\ LET g == [gp0 EXCEPT !.loaded = Lower(@ + 2, Total(gp0.rect)), !.left = @ - 1]
     IN gp0' = IF g.left = 0 THEN Idle(g) ELSE g
  /\ misread' = (misread \/ Stale(vram, NextPixels(gp0)))
  /\ UNCHANGED vram

FlushPartial_Nothing(g, v) == v

(* gpu_flush_partial_upload: the rows received, then part of the last one.  *)
FlushPartial(g, v) ==
  LET got  == Lower(g.loaded, Total(g.rect))
      rows == [g.rect EXCEPT !.h = got \div g.rect.w]
      rest == [g.rect EXCEPT !.y = (@ + got \div g.rect.w) % VramHeight,
                             !.w = got % g.rect.w, !.h = 1]
  IN IF g.mode # "IMAGE_LOAD" THEN v ELSE Push(Push(v, rows), rest)

(* GP1(01h) drops the command under way, GP1(00h) resets the state as well. *)
ResetBuffer ==
  /\ gp0.mode # "EXITED"
  /\ vram' = FlushPartial(gp0, vram)
  /\ gp0' = [Finished(gp0) EXCEPT !.left = 0]
  /\ UNCHANGED misread

SoftReset0 ==
  /\ gp0.mode # "EXITED"
  /\ vram' = FlushPartial(gp0, vram)
  /\ gp0' = ResetGp0
  /\ UNCHANGED misread

(* savestate_save brings all of video memory back, around the pixels of an *)
(* upload under way, which only the CPU copy has.                           *)
CaptureVram ==
  /\ gp0.mode # "EXITED"
  /\ vram' = [pix |-> [p \in Pixels |-> IF vram.pix[p] = Sent THEN Sent ELSE Same],
              tiles |-> {}, area |-> NoArea]
  /\ UNCHANGED <<gp0, misread>>

(* exit() in gpu_push_cmd_word.                                             *)
Exited == gp0.mode = "EXITED" /\ UNCHANGED gp0_vars

Gp0Next ==
  \/ \E w \in GpuWords : PolylineWord(w) \/ CommandWord(w)
  \/ ImageWord
  \/ ReadImage
  \/ ResetBuffer
  \/ SoftReset0
  \/ CaptureVram
  \/ Exited

Gp0Spec == Gp0Init /\ [][Gp0Next]_gp0_vars
-----------------------------------------------------------------------------
(* A pixel only the renderer has lies in a tile marked for readback, and a *)
(* pixel only the CPU copy has belongs to an upload still under way: at any *)
(* other time the two copies hold the same picture, or the map says where  *)
(* they may not.                                                            *)
CopiesAgree ==
  /\ UnmarkedTilesAgree(vram)
  /\ \A p \in Pixels : vram.pix[p] = Sent =>
       gp0.mode = "IMAGE_LOAD" /\ p \in {PixelAt(gp0.rect, i) :
                                            i \in 0 .. Lower(gp0.loaded, Total(gp0.rect)) - 1}

(* No copy, masked upload or GPUREAD works from a pixel whose newer value   *)
(* is in the renderer.                                                      *)
TransfersReadTheRealPixels == ~misread

(* Framing: a command under way has exactly the words it still lacks owed, *)
(* and an upload the words of the pixels it has not received, so no word of *)
(* one command is ever taken for the start of another.                      *)
WordsAreAccounted ==
  /\ gp0.mode = "COMMAND" /\ gp0.left > 0 => gp0.count + gp0.left = CommandWords[gp0.op]
  /\ gp0.mode = "IMAGE_LOAD" => 2 * gp0.left = 2 * ImageWords(gp0.rect) - gp0.loaded /\ gp0.left > 0
  /\ gp0.mode = "POLYLINE" => gp0.left = 0 /\ gp0.poly > 0

(* The two copies of VRAM differ only where the map says, and nothing the  *)
(* guest transfers is taken from the stale one.                            *)
PixelsAreReal == CopiesAgree /\ TransfersReadTheRealPixels
================================================================================
