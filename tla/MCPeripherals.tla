---------------------------- MODULE MCPeripherals ----------------------------
(***************************************************************************)
(* The devices on the bus and what they leave on disk, for TLC.  They do   *)
(* not share state, so one instance checks them side by side: subject is   *)
(* the device a behaviour is about, and the others rest in their initial   *)
(* states.  What the devices share, the interrupt controller, is a subject *)
(* too, with one line for each kind of device.                             *)
(***************************************************************************)
EXTENDS IrqDevices, Sio, Pad, MemoryCard, Mdec, Gp0, DrawState, Crtc, SaveState

VARIABLE subject

peripheral_vars ==
  <<subject, vars, sio_vars, pad_vars, card_vars,
    mdec_vars, gp0_vars, draw_vars, crtc, save_vars>>

(* JOY_CTRL: bus off, a port selected, and a port without transmission.    *)
Ctrl(select, txen, slot) == [select |-> select, txen |-> txen, slot |-> slot]
GuestCtrl == {Ctrl(FALSE, FALSE, 1), Ctrl(TRUE, TRUE, 1), Ctrl(TRUE, TRUE, 2),
              Ctrl(TRUE, FALSE, 1)}

(* MDEC words: decodes of one and two parameter words, tables, and data in *)
(* which a block ends, goes on, or is padding.                             *)
GuestMdec == {<<"1", "COLOR">>, <<"2", "MONO">>, <<"2", "COLOR">>, <<"1", "QT">>, <<"0", "SCALE">>,
              <<"MID", "PAD">>, <<"PAD", "PAD">>, <<"MID", "MID">>}
DepthWords == [MONO |-> 1, COLOR |-> 2]

(* A square inside VRAM, and a row that wraps around its right edge.       *)
Rect(x, y, w, h) == [x |-> x, y |-> y, w |-> w, h |-> h]
GuestRects == {Rect(0, 0, 2, 2), Rect(3, 1, 3, 1)}
GuestAreas == {[l |-> 0, t |-> 0, r |-> 3, b |-> 1], [l |-> 2, t |-> 1, r |-> 2, b |-> 2]}
GuestWords == {"RECT", "FILL", "POLYLINE", "COPY", "LOAD", "STORE", "E3", "E4", "E6", "UNKNOWN",
               Terminator}

(* Display: the whole range and an empty one, few lines, and two modes.    *)
Video(hres, pal, tall, interlaced) ==
  [hres |-> hres, pal |-> pal, tall |-> tall, interlaced |-> interlaced]
GuestRanges == {<<0, 4095>>, <<600, 601>>}
GuestLines  == {<<100, 108>>}
GuestVideo == {Video(640, FALSE, TRUE, TRUE), Video(368, TRUE, FALSE, FALSE)}
-----------------------------------------------------------------------------
(* A device that is not the subject starts in one of its initial states.   *)
Fixed(p, choice) == subject = p \/ choice

PeripheralsInit ==
  /\ subject \in {"irq", "sio", "pad", "card", "mdec", "gp0", "draw", "crtc", "save"}
  /\ Init
  /\ SioInit    /\ Fixed("sio", \A k \in Slots : sio.cards[k].present)
  /\ PadInit
  /\ CardInit   /\ Fixed("card", disk.file = "ABSENT")
  /\ MdecInit
  /\ Gp0Init
  /\ DrawInit
  /\ CrtcInit
  /\ SaveInit   /\ Fixed("save", drive.disc = "NONE" /\ file.build = "THIS" /\ file.disc = "NONE"
                                   /\ file.vblank /\ file.length = 15)

Others(p) ==
  /\ UNCHANGED subject
  /\ IF p = "irq"    THEN TRUE ELSE UNCHANGED vars
  /\ IF p = "sio"    THEN TRUE ELSE UNCHANGED sio_vars
  /\ IF p = "pad"    THEN TRUE ELSE UNCHANGED pad_vars
  /\ IF p = "card"   THEN TRUE ELSE UNCHANGED card_vars
  /\ IF p = "mdec"   THEN TRUE ELSE UNCHANGED mdec_vars
  /\ IF p = "gp0"    THEN TRUE ELSE UNCHANGED gp0_vars
  /\ IF p = "draw"   THEN TRUE ELSE UNCHANGED draw_vars
  /\ IF p = "crtc"   THEN TRUE ELSE UNCHANGED crtc
  /\ IF p = "save"   THEN TRUE ELSE UNCHANGED save_vars

PeripheralsNext ==
  \/ subject = "irq"    /\ Next      /\ Others("irq")
  \/ subject = "sio"    /\ SioNext    /\ Others("sio")
  \/ subject = "pad"    /\ PadNext    /\ Others("pad")
  \/ subject = "card"   /\ CardNext   /\ Others("card")
  \/ subject = "mdec"   /\ MdecNext   /\ Others("mdec")
  \/ subject = "gp0"    /\ Gp0Next    /\ Others("gp0")
  \/ subject = "draw"   /\ DrawNext   /\ Others("draw")
  \/ subject = "crtc"   /\ CrtcNext   /\ Others("crtc")
  \/ subject = "save"   /\ SaveNext   /\ Others("save")

PeripheralsSpec == PeripheralsInit /\ [][PeripheralsNext]_peripheral_vars
-----------------------------------------------------------------------------
(* The state of every device keeps its type.                               *)
TypesOK ==
  /\ TypeOK /\ SioTypeOK /\ PadTypeOK /\ CardTypeOK
  /\ MdecTypeOK /\ Gp0TypeOK /\ DrawTypeOK /\ CrtcTypeOK /\ SaveTypeOK
=============================================================================
