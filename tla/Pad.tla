--------------------------------- MODULE Pad ---------------------------------
(***************************************************************************)
(* The controller of src/core/sio.c as the console sees it: one byte in,   *)
(* one byte and an acknowledge out (sio_controller_transfer), with the     *)
(* analog and configuration modes, the watchdog and the rumble motors.     *)
(* Buttons, sticks and constant answers are data and left out; a reply is  *)
(* only told apart where the protocol does.                                *)
(***************************************************************************)
EXTENDS Naturals, FiniteSets

CONSTANTS
  PadBytes,         \* the bytes the guest sends to the pad
  RumbleSteps       \* the packet steps whose motor byte is modelled, of 3..8

ASSUME PadConstants == RumbleSteps \subseteq 3 .. 8

Config   == {"42", "43", "44", "4D", "4F"}   \* 4Fh: every command that answers constants
Ids      == {"DIGITAL", "ANALOG", "STICK", "CONFIG"}
Unmapped == "FF"

(* The controller's part of SioInternal.  old_xx is "the first half of the *)
(* old method's gate is open".                                             *)
PadState == [connected : BOOLEAN, analog : BOOLEAN, stick : BOOLEAN,
             config : BOOLEAN, in_config : BOOLEAN, lock : BOOLEAN,
             watchdog : BOOLEAN, step : 0 .. 8, cmd : PadBytes \cup {"NONE"},
             map : [RumbleSteps -> PadBytes \cup {Unmapped}],
             m1 : BOOLEAN, m2 : BOOLEAN, config_used : BOOLEAN, old_xx : BOOLEAN]

(* sio_init, with a pad plugged in.                                        *)
PadReset ==
  [connected |-> TRUE, analog |-> FALSE, stick |-> FALSE, config |-> FALSE,
   in_config |-> FALSE, lock |-> FALSE, watchdog |-> FALSE, step |-> 0, cmd |-> "NONE",
   map |-> [s \in RumbleSteps |-> Unmapped], m1 |-> FALSE, m2 |-> FALSE,
   config_used |-> FALSE, old_xx |-> FALSE]

(* sio_rumble_lock.                                                        *)
RumbleLock(p) ==
  [p EXCEPT !.map = [s \in RumbleSteps |-> Unmapped], !.m1 = FALSE, !.m2 = FALSE,
            !.old_xx = FALSE, !.config_used = FALSE]

(* sio_get_pad_mode and the ID announced for it.                           *)
PadMode(p) == IF ~p.analog THEN "DIGITAL" ELSE IF p.stick THEN "STICK" ELSE "ANALOG"

(* sio_set_pad_mode: the Analog button, from the host.                     *)
SetPadMode(p, mode) ==
  IF p.lock \/ PadMode(p) = mode THEN p
  ELSE RumbleLock([p EXCEPT !.analog = mode # "DIGITAL", !.stick = mode = "STICK"])

(* The watchdog at the head of sio_controller_transfer.                    *)
Watchdog(p, gap) ==
  IF ~(p.watchdog /\ gap) THEN p
  ELSE RumbleLock([p EXCEPT !.config = FALSE, !.analog = FALSE, !.stick = FALSE,
                            !.lock = FALSE, !.watchdog = FALSE])

(* sio_rumble_old_method.                                                  *)
OldMethod(p) == ~p.config_used /\ \A s \in RumbleSteps : p.map[s] = Unmapped

(* sio_capture_rumble: 40h..7Fh opens the old gate, bit 0 is odd; "01" and *)
(* "42" stand for the bytes with bit 0 and with bit 6 set.                 *)
Odd(b)  == b \in {"01", "43", "4D", "4F", "FF"}
Gate(b) == b \in {"42", "43", "44", "4D", "4F"}
CaptureRumble(p, b) ==
  IF OldMethod(p)
  THEN IF p.step = 3 THEN [p EXCEPT !.old_xx = Gate(b)]
       ELSE IF p.step = 4 THEN [p EXCEPT !.m2 = p.old_xx /\ Odd(b), !.m1 = FALSE]
       ELSE p
  ELSE IF p.step \notin RumbleSteps THEN p
  ELSE CASE p.map[p.step] = "00" -> [p EXCEPT !.m2 = Odd(b)]
         [] p.map[p.step] = "01" -> [p EXCEPT !.m1 = b # "00"]
         [] OTHER -> p

(* sio_config_reply: what the parameters of a configuration command do.    *)
ConfigCommand(p, b) ==
  CASE p.cmd = "42" -> CaptureRumble(p, b)
    [] p.cmd = "43" /\ p.step = 3 -> [p EXCEPT !.config = b = "01"]
    [] p.cmd = "44" /\ p.step = 3 /\ b \in {"00", "01"} ->
         [p EXCEPT !.analog = b = "01", !.stick = FALSE]
    [] p.cmd = "44" /\ p.step = 4 -> [p EXCEPT !.lock = b \in {"43", "4F", "FF"}]
    [] p.cmd = "4D" /\ p.step \in RumbleSteps ->
         [p EXCEPT !.map[p.step] = b, !.config_used = TRUE,
                   !.m2 = @ /\ ~(b = Unmapped /\ p.step = 3),
                   !.m1 = @ /\ ~(b = Unmapped /\ p.step = 4)]
    [] p.cmd = "4D" /\ p.step \notin RumbleSteps -> [p EXCEPT !.config_used = TRUE]
    [] OTHER -> p

(* One more byte acknowledged, or the end of the packet.                   *)
Advance(p, last) == IF p.step = last THEN [pad |-> [p EXCEPT !.step = 0], ack |-> FALSE]
                    ELSE [pad |-> [p EXCEPT !.step = @ + 1], ack |-> TRUE]
EndPacket(p) == [pad |-> p, ack |-> FALSE]

EnterConfig(p, b) ==
  IF p.cmd = "43" /\ p.step = 3 /\ b = "01"
  THEN [p EXCEPT !.config = TRUE, !.watchdog = TRUE] ELSE p

DataByte_ConfigNow(p, b) ==
  IF p.config THEN Advance(ConfigCommand(p, b), 8)
  ELSE LET q == EnterConfig(p, b)
           r == IF q.cmd = "42" THEN CaptureRumble(q, b) ELSE q
       IN Advance(r, IF r.analog THEN 8 ELSE IF r.step < 4 THEN 4 ELSE r.step)

(* A byte from the fourth on.                                              *)
DataByte(p, b) ==
  IF p.in_config THEN Advance(ConfigCommand(p, b), 8)
  ELSE LET q == EnterConfig(p, b)
           r == IF q.cmd = "42" THEN CaptureRumble(q, b) ELSE q
       IN Advance(r, IF r.analog THEN 8 ELSE IF r.step < 4 THEN 4 ELSE r.step)

(* sio_controller_transfer; gap says a second has passed without a byte.   *)
PadTransfer(pad0, b, gap) ==
  LET p == Watchdog(pad0, gap) IN
  CASE p.step = 0 -> IF b = "01" THEN Advance([p EXCEPT !.cmd = "NONE"], 8) ELSE EndPacket(p)
    [] p.step = 1 ->
         LET q == [p EXCEPT !.cmd = b] IN
         IF b \in Config /\ p.config THEN Advance([q EXCEPT !.in_config = TRUE], 8)
         ELSE IF b \in {"42", "43"} THEN Advance([q EXCEPT !.in_config = FALSE], 8)
         ELSE EndPacket(q)
    [] p.step = 2 -> Advance(p, 8)
    [] OTHER -> DataByte(p, b)

(* sio_release_cs.                                                         *)
PadDeselect(p) == [p EXCEPT !.step = 0]
-----------------------------------------------------------------------------
(* The pad alone, against every packet a guest can send it.                *)
VARIABLES pad,      \* the pad
          packet    \* history: the ID announced, its bytes, "mode was switched meanwhile"

pad_vars == <<pad, packet>>

NoPacket == [id |-> "NONE", sent |-> 0, switched |-> FALSE]

PadTypeOK ==
  /\ pad \in PadState
  /\ packet \in [id : Ids \cup {"NONE"}, sent : 0 .. 9, switched : BOOLEAN]

PadInit == pad = PadReset /\ packet = NoPacket

AnnouncedId(p) == IF p.in_config THEN "CONFIG" ELSE PadMode(p)

PadByte(b, gap) ==
  LET r == PadTransfer(pad, b, gap)
      w == Watchdog(pad, gap)
  IN /\ pad' = r.pad
     /\ packet' =
          CASE pad.step = 0 -> IF r.ack THEN [NoPacket EXCEPT !.sent = 1] ELSE packet
            [] pad.step = 1 /\ r.ack -> [packet EXCEPT !.id = AnnouncedId(r.pad), !.sent = 2]
            [] pad.step = 1 /\ ~r.ack -> packet
            [] OTHER -> [packet EXCEPT !.sent = @ + 1, !.switched = @ \/ w.analog # pad.analog]

PadReleased == pad' = PadDeselect(pad) /\ packet' = NoPacket

(* sio_cycle_pad_mode: the user presses Analog, also in mid packet.        *)
AnalogButton ==
  \E mode \in {"DIGITAL", "ANALOG", "STICK"} :
    /\ pad' = SetPadMode(pad, mode)
    /\ packet' = [packet EXCEPT !.switched = @ \/ pad'.analog # pad.analog]

PadNext == \/ \E b \in PadBytes, gap \in BOOLEAN : PadByte(b, gap)
           \/ PadReleased
           \/ AnalogButton

PadSpec == PadInit /\ [][PadNext]_pad_vars
-----------------------------------------------------------------------------
Length(id) == IF id = "DIGITAL" THEN 5 ELSE 9

(* A packet is as long as the ID the guest was given says, even when its   *)
(* own bytes switch configuration, analog mode or lock: the guest's driver *)
(* counts on the ID (sio.c:151 "the whole in-progress transfer replies in  *)
(* config style").  Only the user's Analog button or the watchdog may cut  *)
(* one short or draw it out.                                               *)
PacketMatchesItsId ==
  /\ pad.step > 2 /\ ~packet.switched => packet.sent = pad.step
  /\ packet.id # "NONE" /\ ~packet.switched =>
       /\ packet.sent <= Length(packet.id)
       /\ packet.sent > 2 /\ pad.step = 0 => packet.sent = Length(packet.id)
=============================================================================
