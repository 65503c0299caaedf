---------------------------------- MODULE Sio ----------------------------------
(***************************************************************************)
(* The serial bus of src/core/sio.c: /CS, the transmit buffer, the byte    *)
(* being shifted, and the device that was addressed by the first byte of a *)
(* packet.  A byte takes time, so the exchange is the event EVQ_SIO, which *)
(* nothing takes out of the queue again.                                   *)
(*                                                                         *)
(* A memory card is followed byte by byte through its three commands with  *)
(* sectors of SectorBytes bytes; the pad is reduced to what the bus sees   *)
(* of it, how many bytes it acknowledges (module Pad is the whole pad,     *)
(* which is always plugged into port 1 here).                               *)
(* Received bytes and the interrupt, a pulse (module Irq), are left out,   *)
(* and the file behind a card is in MemoryCard.                            *)
(***************************************************************************)
EXTENDS Naturals

CONSTANTS
  SectorBytes,      \* 128
  SioBytes,         \* the bytes the guest sends
  CtrlWords,        \* what it writes to JOY_CTRL
  PadLast           \* the last step of a pad's packet: 4 digital, 8 analog

ASSUME SioConstants == /\ SectorBytes \in Nat \ {0}
                       /\ CtrlWords \subseteq [select : BOOLEAN, txen : BOOLEAN, slot : {1, 2}]
                       /\ PadLast \subseteq 3 .. 8

Slots    == {1, 2}
Commands == {"52", "57", "53"}    \* read, write, get ID; 01h and 81h are addresses, 42h the pad's read
None     == "NONE"
Done     == 255                   \* mc_step once the sequence is over

CtrlBits == [select : BOOLEAN, txen : BOOLEAN, slot : Slots]

CardState == [present : BOOLEAN, data : 0 .. 1]

(* SioInternal: wire is transmit_value while EVQ_SIO is queued; data counts *)
(* the sectors stored, modulo 2.                                           *)
SioState ==
  [ctrl : CtrlBits, tx : SioBytes \cup {None}, latched : BOOLEAN,
   phase : {"IDLE", "SHIFTING"}, wire : SioBytes \cup {None},
   addressed : {None, "CONTROLLER", "MEMCARD"}, active : Slots \cup {0},
   pad_step : 0 .. 8, mc_step : 0 .. SectorBytes + 10 \cup {Done},
   mc_cmd : SioBytes \cup {None}, sector_valid : BOOLEAN,
   cards : [Slots -> CardState]]

VARIABLES sio,      \* the bus and its devices
          heard     \* history: the card packet under way, as the guest sent it

sio_vars == <<sio, heard>>

Silence == [slot |-> 0, cmd |-> None, bytes |-> 0]

SioTypeOK ==
  /\ sio \in SioState
  /\ heard \in [slot : Slots \cup {0}, cmd : SioBytes \cup {None}, bytes : 0 .. SectorBytes + 11]

(* sio_bus_ready: TXEN counts as it was when the byte was written.         *)
BusReady(s) == s.tx # None /\ s.ctrl.select /\ (s.ctrl.txen \/ s.latched)

(* sio_start_shift.                                                        *)
StartShift(s) ==
  IF s.phase # "IDLE" \/ ~BusReady(s) THEN s
  ELSE [s EXCEPT !.phase = "SHIFTING", !.wire = s.tx, !.tx = None, !.latched = FALSE]

ReleaseBus(s) == [s EXCEPT !.phase = "IDLE"]

(* sio_release_cs.                                                         *)
ReleaseCs(s) == [s EXCEPT !.addressed = None, !.active = 0, !.mc_step = 0, !.pad_step = 0]

(* sio_soft_reset.                                                         *)
SoftReset(s) ==
  ReleaseCs(ReleaseBus(
    [s EXCEPT !.ctrl = [select |-> FALSE, txen |-> FALSE, slot |-> 1],
              !.tx = None, !.latched = FALSE]))
-----------------------------------------------------------------------------
(* One exchange gives the bus and whether the device acknowledges.         *)
Ack(s)  == [bus |-> s, ack |-> TRUE]
Nack(s) == [bus |-> s, ack |-> FALSE]

(* What sio_controller_transfer does to its step, for packets of any       *)
(* length: an address byte, a command it knows, data up to the last.       *)
PadExchange(s, b, last) ==
  CASE s.pad_step = 0 -> IF b = "01" THEN Ack([s EXCEPT !.pad_step = 1]) ELSE Nack(s)
    [] s.pad_step = 1 -> IF b = "42" THEN Ack([s EXCEPT !.pad_step = 2]) ELSE Nack(s)
    [] s.pad_step > 2 /\ s.pad_step >= last -> Nack([s EXCEPT !.pad_step = 0])
    [] OTHER -> Ack([s EXCEPT !.pad_step = @ + 1])

Next1(s)  == [s EXCEPT !.mc_step = @ + 1]
Finish(s) == [s EXCEPT !.mc_step = Done]

(* Steps 0 to 4 of sio_memcard_transfer: command, ID and address.          *)
CardHeader(s, b) ==
  CASE s.mc_step = 0 -> LET t == [s EXCEPT !.mc_cmd = b]
                        IN IF b \in Commands THEN Next1(t) ELSE Finish(t)
    [] s.mc_step = 2 -> [s EXCEPT !.mc_step = IF s.mc_cmd = "53" THEN 5 ELSE 3]
    [] s.mc_step = 3 -> Next1([s EXCEPT !.sector_valid = b # "81"])
    [] OTHER -> Next1(s)

(* READ from step 5: a bad sector is refused after its confirmation.       *)
CardRead(s) ==
  LET pos == s.mc_step - 5 IN
  IF (pos = 3 /\ ~s.sector_valid) \/ pos = SectorBytes + 5 THEN Finish(s) ELSE Next1(s)

CardWrite_NoRangeCheck(s, matches) ==
  CASE s.mc_step = SectorBytes + 5 /\ matches -> Next1([s EXCEPT !.cards[s.active].data = 1 - @])
    [] s.mc_step = SectorBytes + 8 -> Finish(s)
    [] OTHER -> Next1(s)

CardWrite_PortOfNow(s, matches) ==
  CASE s.mc_step = SectorBytes + 5 /\ matches /\ s.sector_valid ->
         Next1([s EXCEPT !.cards[s.ctrl.slot].data = 1 - @])
    [] s.mc_step = SectorBytes + 8 -> Finish(s)
    [] OTHER -> Next1(s)

(* WRITE from step 5: the data, the checksum that decides, the end byte.   *)
CardWrite(s, matches) ==
  CASE s.mc_step = SectorBytes + 5 /\ matches /\ s.sector_valid ->
         Next1([s EXCEPT !.cards[s.active].data = 1 - @])
    [] s.mc_step = SectorBytes + 8 -> Finish(s)
    [] OTHER -> Next1(s)

CardGetId(s) == IF s.mc_step = 10 THEN Finish(s) ELSE Next1(s)

(* From step 5 on, by command.                                             *)
CardData(s, matches) == CASE s.mc_cmd = "52" -> CardRead(s)
                          [] s.mc_cmd = "57" -> CardWrite(s, matches)
                          [] OTHER -> CardGetId(s)

(* sio_memcard_transfer, and the acknowledge of sio_shift_byte.            *)
CardExchange(s, b, matches) ==
  LET t == IF s.mc_step = Done THEN s
           ELSE IF s.mc_step < 5 THEN CardHeader(s, b) ELSE CardData(s, matches)
  IN IF t.mc_step = Done THEN Nack(t) ELSE Ack(t)

(* The dispatch of sio_shift_byte by addressed device.                     *)
Exchange(s, b, last, matches) ==
  CASE s.addressed = "MEMCARD" -> CardExchange(s, b, matches)
    [] s.addressed = "CONTROLLER" -> PadExchange(s, b, last)
    [] OTHER ->
         IF b = "81" /\ s.cards[s.ctrl.slot].present
         THEN Ack([s EXCEPT !.addressed = "MEMCARD", !.active = s.ctrl.slot, !.mc_step = 0])
         ELSE IF s.ctrl.slot = 2 THEN Nack(s)
         ELSE LET r == PadExchange(s, b, last)
              IN IF r.ack THEN Ack([r.bus EXCEPT !.addressed = "CONTROLLER"]) ELSE r

(* sio_shift_byte: an acknowledged byte chains the next one, a refused one *)
(* ends the packet.                                                        *)
Settle(r) == IF r.ack THEN StartShift(ReleaseBus(r.bus))
             ELSE ReleaseBus([r.bus EXCEPT !.addressed = None])
-----------------------------------------------------------------------------
(* sio_init; either card may be missing.                                   *)
SioInit ==
  /\ \E has \in [Slots -> BOOLEAN] :
       sio = [ctrl |-> [select |-> FALSE, txen |-> FALSE, slot |-> 1], tx |-> None,
              latched |-> FALSE, phase |-> "IDLE", wire |-> None, addressed |-> None,
              active |-> 0, pad_step |-> 0, mc_step |-> 0, mc_cmd |-> None,
              sector_valid |-> FALSE,
              cards |-> [k \in Slots |-> [present |-> has[k], data |-> 0]]]
  /\ heard = Silence

(* sio_write8 of JOY_DATA: an unsent byte is overrun.                      *)
WriteData(b) ==
  /\ sio' = StartShift([sio EXCEPT !.tx = b, !.latched = sio.ctrl.txen])
  /\ UNCHANGED heard

(* sio_write16 of JOY_CTRL.                                                *)
WriteCtrl(c) ==
  LET s == [sio EXCEPT !.ctrl = c]
      t == IF c.select THEN s ELSE ReleaseCs(s)
  IN /\ sio' = IF c.select /\ c.txen THEN StartShift(t) ELSE ReleaseBus(t)
     /\ heard' = IF c.select THEN heard ELSE Silence

ResetBus == sio' = SoftReset(sio) /\ heard' = Silence

Hear(b, s, t) ==
  IF t.addressed # "MEMCARD" /\ s.addressed # "MEMCARD" THEN Silence
  ELSE IF s.addressed = None THEN [slot |-> s.ctrl.slot, cmd |-> None, bytes |-> 0]
  ELSE IF heard.bytes = 0 THEN [heard EXCEPT !.cmd = b, !.bytes = 1]
  ELSE [heard EXCEPT !.bytes = @ + 1]

(* sio_execute_event: EVQ_SIO, a byte's time after it was started.         *)
SioEvent ==
  /\ sio.wire # None
  /\ \E last \in PadLast, matches \in BOOLEAN :
       LET s == [sio EXCEPT !.wire = None]
           r == Exchange(s, sio.wire, last, matches)
       IN /\ sio' = Settle(r)
          /\ heard' = Hear(sio.wire, s, r.bus)

SioNext == \/ \E b \in SioBytes : WriteData(b)
           \/ \E c \in CtrlWords : WriteCtrl(c)
           \/ ResetBus
           \/ SioEvent

SioSpec == SioInit /\ [][SioNext]_sio_vars
-----------------------------------------------------------------------------
(* A card's contents change only at the checksum of a write packet that    *)
(* was sent whole, to that card and to a sector it has, however the guest  *)
(* deselects, resets, changes the port or overruns the buffer in between.  *)
CardsChangeByWholePackets ==
  [][\A k \in Slots : sio'.cards[k].data # sio.cards[k].data =>
       /\ heard.slot = k /\ heard.cmd = "57" /\ heard.bytes = 5 + SectorBytes
       /\ sio.sector_valid]_sio_vars
=============================================================================
