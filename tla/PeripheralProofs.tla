------------------------- MODULE PeripheralProofs ---------------------------
(***************************************************************************)
(* Proofs about what is plugged into the machine and what outlives it: the *)
(* interrupt controller they all drive, the memory card's file, the pad,   *)
(* the serial bus, the save states, and the macroblock decoder with its    *)
(* DMA.                                                                    *)
(***************************************************************************)
EXTENDS MCPeripherals, GpuProofs, SequenceTheorems, WellFoundedInduction, TLAPS

(* IrqDevices, for any set of lines.  HighLineIsPending is what makes the  *)
(* edge detector exact: a request on a line that is already high adds      *)
(* nothing to I_STAT, and needs not, because the bit is set.               *)
IrqSound == TypeOK /\ HighLineIsPending /\ NoRequestLost

(* Raising a line makes it pending, and pending lines stay pending.        *)
LEMMA RaiseIsPending ==
  ASSUME NEW q \in IrqRegs, NEW l \in Lines, q.line \subseteq q.status
  PROVE  /\ RaiseLine(q, l) \in IrqRegs
         /\ RaiseLine(q, l).line \subseteq RaiseLine(q, l).status
         /\ RaiseLine(q, l).status = q.status \cup {l}
BY DEF RaiseLine, IrqRegs

(* Lowering a line acknowledges nothing.                                   *)
LEMMA LowerKeepsPending ==
  ASSUME NEW q \in IrqRegs, NEW l \in Lines
  PROVE  /\ LowerLine(q, l) \in IrqRegs
         /\ LowerLine(q, l).line = q.line \ {l}
         /\ LowerLine(q, l).status = q.status
BY DEF LowerLine, IrqRegs

(* A guest's write to I_STAT or I_MASK.                                    *)
LEMMA GuestWrites ==
  ASSUME NEW q \in IrqRegs, NEW m \in SUBSET Lines
  PROVE  /\ WriteIStat(q, m) \in IrqRegs
         /\ WriteIStat(q, m).line = q.line \cap m
         /\ WriteIStat(q, m).status = q.status \cap m
         /\ WriteIMask(q, m) \in IrqRegs
         /\ WriteIMask(q, m).line = q.line
         /\ WriteIMask(q, m).status = q.status
BY DEF WriteIStat, WriteIMask, IrqRegs

(* The three parts of IrqSound hold together, step by step.                *)
LEMMA SoundStep == IrqSound /\ [Next]_vars => IrqSound'
<1> SUFFICES ASSUME IrqSound, [Next]_vars PROVE IrqSound'
  OBVIOUS
<1> USE DEF IrqSound, HighLineIsPending, NoRequestLost, TypeOK
<1>1. ASSUME NEW l \in LatchLines, LatchRequest(l) PROVE IrqSound'
  BY <1>1, RaiseIsPending DEF LatchRequest, SetIrqLine, LatchLines
<1>2. CASE GpuRequest
  BY <1>2, RaiseIsPending DEF GpuRequest, SetIrqLine, FlagLines
<1>3. CASE SpuRequest
  BY <1>3, RaiseIsPending DEF SpuRequest, SetIrqLine, FlagLines
<1>4. ASSUME NEW l \in FlagLines, DeviceAck(l) PROVE IrqSound'
  BY <1>4, LowerKeepsPending DEF DeviceAck, SetIrqLine, FlagLines
<1>5. CASE GpuReset
  BY <1>5 DEF GpuReset
<1>6. CASE SioRequest
  <2> DEFINE high == RaiseLine(irq, "SIO")
  <2>1. /\ high \in IrqRegs
        /\ high.line \subseteq high.status
        /\ high.status = irq.status \cup {"SIO"}
    BY <1>6, RaiseIsPending DEF SioRequest
  <2>2. irq' = LowerLine(high, "SIO")
    BY <1>6 DEF SioRequest, PulseLine
  <2> HIDE DEF high
  <2> QED
    BY <1>6, <2>1, <2>2, LowerKeepsPending DEF SioRequest
<1>7. CASE CdromRequest
  <2> DEFINE low == LowerLine(irq, "CDROM")
  <2>1. /\ low \in IrqRegs
        /\ low.line = irq.line \ {"CDROM"}
        /\ low.status = irq.status
    BY <1>7, LowerKeepsPending DEF CdromRequest
  <2>2. irq' = RaiseLine(low, "CDROM")
    BY <1>7 DEF CdromRequest, TriggerLine
  <2> HIDE DEF low
  <2> QED
    BY <1>7, <2>1, <2>2, RaiseIsPending DEF CdromRequest
<1>8. ASSUME NEW keep \in SUBSET Lines, GuestIStat(keep) PROVE IrqSound'
  BY <1>8, GuestWrites DEF GuestIStat
<1>9. ASSUME NEW m \in SUBSET Lines, GuestIMask(m) PROVE IrqSound'
  BY <1>9, GuestWrites DEF GuestIMask
<1>10. CASE UNCHANGED vars
  BY <1>10 DEF vars
<1> QED
  BY <1>1, <1>2, <1>3, <1>4, <1>5, <1>6, <1>7, <1>8, <1>9, <1>10 DEF Next

(* IrqSound is an invariant.                                                  *)
LEMMA SoundAlways == Spec => []IrqSound
<1>1. Init => IrqSound
  BY DEF Init, IrqSound, TypeOK, HighLineIsPending, NoRequestLost, IrqReset, IrqRegs
<1> QED
  BY <1>1, SoundStep, PTL DEF Spec

(* The controller's registers and the device flags keep their types.       *)
THEOREM TypeCorrect == Spec => []TypeOK
BY SoundAlways, PTL DEF IrqSound

(* interconnect_set_irq_line and hw_irq_write never leave a line high with *)
(* its I_STAT bit clear, whatever devices and guest do.                    *)
THEOREM NoLineStuckHigh == Spec => []HighLineIsPending
BY SoundAlways, PTL DEF IrqSound

(* Every interrupt a device requests is in I_STAT until the guest clears   *)
(* it there.                                                               *)
THEOREM EveryRequestIsLatched == Spec => []NoRequestLost
BY SoundAlways, PTL DEF IrqSound

(* So every request is pending, and the next one will make an edge.        *)
THEOREM NoRequestIsForgotten == Spec => []RequestsAreKept
<1>1. HighLineIsPending /\ NoRequestLost => RequestsAreKept
  BY DEF RequestsAreKept
<1> QED
  BY <1>1, NoLineStuckHigh, EveryRequestIsLatched, PTL

-----------------------------------------------------------------------------
(* MemoryCard: that the file is whole and what the session found can be    *)
(* had is not inductive: the rename puts the temporary file in the card's  *)
(* place, so the temporary must be the card by then (Staged), and it is    *)
(* the last the found file is seen unless the copy was made before         *)
(* (CopiedFirst).                                                          *)

(* What is about to be renamed over the card's file is the whole card, and *)
(* the card in memory is never half of one.                                *)
Staged ==
  /\ card.data \in Contents
  /\ saver = "RENAME" => disk.tmp = card.data

Copied == disk.bak = found.file

(* Until the first save the file is the one the session found; once past   *)
(* the backup it lies beside it.                                           *)
CopiedFirst ==
  /\ saver \notin {"DOWN", "IDLE", "BACKUP"} => card.backed_up
  /\ saver # "DOWN" /\ ~card.backed_up => disk.file = found.file
  /\ saver = "COPY" => disk.file = found.file
  /\ card.backed_up /\ saver \notin {"DOWN", "COPY"}
       => found.file \notin Contents \/ found.uncopied \/ Copied

CardIInv == CardTypeOK /\ CardIsSafe /\ Staged /\ CopiedFirst

(* A machine that has not been started, with any file or none.             *)
LEMMA CardInitIInv == CardInit => CardIInv
BY CardConstants DEF CardInit, CardIInv, CardTypeOK, CardIsSafe, CardFileIsWhole, FoundIsKept,
     Staged, CopiedFirst, Files

(* Each operation, done, failed or cut off, keeps it.                      *)
LEMMA CardNextIInv == CardIInv /\ [CardNext]_card_vars => CardIInv'
<1> SUFFICES ASSUME CardIInv, [CardNext]_card_vars PROVE CardIInv'
  OBVIOUS
<1> USE CardConstants DEF CardIInv, CardTypeOK, CardIsSafe, CardFileIsWhole, FoundIsKept,
                          Staged, CopiedFirst, Copied, Files
<1>1. CASE Load
  BY <1>1 DEF Load
<1>2. ASSUME NEW v \in Contents, StoreSector(v) PROVE CardIInv'
  BY <1>2 DEF StoreSector
<1>3. CASE EndByte
  BY <1>3 DEF EndByte
<1>4. CASE BackupOnce
  BY <1>4 DEF BackupOnce
<1>5. CASE CopyAside
  BY <1>5 DEF CopyAside
<1>6. CASE OpenTemporary
  BY <1>6 DEF OpenTemporary
<1>7. CASE WriteTemporary
  BY <1>7 DEF WriteTemporary
<1>8. CASE RenameOver
  BY <1>8 DEF RenameOver
<1>9. CASE Killed
  BY <1>9 DEF Killed
<1>10. CASE UNCHANGED card_vars
  BY <1>10 DEF card_vars
<1> QED
  BY <1>1, <1>2, <1>3, <1>4, <1>5, <1>6, <1>7, <1>8, <1>9, <1>10 DEF CardNext

(* sio_save_memcard, sio.c:1397-1399: "a crash or a kill in the middle of  *)
(* the write would otherwise leave a truncated card".  Killed at any step, *)
(* after any earlier sessions, the file is the card before or after the    *)
(* save, and what the session found can be had.                            *)
THEOREM CardSurvives == CardSpec => []CardIsSafe
<1>1. CardIInv => CardIsSafe
  BY DEF CardIInv
<1> QED
  BY <1>1, CardInitIInv, CardNextIInv, PTL DEF CardSpec

-----------------------------------------------------------------------------
(* Pad: a packet is as long as its ID says.                                *)

(* A packet under way: as many bytes as the step says; the ID announced is *)
(* the mode its bytes are answered in, as long as the user and the         *)
(* watchdog leave the mode alone.                                          *)
PacketIsTracked ==
  /\ pad.step > 0 => packet.sent = pad.step
  /\ pad.step = 1 => packet.id = "NONE"
  /\ pad.step > 1 => packet.id # "NONE"
  /\ pad.step > 1 /\ ~packet.switched =>
       /\ packet.id = "CONFIG" <=> pad.in_config
       /\ packet.id # "CONFIG" => (packet.id = "DIGITAL" <=> ~pad.analog)
       /\ packet.id = "DIGITAL" => pad.step <= 4
  /\ pad.step = 0 /\ packet.id # "NONE" /\ ~packet.switched => packet.sent = Length(packet.id)

PadIInv == PadTypeOK /\ PacketIsTracked

(* What the helpers of a transfer leave alone.                             *)
SamePacket(p, q) == q \in PadState /\ q.step = p.step /\ q.in_config = p.in_config

LEMMA RumbleLockSame ==
  ASSUME NEW p \in PadState
  PROVE  SamePacket(p, RumbleLock(p)) /\ RumbleLock(p).analog = p.analog
<1>1. [s \in RumbleSteps |-> Unmapped] \in [RumbleSteps -> PadBytes \cup {Unmapped}]
  OBVIOUS
<1> QED
  BY <1>1 DEF RumbleLock, PadState, SamePacket

LEMMA WatchdogSame ==
  ASSUME NEW p \in PadState, NEW gap \in BOOLEAN
  PROVE  SamePacket(p, Watchdog(p, gap))
<1> DEFINE q == [p EXCEPT !.config = FALSE, !.analog = FALSE, !.stick = FALSE,
                          !.lock = FALSE, !.watchdog = FALSE]
<1>1. SamePacket(p, q)
  BY DEF PadState, SamePacket
<1>2. SamePacket(q, RumbleLock(q))
  BY <1>1, RumbleLockSame DEF SamePacket
<1>3. SamePacket(p, p)
  BY DEF SamePacket
<1> HIDE DEF q
<1>4. SamePacket(p, RumbleLock(q))
  BY <1>1, <1>2 DEF SamePacket
<1> QED
  BY <1>3, <1>4 DEF Watchdog, q

LEMMA SetPadModeSame ==
  ASSUME NEW p \in PadState, NEW mode
  PROVE  SamePacket(p, SetPadMode(p, mode))
<1> DEFINE q == [p EXCEPT !.analog = mode # "DIGITAL", !.stick = mode = "STICK"]
<1>1. SamePacket(p, q)
  BY DEF PadState, SamePacket
<1>2. SamePacket(q, RumbleLock(q))
  BY <1>1, RumbleLockSame DEF SamePacket
<1>3. SamePacket(p, p)
  BY DEF SamePacket
<1> HIDE DEF q
<1>4. SamePacket(p, RumbleLock(q))
  BY <1>1, <1>2 DEF SamePacket
<1> QED
  BY <1>3, <1>4 DEF SetPadMode, q

LEMMA CaptureRumbleSame ==
  ASSUME NEW p \in PadState, NEW b \in PadBytes
  PROVE  SamePacket(p, CaptureRumble(p, b)) /\ CaptureRumble(p, b).analog = p.analog
<1>1. Gate(b) \in BOOLEAN /\ Odd(b) \in BOOLEAN /\ (b # "00") \in BOOLEAN
      /\ (p.old_xx /\ Odd(b)) \in BOOLEAN
  BY DEF Gate, Odd
<1> DEFINE Fine(q) == SamePacket(p, q) /\ q.analog = p.analog
<1>2. /\ Fine(p) /\ Fine([p EXCEPT !.old_xx = Gate(b)])
      /\ Fine([p EXCEPT !.m2 = p.old_xx /\ Odd(b), !.m1 = FALSE])
      /\ Fine([p EXCEPT !.m2 = Odd(b)]) /\ Fine([p EXCEPT !.m1 = b # "00"])
  BY <1>1 DEF PadState, SamePacket
<1> HIDE DEF Fine
<1>3. Fine(CaptureRumble(p, b))
  BY <1>2, Zenon DEF CaptureRumble
<1> QED
  BY <1>3 DEF Fine

LEMMA ConfigCommandSame ==
  ASSUME NEW p \in PadState, NEW b \in PadBytes
  PROVE  SamePacket(p, ConfigCommand(p, b))
<1> DEFINE Fine(q) == SamePacket(p, q)
           mapped  == [p EXCEPT !.map[p.step] = b, !.config_used = TRUE,
                                !.m2 = @ /\ ~(b = Unmapped /\ p.step = 3),
                                !.m1 = @ /\ ~(b = Unmapped /\ p.step = 4)]
<1>0. \A v \in BOOLEAN : /\ Fine([p EXCEPT !.config = v])
                         /\ Fine([p EXCEPT !.analog = v, !.stick = FALSE])
                         /\ Fine([p EXCEPT !.lock = v])
                         /\ Fine([p EXCEPT !.config_used = v])
  BY DEF PadState, SamePacket
<1>1. /\ Fine(p) /\ Fine(CaptureRumble(p, b))
      /\ Fine([p EXCEPT !.config = b = "01"])
      /\ Fine([p EXCEPT !.analog = b = "01", !.stick = FALSE])
      /\ Fine([p EXCEPT !.lock = b \in {"43", "4F", "FF"}])
      /\ Fine([p EXCEPT !.config_used = TRUE])
  <2>1. Fine(p) /\ Fine(CaptureRumble(p, b))
    BY CaptureRumbleSame DEF SamePacket
  <2>2. (b = "01") \in BOOLEAN /\ (b \in {"43", "4F", "FF"}) \in BOOLEAN /\ TRUE \in BOOLEAN
    OBVIOUS
  <2> HIDE DEF Fine
  <2> QED
    BY <1>0, <2>1, <2>2, Zenon
<1>2. ASSUME p.step \in RumbleSteps PROVE Fine(mapped)
  <2>1. [p.map EXCEPT ![p.step] = b] \in [RumbleSteps -> PadBytes \cup {Unmapped}]
    BY DEF PadState
  <2>2. /\ (p.m2 /\ ~(b = Unmapped /\ p.step = 3)) \in BOOLEAN
        /\ (p.m1 /\ ~(b = Unmapped /\ p.step = 4)) \in BOOLEAN
    OBVIOUS
  <2>3. mapped = [p EXCEPT !.map = [p.map EXCEPT ![p.step] = b], !.config_used = TRUE,
                           !.m2 = p.m2 /\ ~(b = Unmapped /\ p.step = 3),
                           !.m1 = p.m1 /\ ~(b = Unmapped /\ p.step = 4)]
    BY DEF PadState
  <2> DEFINE map == [p.map EXCEPT ![p.step] = b]
             m2  == p.m2 /\ ~(b = Unmapped /\ p.step = 3)
             m1  == p.m1 /\ ~(b = Unmapped /\ p.step = 4)
  <2>4. mapped = [p EXCEPT !.map = map, !.config_used = TRUE, !.m2 = m2, !.m1 = m1]
    BY <2>3
  <2>5. map \in [RumbleSteps -> PadBytes \cup {Unmapped}] /\ m1 \in BOOLEAN /\ m2 \in BOOLEAN
    BY <2>1, <2>2
  <2> HIDE DEF map, m1, m2, mapped
  <2> QED
    BY <2>4, <2>5 DEF PadState, SamePacket
<1> HIDE DEF Fine, mapped
<1>3. Fine(ConfigCommand(p, b))
  BY <1>1, <1>2, Zenon DEF ConfigCommand, mapped
<1> QED
  BY <1>3 DEF Fine

LEMMA EnterConfigSame ==
  ASSUME NEW p \in PadState, NEW b \in PadBytes
  PROVE  SamePacket(p, EnterConfig(p, b)) /\ EnterConfig(p, b).analog = p.analog
<1> DEFINE q == [p EXCEPT !.config = TRUE, !.watchdog = TRUE]
<1>1. q \in PadState
  BY DEF PadState
<1>2. q.step = p.step /\ q.in_config = p.in_config /\ q.analog = p.analog
  BY DEF PadState
<1> HIDE DEF q
<1>3. EnterConfig(p, b) \in {p, q}
  BY DEF EnterConfig, q
<1> QED
  BY <1>1, <1>2, <1>3 DEF SamePacket

(* One more byte, or the last.                                            *)
LEMMA AdvanceEnds ==
  ASSUME NEW s \in PadState, NEW n \in 0 .. 8, s.step = n
  PROVE  /\ Advance(s, n).pad \in PadState /\ Advance(s, n).pad.step = 0
         /\ Advance(s, n).pad.in_config = s.in_config /\ Advance(s, n).pad.analog = s.analog
<1>1. Advance(s, n).pad = [s EXCEPT !.step = 0]
  BY DEF Advance
<1> QED
  BY <1>1 DEF PadState

LEMMA AdvanceGoesOn ==
  ASSUME NEW s \in PadState, NEW n \in 0 .. 8, s.step < n
  PROVE  /\ Advance(s, n).pad \in PadState /\ Advance(s, n).pad.step = s.step + 1
         /\ Advance(s, n).pad.in_config = s.in_config /\ Advance(s, n).pad.analog = s.analog
         /\ Advance(s, n).ack
<1>1. s.step + 1 \in 0 .. 8
  BY DEF PadState
<1>2. Advance(s, n).pad = [s EXCEPT !.step = s.step + 1]
  BY DEF Advance, PadState
<1>3. Advance(s, n).ack
  BY DEF Advance, PadState
<1> QED
  BY <1>1, <1>2, <1>3 DEF PadState

LEMMA AdvanceStep ==
  ASSUME NEW s \in PadState, NEW n \in 0 .. 8, s.step <= n
  PROVE  /\ Advance(s, n).pad \in PadState
         /\ Advance(s, n).pad.in_config = s.in_config /\ Advance(s, n).pad.analog = s.analog
         /\ s.step = n => Advance(s, n).pad.step = 0
         /\ s.step < n => Advance(s, n).pad.step = s.step + 1 /\ Advance(s, n).ack
<1>1. s.step = n \/ s.step < n
  BY DEF PadState
<1> QED
  BY <1>1, AdvanceEnds, AdvanceGoesOn

(* A byte from the third on: the packet goes one step further, or ends     *)
(* where the mode its bytes are answered in says.                          *)
Continues(p, q) ==
  /\ q \in PadState /\ q.in_config = p.in_config
  /\ ~p.in_config => q.analog = p.analog
  /\ q.step = 0 \/ q.step = p.step + 1
  /\ p.in_config \/ p.analog => (q.step = 0 <=> p.step = 8)
  /\ ~p.in_config /\ ~p.analog => (q.step = 0 <=> p.step >= 4)

LEMMA AdvanceToEight ==
  ASSUME NEW s \in PadState
  PROVE  /\ Advance(s, 8).pad \in PadState
         /\ Advance(s, 8).pad.in_config = s.in_config /\ Advance(s, 8).pad.analog = s.analog
         /\ s.step = 8 => Advance(s, 8).pad.step = 0
         /\ s.step < 8 => Advance(s, 8).pad.step = s.step + 1 /\ Advance(s, 8).ack
<1>1. 8 \in 0 .. 8 /\ s.step <= 8
  BY DEF PadState
<1> QED
  BY <1>1, AdvanceStep

LEMMA DataByteEnds ==
  ASSUME NEW p \in PadState, NEW b \in PadBytes, p.step > 2
  PROVE  Continues(p, DataByte(p, b).pad)
<1> DEFINE q == EnterConfig(p, b)
           r == IF q.cmd = "42" THEN CaptureRumble(q, b) ELSE q
           last == IF r.analog THEN 8 ELSE IF r.step < 4 THEN 4 ELSE r.step
           c == ConfigCommand(p, b)
<1>1. SamePacket(p, q) /\ q.analog = p.analog
  BY EnterConfigSame
<1>2. SamePacket(q, r) /\ r.analog = q.analog
  BY <1>1, CaptureRumbleSame DEF SamePacket
<1>3. r \in PadState /\ r.step = p.step /\ r.in_config = p.in_config /\ r.analog = p.analog
  BY <1>1, <1>2 DEF SamePacket
<1>4. p.step \in 3 .. 8
  BY DEF PadState
<1>5. CASE p.in_config
  <2>1. DataByte(p, b) = Advance(c, 8)
    BY <1>5 DEF DataByte
  <2>2. c \in PadState /\ c.step = p.step /\ c.in_config = p.in_config
    BY ConfigCommandSame DEF SamePacket
  <2> HIDE DEF c
  <2>3. /\ Advance(c, 8).pad \in PadState /\ Advance(c, 8).pad.in_config = c.in_config
        /\ c.step = 8 => Advance(c, 8).pad.step = 0
        /\ c.step < 8 => Advance(c, 8).pad.step = c.step + 1
    BY <1>4, <2>2, AdvanceToEight
  <2> DEFINE d == DataByte(p, b).pad
  <2>4. /\ d \in PadState /\ d.in_config = p.in_config
        /\ p.step = 8 => d.step = 0
        /\ p.step < 8 => d.step = p.step + 1
    BY <2>1, <2>2, <2>3
  <2> HIDE DEF d
  <2>5. /\ d.step = 0 \/ d.step = p.step + 1
        /\ d.step = 0 <=> p.step = 8
    BY <1>4, <2>4
  <2> QED
    BY <1>5, <2>4, <2>5 DEF Continues, d
<1>6. CASE ~p.in_config
  <2>1. DataByte(p, b) = Advance(r, last)
    BY <1>6 DEF DataByte
  <2>2. last \in 0 .. 8 /\ r.step <= last /\ (p.analog => last = 8)
        /\ (~p.analog /\ p.step < 4 => last = 4) /\ (~p.analog /\ p.step >= 4 => last = p.step)
    BY <1>3, <1>4
  <2> HIDE DEF last, r
  <2>3. /\ Advance(r, last).pad \in PadState /\ Advance(r, last).pad.in_config = r.in_config
        /\ Advance(r, last).pad.analog = r.analog
        /\ r.step = last => Advance(r, last).pad.step = 0
        /\ r.step < last => Advance(r, last).pad.step = r.step + 1
    BY <1>3, <2>2, AdvanceStep
  <2> QED
    BY <1>3, <1>4, <1>6, <2>1, <2>2, <2>3 DEF Continues
<1> QED
  BY <1>5, <1>6

(* A byte to the pad, from any step.                                       *)
LEMMA TransferStep ==
  ASSUME NEW p0 \in PadState, NEW b \in PadBytes, NEW gap \in BOOLEAN
  PROVE  LET r == PadTransfer(p0, b, gap)
         IN /\ r.pad \in PadState
            /\ p0.step = 0 => (r.ack => r.pad.step = 1) /\ (~r.ack => r.pad.step = 0)
            /\ p0.step = 1 => (r.ack => r.pad.step = 2) /\ (~r.ack => r.pad.step = 1)
            /\ p0.step > 1 => Continues(Watchdog(p0, gap), r.pad)
<1> DEFINE p == Watchdog(p0, gap)
           r == PadTransfer(p0, b, gap)
<1>1. p \in PadState /\ p.step = p0.step /\ p.step \in 0 .. 8
  BY WatchdogSame DEF SamePacket, PadState
<1>2. r = CASE p.step = 0 -> IF b = "01" THEN Advance([p EXCEPT !.cmd = "NONE"], 8) ELSE EndPacket(p)
    [] p.step = 1 ->
         IF b \in Config /\ p.config THEN Advance([[p EXCEPT !.cmd = b] EXCEPT !.in_config = TRUE], 8)
         ELSE IF b \in {"42", "43"} THEN Advance([[p EXCEPT !.cmd = b] EXCEPT !.in_config = FALSE], 8)
         ELSE EndPacket([p EXCEPT !.cmd = b])
    [] p.step = 2 -> Advance(p, 8)
    [] OTHER -> DataByte(p, b)
  BY DEF PadTransfer
<1> HIDE DEF p, r
<1>3. CASE p.step = 0
  <2> DEFINE q == [p EXCEPT !.cmd = "NONE"]
  <2>1. q \in PadState /\ q.step = 0
    BY <1>1, <1>3 DEF PadState
  <2>2. \/ r = Advance(q, 8) \/ r = EndPacket(p)
    BY <1>2, <1>3
  <2> HIDE DEF q
  <2>3. Advance(q, 8).pad \in PadState /\ Advance(q, 8).pad.step = 1 /\ Advance(q, 8).ack
    BY <2>1, AdvanceToEight
  <2> QED
    BY <1>1, <1>3, <2>2, <2>3 DEF EndPacket, r
<1>4. CASE p.step = 1
  <2> DEFINE q == [p EXCEPT !.cmd = b]
  <2>1. q \in PadState /\ q.step = 1
    BY <1>1, <1>4 DEF PadState
  <2>2. \/ r = Advance([q EXCEPT !.in_config = TRUE], 8)
        \/ r = Advance([q EXCEPT !.in_config = FALSE], 8)
        \/ r = EndPacket(q)
    BY <1>2, <1>4
  <2> HIDE DEF q
  <2>3. \A v \in BOOLEAN : [q EXCEPT !.in_config = v] \in PadState
                          /\ [q EXCEPT !.in_config = v].step = 1
    BY <2>1 DEF PadState
  <2>4. \A s \in PadState : s.step = 1 =>
          Advance(s, 8).pad \in PadState /\ Advance(s, 8).pad.step = 2 /\ Advance(s, 8).ack
    BY AdvanceToEight
  <2>5. EndPacket(q).pad = q /\ ~EndPacket(q).ack
    BY DEF EndPacket
  <2>6. r.pad \in PadState /\ (r.ack => r.pad.step = 2) /\ (~r.ack => r.pad.step = 1)
    BY <2>1, <2>2, <2>3, <2>4, <2>5
  <2> QED
    BY <1>1, <1>4, <2>6 DEF r
<1>5. CASE p.step = 2
  <2>1. r = Advance(p, 8)
    BY <1>2, <1>5
  <2>2. /\ r.pad \in PadState /\ r.pad.in_config = p.in_config /\ r.pad.analog = p.analog
        /\ r.pad.step = 3 /\ r.ack
    BY <1>1, <1>5, <2>1, AdvanceToEight
  <2> QED
    BY <1>1, <1>5, <2>2 DEF Continues, r, p
<1>6. CASE p.step > 2
  <2>1. r = DataByte(p, b)
    BY <1>1, <1>2, <1>6
  <2>2. Continues(p, r.pad)
    BY <1>1, <1>6, <2>1, DataByteEnds
  <2> QED
    BY <1>1, <1>6, <2>2 DEF Continues, r, p
<1> QED
  BY <1>1, <1>3, <1>4, <1>5, <1>6

LEMMA PadByteKeeps ==
  ASSUME PadIInv, NEW b \in PadBytes, NEW gap \in BOOLEAN, PadByte(b, gap)
  PROVE  PadIInv'
<1> DEFINE p == Watchdog(pad, gap)
           r == PadTransfer(pad, b, gap)
           Packets == [id : Ids \cup {"NONE"}, sent : 0 .. 9, switched : BOOLEAN]
<1>1. pad \in PadState /\ pad.step \in 0 .. 8 /\ packet \in Packets /\ "NONE" \notin Ids
  BY DEF PadIInv, PadTypeOK, PadState, Ids
<1>2. p.step = pad.step /\ p.in_config = pad.in_config
  BY <1>1, WatchdogSame DEF SamePacket
<1>3. pad' = r.pad
  BY DEF PadByte
<1>4. /\ pad' \in PadState
      /\ pad.step = 0 => (r.ack => pad'.step = 1) /\ (~r.ack => pad'.step = 0)
      /\ pad.step = 1 => (r.ack => pad'.step = 2) /\ (~r.ack => pad'.step = 1)
      /\ pad.step > 1 => Continues(p, pad')
  BY <1>1, <1>3, TransferStep
<1>5. packet' =
        CASE pad.step = 0 -> IF r.ack THEN [NoPacket EXCEPT !.sent = 1] ELSE packet
          [] pad.step = 1 /\ r.ack -> [packet EXCEPT !.id = AnnouncedId(pad'), !.sent = 2]
          [] pad.step = 1 /\ ~r.ack -> packet
          [] OTHER -> [packet EXCEPT !.sent = @ + 1, !.switched = @ \/ p.analog # pad.analog]
  BY <1>3 DEF PadByte
<1> HIDE DEF p, r
<1>6. CASE (pad.step = 0 \/ pad.step = 1) /\ ~r.ack
  <2>1. packet' = packet /\ pad'.step = pad.step
    BY <1>4, <1>5, <1>6
  <2> QED
    BY <1>1, <1>4, <1>6, <2>1 DEF PadIInv, PadTypeOK, PacketIsTracked
<1>7. CASE pad.step = 0 /\ r.ack
  <2>1. packet' = [NoPacket EXCEPT !.sent = 1] /\ pad'.step = 1
    BY <1>4, <1>5, <1>7
  <2>2. packet' = [id |-> "NONE", sent |-> 1, switched |-> FALSE]
    BY <2>1 DEF NoPacket
  <2>3. packet' \in Packets /\ packet'.id = "NONE" /\ packet'.sent = 1
    <3>1. 1 \in 0 .. 9
      OBVIOUS
    <3> QED
      BY <2>2, <3>1
  <2> QED
    BY <1>4, <2>1, <2>3 DEF PadIInv, PadTypeOK, PacketIsTracked
<1>8. CASE pad.step = 1 /\ r.ack
  <2> DEFINE id == AnnouncedId(pad')
  <2>1. packet' = [packet EXCEPT !.id = id, !.sent = 2] /\ pad'.step = 2
    BY <1>4, <1>5, <1>8
  <2>2. /\ id \in Ids
        /\ id = "CONFIG" <=> pad'.in_config
        /\ id # "CONFIG" => (id = "DIGITAL" <=> ~pad'.analog)
    BY <1>4 DEF AnnouncedId, PadMode, Ids, PadState
  <2> HIDE DEF id
  <2>0. id \in Ids \cup {"NONE"} /\ 2 \in 0 .. 9
    BY <2>2
  <2>3. packet' \in Packets /\ packet'.id = id /\ packet'.sent = 2
    BY <1>1, <2>0, <2>1
  <2> QED
    BY <1>1, <1>4, <2>1, <2>2, <2>3 DEF PadIInv, PadTypeOK, PacketIsTracked
<1>9. CASE pad.step > 1
  <2> DEFINE sw == packet.switched \/ p.analog # pad.analog
             n  == packet.sent + 1
  <2>1. packet' = [packet EXCEPT !.sent = n, !.switched = sw]
    BY <1>1, <1>5, <1>9
  <2>2. packet.sent = pad.step
    BY <1>1, <1>9 DEF PadIInv, PacketIsTracked
  <2>3. n = pad.step + 1 /\ n \in 0 .. 9 /\ sw \in BOOLEAN
        /\ (~sw => ~packet.switched /\ p.analog = pad.analog)
    BY <1>1, <2>2
  <2> HIDE DEF n, sw
  <2>4. packet' \in Packets /\ packet'.id = packet.id /\ packet'.sent = n /\ packet'.switched = sw
    BY <1>1, <2>1, <2>3
  <2>5. packet.id # "NONE" /\ (~packet.switched =>
          /\ packet.id = "CONFIG" <=> pad.in_config
          /\ packet.id # "CONFIG" => (packet.id = "DIGITAL" <=> ~pad.analog)
          /\ packet.id = "DIGITAL" => pad.step <= 4)
    BY <1>1, <1>9 DEF PadIInv, PacketIsTracked
  <2>6. PacketIsTracked'
    BY <1>1, <1>2, <1>4, <1>9, <2>3, <2>4, <2>5 DEF PacketIsTracked, Length, Continues
  <2> QED
    BY <1>4, <2>4, <2>6 DEF PadIInv, PadTypeOK
<1> QED
  BY <1>1, <1>4, <1>6, <1>7, <1>8, <1>9

LEMMA PadInitIInv == PadInit => PadIInv
BY DEF PadInit, PadIInv, PadTypeOK, PacketIsTracked, PadReset, NoPacket, PadState

LEMMA PadStep == PadIInv /\ [PadNext]_pad_vars => PadIInv'
<1> SUFFICES ASSUME PadIInv, [PadNext]_pad_vars PROVE PadIInv'
  OBVIOUS
<1>1. ASSUME NEW b \in PadBytes, NEW gap \in BOOLEAN, PadByte(b, gap) PROVE PadIInv'
  BY <1>1, PadByteKeeps
<1>2. CASE PadReleased
  <2>1. pad' = [pad EXCEPT !.step = 0] /\ packet' = NoPacket /\ pad \in PadState
    BY <1>2 DEF PadReleased, PadDeselect, PadIInv, PadTypeOK
  <2>2. pad' \in PadState /\ pad'.step = 0
    BY <2>1 DEF PadState
  <2> QED
    BY <2>1, <2>2 DEF PadIInv, PadTypeOK, PacketIsTracked, NoPacket
<1>3. CASE AnalogButton
  <2>1. PICK mode : pad' = SetPadMode(pad, mode)
                    /\ packet' = [packet EXCEPT !.switched = @ \/ pad'.analog # pad.analog]
    BY <1>3 DEF AnalogButton
  <2>2. SamePacket(pad, pad')
    BY <2>1, SetPadModeSame DEF PadIInv, PadTypeOK
  <2>3. /\ packet' \in [id : Ids \cup {"NONE"}, sent : 0 .. 9, switched : BOOLEAN]
        /\ packet'.id = packet.id /\ packet'.sent = packet.sent
        /\ ~packet'.switched => ~packet.switched /\ pad'.analog = pad.analog
    BY <2>1 DEF PadIInv, PadTypeOK
  <2> QED
    BY <2>2, <2>3 DEF SamePacket, PadIInv, PadTypeOK, PacketIsTracked
<1>4. CASE UNCHANGED pad_vars
  BY <1>4 DEF pad_vars, PadIInv, PadTypeOK, PacketIsTracked
<1> QED
  BY <1>1, <1>2, <1>3, <1>4 DEF PadNext

(* Every packet is as long as its ID says, for any bytes, and any rumble   *)
(* steps followed: whatever the packet's own bytes switch                  *)
(* (sio_controller_transfer), until the user or the watchdog steps in.     *)
THEOREM PacketsAreWhole == PadSpec => [](PadTypeOK /\ PacketMatchesItsId)
<1>1. PadIInv => PadTypeOK /\ PacketMatchesItsId
  <2> SUFFICES ASSUME PadIInv PROVE PacketMatchesItsId
    BY DEF PadIInv
  <2>1. pad.step \in 0 .. 8 /\ packet.id \in Ids \cup {"NONE"}
    BY DEF PadIInv, PadTypeOK, PadState
  <2> QED
    BY <2>1 DEF PadIInv, PacketIsTracked, PacketMatchesItsId, Length, Ids
<1> QED
  BY <1>1, PadInitIInv, PadStep, PTL DEF PadSpec

-----------------------------------------------------------------------------
(* Sio: a card changes only by a packet sent whole.                        *)

Steps    == 0 .. SectorBytes + 10 \cup {Done}
PadSteps == 0 .. 8
Wires    == SioBytes \cup {None}
CardSets == [Slots -> CardState]
Actives  == Slots \cup {0}
Buses    ==
  [ctrl : CtrlBits, tx : Wires, latched : BOOLEAN, phase : {"IDLE", "SHIFTING"}, wire : Wires,
   addressed : {None, "CONTROLLER", "MEMCARD"}, active : Actives,
   pad_step : PadSteps, mc_step : Steps, mc_cmd : Wires, sector_valid : BOOLEAN,
   cards : CardSets]

(* The last step of each command.                                          *)
LastStep(cmd) == IF cmd = "53" THEN 10 ELSE IF cmd = "57" THEN SectorBytes + 8 ELSE SectorBytes + 10

(* A card that is addressed is at the step the guest's bytes have led to.  *)
Tracked(s, h) ==
  s.addressed = "MEMCARD" =>
    /\ s.active \in Slots /\ h.slot = s.active
    /\ s.mc_step < Done
    /\ s.mc_step > 0 => h.cmd = s.mc_cmd /\ s.mc_cmd \in Commands /\ s.mc_step <= LastStep(s.mc_cmd)
    /\ s.mc_cmd = "53" /\ s.mc_step > 2 => h.bytes = s.mc_step - 2 /\ s.mc_step >= 5
    /\ ~(s.mc_cmd = "53" /\ s.mc_step > 2) => h.bytes = s.mc_step

SioIInv == SioTypeOK /\ Tracked(sio, heard)

LEMMA BusesAre == SioState = Buses
BY DEF SioState, Buses, Steps, PadSteps, Wires, CardSets, Actives

(* What the bus does without the card.                                     *)
SameCard(s, t) ==
  /\ t \in Buses /\ t.addressed = s.addressed /\ t.active = s.active /\ t.mc_step = s.mc_step
  /\ t.mc_cmd = s.mc_cmd /\ t.sector_valid = s.sector_valid /\ t.cards = s.cards

LEMMA StartShiftSame ==
  ASSUME NEW s \in Buses PROVE SameCard(s, StartShift(s)) /\ StartShift(s).ctrl = s.ctrl
<1>1. None \in Wires
  BY DEF Wires
<1> DEFINE t == [s EXCEPT !.phase = "SHIFTING", !.wire = s.tx, !.tx = None, !.latched = FALSE]
<1>2. SameCard(s, t) /\ t.ctrl = s.ctrl
  BY <1>1 DEF SameCard, Buses
<1>3. SameCard(s, s)
  BY DEF SameCard
<1> HIDE DEF t
<1> QED
  BY <1>2, <1>3 DEF StartShift, t

LEMMA ReleaseBusSame ==
  ASSUME NEW s \in Buses PROVE SameCard(s, ReleaseBus(s))
BY DEF ReleaseBus, SameCard, Buses

LEMMA ReleaseCsFrees ==
  ASSUME NEW s \in Buses
  PROVE  ReleaseCs(s) \in Buses /\ ReleaseCs(s).addressed = None /\ ReleaseCs(s).cards = s.cards
<1>1. 0 \in Actives /\ 0 \in Steps /\ 0 \in PadSteps
  BY SioConstants DEF Actives, Steps, PadSteps
<1> QED
  BY <1>1 DEF ReleaseCs, Buses

LEMMA TrackedSame ==
  ASSUME NEW s, NEW t, NEW h, SameCard(s, t), Tracked(s, h) PROVE Tracked(t, h)
BY DEF SameCard, Tracked

LEMMA FreeIsTracked ==
  ASSUME NEW s, NEW h, s.addressed = None PROVE Tracked(s, h)
BY DEF Tracked, None
-----------------------------------------------------------------------------
(* One byte to the card, as far as the packet and the card's contents go.  *)
Stepped(s, b, t) ==
  /\ t \in Buses /\ t.addressed = s.addressed /\ t.active = s.active
  /\ t.mc_cmd = (IF s.mc_step = 0 THEN b ELSE s.mc_cmd)
  /\ t.mc_step # Done =>
       /\ s.mc_step = 0 => b \in Commands
       /\ s.mc_step > 0 => s.mc_step # LastStep(s.mc_cmd)
       /\ s.mc_step = 2 /\ s.mc_cmd = "53" => t.mc_step = 5
       /\ ~(s.mc_step = 2 /\ s.mc_cmd = "53") => t.mc_step = s.mc_step + 1
  /\ \A k \in Slots : t.cards[k].data # s.cards[k].data =>
       k = s.active /\ s.mc_step = SectorBytes + 5 /\ s.mc_cmd = "57" /\ s.sector_valid

(* A card in mid packet, before the byte.                                  *)
InPacket(s) ==
  /\ s \in Buses /\ s.active \in Slots /\ s.mc_step < Done
  /\ s.mc_step > 0 => s.mc_cmd \in Commands /\ s.mc_step <= LastStep(s.mc_cmd)

LEMMA StepBounds ==
  ASSUME NEW s, InPacket(s)
  PROVE  /\ s.mc_step \in Nat /\ LastStep(s.mc_cmd) \in Nat /\ LastStep(s.mc_cmd) <= SectorBytes + 10
         /\ SectorBytes \in Nat \ {0} /\ 9 < SectorBytes + 9
         /\ LastStep(s.mc_cmd) > 5
         /\ s.mc_step < LastStep(s.mc_cmd) => s.mc_step + 1 \in Steps
         /\ {1, 3, 4, 5, Done} \subseteq Steps
<1>1. s.mc_step \in Steps /\ SectorBytes \in Nat \ {0}
  BY SioConstants DEF InPacket, Buses
<1>2. s.mc_step \in Nat
  BY <1>1 DEF Steps, Done
<1>3. LastStep(s.mc_cmd) \in Nat /\ LastStep(s.mc_cmd) <= SectorBytes + 10 /\ LastStep(s.mc_cmd) > 5
  BY <1>1 DEF LastStep
<1>4. {1, 3, 4, 5, Done} \subseteq Steps
  BY <1>1 DEF Steps
<1>5. s.mc_step < LastStep(s.mc_cmd) => s.mc_step + 1 \in Steps
  BY <1>1, <1>2, <1>3 DEF Steps
<1> QED
  BY <1>1, <1>2, <1>3, <1>4, <1>5

LEMMA FinishSteps ==
  ASSUME NEW s, InPacket(s), NEW b \in Wires
  PROVE  /\ s.mc_step > 0 => Stepped(s, b, Finish(s))
         /\ s.mc_step = 0 => Stepped(s, b, Finish([s EXCEPT !.mc_cmd = b]))
<1>1. Done \in Steps /\ s \in Buses /\ s.mc_step \in Nat
  BY StepBounds DEF InPacket
<1>2. /\ Finish(s) \in Buses /\ Finish(s).addressed = s.addressed /\ Finish(s).active = s.active
      /\ Finish(s).mc_cmd = s.mc_cmd /\ Finish(s).mc_step = Done /\ Finish(s).cards = s.cards
  BY <1>1 DEF Finish, Buses
<1> DEFINE t == Finish([s EXCEPT !.mc_cmd = b])
<1>3. /\ t \in Buses /\ t.addressed = s.addressed /\ t.active = s.active
      /\ t.mc_cmd = b /\ t.mc_step = Done /\ t.cards = s.cards
  BY <1>1 DEF Finish, Buses
<1> HIDE DEF t
<1>4. s.mc_step > 0 => Stepped(s, b, Finish(s))
  BY <1>1, <1>2 DEF Stepped
<1>5. s.mc_step = 0 => Stepped(s, b, t)
  BY <1>3 DEF Stepped
<1> QED
  BY <1>4, <1>5 DEF t

LEMMA NextSteps ==
  ASSUME NEW s, InPacket(s), NEW b \in Wires, s.mc_step > 0, s.mc_step # LastStep(s.mc_cmd),
         ~(s.mc_step = 2 /\ s.mc_cmd = "53")
  PROVE  Stepped(s, b, Next1(s))
<1>1. s.mc_step + 1 \in Steps /\ s \in Buses /\ s.mc_step \in Nat
  BY StepBounds DEF InPacket
<1>2. /\ Next1(s) \in Buses /\ Next1(s).addressed = s.addressed /\ Next1(s).active = s.active
      /\ Next1(s).mc_cmd = s.mc_cmd /\ Next1(s).mc_step = s.mc_step + 1 /\ Next1(s).cards = s.cards
  BY <1>1 DEF Next1, Buses
<1> QED
  BY <1>1, <1>2 DEF Stepped

LEMMA HeaderSteps ==
  ASSUME NEW s, InPacket(s), NEW b \in Wires, s.mc_step < 5
  PROVE  Stepped(s, b, CardHeader(s, b))
<1>0. /\ s \in Buses /\ s.mc_step \in 0 .. 4 /\ {1, 3, 4, 5, Done} \subseteq Steps
      /\ LastStep(s.mc_cmd) > 5 /\ LastStep(s.mc_cmd) \in Nat
  BY StepBounds DEF InPacket
<1>1. CASE s.mc_step = 0 /\ b \notin Commands
  <2>1. CardHeader(s, b) = Finish([s EXCEPT !.mc_cmd = b])
    BY <1>1 DEF CardHeader
  <2> QED
    BY <1>1, <2>1, FinishSteps
<1>2. CASE s.mc_step = 0 /\ b \in Commands
  <2> DEFINE u == [s EXCEPT !.mc_cmd = b]
             t == [u EXCEPT !.mc_step = 1]
  <2>0. /\ u \in Buses /\ u.addressed = s.addressed /\ u.active = s.active
        /\ u.mc_cmd = b /\ u.mc_step = 0 /\ u.cards = s.cards
    BY <1>0, <1>2 DEF Buses
  <2>1. CardHeader(s, b) = t
    <3>1. CardHeader(s, b) = Next1(u)
      BY <1>2 DEF CardHeader
    <3> HIDE DEF u
    <3> QED
      BY <2>0, <3>1 DEF Next1
  <2> HIDE DEF u
  <2>2. /\ t \in Buses /\ t.addressed = s.addressed /\ t.active = s.active
        /\ t.mc_cmd = b /\ t.mc_step = 1 /\ t.cards = s.cards
    BY <1>0, <2>0 DEF Buses
  <2> HIDE DEF t
  <2> QED
    BY <1>2, <2>1, <2>2 DEF Stepped
<1>3. CASE s.mc_step = 2
  <2> DEFINE n == IF s.mc_cmd = "53" THEN 5 ELSE 3
             t == [s EXCEPT !.mc_step = n]
  <2>1. CardHeader(s, b) = t
    BY <1>3 DEF CardHeader
  <2>2. n \in Steps
    BY <1>0
  <2>3. /\ t \in Buses /\ t.addressed = s.addressed /\ t.active = s.active
        /\ t.mc_cmd = s.mc_cmd /\ t.mc_step = n /\ t.cards = s.cards
    <3> HIDE DEF n
    <3> QED
      BY <1>0, <2>2 DEF Buses
  <2> HIDE DEF t
  <2> QED
    BY <1>0, <1>3, <2>1, <2>3 DEF Stepped
<1>4. CASE s.mc_step = 3
  <2> DEFINE v == b # "81"
             u == [s EXCEPT !.sector_valid = v]
             t == [u EXCEPT !.mc_step = 4]
  <2>0. v \in BOOLEAN
    OBVIOUS
  <2>1. CardHeader(s, b) = Next1(u)
    BY <1>4 DEF CardHeader
  <2> HIDE DEF v
  <2>2. /\ u \in Buses /\ u.addressed = s.addressed /\ u.active = s.active
        /\ u.mc_cmd = s.mc_cmd /\ u.mc_step = 3 /\ u.cards = s.cards
    BY <1>0, <1>4, <2>0 DEF Buses
  <2> HIDE DEF u
  <2>4. CardHeader(s, b) = t
    BY <2>1, <2>2 DEF Next1
  <2>3. /\ t \in Buses /\ t.addressed = s.addressed /\ t.active = s.active
        /\ t.mc_cmd = s.mc_cmd /\ t.mc_step = 4 /\ t.cards = s.cards
    BY <1>0, <2>2 DEF Buses
  <2> HIDE DEF t
  <2> QED
    BY <1>0, <1>4, <2>4, <2>3 DEF Stepped
<1>5. CASE s.mc_step \in {1, 4}
  <2>1. CardHeader(s, b) = Next1(s)
    BY <1>5 DEF CardHeader
  <2> QED
    BY <1>0, <1>5, <2>1, NextSteps
<1> QED
  BY <1>0, <1>1, <1>2, <1>3, <1>4, <1>5

LEMMA WriteSteps ==
  ASSUME NEW s, InPacket(s), NEW b \in Wires, NEW matches \in BOOLEAN, s.mc_step >= 5,
         s.mc_cmd = "57"
  PROVE  Stepped(s, b, CardWrite(s, matches))
<1>0. s \in Buses /\ s.active \in Slots /\ s.mc_step \in Nat /\ LastStep(s.mc_cmd) = SectorBytes + 8
      /\ SectorBytes \in Nat /\ s.mc_step # 2
  BY StepBounds DEF InPacket, LastStep
<1>1. CASE s.mc_step = SectorBytes + 5 /\ matches /\ s.sector_valid
  <2> DEFINE d == 1 - s.cards[s.active].data
             c == [s.cards[s.active] EXCEPT !.data = d]
             e == [s.cards EXCEPT ![s.active] = c]
             n == s.mc_step + 1
             t == [s EXCEPT !.cards = e, !.mc_step = n]
  <2>1. s.cards \in CardSets /\ s.cards[s.active] \in CardState
    BY <1>0 DEF Buses, CardSets
  <2>2. d \in 0 .. 1
    <3>1. s.cards[s.active].data \in 0 .. 1
      BY <2>1 DEF CardState
    <3> DEFINE x == s.cards[s.active].data
    <3>2. x \in 0 .. 1
      BY <3>1
    <3> HIDE DEF x
    <3>3. 1 - x \in 0 .. 1
      BY <3>2
    <3> QED
      BY <3>3 DEF x
  <2>3. c \in CardState
    <3> HIDE DEF d
    <3> QED
      BY <2>1, <2>2 DEF CardState
  <2>4. e \in CardSets /\ \A k \in Slots : k # s.active => e[k] = s.cards[k]
    <3> HIDE DEF c
    <3> QED
      BY <1>0, <2>1, <2>3 DEF CardSets
  <2>5. n \in Steps
    BY <1>0, <1>1 DEF Steps
  <2>6. CardWrite(s, matches) = t
    <3> DEFINE u == [s EXCEPT !.cards[s.active].data = 1 - @]
    <3>1. CardWrite(s, matches) = Next1(u)
      BY <1>0, <1>1 DEF CardWrite
    <3>2. u = [s EXCEPT !.cards = e]
      BY <1>0 DEF Buses
    <3> HIDE DEF u, e
    <3>3. Next1(u) = [s EXCEPT !.cards = e, !.mc_step = s.mc_step + 1]
      BY <1>0, <3>2 DEF Next1, Buses
    <3> QED
      BY <3>1, <3>3
  <2> HIDE DEF e
  <2>7. /\ t \in Buses /\ t.addressed = s.addressed /\ t.active = s.active
        /\ t.mc_cmd = s.mc_cmd /\ t.mc_step = n /\ t.cards = e
    <3> HIDE DEF n
    <3> QED
      BY <1>0, <2>4, <2>5 DEF Buses
  <2> HIDE DEF t
  <2>8. \A k \in Slots : t.cards[k].data # s.cards[k].data => k = s.active
    BY <2>4, <2>7
  <2>9. s.mc_step # 0 /\ s.mc_step # 2 /\ s.mc_step # LastStep(s.mc_cmd) /\ n = s.mc_step + 1
    BY <1>0, <1>1
  <2> HIDE DEF n, d, c
  <2>10. t.mc_cmd = IF s.mc_step = 0 THEN b ELSE s.mc_cmd
    BY <2>7, <2>9
  <2>11. t.mc_step = s.mc_step + 1
    BY <2>7, <2>9
  <2>12. \A k \in Slots : t.cards[k].data # s.cards[k].data =>
           k = s.active /\ s.mc_step = SectorBytes + 5 /\ s.mc_cmd = "57" /\ s.sector_valid
    BY <1>1, <2>8
  <2>13. Stepped(s, b, t)
    BY <2>7, <2>9, <2>10, <2>11, <2>12, Zenon DEF Stepped
  <2> QED
    BY <2>6, <2>13
<1>2. CASE ~(s.mc_step = SectorBytes + 5 /\ matches /\ s.sector_valid)
           /\ s.mc_step = SectorBytes + 8
  <2>1. CardWrite(s, matches) = Finish(s)
    BY <1>0, <1>2 DEF CardWrite
  <2>2. s.mc_step > 0
    BY <1>0, <1>2
  <2> QED
    BY <2>1, <2>2, FinishSteps
<1>3. CASE ~(s.mc_step = SectorBytes + 5 /\ matches /\ s.sector_valid)
           /\ s.mc_step # SectorBytes + 8
  <2>1. CardWrite(s, matches) = Next1(s)
    BY <1>0, <1>3 DEF CardWrite
  <2> QED
    BY <1>0, <1>3, <2>1, NextSteps
<1> QED
  BY <1>1, <1>2, <1>3

LEMMA DataSteps ==
  ASSUME NEW s, InPacket(s), NEW b \in Wires, NEW matches \in BOOLEAN, s.mc_step >= 5
  PROVE  Stepped(s, b, CardData(s, matches))
<1>0. s.mc_step \in Nat /\ s.mc_step > 0 /\ s.mc_step # 2 /\ SectorBytes \in Nat
      /\ s.mc_cmd \in Commands
  BY StepBounds DEF InPacket
<1>1. CASE s.mc_cmd = "57"
  <2>1. CardData(s, matches) = CardWrite(s, matches)
    BY <1>1 DEF CardData
  <2> QED
    BY <1>1, <2>1, WriteSteps
<1>2. CASE s.mc_cmd = "52"
  <2>1. CardData(s, matches) = CardRead(s)
    BY <1>2 DEF CardData
  <2>2. LastStep(s.mc_cmd) = SectorBytes + 10
    BY <1>2 DEF LastStep
  <2>3. CardRead(s) = Finish(s) \/ (CardRead(s) = Next1(s) /\ s.mc_step # SectorBytes + 10)
    BY <1>0 DEF CardRead
  <2> QED
    BY <1>0, <2>1, <2>2, <2>3, FinishSteps, NextSteps
<1>3. CASE s.mc_cmd = "53"
  <2>1. CardData(s, matches) = CardGetId(s)
    BY <1>3 DEF CardData
  <2>2. LastStep(s.mc_cmd) = 10
    BY <1>3 DEF LastStep
  <2>3. CardGetId(s) = Finish(s) \/ (CardGetId(s) = Next1(s) /\ s.mc_step # 10)
    BY DEF CardGetId
  <2> QED
    BY <1>0, <2>1, <2>2, <2>3, FinishSteps, NextSteps
<1> QED
  BY <1>0, <1>1, <1>2, <1>3 DEF Commands

LEMMA CardExchangeSteps ==
  ASSUME NEW s, InPacket(s), NEW b \in Wires, NEW matches \in BOOLEAN
  PROVE  LET r == CardExchange(s, b, matches)
         IN Stepped(s, b, r.bus) /\ (r.ack <=> r.bus.mc_step # Done)
<1> DEFINE t == IF s.mc_step = Done THEN s
                ELSE IF s.mc_step < 5 THEN CardHeader(s, b) ELSE CardData(s, matches)
<1>0. s.mc_step \in Nat /\ s.mc_step < Done /\ Done \in Nat /\ s.mc_step # Done
  BY StepBounds DEF InPacket, Done
<1>1. CardExchange(s, b, matches) = IF t.mc_step = Done THEN Nack(t) ELSE Ack(t)
  BY DEF CardExchange
<1>2. Stepped(s, b, t)
  <2>1. CASE s.mc_step < 5
    <3>1. t = CardHeader(s, b)
      BY <1>0, <2>1
    <3> QED
      BY <2>1, <3>1, HeaderSteps
  <2>2. CASE s.mc_step >= 5
    <3>1. t = CardData(s, matches)
      BY <1>0, <2>2
    <3> QED
      BY <2>2, <3>1, DataSteps
  <2> QED
    BY <1>0, <2>1, <2>2
<1> HIDE DEF t
<1> QED
  BY <1>1, <1>2 DEF Ack, Nack
-----------------------------------------------------------------------------
(* The pad's bytes are nothing to the cards.                               *)
LEMMA PadSame ==
  ASSUME NEW s \in Buses, NEW b \in Wires, NEW last \in PadLast
  PROVE  SameCard(s, PadExchange(s, b, last).bus)
<1> DEFINE Step(n) == [s EXCEPT !.pad_step = n]
<1>1. \A n \in PadSteps : SameCard(s, Step(n))
  BY DEF SameCard, Buses
<1>2. SameCard(s, s)
  BY DEF SameCard
<1>3. last \in 3 .. 8 /\ s.pad_step \in 0 .. 8
  BY SioConstants DEF Buses, PadSteps
<1>4. \E n \in PadSteps : PadExchange(s, b, last) \in {Ack(s), Nack(s), Ack(Step(n)), Nack(Step(n))}
  <2>1. CASE s.pad_step = 0
    BY <2>1 DEF PadExchange, PadSteps
  <2>2. CASE s.pad_step = 1
    BY <2>2 DEF PadExchange, PadSteps
  <2>3. CASE s.pad_step > 2 /\ s.pad_step >= last
    BY <2>3, <1>3 DEF PadExchange, PadSteps
  <2>4. CASE s.pad_step = 2 \/ (s.pad_step > 2 /\ ~(s.pad_step >= last))
    <3>1. s.pad_step + 1 \in PadSteps
      BY <1>3, <2>4 DEF PadSteps
    <3>2. PadExchange(s, b, last) = Ack(Step(s.pad_step + 1))
      BY <1>3, <2>4 DEF PadExchange
    <3> QED
      BY <3>1, <3>2
  <2> QED
    BY <1>3, <2>1, <2>2, <2>3, <2>4
<1> HIDE DEF Step
<1> QED
  BY <1>1, <1>2, <1>4 DEF Ack, Nack

Notes == [slot : Actives, cmd : Wires, bytes : 0 .. SectorBytes + 11]

(* A byte exchanged: the card stays tracked as long as it acknowledges.    *)
Exchanged(s, r, h, g) ==
  /\ r.bus \in Buses /\ g \in Notes
  /\ r.ack => Tracked(r.bus, g)
  /\ \A k \in Slots : r.bus.cards[k].data # s.cards[k].data =>
       /\ h.slot = k /\ h.cmd = "57" /\ h.bytes = 5 + SectorBytes
       /\ s.sector_valid

LEMMA Silent == Silence \in Notes
BY SioConstants DEF Silence, Notes, Actives, Wires, None

(* The byte goes to the card.                                              *)
LEMMA CardByte ==
  ASSUME NEW s \in Buses, heard \in Notes, Tracked(s, heard), s.addressed = "MEMCARD",
         NEW b \in Wires, NEW matches \in BOOLEAN, NEW last
  PROVE  LET r == Exchange(s, b, last, matches) IN Exchanged(s, r, heard, Hear(b, s, r.bus))
<1> DEFINE r == CardExchange(s, b, matches)
           t == r.bus
           g == Hear(b, s, t)
<1>1. Exchange(s, b, last, matches) = r
  BY DEF Exchange
<1>2. InPacket(s)
  BY DEF Tracked, InPacket
<1>3. Stepped(s, b, t) /\ (r.ack <=> t.mc_step # Done)
  BY <1>2, CardExchangeSteps
<1>4. /\ s.mc_step \in Nat /\ LastStep(s.mc_cmd) \in Nat /\ LastStep(s.mc_cmd) <= SectorBytes + 10
      /\ SectorBytes \in Nat /\ s.mc_step < Done /\ Done \in Nat /\ s.mc_step <= SectorBytes + 10
  BY <1>2, StepBounds DEF InPacket, Done
<1> HIDE DEF r
<1>5. heard.bytes \in Nat /\ (heard.bytes = 0 <=> s.mc_step = 0) /\ heard.bytes <= s.mc_step
  BY <1>4 DEF Tracked, Notes
<1>6. g = IF s.mc_step = 0 THEN [heard EXCEPT !.cmd = b, !.bytes = 1]
          ELSE [heard EXCEPT !.bytes = heard.bytes + 1]
  BY <1>3, <1>5 DEF Hear, Stepped, None
<1>7. /\ g \in Notes /\ g.slot = heard.slot
      /\ g.bytes = heard.bytes + 1
      /\ g.cmd = IF s.mc_step = 0 THEN b ELSE heard.cmd
  <2>1. CASE s.mc_step = 0
    <3>1. 1 \in 0 .. SectorBytes + 11 /\ heard.bytes = 0
      BY <1>4, <1>5, <2>1
    <3>2. g = [heard EXCEPT !.cmd = b, !.bytes = 1]
      BY <1>6, <2>1
    <3>3. g.slot = heard.slot /\ g.bytes = 1 /\ g.cmd = b
      BY <3>2 DEF Notes
    <3>4. g \in Notes
      BY <3>1, <3>2 DEF Notes
    <3> QED
      BY <2>1, <3>1, <3>3, <3>4
  <2>2. CASE s.mc_step # 0
    <3>1. heard.bytes + 1 \in 0 .. SectorBytes + 11
      BY <1>4, <1>5
    <3> QED
      BY <1>6, <2>2, <3>1 DEF Notes
  <2> QED
    BY <2>1, <2>2
<1> HIDE DEF g
<1>8. t \in Buses /\ t.addressed = s.addressed /\ t.active = s.active
      /\ t.mc_cmd = IF s.mc_step = 0 THEN b ELSE s.mc_cmd
  BY <1>3 DEF Stepped
<1>9. ASSUME r.ack PROVE Tracked(t, g)
  <2>1. t.mc_step # Done
    BY <1>3, <1>9
  <2>2. t.active \in Slots /\ g.slot = t.active
    BY <1>2, <1>7, <1>8 DEF Tracked, InPacket
  <2>3. t.mc_cmd \in Commands /\ g.cmd = t.mc_cmd
    <3>1. CASE s.mc_step = 0
      BY <1>3, <1>7, <1>8, <2>1, <3>1 DEF Stepped
    <3>2. CASE s.mc_step # 0
      BY <1>4, <1>7, <1>8, <3>2 DEF Tracked
    <3> QED
      BY <3>1, <3>2
  <2>4. CASE s.mc_step = 2 /\ s.mc_cmd = "53"
    <3>1. t.mc_step = 5 /\ t.mc_cmd = "53"
      BY <1>3, <1>8, <2>1, <2>4 DEF Stepped
    <3>2. g.bytes = 3
      BY <1>7, <2>4 DEF Tracked
    <3> QED
      BY <1>4, <2>2, <2>3, <3>1, <3>2 DEF Tracked, LastStep, Done
  <2>5. CASE ~(s.mc_step = 2 /\ s.mc_cmd = "53")
    <3>1. t.mc_step = s.mc_step + 1
      BY <1>3, <2>1, <2>5 DEF Stepped
    <3>2. t.mc_step < Done
      BY <1>4, <2>1, <3>1
    <3>3. t.mc_step <= LastStep(t.mc_cmd)
      <4>1. CASE s.mc_step = 0
        <5>1. t.mc_step = 1
          BY <3>1, <4>1
        <5> QED
          BY <1>4, <5>1 DEF LastStep
      <4>2. CASE s.mc_step > 0
        BY <1>3, <1>4, <1>8, <2>1, <3>1, <4>2 DEF Stepped, Tracked
      <4> QED
        BY <1>4, <4>1, <4>2
    <3>4. t.mc_cmd = "53" /\ t.mc_step > 2 => g.bytes = t.mc_step - 2 /\ t.mc_step >= 5
      BY <1>4, <1>5, <1>7, <1>8, <2>5, <3>1 DEF Tracked
    <3>5. ~(t.mc_cmd = "53" /\ t.mc_step > 2) => g.bytes = t.mc_step
      BY <1>4, <1>5, <1>7, <1>8, <2>5, <3>1 DEF Tracked
    <3> QED
      BY <2>2, <2>3, <3>2, <3>3, <3>4, <3>5 DEF Tracked
  <2> QED
    BY <2>4, <2>5
<1>10. ASSUME NEW k \in Slots, t.cards[k].data # s.cards[k].data
       PROVE  /\ heard.slot = k /\ heard.cmd = "57" /\ heard.bytes = 5 + SectorBytes
              /\ s.sector_valid
  <2>1. k = s.active /\ s.mc_step = SectorBytes + 5 /\ s.mc_cmd = "57" /\ s.sector_valid
    BY <1>3, <1>10 DEF Stepped
  <2> QED
    BY <1>4, <2>1 DEF Tracked
<1> QED
  BY <1>1, <1>7, <1>8, <1>9, <1>10 DEF Exchanged, g

(* The byte goes to the pad, or to nobody yet.                             *)
LEMMA OtherByte ==
  ASSUME NEW s \in Buses, heard \in Notes, s.addressed # "MEMCARD",
         NEW b \in Wires, NEW matches \in BOOLEAN, NEW last \in PadLast
  PROVE  LET r == Exchange(s, b, last, matches) IN Exchanged(s, r, heard, Hear(b, s, r.bus))
<1> DEFINE p == PadExchange(s, b, last)
           r == Exchange(s, b, last, matches)
           g == Hear(b, s, r.bus)
<1>1. SameCard(s, p.bus)
  BY PadSame
<1> HIDE DEF p
<1>2. s.addressed \in {None, "CONTROLLER"} /\ s.ctrl.slot \in Slots
  BY DEF Buses, CtrlBits
<1>3. CASE s.addressed = "CONTROLLER"
  <2>1. r = p
    BY <1>3 DEF Exchange, p
  <2> HIDE DEF r
  <2>2. r.bus \in Buses /\ r.bus.addressed = "CONTROLLER" /\ r.bus.cards = s.cards
    BY <1>1, <1>3, <2>1 DEF SameCard
  <2>3. g = Silence
    BY <1>3, <2>2 DEF Hear
  <2> QED
    BY <2>2, <2>3, Silent DEF Exchanged, Tracked, r
<1>4. CASE s.addressed = None /\ b = "81" /\ s.cards[s.ctrl.slot].present
  <2> DEFINE a == s.ctrl.slot
             t == [s EXCEPT !.addressed = "MEMCARD", !.active = a, !.mc_step = 0]
  <2>1. r = Ack(t)
    BY <1>4 DEF Exchange, None
  <2>2. a \in Actives /\ 0 \in Steps /\ a \in Slots
    BY <1>2, SioConstants DEF Actives, Steps
  <2> HIDE DEF a
  <2>3. /\ t \in Buses /\ t.addressed = "MEMCARD" /\ t.active = a /\ t.mc_step = 0
        /\ t.cards = s.cards
    BY <2>2 DEF Buses
  <2>4. g = [slot |-> a, cmd |-> None, bytes |-> 0]
    <3>1. r.bus = t /\ t.addressed = "MEMCARD" /\ s.addressed # "MEMCARD" /\ s.addressed = None
      BY <1>4, <2>1, <2>3 DEF Ack, None
    <3> HIDE DEF t, r
    <3> QED
      BY <3>1, Zenon DEF Hear, a
  <2> HIDE DEF t, r, g
  <2>5. g \in Notes
    BY <2>2, <2>4, SioConstants DEF Notes, Wires
  <2>6. Tracked(t, g)
    BY <2>2, <2>3, <2>4 DEF Tracked, Done
  <2> QED
    BY <2>1, <2>3, <2>5, <2>6 DEF Exchanged, Ack, r, g
<1>5. CASE s.addressed = None /\ ~(b = "81" /\ s.cards[s.ctrl.slot].present)
  <2>1. r \in {Nack(s), p, Ack([p.bus EXCEPT !.addressed = "CONTROLLER"])}
    BY <1>5 DEF Exchange, p, None
  <2> HIDE DEF r
  <2>2. /\ r.bus \in Buses /\ r.bus.addressed \in {None, "CONTROLLER"} /\ r.bus.cards = s.cards
    <3>1. CASE r = Nack(s)
      BY <1>5, <3>1 DEF Nack
    <3>2. CASE r = p
      BY <1>1, <1>5, <3>2 DEF SameCard
    <3>3. CASE r = Ack([p.bus EXCEPT !.addressed = "CONTROLLER"])
      <4> DEFINE q == p.bus
      <4>1. q \in Buses /\ q.cards = s.cards
        BY <1>1 DEF SameCard
      <4> HIDE DEF q
      <4>2. [q EXCEPT !.addressed = "CONTROLLER"] \in Buses
            /\ [q EXCEPT !.addressed = "CONTROLLER"].cards = q.cards
            /\ [q EXCEPT !.addressed = "CONTROLLER"].addressed = "CONTROLLER"
        BY <4>1 DEF Buses
      <4> QED
        BY <3>3, <4>1, <4>2 DEF Ack, q
    <3> QED
      BY <2>1, <3>1, <3>2, <3>3
  <2>3. r.bus.addressed # "MEMCARD"
    BY <2>2 DEF None
  <2>4. g = Silence
    BY <1>5, <2>3 DEF Hear, None
  <2> QED
    BY <2>2, <2>3, <2>4, Silent DEF Exchanged, Tracked, r
<1> QED
  BY <1>2, <1>3, <1>4, <1>5

(* What becomes of the bus after a byte.                                   *)
LEMMA SettleKeeps ==
  ASSUME NEW r, NEW g, r.bus \in Buses, r.ack => Tracked(r.bus, g)
  PROVE  /\ Settle(r) \in Buses /\ Tracked(Settle(r), g)
         /\ Settle(r).cards = r.bus.cards
<1> DEFINE t == r.bus
<1>1. CASE r.ack
  <2> DEFINE u == ReleaseBus(t)
  <2>1. SameCard(t, u)
    BY ReleaseBusSame
  <2> HIDE DEF u
  <2>2. SameCard(u, StartShift(u))
    BY <2>1, StartShiftSame DEF SameCard
  <2>3. Settle(r) = StartShift(u)
    BY <1>1 DEF Settle, u
  <2>4. Tracked(StartShift(u), g)
    BY <1>1, <2>1, <2>2, TrackedSame
  <2> QED
    BY <2>1, <2>2, <2>3, <2>4 DEF SameCard
<1>2. CASE ~r.ack
  <2> DEFINE u == [t EXCEPT !.addressed = None]
  <2>1. u \in Buses /\ u.addressed = None /\ u.cards = t.cards
    BY DEF Buses
  <2> HIDE DEF u
  <2>2. SameCard(u, ReleaseBus(u))
    BY <2>1, ReleaseBusSame
  <2>3. Settle(r) = ReleaseBus(u)
    BY <1>2 DEF Settle, u
  <2>4. Tracked(ReleaseBus(u), g)
    BY <2>1, <2>2, FreeIsTracked DEF SameCard
  <2> QED
    BY <2>1, <2>2, <2>3, <2>4 DEF SameCard
<1> QED
  BY <1>1, <1>2

(* A step: the invariant, and the cards.                                   *)
CardsHeard ==
  \A k \in Slots : sio'.cards[k].data # sio.cards[k].data =>
    /\ heard.slot = k /\ heard.cmd = "57" /\ heard.bytes = 5 + SectorBytes
    /\ sio.sector_valid

LEMMA TypesAre == SioTypeOK <=> sio \in Buses /\ heard \in Notes
BY BusesAre DEF SioTypeOK, Notes, Actives, Wires

LEMMA SioEventStep ==
  ASSUME SioIInv, SioEvent
  PROVE  SioIInv' /\ CardsHeard
<1>1. PICK last \in PadLast, matches \in BOOLEAN :
        LET s == [sio EXCEPT !.wire = None]
            r == Exchange(s, sio.wire, last, matches)
        IN sio' = Settle(r) /\ heard' = Hear(sio.wire, s, r.bus)
  BY DEF SioEvent
<1> DEFINE s == [sio EXCEPT !.wire = None]
           r == Exchange(s, sio.wire, last, matches)
           g == Hear(sio.wire, s, r.bus)
<1>2. sio \in Buses /\ heard \in Notes /\ Tracked(sio, heard)
  BY TypesAre DEF SioIInv
<1>3. SameCard(sio, s) /\ s \in Buses /\ sio.wire \in Wires
  BY <1>2 DEF SameCard, Buses, Wires
<1>4. Tracked(s, heard)
  BY <1>2, <1>3, TrackedSame
<1> HIDE DEF s
<1>5. Exchanged(s, r, heard, g)
  BY <1>2, <1>3, <1>4, CardByte, OtherByte
<1>6. sio' = Settle(r) /\ heard' = g
  BY <1>1 DEF s
<1> HIDE DEF r, g
<1>7. Settle(r) \in Buses /\ Tracked(Settle(r), g) /\ Settle(r).cards = r.bus.cards
  BY <1>5, SettleKeeps DEF Exchanged
<1>8. SioTypeOK'
  BY <1>5, <1>6, <1>7, BusesAre DEF Exchanged, SioTypeOK, Notes, Actives, Wires
<1>9. Tracked(sio', heard')
  BY <1>6, <1>7
<1>10. CardsHeard
  BY <1>3, <1>5, <1>6, <1>7 DEF Exchanged, CardsHeard, SameCard
<1> QED
  BY <1>8, <1>9, <1>10 DEF SioIInv, Tracked

(* The guest's writes leave the cards alone.                               *)
LEMMA SioGuestStep ==
  ASSUME SioIInv,
         (\E b \in SioBytes : WriteData(b)) \/ (\E c \in CtrlWords : WriteCtrl(c)) \/ ResetBus
  PROVE  SioIInv' /\ sio'.cards = sio.cards
<1>0. sio \in Buses /\ heard \in Notes /\ Tracked(sio, heard)
  BY TypesAre DEF SioIInv
<1>1. ASSUME NEW t \in Buses, sio' = t, heard' \in Notes, Tracked(t, heard'), t.cards = sio.cards
      PROVE  SioIInv' /\ sio'.cards = sio.cards
  <2>1. SioTypeOK'
    BY <1>1, BusesAre DEF SioTypeOK, Notes, Actives, Wires
  <2> QED
    BY <1>1, <2>1 DEF SioIInv, Tracked
<1>2. ASSUME NEW b \in SioBytes, WriteData(b)
      PROVE  SioIInv' /\ sio'.cards = sio.cards
  <2> DEFINE l == sio.ctrl.txen
             u == [sio EXCEPT !.tx = b, !.latched = l]
  <2>1. l \in BOOLEAN /\ b \in Wires
    BY <1>0 DEF Buses, CtrlBits, Wires
  <2> HIDE DEF l
  <2>2. SameCard(sio, u)
    BY <1>0, <2>1 DEF SameCard, Buses
  <2> HIDE DEF u
  <2>3. SameCard(u, StartShift(u))
    BY <2>2, StartShiftSame DEF SameCard
  <2>4. sio' = StartShift(u) /\ heard' = heard
    BY <1>2 DEF WriteData, u, l
  <2>5. Tracked(StartShift(u), heard)
    BY <1>0, <2>2, <2>3, TrackedSame
  <2> QED
    BY <1>0, <1>1, <2>2, <2>3, <2>4, <2>5 DEF SameCard
<1>3. ASSUME NEW c \in CtrlWords, WriteCtrl(c)
      PROVE  SioIInv' /\ sio'.cards = sio.cards
  <2> DEFINE u == [sio EXCEPT !.ctrl = c]
  <2>1. c \in CtrlBits
    BY SioConstants DEF CtrlBits, Slots
  <2>2. SameCard(sio, u)
    BY <1>0, <2>1 DEF SameCard, Buses
  <2> HIDE DEF u
  <2>3. CASE c.select
    <3>1. sio' \in {StartShift(u), ReleaseBus(u)} /\ heard' = heard
      BY <1>3, <2>3 DEF WriteCtrl, u
    <3>2. SameCard(u, sio')
      BY <2>2, <3>1, StartShiftSame, ReleaseBusSame DEF SameCard
    <3>3. Tracked(sio', heard)
      BY <1>0, <2>2, <3>2, TrackedSame
    <3> QED
      BY <1>0, <1>1, <2>2, <3>1, <3>2, <3>3 DEF SameCard
  <2>4. CASE ~c.select
    <3> DEFINE t == ReleaseCs(u)
    <3>1. t \in Buses /\ t.addressed = None /\ t.cards = sio.cards
      BY <2>2, ReleaseCsFrees DEF SameCard
    <3>2. sio' = ReleaseBus(t) /\ heard' = Silence
      BY <1>3, <2>4 DEF WriteCtrl, u
    <3> HIDE DEF t
    <3>3. SameCard(t, ReleaseBus(t))
      BY <3>1, ReleaseBusSame
    <3>4. Tracked(ReleaseBus(t), Silence)
      BY <3>1, <3>3, FreeIsTracked DEF SameCard
    <3> QED
      BY <1>1, <3>1, <3>2, <3>3, <3>4, Silent DEF SameCard
  <2> QED
    BY <2>3, <2>4
<1>4. CASE ResetBus
  <2> DEFINE c == [select |-> FALSE, txen |-> FALSE, slot |-> 1]
             u == [sio EXCEPT !.ctrl = c, !.tx = None, !.latched = FALSE]
             v == ReleaseBus(u)
             t == ReleaseCs(v)
  <2>1. c \in CtrlBits /\ None \in Wires
    BY DEF CtrlBits, Slots, Wires
  <2> HIDE DEF c
  <2>2. u \in Buses /\ u.cards = sio.cards
    BY <1>0, <2>1 DEF Buses
  <2> HIDE DEF u
  <2>3. v \in Buses /\ v.cards = u.cards
    BY <2>2, ReleaseBusSame DEF SameCard
  <2> HIDE DEF v
  <2>4. t \in Buses /\ t.addressed = None /\ t.cards = v.cards
    BY <2>3, ReleaseCsFrees
  <2>5. sio' = t /\ heard' = Silence
    BY <1>4 DEF ResetBus, SoftReset, c, u, v
  <2> HIDE DEF t
  <2>6. Tracked(t, Silence)
    BY <2>4, FreeIsTracked
  <2> QED
    BY <1>1, <2>2, <2>3, <2>4, <2>5, <2>6, Silent
<1> QED
  BY <1>2, <1>3, <1>4

LEMMA SioStep == SioIInv /\ [SioNext]_sio_vars => SioIInv' /\ (CardsHeard \/ UNCHANGED sio_vars)
<1> SUFFICES ASSUME SioIInv, [SioNext]_sio_vars PROVE SioIInv' /\ (CardsHeard \/ UNCHANGED sio_vars)
  OBVIOUS
<1>1. CASE SioEvent
  BY <1>1, SioEventStep
<1>2. CASE (\E b \in SioBytes : WriteData(b)) \/ (\E c \in CtrlWords : WriteCtrl(c)) \/ ResetBus
  BY <1>2, SioGuestStep DEF CardsHeard
<1>3. CASE UNCHANGED sio_vars
  BY <1>3 DEF sio_vars, SioIInv, SioTypeOK, Tracked
<1> QED
  BY <1>1, <1>2, <1>3 DEF SioNext

LEMMA SioInitIInv == SioInit => SioIInv
<1> SUFFICES ASSUME SioInit PROVE SioIInv
  OBVIOUS
<1>1. PICK has \in [Slots -> BOOLEAN] :
       sio = [ctrl |-> [select |-> FALSE, txen |-> FALSE, slot |-> 1], tx |-> None,
              latched |-> FALSE, phase |-> "IDLE", wire |-> None, addressed |-> None,
              active |-> 0, pad_step |-> 0, mc_step |-> 0, mc_cmd |-> None,
              sector_valid |-> FALSE,
              cards |-> [k \in Slots |-> [present |-> has[k], data |-> 0]]]
  BY DEF SioInit
<1>2. [select |-> FALSE, txen |-> FALSE, slot |-> 1] \in CtrlBits /\ None \in Wires
  BY DEF CtrlBits, Slots, Wires
<1>3. [k \in Slots |-> [present |-> has[k], data |-> 0]] \in CardSets
  BY DEF CardSets, CardState
<1>4. 0 \in Actives /\ 0 \in PadSteps /\ 0 \in Steps
  BY SioConstants DEF Actives, PadSteps, Steps
<1>5. sio \in Buses /\ sio.addressed = None
  BY <1>1, <1>2, <1>3, <1>4 DEF Buses
<1>6. heard \in Notes
  BY Silent DEF SioInit
<1> QED
  BY <1>5, <1>6, TypesAre, FreeIsTracked DEF SioIInv

(* A card's contents change only at the checksum of a write packet that    *)
(* was sent whole, to that card and to a sector it has: for sectors of any *)
(* length, any bytes, and any order of deselection, reset, change of port  *)
(* and overrun in between (sio_write16, sio_shift_byte,                    *)
(* sio_memcard_transfer).                                                  *)
THEOREM CardsAreWrittenWhole == SioSpec => CardsChangeByWholePackets
<1>1. SioIInv /\ [SioNext]_sio_vars =>
        [\A k \in Slots : sio'.cards[k].data # sio.cards[k].data =>
           /\ heard.slot = k /\ heard.cmd = "57" /\ heard.bytes = 5 + SectorBytes
           /\ sio.sector_valid]_sio_vars
  BY SioStep DEF CardsHeard
<1>2. SioIInv /\ [SioNext]_sio_vars => SioIInv'
  BY SioStep
<1> QED
  BY <1>1, <1>2, SioInitIInv, PTL DEF SioSpec, CardsChangeByWholePackets

-----------------------------------------------------------------------------
(* SaveState: a load is whole, or is known not to be.                      *)

SaveIInv == SaveTypeOK /\ LoadedIsTheSaved

LEMMA SectionsAre ==
  /\ Len(SectionOrder) = 15
  /\ {"INTC", "RAM", "SIOI", "SIO"} \subseteq Restored
<1>1. Len(SectionOrder) = 15
  BY DEF SectionOrder
<1>2. SectionOrder[3] = "RAM" /\ SectionOrder[5] = "INTC" /\ SectionOrder[13] = "SIO"
      /\ SectionOrder[14] = "SIOI"
  BY DEF SectionOrder
<1>3. 3 \in 2 .. 15 /\ 5 \in 2 .. 15 /\ 13 \in 2 .. 15 /\ 14 \in 2 .. 15
  OBVIOUS
<1> HIDE DEF SectionOrder
<1>4. \A i \in 2 .. 15 : SectionOrder[i] \in Restored
  BY <1>1 DEF Restored
<1> QED
  BY <1>1, <1>2, <1>3, <1>4, Zenon

LEMMA MomentsAre == At(0) \in Snapshot /\ At(LastMoment) \in Snapshot
                    /\ 0 \in Moments /\ LastMoment \in Moments
BY SaveConstants DEF At, Snapshot, Moments

LEMMA SaveInitIInv == SaveInit => SaveIInv
<1> SUFFICES ASSUME SaveInit PROVE SaveIInv
  OBVIOUS
<1>1. PICK d \in Discs \cup {"NONE"} : drive = [disc |-> d, present |-> d # "NONE"]
  BY DEF SaveInit
<1>2. drive \in [disc : Discs \cup {"NONE"}, present : BOOLEAN]
      /\ drive.present = (drive.disc # "NONE")
  BY <1>1
<1>3. PICK b \in {"THIS", "OTHER"}, e \in Discs \cup {"NONE"}, v \in BOOLEAN, n \in {-1, 9, 15} :
       file = [build |-> b, disc |-> e, content |-> At(LastMoment), vblank |-> v, active |-> 2,
               cards |-> [k \in CardPorts |-> LastMoment], length |-> n]
  BY DEF SaveInit
<1>4. n \in -1 .. Len(SectionOrder) /\ 2 \in CardPorts \cup {0}
      /\ [k \in CardPorts |-> LastMoment] \in [CardPorts -> Moments]
  BY SectionsAre, MomentsAre DEF CardPorts
<1>5. file \in StateFile
  BY <1>3, <1>4, MomentsAre DEF StateFile
<1>6. NoCardActive \in [to : CardPorts \cup {0}, live : BOOLEAN]
  BY DEF NoCardActive
<1> QED
  BY <1>2, <1>5, <1>6, MomentsAre DEF SaveInit, SaveIInv, SaveTypeOK, LoadedIsTheSaved

(* What a load leaves.                                                     *)
LEMMA LoadStateKeeps ==
  ASSUME SaveIInv, LoadState PROVE SaveIInv'
<1>1. machine \in Snapshot /\ file.content \in Snapshot /\ file.active \in CardPorts \cup {0}
  BY DEF SaveIInv, SaveTypeOK, StateFile
<1>2. machine' = [s \in Restored |-> IF s \in Overwritten THEN file.content[s] ELSE machine[s]]
  BY DEF LoadState
<1>3. machine' \in Snapshot
  BY <1>1, <1>2 DEF Snapshot
<1>4. active' \in [to : CardPorts \cup {0}, live : BOOLEAN]
  BY <1>1 DEF LoadState, SaveIInv, SaveTypeOK
<1>5. /\ drive' \in [disc : Discs \cup {"NONE"}, present : BOOLEAN]
      /\ drive'.present = (drive'.disc # "NONE")
  BY DEF LoadState, SaveIInv, SaveTypeOK
<1>6. report' \in {"FAILED", "LOADED"} /\ (report' = "LOADED" => Complete)
      /\ vblank' = (vblank \/ Complete) /\ UNCHANGED <<cards, file>>
  BY DEF LoadState
<1>7. vblank' \in BOOLEAN
  BY <1>6
<1>8. ASSUME Complete PROVE machine' = file'.content /\ vblank' /\ active'.live
  <2>1. ReadIn = Restored
    BY <1>8 DEF Complete, ReadIn, Restored
  <2>2. Overwritten = Restored
    BY <1>8, <2>1 DEF Overwritten
  <2>3. machine' = [s \in Restored |-> file.content[s]]
    BY <1>2, <2>2
  <2>4. machine' = file.content
    BY <1>1, <2>3 DEF Snapshot
  <2>5. active' = [to |-> file.active, live |-> TRUE]
    BY <2>1, SectionsAre DEF LoadState
  <2> QED
    BY <1>6, <1>8, <2>4, <2>5
<1> QED
  BY <1>3, <1>4, <1>5, <1>6, <1>7, <1>8 DEF SaveIInv, SaveTypeOK, LoadedIsTheSaved

LEMMA SaveKeeps ==
  ASSUME SaveIInv, NEW n \in {-1, 0, 1, 5, 13, 14, 15}, Save(n) PROVE SaveIInv'
<1>1. file' = [build |-> "THIS", disc |-> drive.disc, content |-> machine, vblank |-> vblank,
               active |-> active.to, cards |-> cards, length |-> n]
  BY DEF Save
<1>2. n \in -1 .. Len(SectionOrder) /\ drive.disc \in Discs \cup {"NONE"}
      /\ active.to \in CardPorts \cup {0}
  BY SectionsAre DEF SaveIInv, SaveTypeOK
<1>3. file' \in StateFile
  BY <1>1, <1>2 DEF StateFile, SaveIInv, SaveTypeOK
<1> QED
  BY <1>3 DEF Save, SaveIInv, SaveTypeOK, LoadedIsTheSaved

LEMMA SaveStep == SaveIInv /\ [SaveNext]_save_vars => SaveIInv'
<1> SUFFICES ASSUME SaveIInv, [SaveNext]_save_vars PROVE SaveIInv'
  OBVIOUS
<1> USE DEF SaveIInv, SaveTypeOK, LoadedIsTheSaved
<1>1. ASSUME NEW k \in CardPorts \cup {0}, RunOn(k) PROVE SaveIInv'
  <2>1. machine["RAM"] + 1 \in Moments
    BY <1>1, SectionsAre, SaveConstants DEF RunOn, Moments, Snapshot
  <2>2. machine' \in Snapshot
    BY <1>1, <2>1 DEF RunOn, At, Snapshot
  <2> QED
    BY <1>1, <2>2 DEF RunOn
<1>2. ASSUME NEW k \in CardPorts, CardWritten(k) PROVE SaveIInv'
  <2>1. cards[k] + 1 \in Moments
    BY <1>2, SaveConstants DEF CardWritten, Moments
  <2> QED
    BY <1>2, <2>1 DEF CardWritten
<1>3. ASSUME NEW d \in Discs \cup {"NONE"}, ChangeDisc(d) PROVE SaveIInv'
  BY <1>3 DEF ChangeDisc
<1>4. CASE Refuse
  BY <1>4 DEF Refuse
<1>5. CASE UNCHANGED save_vars
  BY <1>5 DEF save_vars
<1> QED
  BY <1>1, <1>2, <1>3, <1>4, <1>5, SaveKeeps, LoadStateKeeps DEF SaveNext

LEMMA CardsOnlyGoOn ==
  SaveIInv /\ [SaveNext]_save_vars => \A k \in CardPorts : cards'[k] >= cards[k]
<1> SUFFICES ASSUME SaveIInv, [SaveNext]_save_vars, NEW k \in CardPorts
             PROVE  cards'[k] >= cards[k]
  OBVIOUS
<1>1. cards \in [CardPorts -> Moments] /\ cards[k] \in Int
  BY SaveConstants DEF SaveIInv, SaveTypeOK, Moments
<1>2. CASE cards' = cards
  BY <1>1, <1>2
<1>3. ASSUME NEW j \in CardPorts, CardWritten(j) PROVE cards'[k] >= cards[k]
  BY <1>1, <1>3 DEF CardWritten
<1> QED
  BY <1>2, <1>3 DEF SaveNext, save_vars, RunOn, ChangeDisc, Save, Refuse, LoadState

LEMMA RefusedOrFailed ==
  SaveIInv /\ [SaveNext]_save_vars =>
    \/ /\ report' = "REFUSED" => UNCHANGED <<machine, vblank, active, drive, cards>>
       /\ report' = "FAILED" => machine'["INTC"] = machine["INTC"] /\ vblank' = vblank
    \/ UNCHANGED save_vars
<1> SUFFICES ASSUME SaveIInv, SaveNext
             PROVE  /\ report' = "REFUSED" => UNCHANGED <<machine, vblank, active, drive, cards>>
                    /\ report' = "FAILED" => machine'["INTC"] = machine["INTC"] /\ vblank' = vblank
  OBVIOUS
<1>1. CASE LoadState
  <2>1. report' = "FAILED" => ~Complete
    BY <1>1 DEF LoadState
  <2>2. ~Complete => "INTC" \notin Overwritten
    BY DEF Overwritten
  <2>3. machine'["INTC"] = IF "INTC" \in Overwritten THEN file.content["INTC"] ELSE machine["INTC"]
    BY <1>1, SectionsAre DEF LoadState
  <2>4. vblank' = (vblank \/ Complete) /\ vblank \in BOOLEAN /\ report' # "REFUSED"
    BY <1>1 DEF LoadState, SaveIInv, SaveTypeOK
  <2> QED
    BY <2>1, <2>2, <2>3, <2>4
<1>2. CASE Refuse
  BY <1>2 DEF Refuse
<1>3. CASE \/ \E k \in CardPorts \cup {0} : RunOn(k)
           \/ \E k \in CardPorts : CardWritten(k)
           \/ \E d \in Discs \cup {"NONE"} : ChangeDisc(d)
           \/ \E n \in {-1, 0, 1, 5, 13, 14, 15} : Save(n)
  <2>1. report' = "NONE"
    BY <1>3 DEF RunOn, CardWritten, ChangeDisc, Save
  <2> QED
    BY <2>1
<1> QED
  BY <1>1, <1>2, <1>3 DEF SaveNext

(* A load leaves the saved machine or says it did not, a refusal changes   *)
(* nothing, and no card goes back in time: for any number of moments, any  *)
(* discs and a file cut short anywhere (savestate_load).                   *)
THEOREM LoadingIsWhole == SaveSpec => LoadsAreWhole
<1>1. SaveSpec => []SaveIInv
  BY SaveInitIInv, SaveStep, PTL DEF SaveSpec
<1>2. SaveIInv => LoadedIsTheSaved
  BY DEF SaveIInv
<1>3. SaveSpec => CardsAreNeverRewound
  BY <1>1, CardsOnlyGoOn, PTL DEF SaveSpec, CardsAreNeverRewound
<1>4. SaveSpec => RefusalIsClean
  BY <1>1, RefusedOrFailed, PTL DEF SaveSpec, RefusalIsClean
<1> QED
  BY <1>1, <1>2, <1>3, <1>4, PTL DEF LoadsAreWhole

-----------------------------------------------------------------------------
(* Mdec: decoder and DMA never wait for each other.  Decoding stops only   *)
(* with the decoder dry, because every turn takes something in or leaves a *)
(* state and there are turns enough.                                       *)

(* A set of natural numbers has a least.                                   *)
LEMMA LeastOf ==
  ASSUME NEW S, S \subseteq Nat, S # {}
  PROVE  \E m \in S : \A n \in S : m <= n
<1> DEFINE R == OpToRel(<, Nat)
<1>1. IsWellFoundedOn(R, Nat)
  BY NatLessThanWellFounded
<1>2. R = {ss \in Nat \X Nat : ss[1] < ss[2]}
  BY DEF OpToRel
<1> HIDE DEF R
<1>3. PICK m \in S : \A n \in S : ~(<<n, m>> \in R)
  BY <1>1, WFMin
<1>4. ASSUME NEW n \in S PROVE m <= n
  <2>1. n \in Nat /\ m \in Nat /\ <<n, m>> \in Nat \X Nat
    OBVIOUS
  <2>2. ~(n < m)
    BY <1>2, <1>3, <2>1
  <2> QED
    BY <2>1, <2>2
<1> QED
  BY <1>4

(* The three loops of the code, as walks whose steps a says: a turn of the *)
(* decoder while it goes on, a word of the input half, a word of the       *)
(* output half.                                                            *)
Onward(a, p, k) ==
  CASE a.of = "DECODE" -> IF p.go THEN Turn(p.m) ELSE p
    [] a.of = "IN" -> IF p.left > 0 /\ InputHasSpace(p.m)
                      THEN [m |-> InPush(p.m, a.words[k]), left |-> p.left - 1] ELSE p
    [] OTHER -> IF p.left > 0 /\ OutputHasData(p.m)
                THEN [m |-> Pop(p.m), left |-> p.left - 1] ELSE p

WalkStep(a, x, g, k) == IF k = 0 THEN x ELSE Onward(a, g[k - 1], k)
Walked(a, x, n, g) == g = [k \in 0 .. n |-> WalkStep(a, x, g, k)]

LEMMA LoopExists ==
  ASSUME NEW a, NEW x, NEW n \in Nat
  PROVE  \E g : Walked(a, x, n, g)
<1> DEFINE S == {i \in Nat : ~ \E g : Walked(a, x, i, g)}
<1> SUFFICES ASSUME S # {} PROVE FALSE
  OBVIOUS
<1>1. PICK i \in S : \A j \in S : i <= j
  <2> HIDE DEF S
  <2>1. S \subseteq Nat
    BY DEF S
  <2> QED
    BY <2>1, LeastOf
<1>2. i \in Nat /\ ~ \E g : Walked(a, x, i, g)
  BY <1>1
<1>3. CASE i = 0
  <2> DEFINE g == [k \in 0 .. 0 |-> x]
  <2>1. g = [k \in 0 .. 0 |-> WalkStep(a, x, g, k)]
    <3>1. \A k \in 0 .. 0 : k = 0
      OBVIOUS
    <3>2. \A k \in 0 .. 0 : WalkStep(a, x, g, k) = x
      BY <3>1 DEF WalkStep
    <3>3. g = [k \in 0 .. 0 |-> g[k]] /\ \A k \in 0 .. 0 : g[k] = x
      OBVIOUS
    <3> HIDE DEF g
    <3> QED
      BY <3>2, <3>3
  <2> QED
    BY <1>2, <1>3, <2>1 DEF Walked
<1>4. CASE i # 0
  <2>1. i - 1 \in Nat /\ ~(i <= i - 1) /\ i \in Nat
    BY <1>2, <1>4
  <2>2. i - 1 \notin S
    BY <1>1, <2>1
  <2>3. PICK f : Walked(a, x, i - 1, f)
    BY <2>1, <2>2
  <2> DEFINE g == [k \in 0 .. i |-> IF k = i THEN Onward(a, f[i - 1], i) ELSE f[k]]
  <2>4. \A k \in 0 .. i - 1 : f[k] = WalkStep(a, x, f, k)
    BY <2>3 DEF Walked
  <2>5. \A k \in 0 .. i : g[k] = IF k = i THEN Onward(a, f[i - 1], i) ELSE f[k]
    OBVIOUS
  <2> HIDE DEF g
  <2>6. \A k \in 0 .. i - 1 : g[k] = f[k]
    <3>1. \A k \in 0 .. i - 1 : k \in 0 .. i /\ k # i
      BY <2>1
    <3> QED
      BY <2>5, <3>1
  <2>7. ASSUME NEW k \in 0 .. i PROVE g[k] = WalkStep(a, x, g, k)
    <3>1. CASE k = 0
      <4>1. k \in 0 .. i - 1
        BY <2>1, <3>1
      <4> QED
        BY <2>4, <2>6, <3>1, <4>1 DEF WalkStep
    <3>2. CASE k # 0
      <4>1. k - 1 \in 0 .. i - 1
        BY <2>1, <3>2
      <4>2. g[k - 1] = f[k - 1]
        BY <2>6, <4>1
      <4>3. CASE k = i
        BY <2>5, <3>2, <4>2, <4>3 DEF WalkStep
      <4>4. CASE k # i
        <5>1. k \in 0 .. i - 1
          BY <2>1, <4>4
        <5> QED
          BY <2>4, <2>6, <3>2, <4>2, <5>1 DEF WalkStep
      <4> QED
        BY <4>3, <4>4
    <3> QED
      BY <3>1, <3>2
  <2>8. g = [k \in 0 .. i |-> WalkStep(a, x, g, k)]
    <3>1. g = [k \in 0 .. i |-> g[k]]
      BY DEF g
    <3> QED
      BY <2>7, <3>1
  <2> QED
    BY <1>2, <2>8 DEF Walked
<1> QED
  BY <1>3, <1>4

(* A set of steps that has the first and with each the next has them all.  *)
LEMMA AllSteps ==
  ASSUME NEW n \in Nat, NEW S, 0 \in S,
         \A k \in 1 .. n : k - 1 \in S => k \in S
  PROVE  0 .. n \subseteq S
<1> DEFINE D == {k \in 0 .. n : k \notin S}
<1> SUFFICES ASSUME D # {} PROVE FALSE
  OBVIOUS
<1>1. PICK i \in D : \A j \in D : i <= j
  <2> HIDE DEF D
  <2>1. D \subseteq Nat
    BY DEF D
  <2> QED
    BY <2>1, LeastOf
<1>2. i \in 0 .. n /\ i \notin S
  BY <1>1
<1>3. i # 0
  BY <1>2
<1>4. i - 1 \in 0 .. n /\ ~(i <= i - 1) /\ i \in 1 .. n
  BY <1>2, <1>3
<1>5. i - 1 \in S
  BY <1>1, <1>4
<1> QED
  BY <1>2, <1>4, <1>5

(* The code's loops are such walks.                                        *)
DecodeTurns == 2 * InCapacity + NumBlocks + 4
Decoding == [of |-> "DECODE"]
Filling(ws) == [of |-> "IN", words |-> ws]
Draining == [of |-> "OUT"]

LEMMA DecodeWalks ==
  ASSUME NEW x
  PROVE  \E g : Walked(Decoding, More(x), DecodeTurns, g) /\ Decode(x) = g[DecodeTurns].m
<1> DEFINE Loop(g) == [k \in 0 .. 2 * InCapacity + NumBlocks + 4 |->
                         IF k = 0 THEN More(x)
                         ELSE LET r == g[k - 1] IN IF r.go THEN Turn(r.m) ELSE r]
           run == CHOOSE g : g = Loop(g)
<1>1. Decode(x) = run[2 * InCapacity + NumBlocks + 4].m
  BY DEF Decode
<1>2. \A g : Loop(g) = [k \in 0 .. DecodeTurns |-> WalkStep(Decoding, More(x), g, k)]
  <2> TAKE g
  <2>1. \A k : (IF k = 0 THEN More(x) ELSE LET r == g[k - 1] IN IF r.go THEN Turn(r.m) ELSE r)
             = WalkStep(Decoding, More(x), g, k)
    BY DEF WalkStep, Onward, Decoding
  <2> QED
    BY <2>1 DEF DecodeTurns
<1>3. DecodeTurns \in Nat
  BY MdecConstants DEF DecodeTurns
<1>4. PICK g : g = Loop(g)
  <2>1. PICK g : Walked(Decoding, More(x), DecodeTurns, g)
    BY <1>3, LoopExists
  <2> HIDE DEF Loop
  <2> QED
    BY <1>2, <2>1 DEF Walked
<1>5. run = Loop(run)
  <2> HIDE DEF Loop
  <2> QED
    BY <1>4
<1>6. Walked(Decoding, More(x), DecodeTurns, run)
  <2> HIDE DEF Loop, run
  <2> QED
    BY <1>2, <1>5 DEF Walked
<1>7. Decode(x) = run[DecodeTurns].m
  BY <1>1 DEF DecodeTurns
<1> HIDE DEF run
<1> QED
  BY <1>6, <1>7

LEMMA InHalfWalks ==
  ASSUME NEW x, NEW left, NEW ws
  PROVE  \E g : Walked(Filling(ws), [m |-> x, left |-> left], MdecSlice, g) /\ InHalf(x, left, ws) = g[MdecSlice]
<1> DEFINE start == [m |-> x, left |-> left]
           Loop(g) == [k \in 0 .. MdecSlice |->
                         IF k = 0 THEN [m |-> x, left |-> left]
                         ELSE LET p == g[k - 1] IN
                              IF p.left > 0 /\ InputHasSpace(p.m)
                              THEN [m |-> InPush(p.m, ws[k]), left |-> p.left - 1] ELSE p]
           run == CHOOSE g : g = Loop(g)
<1>1. InHalf(x, left, ws) = run[MdecSlice]
  BY DEF InHalf
<1>2. \A g : Loop(g) = [k \in 0 .. MdecSlice |-> WalkStep(Filling(ws), start, g, k)]
  <2> TAKE g
  <2>1. \A k : (IF k = 0 THEN [m |-> x, left |-> left]
                ELSE LET p == g[k - 1] IN
                     IF p.left > 0 /\ InputHasSpace(p.m)
                     THEN [m |-> InPush(p.m, ws[k]), left |-> p.left - 1] ELSE p)
             = WalkStep(Filling(ws), start, g, k)
    BY DEF WalkStep, Onward, Filling
  <2> QED
    BY <2>1
<1>3. MdecSlice \in Nat
  BY MdecConstants
<1>4. PICK g : g = Loop(g)
  <2>1. PICK g : Walked(Filling(ws), start, MdecSlice, g)
    BY <1>3, LoopExists
  <2> HIDE DEF Loop, start
  <2> QED
    BY <1>2, <2>1 DEF Walked
<1>5. run = Loop(run)
  <2> HIDE DEF Loop
  <2> QED
    BY <1>4
<1>6. Walked(Filling(ws), start, MdecSlice, run)
  <2> HIDE DEF Loop, run, start
  <2> QED
    BY <1>2, <1>5 DEF Walked
<1> HIDE DEF run
<1> QED
  BY <1>1, <1>6

OutStart(x, left) == [m |-> x, left |-> left]

LEMMA OutHalfWalks ==
  ASSUME NEW x, NEW left
  PROVE  \E g : /\ Walked(Draining, OutStart(x, left), MdecSlice, g)
                /\ OutHalf(x, left) = IF g[MdecSlice].left > 0 /\ ~OutputHasData(g[MdecSlice].m)
                                      THEN [g[MdecSlice] EXCEPT !.m = Decode(@)] ELSE g[MdecSlice]
<1> DEFINE Loop(g) == [k \in 0 .. MdecSlice |->
                         IF k = 0 THEN [m |-> x, left |-> left]
                         ELSE LET p == g[k - 1] IN
                              IF p.left > 0 /\ OutputHasData(p.m)
                              THEN [m |-> Pop(p.m), left |-> p.left - 1] ELSE p]
           run == CHOOSE g : g = Loop(g)
<1>1. OutHalf(x, left) = IF run[MdecSlice].left > 0 /\ ~OutputHasData(run[MdecSlice].m)
                         THEN [run[MdecSlice] EXCEPT !.m = Decode(@)] ELSE run[MdecSlice]
  BY DEF OutHalf
<1>2. \A g : Loop(g) = [k \in 0 .. MdecSlice |-> WalkStep(Draining, OutStart(x, left), g, k)]
  <2> TAKE g
  <2>1. \A k : (IF k = 0 THEN [m |-> x, left |-> left]
                ELSE LET p == g[k - 1] IN
                     IF p.left > 0 /\ OutputHasData(p.m)
                     THEN [m |-> Pop(p.m), left |-> p.left - 1] ELSE p)
             = WalkStep(Draining, OutStart(x, left), g, k)
    BY DEF WalkStep, Onward, Draining, OutStart
  <2> QED
    BY <2>1
<1>3. MdecSlice \in Nat
  BY MdecConstants
<1>4. PICK g : g = Loop(g)
  <2>1. PICK g : Walked(Draining, OutStart(x, left), MdecSlice, g)
    BY <1>3, LoopExists
  <2> HIDE DEF Loop
  <2> QED
    BY <1>2, <2>1 DEF Walked
<1>5. run = Loop(run)
  <2> HIDE DEF Loop
  <2> QED
    BY <1>4
<1>6. Walked(Draining, OutStart(x, left), MdecSlice, run)
  <2> HIDE DEF Loop, run
  <2> QED
    BY <1>2, <1>5 DEF Walked
<1> HIDE DEF run
<1> QED
  BY <1>1, <1>6

(* A decoder is well formed: blocks are counted only inside a macroblock   *)
(* of several, and the output is one macroblock's.                         *)
Shaped(m) ==
  /\ m \in MdecState
  /\ m.state # "DECODING" \/ m.depth = "MONO" => m.block = 0
  /\ m.out <= OutWords[m.depth]

(* What the decoder cannot go on with.                                     *)
Dry(m) ==
  m.out = 0 =>
    CASE m.state = "IDLE" -> Len(m.in) < 2
      [] m.state = "DECODING" -> m.in = <<>>
      [] OTHER -> Len(m.in) < m.remaining

(* What is left to take in, and the state to leave.                        *)
Size(m) == 2 * Len(m.in) + (IF m.state = "IDLE" THEN 0 ELSE 1)

(* A turn takes something in or leaves a state, or it ends with the        *)
(* decoder dry.                                                            *)
Advances(m, r) ==
  /\ Shaped(r.m) /\ Len(r.m.in) <= Len(m.in)
  /\ r.go \in BOOLEAN
  /\ r.go => Size(r.m) < Size(m)
  /\ ~r.go => Dry(r.m)

LEMMA MdecParts ==
  ASSUME NEW m \in MdecState
  PROVE  /\ m.in \in Seq(Tokens) /\ Len(m.in) \in Nat
         /\ m.out \in Nat /\ m.remaining \in Nat /\ m.block \in 0 .. NumBlocks /\ m.block \in Nat
         /\ m.depth \in Depths /\ OutWords[m.depth] \in Nat /\ OutWords[m.depth] > 0
         /\ m.inside \in BOOLEAN
         /\ m.state \in {"IDLE", "DECODING", "SET_QTABLE", "SET_SCALE"}
         /\ NumBlocks \in Nat /\ NumBlocks > 0 /\ InCapacity \in Nat /\ InCapacity > 0
         /\ TableWords \in Nat /\ TableWords > 0
<1>1. m.in \in Seq(Tokens) /\ m.depth \in Depths /\ m.block \in 0 .. NumBlocks
  BY DEF MdecState
<1>2. OutWords[m.depth] \in Nat \ {0}
  BY <1>1, MdecConstants
<1>3. Len(m.in) \in Nat
  BY <1>1, LenProperties
<1>4. {NumBlocks, InCapacity, TableWords} \subseteq Nat \ {0}
  BY MdecConstants
<1> QED
  BY <1>1, <1>2, <1>3, <1>4 DEF MdecState

LEMMA CutShort ==
  ASSUME NEW s \in Seq(Tokens), NEW n \in Nat, n <= Len(s)
  PROVE  /\ SubSeq(s, n + 1, Len(s)) \in Seq(Tokens)
         /\ Len(SubSeq(s, n + 1, Len(s))) = Len(s) - n
<1>1. Len(s) \in Nat /\ n + 1 \in Int /\ Len(s) \in Int
  BY LenProperties
<1>2. \A i \in n + 1 .. Len(s) : s[i] \in Tokens
  BY <1>1, ElementOfSeq
<1>3. /\ SubSeq(s, n + 1, Len(s)) \in Seq(Tokens)
      /\ Len(SubSeq(s, n + 1, Len(s))) = IF n + 1 <= Len(s) THEN Len(s) - (n + 1) + 1 ELSE 0
  BY <1>1, <1>2, SubSeqProperties
<1> QED
  BY <1>1, <1>3

LEMMA NewBlockIs ==
  ASSUME NEW m \in MdecState
  PROVE  LET b == NewBlock(m)
         IN /\ b \in MdecState /\ b.in = m.in /\ b.block = 0 /\ b.out = m.out
            /\ b.depth = m.depth /\ b.state = m.state
<1> DEFINE a == [m EXCEPT !.block = 0]
           over == FALSE
           b == [a EXCEPT !.inside = over]
<1>1. over \in BOOLEAN /\ over = FALSE
  OBVIOUS
<1>2. 0 \in 0 .. NumBlocks
  BY MdecConstants
<1>3. a \in MdecState /\ a.in = m.in /\ a.block = 0 /\ a.out = m.out /\ a.depth = m.depth /\ a.state = m.state
  BY <1>2 DEF MdecState
<1>4. NewBlock(m) = b
  BY DEF NewBlock, MdecState
<1> HIDE DEF a, over
<1>5. b \in MdecState /\ b.in = m.in /\ b.block = 0 /\ b.out = m.out /\ b.depth = m.depth /\ b.state = m.state
  BY <1>1, <1>3 DEF MdecState
<1> QED
  BY <1>4, <1>5

LEMMA TableAdvances ==
  ASSUME NEW m, Shaped(m), m.state \in {"SET_QTABLE", "SET_SCALE"}
  PROVE  Advances(m, Table(m))
<1>1. m \in MdecState /\ m.block = 0 /\ m.out <= OutWords[m.depth] /\ m.state # "IDLE" /\ m.state # "DECODING"
  BY DEF Shaped
<1>2. /\ m.in \in Seq(Tokens) /\ Len(m.in) \in Nat /\ m.remaining \in Nat
  BY <1>1, MdecParts
<1>3. CASE Len(m.in) < m.remaining
  BY <1>1, <1>3 DEF Advances, Table, Stop, Dry, Shaped
<1>4. CASE ~(Len(m.in) < m.remaining)
  <2> DEFINE in == SubSeq(m.in, m.remaining + 1, Len(m.in))
             t == [m EXCEPT !.in = in, !.remaining = 0, !.state = "IDLE"]
  <2>1. in \in Seq(Tokens) /\ Len(in) = Len(m.in) - m.remaining
    BY <1>2, <1>4, CutShort
  <2>2. Table(m) = More(t)
    BY <1>4 DEF Table
  <2> HIDE DEF in
  <2>3. t \in MdecState /\ t.in = in /\ t.state = "IDLE" /\ t.block = 0 /\ t.out = m.out /\ t.depth = m.depth
    BY <1>1, <2>1 DEF MdecState
  <2> HIDE DEF t
  <2>4. Shaped(t)
    BY <1>1, <2>3 DEF Shaped
  <2>5. Size(t) < Size(m) /\ Len(t.in) <= Len(m.in)
    BY <1>1, <1>2, <2>1, <2>3 DEF Size
  <2> QED
    BY <2>2, <2>4, <2>5 DEF Advances, More
<1> QED
  BY <1>3, <1>4

LEMMA CommandAdvances ==
  ASSUME NEW m, Shaped(m), m.state = "IDLE"
  PROVE  Advances(m, Command(m))
<1>1. m \in MdecState /\ m.block = 0 /\ m.out <= OutWords[m.depth]
  BY DEF Shaped
<1>2. /\ m.in \in Seq(Tokens) /\ Len(m.in) \in Nat /\ m.remaining \in Nat /\ TableWords \in Nat
  BY <1>1, MdecParts
<1>3. CASE Len(m.in) < 2
  BY <1>1, <1>3 DEF Advances, Command, Stop, Dry, Shaped
<1>4. CASE ~(Len(m.in) < 2)
  <2> DEFINE lo == m.in[1]
             hi == m.in[2]
             n  == CASE hi \in Decodes -> Number(lo)
                     [] hi = "QT" -> TableWords + (IF lo = "1" THEN TableWords ELSE 0)
                     [] OTHER -> 2 * TableWords
             d == IF hi \in Depths THEN hi ELSE "MONO"
             in == SubSeq(m.in, 3, Len(m.in))
             c == [m EXCEPT !.in = in, !.out = 0, !.depth = d]
             new == CASE hi \in Decodes -> "DECODING" [] hi = "QT" -> "SET_QTABLE" [] OTHER -> "SET_SCALE"
             r == IF hi \notin Decodes \cup {"QT", "SCALE"} THEN [c EXCEPT !.low16 = "COUNT"]
                  ELSE [c EXCEPT !.state = new, !.remaining = 2 * n, !.low16 = "NONE"]
  <2>1. in \in Seq(Tokens) /\ Len(in) = Len(m.in) - 2
    <3>1. 2 <= Len(m.in) /\ 2 + 1 = 3
      BY <1>2, <1>4
    <3> QED
      BY <1>2, <3>1, CutShort
  <2>2. Command(m) = More(r)
    BY <1>4 DEF Command
  <2>3. n \in Nat /\ d \in Depths /\ new \in {"IDLE", "DECODING", "SET_QTABLE", "SET_SCALE"}
    <3>1. n \in Nat
      <4>1. Number(lo) \in Nat
        BY DEF Number
      <4>2. hi \in Decodes => hi # "QT"
        BY DEF Decodes, Depths
      <4> HIDE DEF lo, hi
      <4> QED
        BY <1>2, <4>1, <4>2
    <3> QED
      BY <3>1 DEF Depths, Decodes
  <2> HIDE DEF in, n, d, new
  <2>4. c \in MdecState /\ c.in = in /\ c.state = "IDLE" /\ c.block = 0 /\ c.out = 0 /\ c.depth = d
    BY <1>1, <2>1, <2>3 DEF MdecState
  <2> HIDE DEF c, hi, lo
  <2>5. r \in MdecState /\ r.in = in /\ r.block = 0 /\ r.out = 0 /\ r.depth = d
    <3> DEFINE k == 2 * n
               a == [c EXCEPT !.state = new]
               b == [a EXCEPT !.remaining = k]
               e == [b EXCEPT !.low16 = "NONE"]
               f == [c EXCEPT !.low16 = "COUNT"]
    <3>1. k \in Nat
      BY <2>3
    <3> HIDE DEF k
    <3>2. a \in MdecState /\ a.in = in /\ a.block = 0 /\ a.out = 0 /\ a.depth = d
      BY <2>3, <2>4 DEF MdecState
    <3>3. [c EXCEPT !.state = new, !.remaining = k, !.low16 = "NONE"] = e
      BY <2>4 DEF MdecState
    <3> HIDE DEF a
    <3>4. b \in MdecState /\ b.in = in /\ b.block = 0 /\ b.out = 0 /\ b.depth = d
      BY <3>1, <3>2 DEF MdecState
    <3> HIDE DEF b
    <3>5. e \in MdecState /\ e.in = in /\ e.block = 0 /\ e.out = 0 /\ e.depth = d
      BY <3>4 DEF MdecState
    <3>6. f \in MdecState /\ f.in = in /\ f.block = 0 /\ f.out = 0 /\ f.depth = d
      BY <2>4 DEF MdecState
    <3>7. r = e \/ r = f
      BY <3>3 DEF r, k
    <3> HIDE DEF e, f, r
    <3> QED
      BY <3>5, <3>6, <3>7
  <2>6. r.state \in {"IDLE", "DECODING", "SET_QTABLE", "SET_SCALE"}
    BY <2>5 DEF MdecState
  <2> HIDE DEF r
  <2>7. Shaped(r)
    <3>1. OutWords[r.depth] \in Nat
      BY <2>5, MdecParts
    <3> QED
      BY <2>5, <3>1 DEF Shaped
  <2>8. Size(r) < Size(m) /\ Len(r.in) <= Len(m.in)
    BY <1>2, <1>4, <2>1, <2>5 DEF Size
  <2> QED
    BY <2>2, <2>7, <2>8 DEF Advances, More
<1> QED
  BY <1>3, <1>4

(* The macroblock could not be decoded: only with words in the output, or  *)
(* at the end of the stream.                                               *)
LEMMA NotDecodedAdvances ==
  ASSUME NEW m, Shaped(m), m.state = "DECODING",
         m.out > 0 \/ m.in = <<>> \/ (m.remaining = 0 /\ m.block < NumBlocks)
  PROVE  Advances(m, NotDecoded(m))
<1>1. m \in MdecState /\ m.out <= OutWords[m.depth]
  BY DEF Shaped
<1>2. /\ m.in \in Seq(Tokens) /\ Len(m.in) \in Nat /\ m.remaining \in Nat /\ NumBlocks \in Nat /\ m.out \in Nat
  BY <1>1, MdecParts
<1>3. CASE m.remaining = 0 /\ m.block < NumBlocks
  <2> DEFINE t == [NewBlock(m) EXCEPT !.state = "IDLE"]
  <2>1. NotDecoded(m) = More(t)
    BY <1>3 DEF NotDecoded
  <2>2. t \in MdecState /\ t.in = m.in /\ t.state = "IDLE" /\ t.block = 0 /\ t.out = m.out /\ t.depth = m.depth
    BY <1>1, NewBlockIs DEF MdecState
  <2> HIDE DEF t
  <2>3. Shaped(t) /\ Size(t) < Size(m) /\ Len(t.in) <= Len(m.in)
    BY <1>1, <1>2, <2>2 DEF Shaped, Size
  <2> QED
    BY <2>1, <2>3 DEF Advances, More
<1>4. CASE ~(m.remaining = 0 /\ m.block < NumBlocks)
  <2>1. NotDecoded(m) = Stop(m)
    BY <1>4 DEF NotDecoded
  <2>2. Dry(m)
    BY <1>2, <1>4 DEF Dry
  <2> QED
    BY <1>2, <2>1, <2>2 DEF Advances, Stop
<1> QED
  BY <1>3, <1>4

LEMMA CopyOutAdvances ==
  ASSUME NEW m, Shaped(m), m.out = 0
  PROVE  LET r == CopyOut(m)
         IN /\ Shaped(r.m) /\ r.m.in = m.in /\ r.go = FALSE /\ Dry(r.m)
<1>1. m \in MdecState /\ m.out <= OutWords[m.depth]
  BY DEF Shaped
<1>2. /\ m.depth \in Depths /\ OutWords[m.depth] \in Nat /\ OutWords[m.depth] > 0 /\ NumBlocks \in Nat
  BY <1>1, MdecParts
<1> DEFINE w == OutWords[m.depth]
           s == IF m.remaining = 0 THEN "IDLE" ELSE "DECODING"
           b == NewBlock(m)
           t == [b EXCEPT !.out = w, !.state = s]
<1>3. b \in MdecState /\ b.in = m.in /\ b.block = 0 /\ b.out = 0 /\ b.depth = m.depth
  BY <1>1, NewBlockIs
<1>4. CopyOut(m) = Stop(t)
  <2>1. 0 + w = w
    BY <1>2
  <2>2. CopyOut(m) = Stop([b EXCEPT !.out = b.out + w, !.state = s])
    BY DEF CopyOut
  <2> HIDE DEF b, s, w
  <2> QED
    BY <1>3, <2>1, <2>2
<1>5. s \in {"IDLE", "DECODING"} /\ w \in Nat /\ w > 0 /\ w = OutWords[m.depth]
  BY <1>2
<1> HIDE DEF b, s, w
<1>6. t \in MdecState /\ t.in = m.in /\ t.block = 0 /\ t.out = w /\ t.depth = m.depth
  BY <1>3, <1>5 DEF MdecState
<1> HIDE DEF t
<1>7. Shaped(t) /\ Dry(t)
  BY <1>5, <1>6 DEF Shaped, Dry
<1> QED
  BY <1>4, <1>6, <1>7 DEF Stop

LEMMA RleAdvances ==
  ASSUME NEW m, Shaped(m), m.state = "DECODING", m.block # NumBlocks,
         m.depth = "MONO" => m.out = 0
  PROVE  Advances(m, Rle(m))
<1>1. m \in MdecState /\ m.out <= OutWords[m.depth]
  BY DEF Shaped
<1>2. /\ m.in \in Seq(Tokens) /\ Len(m.in) \in Nat /\ m.remaining \in Nat /\ NumBlocks \in Nat /\ m.out \in Nat
      /\ m.block \in 0 .. NumBlocks /\ m.block \in Nat /\ m.block < NumBlocks
  BY <1>1, MdecParts
<1>3. CASE m.in = <<>> \/ m.remaining = 0
  BY <1>2, <1>3, NotDecodedAdvances DEF Rle
<1>4. CASE ~(m.in = <<>> \/ m.remaining = 0)
  <2> DEFINE in == Tail(m.in)
             left == m.remaining - 1
             p == [m EXCEPT !.in = in, !.remaining = left]
             q == [p EXCEPT !.inside = TRUE]
             d == [p EXCEPT !.block = p.block + 1, !.inside = FALSE]
  <2>1. in \in Seq(Tokens) /\ Len(in) = Len(m.in) - 1
    BY <1>2, <1>4, HeadTailProperties
  <2>2. left \in Nat
    BY <1>2, <1>4
  <2>3. \/ Rle(m) = More(p)
        \/ Rle(m) = More(q)
        \/ Rle(m) = BlockDone(p)
    BY <1>4 DEF Rle
  <2> HIDE DEF in, left
  <2>4. p \in MdecState /\ p.in = in /\ p.state = "DECODING" /\ p.block = m.block /\ p.out = m.out /\ p.depth = m.depth
    BY <1>1, <2>1, <2>2 DEF MdecState
  <2>5. BlockDone(p) = IF m.depth = "MONO" THEN CopyOut(p) ELSE More(d)
    BY <2>4 DEF BlockDone
  <2> HIDE DEF p
  <2>6. q \in MdecState /\ q.in = in /\ q.state = "DECODING" /\ q.block = m.block /\ q.out = m.out /\ q.depth = m.depth
    BY <2>4 DEF MdecState
  <2>7. d \in MdecState /\ d.in = in /\ d.state = "DECODING" /\ d.out = m.out /\ d.depth = m.depth
    <3>1. p.block + 1 \in 0 .. NumBlocks
      BY <1>2, <2>4
    <3> DEFINE next == p.block + 1
    <3> HIDE DEF next
    <3>2. [p EXCEPT !.block = next, !.inside = FALSE] \in MdecState
      BY <2>4, <3>1 DEF MdecState, next
    <3> QED
      BY <2>4, <3>2 DEF MdecState, next
  <2> HIDE DEF q, d
  <2>8. m.depth = "MONO" => m.block = 0
    BY DEF Shaped
  <2>9. Shaped(p) /\ Shaped(q) /\ (m.depth # "MONO" => Shaped(d))
    BY <1>1, <2>4, <2>6, <2>7, <2>8 DEF Shaped
  <2>10. /\ Size(p) < Size(m) /\ Size(q) < Size(m) /\ Size(d) < Size(m)
         /\ Len(in) <= Len(m.in)
    BY <1>2, <2>1, <2>4, <2>6, <2>7 DEF Size
  <2>11. Advances(m, More(p)) /\ Advances(m, More(q)) /\ (m.depth # "MONO" => Advances(m, More(d)))
    BY <2>4, <2>6, <2>7, <2>9, <2>10 DEF Advances, More
  <2>12. m.depth = "MONO" => Advances(m, CopyOut(p))
    <3> SUFFICES ASSUME m.depth = "MONO" PROVE Advances(m, CopyOut(p))
      OBVIOUS
    <3>1. p.out = 0
      BY <2>4
    <3> QED
      BY <2>4, <2>9, <2>10, <3>1, CopyOutAdvances DEF Advances
  <2> QED
    BY <2>3, <2>5, <2>11, <2>12
<1> QED
  BY <1>3, <1>4

(* Whatever the decoder is at.                                             *)
LEMMA TurnAdvances ==
  ASSUME NEW m, Shaped(m)
  PROVE  Advances(m, Turn(m))
<1>1. m \in MdecState
  BY DEF Shaped
<1>2. /\ m.state \in {"IDLE", "DECODING", "SET_QTABLE", "SET_SCALE"}
      /\ m.block \in Nat /\ NumBlocks \in Nat /\ NumBlocks > 0 /\ m.out \in Nat /\ Len(m.in) \in Nat
  BY <1>1, MdecParts
<1>3. CASE m.state = "IDLE"
  BY <1>3, CommandAdvances DEF Turn
<1>4. CASE m.state = "DECODING"
  <2>1. Turn(m) = Macroblock(m)
    BY <1>4 DEF Turn
  <2>2. CASE m.depth = "MONO" /\ m.out > 0
    BY <1>4, <2>1, <2>2, NotDecodedAdvances DEF Macroblock
  <2>3. CASE ~(m.depth = "MONO" /\ m.out > 0) /\ m.block = NumBlocks
    <3>1. CASE m.out > 0
      BY <1>4, <2>1, <2>3, <3>1, NotDecodedAdvances DEF Macroblock
    <3>2. CASE ~(m.out > 0)
      <4>1. m.out = 0
        BY <1>2, <3>2
      <4>2. Turn(m) = CopyOut(m)
        BY <2>1, <2>3, <3>2 DEF Macroblock
      <4>3. Advances(m, CopyOut(m))
        <5> DEFINE r == CopyOut(m)
        <5>1. Shaped(r.m) /\ r.m.in = m.in /\ r.go = FALSE /\ Dry(r.m)
          BY <4>1, CopyOutAdvances
        <5>2. r.go \in BOOLEAN /\ ~r.go
          BY <5>1
        <5> HIDE DEF r
        <5>3. Len(r.m.in) <= Len(m.in)
          BY <1>2, <5>1
        <5> QED
          BY <5>1, <5>2, <5>3 DEF Advances, r
      <4> QED
        BY <4>2, <4>3
    <3> QED
      BY <3>1, <3>2
  <2>4. CASE ~(m.depth = "MONO" /\ m.out > 0) /\ m.block # NumBlocks
    <3>1. m.depth = "MONO" => m.out = 0
      BY <1>2, <2>4
    <3>2. Turn(m) = Rle(m)
      BY <2>1, <2>4 DEF Macroblock
    <3> QED
      BY <1>4, <2>4, <3>1, <3>2, RleAdvances
  <2> QED
    BY <2>2, <2>3, <2>4
<1>5. CASE m.state \in {"SET_QTABLE", "SET_SCALE"}
  BY <1>5, TableAdvances DEF Turn
<1> QED
  BY <1>2, <1>3, <1>4, <1>5

(* A decoder within its input FIFO, and one that is dry as well.           *)
Full(m)   == Shaped(m) /\ Len(m.in) <= InCapacity
Rested(m) == Full(m) /\ Dry(m)

LEMMA SizeIs ==
  ASSUME NEW m, Len(m.in) \in Nat
  PROVE  Size(m) \in Nat /\ Size(m) <= (2 * Len(m.in)) + 1
<1> DEFINE n == Len(m.in)
           e == IF m.state = "IDLE" THEN 0 ELSE 1
<1>1. n \in Nat /\ e \in 0 .. 1
  OBVIOUS
<1>2. Size(m) = (2 * n) + e
  BY DEF Size
<1> HIDE DEF n, e
<1>3. Size(m) \in Nat /\ Size(m) <= (2 * n) + 1
  BY <1>1, <1>2
<1> QED
  BY <1>3 DEF n

(* There are more turns than the input and the states allow, so decoding   *)
(* ends dry.                                                               *)
LEMMA DecodeRests ==
  ASSUME NEW x, Full(x)
  PROVE  Rested(Decode(x)) /\ Len(Decode(x).in) <= Len(x.in)
<1>1. x \in MdecState /\ Shaped(x) /\ Len(x.in) <= InCapacity
  BY DEF Full, Shaped
<1>2. Len(x.in) \in Nat /\ InCapacity \in Nat /\ NumBlocks \in Nat
  BY <1>1, MdecParts
<1>3. DecodeTurns \in Nat /\ DecodeTurns > (2 * Len(x.in)) + 1
  BY <1>1, <1>2 DEF DecodeTurns
<1>4. PICK g : Walked(Decoding, More(x), DecodeTurns, g) /\ Decode(x) = g[DecodeTurns].m
  BY DecodeWalks
<1>5. g[0] = More(x) /\ \A k \in 1 .. DecodeTurns : g[k] = Onward(Decoding, g[k - 1], k)
  <2>1. \A k \in 0 .. DecodeTurns : g[k] = WalkStep(Decoding, More(x), g, k)
    BY <1>4 DEF Walked
  <2>2. 0 \in 0 .. DecodeTurns /\ \A k \in 1 .. DecodeTurns : k \in 0 .. DecodeTurns /\ k # 0
    BY <1>3
  <2> QED
    BY <2>1, <2>2 DEF WalkStep
<1> DEFINE Held(k) == /\ Shaped(g[k].m) /\ Len(g[k].m.in) <= Len(x.in)
                      /\ g[k].go \in BOOLEAN
                      /\ g[k].go => Size(g[k].m) + k <= Size(x)
                      /\ ~g[k].go => Dry(g[k].m)
           S == {k \in 0 .. DecodeTurns : Held(k)}
<1>6. Size(x) \in Nat /\ Size(x) < DecodeTurns
  BY <1>2, <1>3, SizeIs
<1>7. Held(0)
  <2>1. g[0].m = x /\ g[0].go = TRUE
    BY <1>5 DEF More
  <2>2. g[0].go \in BOOLEAN /\ g[0].go
    BY <2>1
  <2>3. Size(x) + 0 <= Size(x) /\ Len(x.in) <= Len(x.in)
    BY <1>2, <1>6
  <2> QED
    BY <1>1, <2>1, <2>2, <2>3
<1>8. ASSUME NEW k \in 1 .. DecodeTurns, Held(k - 1) PROVE Held(k)
  <2> DEFINE p == g[k - 1]
  <2>1. g[k] = IF p.go THEN Turn(p.m) ELSE p
    BY <1>5 DEF Onward, Decoding
  <2>2. CASE p.go
    <3> DEFINE r == Turn(p.m)
    <3>1. Advances(p.m, r)
      BY <1>8, TurnAdvances
    <3>2. g[k] = r
      BY <2>1, <2>2
    <3>3. p.m \in MdecState /\ Shaped(p.m) /\ Len(p.m.in) <= Len(x.in) /\ Size(p.m) + (k - 1) <= Size(x)
      BY <1>8, <2>2 DEF Shaped
    <3> HIDE DEF p, r
    <3>4. /\ Shaped(r.m) /\ Len(r.m.in) <= Len(p.m.in) /\ r.go \in BOOLEAN
          /\ r.go => Size(r.m) < Size(p.m)
          /\ ~r.go => Dry(r.m)
      BY <3>1 DEF Advances
    <3>5. Len(p.m.in) \in Nat /\ Len(r.m.in) \in Nat /\ Size(p.m) \in Nat /\ Size(r.m) \in Nat
      <4>1. Len(p.m.in) \in Nat /\ Len(r.m.in) \in Nat
        BY <3>3, <3>4, MdecParts DEF Shaped
      <4> QED
        BY <4>1, SizeIs
    <3>6. Len(r.m.in) <= Len(x.in)
      BY <1>2, <3>3, <3>4, <3>5
    <3>7. r.go => Size(r.m) + k <= Size(x)
      BY <1>6, <3>3, <3>4, <3>5
    <3> QED
      BY <3>2, <3>4, <3>6, <3>7
  <2>3. CASE ~p.go
    <3>1. g[k] = g[k - 1] /\ ~g[k].go
      BY <2>1, <2>3
    <3>2. Held(k - 1)
      BY <1>8
    <3> QED
      BY <3>1, <3>2
  <2>4. p.go \in BOOLEAN
    BY <1>8
  <2> QED
    BY <2>2, <2>3
<1>9. 0 .. DecodeTurns \subseteq S
  <2>1. 0 \in S
    BY <1>3, <1>7
  <2>2. ASSUME NEW k \in 1 .. DecodeTurns, k - 1 \in S PROVE k \in S
    <3>1. k \in 0 .. DecodeTurns
      BY <1>3
    <3>2. Held(k - 1)
      BY <2>2
    <3>3. Held(k)
      BY <1>8, <3>2
    <3> QED
      BY <3>1, <3>3
  <2> HIDE DEF S
  <2> QED
    BY <1>3, <2>1, <2>2, AllSteps
<1>10. Held(DecodeTurns)
  <2>1. DecodeTurns \in 0 .. DecodeTurns
    BY <1>3
  <2>2. DecodeTurns \in S
    BY <1>9, <2>1
  <2> HIDE DEF Held
  <2> QED
    BY <2>2
<1> DEFINE d == g[DecodeTurns]
<1>11. /\ Shaped(d.m) /\ Len(d.m.in) <= Len(x.in) /\ d.go \in BOOLEAN
       /\ d.go => Size(d.m) + DecodeTurns <= Size(x)
       /\ ~d.go => Dry(d.m)
  BY <1>10
<1>12. Decode(x) = d.m
  BY <1>4
<1> HIDE DEF d, Held, S
<1>13. Len(d.m.in) \in Nat /\ Size(d.m) \in Nat
  <2>1. Len(d.m.in) \in Nat
    BY <1>11, MdecParts DEF Shaped
  <2> QED
    BY <2>1, SizeIs
<1>14. ~d.go
  BY <1>3, <1>6, <1>11, <1>13
<1>15. Len(d.m.in) <= InCapacity
  BY <1>1, <1>2, <1>11, <1>13
<1> QED
  BY <1>11, <1>12, <1>14, <1>15 DEF Rested, Full

(* A word is given to a decoder with room for it.                          *)
LEMMA InPushRests ==
  ASSUME NEW m, Full(m), InputHasSpace(m), NEW w \in MdecWords
  PROVE  Rested(InPush(m, w))
<1>1. m \in MdecState /\ Shaped(m)
  BY DEF Full, Shaped
<1>2. m.in \in Seq(Tokens) /\ Len(m.in) \in Nat /\ InCapacity \in Nat
  BY <1>1, MdecParts
<1>3. w \in Seq(Tokens) /\ Len(w) = 2
  <2>1. w \in Tokens \X Tokens
    BY MdecConstants
  <2>2. PICK a \in Tokens, b \in Tokens : w = <<a, b>>
    BY <2>1
  <2> HIDE DEF Tokens
  <2>3. <<a, b>> \in Seq(Tokens) /\ Len(<<a, b>>) = 2
    OBVIOUS
  <2> QED
    BY <2>2, <2>3
<1> DEFINE in == m.in \o w
           p == [m EXCEPT !.in = in]
<1>4. in \in Seq(Tokens) /\ Len(in) = Len(m.in) + 2
  <2> DEFINE s == m.in
  <2>1. s \in Seq(Tokens) /\ w \in Seq(Tokens)
    BY <1>2, <1>3
  <2> HIDE DEF s
  <2>2. s \o w \in Seq(Tokens) /\ Len(s \o w) = Len(s) + Len(w)
    BY <2>1, ConcatProperties
  <2> QED
    BY <1>3, <2>2 DEF s
<1>5. InPush(m, w) = Decode(p)
  BY DEF InPush
<1> HIDE DEF in
<1>6. p \in MdecState /\ p.in = in /\ p.state = m.state /\ p.depth = m.depth /\ p.block = m.block /\ p.out = m.out
  BY <1>1, <1>4 DEF MdecState
<1> HIDE DEF p
<1>7. Full(p)
  BY <1>1, <1>2, <1>4, <1>6 DEF Full, Shaped, InputHasSpace
<1> QED
  BY <1>5, <1>7, DecodeRests

(* A word is taken; the last one lets the decoder go on.                   *)
LEMMA PopRests ==
  ASSUME NEW m, Rested(m)
  PROVE  Rested(Pop(m))
<1>1. m \in MdecState /\ Shaped(m) /\ m.out <= OutWords[m.depth] /\ Len(m.in) <= InCapacity
  BY DEF Rested, Full, Shaped
<1>2. m.out \in Nat /\ OutWords[m.depth] \in Nat
  BY <1>1, MdecParts
<1>3. CASE m.out = 0
  BY <1>3 DEF Pop
<1>4. CASE m.out # 0
  <2> DEFINE out == m.out - 1
             p == [m EXCEPT !.out = out]
  <2>1. out \in Nat /\ out <= OutWords[m.depth]
    BY <1>1, <1>2, <1>4
  <2>2. Pop(m) = IF p.out = 0 THEN Decode(p) ELSE p
    BY <1>4 DEF Pop
  <2> HIDE DEF out
  <2>3. p \in MdecState /\ p.in = m.in /\ p.state = m.state /\ p.depth = m.depth /\ p.block = m.block /\ p.out = out
    BY <1>1, <2>1 DEF MdecState
  <2> HIDE DEF p
  <2>4. Full(p)
    BY <1>1, <2>1, <2>3 DEF Full, Shaped
  <2>5. CASE p.out = 0
    BY <2>2, <2>4, <2>5, DecodeRests
  <2>6. CASE p.out # 0
    BY <2>2, <2>4, <2>6 DEF Rested, Dry
  <2> QED
    BY <2>5, <2>6
<1> QED
  BY <1>3, <1>4

(* A half of a DMA under way.                                              *)
Halves == [m : MdecState, left : 0 .. MaxDma]
Flowing(p) == p \in Halves /\ Rested(p.m)

(* A step of either half leaves the decoder at rest.                       *)
LEMMA OnwardFlows ==
  ASSUME NEW a, a = Draining \/ (\E ws \in [1 .. MdecSlice -> MdecWords] : a = Filling(ws)),
         NEW k \in 1 .. MdecSlice, NEW p, Flowing(p)
  PROVE  Flowing(Onward(a, p, k))
<1>1. p \in Halves /\ p.m \in MdecState /\ p.left \in 0 .. MaxDma /\ Rested(p.m) /\ Full(p.m)
  BY DEF Flowing, Halves, Rested
<1>2. MaxDma \in Nat /\ MdecSlice \in Nat
  BY MdecConstants
<1> DEFINE n == p.left - 1
<1>3. p.left > 0 => n \in 0 .. MaxDma
  BY <1>1, <1>2
<1> HIDE DEF n
<1>4. ASSUME NEW m, Rested(m), p.left > 0 PROVE Flowing([m |-> m, left |-> n])
  <2>1. m \in MdecState
    BY <1>4 DEF Rested, Full, Shaped
  <2> QED
    BY <1>3, <1>4, <2>1 DEF Flowing, Halves
<1>5. CASE a = Draining
  <2>1. Onward(a, p, k) = IF p.left > 0 /\ OutputHasData(p.m) THEN [m |-> Pop(p.m), left |-> n] ELSE p
    BY <1>5 DEF Onward, Draining, n
  <2>2. Rested(Pop(p.m))
    BY <1>1, PopRests
  <2> QED
    BY <1>4, <2>1, <2>2
<1>6. ASSUME NEW ws \in [1 .. MdecSlice -> MdecWords], a = Filling(ws) PROVE Flowing(Onward(a, p, k))
  <2>1. Onward(a, p, k) = IF p.left > 0 /\ InputHasSpace(p.m) THEN [m |-> InPush(p.m, ws[k]), left |-> n] ELSE p
    BY <1>6 DEF Onward, Filling, n
  <2>2. ws[k] \in MdecWords
    OBVIOUS
  <2>3. InputHasSpace(p.m) => Rested(InPush(p.m, ws[k]))
    BY <1>1, <2>2, InPushRests
  <2> QED
    BY <1>4, <2>1, <2>3
<1> QED
  BY <1>5, <1>6

(* So does a whole half.                                                   *)
LEMMA WalkFlows ==
  ASSUME NEW a, a = Draining \/ (\E ws \in [1 .. MdecSlice -> MdecWords] : a = Filling(ws)),
         NEW x, Flowing(x), NEW g, Walked(a, x, MdecSlice, g)
  PROVE  Flowing(g[MdecSlice])
<1>1. MdecSlice \in Nat
  BY MdecConstants
<1>2. g[0] = x /\ \A k \in 1 .. MdecSlice : g[k] = Onward(a, g[k - 1], k)
  <2>1. \A k \in 0 .. MdecSlice : g[k] = WalkStep(a, x, g, k)
    BY DEF Walked
  <2>2. 0 \in 0 .. MdecSlice /\ \A k \in 1 .. MdecSlice : k \in 0 .. MdecSlice /\ k # 0
    BY <1>1
  <2> QED
    BY <2>1, <2>2 DEF WalkStep
<1> DEFINE S == {k \in 0 .. MdecSlice : Flowing(g[k])}
<1>3. 0 \in S
  BY <1>1, <1>2
<1>4. ASSUME NEW k \in 1 .. MdecSlice, k - 1 \in S PROVE k \in S
  <2>1. Flowing(g[k - 1]) /\ k \in 0 .. MdecSlice
    BY <1>1, <1>4
  <2>2. Flowing(Onward(a, g[k - 1], k))
    BY <2>1, OnwardFlows
  <2> QED
    BY <1>2, <2>1, <2>2
<1>5. 0 .. MdecSlice \subseteq S
  <2> HIDE DEF S
  <2> QED
    BY <1>1, <1>3, <1>4, AllSteps
<1>6. MdecSlice \in S
  <2> HIDE DEF S
  <2> QED
    BY <1>1, <1>5
<1> QED
  BY <1>6

LEMMA InHalfFlows ==
  ASSUME NEW m, Rested(m), NEW left \in 0 .. MaxDma, NEW ws \in [1 .. MdecSlice -> MdecWords]
  PROVE  Flowing(InHalf(m, left, ws))
<1> DEFINE x == [m |-> m, left |-> left]
<1>1. Flowing(x)
  BY DEF Flowing, Halves, Rested, Full, Shaped
<1>2. PICK g : Walked(Filling(ws), x, MdecSlice, g) /\ InHalf(m, left, ws) = g[MdecSlice]
  BY InHalfWalks
<1> HIDE DEF x
<1>3. Flowing(g[MdecSlice])
  BY <1>1, <1>2, WalkFlows
<1> QED
  BY <1>2, <1>3

LEMMA OutHalfFlows ==
  ASSUME NEW m, Rested(m), NEW left \in 0 .. MaxDma
  PROVE  Flowing(OutHalf(m, left))
<1>1. Flowing(OutStart(m, left))
  BY DEF OutStart, Flowing, Halves, Rested, Full, Shaped
<1>2. PICK g : /\ Walked(Draining, OutStart(m, left), MdecSlice, g)
               /\ OutHalf(m, left) = IF g[MdecSlice].left > 0 /\ ~OutputHasData(g[MdecSlice].m)
                                     THEN [g[MdecSlice] EXCEPT !.m = Decode(@)] ELSE g[MdecSlice]
  BY OutHalfWalks
<1> DEFINE r == g[MdecSlice]
           d == Decode(r.m)
<1>3. Flowing(r)
  BY <1>1, <1>2, WalkFlows
<1>4. OutHalf(m, left) = [r EXCEPT !.m = d] \/ OutHalf(m, left) = r
  BY <1>2
<1> HIDE DEF r
<1>5. r \in Halves /\ Full(r.m)
  BY <1>3 DEF Flowing, Rested
<1>6. Rested(d)
  BY <1>5, DecodeRests
<1>7. d \in MdecState
  BY <1>6 DEF Rested, Full, Shaped
<1> HIDE DEF d
<1>8. [r EXCEPT !.m = d] \in Halves /\ [r EXCEPT !.m = d].m = d
  BY <1>5, <1>7 DEF Halves
<1> QED
  BY <1>3, <1>4, <1>6, <1>8 DEF Flowing

(* The decoder is at rest between two steps.                               *)
MdecIInv == Rested(mdec) /\ half \in [{"IN", "OUT"} -> 0 .. MaxDma]

LEMMA BlankRests == Rested(Blank) /\ Blank.state = "IDLE"
<1>1. "MONO" \in Depths /\ NumBlocks \in Nat /\ InCapacity \in Nat /\ OutWords["MONO"] \in Nat
  BY MdecConstants DEF Depths
<1>2. <<>> \in Seq(Tokens) /\ Len(<<>>) = 0
  BY EmptySeq
<1>3. Blank \in MdecState
  BY <1>1, <1>2 DEF Blank, MdecState
<1>4. /\ Blank.state = "IDLE" /\ Blank.in = <<>> /\ Blank.depth = "MONO" /\ Blank.block = 0
      /\ Blank.out = 0
  BY DEF Blank
<1> QED
  BY <1>1, <1>2, <1>3, <1>4 DEF Rested, Full, Shaped, Dry

LEMMA MdecInitIInv == MdecInit => MdecIInv
<1>1. 0 \in 0 .. MaxDma
  BY MdecConstants
<1> QED
  BY <1>1, BlankRests DEF MdecInit, MdecIInv

LEMMA MdecStep == MdecIInv /\ [MdecNext]_mdec_vars => MdecIInv'
<1> SUFFICES ASSUME MdecIInv, [MdecNext]_mdec_vars PROVE MdecIInv'
  OBVIOUS
<1>1. Rested(mdec) /\ Full(mdec) /\ mdec \in MdecState
  BY DEF MdecIInv, Rested, Full, Shaped
<1>2. half \in [{"IN", "OUT"} -> 0 .. MaxDma] /\ 0 \in 0 .. MaxDma
  BY MdecConstants DEF MdecIInv
<1>3. ASSUME NEW w \in MdecWords, WriteWord(w) PROVE MdecIInv'
  BY <1>1, <1>2, <1>3, InPushRests DEF WriteWord, MdecIInv
<1>4. CASE ReadData
  BY <1>1, <1>2, <1>4, PopRests DEF ReadData, MdecIInv
<1>5. ASSUME NEW reset \in BOOLEAN, WriteControl(reset) PROVE MdecIInv'
  <2>1. Rested(Decode(mdec))
    BY <1>1, DecodeRests
  <2>2. mdec' = Blank \/ mdec' = Decode(mdec)
    BY <1>5 DEF WriteControl
  <2>3. half' = half
    BY <1>5 DEF WriteControl
  <2> QED
    BY <1>2, <2>1, <2>2, <2>3, BlankRests DEF MdecIInv
<1>6. ASSUME NEW h \in {"IN", "OUT"}, NEW n \in 0 .. MaxDma, StartHalf(h, n) PROVE MdecIInv'
  BY <1>1, <1>2, <1>6 DEF StartHalf, MdecIInv
<1>7. CASE MdecEventSlice
  <2>1. PICK ws \in [1 .. MdecSlice -> MdecWords] :
          LET i == IF half["IN"] > 0 THEN InHalf(mdec, half["IN"], ws)
                   ELSE [m |-> mdec, left |-> 0]
              o == IF half["OUT"] > 0 THEN OutHalf(i.m, half["OUT"]) ELSE [m |-> i.m, left |-> 0]
          IN mdec' = o.m /\ half' = [half EXCEPT !["IN"] = i.left, !["OUT"] = o.left]
    BY <1>7 DEF MdecEventSlice
  <2> DEFINE i == IF half["IN"] > 0 THEN InHalf(mdec, half["IN"], ws) ELSE [m |-> mdec, left |-> 0]
             o == IF half["OUT"] > 0 THEN OutHalf(i.m, half["OUT"]) ELSE [m |-> i.m, left |-> 0]
  <2>2. \A m : Rested(m) => Flowing([m |-> m, left |-> 0])
    BY <1>2 DEF Flowing, Halves, Rested, Full, Shaped
  <2>3. half["IN"] \in 0 .. MaxDma /\ half["OUT"] \in 0 .. MaxDma
    BY <1>2
  <2>4. Flowing(i)
    <3>1. Flowing(InHalf(mdec, half["IN"], ws))
      BY <1>1, <2>3, InHalfFlows
    <3> QED
      BY <1>1, <2>2, <3>1
  <2>5. mdec' = o.m /\ half' = [half EXCEPT !["IN"] = i.left, !["OUT"] = o.left]
    BY <2>1
  <2> HIDE DEF i
  <2>6. Flowing(o)
    <3>1. Rested(i.m)
      BY <2>4 DEF Flowing
    <3>2. Flowing(OutHalf(i.m, half["OUT"]))
      BY <2>3, <3>1, OutHalfFlows
    <3> QED
      BY <2>2, <3>1, <3>2
  <2> HIDE DEF o
  <2>7. i.left \in 0 .. MaxDma /\ o.left \in 0 .. MaxDma /\ Rested(o.m)
    BY <2>4, <2>6 DEF Flowing, Halves
  <2> QED
    BY <1>2, <2>5, <2>7 DEF MdecIInv
<1>8. CASE MdecRestored
  <2> DEFINE p == [mdec EXCEPT !.low16 = "NONE"]
  <2>1. /\ p \in MdecState /\ p.in = mdec.in /\ p.state = mdec.state /\ p.depth = mdec.depth
        /\ p.block = mdec.block /\ p.out = mdec.out /\ p.remaining = mdec.remaining
    BY <1>1 DEF MdecState
  <2>2. mdec' = p /\ half' = half
    BY <1>8 DEF MdecRestored
  <2> HIDE DEF p
  <2>3. Rested(p)
    BY <1>1, <2>1 DEF Rested, Full, Shaped, Dry
  <2> QED
    BY <1>2, <2>2, <2>3 DEF MdecIInv
<1>9. CASE UNCHANGED mdec_vars
  BY <1>1, <1>2, <1>9 DEF mdec_vars, MdecIInv
<1> QED
  BY <1>3, <1>4, <1>5, <1>6, <1>7, <1>8, <1>9 DEF MdecNext

(* The decoder and the two halves of its DMA never all wait, and a slow    *)
(* guest gets each macroblock whole, for FIFOs, tables, macroblocks and    *)
(* slices of any size, and a stream cut anywhere (mdec_execute,            *)
(* mdec_dma_in, mdec_dma_out, dma_mdec_run_slice).                         *)
THEOREM DecoderAlwaysFlows == MdecSpec => []DecoderFlows
<1>1. MdecIInv => DecoderFlows
  BY DEF MdecIInv, Rested, Full, Shaped, Dry, DecoderFlows, NeverStuck, OneMacroblockOut
<1> QED
  BY <1>1, MdecInitIInv, MdecStep, PTL DEF MdecSpec

-----------------------------------------------------------------------------
(* MCPeripherals: the devices side by side.  A step of the instance is one *)
(* of the subject's and leaves the others alone, so each device behaves as *)
(* its own module says, and what is proved there holds in the instance.    *)
LEMMA SideBySide ==
  PeripheralsSpec => /\ Spec /\ SioSpec /\ PadSpec /\ CardSpec /\ MdecSpec
                     /\ Gp0Spec /\ DrawSpec /\ CrtcSpec /\ SaveSpec
<1>1. PeripheralsInit => /\ Init /\ SioInit /\ PadInit /\ CardInit /\ MdecInit
                         /\ Gp0Init /\ DrawInit /\ CrtcInit /\ SaveInit
  BY DEF PeripheralsInit
<1>2. [PeripheralsNext]_peripheral_vars =>
         /\ [Next]_vars /\ [SioNext]_sio_vars /\ [PadNext]_pad_vars
         /\ [CardNext]_card_vars /\ [MdecNext]_mdec_vars /\ [Gp0Next]_gp0_vars
         /\ [DrawNext]_draw_vars /\ [CrtcNext]_crtc /\ [SaveNext]_save_vars
  BY DEF PeripheralsNext, Others, peripheral_vars
<1> QED
  BY <1>1, <1>2, PTL DEF PeripheralsSpec, Spec, SioSpec, PadSpec, CardSpec, MdecSpec, Gp0Spec,
                         DrawSpec, CrtcSpec, SaveSpec

(* Every register and queue of every device keeps its type, for any sizes, *)
(* bytes, words and discs.                                                 *)
THEOREM PeripheralsKeepTheirTypes == PeripheralsSpec => []TypesOK
<1>1. CardSpec => []CardTypeOK
  <2>1. CardIInv => CardTypeOK
    BY DEF CardIInv
  <2> QED
    BY <2>1, CardInitIInv, CardNextIInv, PTL DEF CardSpec
<1>2. SioSpec => []SioTypeOK
  <2>1. SioIInv => SioTypeOK
    BY DEF SioIInv
  <2>2. SioIInv /\ [SioNext]_sio_vars => SioIInv'
    BY SioStep
  <2> QED
    BY <2>1, <2>2, SioInitIInv, PTL DEF SioSpec
<1>3. SaveSpec => []SaveTypeOK
  <2>1. SaveIInv => SaveTypeOK
    BY DEF SaveIInv
  <2> QED
    BY <2>1, SaveInitIInv, SaveStep, PTL DEF SaveSpec
<1>4. MdecSpec => []MdecTypeOK
  <2>1. MdecIInv => MdecTypeOK
    BY DEF MdecIInv, Rested, Full, Shaped, MdecTypeOK
  <2> QED
    BY <2>1, MdecInitIInv, MdecStep, PTL DEF MdecSpec
<1>5. DrawSpec => []DrawTypeOK
  <2>1. DrawIInv => DrawTypeOK
    BY DEF DrawIInv, DrawTypeOK, Guest, Renderer
  <2> QED
    BY <2>1, DrawInitIInv, DrawStep, PTL DEF DrawSpec
<1>6. TypesOK <=> /\ TypeOK /\ SioTypeOK /\ PadTypeOK /\ CardTypeOK /\ MdecTypeOK
                  /\ Gp0TypeOK /\ DrawTypeOK /\ CrtcTypeOK /\ SaveTypeOK
  BY DEF TypesOK
<1>7. Spec => []TypeOK
  BY TypeCorrect
<1>8. PadSpec => []PadTypeOK
  BY PacketsAreWhole, PTL
<1>9. Gp0Spec => []Gp0TypeOK
  BY WordsAreFramed, PTL
<1>10. CrtcSpec => []CrtcTypeOK
  BY RegionExists, PTL
<1> QED
  BY <1>1, <1>2, <1>3, <1>4, <1>5, <1>6, <1>7, <1>8, <1>9, <1>10, SideBySide, PTL

(* Everything the instance is checked for holds of it, whatever the sizes, *)
(* bytes, words, settings and discs.                                       *)
THEOREM PeripheralsAreSound ==
  PeripheralsSpec => /\ []RequestsAreKept /\ []PacketMatchesItsId /\ []CardIsSafe
                     /\ []DecoderFlows /\ []PixelsAreReal /\ []WordsAreAccounted
                     /\ []RegionIsShowable
                     /\ CardsChangeByWholePackets /\ DrawsAreFaithful /\ LoadsAreWhole
<1>1. PadSpec => []PacketMatchesItsId
  BY PacketsAreWhole, PTL
<1>2. Gp0Spec => []WordsAreAccounted
  BY WordsAreFramed, PTL
<1>3. CrtcSpec => []RegionIsShowable
  BY RegionExists, PTL
<1> QED
  BY <1>1, <1>2, <1>3, SideBySide, NoRequestIsForgotten, CardSurvives, DecoderAlwaysFlows,
     TransfersAreReal, CardsAreWrittenWhole, DrawingIsFaithful, LoadingIsWhole
=============================================================================
