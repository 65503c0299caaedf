--------------------------------- MODULE Spu ---------------------------------
(***************************************************************************)
(* One voice of the sound processor, src/spu: its walk over the ADPCM      *)
(* blocks in SPU RAM, its envelope, the key latches, and IRQ9, which traps *)
(* accesses to one address of that RAM whether the voice is heard or not.  *)
(* A block of 16 bytes is one unit, of which only the flags byte is kept;  *)
(* a transfer moves one unit at a time.  Which sample of a block is played *)
(* is left out: an output sample reads the next block or not, and reads it *)
(* for certain after Key On.  The other voices, which share nothing but    *)
(* IRQ9, are left out; noise, reverb and the mix carry no control.         *)
(***************************************************************************)
EXTENDS Integers

CONSTANTS
  Blocks,           \* SPU RAM is the blocks 0 .. Blocks - 1
  BlockFlags,       \* what the flags byte of a block can be
  Envelopes,        \* ADSR settings to try
  FifoSize,         \* the halfwords 1F801DA8h holds (32)
  SpuWrites         \* bound: register writes and transfers of the guest

ASSUME SpuConstants ==
  /\ Blocks \in Nat \ {0} /\ FifoSize \in Nat \ {0} /\ SpuWrites \in Nat
  /\ BlockFlags \subseteq [start : BOOLEAN, end : BOOLEAN, repeat : BOOLEAN]
  /\ Envelopes \subseteq
       [attack : 0 .. 127, attack_exp : BOOLEAN, decay : 0 .. 15, level : 0 .. 15,
        sustain : 0 .. 127, sustain_exp : BOOLEAN, increase : BOOLEAN,
        release : 0 .. 31, release_exp : BOOLEAN]

Addresses == 0 .. Blocks - 1

VARIABLES
  voice,        \* SpuVoice
  keys,         \* the key_on and key_off latches
  ctrl,         \* SPUCNT: on, irq9 enable, transfer mode
  trap,         \* the IRQ address, irq9_flag and the line to the controller
  transfer,     \* transfer_addr and the manual-write FIFO
  sram,         \* the flags of each block
  adsr,         \* the ADSR registers of the voice
  writes        \* bound counter

spu_vars == <<voice, keys, ctrl, trap, transfer, sram, adsr, writes>>

States == {"ATTACK", "DECAY", "SUSTAIN", "RELEASE", "STOPPED"}
Transfers == {"STOP", "MANUAL", "DMA_WRITE", "DMA_READ"}
Top == 32767

SpuTypeOK ==
  /\ voice \in [on : BOOLEAN, stop : BOOLEAN, curr : Addresses, start : Addresses,
                repeat : Addresses, ignore_loop : BOOLEAN, reach_end : BOOLEAN,
                fetched : 0 .. 2, due : BOOLEAN, endx : BOOLEAN,
                state : States, vol : 0 .. Top, frac : 0 .. 2 ^ 20]
  /\ keys \in [on : BOOLEAN, off : BOOLEAN]
  /\ ctrl \in [on : BOOLEAN, irq9 : BOOLEAN, mode : Transfers]
  /\ trap \in [at : Addresses, flag : BOOLEAN, line : BOOLEAN]
  /\ transfer \in [at : Addresses, fifo : 0 .. FifoSize]
  /\ sram \in [Addresses -> BlockFlags]
  /\ adsr \in Envelopes /\ writes \in 0 .. SpuWrites

SpuInit ==
  /\ voice = [on |-> FALSE, stop |-> FALSE, curr |-> 0, start |-> 0, repeat |-> 0,
              ignore_loop |-> FALSE, reach_end |-> FALSE, fetched |-> 0, due |-> FALSE,
              endx |-> FALSE, state |-> "ATTACK", vol |-> 0, frac |-> 0]
  /\ keys = [on |-> FALSE, off |-> FALSE]
  /\ ctrl = [on |-> FALSE, irq9 |-> FALSE, mode |-> "STOP"]
  /\ trap = [at |-> 0, flag |-> FALSE, line |-> FALSE]
  /\ transfer = [at |-> 0, fifo |-> 0]
  /\ sram \in [Addresses -> BlockFlags]
  /\ adsr \in Envelopes
  /\ writes = 0
-----------------------------------------------------------------------------
(* spu_check_irq and spu_check_irq_range: the blocks of `touched` are      *)
(* accessed under the control register c.                                  *)
Trapped(t, c, touched) ==
  IF c.irq9 /\ ~t.flag /\ t.at \in touched
  THEN [t EXCEPT !.flag = TRUE, !.line = TRUE] ELSE t

(* spu_process_key_on_off: Key Off first, so a Key On wins.                *)
KeyOffLatch_NotInAttack(v) ==
  IF keys.off /\ v.on /\ v.state # "ATTACK" THEN [v EXCEPT !.stop = TRUE] ELSE v

KeyOffLatch(v) == IF keys.off /\ v.on THEN [v EXCEPT !.stop = TRUE] ELSE v

KeyOnLatch(v) ==
  IF ~keys.on THEN v
  ELSE [v EXCEPT !.on = TRUE, !.stop = FALSE, !.curr = v.start, !.reach_end = FALSE,
                 !.ignore_loop = FALSE, !.fetched = 0, !.due = TRUE, !.endx = FALSE,
                 !.state = "ATTACK", !.vol = 0, !.frac = 0]

(* voice_fetch_block.                                                      *)
Released(v) ==
  IF v.reach_end /\ v.on
  THEN [v EXCEPT !.reach_end = FALSE, !.state = "RELEASE", !.stop = FALSE, !.vol = 0]
  ELSE [v EXCEPT !.reach_end = FALSE]

LoopPoint(v) == IF sram[v.curr].start /\ ~v.ignore_loop THEN v.curr ELSE v.repeat

FetchBlock(v) ==
  LET r    == Released(v)
      f    == sram[v.curr]
      loop == LoopPoint(v)
  IN [r EXCEPT !.repeat = loop, !.due = FALSE,
               !.fetched = IF @ < 2 THEN @ + 1 ELSE @,
               !.curr = IF f.end THEN loop ELSE (v.curr + 1) % Blocks,
               !.endx = @ \/ f.end,
               !.reach_end = f.end /\ ~f.repeat]

(* The ADSR tables of spu_adsr.c.                                          *)
Denominator(n) == IF n < 48 THEN 1 ELSE 2 ^ ((n \div 4) - 11)
Up(n)   == (7 - (n % 4)) * (IF n < 48 THEN 2 ^ (11 - (n \div 4)) ELSE 1)
Down(n) == ((n % 4) - 8) * (IF n < 48 THEN 2 ^ (11 - (n \div 4)) ELSE 1)
ClampRate(n) == IF n > 127 THEN 127 ELSE n
Within(x) == IF x < 0 THEN 0 ELSE IF x > Top THEN Top ELSE x

(* One tick at rate n: every Denominator(n) samples the level takes step.  *)
Ticked(v, n, step) ==
  IF v.frac + 1 >= Denominator(n)
  THEN [v EXCEPT !.frac = 0, !.vol = Within(v.vol + step)]
  ELSE [v EXCEPT !.frac = @ + 1]

Slower(n, exp, vol) == ClampRate(IF exp /\ vol >= 24576 THEN n + 8 ELSE n)
Falling(n, exp, vol) == IF exp THEN (Down(n) * vol) \div 32768 ELSE Down(n)

Attack(v) ==
  LET n == Slower(adsr.attack, adsr.attack_exp, v.vol)
      w == Ticked(v, n, Up(n))
  IN [w EXCEPT !.state = IF w.vol = Top THEN "DECAY" ELSE @]

Decay(v) ==
  LET n == ClampRate(adsr.decay * 4)
      w == Ticked(v, n, Falling(n, TRUE, v.vol))
  IN [w EXCEPT !.state = IF (w.vol \div 2048) % 16 <= adsr.level THEN "SUSTAIN" ELSE @]

Sustain(v) ==
  LET up   == Slower(adsr.sustain, adsr.sustain_exp, v.vol)
      down == ClampRate(adsr.sustain)
  IN IF adsr.increase THEN Ticked(v, up, Up(up))
     ELSE Ticked(v, down, Falling(down, adsr.sustain_exp, v.vol))

(* Only a step below zero stops the voice.                                 *)
Release(v) ==
  LET n    == ClampRate(adsr.release * 4)
      step == Falling(n, adsr.release_exp, v.vol)
      w    == Ticked(v, n, step)
  IN IF v.frac + 1 >= Denominator(n) /\ v.vol + step < 0
     THEN [w EXCEPT !.state = "STOPPED", !.on = FALSE] ELSE w

(* spu_adsr_mix.                                                           *)
Envelope(v) == CASE v.state = "ATTACK"  -> Attack(v)
                 [] v.state = "DECAY"   -> Decay(v)
                 [] v.state = "SUSTAIN" -> Sustain(v)
                 [] v.state = "RELEASE" -> Release(v)
                 [] v.state = "STOPPED" -> v

(* The advance of spu_voice_get_sample, and voice_advance_silent for a     *)
(* voice that is off: the block is read all the same.                      *)
Stopping(v) == IF v.on /\ v.stop THEN [v EXCEPT !.state = "RELEASE", !.stop = FALSE] ELSE v

ReadsBlock_OnlyHeard(v, fetch) == fetch /\ v.on

ReadsBlock(v, fetch) == fetch /\ (v.on \/ ctrl.on)

Advanced(v, fetch) == IF ReadsBlock(v, fetch) THEN FetchBlock(Stopping(v)) ELSE Stopping(v)

(* spu_generate_one_sample; capture: one of the four capture writes is to  *)
(* the trapped halfword (capture_write), which only block 0 stands for.    *)
Sample(fetch, capture) ==
  \E v \in {KeyOnLatch(KeyOffLatch(voice))} : \E w \in {Advanced(v, fetch)} :
     /\ v.due /\ (v.on \/ ctrl.on) => fetch
     /\ voice' = IF v.on THEN Envelope(w) ELSE w
     /\ keys' = [on |-> FALSE, off |-> FALSE]
     /\ trap' = Trapped(trap, ctrl, (IF ReadsBlock(v, fetch) THEN {v.curr} ELSE {})
                                      \cup (IF capture THEN {0} ELSE {}))
     /\ UNCHANGED <<ctrl, transfer, sram, adsr, writes>>
-----------------------------------------------------------------------------
(* The guest; every access catches the samples up first, which is a Sample *)
(* before it.                                                              *)
Guest == writes < SpuWrites /\ writes' = writes + 1

KeyOn  == Guest /\ keys' = [keys EXCEPT !.on = TRUE]
            /\ UNCHANGED <<voice, ctrl, trap, transfer, sram, adsr>>
KeyOff == Guest /\ keys' = [keys EXCEPT !.off = TRUE]
            /\ UNCHANGED <<voice, ctrl, trap, transfer, sram, adsr>>

(* n units from the transfer address on.                                   *)
Reached(n) == {(transfer.at + i) % Blocks : i \in 0 .. n - 1}
MovedOn(n) == [transfer EXCEPT !.at = (@ + n) % Blocks]

(* spu_set_control: acknowledge, silence, then the FIFO flush.             *)
SetControl(c) ==
  LET acked == IF c.irq9 THEN trap ELSE [trap EXCEPT !.flag = FALSE, !.line = FALSE]
      flush == c.mode = "MANUAL" /\ transfer.fifo > 0
      n     == transfer.fifo
  IN /\ Guest /\ ctrl' = c
     /\ voice' = IF c.on THEN voice ELSE [voice EXCEPT !.on = FALSE]
     /\ IF flush
        THEN /\ trap' = Trapped(acked, c, Reached(n))
             /\ transfer' = [MovedOn(n) EXCEPT !.fifo = 0]
             /\ \E f \in BlockFlags :
                  sram' = [b \in Addresses |-> IF b \in Reached(n) THEN f ELSE sram[b]]
        ELSE trap' = acked /\ UNCHANGED <<transfer, sram>>
     /\ UNCHANGED <<keys, adsr>>

WriteIrqAddress(b) == Guest /\ trap' = [trap EXCEPT !.at = b]
                        /\ UNCHANGED <<voice, keys, ctrl, transfer, sram, adsr>>
WriteTransferAddress(b) == Guest /\ transfer' = [transfer EXCEPT !.at = b]
                             /\ UNCHANGED <<voice, keys, ctrl, trap, sram, adsr>>
WriteStart(b) == Guest /\ voice' = [voice EXCEPT !.start = b]
                   /\ UNCHANGED <<keys, ctrl, trap, transfer, sram, adsr>>

(* voice_write_reg 0Eh: the write wins over the sample's own Loop Start    *)
(* when the voice is off or past its first block.                          *)
WriteRepeat(b) ==
  /\ Guest
  /\ voice' = [voice EXCEPT !.repeat = b, !.ignore_loop = @ \/ ~voice.on \/ voice.fetched = 2]
  /\ UNCHANGED <<keys, ctrl, trap, transfer, sram, adsr>>

(* 1F801DA8h: straight to RAM, or into the FIFO while the mode is Stop.    *)
Transferred(f) ==
  /\ sram' = [sram EXCEPT ![transfer.at] = f]
  /\ trap' = Trapped(trap, ctrl, {transfer.at})
  /\ transfer' = MovedOn(1)

WriteData(f) ==
  /\ Guest
  /\ \/ ctrl.mode \in {"MANUAL", "DMA_WRITE"} /\ Transferred(f)
     \/ /\ ctrl.mode = "STOP"
        /\ transfer' = [transfer EXCEPT !.fifo = IF @ < FifoSize THEN @ + 1 ELSE @]
        /\ UNCHANGED <<trap, sram>>
  /\ UNCHANGED <<voice, keys, ctrl, adsr>>

(* spu_dma_write_halfwords and spu_dma_read_halfwords: a wrong mode is     *)
(* reported and the transfer goes ahead.                                   *)
DmaWrite(f) == Guest /\ Transferred(f) /\ UNCHANGED <<voice, keys, ctrl, adsr>>
DmaRead ==
  /\ Guest
  /\ trap' = Trapped(trap, ctrl, {transfer.at})
  /\ transfer' = MovedOn(1)
  /\ UNCHANGED <<voice, keys, ctrl, sram, adsr>>

Fetching == \E capture \in BOOLEAN : Sample(TRUE, capture)

SpuNext ==
  \/ \E fetch, capture \in BOOLEAN : Sample(fetch, capture)
  \/ KeyOn \/ KeyOff
  \/ \E on, irq9 \in BOOLEAN, m \in Transfers : SetControl([on |-> on, irq9 |-> irq9, mode |-> m])
  \/ \E b \in Addresses : \/ WriteIrqAddress(b) \/ WriteTransferAddress(b)
                          \/ WriteStart(b) \/ WriteRepeat(b)
  \/ \E f \in BlockFlags : WriteData(f) \/ DmaWrite(f)
  \/ DmaRead

(* Samples are owed on the emulated clock, and a voice of a pitch that is  *)
(* not 0 comes to its next block.                                          *)
SpuFair == WF_spu_vars(Fetching)
SpuSpec == SpuInit /\ [][SpuNext]_spu_vars /\ SpuFair
-----------------------------------------------------------------------------
(* The blocks the voice will read if nobody writes a register any more:    *)
(* its position, its repeat address and the blocks seen, step by step.     *)
Walk[k \in 0 .. Blocks * Blocks] ==
  IF k = 0 THEN <<voice.curr, voice.repeat, {}>>
  ELSE LET p    == Walk[k - 1]
           f    == sram[p[1]]
           loop == IF f.start /\ ~voice.ignore_loop THEN p[1] ELSE p[2]
       IN <<IF f.end THEN loop ELSE (p[1] + 1) % Blocks, loop, p[3] \cup {p[1]}>>

Ahead == Walk[Blocks * Blocks][3]
Armed == ctrl.on /\ ctrl.irq9 /\ ~trap.flag

(* An armed IRQ address that lies on the voice's way is reached, whether   *)
(* the voice is heard, released, ended by its sample or never keyed: the   *)
(* refill of a stream hangs on it (spu_voice.c:358-371).                   *)
TrapIsSprung == []<>~(Armed /\ ~keys.on /\ trap.at \in Ahead)

(* A Key Off silences the voice whatever its envelope is doing, unless it  *)
(* is keyed again.                                                         *)
Silent == ~voice.on \/ voice.vol = 0
KeyOffSilences == keys.off ~> Silent \/ keys.on
=============================================================================
