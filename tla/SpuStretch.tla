----------------------------- MODULE SpuStretch -----------------------------
(***************************************************************************)
(* How far ahead the sound runs, src/spu/spu_stretch.c and spu_fill_audio: *)
(* the levels of the ring, of the stretcher's input and of its output, in  *)
(* frames; the samples themselves are SpuRing's.  The emulation loop makes *)
(* a field of frames and then waits for the ring to fall to its target,    *)
(* the device asks for frames when it likes, and the stretcher varies how  *)
(* many frames of input a block of output uses up.  The ring is the clock  *)
(* of the whole machine, so what the callback leaves in it matters.        *)
(***************************************************************************)
EXTENDS Integers

CONSTANTS
  Sequence, SeekWindow, Overlap, \* SPU_STRETCH_SEQ, SEEK, OVERLAP
  InCapacity,           \* SPU_STRETCH_IN_CAP
  Margin,               \* STRETCH_HOLD_MARGIN
  RingCapacity,         \* SPU_SAMPLE_BUFFER_SIZE - 1
  Target,               \* SPU_RING_TARGET_SAMPLES
  Field,                \* frames of sound in one frame of picture
  Requests              \* frames the device may ask for at once

ASSUME SpuStretchConstants ==
  /\ {Sequence, SeekWindow, Overlap, InCapacity, Margin, RingCapacity, Target, Field} \subseteq Nat
  /\ Overlap > 0 /\ Sequence > 2 * Overlap /\ InCapacity >= Sequence + SeekWindow + Margin
  /\ Field > 0 /\ Requests \subseteq Nat \ {0}

BlockOut    == Sequence - Overlap
OutCapacity == 2 * (Sequence - Overlap)
Working     == Sequence + SeekWindow
Wanted_NoMargin == Working

Wanted      == Working + Margin

VARIABLES
  ring,         \* spu_ring_used
  in, out,      \* in_len and out_len of the stretcher
  tempo,        \* against 1: input frames used per output frame
  loop,         \* the emulation loop: making a field, or waiting
  callback,     \* where the callback stands and what it was asked for
  short         \* frames of silence in its last answer

stretch_vars == <<ring, in, out, tempo, loop, callback, short>>

AtMost(a, b) == IF a < b THEN a ELSE b

StretchTypeOK ==
  /\ ring \in 0 .. RingCapacity /\ in \in 0 .. InCapacity /\ out \in 0 .. OutCapacity
  /\ tempo \in {"SLOWER", "ONE", "FASTER"} /\ loop \in {"RUN", "WAIT"}
  /\ callback \in [at : {"OUT", "TEMPO", "PULL"}, asked : Requests \cup {0}, dry : BOOLEAN]
  /\ short \in 0 .. OutCapacity

StretchInit ==
  /\ ring = 0 /\ in = 0 /\ out = 0 /\ tempo = "ONE" /\ loop = "RUN"
  /\ callback = [at |-> "OUT", asked |-> 0, dry |-> FALSE]
  /\ short = 0
-----------------------------------------------------------------------------
(* The emulation loop of main.c: a field, then the pacing loop.  What does *)
(* not fit in the ring is dropped.                                         *)
MakeField ==
  /\ loop = "RUN" /\ loop' = "WAIT"
  /\ ring' = AtMost(ring + Field, RingCapacity)
  /\ UNCHANGED <<in, out, tempo, callback, short>>

GoOn == /\ loop = "WAIT" /\ ring <= Target /\ loop' = "RUN"
        /\ UNCHANGED <<ring, in, out, tempo, callback, short>>
-----------------------------------------------------------------------------
(* spu_fill_audio.  Top up to the bound, no further.                       *)
Deficit == AtMost(Wanted - (in + out), InCapacity - in)

TopUp(asked) ==
  /\ callback.at = "OUT"
  /\ LET got == IF Deficit > 0 THEN AtMost(Deficit, ring) ELSE 0
     IN /\ ring' = ring - got /\ in' = in + got
        /\ callback' = [at |-> "TEMPO", asked |-> asked, dry |-> got < Deficit]
  /\ UNCHANGED <<out, tempo, loop, short>>

(* The tempo leaves 1 only outside a fifth of the target.                  *)
ChooseTempo ==
  LET goal == Wanted + Target
      off  == ring + in + out - goal
  IN /\ callback.at = "TEMPO" /\ callback' = [callback EXCEPT !.at = "PULL"]
     /\ tempo' = IF 5 * off > goal THEN "FASTER" ELSE IF 5 * off < -goal THEN "SLOWER" ELSE "ONE"
     /\ UNCHANGED <<ring, in, out, loop, short>>

(* process_block: input used up for one block, tempo 0.80 .. 1.25 times    *)
(* its output with the fraction carried over.                              *)
Skips == CASE tempo = "ONE"    -> {BlockOut}
           [] tempo = "FASTER" -> (6 * BlockOut) \div 5 .. (5 * BlockOut) \div 4 + 1
           [] tempo = "SLOWER" -> (4 * BlockOut) \div 5 .. (4 * BlockOut) \div 5 + 1

CanFill_KeepsTheHold == in > Wanted /\ out + BlockOut <= OutCapacity

CanFill == in >= Working /\ out + BlockOut <= OutCapacity

ProcessBlock ==
  /\ callback.at = "PULL" /\ out < callback.asked /\ CanFill
  /\ \E skip \in Skips : in' = in - AtMost(skip, in)
  /\ out' = out + BlockOut
  /\ UNCHANGED <<ring, tempo, loop, callback, short>>

(* The end of spu_stretch_pull, and silence for what is missing.           *)
Deliver ==
  /\ callback.at = "PULL" /\ ~(out < callback.asked /\ CanFill)
  /\ LET n == AtMost(callback.asked, out)
     IN out' = out - n /\ short' = callback.asked - n
  /\ callback' = [callback EXCEPT !.at = "OUT"]
  /\ UNCHANGED <<ring, in, tempo, loop>>

Device == (\E n \in Requests : TopUp(n)) \/ ChooseTempo \/ ProcessBlock \/ Deliver
StretchNext == MakeField \/ GoOn \/ Device

(* The device never stops asking, and a loop that may go on does.          *)
StretchFair == WF_stretch_vars(Device) /\ WF_stretch_vars(MakeField \/ GoOn)
StretchSpec == StretchInit /\ [][StretchNext]_stretch_vars /\ StretchFair
-----------------------------------------------------------------------------
(* Silence is played only when the callback found the ring empty: whatever *)
(* is held back in the stretcher, a frame the mixer has made is played in  *)
(* time, for the requests of one device buffer the loop is tuned for.      *)
SilenceMeansDry == callback.at = "OUT" /\ short > 0 => callback.dry

(* The emulator is never left waiting for a ring that nobody drains any    *)
(* more: the stretcher's hold is always used up by what it plays.          *)
PacerReleases == loop = "WAIT" ~> loop = "RUN"
=============================================================================
