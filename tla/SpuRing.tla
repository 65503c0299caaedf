------------------------------- MODULE SpuRing ------------------------------
(***************************************************************************)
(* The ring of stereo samples between two threads, src/spu/spu_mixing.c:   *)
(* the emulation thread pushes in spu_step, the audio callback drains it   *)
(* in spu_get_samples, and neither takes a lock.  Every load and store of  *)
(* the ring is a step of its own.  A save state copies the ring on the     *)
(* emulation thread; loading one writes it back with the callback locked   *)
(* out (load_state_guarded of main.c).  Samples carry a number, so that    *)
(* one half of a sample can be told from another's.                        *)
(***************************************************************************)
EXTENDS Naturals, Sequences

CONSTANTS
  Size,             \* SPU_SAMPLE_BUFFER_SIZE (4096)
  Numbers           \* samples are numbered round and round 0 .. Numbers - 1

ASSUME SpuRingConstants == Size \in Nat /\ Size > 1 /\ Numbers \in Nat \ {0}

Cells  == 0 .. Size - 1
Number == 0 .. Numbers - 1

VARIABLES
  buffer,       \* sample_buffer
  head, tail,   \* sample_buf_head, sample_buf_tail
  made,         \* the number of the sample being made
  mixer,        \* where the emulation thread stands
  device,       \* where the audio thread stands
  hand,         \* the halves the callback has copied out
  played,       \* the last sample it delivered
  state         \* the ring inside the saved state

ring_vars == <<buffer, head, tail, made, mixer, device, hand, played, state>>

Following(i) == (i + 1) % Size
Empty == [left |-> 0, right |-> 0]
Sampled == [left : Number, right : Number]
Rings == [buffer : [Cells -> Sampled], head : Cells, tail : Cells]

RingTypeOK ==
  /\ buffer \in [Cells -> Sampled] /\ head \in Cells /\ tail \in Cells
  /\ made \in Number /\ hand \in Sampled /\ played \in Sampled
  /\ mixer \in {"IDLE", "LEFT", "RIGHT", "PUBLISH"}
  /\ device \in {"OUT", "CHECK", "LEFT", "RIGHT", "ADVANCE"}
  /\ state \in Rings

RingInit ==
  /\ buffer = [i \in Cells |-> Empty] /\ head = 0 /\ tail = 0
  /\ made = 0 /\ mixer = "IDLE" /\ device = "OUT"
  /\ hand = Empty /\ played = Empty
  /\ state = [buffer |-> [i \in Cells |-> Empty], head |-> 0, tail |-> 0]
-----------------------------------------------------------------------------
(* spu_step: a sample is always made; with the ring full it is dropped.    *)
HasRoom_Overwrites == TRUE

HasRoom == Following(tail) # head

Generate ==
  /\ mixer = "IDLE" /\ made' = (made + 1) % Numbers
  /\ mixer' = IF HasRoom THEN "LEFT" ELSE "IDLE"
  /\ UNCHANGED <<buffer, head, tail, device, hand, played, state>>

WriteLeft ==
  /\ mixer = "LEFT" /\ mixer' = "RIGHT"
  /\ buffer' = [buffer EXCEPT ![tail].left = made]
  /\ UNCHANGED <<head, tail, made, device, hand, played, state>>
WriteRight ==
  /\ mixer = "RIGHT" /\ mixer' = "PUBLISH"
  /\ buffer' = [buffer EXCEPT ![tail].right = made]
  /\ UNCHANGED <<head, tail, made, device, hand, played, state>>
AdvanceTail ==
  /\ mixer = "PUBLISH" /\ mixer' = "IDLE" /\ tail' = Following(tail)
  /\ UNCHANGED <<buffer, head, made, device, hand, played, state>>
-----------------------------------------------------------------------------
(* The callback: spu_get_samples for as many samples as it was asked for.  *)
Begin ==
  /\ device = "OUT" /\ device' = "CHECK"
  /\ UNCHANGED <<buffer, head, tail, made, mixer, hand, played, state>>
Leave ==
  /\ device = "CHECK" /\ device' = "OUT"
  /\ UNCHANGED <<buffer, head, tail, made, mixer, hand, played, state>>
FindSample ==
  /\ device = "CHECK" /\ head # tail /\ device' = "LEFT"
  /\ UNCHANGED <<buffer, head, tail, made, mixer, hand, played, state>>
ReadLeft ==
  /\ device = "LEFT" /\ device' = "RIGHT"
  /\ hand' = [hand EXCEPT !.left = buffer[head].left]
  /\ UNCHANGED <<buffer, head, tail, made, mixer, played, state>>
ReadRight ==
  /\ device = "RIGHT" /\ device' = "ADVANCE"
  /\ hand' = [hand EXCEPT !.right = buffer[head].right]
  /\ UNCHANGED <<buffer, head, tail, made, mixer, played, state>>
Advance ==
  /\ device = "ADVANCE" /\ device' = "CHECK"
  /\ head' = Following(head) /\ played' = hand /\ hand' = Empty
  /\ UNCHANGED <<buffer, tail, made, mixer, state>>
-----------------------------------------------------------------------------
(* savestate_save and savestate_load run between two instructions, so no   *)
(* sample is being pushed; only the load waits for the callback.           *)
SaveRing ==
  /\ mixer = "IDLE"
  /\ state' = [buffer |-> buffer, head |-> head, tail |-> tail]
  /\ UNCHANGED <<buffer, head, tail, made, mixer, device, hand, played>>

CallbackOut_NotWaited == TRUE

CallbackOut == device = "OUT"

LoadRing ==
  /\ mixer = "IDLE" /\ CallbackOut
  /\ buffer' = state.buffer /\ head' = state.head /\ tail' = state.tail
  /\ UNCHANGED <<made, mixer, device, hand, played, state>>

Producer == Generate \/ WriteLeft \/ WriteRight \/ AdvanceTail \/ SaveRing \/ LoadRing
Consumer == Begin \/ Leave \/ FindSample \/ ReadLeft \/ ReadRight \/ Advance
RingNext == Producer \/ Consumer
RingSpec == RingInit /\ [][RingNext]_ring_vars
-----------------------------------------------------------------------------
(* The two threads are never at the same slot: while the callback copies a *)
(* sample out and the mixer writes one, they are at different ends.        *)
SlotsAreExclusive ==
  mixer # "IDLE" /\ device \in {"LEFT", "RIGHT", "ADVANCE"} => head # tail

(* The ring is the bounded queue of AudioQueue: nothing is torn, repeated, *)
(* reordered or lost once kept, with either thread stopped anywhere and a  *)
(* state saved and loaded in between.                                      *)
Contents(b, h, t) == [i \in 1 .. (t + Size - h) % Size |-> b[(h + i - 1) % Size]]

Fifo == INSTANCE AudioQueue
          WITH Capacity <- Size - 1, Numbers <- Number,
               queue <- Contents(buffer, head, tail),
               saved <- Contents(state.buffer, state.head, state.tail),
               heard <- played

RingIsAQueue == Fifo!QueueSpec
=============================================================================
