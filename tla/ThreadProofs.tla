--------------------------- MODULE ThreadProofs -----------------------------
(***************************************************************************)
(* Proofs about the threads that share buffers with the emulation: the     *)
(* sector reader, for any disc image, the ring between the mixer and the   *)
(* audio callback, for a ring of any size, the stretcher it plays from,    *)
(* the types of the SPU's voice, and the image the reader reads.           *)
(***************************************************************************)
EXTENDS MCThreads, SequenceTheorems, TLAPS

(* CdromReader: the protocol around the mutex loses no wakeup, and the     *)
(* reader keeps the promise of SectorSource, whatever the threads do.      *)

(* The thread's locals tell the truth about the sector it has read.        *)
LocalsAreTrue ==
  thread.pc = "publishing" =>
     /\ thread.ok <=> thread.lba \notin Unreadable
     /\ thread.ok => thread.tmp = thread.lba

(* What is in the shared buffer is the sector of its tag; a tag that is    *)
(* shown as ready and not as read is one that cannot be read.              *)
BufferIsTagged ==
  /\ r.read_ok => r.sector = r.ready_lba /\ r.ready_lba \notin Unreadable
  /\ r.sector_ready /\ ~r.read_ok => r.ready_lba \in Unreadable

ReaderIInv == TypeOK /\ NoLostWakeup /\ BusyIsReading /\ LocalsAreTrue /\ BufferIsTagged

(* The five answers are different.                                         *)
USE DEF Source!None, Source!Pending, Source!Failed, Source!Ready

(* Nothing is asked for and nothing is answered at first.                  *)
LEMMA InitReader == Init => ReaderIInv
<1> SUFFICES ASSUME Init PROVE ReaderIInv
  OBVIOUS
<1>1. PICK zero \in Lbas :
        /\ r = [requested_lba |-> zero, has_request |-> FALSE, sector_ready |-> FALSE,
                shutdown |-> FALSE, ready_lba |-> zero, read_ok |-> FALSE,
                busy |-> FALSE, sector |-> Garbage]
        /\ thread = [pc |-> "lock", lba |-> zero, tmp |-> Garbage, ok |-> FALSE]
  BY DEF Init
<1>2. TypeOK
  BY <1>1 DEF Init, TypeOK, Sectors
<1> QED
  BY <1>1, <1>2 DEF ReaderIInv, NoLostWakeup, BusyIsReading, LocalsAreTrue, BufferIsTagged

(* Every critical section keeps the invariant.                             *)
LEMMA NextReader == ReaderIInv /\ [Next]_vars => ReaderIInv'
<1> SUFFICES ASSUME ReaderIInv, [Next]_vars PROVE ReaderIInv'
  OBVIOUS
<1> USE DEF ReaderIInv, TypeOK, NoLostWakeup, BusyIsReading, LocalsAreTrue, BufferIsTagged, Sectors
<1>1. CASE Park
  BY <1>1 DEF Park
<1>2. CASE TakeRequest
  BY <1>2 DEF TakeRequest
<1>3. CASE ReadSector
  <2> DEFINE good == thread.lba \notin Unreadable
  <2>1. /\ thread.pc = "reading" /\ UNCHANGED <<r, emu, want, answer, polled>>
        /\ thread' = [thread EXCEPT !.pc = "publishing", !.ok = good,
                                    !.tmp = IF good THEN thread.lba ELSE Garbage]
    BY <1>3 DEF ReadSector
  <2>2. good \in BOOLEAN
    OBVIOUS
  <2> HIDE DEF good
  <2>3. /\ thread'.pc = "publishing" /\ thread'.ok = good /\ thread'.lba = thread.lba
        /\ thread'.tmp = IF good THEN thread.lba ELSE Garbage
    BY <2>1
  <2>4. TypeOK'
    BY <2>1, <2>2
  <2>5. good <=> thread.lba \notin Unreadable
    BY DEF good
  <2> QED
    BY <2>1, <2>3, <2>4, <2>5
<1>4. CASE Publish
  BY <1>4 DEF Publish
<1>5. CASE Exit
  BY <1>5 DEF Exit
<1>6. CASE SpuriousWakeup
  BY <1>6 DEF SpuriousWakeup
<1>7. ASSUME NEW lba \in Lbas, Queue(lba) PROVE ReaderIInv'
  BY <1>7 DEF Queue, Signalled
<1>8. ASSUME NEW lba \in Lbas, Jump(lba) PROVE ReaderIInv'
  <2>1. want' \in Lbas /\ answer' = Source!None /\ polled' = FALSE /\ UNCHANGED <<r, thread, emu>>
    BY <1>8 DEF Jump
  <2>2. TypeOK'
    BY <2>1
  <2> QED
    BY <2>1, <2>2
<1>9. CASE Poll /\ PollHit
  BY <1>9 DEF Poll, PollHit
<1>10. CASE Poll /\ PollMiss
  <2>1. CASE r.busy \/ r.has_request
    BY <1>10, <2>1 DEF Poll, PollMiss
  <2>2. CASE ~(r.busy \/ r.has_request)
    <3>1. /\ r' = [r EXCEPT !.sector_ready = FALSE, !.requested_lba = want,
                            !.has_request = TRUE]
          /\ thread' = Signalled /\ emu' = emu /\ want' = want
          /\ answer' = Source!Pending /\ polled' = FALSE
      BY <1>10, <2>2 DEF Poll, PollMiss
    <3>2. TypeOK'
      BY <3>1 DEF Signalled
    <3> QED
      BY <3>1, <3>2 DEF Signalled
  <2> QED
    BY <2>1, <2>2
<1>11. CASE Unpoll
  <2> DEFINE again == r.sector_ready \/ (~r.has_request /\ ~r.busy /\ r.read_ok /\ r.ready_lba = want)
  <2>1. /\ r' = [r EXCEPT !.sector_ready = again] /\ again \in BOOLEAN
        /\ polled' = FALSE /\ UNCHANGED <<thread, emu, want, answer>>
    BY <1>11 DEF Unpoll
  <2>2. again /\ ~r.read_ok => r.sector_ready
    OBVIOUS
  <2> HIDE DEF again
  <2>3. TypeOK'
    BY <2>1
  <2>4. /\ r'.sector_ready = again /\ r'.read_ok = r.read_ok /\ r'.ready_lba = r.ready_lba
        /\ r'.sector = r.sector /\ r'.busy = r.busy /\ r'.has_request = r.has_request
        /\ r'.shutdown = r.shutdown
    BY <2>1
  <2>5. NoLostWakeup' /\ BusyIsReading' /\ LocalsAreTrue'
    BY <2>1, <2>4
  <2>6. BufferIsTagged'
    BY <2>2, <2>4
  <2> QED
    BY <2>3, <2>5, <2>6
<1>12. CASE Shutdown
  BY <1>12 DEF Shutdown, Signalled
<1>13. CASE Join
  BY <1>13 DEF Join
<1>14. CASE UNCHANGED vars
  BY <1>14 DEF vars
<1> QED
  BY <1>1, <1>2, <1>3, <1>4, <1>5, <1>6, <1>7, <1>8, <1>9, <1>10, <1>11, <1>12, <1>13, <1>14
     DEF Next, Reader, Poll

(* The invariant of the protocol.                                          *)
LEMMA SpecReader == Spec => []ReaderIInv
BY InitReader, NextReader, PTL DEF Spec

(* The reader's struct and the two threads stay in their declared states.  *)
THEOREM TypeCorrect == Spec => []TypeOK
<1>1. ReaderIInv => TypeOK
  BY DEF ReaderIInv
<1> QED
  BY <1>1, SpecReader, PTL

(* The reader never sleeps on a request or on a shutdown: each of the      *)
(* three places that raise a flag signals, and the flags are looked at in  *)
(* the same critical section that goes to sleep.                           *)
THEOREM NoWakeupIsLost == Spec => []NoLostWakeup
<1>1. ReaderIInv => NoLostWakeup
  BY DEF ReaderIInv
<1> QED
  BY <1>1, SpecReader, PTL

(* busy is up exactly while a request is being read, so a poll never asks  *)
(* twice for it and never waits for one nobody works on.                   *)
THEOREM BusyMeansReading == Spec => []BusyIsReading
<1>1. ReaderIInv => BusyIsReading
  BY DEF ReaderIInv
<1> QED
  BY <1>1, SpecReader, PTL

(* A step of the two threads is a step of the promise: the head moves, or  *)
(* it is told "not yet" or the truth about its sector, or nothing happens. *)
LEMMA StepKeepsPromise ==
  ReaderIInv /\ [Next]_vars => [Source!Move \/ Source!Ask]_<<want, answer>>
<1> SUFFICES ASSUME ReaderIInv, [Next]_vars
             PROVE  [Source!Move \/ Source!Ask]_<<want, answer>>
  OBVIOUS
<1> USE DEF Source!Move, Source!Ask, Source!Truth
<1>1. CASE Reader
  BY <1>1 DEF Reader, Park, TakeRequest, ReadSector, Publish, Exit
<1>2. CASE SpuriousWakeup \/ Unpoll \/ Shutdown \/ Join
  BY <1>2 DEF SpuriousWakeup, Unpoll, Shutdown, Join
<1>3. ASSUME NEW lba \in Lbas, Queue(lba) \/ Jump(lba)
      PROVE  Source!Move
  BY <1>3 DEF Queue, Jump
<1>4. CASE Poll /\ PollHit
  BY <1>4 DEF Poll, PollHit, ReaderIInv, BufferIsTagged, TypeOK
<1>5. CASE Poll /\ PollMiss
  BY <1>5 DEF Poll, PollMiss
<1>6. CASE UNCHANGED vars
  BY <1>6 DEF vars
<1> QED
  BY <1>1, <1>2, <1>3, <1>4, <1>5, <1>6 DEF Next, Poll

(* The reader thread implements the promise the controller is written      *)
(* against: a sector that is handed over is the one under the head.        *)
THEOREM ReaderImplementsSource == Spec => KeepsThePromise
<1>1. Init => Source!Init
  BY DEF Init, Source!Init
<1> QED
  BY <1>1, SpecReader, StepKeepsPromise, PTL DEF Spec, KeepsThePromise, Source!Spec

-----------------------------------------------------------------------------
(* SpuRing: the two threads are never at one slot, and the ring, halves,   *)
(* loads and stores and all, implements the bounded queue AudioQueue.  The *)
(* invariant is what each thread knows without a lock: the mixer has seen  *)
(* room, and only it moves the tail; the callback has seen a sample, and   *)
(* only it moves the head; what either has copied so far is still the      *)
(* truth, because the other is at another slot.                            *)

Claims ==
  /\ mixer # "IDLE" => Following(tail) # head
  /\ device \in {"LEFT", "RIGHT", "ADVANCE"} => head # tail

Written ==
  /\ mixer \in {"RIGHT", "PUBLISH"} => buffer[tail].left = made
  /\ mixer = "PUBLISH" => buffer[tail].right = made

CopiedOut ==
  /\ device \in {"RIGHT", "ADVANCE"} => hand.left = buffer[head].left
  /\ device = "ADVANCE" => hand.right = buffer[head].right

RingIInv == RingTypeOK /\ Claims /\ Written /\ CopiedOut
-----------------------------------------------------------------------------
(* Going round: one step along the ring, and the distance between two ends.*)
LEMMA Round == \A i \in Cells : Following(i) = IF i = Size - 1 THEN 0 ELSE i + 1
BY SpuRingConstants DEF Cells, Following

LEMMA RoundTyped == \A i \in Cells : Following(i) \in Cells
BY Round, SpuRingConstants DEF Cells

LEMMA RoundApart == \A i, j \in Cells : i # j => Following(i) # Following(j)
<1>1. \A i, j \in 0 .. Size - 1 : i # j =>
        (IF i = Size - 1 THEN 0 ELSE i + 1) # (IF j = Size - 1 THEN 0 ELSE j + 1)
  BY SpuRingConstants
<1> QED
  BY <1>1, Round DEF Cells

Used(h, t) == IF t >= h THEN t - h ELSE t + Size - h
At(h, k)   == IF h + k < Size THEN h + k ELSE h + k - Size

LEMMA Distance == \A h, t \in Cells : (t + Size - h) % Size = Used(h, t)
BY SpuRingConstants DEF Cells, Used

LEMMA Index == \A h, k \in Cells : (h + k) % Size = At(h, k)
BY SpuRingConstants DEF Cells, At

(* The queue the ring holds, without the modulus.                          *)
LEMMA ContentsIs ==
  ASSUME NEW b \in [Cells -> Sampled], NEW h \in Cells, NEW t \in Cells
  PROVE  /\ Contents(b, h, t) \in Seq(Sampled)
         /\ Len(Contents(b, h, t)) = Used(h, t)
         /\ Used(h, t) \in Cells
         /\ \A i \in 1 .. Used(h, t) :
              At(h, i - 1) \in Cells /\ Contents(b, h, t)[i] = b[At(h, i - 1)]
<1>1. Used(h, t) \in Cells
  BY SpuRingConstants DEF Used, Cells
<1>2. \A i \in 1 .. Used(h, t) : i - 1 \in Cells /\ h + i - 1 = h + (i - 1)
  BY <1>1, SpuRingConstants DEF Cells
<1>3. \A i \in 1 .. Used(h, t) : At(h, i - 1) \in Cells /\ (h + i - 1) % Size = At(h, i - 1)
  <2>1. \A k \in Cells : At(h, k) \in Cells
    BY SpuRingConstants DEF At, Cells
  <2> QED
    BY <1>2, <2>1, Index
<1>4. Contents(b, h, t) = [i \in 1 .. Used(h, t) |-> b[(h + i - 1) % Size]]
  BY Distance DEF Contents
<1>5. Contents(b, h, t) \in [1 .. Used(h, t) -> Sampled]
  BY <1>3, <1>4
<1>6. Used(h, t) \in Nat
  BY <1>1 DEF Cells
<1>7. Contents(b, h, t) \in Seq(Sampled) /\ Len(Contents(b, h, t)) = Used(h, t)
  BY <1>5, <1>6
<1> QED
  BY <1>1, <1>3, <1>4, <1>7
-----------------------------------------------------------------------------
(* Writing at the tail does not disturb the queue.                         *)
LEMMA WriteIsHidden ==
  ASSUME NEW b \in [Cells -> Sampled], NEW h \in Cells, NEW t \in Cells, NEW v \in Sampled
  PROVE  Contents([b EXCEPT ![t] = v], h, t) = Contents(b, h, t)
<1> DEFINE c == [b EXCEPT ![t] = v]
<1>1. c \in [Cells -> Sampled] /\ \A i \in Cells \ {t} : c[i] = b[i]
  OBVIOUS
<1> HIDE DEF c
<1>2. \A i \in 1 .. Used(h, t) : At(h, i - 1) # t
  BY SpuRingConstants DEF Used, At, Cells
<1>3. \A i \in 1 .. Used(h, t) : Contents(c, h, t)[i] = Contents(b, h, t)[i]
  BY <1>1, <1>2, ContentsIs
<1>4. Contents(c, h, t) = Contents(b, h, t)
  BY <1>1, <1>3, ContentsIs, SeqEqual
<1> QED
  BY <1>4 DEF c

(* Moving the tail appends what is there, when there is room.              *)
LEMMA TailAppends ==
  ASSUME NEW b \in [Cells -> Sampled], NEW h \in Cells, NEW t \in Cells, Following(t) # h
  PROVE  /\ Len(Contents(b, h, t)) < Size - 1
         /\ Contents(b, h, Following(t)) = Append(Contents(b, h, t), b[t])
<1> DEFINE n == Used(h, t)
           q == Contents(b, h, t)
           rest == Contents(b, h, Following(t))
<1>1. /\ n \in Nat /\ n < Size - 1
      /\ Following(t) \in Cells /\ Used(h, Following(t)) = n + 1
      /\ At(h, n) = t
  <2>1. Following(t) = IF t = Size - 1 THEN 0 ELSE t + 1
    BY Round
  <2>2. Size \in Nat /\ Size > 1 /\ h \in 0 .. Size - 1 /\ t \in 0 .. Size - 1
    BY SpuRingConstants DEF Cells
  <2>3. n \in Nat /\ n < Size - 1 /\ At(h, n) = t
    BY <2>1, <2>2 DEF Used, At
  <2>4. Used(h, Following(t)) = n + 1
    BY <2>1, <2>2 DEF Used
  <2> QED
    BY <2>3, <2>4, RoundTyped
<1>2. q \in Seq(Sampled) /\ Len(q) = n /\ \A i \in 1 .. n : q[i] = b[At(h, i - 1)]
  BY ContentsIs
<1>3. rest \in Seq(Sampled) /\ Len(rest) = n + 1 /\ \A i \in 1 .. n + 1 : rest[i] = b[At(h, i - 1)]
  BY <1>1, ContentsIs
<1> HIDE DEF n, q, rest
<1>4. b[t] \in Sampled
  OBVIOUS
<1>5. /\ Append(q, b[t]) \in Seq(Sampled) /\ Len(Append(q, b[t])) = n + 1
      /\ \A i \in 1 .. n : Append(q, b[t])[i] = q[i]
      /\ Append(q, b[t])[n + 1] = b[t]
  BY <1>1, <1>2, <1>4, AppendProperties
<1>6. \A i \in 1 .. n + 1 : rest[i] = Append(q, b[t])[i]
  <2> SUFFICES ASSUME NEW i \in 1 .. n + 1 PROVE rest[i] = Append(q, b[t])[i]
    OBVIOUS
  <2>1. CASE i = n + 1
    BY <1>1, <1>3, <1>5, <2>1
  <2>2. CASE i \in 1 .. n
    BY <1>1, <1>2, <1>3, <1>5, <2>2
  <2>3. i = n + 1 \/ i \in 1 .. n
    <3>1. n \in Nat
      BY <1>1
    <3> QED
      BY <3>1
  <2> QED
    BY <2>1, <2>2, <2>3
<1>7. rest = Append(q, b[t])
  BY <1>3, <1>5, <1>6, SeqEqual
<1> QED
  BY <1>1, <1>2, <1>7 DEF q, rest

(* Moving the head takes the first away, when there is one.                *)
LEMMA HeadTakes ==
  ASSUME NEW b \in [Cells -> Sampled], NEW h \in Cells, NEW t \in Cells, h # t
  PROVE  /\ Contents(b, h, t) # <<>>
         /\ Head(Contents(b, h, t)) = b[h]
         /\ Contents(b, Following(h), t) = Tail(Contents(b, h, t))
<1> DEFINE n == Used(h, t)
           q == Contents(b, h, t)
           rest == Contents(b, Following(h), t)
<1>1. /\ n \in Nat \ {0} /\ Following(h) \in Cells /\ Used(Following(h), t) = n - 1
      /\ At(h, 0) = h
      /\ \A i \in 1 .. n - 1 : At(Following(h), i - 1) = At(h, i)
  BY Round, SpuRingConstants DEF Used, At, Cells
<1>2. q \in Seq(Sampled) /\ Len(q) = n /\ \A i \in 1 .. n : q[i] = b[At(h, i - 1)]
  BY ContentsIs
<1>3. rest \in Seq(Sampled) /\ Len(rest) = n - 1
      /\ \A i \in 1 .. n - 1 : rest[i] = b[At(Following(h), i - 1)]
  BY <1>1, ContentsIs
<1> HIDE DEF n, q, rest
<1>4. q # <<>> /\ Head(q) = q[1]
  BY <1>1, <1>2, EmptySeq
<1>5. q[1] = b[h]
  BY <1>1, <1>2
<1>6. /\ Tail(q) \in Seq(Sampled) /\ Len(Tail(q)) = n - 1
      /\ \A i \in 1 .. n - 1 : Tail(q)[i] = q[i + 1]
  BY <1>2, <1>4, HeadTailProperties
<1>7. \A i \in 1 .. n - 1 : rest[i] = Tail(q)[i]
  <2> SUFFICES ASSUME NEW i \in 1 .. n - 1 PROVE rest[i] = Tail(q)[i]
    OBVIOUS
  <2>1. i + 1 \in 1 .. n /\ (i + 1) - 1 = i
    BY <1>1
  <2> QED
    BY <1>1, <1>2, <1>3, <1>6, <2>1
<1>8. rest = Tail(q)
  BY <1>3, <1>6, <1>7, SeqEqual
<1> QED
  BY <1>4, <1>5, <1>8 DEF q, rest
-----------------------------------------------------------------------------
(* An empty ring, both threads at rest.                                    *)
LEMMA InitRing == RingInit => RingIInv
BY SpuRingConstants DEF RingInit, RingIInv, RingTypeOK, Claims, Written, CopiedOut, Rings,
     Sampled, Cells, Number, Empty

(* Neither thread's steps make the other's knowledge false.                *)
LEMMA NextRing == RingIInv /\ [RingNext]_ring_vars => RingIInv'
<1> SUFFICES ASSUME RingIInv, [RingNext]_ring_vars PROVE RingIInv'
  OBVIOUS
<1> USE RoundTyped DEF RingIInv, RingTypeOK, Claims, Written, CopiedOut
<1>1. CASE Generate
  BY <1>1, SpuRingConstants DEF Generate, HasRoom, Number
<1>2. CASE WriteLeft
  BY <1>2 DEF WriteLeft, Sampled
<1>3. CASE WriteRight
  BY <1>3 DEF WriteRight, Sampled
<1>4. CASE AdvanceTail
  BY <1>4 DEF AdvanceTail
<1>5. CASE Begin \/ Leave \/ FindSample
  BY <1>5 DEF Begin, Leave, FindSample
<1>6. CASE ReadLeft
  BY <1>6 DEF ReadLeft, Sampled
<1>7. CASE ReadRight
  BY <1>7 DEF ReadRight, Sampled
<1>8. CASE Advance
  <2>1. RingTypeOK'
    BY <1>8, SpuRingConstants DEF Advance, Sampled, Empty, Number
  <2>2. Claims'
    BY <1>8, RoundApart DEF Advance
  <2>3. Written' /\ CopiedOut'
    BY <1>8 DEF Advance
  <2> QED
    BY <2>1, <2>2, <2>3
<1>9. CASE SaveRing
  BY <1>9 DEF SaveRing, Rings
<1>10. CASE LoadRing
  BY <1>10 DEF LoadRing, CallbackOut, Rings
<1>11. CASE UNCHANGED ring_vars
  BY <1>11 DEF ring_vars
<1> QED
  BY <1>1, <1>2, <1>3, <1>4, <1>5, <1>6, <1>7, <1>8, <1>9, <1>10, <1>11
     DEF RingNext, Producer, Consumer

(* So it always holds.                                                     *)
LEMMA SpecRing == RingSpec => []RingIInv
BY InitRing, NextRing, PTL DEF RingSpec

(* spu_step never writes the slot spu_get_samples is reading, whichever    *)
(* thread is held up anywhere.                                             *)
THEOREM SlotsNeverMeet == RingSpec => []SlotsAreExclusive
<1>1. RingIInv => SlotsAreExclusive
  BY DEF RingIInv, Claims, SlotsAreExclusive
<1> QED
  BY <1>1, SpecRing, PTL
-----------------------------------------------------------------------------
(* What the queue of AudioQueue is in the ring.                            *)
RingQueue  == Contents(buffer, head, tail)
Stored == Contents(state.buffer, state.head, state.tail)
Mapped == <<RingQueue, Stored, played>>

(* Half a sample is written where the queue does not reach.                *)
LEMMA WritesStutter ==
  ASSUME RingIInv, WriteLeft \/ WriteRight
  PROVE  UNCHANGED Mapped
<1>1. PICK v \in Sampled : buffer' = [buffer EXCEPT ![tail] = v]
  <2>1. CASE WriteLeft
    <3>1. [buffer[tail] EXCEPT !.left = made] \in Sampled
      BY DEF RingIInv, RingTypeOK, Sampled
    <3> QED
      BY <2>1, <3>1 DEF WriteLeft
  <2>2. CASE WriteRight
    <3>1. [buffer[tail] EXCEPT !.right = made] \in Sampled
      BY DEF RingIInv, RingTypeOK, Sampled
    <3> QED
      BY <2>2, <3>1 DEF WriteRight
  <2> QED
    BY <2>1, <2>2
<1>2. UNCHANGED <<head, tail, played, state>>
  BY DEF WriteLeft, WriteRight
<1>3. RingQueue' = RingQueue
  BY <1>1, <1>2, WriteIsHidden DEF RingIInv, RingTypeOK, RingQueue
<1> QED
  BY <1>2, <1>3 DEF Mapped, Stored

(* The sample is kept whole when the tail moves over it.                   *)
LEMMA AdvanceTailKeeps ==
  ASSUME RingIInv, AdvanceTail
  PROVE  Fifo!Keep(made)
<1>1. buffer[tail] = Fifo!Whole(made)
  BY DEF RingIInv, RingTypeOK, Written, AdvanceTail, Sampled, Fifo!Whole
<1>2. Len(RingQueue) < Size - 1 /\ RingQueue' = Append(RingQueue, buffer[tail])
  BY TailAppends DEF RingIInv, RingTypeOK, Claims, AdvanceTail, RingQueue
<1>3. Stored' = Stored /\ played' = played
  BY DEF AdvanceTail, Stored
<1> QED
  BY <1>1, <1>2, <1>3 DEF Fifo!Keep, RingQueue, Stored

(* The callback delivers the first of the queue, both halves of it.        *)
LEMMA AdvanceTakes ==
  ASSUME RingIInv, Advance
  PROVE  Fifo!Take
<1>1. hand = buffer[head]
  BY DEF RingIInv, RingTypeOK, CopiedOut, Advance, Sampled
<1>2. RingQueue # <<>> /\ Head(RingQueue) = buffer[head] /\ RingQueue' = Tail(RingQueue)
  BY HeadTakes DEF RingIInv, RingTypeOK, Claims, Advance, RingQueue
<1>3. Stored' = Stored /\ played' = hand
  BY DEF Advance, Stored
<1> QED
  BY <1>1, <1>2, <1>3 DEF Fifo!Take, RingQueue, Stored

(* Every step of the two threads is a step of the queue, or none.          *)
LEMMA StepRefines ==
  RingIInv /\ [RingNext]_ring_vars => [Fifo!QueueNext]_Mapped
<1> SUFFICES ASSUME RingIInv, [RingNext]_ring_vars PROVE [Fifo!QueueNext]_Mapped
  OBVIOUS
<1>1. CASE AdvanceTail
  BY <1>1, AdvanceTailKeeps DEF RingIInv, RingTypeOK, Fifo!QueueNext
<1>2. CASE Advance
  BY <1>2, AdvanceTakes DEF Fifo!QueueNext
<1>3. CASE WriteLeft \/ WriteRight
  BY <1>3, WritesStutter
<1>4. CASE SaveRing
  <2>1. Stored' = RingQueue /\ RingQueue' = RingQueue /\ played' = played
    BY <1>4 DEF SaveRing, Stored, RingQueue
  <2> QED
    BY <2>1 DEF Fifo!QueueNext, Fifo!Save, Stored, RingQueue
<1>5. CASE LoadRing
  <2>1. RingQueue' = Stored /\ Stored' = Stored /\ played' = played
    BY <1>5 DEF LoadRing, Stored, RingQueue
  <2> QED
    BY <2>1 DEF Fifo!QueueNext, Fifo!Restore, Stored, RingQueue
<1>6. CASE Generate \/ Begin \/ Leave \/ FindSample \/ ReadLeft \/ ReadRight
            \/ UNCHANGED ring_vars
  BY <1>6 DEF Generate, Begin, Leave, FindSample, ReadLeft, ReadRight, ring_vars,
              Mapped, RingQueue, Stored
<1> QED
  BY <1>1, <1>2, <1>3, <1>4, <1>5, <1>6 DEF RingNext, Producer, Consumer

(* Both threads start with an empty queue.                                 *)
LEMMA InitRefines == RingInit => Fifo!QueueInit
<1> SUFFICES ASSUME RingInit PROVE Fifo!QueueInit
  OBVIOUS
<1>1. \A b : Contents(b, 0, 0) = <<>>
  <2>1. (0 + Size - 0) % Size = 0
    BY SpuRingConstants
  <2> QED
    BY <2>1 DEF Contents
<1> QED
  BY <1>1 DEF RingInit, Fifo!QueueInit, Fifo!Whole, Empty

(* The ring of spu_step and spu_get_samples is a bounded queue: no sample  *)
(* is torn, repeated, reordered or lost once kept, without a lock, and a   *)
(* saved state brings the queue back as it was.                            *)
THEOREM RingImplementsQueue == RingSpec => RingIsAQueue
BY InitRefines, SpecRing, StepRefines, PTL
   DEF RingSpec, RingIsAQueue, Fifo!QueueSpec, Fifo!queue_vars, Mapped, RingQueue, Stored

-----------------------------------------------------------------------------
(* SpuStretch: what is held back is played in time.  What the callback has *)
(* found is held until it has filled a block, so that a dry queue is the   *)
(* only reason for silence.                                                *)

(* What the callback has found is held until it has filled a block, which  *)
(* is more than was asked for.                                             *)
HoldIsEnough ==
  callback.at # "OUT" /\ ~callback.dry /\ out < callback.asked => in + out >= Wanted

StretchIInv == StretchTypeOK /\ HoldIsEnough /\ SilenceMeansDry

(* The device asks for no more than the margin, nor than a block.          *)
OneBuffer == \A n \in Requests : n <= Margin /\ n <= BlockOut

LEMMA StretchSizes ==
  /\ Sequence \in Nat /\ SeekWindow \in Nat /\ InCapacity \in Nat /\ Margin \in Nat
  /\ RingCapacity \in Nat /\ Target \in Nat /\ Field \in Nat
  /\ BlockOut \in Nat /\ BlockOut > 0 /\ OutCapacity = 2 * BlockOut /\ OutCapacity \in Nat
  /\ Wanted = Working + Margin /\ Working \in Nat /\ Wanted <= InCapacity
  /\ \A n \in Requests : n \in Nat /\ n > 0
BY SpuStretchConstants DEF BlockOut, OutCapacity, Wanted, Working

LEMMA StretchTypes ==
  ASSUME StretchTypeOK
  PROVE  /\ ring \in Nat /\ in \in Nat /\ out \in Nat /\ ring <= RingCapacity
         /\ in <= InCapacity /\ out <= OutCapacity
         /\ callback.asked \in Requests \cup {0} /\ callback.asked \in Nat
         /\ callback.at \in {"OUT", "TEMPO", "PULL"} /\ callback.dry \in BOOLEAN
         /\ short \in Nat
<1>1. callback.asked \in Requests \cup {0}
  BY DEF StretchTypeOK
<1>2. callback.asked \in Nat
  BY <1>1, StretchSizes
<1> QED
  BY <1>1, <1>2, StretchSizes DEF StretchTypeOK

Callbacks == [at : {"OUT", "TEMPO", "PULL"}, asked : Requests \cup {0}, dry : BOOLEAN]

LEMMA TopUpStep ==
  ASSUME StretchIInv, NEW n \in Requests, TopUp(n)
  PROVE  StretchIInv'
<1> DEFINE got == IF Deficit > 0 THEN AtMost(Deficit, ring) ELSE 0
           d == got < Deficit
<1>1. ring' = ring - got /\ in' = in + got /\ callback' = [at |-> "TEMPO", asked |-> n, dry |-> d]
      /\ UNCHANGED <<out, tempo, loop, short>>
  BY DEF TopUp
<1>2. /\ ring \in Nat /\ in \in Nat /\ out \in Nat /\ ring <= RingCapacity
      /\ in <= InCapacity /\ out <= OutCapacity /\ RingCapacity \in Nat /\ InCapacity \in Nat
      /\ Wanted \in Nat /\ Wanted <= InCapacity
  BY StretchTypes, StretchSizes DEF StretchIInv
<1>3. /\ Deficit \in Int /\ Deficit <= InCapacity - in
      /\ Deficit = Wanted - (in + out) \/ Deficit = InCapacity - in
  BY <1>2 DEF Deficit, AtMost
<1>4. got \in Nat /\ got <= ring /\ (got <= Deficit \/ got = 0)
  BY <1>2, <1>3 DEF AtMost
<1>5. d \in BOOLEAN /\ (~d => got >= Deficit)
  BY <1>3, <1>4
<1> HIDE DEF got, d
<1>6. StretchTypeOK'
  <2>1. ring' \in 0 .. RingCapacity /\ in' \in 0 .. InCapacity
    BY <1>1, <1>2, <1>3, <1>4
  <2>2. callback' \in Callbacks
    BY <1>1, <1>5 DEF Callbacks
  <2> QED
    BY <1>1, <2>1, <2>2 DEF StretchIInv, StretchTypeOK, Callbacks
<1>7. ~callback'.dry => in' + out' >= Wanted
  BY <1>1, <1>2, <1>3, <1>4, <1>5
<1>8. callback'.at # "OUT"
  BY <1>1
<1> QED
  BY <1>6, <1>7, <1>8 DEF StretchIInv, HoldIsEnough, SilenceMeansDry, Wanted, Working

LEMMA ProcessBlockStep ==
  ASSUME StretchIInv, OneBuffer, ProcessBlock
  PROVE  StretchIInv'
<1>1. PICK skip \in Skips : in' = in - AtMost(skip, in)
  BY DEF ProcessBlock
<1>2. /\ out' = out + BlockOut /\ out < callback.asked /\ out + BlockOut <= OutCapacity
      /\ callback.at = "PULL" /\ UNCHANGED <<ring, tempo, loop, callback, short>>
  BY DEF ProcessBlock, CanFill
<1>3. /\ in \in Nat /\ out \in Nat /\ BlockOut \in Nat /\ OutCapacity \in Nat
      /\ in <= InCapacity /\ InCapacity \in Nat
      /\ callback.asked \in Nat /\ callback.asked \in Requests \cup {0}
  BY StretchTypes, StretchSizes DEF StretchIInv
<1>4. tempo \in {"SLOWER", "ONE", "FASTER"}
  BY DEF StretchIInv, StretchTypeOK
<1>5. skip \in Nat
  <2>1. CASE tempo = "ONE"
    BY <1>3, <2>1 DEF Skips
  <2>2. CASE tempo = "FASTER"
    <3>1. (6 * BlockOut) \div 5 >= 0 /\ (6 * BlockOut) \div 5 \in Int
      BY <1>3
    <3>2. skip \in (6 * BlockOut) \div 5 .. (5 * BlockOut) \div 4 + 1
      BY <2>2 DEF Skips
    <3> QED
      BY <3>1, <3>2
  <2>3. CASE tempo = "SLOWER"
    <3>1. (4 * BlockOut) \div 5 >= 0 /\ (4 * BlockOut) \div 5 \in Int
      BY <1>3
    <3>2. skip \in (4 * BlockOut) \div 5 .. (4 * BlockOut) \div 5 + 1
      BY <2>3 DEF Skips
    <3> QED
      BY <3>1, <3>2
  <2> QED
    BY <1>4, <2>1, <2>2, <2>3
<1>6. in' \in 0 .. InCapacity /\ out' \in 0 .. OutCapacity
  BY <1>1, <1>2, <1>3, <1>5 DEF AtMost
<1>7. StretchTypeOK'
  BY <1>2, <1>6 DEF StretchIInv, StretchTypeOK
<1>8. out' >= callback'.asked
  <2>1. callback.asked <= BlockOut
    BY <1>3 DEF OneBuffer
  <2> QED
    BY <1>2, <1>3, <2>1
<1> QED
  BY <1>2, <1>3, <1>7, <1>8 DEF StretchIInv, HoldIsEnough, SilenceMeansDry

LEMMA DeliverStep ==
  ASSUME StretchIInv, OneBuffer, Deliver
  PROVE  StretchIInv'
<1> DEFINE a == callback.asked
           n == AtMost(a, out)
<1>1. /\ callback.at = "PULL" /\ ~(out < a /\ CanFill)
      /\ out' = out - n /\ short' = a - n /\ callback' = [callback EXCEPT !.at = "OUT"]
      /\ UNCHANGED <<ring, in, tempo, loop>>
  BY DEF Deliver
<1>2. /\ in \in Nat /\ out \in Nat /\ BlockOut \in Nat /\ OutCapacity = 2 * BlockOut
      /\ out <= OutCapacity /\ Working \in Nat /\ Wanted = Working + Margin /\ Margin \in Nat
      /\ a \in Nat /\ a \in Requests \cup {0}
  BY StretchTypes, StretchSizes DEF StretchIInv
<1>3. a <= Margin /\ a <= BlockOut
  BY <1>2 DEF OneBuffer
<1>4. n \in Nat /\ n <= a /\ n <= out /\ (a - n > 0 => out < a)
  BY <1>2 DEF AtMost
<1>5. out < a => callback.dry
  <2> SUFFICES ASSUME out < a, ~callback.dry PROVE FALSE
    OBVIOUS
  <2>1. in + out >= Wanted
    BY <1>1 DEF StretchIInv, HoldIsEnough
  <2>2. in >= Working /\ out + BlockOut <= OutCapacity
    BY <1>2, <1>3, <2>1
  <2> QED
    BY <1>1, <2>2 DEF CanFill
<1> HIDE DEF a, n
<1>6. callback' \in Callbacks /\ callback'.at = "OUT" /\ callback'.dry = callback.dry
  BY <1>1 DEF StretchIInv, StretchTypeOK, Callbacks
<1>7. StretchTypeOK'
  <2>1. out' \in 0 .. OutCapacity /\ short' \in 0 .. OutCapacity
    BY <1>1, <1>2, <1>3, <1>4
  <2> QED
    BY <1>1, <1>6, <2>1 DEF StretchIInv, StretchTypeOK, Callbacks
<1>8. short' > 0 => callback'.dry
  BY <1>1, <1>4, <1>5, <1>6
<1> QED
  BY <1>6, <1>7, <1>8 DEF StretchIInv, HoldIsEnough, SilenceMeansDry

LEMMA StretchStep ==
  ASSUME OneBuffer, StretchIInv, [StretchNext]_stretch_vars
  PROVE  StretchIInv'
<1>1. CASE MakeField \/ GoOn
  <2>1. UNCHANGED <<in, out, tempo, callback, short>> /\ loop' \in {"RUN", "WAIT"}
    BY <1>1 DEF MakeField, GoOn
  <2>2. ring' \in 0 .. RingCapacity
    BY <1>1, StretchTypes, StretchSizes DEF MakeField, GoOn, StretchIInv, AtMost
  <2> QED
    BY <2>1, <2>2 DEF StretchIInv, StretchTypeOK, HoldIsEnough, SilenceMeansDry
<1>2. CASE \E n \in Requests : TopUp(n)
  BY <1>2, TopUpStep
<1>3. CASE ChooseTempo
  <2>1. UNCHANGED <<ring, in, out, loop, short>> /\ tempo' \in {"SLOWER", "ONE", "FASTER"}
        /\ callback.at = "TEMPO" /\ callback' = [callback EXCEPT !.at = "PULL"]
    BY <1>3 DEF ChooseTempo
  <2>2. callback' \in Callbacks /\ callback'.at = "PULL" /\ callback'.dry = callback.dry
        /\ callback'.asked = callback.asked
    BY <2>1 DEF StretchIInv, StretchTypeOK, Callbacks
  <2> QED
    BY <2>1, <2>2 DEF StretchIInv, StretchTypeOK, Callbacks, HoldIsEnough, SilenceMeansDry
<1>4. CASE ProcessBlock
  BY <1>4, ProcessBlockStep
<1>5. CASE Deliver
  BY <1>5, DeliverStep
<1>6. CASE UNCHANGED stretch_vars
  BY <1>6 DEF stretch_vars, StretchIInv, StretchTypeOK, HoldIsEnough, SilenceMeansDry
<1> QED
  BY <1>1, <1>2, <1>3, <1>4, <1>5, <1>6 DEF StretchNext, Device

LEMMA StretchStart == StretchInit => StretchIInv
BY StretchSizes DEF StretchInit, StretchIInv, StretchTypeOK, HoldIsEnough, SilenceMeansDry

(* With a device that asks for no more than the margin and a block at a    *)
(* time, silence is played only when the ring was found empty: for any     *)
(* lengths of blocks, windows and rings, any pace of the emulation and any *)
(* tempo (spu_fill_audio, spu_stretch_pull).                               *)
THEOREM SilenceIsDry ==
  ASSUME OneBuffer
  PROVE  StretchSpec => []SilenceMeansDry
<1>1. StretchIInv /\ [StretchNext]_stretch_vars => StretchIInv'
  BY StretchStep
<1> QED
  BY <1>1, StretchStart, PTL DEF StretchSpec, StretchIInv

-----------------------------------------------------------------------------
(* Spu: every field of the voice stays in range, whatever its envelope and *)
(* the guest do.  Levels and Waits name the two ranges that the volume and *)
(* the divider of the envelope's rate keep to.                             *)
Levels == 0 .. Top
Waits  == 0 .. 2 ^ 20
Voices == [on : BOOLEAN, stop : BOOLEAN, curr : Addresses, start : Addresses,
           repeat : Addresses, ignore_loop : BOOLEAN, reach_end : BOOLEAN,
           fetched : 0 .. 2, due : BOOLEAN, endx : BOOLEAN,
           state : States, vol : Levels, frac : Waits]
Traps  == [at : Addresses, flag : BOOLEAN, line : BOOLEAN]
Moving == [at : Addresses, fifo : 0 .. FifoSize]

(* The dividers of the envelope's rates, 1 << k, one by one.               *)
LEMMA PowersAreNumbers == \A k \in 0 .. 20 : 2 ^ k \in 1 .. 2 ^ 20
<1> DEFINE cap == 2 ^ 20
           Good(m) == m \in 1 .. cap
<1>1. /\ Good(2 ^ 0) /\ Good(2 ^ 1) /\ Good(2 ^ 2) /\ Good(2 ^ 3) /\ Good(2 ^ 4)
      /\ Good(2 ^ 5) /\ Good(2 ^ 6) /\ Good(2 ^ 7) /\ Good(2 ^ 8) /\ Good(2 ^ 9)
      /\ Good(2 ^ 10) /\ Good(2 ^ 11) /\ Good(2 ^ 12) /\ Good(2 ^ 13) /\ Good(2 ^ 14)
      /\ Good(2 ^ 15) /\ Good(2 ^ 16) /\ Good(2 ^ 17) /\ Good(2 ^ 18) /\ Good(2 ^ 19)
      /\ Good(2 ^ 20)
  BY SMT
<1> HIDE DEF cap, Good
<1>2. \A k \in {0, 1, 2, 3, 4, 5, 6, 7, 8, 9, 10, 11, 12, 13, 14, 15, 16, 17, 18, 19, 20} : Good(2 ^ k)
  BY <1>1, Zenon
<1>3. 0 .. 20 = {0, 1, 2, 3, 4, 5, 6, 7, 8, 9, 10, 11, 12, 13, 14, 15, 16, 17, 18, 19, 20}
  BY SMT
<1>4. \A k \in 0 .. 20 : Good(2 ^ k)
  BY <1>2, <1>3, Zenon
<1> QED
  BY <1>4, Zenon DEF Good, cap

(* The longest wait between two steps of the envelope.                     *)
LEMMA LongestWait == 2 ^ 20 \in Nat /\ 1 \in 1 .. 2 ^ 20 /\ 0 \in 0 .. 2 ^ 20
<1> DEFINE cap == 2 ^ 20
<1>0. 20 \in 0 .. 20
  BY SMT
<1>1. cap \in 1 .. cap
  BY <1>0, PowersAreNumbers, Zenon
<1> HIDE DEF cap
<1>2. cap \in Nat /\ 1 \in 1 .. cap /\ 0 \in 0 .. cap
  BY <1>1
<1> QED
  BY <1>2, Zenon DEF cap

(* What the ADSR tables hold at any rate that is not past their end.       *)
LEMMA Rates ==
  ASSUME NEW n \in 0 .. 127
  PROVE  /\ Denominator(n) \in 1 .. 2 ^ 20 /\ Up(n) \in Int /\ Down(n) \in Int
         /\ \A exp \in BOOLEAN, vol \in 0 .. Top : Falling(n, exp, vol) \in Int
<1>1. PICK q \in 0 .. 31, rest \in 0 .. 3 : q = n \div 4 /\ rest = n % 4
  <2>1. n \div 4 \in 0 .. 31 /\ n % 4 \in 0 .. 3
    OBVIOUS
  <2> QED
    BY <2>1
<1>2. Denominator(n) \in 1 .. 2 ^ 20
  <2>1. CASE n < 48
    BY <2>1, LongestWait DEF Denominator
  <2>2. CASE ~(n < 48)
    <3>1. q - 11 \in 0 .. 20
      BY <1>1, <2>2
    <3> QED
      BY <1>1, <2>2, <3>1, PowersAreNumbers DEF Denominator
  <2> QED
    BY <2>1, <2>2
<1>3. n < 48 => 2 ^ (11 - q) \in Int
  <2>1. n < 48 => 11 - q \in 0 .. 20
    BY <1>1
  <2> QED
    BY <2>1, LongestWait, PowersAreNumbers
<1>4. PICK p \in Int : p = IF n < 48 THEN 2 ^ (11 - q) ELSE 1
  BY <1>3
<1>5. Up(n) = (7 - rest) * p /\ Down(n) = (rest - 8) * p
  BY <1>1, <1>4 DEF Up, Down
<1>6. Up(n) \in Int /\ Down(n) \in Int
  BY <1>5
<1>7. ASSUME NEW exp \in BOOLEAN, NEW vol \in 0 .. Top PROVE Falling(n, exp, vol) \in Int
  <2>1. PICK d \in Int : d = Down(n)
    BY <1>6
  <2>2. vol \in Int
    BY DEF Top
  <2>3. (d * vol) \div 32768 \in Int
    <3>1. d * vol \in Int
      BY <2>2
    <3> QED
      BY <3>1
  <2> QED
    BY <1>6, <2>1, <2>3 DEF Falling
<1> QED
  BY <1>2, <1>6, <1>7

(* The envelope's volume is cut to its range.                              *)
LEMMA LevelIs ==
  ASSUME NEW x \in Int
  PROVE  Within(x) \in 0 .. Top
<1>1. Top \in Nat
  BY DEF Top
<1> HIDE DEF Top
<1>2. CASE x < 0
  BY <1>1, <1>2 DEF Within
<1>3. CASE x > Top
  BY <1>1, <1>3 DEF Within
<1>4. CASE ~(x < 0) /\ ~(x > Top)
  BY <1>1, <1>4 DEF Within
<1> QED
  BY <1>2, <1>3, <1>4

(* Both ranges start at 0, and a wait that is not over can go on.          *)
LEMMA LevelsAndWaits ==
  /\ 0 \in Levels /\ Levels \subseteq Int
  /\ 0 \in Waits /\ Waits \subseteq Int
  /\ \A w \in Waits, d \in 1 .. 2 ^ 20 : ~(w + 1 >= d) => w + 1 \in Waits
<1> DEFINE cap == 2 ^ 20
<1>1. cap \in Nat
  BY LongestWait
<1>2. Waits = 0 .. cap
  BY DEF Waits
<1>3. Levels \subseteq Int /\ 0 \in Levels
  BY DEF Levels, Top
<1> HIDE DEF cap
<1>4. 0 \in Waits /\ Waits \subseteq Int
  BY <1>1, <1>2
<1>5. \A w \in Waits, d \in 1 .. cap : ~(w + 1 >= d) => w + 1 \in Waits
  BY <1>1, <1>2
<1> QED
  BY <1>3, <1>4, <1>5, Zenon DEF cap

(* One tick at any rate keeps the voice whole.                             *)
LEMMA TickedIs ==
  ASSUME NEW v \in Voices, NEW n \in 0 .. 127, NEW step \in Int
  PROVE  Ticked(v, n, step) \in Voices
<1>1. Denominator(n) \in 1 .. 2 ^ 20
  BY Rates
<1>2. v.vol \in Levels /\ v.frac \in Waits
  BY DEF Voices
<1>3. Within(v.vol + step) \in Levels
  <2>1. v.vol \in Int
    BY <1>2, LevelsAndWaits
  <2>2. v.vol + step \in Int
    BY <2>1
  <2> QED
    BY <2>2, LevelIs DEF Levels
<1>4. CASE v.frac + 1 >= Denominator(n)
  BY <1>3, <1>4, LevelsAndWaits DEF Ticked, Voices
<1>5. CASE ~(v.frac + 1 >= Denominator(n))
  <2>1. v.frac + 1 \in Waits
    BY <1>1, <1>2, <1>5, LevelsAndWaits
  <2> QED
    BY <1>5, <2>1 DEF Ticked, Voices
<1> QED
  BY <1>4, <1>5

(* The rate of each phase is in the tables, so each keeps the voice whole. *)
Settings == [attack : 0 .. 127, attack_exp : BOOLEAN, decay : 0 .. 15, level : 0 .. 15,
             sustain : 0 .. 127, sustain_exp : BOOLEAN, increase : BOOLEAN,
             release : 0 .. 31, release_exp : BOOLEAN]

(* ClampRate and the slow end of an exponential rise stay in the tables.   *)
LEMMA RateIs ==
  /\ \A n \in Nat : ClampRate(n) \in 0 .. 127
  /\ \A n \in 0 .. 127 : \A exp, vol : Slower(n, exp, vol) \in 0 .. 127
BY DEF ClampRate, Slower

(* spu_adsr_mix keeps the voice whole in every phase.                      *)
LEMMA EnvelopeIs ==
  ASSUME adsr \in Settings, NEW v \in Voices
  PROVE  Envelope(v) \in Voices
<1>1. v.vol \in Levels /\ v.state \in States
  BY DEF Voices
<1>2. \A n \in 0 .. 127, exp \in BOOLEAN : Falling(n, exp, v.vol) \in Int /\ Up(n) \in Int
  BY <1>1, Rates DEF Levels
<1>3. /\ adsr.attack \in 0 .. 127 /\ adsr.sustain \in 0 .. 127
      /\ adsr.decay * 4 \in Nat /\ adsr.release * 4 \in Nat
      /\ adsr.sustain_exp \in BOOLEAN /\ adsr.release_exp \in BOOLEAN
  BY DEF Settings
<1>4. \A w \in Voices, t \in States : [w EXCEPT !.state = t] \in Voices
  BY DEF Voices
<1>5. CASE v.state = "ATTACK"
  <2> DEFINE n == Slower(adsr.attack, adsr.attack_exp, v.vol)
             w == Ticked(v, n, Up(n))
  <2>1. n \in 0 .. 127
    BY <1>3, RateIs
  <2> HIDE DEF n
  <2>2. w \in Voices
    BY <1>2, <2>1, TickedIs
  <2>3. Envelope(v) = [w EXCEPT !.state = IF w.vol = Top THEN "DECAY" ELSE w.state]
    BY <1>5 DEF Envelope, Attack, n
  <2> HIDE DEF w
  <2>4. (IF w.vol = Top THEN "DECAY" ELSE w.state) \in States
    BY <2>2 DEF Voices, States
  <2> QED
    BY <1>4, <2>2, <2>3, <2>4
<1>6. CASE v.state = "DECAY"
  <2> DEFINE n == ClampRate(adsr.decay * 4)
             w == Ticked(v, n, Falling(n, TRUE, v.vol))
             low == (w.vol \div 2048) % 16 <= adsr.level
  <2>1. n \in 0 .. 127
    BY <1>3, RateIs
  <2> HIDE DEF n
  <2>2. w \in Voices
    BY <1>2, <2>1, TickedIs
  <2>3. Envelope(v) = [w EXCEPT !.state = IF low THEN "SUSTAIN" ELSE w.state]
    BY <1>6 DEF Envelope, Decay, n
  <2> HIDE DEF w, low
  <2>4. (IF low THEN "SUSTAIN" ELSE w.state) \in States
    BY <2>2 DEF Voices, States
  <2> QED
    BY <1>4, <2>2, <2>3, <2>4
<1>7. CASE v.state = "SUSTAIN"
  <2> DEFINE up   == Slower(adsr.sustain, adsr.sustain_exp, v.vol)
             down == ClampRate(adsr.sustain)
             exp  == adsr.sustain_exp
  <2>1. up \in 0 .. 127 /\ down \in 0 .. 127 /\ exp \in BOOLEAN
    BY <1>3, RateIs
  <2>2. Envelope(v) = IF adsr.increase THEN Ticked(v, up, Up(up))
                      ELSE Ticked(v, down, Falling(down, exp, v.vol))
    BY <1>7 DEF Envelope, Sustain
  <2> HIDE DEF up, down, exp
  <2> QED
    BY <1>2, <2>1, <2>2, TickedIs
<1>8. CASE v.state = "RELEASE"
  <2> DEFINE n == ClampRate(adsr.release * 4)
             step == Falling(n, adsr.release_exp, v.vol)
             w == Ticked(v, n, step)
             over == v.frac + 1 >= Denominator(n) /\ v.vol + step < 0
  <2>1. n \in 0 .. 127
    BY <1>3, RateIs
  <2> HIDE DEF n
  <2>2. step \in Int
    BY <1>2, <1>3, <2>1
  <2> HIDE DEF step
  <2>3. w \in Voices
    BY <2>1, <2>2, TickedIs
  <2>4. Envelope(v) = IF over THEN [w EXCEPT !.state = "STOPPED", !.on = FALSE] ELSE w
    BY <1>8 DEF Envelope, Release, n, step
  <2> HIDE DEF w, over
  <2>5. "STOPPED" \in States
    BY DEF States
  <2>6. [w EXCEPT !.state = "STOPPED", !.on = FALSE] \in Voices
    BY <2>3, <2>5 DEF Voices
  <2> QED
    BY <2>3, <2>4, <2>6
<1>9. CASE v.state = "STOPPED"
  BY <1>9 DEF Envelope
<1> QED
  BY <1>1, <1>5, <1>6, <1>7, <1>8, <1>9 DEF States

SpuTypes == /\ voice \in Voices /\ keys \in [on : BOOLEAN, off : BOOLEAN]
            /\ ctrl \in [on : BOOLEAN, irq9 : BOOLEAN, mode : Transfers]
            /\ trap \in Traps /\ transfer \in Moving
            /\ sram \in [Addresses -> BlockFlags]
            /\ adsr \in Envelopes /\ writes \in 0 .. SpuWrites

(* The type, with its records named.                                       *)
LEMMA SpuTypesAre == SpuTypeOK <=> SpuTypes
BY Zenon DEF SpuTypeOK, SpuTypes, Voices, Traps, Moving, Levels, Waits

(* The sizes, and that an address that goes round stays in SPU RAM.        *)
LEMMA SpuSizes == /\ Blocks \in Nat \ {0} /\ FifoSize \in Nat \ {0} /\ SpuWrites \in Nat
                  /\ Envelopes \subseteq Settings
                  /\ \A f \in BlockFlags : f.start \in BOOLEAN /\ f.end \in BOOLEAN /\ f.repeat \in BOOLEAN
                  /\ 0 \in Addresses
                  /\ \A n \in Int : n % Blocks \in Addresses
<1>1. /\ Blocks \in Nat \ {0} /\ FifoSize \in Nat \ {0} /\ SpuWrites \in Nat
      /\ Envelopes \subseteq Settings
  BY SpuConstants DEF Settings
<1>2. \A f \in BlockFlags : f.start \in BOOLEAN /\ f.end \in BOOLEAN /\ f.repeat \in BOOLEAN
  BY SpuConstants
<1>3. 0 \in Addresses /\ \A n \in Int : n % Blocks \in Addresses
  BY <1>1 DEF Addresses
<1> QED
  BY <1>1, <1>2, <1>3

(* What a voice that starts is set to.                                     *)
LEMMA Zeros == 0 \in Levels /\ 0 \in Waits
BY LevelsAndWaits

(* Reset.                                                                  *)
LEMMA SpuStart == SpuInit => SpuTypes
BY SpuSizes, Zeros DEF SpuInit, SpuTypes, Voices, Traps, Moving, States, Transfers

(* spu_check_irq.                                                          *)
LEMMA TrappedIs ==
  ASSUME NEW t \in Traps, NEW c, NEW touched
  PROVE  Trapped(t, c, touched) \in Traps
BY DEF Trapped, Traps

(* spu_process_key_on_off keeps the voice whole.                           *)
LEMMA LatchesAre ==
  ASSUME SpuTypes, NEW v \in Voices
  PROVE  KeyOnLatch(KeyOffLatch(v)) \in Voices
<1>1. KeyOffLatch(v) \in Voices
  BY DEF KeyOffLatch, Voices
<1> DEFINE u == KeyOffLatch(v)
<1> HIDE DEF u
<1>2. [u EXCEPT !.on = TRUE, !.stop = FALSE, !.curr = u.start, !.reach_end = FALSE,
                !.ignore_loop = FALSE, !.fetched = 0, !.due = TRUE, !.endx = FALSE,
                !.state = "ATTACK", !.vol = 0, !.frac = 0] \in Voices
  <2>1. u \in Voices /\ 0 \in 0 .. 2
    BY <1>1 DEF u
  <2> QED
    BY <2>1, Zeros DEF Voices, States
<1> QED
  BY <1>1, <1>2 DEF KeyOnLatch, u

(* Reading the next block keeps the voice whole: its loop point and the    *)
(* block after it are in SPU RAM.                                          *)
LEMMA AdvancedIs ==
  ASSUME SpuTypes, NEW v \in Voices, NEW fetch
  PROVE  Advanced(v, fetch) \in Voices
<1>1. Stopping(v) \in Voices
  BY DEF Stopping, Voices, States
<1>2. ASSUME NEW w \in Voices PROVE FetchBlock(w) \in Voices
  <2> DEFINE done == Released(w)
             f == sram[w.curr]
             back == LoopPoint(w)
             next == IF f.end THEN back ELSE (w.curr + 1) % Blocks
             count == IF done.fetched < 2 THEN done.fetched + 1 ELSE done.fetched
             ended == done.endx \/ f.end
             over == f.end /\ ~f.repeat
  <2>1. done \in Voices
    BY Zeros DEF Released, Voices, States
  <2>2. w.curr \in Addresses /\ w.repeat \in Addresses
    BY DEF Voices
  <2>3. f \in BlockFlags /\ f.end \in BOOLEAN /\ f.repeat \in BOOLEAN
    BY <2>2, SpuSizes DEF SpuTypes
  <2>4. back \in Addresses
    BY <2>2 DEF LoopPoint
  <2>5. next \in Addresses
    <3>1. w.curr + 1 \in Int
      BY <2>2, SpuSizes DEF Addresses
    <3> QED
      BY <2>4, <3>1, SpuSizes
  <2>6. FetchBlock(w) = [done EXCEPT !.repeat = back, !.due = FALSE, !.fetched = count,
                                  !.curr = next, !.endx = ended, !.reach_end = over]
    BY DEF FetchBlock
  <2>7. ended \in BOOLEAN /\ over \in BOOLEAN
    BY <2>3
  <2>8. count \in 0 .. 2
    BY <2>1 DEF Voices
  <2> HIDE DEF done, f, back, next, count, ended, over
  <2> QED
    BY <2>1, <2>4, <2>5, <2>6, <2>7, <2>8 DEF Voices
<1> QED
  BY <1>1, <1>2 DEF Advanced

(* spu_generate_one_sample.                                                *)
LEMMA SampleStep ==
  ASSUME SpuTypes, NEW fetch \in BOOLEAN, NEW capture \in BOOLEAN, Sample(fetch, capture)
  PROVE  SpuTypes'
<1> DEFINE v == KeyOnLatch(KeyOffLatch(voice))
           w == Advanced(v, fetch)
           touched == (IF ReadsBlock(v, fetch) THEN {v.curr} ELSE {}) \cup (IF capture THEN {0} ELSE {})
<1>1. v \in Voices
  BY LatchesAre DEF SpuTypes
<1>2. /\ voice' = IF v.on THEN Envelope(w) ELSE w
      /\ keys' = [on |-> FALSE, off |-> FALSE]
      /\ trap' = Trapped(trap, ctrl, touched)
      /\ UNCHANGED <<ctrl, transfer, sram, adsr, writes>>
  BY Zenon DEF Sample
<1> HIDE DEF v, touched
<1>3. w \in Voices
  BY <1>1, AdvancedIs
<1> HIDE DEF w
<1>4. voice' \in Voices
  <2>1. adsr \in Settings
    BY SpuSizes DEF SpuTypes
  <2> QED
    BY <1>2, <1>3, <2>1, EnvelopeIs
<1>5. trap' \in Traps
  BY <1>2, TrappedIs DEF SpuTypes
<1> QED
  BY <1>2, <1>4, <1>5 DEF SpuTypes

(* A transfer's address goes round.                                        *)
LEMMA MovedOnIs ==
  ASSUME SpuTypes, NEW n \in Nat
  PROVE  MovedOn(n) \in Moving /\ [MovedOn(n) EXCEPT !.fifo = 0] \in Moving
<1>1. transfer.at + n \in Int
  <2>1. transfer.at \in Addresses
    BY DEF SpuTypes, Moving
  <2>2. Addresses \subseteq Int
    BY SpuSizes DEF Addresses
  <2>3. transfer.at \in Int
    BY <2>1, <2>2
  <2> QED
    BY <2>3
<1>2. (transfer.at + n) % Blocks \in Addresses
  BY <1>1, SpuSizes
<1>3. 0 \in 0 .. FifoSize
  BY SpuSizes
<1> QED
  BY <1>2, <1>3 DEF MovedOn, SpuTypes, Moving

(* Each access of the guest is counted.                                    *)
LEMMA GuestCounts ==
  ASSUME SpuTypes, Guest
  PROVE  writes' \in 0 .. SpuWrites
BY SpuSizes DEF SpuTypes, Guest

(* spu_set_control: acknowledge, silence and flush.                        *)
LEMMA ControlStep ==
  ASSUME SpuTypes, NEW c \in [on : BOOLEAN, irq9 : BOOLEAN, mode : Transfers], SetControl(c)
  PROVE  SpuTypes'
<1> DEFINE acked == IF c.irq9 THEN trap ELSE [trap EXCEPT !.flag = FALSE, !.line = FALSE]
           n == transfer.fifo
<1>1. acked \in Traps
  BY DEF SpuTypes, Traps
<1>2. n \in Nat
  BY SpuSizes DEF SpuTypes, Moving
<1>3. /\ Guest /\ ctrl' = c
      /\ voice' = IF c.on THEN voice ELSE [voice EXCEPT !.on = FALSE]
      /\ UNCHANGED <<keys, adsr>>
  BY DEF SetControl
<1>4. \/ /\ trap' = Trapped(acked, c, Reached(n))
         /\ transfer' = [MovedOn(n) EXCEPT !.fifo = 0]
         /\ \E f \in BlockFlags :
              sram' = [b \in Addresses |-> IF b \in Reached(n) THEN f ELSE sram[b]]
      \/ trap' = acked /\ UNCHANGED <<transfer, sram>>
  BY DEF SetControl
<1> HIDE DEF acked, n
<1>5. voice' \in Voices
  BY <1>3 DEF SpuTypes, Voices
<1>6. trap' \in Traps /\ transfer' \in Moving
  BY <1>1, <1>2, <1>4, TrappedIs, MovedOnIs DEF SpuTypes
<1>7. sram' \in [Addresses -> BlockFlags]
  BY <1>4 DEF SpuTypes
<1> QED
  BY <1>3, <1>5, <1>6, <1>7, GuestCounts DEF SpuTypes

(* A unit written to SPU RAM.                                              *)
LEMMA TransferredIs ==
  ASSUME SpuTypes, NEW f \in BlockFlags, Transferred(f)
  PROVE  sram' \in [Addresses -> BlockFlags] /\ trap' \in Traps /\ transfer' \in Moving
BY TrappedIs, MovedOnIs DEF Transferred, SpuTypes

(* Every sample and every access keeps the types.                          *)
LEMMA SpuStep == SpuTypes /\ [SpuNext]_spu_vars => SpuTypes'
<1> SUFFICES ASSUME SpuTypes, [SpuNext]_spu_vars PROVE SpuTypes'
  OBVIOUS
<1>1. ASSUME NEW fetch \in BOOLEAN, NEW capture \in BOOLEAN, Sample(fetch, capture) PROVE SpuTypes'
  BY <1>1, SampleStep
<1>2. CASE KeyOn \/ KeyOff
  BY <1>2, GuestCounts DEF KeyOn, KeyOff, SpuTypes
<1>3. ASSUME NEW on \in BOOLEAN, NEW irq9 \in BOOLEAN, NEW m \in Transfers,
             SetControl([on |-> on, irq9 |-> irq9, mode |-> m])
      PROVE  SpuTypes'
  BY <1>3, ControlStep
<1>4. ASSUME NEW b \in Addresses,
             WriteIrqAddress(b) \/ WriteTransferAddress(b) \/ WriteStart(b) \/ WriteRepeat(b)
      PROVE  SpuTypes'
  <2>1. CASE WriteIrqAddress(b)
    BY <2>1, GuestCounts DEF WriteIrqAddress, SpuTypes, Traps
  <2>2. CASE WriteTransferAddress(b)
    BY <2>2, GuestCounts DEF WriteTransferAddress, SpuTypes, Moving
  <2>3. CASE WriteStart(b)
    BY <2>3, GuestCounts DEF WriteStart, SpuTypes, Voices
  <2>4. CASE WriteRepeat(b)
    BY <2>4, GuestCounts DEF WriteRepeat, SpuTypes, Voices
  <2> QED
    BY <1>4, <2>1, <2>2, <2>3, <2>4
<1>5. ASSUME NEW f \in BlockFlags, WriteData(f) PROVE SpuTypes'
  <2>1. Guest /\ UNCHANGED <<voice, keys, ctrl, adsr>>
    BY <1>5 DEF WriteData
  <2>2. CASE Transferred(f)
    BY <2>1, <2>2, GuestCounts, TransferredIs DEF SpuTypes
  <2>3. CASE ~Transferred(f)
    <3>1. /\ transfer' = [transfer EXCEPT !.fifo = IF @ < FifoSize THEN @ + 1 ELSE @]
          /\ UNCHANGED <<trap, sram>>
      BY <1>5, <2>3 DEF WriteData
    <3>2. transfer' \in Moving
      BY <3>1, SpuSizes DEF SpuTypes, Moving
    <3> QED
      BY <2>1, <3>1, <3>2, GuestCounts DEF SpuTypes
  <2> QED
    BY <2>2, <2>3
<1>6. ASSUME NEW f \in BlockFlags, DmaWrite(f) PROVE SpuTypes'
  BY <1>6, GuestCounts, TransferredIs DEF DmaWrite, SpuTypes
<1>7. CASE DmaRead
  BY <1>7, GuestCounts, TrappedIs, MovedOnIs DEF DmaRead, SpuTypes
<1>8. CASE UNCHANGED spu_vars
  BY <1>8 DEF spu_vars, SpuTypes
<1> QED
  BY <1>1, <1>2, <1>3, <1>4, <1>5, <1>6, <1>7, <1>8 DEF SpuNext

-----------------------------------------------------------------------------
(* MCThreads: the threads side by side, and the disc image.  A step of the *)
(* instance is one of the subject's and leaves the others alone.  What     *)
(* DiscProofs says of the image is taken over for the instance of the      *)
(* module that MCThreads checks, which says the same, definition by        *)
(* definition.                                                             *)
D == INSTANCE DiscProofs
       WITH head <- disc_head, ImageSectors <- <<7>>, EcmImages <- {},
            Protected <- Patches, MaxTracks <- 3

(* A disc whose PREGAPs are lengths and whose .sbi files ascend.           *)
PlainDisc == /\ Pregaps \subseteq Nat
             /\ \A p \in Patches : /\ p \in Seq(Nat)
                                   /\ \A i, j \in 1 .. Len(p) : i < j => p[i] < p[j]

(* The two instances of the module say the same.                           *)
LEMMA SameDisc ==
  /\ Disc!DiscInit <=> D!DiscInit
  /\ [Disc!DiscNext]_disc_vars <=> [D!DiscNext]_D!disc_vars
  /\ Disc!DiscIsThePressed <=> D!DiscIsThePressed
  /\ Disc!DiscTypeOK <=> D!DiscTypeOK
<1>1. Disc!DiscInit <=> D!DiscInit
  BY DEF Disc!DiscInit, D!DiscInit, Disc!NoDisc, D!NoDisc
<1>2. Disc!DiscNext <=> D!DiscNext
  BY DEF
     Disc!Silence, D!Silence, Disc!Failed, D!Failed, Disc!NoDisc, D!NoDisc,
     Disc!LeadOut, D!LeadOut, Disc!Images, D!Images, Disc!LastFile, D!LastFile,
     Disc!Addresses, D!Addresses, Disc!Entries, D!Entries, Disc!First, D!First,
     Disc!Follows, D!Follows, Disc!MultiFile, D!MultiFile, Disc!ShiftAt, D!ShiftAt,
     Disc!SingleTrack, D!SingleTrack, Disc!Accumulated, D!Accumulated,
     Disc!MultiTrack, D!MultiTrack, Disc!Tracks, D!Tracks, Disc!TotalSectors, D!TotalSectors,
     Disc!Load, D!Load, Disc!Max, D!Max, Disc!Last, D!Last, Disc!FoldSeq, D!FoldSeq,
     Disc!FoldFunction, D!FoldFunction, Disc!FoldFunctionOnSet, D!FoldFunctionOnSet,
     Disc!MapThenFoldSet, D!MapThenFoldSet, Disc!AddTrack, D!AddTrack,
     Disc!LoadDisc, D!LoadDisc, Disc!NextSector, D!NextSector, Disc!DiscNext, D!DiscNext
<1>3. [Disc!DiscNext]_disc_vars <=> [D!DiscNext]_D!disc_vars
  BY <1>2 DEF disc_vars, D!disc_vars
<1>4. Disc!DiscIsThePressed <=> D!DiscIsThePressed
  BY DEF
     Disc!Silence, D!Silence, Disc!Failed, D!Failed, Disc!NoDisc, D!NoDisc,
     Disc!LeadOut, D!LeadOut, Disc!Images, D!Images, Disc!LastFile, D!LastFile,
     Disc!Addresses, D!Addresses, Disc!Entries, D!Entries, Disc!First, D!First,
     Disc!Follows, D!Follows, Disc!MultiFile, D!MultiFile, Disc!ShiftAt, D!ShiftAt,
     Disc!SingleTrack, D!SingleTrack, Disc!Accumulated, D!Accumulated,
     Disc!MultiTrack, D!MultiTrack, Disc!Tracks, D!Tracks, Disc!TotalSectors, D!TotalSectors,
     Disc!Load, D!Load, Disc!Max, D!Max, Disc!Last, D!Last, Disc!FoldSeq, D!FoldSeq,
     Disc!FoldFunction, D!FoldFunction, Disc!FoldFunctionOnSet, D!FoldFunctionOnSet,
     Disc!MapThenFoldSet, D!MapThenFoldSet, Disc!TrackAt, D!TrackAt,
     Disc!FromImage, D!FromImage, Disc!DiscSector, D!DiscSector, Disc!SbiFind, D!SbiFind,
     Disc!Q, D!Q, Disc!Patched, D!Patched, Disc!InPregap, D!InPregap, Disc!Subq, D!Subq,
     Disc!Span, D!Span, Disc!Upto, D!Upto, Disc!Gap, D!Gap, Disc!Body, D!Body,
     Disc!Pressed, D!Pressed, Disc!PressedQ, D!PressedQ,
     Disc!ReadsThePressedDisc, D!ReadsThePressedDisc,
     Disc!QIsThePressedDisc, D!QIsThePressedDisc, Disc!DiscIsThePressed, D!DiscIsThePressed,
     Disc!Min, D!Min, Disc!FlattenSeq, D!FlattenSeq, Disc!ToSet, D!ToSet
<1>5. Disc!DiscTypeOK <=> D!DiscTypeOK
  BY DEF
     Disc!Silence, D!Silence, Disc!Failed, D!Failed, Disc!NoDisc, D!NoDisc,
     Disc!LeadOut, D!LeadOut, Disc!Images, D!Images, Disc!LastFile, D!LastFile,
     Disc!Addresses, D!Addresses, Disc!Entries, D!Entries, Disc!First, D!First,
     Disc!Follows, D!Follows, Disc!MultiFile, D!MultiFile, Disc!ShiftAt, D!ShiftAt,
     Disc!SingleTrack, D!SingleTrack, Disc!Accumulated, D!Accumulated,
     Disc!MultiTrack, D!MultiTrack, Disc!Tracks, D!Tracks, Disc!TotalSectors, D!TotalSectors,
     Disc!Load, D!Load, Disc!Max, D!Max, Disc!Last, D!Last, Disc!FoldSeq, D!FoldSeq,
     Disc!FoldFunction, D!FoldFunction, Disc!FoldFunctionOnSet, D!FoldFunctionOnSet,
     Disc!MapThenFoldSet, D!MapThenFoldSet, Disc!DiscTypeOK, D!DiscTypeOK, Disc!ToSet, D!ToSet
<1> QED
  BY <1>1, <1>2, <1>3, <1>4, <1>5

(* The instance's one image is one that DiscProofs is about.               *)
LEMMA PlainIsOneImage == PlainDisc => D!OneImage
BY DEF PlainDisc, D!OneImage, D!Ascends

(* A behaviour of the instance is one of each of its parts.                *)
LEMMA ThreadsSideBySide ==
  ThreadsSpec => /\ SpuInit /\ [][SpuNext]_spu_vars /\ RingSpec
                 /\ StretchInit /\ [][StretchNext]_stretch_vars /\ Spec
                 /\ Disc!DiscInit /\ [][Disc!DiscNext]_disc_vars
<1>1. ThreadsInit => SpuInit /\ RingInit /\ StretchInit /\ Init /\ Disc!DiscInit
  BY DEF ThreadsInit
<1>2. [ThreadsNext]_thread_vars =>
        /\ [SpuNext]_spu_vars /\ [RingNext]_ring_vars /\ [StretchNext]_stretch_vars
        /\ [Next]_vars /\ [Disc!DiscNext]_disc_vars
  BY DEF ThreadsNext, Others, thread_vars
<1> QED
  BY <1>1, <1>2, PTL DEF ThreadsSpec, RingSpec, Spec

(* What the disc keeps, in the instance.                                   *)
LEMMA DiscKeeps ==
  ASSUME PlainDisc
  PROVE  ThreadsSpec => []D!DiscIInv
<1>1. D!OneImage
  BY PlainIsOneImage
<1>2. Disc!DiscInit => D!DiscIInv
  BY <1>1, SameDisc, D!DiscInitIInv
<1>3. D!DiscIInv /\ [Disc!DiscNext]_disc_vars => D!DiscIInv'
  BY <1>1, SameDisc, D!DiscNextIInv
<1> QED
  BY <1>2, <1>3, ThreadsSideBySide, PTL

(* The image that runs beside the emulation reads, at every sector, what   *)
(* its sheet puts there, and Q says where that is, for any PREGAP lengths  *)
(* and any patches that ascend (cdrom_disc_load, cdrom_disc_read_sector,   *)
(* cdrom_disc_get_subq).                                                   *)
THEOREM DiscStaysThePressed ==
  ASSUME PlainDisc
  PROVE  ThreadsSpec => []DiscIsThePressed
<1>1. D!DiscIInv => DiscIsThePressed
  BY PlainIsOneImage, D!DiscIInvReads, SameDisc DEF DiscIsThePressed
<1> QED
  BY <1>1, DiscKeeps, PTL

(* Every variable of the voice, the ring, the stretcher, the reader and    *)
(* the disc stays in its type, for any sizes, block flags, envelopes and   *)
(* sheets.                                                                 *)
THEOREM ThreadsKeepTheirTypes ==
  ASSUME PlainDisc, OneBuffer
  PROVE  ThreadsSpec => []TypesOK
<1>1. SpuInit /\ [][SpuNext]_spu_vars => []SpuTypeOK
  BY SpuTypesAre, SpuStart, SpuStep, PTL
<1>2. RingSpec => []RingTypeOK
  <2>1. RingIInv => RingTypeOK
    BY DEF RingIInv
  <2> QED
    BY <2>1, SpecRing, PTL
<1>3. StretchInit /\ [][StretchNext]_stretch_vars => []StretchTypeOK
  <2>1. StretchIInv /\ [StretchNext]_stretch_vars => StretchIInv'
    BY StretchStep
  <2>2. StretchIInv => StretchTypeOK
    BY DEF StretchIInv
  <2> QED
    BY <2>1, <2>2, StretchStart, PTL
<1>4. Spec => []TypeOK
  BY TypeCorrect
<1>5. D!DiscIInv => Disc!DiscTypeOK
  BY PlainIsOneImage, D!DiscIInvTyped, SameDisc
<1>6. TypesOK <=> SpuTypeOK /\ RingTypeOK /\ StretchTypeOK /\ TypeOK /\ Disc!DiscTypeOK
  BY DEF TypesOK
<1> QED
  BY <1>1, <1>2, <1>3, <1>4, <1>5, <1>6, DiscKeeps, ThreadsSideBySide, PTL

(* The instance keeps what is proved of its parts: the ring is the queue,  *)
(* the reader keeps its promise and silence is only ever a dry ring.       *)
THEOREM ThreadsAreSound ==
  ASSUME OneBuffer
  PROVE  ThreadsSpec => RingIsAQueue /\ KeepsThePromise /\ []SilenceMeansDry
<1>1. StretchIInv /\ [StretchNext]_stretch_vars => StretchIInv'
  BY StretchStep
<1>2. StretchIInv => SilenceMeansDry
  BY DEF StretchIInv
<1>3. StretchInit /\ [][StretchNext]_stretch_vars => []SilenceMeansDry
  BY <1>1, <1>2, StretchStart, PTL
<1> QED
  BY <1>3, ThreadsSideBySide, RingImplementsQueue, ReaderImplementsSource
=============================================================================
