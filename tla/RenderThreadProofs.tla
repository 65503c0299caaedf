------------------------- MODULE RenderThreadProofs -------------------------
(***************************************************************************)
(* Proofs about RenderThread, for tables of any size and any number of     *)
(* primitives, uploads, readbacks and sessions of the GPU thread.          *)
(*                                                                         *)
(* That the two threads keep apart rests on the protocol of frames_pending *)
(* and sync_readback_active, which says where each may stand.  That a      *)
(* readback is current rests on a count as well: whatever was asked for is *)
(* drawn, lost, in the open batch, or in a slot and not yet run.           *)
(***************************************************************************)
EXTENDS RenderThread, TLAPS

Asks   == 1 .. MaxAsked
Ops    == [batch : BOOLEAN, items : Seq(Asks), lines : BOOLEAN, dither : BOOLEAN]
AnySlot == [ops : Seq(Ops), batches : 0 .. MaxBatches, updates : 0 .. MaxUpdates,
            vertices : 0 .. MaxVertices, exec_from : Nat]
SlotRecords == {w \in AnySlot : w.exec_from <= Len(w.ops)}

(* What a slot still has to bring to VRAM.                                 *)
OwedBy(w) == UNION {ToSet(w.ops[i].items) : i \in w.exec_from + 1 .. Len(w.ops)}

Typed ==
  /\ front \in [open : Seq(Asks), isolated : BOOLEAN, dither : BOOLEAN]
  /\ slot \in [FrameSlots -> SlotRecords]
  /\ shared \in [write_idx : FrameSlots, frames_pending : 0 .. 1, sync : BOOLEAN,
                 sync_slot : FrameSlots, stop : BOOLEAN, sessions : Nat]
  /\ recorder \in EmuStates
  /\ replayer \in [at : GpuStates, slot : FrameSlots]
  /\ asked \in 0 .. MaxAsked
  /\ drawn \in Seq(Asks)

(* Where each thread may stand: the GPU thread has the write slot only     *)
(* while the emulation thread sleeps on it, and the other slot only while  *)
(* a frame is pending; without one that slot has been run to its end.      *)
Protocol ==
  /\ shared.sync <=> recorder = "SYNC_ASLEEP"
  /\ shared.sync => shared.sync_slot = shared.write_idx /\ shared.frames_pending = 0
  /\ recorder \in {"READ", "READ_ASLEEP", "SYNC_ASLEEP"} => front.open = <<>>
  /\ recorder \in {"UI", "SUBMIT"} => shared.frames_pending = 0
  /\ replayer.at = "SYNC" => shared.sync /\ replayer.slot = shared.write_idx
  /\ replayer.at \in {"REPLAY", "UI"} =>
       shared.frames_pending = 1 /\ replayer.slot # shared.write_idx
  /\ replayer.at = "UI" => OwedBy(slot[replayer.slot]) = {}
  /\ shared.frames_pending = 0 =>
       \A s \in FrameSlots : s # shared.write_idx => OwedBy(slot[s]) = {}

(* Nothing that was asked for is forgotten, and nothing else is there.     *)
InHand == ToSet(front.open) \cup OwedBy(slot[0]) \cup OwedBy(slot[1]) \cup dropped
Accounted == InHand \subseteq 1 .. asked /\ 1 .. asked \subseteq ToSet(drawn) \cup InHand

IInv == Typed /\ Protocol /\ Accounted
-----------------------------------------------------------------------------
(* Sequences: what an item appended, or a sequence, adds.                  *)
LEMMA AppendSet ==
  ASSUME NEW S, NEW s \in Seq(S), NEW e \in S
  PROVE  Append(s, e) \in Seq(S) /\ ToSet(Append(s, e)) = ToSet(s) \cup {e}
<1>1. /\ Append(s, e) \in Seq(S) /\ DOMAIN Append(s, e) = 1 .. Len(s) + 1
      /\ DOMAIN s = 1 .. Len(s) /\ Len(s) \in Nat
      /\ Append(s, e)[Len(s) + 1] = e
      /\ \A i \in 1 .. Len(s) : Append(s, e)[i] = s[i]
  OBVIOUS
<1>2. \A i : i \in 1 .. Len(s) + 1 <=> i \in 1 .. Len(s) \/ i = Len(s) + 1
  BY <1>1
<1>3. ToSet(Append(s, e)) \subseteq ToSet(s) \cup {e}
  BY <1>1, <1>2, Zenon DEF ToSet
<1>4. ToSet(s) \subseteq ToSet(Append(s, e))
  BY <1>1, <1>2, Zenon DEF ToSet
<1>5. e \in ToSet(Append(s, e))
  BY <1>1, <1>2, Zenon DEF ToSet
<1> QED
  BY <1>1, <1>3, <1>4, <1>5

LEMMA ConcatSet ==
  ASSUME NEW S, NEW s \in Seq(S), NEW t \in Seq(S)
  PROVE  s \o t \in Seq(S) /\ ToSet(s \o t) = ToSet(s) \cup ToSet(t)
<1>1. /\ s \o t \in Seq(S) /\ DOMAIN (s \o t) = 1 .. Len(s) + Len(t)
      /\ DOMAIN s = 1 .. Len(s) /\ Len(s) \in Nat /\ DOMAIN t = 1 .. Len(t) /\ Len(t) \in Nat
      /\ \A i \in 1 .. Len(s) : (s \o t)[i] = s[i]
      /\ \A i \in 1 .. Len(t) : (s \o t)[Len(s) + i] = t[i]
  OBVIOUS
<1>2. \A i \in 1 .. Len(s) + Len(t) :
        i \in 1 .. Len(s) \/ (i - Len(s) \in 1 .. Len(t) /\ i = Len(s) + (i - Len(s)))
  BY <1>1
<1>3. \A i \in 1 .. Len(t) : Len(s) + i \in 1 .. Len(s) + Len(t)
  BY <1>1
<1>4. \A i \in 1 .. Len(s) : i \in 1 .. Len(s) + Len(t)
  BY <1>1
<1>5. ToSet(s \o t) \subseteq ToSet(s) \cup ToSet(t)
  <2> SUFFICES ASSUME NEW i \in 1 .. Len(s) + Len(t)
               PROVE  (s \o t)[i] \in ToSet(s) \cup ToSet(t)
    BY <1>1 DEF ToSet
  <2> QED
    BY <1>1, <1>2, Zenon DEF ToSet
<1>6. ToSet(s) \subseteq ToSet(s \o t)
  BY <1>1, <1>4, Zenon DEF ToSet
<1>7. ToSet(t) \subseteq ToSet(s \o t)
  <2> SUFFICES ASSUME NEW i \in 1 .. Len(t) PROVE t[i] \in ToSet(s \o t)
    BY <1>1 DEF ToSet
  <2> QED
    BY <1>1, <1>3, Zenon DEF ToSet
<1> QED
  BY <1>1, <1>5, <1>6, <1>7

LEMMA EmptySet == ToSet(<<>>) = {}
BY DEF ToSet

LEMMA SetOfSeq == \A S : \A s \in Seq(S) : ToSet(s) \subseteq S
BY DEF ToSet
-----------------------------------------------------------------------------
(* Slots: what each recorder adds to what a slot owes.                     *)
LEMMA OwedIff ==
  \A w, n : n \in OwedBy(w) <=>
     \E i \in w.exec_from + 1 .. Len(w.ops) : n \in ToSet(w.ops[i].items)
BY DEF OwedBy

LEMMA OwedAlike ==
  ASSUME NEW w, NEW v, v.ops = w.ops, v.exec_from = w.exec_from
  PROVE  OwedBy(v) = OwedBy(w)
BY DEF OwedBy

LEMMA SlotType ==
  ASSUME NEW w \in SlotRecords
  PROVE  /\ w.ops \in Seq(Ops) /\ Len(w.ops) \in Nat /\ w.exec_from \in 0 .. Len(w.ops)
         /\ w.batches \in 0 .. MaxBatches /\ w.updates \in 0 .. MaxUpdates
         /\ w.vertices \in 0 .. MaxVertices
         /\ \A i \in 1 .. Len(w.ops) : w.ops[i] \in Ops
BY DEF SlotRecords, AnySlot

LEMMA RunOut ==
  ASSUME NEW w \in SlotRecords, w.exec_from = Len(w.ops) PROVE OwedBy(w) = {}
<1>1. w.exec_from + 1 .. Len(w.ops) = {}
  BY SlotType
<1> QED
  BY <1>1, OwedIff, Zenon

LEMMA RecordOpOwes ==
  ASSUME NEW w \in SlotRecords, NEW op \in Ops
  PROVE  LET v == RecordOp(w, op)
         IN /\ v \in SlotRecords
            /\ v.batches = w.batches /\ v.updates = w.updates /\ v.vertices = w.vertices
            /\ OwedBy(v) = OwedBy(w) \cup ToSet(op.items)
<1> DEFINE v == RecordOp(w, op)
<1>1. /\ v.ops = Append(w.ops, op) /\ v.exec_from = w.exec_from
      /\ v.batches = w.batches /\ v.updates = w.updates /\ v.vertices = w.vertices
      /\ v \in AnySlot
  BY SlotType DEF RecordOp, SlotRecords, AnySlot
<1>2. /\ Len(v.ops) = Len(w.ops) + 1 /\ v.ops[Len(w.ops) + 1] = op
      /\ \A i \in 1 .. Len(w.ops) : v.ops[i] = w.ops[i]
  BY <1>1, SlotType
<1>3. v \in SlotRecords
  BY <1>1, <1>2, SlotType DEF SlotRecords
<1>4. \A i : i \in v.exec_from + 1 .. Len(v.ops) <=>
               i \in w.exec_from + 1 .. Len(w.ops) \/ i = Len(w.ops) + 1
  BY <1>1, <1>2, SlotType
<1>5. \A i \in w.exec_from + 1 .. Len(w.ops) : i \in 1 .. Len(w.ops)
  BY SlotType
<1>6. \A n : n \in OwedBy(v) <=> n \in OwedBy(w) \/ n \in ToSet(op.items)
  BY <1>2, <1>4, <1>5, OwedIff, Zenon
<1> QED
  BY <1>1, <1>3, <1>6

(* What a recorder holds: the slot's debt and what is lost.                *)
Holds(r) == OwedBy(r.w) \cup r.lost

LEMMA CloseHolds ==
  ASSUME NEW w \in SlotRecords, NEW lost, NEW open \in Seq(Asks), front.dither \in BOOLEAN
  PROVE  LET r == Close(Recorded(w, lost), open)
         IN r.w \in SlotRecords /\ Holds(r) = OwedBy(w) \cup lost \cup ToSet(open)
<1> DEFINE r  == Close(Recorded(w, lost), open)
           op == Batch(open, FALSE)
           v  == RecordOp(w, op)
<1>1. CASE open = <<>>
  <2>1. r = Recorded(w, lost)
    BY <1>1 DEF Close
  <2> QED
    BY <1>1, <2>1, EmptySet DEF Recorded, Holds
<1>2. CASE open # <<>> /\ (w.batches >= MaxBatches \/ w.vertices + Len(open) > MaxVertices)
  <2>1. r = Recorded(w, lost \cup ToSet(open))
    BY <1>2 DEF Close, Recorded
  <2> QED
    BY <2>1 DEF Recorded, Holds
<1>3. CASE open # <<>> /\ ~(w.batches >= MaxBatches \/ w.vertices + Len(open) > MaxVertices)
  <2>1. r = Recorded([v EXCEPT !.batches = @ + 1, !.vertices = @ + Len(open)], lost)
    BY <1>3, Zenon DEF Close, Recorded
  <2>2. op \in Ops /\ op.items = open
    BY DEF Batch, Ops
  <2>3. /\ v \in SlotRecords /\ v.batches = w.batches /\ v.vertices = w.vertices
        /\ OwedBy(v) = OwedBy(w) \cup ToSet(open)
    BY <2>2, RecordOpOwes
  <2>4. /\ r.w = [v EXCEPT !.batches = v.batches + 1, !.vertices = v.vertices + Len(open)]
        /\ r.lost = lost
    BY <2>1 DEF Recorded
  <2>5. v.batches + 1 \in 0 .. MaxBatches /\ v.vertices + Len(open) \in 0 .. MaxVertices
    <3>1. /\ w.batches \in 0 .. MaxBatches /\ w.vertices \in 0 .. MaxVertices
          /\ Len(open) \in Nat
      BY SlotType
    <3>2. w.batches + 1 \in 0 .. MaxBatches /\ w.vertices + Len(open) \in 0 .. MaxVertices
      BY <1>3, <3>1, RenderLimits
    <3> QED
      BY <2>3, <3>2, Zenon
  <2>6. r.w \in SlotRecords /\ r.w.ops = v.ops /\ r.w.exec_from = v.exec_from
    BY <2>3, <2>4, <2>5 DEF SlotRecords, AnySlot
  <2> QED
    BY <2>3, <2>4, <2>6, OwedAlike DEF Holds
<1> QED
  BY <1>1, <1>2, <1>3

LEMMA UpdateHolds ==
  ASSUME NEW r, r.w \in SlotRecords, NEW n \in Asks
  PROVE  LET q == RecordVramUpdate(r, n)
         IN q.w \in SlotRecords /\ Holds(q) = Holds(r) \cup {n}
<1> DEFINE q == RecordVramUpdate(r, n)
           v == RecordOp(r.w, Update(n))
<1>1. CASE r.w.updates >= MaxUpdates
  BY <1>1 DEF RecordVramUpdate, Recorded, Holds
<1>2. CASE ~(r.w.updates >= MaxUpdates)
  <2>1. Update(n) \in Ops /\ ToSet(Update(n).items) = {n}
    BY DEF Update, Ops, ToSet
  <2>2. v \in SlotRecords /\ v.updates = r.w.updates /\ OwedBy(v) = OwedBy(r.w) \cup {n}
    BY <2>1, RecordOpOwes
  <2>3. q.w = [v EXCEPT !.updates = v.updates + 1] /\ q.lost = r.lost
    BY <1>2 DEF RecordVramUpdate, Recorded
  <2>4. v.updates + 1 \in 0 .. MaxUpdates
    BY <1>2, <2>2, SlotType, RenderLimits
  <2>5. q.w \in SlotRecords /\ q.w.ops = v.ops /\ q.w.exec_from = v.exec_from
    BY <2>2, <2>3, <2>4 DEF SlotRecords, AnySlot
  <2> QED
    BY <2>2, <2>3, <2>5, OwedAlike DEF Holds
<1> QED
  BY <1>1, <1>2

(* A line that joins the last op, which has not been run.                  *)
LEMMA ExtendedHolds ==
  ASSUME NEW w \in SlotRecords, NEW n \in Asks, Extendable(w), w.vertices + 1 <= MaxVertices
  PROVE  Extended(w, n) \in SlotRecords /\ OwedBy(Extended(w, n)) = OwedBy(w) \cup {n}
<1> DEFINE m  == Len(w.ops)
           op == w.ops[m]
           v  == Extended(w, n)
<1>1. m \in Nat \ {0} /\ w.exec_from \in Nat /\ w.exec_from < m /\ op \in Ops
  BY SlotType DEF Extendable
<1>2. op.items \in Seq(Asks)
  BY <1>1 DEF Ops
<1>3. Append(op.items, n) \in Seq(Asks) /\ ToSet(Append(op.items, n)) = ToSet(op.items) \cup {n}
  BY <1>2, AppendSet
<1>4. [op EXCEPT !.items = Append(op.items, n)] \in Ops
  BY <1>1, <1>3 DEF Ops
<1>5. /\ v = [w EXCEPT !.ops = [w.ops EXCEPT ![m] = [op EXCEPT !.items = Append(op.items, n)]],
                       !.vertices = w.vertices + 1]
  BY DEF Extended
<1>6. /\ v.ops = [w.ops EXCEPT ![m] = [op EXCEPT !.items = Append(op.items, n)]]
      /\ v.exec_from = w.exec_from /\ v.vertices = w.vertices + 1
      /\ v.batches = w.batches /\ v.updates = w.updates
  BY <1>5, SlotType DEF SlotRecords, AnySlot
<1>7. v.ops \in Seq(Ops) /\ Len(v.ops) = m
  BY <1>1, <1>4, <1>6, SlotType
<1>8. v \in SlotRecords
  <2>1. v.vertices \in 0 .. MaxVertices
    BY <1>6, SlotType, RenderLimits
  <2> QED
    BY <1>1, <1>5, <1>6, <1>7, <2>1, SlotType DEF SlotRecords, AnySlot
<1>9. /\ \A i \in 1 .. m : i # m => v.ops[i] = w.ops[i]
      /\ v.ops[m].items = Append(op.items, n)
  BY <1>1, <1>6, SlotType DEF Ops
<1>10. /\ \A i \in w.exec_from + 1 .. m : i \in 1 .. m
       /\ m \in w.exec_from + 1 .. m
  BY <1>1
<1>11. \A k : k \in OwedBy(v) <=> \E i \in w.exec_from + 1 .. m : k \in ToSet(v.ops[i].items)
  BY <1>6, <1>7, OwedIff
<1>12. \A k : k \in OwedBy(w) <=> \E i \in w.exec_from + 1 .. m : k \in ToSet(w.ops[i].items)
  BY OwedIff
<1>13. ToSet(v.ops[m].items) = ToSet(w.ops[m].items) \cup {n}
  BY <1>3, <1>9
<1>14. \A k : k \in OwedBy(v) <=> k \in OwedBy(w) \/ k = n
  <2> TAKE k
  <2>1. k \in OwedBy(v) => k \in OwedBy(w) \/ k = n
    BY <1>9, <1>10, <1>11, <1>12, <1>13, Zenon
  <2>2. k \in OwedBy(w) => k \in OwedBy(v)
    BY <1>9, <1>10, <1>11, <1>12, <1>13, Zenon
  <2>3. n \in OwedBy(v)
    BY <1>10, <1>11, <1>13, Zenon
  <2> QED
    BY <2>1, <2>2, <2>3
<1> QED
  BY <1>8, <1>14

(* What glr_push_line leaves after the open batch has been closed.         *)
Lined(r, n) ==
  LET w == r.w
  IN IF w.vertices + 1 > MaxVertices THEN Recorded(w, r.lost \cup {n})
     ELSE IF Extendable(w) THEN Recorded(Extended(w, n), r.lost)
     ELSE IF w.batches >= MaxBatches THEN Recorded(w, r.lost \cup {n})
     ELSE Recorded([RecordOp(w, Batch(<<n>>, TRUE)) EXCEPT
                       !.batches = @ + 1, !.vertices = @ + 1], r.lost)

LEMMA LinedHolds ==
  ASSUME NEW r, r.w \in SlotRecords, NEW n \in Asks, front.dither \in BOOLEAN
  PROVE  Lined(r, n).w \in SlotRecords /\ Holds(Lined(r, n)) = Holds(r) \cup {n}
<1> DEFINE w == r.w
           q == Lined(r, n)
           v == RecordOp(w, Batch(<<n>>, TRUE))
<1>1. /\ w.vertices \in 0 .. MaxVertices /\ w.batches \in 0 .. MaxBatches
      /\ MaxVertices \in Nat /\ MaxBatches \in Nat
  BY SlotType, RenderLimits
<1>2. CASE w.vertices + 1 > MaxVertices
  BY <1>2 DEF Lined, Recorded, Holds
<1>3. CASE ~(w.vertices + 1 > MaxVertices) /\ Extendable(w)
  <2>1. q.w = Extended(w, n) /\ q.lost = r.lost
    BY <1>3 DEF Lined, Recorded
  <2>2. q.w \in SlotRecords /\ OwedBy(q.w) = OwedBy(w) \cup {n}
    BY <1>1, <1>3, <2>1, ExtendedHolds
  <2> QED
    BY <2>1, <2>2 DEF Holds
<1>4. CASE ~(w.vertices + 1 > MaxVertices) /\ ~Extendable(w) /\ w.batches >= MaxBatches
  BY <1>4 DEF Lined, Recorded, Holds
<1>5. CASE ~(w.vertices + 1 > MaxVertices) /\ ~Extendable(w) /\ ~(w.batches >= MaxBatches)
  <2>1. q = Recorded([v EXCEPT !.batches = @ + 1, !.vertices = @ + 1], r.lost)
    BY <1>5, Zenon DEF Lined
  <2>2. Batch(<<n>>, TRUE) \in Ops /\ ToSet(Batch(<<n>>, TRUE).items) = {n}
    BY DEF Batch, Ops, ToSet
  <2>3. /\ v \in SlotRecords /\ v.batches = w.batches /\ v.vertices = w.vertices
        /\ OwedBy(v) = OwedBy(w) \cup {n}
    BY <2>2, RecordOpOwes
  <2>4. /\ q.w = [v EXCEPT !.batches = v.batches + 1, !.vertices = v.vertices + 1]
        /\ q.lost = r.lost
    BY <2>1 DEF Recorded
  <2>5. w.batches + 1 \in 0 .. MaxBatches /\ w.vertices + 1 \in 0 .. MaxVertices
    BY <1>1, <1>5
  <2>6. v.batches + 1 \in 0 .. MaxBatches /\ v.vertices + 1 \in 0 .. MaxVertices
    BY <2>3, <2>5, Zenon
  <2>7. q.w \in SlotRecords /\ q.w.ops = v.ops /\ q.w.exec_from = v.exec_from
    BY <2>3, <2>4, <2>6 DEF SlotRecords, AnySlot
  <2> QED
    BY <2>3, <2>4, <2>7, OwedAlike DEF Holds
<1> QED
  BY <1>1, <1>2, <1>3, <1>4, <1>5
-----------------------------------------------------------------------------
(* The invariant says what the property does.                              *)
LEMMA IInvTyped == IInv => RenderTypeOK
<1> SUFFICES ASSUME IInv PROVE RenderTypeOK
  OBVIOUS
<1>1. dropped \subseteq 1 .. asked
  BY DEF IInv, Accounted, InHand
<1>2. \A s \in FrameSlots : slot[s] \in SlotRecords
  BY DEF IInv, Typed
<1>3. \A s \in FrameSlots :
        /\ slot[s].batches \in 0 .. MaxBatches /\ slot[s].updates \in 0 .. MaxUpdates
        /\ slot[s].vertices \in 0 .. MaxVertices
        /\ slot[s].exec_from \in 0 .. Len(slot[s].ops)
  BY <1>2, SlotType
<1> QED
  BY <1>1, <1>3 DEF IInv, Typed, RenderTypeOK, Asks

LEMMA IInvClean == IInv => HandoversAreClean
<1> SUFFICES ASSUME IInv PROVE HandoversAreClean
  OBVIOUS
<1>1. ThreadsKeepApart
  BY DEF IInv, Typed, Protocol, ThreadsKeepApart
<1>2. ReadbackIsCurrent
  <2> SUFFICES ASSUME replayer.at = "SYNC", Replayed
               PROVE  1 .. asked \subseteq ToSet(drawn) \cup dropped
    BY DEF ReadbackIsCurrent
  <2>1. /\ front.open = <<>> /\ replayer.slot = shared.write_idx
        /\ shared.frames_pending = 0 /\ shared.write_idx \in FrameSlots
    BY DEF IInv, Typed, Protocol
  <2>2. slot[shared.write_idx] \in SlotRecords
    BY <2>1 DEF IInv, Typed
  <2>3. OwedBy(slot[shared.write_idx]) = {}
    BY <2>1, <2>2, RunOut DEF Replayed
  <2>4. \A s \in FrameSlots : OwedBy(slot[s]) = {}
    BY <2>1, <2>3 DEF IInv, Protocol
  <2> QED
    BY <2>1, <2>4, EmptySet DEF IInv, Accounted, InHand, FrameSlots
<1> QED
  BY <1>1, <1>2, IInvTyped DEF HandoversAreClean

LEMMA EmptySlotOwesNothing == EmptySlot \in SlotRecords /\ OwedBy(EmptySlot) = {}
<1>1. EmptySlot \in SlotRecords
  BY RenderLimits DEF EmptySlot, SlotRecords, AnySlot
<1> QED
  BY <1>1, RunOut DEF EmptySlot

LEMMA InitIInv == RenderInit => IInv
<1> SUFFICES ASSUME RenderInit PROVE IInv
  OBVIOUS
<1> USE EmptySlotOwesNothing, EmptySet
<1>1. Typed
  BY RenderLimits DEF RenderInit, Typed, FrameSlots, EmuStates, GpuStates
<1>2. Protocol
  BY DEF RenderInit, Protocol, FrameSlots
<1>3. Accounted
  BY DEF RenderInit, Accounted, InHand, FrameSlots
<1> QED
  BY <1>1, <1>2, <1>3 DEF IInv
-----------------------------------------------------------------------------
(* What every recorder does: the write slot, the open batch and what is    *)
(* lost hold together what they held and what is asked for now.            *)
LEMMA RecorderStep ==
  ASSUME IInv, NEW r, r.w \in SlotRecords,
         slot' = [slot EXCEPT ![shared.write_idx] = r.w], dropped' = r.lost,
         front' \in [open : Seq(Asks), isolated : BOOLEAN, dither : BOOLEAN],
         asked' \in asked .. MaxAsked,
         Holds(r) \cup ToSet(front'.open)
           = OwedBy(slot[shared.write_idx]) \cup dropped \cup ToSet(front.open)
                \cup (asked + 1 .. asked'),
         UNCHANGED <<shared, replayer, drawn>>,
         \/ recorder = "FIELD" /\ recorder' = "FIELD"
         \/ recorder = "FIELD" /\ recorder' = "READ" /\ front'.open = <<>>
         \/ recorder = "UI" /\ recorder' = "SUBMIT"
  PROVE  IInv'
<1> DEFINE w == shared.write_idx
<1>1. /\ w \in FrameSlots /\ asked \in 0 .. MaxAsked /\ MaxAsked \in Nat
      /\ slot \in [FrameSlots -> SlotRecords]
  BY RenderLimits DEF IInv, Typed
<1>2. Typed'
  BY <1>1 DEF IInv, Typed, EmuStates
<1>3. slot'[w] = r.w /\ \A s \in FrameSlots : s # w => slot'[s] = slot[s]
  BY <1>1
<1>4. Protocol'
  BY <1>1, <1>3 DEF IInv, Typed, Protocol, FrameSlots
<1>5. InHand' = InHand \cup (asked + 1 .. asked')
  <2>1. CASE w = 0
    <3>1. slot'[0] = r.w /\ slot'[1] = slot[1]
      BY <1>3, <2>1 DEF FrameSlots
    <3> QED
      BY <2>1, <3>1 DEF InHand, Holds
  <2>2. CASE w = 1
    <3>1. slot'[1] = r.w /\ slot'[0] = slot[0]
      BY <1>3, <2>2 DEF FrameSlots
    <3> QED
      BY <2>2, <3>1 DEF InHand, Holds
  <2> QED
    BY <1>1, <2>1, <2>2 DEF FrameSlots
<1>6. 1 .. asked' = (1 .. asked) \cup (asked + 1 .. asked')
  BY <1>1
<1>7. Accounted'
  BY <1>5, <1>6 DEF IInv, Accounted
<1> QED
  BY <1>2, <1>4, <1>7 DEF IInv

(* Recording is closed in the write slot, with the open batch in front.    *)
LEMMA DrawHolds ==
  ASSUME IInv
  PROVE  /\ Draw.w \in SlotRecords
         /\ Holds(Draw) = OwedBy(slot[shared.write_idx]) \cup dropped \cup ToSet(front.open)
<1>1. slot[shared.write_idx] \in SlotRecords /\ front.open \in Seq(Asks) /\ front.dither \in BOOLEAN
  BY DEF IInv, Typed
<1> QED
  BY <1>1, CloseHolds DEF Draw

(* What a recorder may start from.                                         *)
LEMMA Before ==
  ASSUME IInv
  PROVE  /\ slot[shared.write_idx] \in SlotRecords
         /\ front \in [open : Seq(Asks), isolated : BOOLEAN, dither : BOOLEAN]
         /\ asked \in 0 .. MaxAsked /\ MaxAsked \in Nat
         /\ asked < MaxAsked => asked + 1 \in Asks /\ asked + 1 \in asked .. MaxAsked
         /\ asked + 1 .. asked + 1 = {asked + 1} /\ asked + 1 .. asked = {}
         /\ <<>> \in Seq(Asks)
BY RenderLimits DEF IInv, Typed, Asks

LEMMA PushPrimitiveKeeps ==
  ASSUME IInv, NEW own \in BOOLEAN, PushPrimitive(own) PROVE IInv'
<1> DEFINE close == own \/ front.isolated \/ Len(front.open) >= MaxVertices
           base  == Recorded(slot[shared.write_idx], dropped)
           r     == IF close THEN Draw ELSE base
           rest  == IF close THEN <<>> ELSE front.open
<1>1. /\ asked < MaxAsked /\ asked' = asked + 1 /\ recorder = "FIELD" /\ recorder' = "FIELD"
      /\ UNCHANGED <<shared, replayer, drawn>>
      /\ slot' = [slot EXCEPT ![shared.write_idx] = r.w] /\ dropped' = r.lost
      /\ front' = [front EXCEPT !.isolated = own, !.open = Append(rest, asked + 1)]
  BY DEF PushPrimitive, Asking, Recording
<1>2. rest \in Seq(Asks) /\ asked + 1 \in Asks
  BY <1>1, Before
<1>3. Append(rest, asked + 1) \in Seq(Asks) /\ ToSet(Append(rest, asked + 1)) = ToSet(rest) \cup {asked + 1}
  <2> HIDE DEF rest
  <2> QED
    BY <1>2, AppendSet
<1>4. /\ front' \in [open : Seq(Asks), isolated : BOOLEAN, dither : BOOLEAN]
      /\ front'.open = Append(rest, asked + 1)
  <2> HIDE DEF rest
  <2> QED
    BY <1>1, <1>3, Before
<1>5. /\ r.w \in SlotRecords
      /\ Holds(r) \cup ToSet(rest)
           = OwedBy(slot[shared.write_idx]) \cup dropped \cup ToSet(front.open)
  <2>1. CASE close
    BY <2>1, DrawHolds, EmptySet
  <2>2. CASE ~close
    BY <2>2, Before DEF Recorded, Holds
  <2> QED
    BY <2>1, <2>2
<1> HIDE DEF r, rest
<1> QED
  BY <1>1, <1>3, <1>4, <1>5, Before, RecorderStep

LEMMA PushLineKeeps ==
  ASSUME IInv, PushLine PROVE IInv'
<1> DEFINE r == Lined(Draw, asked + 1)
<1>1. /\ asked < MaxAsked /\ asked' = asked + 1 /\ recorder = "FIELD" /\ recorder' = "FIELD"
      /\ UNCHANGED <<shared, replayer, drawn>>
      /\ slot' = [slot EXCEPT ![shared.write_idx] = r.w] /\ dropped' = r.lost
      /\ front' = [front EXCEPT !.open = <<>>]
  BY Zenon DEF PushLine, Asking, Recording, Leaves, Lined
<1>2. r.w \in SlotRecords /\ Holds(r) = Holds(Draw) \cup {asked + 1}
  BY <1>1, Before, DrawHolds, LinedHolds
<1>3. /\ front' \in [open : Seq(Asks), isolated : BOOLEAN, dither : BOOLEAN]
      /\ front'.open = <<>>
  BY <1>1, Before
<1> HIDE DEF r
<1> QED
  BY <1>1, <1>2, <1>3, Before, DrawHolds, EmptySet, RecorderStep

LEMMA UploadRectKeeps ==
  ASSUME IInv, UploadRect PROVE IInv'
<1> DEFINE r == RecordVramUpdate(Draw, asked + 1)
<1>1. /\ asked < MaxAsked /\ asked' = asked + 1 /\ recorder = "FIELD" /\ recorder' = "FIELD"
      /\ UNCHANGED <<shared, replayer, drawn>>
      /\ slot' = [slot EXCEPT ![shared.write_idx] = r.w] /\ dropped' = r.lost
      /\ front' = [front EXCEPT !.open = <<>>]
  BY Zenon DEF UploadRect, Asking, Recording, Leaves
<1>2. r.w \in SlotRecords /\ Holds(r) = Holds(Draw) \cup {asked + 1}
  BY <1>1, Before, DrawHolds, UpdateHolds
<1>3. /\ front' \in [open : Seq(Asks), isolated : BOOLEAN, dither : BOOLEAN]
      /\ front'.open = <<>>
  BY <1>1, Before
<1> HIDE DEF r
<1> QED
  BY <1>1, <1>2, <1>3, Before, DrawHolds, EmptySet, RecorderStep

(* The three that only close the open batch.                               *)
LEMMA FlushKeeps ==
  ASSUME IInv, SetDither \/ ReadRect \/ BuildUi PROVE IInv'
<1> DEFINE r == Draw
<1>1. /\ asked' = asked /\ UNCHANGED <<shared, replayer, drawn>>
      /\ slot' = [slot EXCEPT ![shared.write_idx] = r.w] /\ dropped' = r.lost
      /\ \/ recorder = "FIELD" /\ recorder' = "FIELD"
         \/ recorder = "FIELD" /\ recorder' = "READ"
         \/ recorder = "UI" /\ recorder' = "SUBMIT"
  BY DEF SetDither, ReadRect, BuildUi, Recording, Leaves
<1>2. /\ front' \in [open : Seq(Asks), isolated : BOOLEAN, dither : BOOLEAN]
      /\ front'.open = <<>>
  BY Before DEF SetDither, ReadRect, BuildUi, Leaves
<1>3. asked' \in asked .. MaxAsked /\ asked + 1 .. asked' = {}
  BY <1>1, Before
<1> HIDE DEF r
<1>4. r.w \in SlotRecords
      /\ Holds(r) = OwedBy(slot[shared.write_idx]) \cup dropped \cup ToSet(front.open)
  BY DrawHolds DEF r
<1> QED
  BY <1>1, <1>2, <1>3, <1>4, EmptySet, RecorderStep
-----------------------------------------------------------------------------
(* The steps that hand over: nothing is recorded and nothing drawn.        *)
LEMMA WakeMoves ==
  ASSUME Typed, replayer' = Wake("LOOP")
  PROVE  /\ replayer' \in [at : GpuStates, slot : FrameSlots]
         /\ replayer'.at \in {"SYNC", "REPLAY", "UI"} => replayer' = replayer
BY DEF Typed, Wake, GpuStates

LEMMA HandoverKeeps ==
  ASSUME IInv, UNCHANGED <<slot, asked, dropped, drawn, front>>,
         RequestSync \/ EndField \/ WaitFrameDone \/ SubmitFrame \/ StopThread
           \/ GpuLoop \/ SyncDone
  PROVE  IInv'
<1> DEFINE Shared == [write_idx : FrameSlots, frames_pending : 0 .. 1, sync : BOOLEAN,
                      sync_slot : FrameSlots, stop : BOOLEAN, sessions : Nat]
           Replayers == [at : GpuStates, slot : FrameSlots]
<1>1. Accounted'
  BY DEF IInv, Accounted, InHand
<1>2. Typed /\ Protocol /\ shared \in Shared /\ replayer \in Replayers
      /\ recorder \in EmuStates
  BY DEF IInv, Typed
<1>3. SUFFICES /\ shared' \in Shared /\ replayer' \in Replayers /\ recorder' \in EmuStates
               /\ Protocol'
  BY <1>1, <1>2 DEF IInv, Typed
<1>4. CASE RequestSync
  <2>1. CASE shared.frames_pending > 0
    BY <1>2, <1>4, <2>1 DEF Protocol, RequestSync, EmuStates
  <2>2. CASE shared.frames_pending = 0
    <3>1. /\ shared' = [shared EXCEPT !.sync = TRUE, !.sync_slot = shared.write_idx]
          /\ replayer' = Wake("LOOP") /\ recorder = "READ" /\ recorder' = "SYNC_ASLEEP"
      BY <1>4, <2>2 DEF RequestSync
    <3>2. /\ shared' \in Shared /\ shared'.sync /\ shared'.sync_slot = shared.write_idx
          /\ shared'.write_idx = shared.write_idx /\ shared'.frames_pending = 0
      BY <1>2, <2>2, <3>1
    <3>3. front.open = <<>> /\ replayer.at \notin {"SYNC", "REPLAY", "UI"}
      BY <1>2, <2>2, <3>1 DEF Protocol
    <3>4. replayer'.at \notin {"SYNC", "REPLAY", "UI"} /\ replayer' \in Replayers
      BY <1>2, <3>1, <3>3, WakeMoves
    <3> HIDE DEF Shared, Replayers
    <3>5. Protocol'
      BY <1>2, <2>2, <3>1, <3>2, <3>3, <3>4 DEF Protocol
    <3> QED
      BY <3>1, <3>2, <3>4, <3>5 DEF EmuStates
  <2> QED
    BY <1>2, <2>1, <2>2
<1>5. CASE EndField \/ WaitFrameDone
  <2>1. /\ shared' = shared /\ replayer' = replayer /\ slot' = slot /\ front' = front
        /\ recorder \in {"FIELD", "WAIT"} /\ recorder' \in {"WAIT", "WAIT_ASLEEP", "UI"}
        /\ recorder' = "UI" => ~(shared.frames_pending > 0)
    BY <1>5 DEF EndField, WaitFrameDone
  <2>2. shared.frames_pending \in 0 .. 1
    BY <1>2
  <2>3. recorder' = "UI" => shared.frames_pending = 0
    BY <2>1, <2>2
  <2> HIDE DEF Shared, Replayers
  <2>4. Protocol'
    BY <1>2, <2>1, <2>3 DEF Protocol
  <2> QED
    BY <1>2, <2>1, <2>4 DEF EmuStates
<1>6. CASE SubmitFrame
  <2>1. /\ shared' = [shared EXCEPT !.write_idx = 1 - @, !.frames_pending = 1]
        /\ replayer' = Wake("LOOP") /\ recorder = "SUBMIT" /\ recorder' = "FIELD"
        /\ shared.frames_pending = 0
    BY <1>2, <1>6 DEF SubmitFrame, Protocol
  <2>2. 1 - shared.write_idx \in FrameSlots
    <3>1. shared.write_idx \in FrameSlots
      BY <1>2
    <3> HIDE DEF Shared
    <3> QED
      BY <3>1 DEF FrameSlots
  <2>3. /\ shared' \in Shared /\ shared'.sync = shared.sync /\ shared'.frames_pending = 1
    <3> DEFINE other == 1 - shared.write_idx
    <3>1. other \in FrameSlots /\ 1 \in 0 .. 1
      BY <2>2
    <3>2. shared' = [shared EXCEPT !.write_idx = other, !.frames_pending = 1]
      BY <2>1
    <3>3. shared \in Shared
      BY <1>2
    <3> HIDE DEF other
    <3> QED
      BY <3>1, <3>2, <3>3
  <2>4. ~shared.sync /\ replayer.at \notin {"SYNC", "REPLAY", "UI"}
    BY <1>2, <2>1 DEF Protocol
  <2>5. replayer'.at \notin {"SYNC", "REPLAY", "UI"} /\ replayer' \in Replayers
    BY <1>2, <2>1, <2>4, WakeMoves
  <2> HIDE DEF Shared, Replayers
  <2>6. Protocol'
    BY <1>2, <2>1, <2>3, <2>4, <2>5 DEF Protocol
  <2> QED
    BY <2>1, <2>3, <2>5, <2>6 DEF EmuStates
<1>7. CASE StopThread
  <2>1. /\ shared' = [shared EXCEPT !.stop = TRUE]
        /\ replayer' = Wake("LOOP") /\ recorder = "FIELD" /\ recorder' = "JOIN"
    BY <1>7 DEF StopThread
  <2>2. /\ shared' \in Shared /\ shared'.sync = shared.sync
        /\ shared'.frames_pending = shared.frames_pending
        /\ shared'.write_idx = shared.write_idx /\ shared'.sync_slot = shared.sync_slot
    BY <1>2, <2>1
  <2>3. /\ replayer' \in Replayers
        /\ replayer'.at \in {"SYNC", "REPLAY", "UI"} => replayer' = replayer
    BY <1>2, <2>1, WakeMoves
  <2> HIDE DEF Shared, Replayers
  <2>4. Protocol'
    BY <1>2, <2>1, <2>2, <2>3 DEF Protocol
  <2> QED
    BY <2>1, <2>2, <2>3, <2>4 DEF EmuStates
<1>8. CASE GpuLoop
  <2>1. replayer' \in Replayers
    BY <1>2, <1>8 DEF GpuLoop, FrameSlots, GpuStates
  <2>2. shared' = shared /\ recorder' = recorder
    BY <1>8 DEF GpuLoop
  <2>3. Protocol'
    BY <1>2, <1>8 DEF Protocol, GpuLoop, FrameSlots
  <2> QED
    BY <1>2, <2>1, <2>2, <2>3
<1>9. CASE SyncDone
  <2>1. /\ replayer' \in Replayers /\ replayer'.at = "LOOP" /\ shared' \in Shared
        /\ recorder' = "FIELD" /\ ~shared'.sync
    BY <1>2, <1>9 DEF SyncDone, GpuStates, Protocol
  <2>2. Protocol'
    BY <1>2, <1>9 DEF Protocol, SyncDone
  <2> QED
    BY <2>1, <2>2 DEF EmuStates
<1> QED
  BY <1>4, <1>5, <1>6, <1>7, <1>8, <1>9

(* The slot whose frame is shown has been run to its end.                  *)
LEMMA ScanoutKeeps ==
  ASSUME IInv, Scanout PROVE IInv'
<1>1. Accounted'
  BY DEF IInv, Accounted, InHand, Scanout
<1>2. Typed'
  BY DEF IInv, Typed, Scanout, GpuStates
<1>3. slot[replayer.slot] \in SlotRecords
  BY DEF IInv, Typed
<1>4. OwedBy(slot[replayer.slot]) = {}
  BY <1>3, RunOut DEF Scanout, Replayed
<1>5. Protocol'
  BY <1>4 DEF IInv, Typed, Protocol, Scanout
<1> QED
  BY <1>1, <1>2, <1>5 DEF IInv

LEMMA FrameDoneKeeps ==
  ASSUME IInv, FrameDone PROVE IInv'
<1> USE EmptySlotOwesNothing
<1> DEFINE s == replayer.slot
<1>1. /\ s \in FrameSlots /\ s # shared.write_idx /\ OwedBy(slot[s]) = {}
      /\ slot \in [FrameSlots -> SlotRecords] /\ shared.write_idx \in FrameSlots
      /\ recorder \notin {"UI", "SUBMIT", "SYNC_ASLEEP"} /\ ~shared.sync
  BY DEF IInv, Typed, Protocol, FrameDone
<1>2. slot'[s] = EmptySlot /\ \A t \in FrameSlots : t # s => slot'[t] = slot[t]
  BY <1>1 DEF FrameDone
<1>3. Typed'
  <2>1. slot' \in [FrameSlots -> SlotRecords]
    BY <1>1 DEF FrameDone
  <2>2. recorder' \in EmuStates
    BY DEF IInv, Typed, FrameDone, Woken, EmuStates
  <2>3. /\ replayer' \in [at : GpuStates, slot : FrameSlots]
        /\ shared' \in [write_idx : FrameSlots, frames_pending : 0 .. 1, sync : BOOLEAN,
                        sync_slot : FrameSlots, stop : BOOLEAN, sessions : Nat]
    BY DEF IInv, Typed, FrameDone, GpuStates
  <2> QED
    BY <2>1, <2>2, <2>3 DEF IInv, Typed, FrameDone
<1>4. \A t \in FrameSlots : OwedBy(slot'[t]) = OwedBy(slot[t])
  BY <1>1, <1>2
<1>5. Accounted'
  BY <1>4 DEF IInv, Accounted, InHand, FrameDone, FrameSlots
<1>6. Protocol'
  BY <1>1, <1>2, <1>4 DEF IInv, Typed, Protocol, FrameDone, Woken, FrameSlots
<1> QED
  BY <1>3, <1>5, <1>6 DEF IInv

(* A new thread: what the slots held is lost, and said to be.              *)
LEMMA StartThreadKeeps ==
  ASSUME IInv, StartThread PROVE IInv'
<1> USE EmptySlotOwesNothing
<1>1. Typed'
  <2>1. slot' \in [FrameSlots -> SlotRecords]
    BY DEF StartThread
  <2>2. /\ replayer' \in [at : GpuStates, slot : FrameSlots] /\ recorder' \in EmuStates
    BY DEF StartThread, GpuStates, EmuStates, FrameSlots
  <2>3. shared.sessions + 1 \in Nat /\ 0 \in FrameSlots /\ 0 \in 0 .. 1
    BY DEF IInv, Typed, FrameSlots
  <2>4. shared' \in [write_idx : FrameSlots, frames_pending : 0 .. 1, sync : BOOLEAN,
                     sync_slot : FrameSlots, stop : BOOLEAN, sessions : Nat]
    BY <2>3 DEF IInv, Typed, StartThread
  <2> QED
    BY <2>1, <2>2, <2>4 DEF IInv, Typed, StartThread
<1>2. \A s \in FrameSlots : slot'[s] = EmptySlot
  BY DEF StartThread
<1>3. dropped' = dropped \cup OwedBy(slot[0]) \cup OwedBy(slot[1])
  <2>1. Unrun(0) = OwedBy(slot[0]) /\ Unrun(1) = OwedBy(slot[1])
    BY DEF Unrun, OwedBy
  <2>2. UNION {Unrun(s) : s \in FrameSlots} = Unrun(0) \cup Unrun(1)
    BY DEF FrameSlots
  <2> QED
    BY <2>1, <2>2 DEF StartThread
<1>4. InHand' = InHand
  BY <1>2, <1>3 DEF InHand, StartThread, FrameSlots
<1>5. Accounted'
  BY <1>4 DEF IInv, Accounted, StartThread
<1>6. Protocol'
  BY <1>2 DEF IInv, Protocol, StartThread, FrameSlots
<1> QED
  BY <1>1, <1>5, <1>6 DEF IInv

(* One op moves from its slot into VRAM.                                   *)
LEMMA RunOne ==
  ASSUME NEW w \in SlotRecords, w.exec_from < Len(w.ops)
  PROVE  LET i == w.exec_from + 1
             v == [w EXCEPT !.exec_from = w.exec_from + 1]
         IN /\ v \in SlotRecords /\ w.ops[i].items \in Seq(Asks)
            /\ OwedBy(w) = OwedBy(v) \cup ToSet(w.ops[i].items)
<1> DEFINE i == w.exec_from + 1
           v == [w EXCEPT !.exec_from = w.exec_from + 1]
<1>1. i \in 1 .. Len(w.ops) /\ w.exec_from \in Nat /\ Len(w.ops) \in Nat
  BY SlotType
<1>2. w.ops[i] \in Ops
  BY <1>1, SlotType
<1>3. v \in AnySlot /\ v.ops = w.ops /\ v.exec_from = i
  BY <1>1 DEF SlotRecords, AnySlot
<1>4. v \in SlotRecords
  <2> HIDE DEF v
  <2>1. v.exec_from <= Len(v.ops)
    BY <1>1, <1>3
  <2> QED
    BY <1>3, <2>1 DEF SlotRecords
<1>5. \A j : j \in w.exec_from + 1 .. Len(w.ops) <=> j \in v.exec_from + 1 .. Len(w.ops) \/ j = i
  BY <1>1, <1>3
<1> HIDE DEF v, i
<1>6. \A n : n \in OwedBy(w) <=> n \in OwedBy(v) \/ n \in ToSet(w.ops[i].items)
  BY <1>3, <1>5, OwedIff, Zenon
<1> QED
  BY <1>2, <1>4, <1>6 DEF Ops, v, i

LEMMA ReplayOpKeeps ==
  ASSUME IInv, ReplayOp PROVE IInv'
<1> DEFINE s == replayer.slot
           w == slot[s]
           v == [w EXCEPT !.exec_from = w.exec_from + 1]
           items == w.ops[w.exec_from + 1].items
<1>1. /\ s \in FrameSlots /\ w \in SlotRecords /\ slot \in [FrameSlots -> SlotRecords]
      /\ drawn \in Seq(Asks)
  BY DEF IInv, Typed
<1>2. w.exec_from < Len(w.ops) /\ drawn' = drawn \o items /\ replayer.at # "UI"
  BY DEF ReplayOp
<1>3. slot' = [slot EXCEPT ![s] = v]
  BY <1>1 DEF ReplayOp
<1>4. v \in SlotRecords /\ items \in Seq(Asks) /\ OwedBy(w) = OwedBy(v) \cup ToSet(items)
  BY <1>1, <1>2, RunOne
<1> HIDE DEF v, items
<1>5. drawn' \in Seq(Asks) /\ ToSet(drawn') = ToSet(drawn) \cup ToSet(items)
  BY <1>1, <1>2, <1>4, ConcatSet
<1>6. slot'[s] = v /\ \A t \in FrameSlots : t # s => slot'[t] = slot[t]
  BY <1>1, <1>3
<1>7. slot' \in [FrameSlots -> SlotRecords]
  BY <1>1, <1>3, <1>4
<1>8. UNCHANGED <<front, shared, recorder, replayer, asked, dropped>>
  BY DEF ReplayOp
<1>9. Typed'
  BY <1>5, <1>7, <1>8 DEF IInv, Typed
<1>10. \A t \in FrameSlots : OwedBy(slot'[t]) \subseteq OwedBy(slot[t])
  BY <1>4, <1>6
<1>11. Protocol'
  BY <1>2, <1>8, <1>10 DEF IInv, Typed, Protocol
<1>12. InHand = InHand' \cup ToSet(items)
  <2>1. CASE s = 0
    <3>1. slot'[0] = v /\ slot'[1] = slot[1] /\ slot[0] = w
      BY <1>6, <2>1 DEF FrameSlots
    <3> HIDE DEF w
    <3> QED
      BY <1>4, <1>8, <3>1 DEF InHand
  <2>2. CASE s = 1
    <3>1. slot'[1] = v /\ slot'[0] = slot[0] /\ slot[1] = w
      BY <1>6, <2>2 DEF FrameSlots
    <3> HIDE DEF w
    <3> QED
      BY <1>4, <1>8, <3>1 DEF InHand
  <2> QED
    BY <1>1, <2>1, <2>2 DEF FrameSlots
<1>13. Accounted'
  BY <1>5, <1>8, <1>12 DEF IInv, Accounted
<1> QED
  BY <1>9, <1>11, <1>13 DEF IInv

LEMMA NextIInv == IInv /\ [RenderNext]_render_vars => IInv'
<1> SUFFICES ASSUME IInv, [RenderNext]_render_vars PROVE IInv'
  OBVIOUS
<1>1. CASE Record
  BY <1>1, PushPrimitiveKeeps, PushLineKeeps, UploadRectKeeps, FlushKeeps DEF Record
<1>2. CASE ReadRect \/ BuildUi
  BY <1>2, FlushKeeps
<1>3. CASE EndField \/ StopThread \/ RequestSync \/ WaitFrameDone \/ SubmitFrame
             \/ GpuLoop \/ SyncDone
  <2>1. UNCHANGED <<slot, asked, dropped, drawn, front>>
    BY <1>3 DEF EndField, StopThread, RequestSync, WaitFrameDone, SubmitFrame, GpuLoop, SyncDone
  <2> QED
    BY <1>3, <2>1, HandoverKeeps
<1>4. CASE StartThread
  BY <1>4, StartThreadKeeps
<1>5. CASE ReplayOp
  BY <1>5, ReplayOpKeeps
<1>6. CASE Scanout
  BY <1>6, ScanoutKeeps
<1>7. CASE FrameDone
  BY <1>7, FrameDoneKeeps
<1>8. CASE UNCHANGED render_vars
  BY <1>8 DEF render_vars, IInv, Typed, Protocol, Accounted, InHand
<1> QED
  BY <1>1, <1>2, <1>3, <1>4, <1>5, <1>6, <1>7, <1>8 DEF RenderNext, HostStep, GpuStep

(* The emulation thread and the GPU thread never work on one frame slot at *)
(* a time, the user interface is built while none is drawn, and a readback *)
(* is answered when VRAM holds all that was asked for: for tables of any   *)
(* size and any number of draws and restarts (glr_submit_frame,            *)
(* glr_read_vram_rect, gpu_thread_main).                                   *)
THEOREM HandoversStayClean == RenderSpec => []HandoversAreClean
<1>1. RenderSpec => []IInv
  BY InitIInv, NextIInv, PTL DEF RenderSpec
<1> QED
  BY <1>1, IInvClean, PTL
-----------------------------------------------------------------------------
(* What is still to come is drawn in the order it was asked for: every     *)
(* batch and every slot is in that order, what VRAM has comes before what  *)
(* a slot owes, the read slot before the write slot, both before what is   *)
(* open.                                                                   *)
Increasing(s) == \A i, j \in 1 .. Len(s) : i < j => s[i] < s[j]
Ahead(A, B)   == \A a \in A, b \in B : a < b
InTurn(w) == \A i, j \in w.exec_from + 1 .. Len(w.ops) :
               /\ Increasing(w.ops[i].items)
               /\ i < j => Ahead(ToSet(w.ops[i].items), ToSet(w.ops[j].items))
Queue ==
  /\ Increasing(drawn) /\ ToSet(drawn) \subseteq 1 .. asked
  /\ Increasing(front.open)
  /\ \A s \in FrameSlots :
       /\ InTurn(slot[s])
       /\ Ahead(ToSet(drawn), OwedBy(slot[s]))
       /\ Ahead(OwedBy(slot[s]), ToSet(front.open))
       /\ s # shared.write_idx => Ahead(OwedBy(slot[s]), OwedBy(slot[shared.write_idx]))
  /\ Ahead(ToSet(drawn), ToSet(front.open))
-----------------------------------------------------------------------------
(* Order: of smaller sets, of unions, of longer sequences.                 *)
LEMMA AheadOfFewer ==
  ASSUME NEW A, NEW B, NEW C, NEW D, Ahead(A, B), C \subseteq A, D \subseteq B
  PROVE  Ahead(C, D)
BY Zenon DEF Ahead

LEMMA AheadOfBoth ==
  ASSUME NEW A, NEW B, NEW C
  PROVE  /\ Ahead(A, B) /\ Ahead(A, C) => Ahead(A, B \cup C)
         /\ Ahead(A, C) /\ Ahead(B, C) => Ahead(A \cup B, C)
BY Zenon DEF Ahead

LEMMA AheadOfNone == \A A : Ahead(A, {}) /\ Ahead({}, A)
BY Zenon DEF Ahead

LEMMA IncreasingAppend ==
  ASSUME NEW S, NEW s \in Seq(S), NEW e \in S, Increasing(s), Ahead(ToSet(s), {e})
  PROVE  Increasing(Append(s, e))
<1>1. /\ Len(Append(s, e)) = Len(s) + 1 /\ Len(s) \in Nat /\ DOMAIN s = 1 .. Len(s)
      /\ Append(s, e)[Len(s) + 1] = e
      /\ \A i \in 1 .. Len(s) : Append(s, e)[i] = s[i]
  OBVIOUS
<1>2. \A i \in 1 .. Len(s) : s[i] < e
  BY <1>1, Zenon DEF Ahead, ToSet
<1>3. SUFFICES ASSUME NEW i \in 1 .. Len(s) + 1, NEW j \in 1 .. Len(s) + 1, i < j
               PROVE  Append(s, e)[i] < Append(s, e)[j]
  BY <1>1 DEF Increasing
<1>4. i \in 1 .. Len(s)
  BY <1>1, <1>3
<1>5. CASE j \in 1 .. Len(s)
  BY <1>1, <1>3, <1>4, <1>5 DEF Increasing
<1>6. CASE j = Len(s) + 1
  BY <1>1, <1>2, <1>4, <1>6
<1> QED
  BY <1>1, <1>5, <1>6

LEMMA IncreasingConcat ==
  ASSUME NEW S, NEW s \in Seq(S), NEW t \in Seq(S), Increasing(s), Increasing(t),
         Ahead(ToSet(s), ToSet(t))
  PROVE  Increasing(s \o t)
<1>1. /\ Len(s \o t) = Len(s) + Len(t) /\ Len(s) \in Nat /\ Len(t) \in Nat
      /\ DOMAIN s = 1 .. Len(s) /\ DOMAIN t = 1 .. Len(t)
      /\ \A i \in 1 .. Len(s) : (s \o t)[i] = s[i]
      /\ \A i \in 1 .. Len(t) : (s \o t)[Len(s) + i] = t[i]
  OBVIOUS
<1>2. \A i \in 1 .. Len(s), j \in 1 .. Len(t) : s[i] < t[j]
  BY <1>1, Zenon DEF Ahead, ToSet
<1>3. SUFFICES ASSUME NEW i \in 1 .. Len(s) + Len(t), NEW j \in 1 .. Len(s) + Len(t), i < j
               PROVE  (s \o t)[i] < (s \o t)[j]
  BY <1>1 DEF Increasing
<1> DEFINE k == i - Len(s)
           l == j - Len(s)
<1>4. \A m \in 1 .. Len(s) + Len(t) :
        m \in 1 .. Len(s) \/ (m - Len(s) \in 1 .. Len(t) /\ m = Len(s) + (m - Len(s)))
  BY <1>1
<1>5. CASE j \in 1 .. Len(s)
  <2>1. i \in 1 .. Len(s)
    BY <1>1, <1>3, <1>5
  <2> QED
    BY <1>1, <1>3, <1>5, <2>1 DEF Increasing
<1>6. CASE i \in 1 .. Len(s) /\ l \in 1 .. Len(t) /\ j = Len(s) + l
  <2> HIDE DEF l
  <2> QED
    BY <1>1, <1>2, <1>6
<1>7. CASE k \in 1 .. Len(t) /\ l \in 1 .. Len(t) /\ i = Len(s) + k /\ j = Len(s) + l
  <2>1. k < l
    BY <1>1, <1>3
  <2>2. t[k] < t[l]
    BY <1>7, <2>1 DEF Increasing
  <2> HIDE DEF k, l
  <2> QED
    BY <1>1, <1>7, <2>2
<1>8. CASE k \in 1 .. Len(t) /\ i = Len(s) + k /\ j \in 1 .. Len(s)
  BY <1>5, <1>8
<1> QED
  BY <1>4, <1>5, <1>6, <1>7

LEMMA IncreasingOne == \A n : Increasing(<<n>>) /\ Increasing(<<>>)
BY DEF Increasing

LEMMA OneItem == \A n : ToSet(<<n>>) = {n}
BY DEF ToSet
-----------------------------------------------------------------------------
(* Slots stay in turn when what is recorded comes after what they owe.     *)
LEMMA InTurnAlike ==
  ASSUME NEW w, NEW v, v.ops = w.ops, v.exec_from = w.exec_from, InTurn(w)
  PROVE  InTurn(v)
BY DEF InTurn

LEMMA RecordOpInTurn ==
  ASSUME NEW w \in SlotRecords, NEW op \in Ops, InTurn(w), Increasing(op.items),
         Ahead(OwedBy(w), ToSet(op.items))
  PROVE  InTurn(RecordOp(w, op))
<1> DEFINE v == RecordOp(w, op)
           m == Len(w.ops)
           e == w.exec_from
<1>1. v.ops = Append(w.ops, op) /\ v.exec_from = e
  BY SlotType DEF RecordOp, SlotRecords, AnySlot
<1>2. /\ Len(v.ops) = m + 1 /\ v.ops[m + 1] = op /\ m \in Nat /\ e \in 0 .. m
      /\ \A i \in 1 .. m : v.ops[i] = w.ops[i]
  BY <1>1, SlotType
<1> HIDE DEF v
<1>3. SUFFICES ASSUME NEW i \in e + 1 .. m + 1, NEW j \in e + 1 .. m + 1
               PROVE  /\ Increasing(v.ops[i].items)
                      /\ i < j => Ahead(ToSet(v.ops[i].items), ToSet(v.ops[j].items))
  BY <1>1, <1>2 DEF InTurn, v
<1>4. \A k \in e + 1 .. m : Ahead(ToSet(w.ops[k].items), ToSet(op.items))
  BY OwedIff, Zenon DEF Ahead
<1>5. \A k \in e + 1 .. m : v.ops[k] = w.ops[k]
  BY <1>2
<1>6. \A k \in e + 1 .. m + 1 : k \in e + 1 .. m \/ k = m + 1
  BY <1>2
<1>7. Increasing(v.ops[i].items)
  BY <1>2, <1>5, <1>6, Zenon DEF InTurn
<1>8. ASSUME i < j PROVE Ahead(ToSet(v.ops[i].items), ToSet(v.ops[j].items))
  <2>1. i \in e + 1 .. m
    BY <1>2, <1>8
  <2>2. CASE j \in e + 1 .. m
    BY <1>5, <1>8, <2>1, <2>2, Zenon DEF InTurn
  <2>3. CASE j = m + 1
    BY <1>2, <1>4, <1>5, <2>1, <2>3, Zenon
  <2> QED
    BY <1>6, <2>2, <2>3
<1> QED
  BY <1>7, <1>8

LEMMA CloseInTurn ==
  ASSUME NEW w \in SlotRecords, NEW lost, NEW open \in Seq(Asks), front.dither \in BOOLEAN,
         InTurn(w), Increasing(open), Ahead(OwedBy(w), ToSet(open))
  PROVE  LET r == Close(Recorded(w, lost), open)
         IN InTurn(r.w) /\ OwedBy(r.w) \subseteq OwedBy(w) \cup ToSet(open)
<1> DEFINE r  == Close(Recorded(w, lost), open)
           op == Batch(open, FALSE)
           v  == RecordOp(w, op)
           full == w.batches >= MaxBatches \/ w.vertices + Len(open) > MaxVertices
<1>1. CASE open = <<>> \/ full
  <2>1. r.w = w
    BY <1>1 DEF Close, Recorded
  <2> QED
    BY <2>1
<1>2. CASE ~(open = <<>> \/ full)
  <2>1. r.w = [v EXCEPT !.batches = @ + 1, !.vertices = @ + Len(open)]
    <3>1. r = Recorded([v EXCEPT !.batches = @ + 1, !.vertices = @ + Len(open)], lost)
      BY <1>2, Zenon DEF Close, Recorded
    <3> QED
      BY <3>1 DEF Recorded
  <2>2. op \in Ops /\ op.items = open
    BY DEF Batch, Ops
  <2>3. v \in SlotRecords /\ OwedBy(v) = OwedBy(w) \cup ToSet(open)
    BY <2>2, RecordOpOwes
  <2>4. InTurn(v)
    BY <2>2, RecordOpInTurn
  <2>5. r.w.ops = v.ops /\ r.w.exec_from = v.exec_from
    <3> HIDE DEF v
    <3> QED
      BY <2>1, <2>3 DEF SlotRecords, AnySlot
  <2> QED
    BY <2>3, <2>4, <2>5, OwedAlike, InTurnAlike
<1> QED
  BY <1>1, <1>2

LEMMA UpdateInTurn ==
  ASSUME NEW r, r.w \in SlotRecords, NEW n \in Asks, InTurn(r.w), Ahead(OwedBy(r.w), {n})
  PROVE  LET q == RecordVramUpdate(r, n)
         IN InTurn(q.w) /\ OwedBy(q.w) \subseteq OwedBy(r.w) \cup {n}
<1> DEFINE q == RecordVramUpdate(r, n)
           v == RecordOp(r.w, Update(n))
<1>1. CASE r.w.updates >= MaxUpdates
  BY <1>1 DEF RecordVramUpdate, Recorded
<1>2. CASE ~(r.w.updates >= MaxUpdates)
  <2>1. Update(n) \in Ops /\ ToSet(Update(n).items) = {n} /\ Increasing(Update(n).items)
    BY IncreasingOne, OneItem DEF Update, Ops
  <2>2. v \in SlotRecords /\ OwedBy(v) = OwedBy(r.w) \cup {n} /\ InTurn(v)
    BY <2>1, RecordOpOwes, RecordOpInTurn
  <2>3. q.w = [v EXCEPT !.updates = @ + 1]
    BY <1>2 DEF RecordVramUpdate, Recorded
  <2>4. q.w.ops = v.ops /\ q.w.exec_from = v.exec_from
    <3> HIDE DEF v
    <3> QED
      BY <2>2, <2>3 DEF SlotRecords, AnySlot
  <2> QED
    BY <2>2, <2>4, OwedAlike, InTurnAlike
<1> QED
  BY <1>1, <1>2

LEMMA ExtendedInTurn ==
  ASSUME NEW w \in SlotRecords, NEW n \in Asks, Extendable(w), InTurn(w), Ahead(OwedBy(w), {n})
  PROVE  InTurn(Extended(w, n))
<1> DEFINE m  == Len(w.ops)
           op == w.ops[m]
           v  == Extended(w, n)
           e  == w.exec_from
<1>1. m \in Nat \ {0} /\ e \in Nat /\ e < m /\ op \in Ops
  BY SlotType DEF Extendable
<1>2. op.items \in Seq(Asks)
  BY <1>1 DEF Ops
<1>3. Append(op.items, n) \in Seq(Asks) /\ ToSet(Append(op.items, n)) = ToSet(op.items) \cup {n}
  BY <1>2, AppendSet
<1>4. v = [w EXCEPT !.ops = [w.ops EXCEPT ![m] = [op EXCEPT !.items = Append(op.items, n)]],
                    !.vertices = w.vertices + 1]
  BY DEF Extended
<1>5. v.ops = [w.ops EXCEPT ![m] = [op EXCEPT !.items = Append(op.items, n)]] /\ v.exec_from = e
  BY <1>4, SlotType DEF SlotRecords, AnySlot
<1>6. /\ Len(v.ops) = m /\ \A i \in 1 .. m : i # m => v.ops[i] = w.ops[i]
      /\ v.ops[m].items = Append(op.items, n)
  BY <1>1, <1>5, SlotType DEF Ops
<1>7. m \in e + 1 .. m /\ \A i \in e + 1 .. m : i \in 1 .. m
  BY <1>1
<1>8. \A i \in e + 1 .. m : Ahead(ToSet(w.ops[i].items), {n})
  BY OwedIff, Zenon DEF Ahead
<1>9. Increasing(op.items) /\ Ahead(ToSet(op.items), {n})
  BY <1>7, <1>8, Zenon DEF InTurn
<1>10. Increasing(v.ops[m].items)
  BY <1>2, <1>6, <1>9, IncreasingAppend
<1> HIDE DEF v
<1>11. SUFFICES ASSUME NEW i \in e + 1 .. m, NEW j \in e + 1 .. m
                PROVE  /\ Increasing(v.ops[i].items)
                       /\ i < j => Ahead(ToSet(v.ops[i].items), ToSet(v.ops[j].items))
  BY <1>5, <1>6 DEF InTurn, v
<1>12. Increasing(v.ops[i].items)
  BY <1>6, <1>7, <1>10, Zenon DEF InTurn
<1>13. ASSUME i < j PROVE Ahead(ToSet(v.ops[i].items), ToSet(v.ops[j].items))
  <2>1. i # m
    BY <1>1, <1>13
  <2>2. Ahead(ToSet(w.ops[i].items), ToSet(w.ops[j].items))
    BY <1>13, Zenon DEF InTurn
  <2>3. CASE j # m
    BY <1>6, <1>7, <2>1, <2>2, <2>3, Zenon
  <2>4. CASE j = m
    <3>1. Ahead(ToSet(w.ops[i].items), ToSet(op.items) \cup {n})
      BY <1>8, <2>2, <2>4, AheadOfBoth
    <3> QED
      BY <1>3, <1>6, <1>7, <2>1, <2>4, <3>1, Zenon
  <2> QED
    BY <2>3, <2>4
<1> QED
  BY <1>12, <1>13

LEMMA LinedInTurn ==
  ASSUME NEW r, r.w \in SlotRecords, NEW n \in Asks, front.dither \in BOOLEAN,
         InTurn(r.w), Ahead(OwedBy(r.w), {n})
  PROVE  LET q == Lined(r, n)
         IN InTurn(q.w) /\ OwedBy(q.w) \subseteq OwedBy(r.w) \cup {n}
<1> DEFINE w == r.w
           q == Lined(r, n)
           v == RecordOp(w, Batch(<<n>>, TRUE))
<1>1. CASE w.vertices + 1 > MaxVertices
           \/ (~(w.vertices + 1 > MaxVertices) /\ ~Extendable(w) /\ w.batches >= MaxBatches)
  <2>1. q.w = w
    BY <1>1 DEF Lined, Recorded
  <2> QED
    BY <2>1
<1>2. CASE ~(w.vertices + 1 > MaxVertices) /\ Extendable(w)
  <2>1. q.w = Extended(w, n)
    BY <1>2 DEF Lined, Recorded
  <2>2. w.vertices + 1 <= MaxVertices
    BY <1>2, SlotType, RenderLimits
  <2> QED
    BY <1>2, <2>1, <2>2, ExtendedHolds, ExtendedInTurn
<1>3. CASE ~(w.vertices + 1 > MaxVertices) /\ ~Extendable(w) /\ ~(w.batches >= MaxBatches)
  <2>1. q.w = [v EXCEPT !.batches = @ + 1, !.vertices = @ + 1]
    <3>1. q = Recorded([v EXCEPT !.batches = @ + 1, !.vertices = @ + 1], r.lost)
      BY <1>3, Zenon DEF Lined
    <3> QED
      BY <3>1 DEF Recorded
  <2>2. Batch(<<n>>, TRUE) \in Ops /\ Batch(<<n>>, TRUE).items = <<n>>
    BY DEF Batch, Ops
  <2> DEFINE op == Batch(<<n>>, TRUE)
  <2>a. op \in Ops /\ ToSet(op.items) = {n} /\ Increasing(op.items)
    BY <2>2, OneItem, IncreasingOne
  <2> HIDE DEF op
  <2>b. RecordOp(w, op) \in SlotRecords /\ OwedBy(RecordOp(w, op)) = OwedBy(w) \cup {n}
    BY <2>a, RecordOpOwes
  <2>c. InTurn(RecordOp(w, op))
    BY <2>a, RecordOpInTurn
  <2>3. v \in SlotRecords /\ OwedBy(v) = OwedBy(w) \cup {n} /\ InTurn(v)
    BY <2>b, <2>c DEF op
  <2>4. q.w.ops = v.ops /\ q.w.exec_from = v.exec_from
    <3> HIDE DEF v
    <3> QED
      BY <2>1, <2>3 DEF SlotRecords, AnySlot
  <2> QED
    BY <2>3, <2>4, OwedAlike, InTurnAlike
<1> QED
  BY <1>1, <1>2, <1>3
-----------------------------------------------------------------------------
(* What every recorder does to the order.                                  *)
LEMMA RecorderQueues ==
  ASSUME IInv, Queue, NEW w, InTurn(w),
         slot' = [slot EXCEPT ![shared.write_idx] = w],
         asked' \in asked .. MaxAsked, Increasing(front'.open),
         OwedBy(w) \cup ToSet(front'.open)
           \subseteq OwedBy(slot[shared.write_idx]) \cup ToSet(front.open) \cup (asked + 1 .. asked'),
         Ahead(OwedBy(w), ToSet(front'.open)),
         UNCHANGED <<shared, drawn>>
  PROVE  Queue'
<1> DEFINE x == shared.write_idx
           New == asked + 1 .. asked'
           Rest == OwedBy(slot[x]) \cup ToSet(front.open) \cup New
<1>1. x \in FrameSlots /\ asked \in Nat /\ asked' \in Nat /\ asked <= asked' /\ slot \in [FrameSlots -> SlotRecords]
  BY RenderLimits DEF IInv, Typed
<1>2. slot'[x] = w /\ \A s \in FrameSlots : s # x => slot'[s] = slot[s]
  BY <1>1
<1>3. \A A : A \subseteq 1 .. asked => Ahead(A, New)
  BY <1>1 DEF Ahead
<1>4. ToSet(drawn) \subseteq 1 .. asked /\ \A s \in FrameSlots : OwedBy(slot[s]) \subseteq 1 .. asked
  BY DEF IInv, Accounted, InHand, Queue, FrameSlots
<1>5. Ahead(ToSet(drawn), Rest)
  <2>1. Ahead(ToSet(drawn), OwedBy(slot[x])) /\ Ahead(ToSet(drawn), ToSet(front.open))
        /\ Ahead(ToSet(drawn), New)
    BY <1>1, <1>3, <1>4 DEF Queue
  <2> QED
    BY <2>1, AheadOfBoth, Zenon
<1>6. \A s \in FrameSlots : s # x => Ahead(OwedBy(slot[s]), Rest)
  <2> TAKE s \in FrameSlots
  <2> HAVE s # x
  <2>1. Ahead(OwedBy(slot[s]), OwedBy(slot[x])) /\ Ahead(OwedBy(slot[s]), ToSet(front.open))
        /\ Ahead(OwedBy(slot[s]), New)
    BY <1>1, <1>3, <1>4 DEF Queue
  <2> QED
    BY <2>1, AheadOfBoth, Zenon
<1> HIDE DEF Rest, New
<1>7. OwedBy(w) \subseteq Rest /\ ToSet(front'.open) \subseteq Rest
  BY DEF Rest, New
<1>8. Ahead(ToSet(drawn), OwedBy(w)) /\ Ahead(ToSet(drawn), ToSet(front'.open))
  BY <1>5, <1>7, AheadOfFewer, Zenon
<1>9. \A s \in FrameSlots : s # x =>
        Ahead(OwedBy(slot[s]), OwedBy(w)) /\ Ahead(OwedBy(slot[s]), ToSet(front'.open))
  BY <1>6, <1>7, AheadOfFewer, Zenon
<1>10. \A s \in FrameSlots :
         /\ InTurn(slot'[s])
         /\ Ahead(ToSet(drawn'), OwedBy(slot'[s]))
         /\ Ahead(OwedBy(slot'[s]), ToSet(front'.open))
         /\ s # shared'.write_idx => Ahead(OwedBy(slot'[s]), OwedBy(slot'[shared'.write_idx]))
  <2> TAKE s \in FrameSlots
  <2>1. CASE s = x
    BY <1>2, <1>8, <2>1
  <2>2. CASE s # x
    BY <1>2, <1>9, <2>2 DEF Queue
  <2> QED
    BY <2>1, <2>2
<1>11. ToSet(drawn') \subseteq 1 .. asked'
  BY <1>1, <1>4
<1> QED
  BY <1>8, <1>10, <1>11 DEF Queue

(* The write slot and the open batch, as every recorder finds them.        *)
LEMMA QueueBefore ==
  ASSUME IInv, Queue
  PROVE  /\ InTurn(slot[shared.write_idx]) /\ Increasing(front.open)
         /\ Ahead(OwedBy(slot[shared.write_idx]), ToSet(front.open))
         /\ OwedBy(slot[shared.write_idx]) \cup ToSet(front.open) \subseteq 1 .. asked
         /\ \A A : A \subseteq 1 .. asked => Ahead(A, {asked + 1})
<1>1. shared.write_idx \in FrameSlots /\ asked \in Nat
  BY RenderLimits DEF IInv, Typed
<1>2. OwedBy(slot[shared.write_idx]) \cup ToSet(front.open) \subseteq 1 .. asked
  BY <1>1 DEF IInv, Accounted, InHand, FrameSlots
<1>3. \A A : A \subseteq 1 .. asked => Ahead(A, {asked + 1})
  BY <1>1 DEF Ahead
<1> QED
  BY <1>1, <1>2, <1>3 DEF Queue

LEMMA DrawQueues ==
  ASSUME IInv, Queue
  PROVE  /\ InTurn(Draw.w) /\ Draw.w \in SlotRecords
         /\ OwedBy(Draw.w) \subseteq OwedBy(slot[shared.write_idx]) \cup ToSet(front.open)
<1>1. front.dither \in BOOLEAN /\ slot[shared.write_idx] \in SlotRecords /\ front.open \in Seq(Asks)
  BY DEF IInv, Typed
<1> QED
  BY <1>1, QueueBefore, DrawHolds, CloseInTurn DEF Draw

LEMMA PushPrimitiveQueues ==
  ASSUME IInv, Queue, NEW own \in BOOLEAN, PushPrimitive(own) PROVE Queue'
<1> DEFINE close == own \/ front.isolated \/ Len(front.open) >= MaxVertices
           base  == Recorded(slot[shared.write_idx], dropped)
           w     == IF close THEN Draw.w ELSE slot[shared.write_idx]
           rest  == IF close THEN <<>> ELSE front.open
           n     == asked + 1
<1>1. /\ asked < MaxAsked /\ asked' = n /\ UNCHANGED <<shared, drawn>>
      /\ slot' = [slot EXCEPT ![shared.write_idx] = w]
      /\ front' = [front EXCEPT !.isolated = own, !.open = Append(rest, n)]
  BY DEF PushPrimitive, Asking, Recording, Recorded
<1>2. rest \in Seq(Asks) /\ n \in Asks /\ n \in asked .. MaxAsked /\ asked + 1 .. n = {n}
  BY <1>1, Before
<1>3. front'.open = Append(rest, n)
  <2> HIDE DEF rest
  <2> QED
    BY <1>1, Before
<1>4. /\ InTurn(w) /\ Increasing(rest) /\ Ahead(OwedBy(w), ToSet(rest))
      /\ OwedBy(w) \cup ToSet(rest) \subseteq OwedBy(slot[shared.write_idx]) \cup ToSet(front.open)
  <2>1. CASE close
    BY <2>1, DrawQueues, EmptySet, IncreasingOne, AheadOfNone
  <2>2. CASE ~close
    BY <2>2, QueueBefore
  <2> QED
    BY <2>1, <2>2
<1> HIDE DEF w, rest
<1>5. Ahead(OwedBy(w), {n}) /\ Ahead(ToSet(rest), {n})
  BY <1>4, QueueBefore
<1>6. Increasing(Append(rest, n)) /\ ToSet(Append(rest, n)) = ToSet(rest) \cup {n}
  BY <1>2, <1>4, <1>5, IncreasingAppend, AppendSet
<1> HIDE DEF n
<1>7. Ahead(OwedBy(w), ToSet(Append(rest, n)))
  <2>1. Ahead(OwedBy(w), ToSet(rest) \cup {n})
    BY <1>4, <1>5, AheadOfBoth
  <2> QED
    BY <1>6, <2>1
<1> QED
  BY <1>1, <1>2, <1>3, <1>4, <1>6, <1>7, RecorderQueues

LEMMA PushLineQueues ==
  ASSUME IInv, Queue, PushLine PROVE Queue'
<1> DEFINE n == asked + 1
           w == Lined(Draw, n).w
<1>1. /\ asked < MaxAsked /\ asked' = n /\ UNCHANGED <<shared, drawn>>
      /\ slot' = [slot EXCEPT ![shared.write_idx] = w]
      /\ front' = [front EXCEPT !.open = <<>>]
  BY Zenon DEF PushLine, Asking, Recording, Leaves, Lined
<1>2. n \in Asks /\ n \in asked .. MaxAsked /\ asked + 1 .. n = {n} /\ front.dither \in BOOLEAN
  BY <1>1, Before
<1>3. front'.open = <<>>
  BY <1>1, Before
<1>4. Ahead(OwedBy(Draw.w), {n})
  BY DrawQueues, QueueBefore
<1>5. InTurn(w) /\ OwedBy(w) \subseteq OwedBy(Draw.w) \cup {n}
  BY <1>2, <1>4, DrawQueues, LinedInTurn
<1> HIDE DEF w, n
<1> QED
  BY <1>1, <1>2, <1>3, <1>5, DrawQueues, EmptySet, IncreasingOne, AheadOfNone, RecorderQueues

LEMMA UploadRectQueues ==
  ASSUME IInv, Queue, UploadRect PROVE Queue'
<1> DEFINE n == asked + 1
           w == RecordVramUpdate(Draw, n).w
<1>1. /\ asked < MaxAsked /\ asked' = n /\ UNCHANGED <<shared, drawn>>
      /\ slot' = [slot EXCEPT ![shared.write_idx] = w]
      /\ front' = [front EXCEPT !.open = <<>>]
  BY Zenon DEF UploadRect, Asking, Recording, Leaves
<1>2. n \in Asks /\ n \in asked .. MaxAsked /\ asked + 1 .. n = {n}
  BY <1>1, Before
<1>3. front'.open = <<>>
  BY <1>1, Before
<1>4. Ahead(OwedBy(Draw.w), {n})
  BY DrawQueues, QueueBefore
<1>5. InTurn(w) /\ OwedBy(w) \subseteq OwedBy(Draw.w) \cup {n}
  BY <1>2, <1>4, DrawQueues, UpdateInTurn
<1> HIDE DEF w, n
<1> QED
  BY <1>1, <1>2, <1>3, <1>5, DrawQueues, EmptySet, IncreasingOne, AheadOfNone, RecorderQueues

LEMMA FlushQueues ==
  ASSUME IInv, Queue, SetDither \/ ReadRect \/ BuildUi PROVE Queue'
<1> DEFINE w == Draw.w
<1>1. /\ asked' = asked /\ UNCHANGED <<shared, drawn>>
      /\ slot' = [slot EXCEPT ![shared.write_idx] = w]
  BY DEF SetDither, ReadRect, BuildUi, Recording, Leaves
<1>2. front'.open = <<>>
  BY Before DEF SetDither, ReadRect, BuildUi, Leaves
<1>3. asked' \in asked .. MaxAsked
  BY <1>1, Before
<1>4. InTurn(w) /\ OwedBy(w) \subseteq OwedBy(slot[shared.write_idx]) \cup ToSet(front.open)
  BY DrawQueues
<1> HIDE DEF w
<1> QED
  BY <1>1, <1>2, <1>3, <1>4, EmptySet, IncreasingOne, AheadOfNone, RecorderQueues
-----------------------------------------------------------------------------
(* The hand-over: the read slot owes nothing when the slots trade places.  *)
LEMMA HandoverQueues ==
  ASSUME IInv, Queue, UNCHANGED <<slot, asked, drawn, front>>,
         \/ shared'.write_idx = shared.write_idx
         \/ SubmitFrame
  PROVE  Queue'
<1>1. CASE shared'.write_idx = shared.write_idx
  BY <1>1 DEF Queue
<1>2. CASE SubmitFrame /\ shared'.write_idx # shared.write_idx
  <2>1. shared' = [shared EXCEPT !.write_idx = 1 - @, !.frames_pending = 1]
        /\ shared.frames_pending = 0
    BY <1>2 DEF SubmitFrame, IInv, Typed, Protocol
  <2>2. shared'.write_idx \in FrameSlots
    <3>1. shared.write_idx \in FrameSlots /\ shared'.write_idx = 1 - shared.write_idx
      BY <2>1 DEF IInv, Typed
    <3> QED
      BY <3>1 DEF FrameSlots
  <2>3. OwedBy(slot[shared'.write_idx]) = {}
    BY <1>2, <2>1, <2>2 DEF IInv, Protocol
  <2>4. \A s \in FrameSlots : Ahead(OwedBy(slot[s]), OwedBy(slot[shared'.write_idx]))
    BY <2>3, AheadOfNone
  <2> QED
    BY <2>4 DEF Queue
<1> QED
  BY <1>1, <1>2

LEMMA EmptySlotInTurn == InTurn(EmptySlot)
BY DEF EmptySlot, InTurn

LEMMA FrameDoneQueues ==
  ASSUME IInv, Queue, FrameDone PROVE Queue'
<1> DEFINE s == replayer.slot
<1>1. /\ s \in FrameSlots /\ slot \in [FrameSlots -> SlotRecords] /\ OwedBy(slot[s]) = {}
      /\ shared.write_idx \in FrameSlots
  BY DEF IInv, Typed, Protocol, FrameDone
<1>2. slot'[s] = EmptySlot /\ \A t \in FrameSlots : t # s => slot'[t] = slot[t]
  BY <1>1 DEF FrameDone
<1>3. /\ shared'.write_idx = shared.write_idx /\ front' = front /\ drawn' = drawn
      /\ asked' = asked
  BY DEF FrameDone, IInv, Typed
<1>4. \A t \in FrameSlots : InTurn(slot'[t]) /\ OwedBy(slot'[t]) = OwedBy(slot[t])
  BY <1>1, <1>2, EmptySlotInTurn, EmptySlotOwesNothing DEF Queue
<1> QED
  BY <1>1, <1>3, <1>4 DEF Queue

LEMMA StartThreadQueues ==
  ASSUME IInv, Queue, StartThread PROVE Queue'
<1>1. \A s \in FrameSlots : InTurn(slot'[s]) /\ OwedBy(slot'[s]) = {}
  BY EmptySlotInTurn, EmptySlotOwesNothing DEF StartThread
<1>2. shared'.write_idx \in FrameSlots /\ UNCHANGED <<front, asked, drawn>>
  BY DEF StartThread, FrameSlots, IInv, Typed
<1> QED
  BY <1>1, <1>2, AheadOfNone DEF Queue

(* One op is run: it is the oldest of what is still to come.               *)
LEMMA RunOneInTurn ==
  ASSUME NEW w \in SlotRecords, w.exec_from < Len(w.ops), InTurn(w)
  PROVE  LET i == w.exec_from + 1
             v == [w EXCEPT !.exec_from = w.exec_from + 1]
         IN /\ InTurn(v) /\ Increasing(w.ops[i].items)
            /\ Ahead(ToSet(w.ops[i].items), OwedBy(v))
<1> DEFINE i == w.exec_from + 1
           v == [w EXCEPT !.exec_from = w.exec_from + 1]
<1>1. i \in Nat /\ w.exec_from \in Nat /\ Len(w.ops) \in Nat /\ i \in i .. Len(w.ops)
  BY SlotType
<1>2. v.ops = w.ops /\ v.exec_from = i
  BY <1>1 DEF SlotRecords, AnySlot
<1>3. \A j \in i + 1 .. Len(w.ops) : j \in i .. Len(w.ops) /\ i < j
  BY <1>1
<1> HIDE DEF v
<1>4. InTurn(v)
  BY <1>2, <1>3 DEF InTurn
<1>5. \A j \in i + 1 .. Len(w.ops) : Ahead(ToSet(w.ops[i].items), ToSet(w.ops[j].items))
  BY <1>1, <1>3 DEF InTurn
<1>6. Ahead(ToSet(w.ops[i].items), OwedBy(v))
  BY <1>2, <1>5, OwedIff, Zenon DEF Ahead
<1> QED
  BY <1>1, <1>4, <1>6 DEF InTurn, v

LEMMA ReplayOpQueues ==
  ASSUME IInv, Queue, ReplayOp PROVE Queue'
<1> DEFINE s == replayer.slot
           w == slot[s]
           v == [w EXCEPT !.exec_from = w.exec_from + 1]
           items == w.ops[w.exec_from + 1].items
<1>1. /\ s \in FrameSlots /\ w \in SlotRecords /\ slot \in [FrameSlots -> SlotRecords]
      /\ drawn \in Seq(Asks) /\ shared.write_idx \in FrameSlots
  BY DEF IInv, Typed
<1>2. /\ w.exec_from < Len(w.ops) /\ drawn' = drawn \o items
      /\ UNCHANGED <<front, shared, asked>>
  BY DEF ReplayOp
<1>3. slot' = [slot EXCEPT ![s] = v]
  BY <1>1 DEF ReplayOp
<1>4. v \in SlotRecords /\ items \in Seq(Asks) /\ OwedBy(w) = OwedBy(v) \cup ToSet(items)
  BY <1>1, <1>2, RunOne
<1>5. InTurn(v) /\ Increasing(items) /\ Ahead(ToSet(items), OwedBy(v))
  BY <1>1, <1>2, RunOneInTurn DEF Queue
(* Whatever is not in this slot comes after it. *)
<1>6. \A t \in FrameSlots : t # s => Ahead(OwedBy(w), OwedBy(slot[t]))
  <2>1. CASE s = shared.write_idx
    <3>1. shared.frames_pending = 0
      BY <2>1 DEF ReplayOp, IInv, Protocol
    <3>2. \A t \in FrameSlots : t # s => OwedBy(slot[t]) = {}
      BY <2>1, <3>1 DEF IInv, Protocol
    <3> QED
      BY <3>2, AheadOfNone
  <2>2. CASE s # shared.write_idx
    <3>1. \A t \in FrameSlots : t # s => t = shared.write_idx
      BY <1>1, <2>2 DEF FrameSlots
    <3> QED
      BY <1>1, <2>2, <3>1 DEF Queue
  <2> QED
    BY <2>1, <2>2
<1>7. slot'[s] = v /\ \A t \in FrameSlots : t # s => slot'[t] = slot[t]
  BY <1>1, <1>3
<1>8. /\ Ahead(ToSet(drawn), OwedBy(w)) /\ Ahead(OwedBy(w), ToSet(front.open))
      /\ Increasing(drawn)
  BY <1>1 DEF Queue
<1> HIDE DEF v, items
<1>9. ToSet(items) \subseteq OwedBy(w) /\ OwedBy(v) \subseteq OwedBy(w)
  BY <1>4
<1> HIDE DEF w
<1>10. Ahead(ToSet(drawn), ToSet(items))
  BY <1>8, <1>9, AheadOfFewer
<1>11. Increasing(drawn')
  BY <1>1, <1>2, <1>4, <1>5, <1>8, <1>10, IncreasingConcat
<1>12. ToSet(drawn') = ToSet(drawn) \cup ToSet(items)
  BY <1>1, <1>2, <1>4, ConcatSet
<1>13. ToSet(drawn') \subseteq 1 .. asked'
  <2>1. OwedBy(w) \subseteq 1 .. asked
    BY <1>1 DEF IInv, Accounted, InHand, FrameSlots, w
  <2> QED
    BY <1>2, <1>9, <1>12, <2>1 DEF Queue
<1>14. Ahead(ToSet(items), ToSet(front.open)) /\ Ahead(OwedBy(v), ToSet(front.open))
  BY <1>8, <1>9, AheadOfFewer
<1>15. Ahead(ToSet(drawn'), ToSet(front'.open))
  <2>1. Ahead(ToSet(drawn), ToSet(front.open))
    BY DEF Queue
  <2>2. Ahead(ToSet(drawn) \cup ToSet(items), ToSet(front.open))
    BY <1>14, <2>1, AheadOfBoth, Zenon
  <2> QED
    BY <1>2, <1>12, <2>2
<1>16. \A t \in FrameSlots : t # s =>
         Ahead(ToSet(items), OwedBy(slot[t])) /\ Ahead(OwedBy(v), OwedBy(slot[t]))
  <2> TAKE t \in FrameSlots
  <2> HAVE t # s
  <2>1. Ahead(OwedBy(w), OwedBy(slot[t]))
    BY <1>6
  <2> QED
    BY <1>9, <2>1, Zenon DEF Ahead
<1>17. \A t \in FrameSlots : InTurn(slot'[t]) /\ Ahead(OwedBy(slot'[t]), ToSet(front'.open))
  <2> TAKE t \in FrameSlots
  <2>1. CASE t = s
    BY <1>2, <1>5, <1>7, <1>14, <2>1
  <2>2. CASE t # s
    BY <1>2, <1>7, <2>2 DEF Queue
  <2> QED
    BY <2>1, <2>2
<1>18. \A t \in FrameSlots : Ahead(ToSet(drawn'), OwedBy(slot'[t]))
  <2> TAKE t \in FrameSlots
  <2>1. CASE t = s
    <3>1. Ahead(ToSet(drawn), OwedBy(v))
      BY <1>8, <1>9, AheadOfFewer
    <3>2. Ahead(ToSet(drawn) \cup ToSet(items), OwedBy(v))
      BY <1>5, <3>1, AheadOfBoth, Zenon
    <3> QED
      BY <1>7, <1>12, <2>1, <3>2
  <2>2. CASE t # s
    <3>1. Ahead(ToSet(drawn), OwedBy(slot[t])) /\ Ahead(ToSet(items), OwedBy(slot[t]))
      BY <1>16, <2>2 DEF Queue
    <3>2. Ahead(ToSet(drawn) \cup ToSet(items), OwedBy(slot[t]))
      BY <3>1, AheadOfBoth, Zenon
    <3> QED
      BY <1>7, <1>12, <2>2, <3>2
  <2> QED
    BY <2>1, <2>2
<1>19. \A t \in FrameSlots : t # shared.write_idx =>
         Ahead(OwedBy(slot'[t]), OwedBy(slot'[shared.write_idx]))
  <2> TAKE t \in FrameSlots
  <2> HAVE t # shared.write_idx
  <2>1. CASE t = s
    BY <1>1, <1>7, <1>16, <2>1
  <2>2. CASE shared.write_idx = s
    <3>1. Ahead(OwedBy(slot[t]), OwedBy(w))
      BY <1>1, <2>2 DEF Queue, w
    <3>2. Ahead(OwedBy(slot[t]), OwedBy(v))
      BY <1>9, <3>1, AheadOfFewer
    <3> QED
      BY <1>7, <2>2, <3>2
  <2>3. CASE t # s /\ shared.write_idx # s
    BY <1>1, <2>3 DEF FrameSlots
  <2> QED
    BY <2>1, <2>2, <2>3
<1> QED
  BY <1>2, <1>11, <1>13, <1>15, <1>17, <1>18, <1>19 DEF Queue

LEMMA InitQueue == RenderInit => Queue
<1> SUFFICES ASSUME RenderInit PROVE Queue
  OBVIOUS
<1>1. /\ front.open = <<>> /\ drawn = <<>> /\ shared.write_idx \in FrameSlots
      /\ \A s \in FrameSlots : slot[s] = EmptySlot
  BY DEF RenderInit, FrameSlots
<1>2. \A s \in FrameSlots : InTurn(slot[s]) /\ OwedBy(slot[s]) = {}
  BY <1>1, EmptySlotInTurn, EmptySlotOwesNothing
<1>3. ToSet(drawn) = {} /\ ToSet(front.open) = {} /\ Increasing(drawn) /\ Increasing(front.open)
  BY <1>1, EmptySet, IncreasingOne
<1> QED
  BY <1>1, <1>2, <1>3, AheadOfNone, Zenon DEF Queue

LEMMA NextQueue == IInv /\ Queue /\ [RenderNext]_render_vars => Queue'
<1> SUFFICES ASSUME IInv, Queue, [RenderNext]_render_vars PROVE Queue'
  OBVIOUS
<1>1. CASE Record
  BY <1>1, PushPrimitiveQueues, PushLineQueues, UploadRectQueues, FlushQueues DEF Record
<1>2. CASE ReadRect \/ BuildUi
  BY <1>2, FlushQueues
<1>3. CASE EndField \/ StopThread \/ RequestSync \/ WaitFrameDone
             \/ GpuLoop \/ SyncDone \/ Scanout
  <2>1. UNCHANGED <<slot, asked, drawn, front>> /\ shared'.write_idx = shared.write_idx
    BY <1>3 DEF EndField, StopThread, RequestSync, WaitFrameDone, GpuLoop, SyncDone, Scanout,
                IInv, Typed
  <2> QED
    BY <2>1, HandoverQueues
<1>4. CASE SubmitFrame
  BY <1>4, HandoverQueues DEF SubmitFrame
<1>5. CASE StartThread
  BY <1>5, StartThreadQueues
<1>6. CASE ReplayOp
  BY <1>6, ReplayOpQueues
<1>7. CASE FrameDone
  BY <1>7, FrameDoneQueues
<1>8. CASE UNCHANGED render_vars
  BY <1>8 DEF render_vars, Queue
<1> QED
  BY <1>1, <1>2, <1>3, <1>4, <1>5, <1>6, <1>7, <1>8 DEF RenderNext, HostStep, GpuStep

(* Nothing older than the last thing drawn is in hand.                     *)
LEMMA QueueInOrder == IInv /\ Queue => VramIsInOrder
<1> SUFFICES ASSUME IInv, Queue PROVE VramIsInOrder
  OBVIOUS
<1>1. drawn \in Seq(Asks) /\ Len(drawn) \in Nat /\ asked \in Nat
  BY RenderLimits DEF IInv, Typed
<1>2. \A i \in 1 .. Len(drawn) - 1 : drawn[i] < drawn[i + 1]
  <2> TAKE i \in 1 .. Len(drawn) - 1
  <2>1. i \in 1 .. Len(drawn) /\ i + 1 \in 1 .. Len(drawn) /\ i < i + 1
    BY <1>1
  <2> QED
    BY <2>1 DEF Queue, Increasing
<1>3. ASSUME drawn # <<>> PROVE 1 .. Last(drawn) \subseteq ToSet(drawn) \cup dropped
  <2> DEFINE last == Last(drawn)
  <2>1. last \in ToSet(drawn)
    BY <1>1, <1>3 DEF Last, ToSet
  <2>2. last \in 1 .. asked
    BY <2>1 DEF Queue
  <2>3. \A n \in InHand : n \in dropped \/ last < n
    BY <2>1 DEF InHand, Queue, FrameSlots, Ahead
  <2> HIDE DEF last
  <2>4. ASSUME NEW n \in 1 .. last PROVE n \in ToSet(drawn) \cup dropped
    <3>1. n \in 1 .. asked /\ ~(last < n)
      BY <1>1, <2>2
    <3> QED
      BY <2>3, <3>1 DEF IInv, Accounted
  <2> QED
    BY <2>4 DEF last
<1> QED
  BY <1>2, <1>3 DEF VramIsInOrder

(* VRAM takes every primitive and upload once and in the order the guest   *)
(* asked for them, whatever is read back, resubmitted or restarted on the  *)
(* way: for tables of any size (glr_push_line, glr_upload_vram_rect,       *)
(* glr_replay_slot).                                                       *)
THEOREM OrderIsKept == RenderSpec => []VramIsInOrder
<1>1. RenderSpec => [](IInv /\ Queue)
  BY InitIInv, NextIInv, InitQueue, NextQueue, PTL DEF RenderSpec
<1> QED
  BY <1>1, QueueInOrder, PTL
=============================================================================
