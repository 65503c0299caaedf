----------------------------- MODULE DmaProofs -----------------------------
(***************************************************************************)
(* Proofs about Dma for every RAM size, every slice size, every linked     *)
(* list and everything the guest writes.                                   *)
(*                                                                         *)
(* A handler is a composition of operators on the state, so each operator  *)
(* has a lemma that says how the state it returns relates to the one it    *)
(* was given (Quiet or Step), the relations are transitive, and the lemma  *)
(* of a handler chains those of the operators it calls.  The second half   *)
(* does the same for each channel: what a handler does to the channel it   *)
(* kicks (Kicked), to one whose transfer it carries on (Carried) and to    *)
(* any other (Untouched).                                                  *)
(***************************************************************************)
EXTENDS Dma, TLAPS

(* The DMA interrupt is coherent in a state.                               *)
Coherent(s) == /\ s \in State
               /\ s.master_irq_flag = MasterFlag(s)
               /\ "DMA" \in s.irq.line => s.master_irq_flag
               /\ s.irq.line \subseteq s.irq.status

(* From s to t: t is coherent, nothing was taken out of I_STAT, and a      *)
(* rising master flag is in it.                                            *)
Step(s, t) ==
  /\ Coherent(t)
  /\ s.irq.status \subseteq t.irq.status
  /\ ~s.master_irq_flag /\ t.master_irq_flag => "DMA" \in t.irq.status

(* The transfers in flight have their slice in the event queue.            *)
GpuScheduled(s)  == s.gpu_ll_active => "DMA_GPU" \in s.evq_pending
MdecScheduled(s) == \A c \in MdecChannels : s.mdec[c].active => "MDEC" \in s.evq_pending

(* From s to t no transfer was started and no event withdrawn.             *)
GpuQuiet(s, t)  == /\ t.gpu_ll_active => s.gpu_ll_active
                   /\ s.evq_pending \subseteq t.evq_pending
MdecQuiet(s, t) == /\ \A c \in MdecChannels : t.mdec[c].active => s.mdec[c].active
                   /\ s.evq_pending \subseteq t.evq_pending

Quiet(s, t) == Step(s, t) /\ GpuQuiet(s, t) /\ MdecQuiet(s, t)

(* Steps chain.                                                            *)
LEMMA StepTrans ==
  ASSUME NEW s, NEW t, NEW u, Coherent(s), Step(s, t), Step(t, u)
  PROVE  Step(s, u)
  BY DEF Step, Coherent, State

(* Nothing done is quiet.                                                  *)
LEMMA QuietRefl ==
  ASSUME NEW s, Coherent(s)
  PROVE  Quiet(s, s)
  BY DEF Quiet, Step, GpuQuiet, MdecQuiet

(* Quiet steps chain.                                                      *)
LEMMA QuietTrans ==
  ASSUME NEW s, NEW t, NEW u, Coherent(s), Quiet(s, t), Quiet(t, u)
  PROVE  Quiet(s, u)
<1>1. Step(s, u)
  BY StepTrans DEF Quiet
<1> QED
  BY <1>1 DEF Quiet, GpuQuiet, MdecQuiet

(* A quiet step strands no transfer.                                       *)
LEMMA QuietKeepsSchedule ==
  ASSUME NEW s, NEW t, Quiet(s, t)
  PROVE  /\ Coherent(t)
         /\ GpuScheduled(s) => GpuScheduled(t)
         /\ MdecScheduled(s) => MdecScheduled(t)
  BY DEF Quiet, Step, GpuQuiet, MdecQuiet, GpuScheduled, MdecScheduled
-----------------------------------------------------------------------------
(* The interrupt side.                                                     *)

(* The master flag is a bit.                                               *)
LEMMA MasterFlagType ==
  ASSUME NEW s \in State
  PROVE  MasterFlag(s) \in BOOLEAN
  BY DEF MasterFlag, State

(* dma_update_irq changes the flag and the line, and nothing else.         *)
LEMMA UpdateIrqFields ==
  ASSUME NEW s \in State
  PROVE  /\ UpdateIrq(s) \in State
         /\ MasterFlag(UpdateIrq(s)) = MasterFlag(s)
         /\ UpdateIrq(s).master_irq_flag = MasterFlag(s)
         /\ UpdateIrq(s).irq = IF s.master_irq_flag = MasterFlag(s) THEN s.irq
                               ELSE SetIrqLine(s.irq, "DMA", MasterFlag(s))
         /\ GpuQuiet(s, UpdateIrq(s)) /\ MdecQuiet(s, UpdateIrq(s))
<1>1. SetIrqLine(s.irq, "DMA", MasterFlag(s)) \in IrqRegs
  BY IrqLine, MasterFlagType DEF SetIrqLine, RaiseLine, LowerLine, IrqRegs, State
<1>2. UpdateIrq(s) \in State
  BY <1>1, MasterFlagType DEF UpdateIrq, State
<1>3. /\ UpdateIrq(s).force_irq = s.force_irq
      /\ UpdateIrq(s).master_irq_enable = s.master_irq_enable
      /\ UpdateIrq(s).channel_irq_flags = s.channel_irq_flags
      /\ UpdateIrq(s).master_irq_flag = MasterFlag(s)
      /\ UpdateIrq(s).gpu_ll_active = s.gpu_ll_active
      /\ UpdateIrq(s).mdec = s.mdec
      /\ UpdateIrq(s).evq_pending = s.evq_pending
  BY DEF UpdateIrq, State
<1>4. UpdateIrq(s).irq = IF s.master_irq_flag = MasterFlag(s) THEN s.irq
                         ELSE SetIrqLine(s.irq, "DMA", MasterFlag(s))
  BY DEF UpdateIrq, State
<1>5. MasterFlag(UpdateIrq(s)) = MasterFlag(s)
  BY <1>3 DEF MasterFlag
<1> QED
  BY <1>2, <1>3, <1>4, <1>5 DEF GpuQuiet, MdecQuiet

(* dma_update_irq from a state whose master flag may be stale.             *)
LEMMA UpdateIrqStep ==
  ASSUME NEW s \in State,
         "DMA" \in s.irq.line => s.master_irq_flag,
         s.irq.line \subseteq s.irq.status
  PROVE  Quiet(s, UpdateIrq(s))
<1> DEFINE q == UpdateIrq(s).irq
<1>1. UpdateIrq(s) \in State /\ s.irq \in IrqRegs
  BY UpdateIrqFields DEF State
<1>2. CASE s.master_irq_flag = MasterFlag(s)
  BY <1>1, <1>2, UpdateIrqFields DEF Quiet, Step, Coherent
<1>3. CASE s.master_irq_flag # MasterFlag(s) /\ MasterFlag(s)
  <2>1. q = RaiseLine(s.irq, "DMA")
    BY <1>3, UpdateIrqFields DEF SetIrqLine
  <2>2. q.line = s.irq.line \cup {"DMA"} /\ q.status = s.irq.status \cup {"DMA"}
    BY <1>1, <1>3, <2>1 DEF RaiseLine, IrqRegs
  <2> QED
    BY <1>1, <1>3, <2>2, UpdateIrqFields DEF Quiet, Step, Coherent
<1>4. CASE s.master_irq_flag # MasterFlag(s) /\ ~MasterFlag(s)
  <2>1. q = LowerLine(s.irq, "DMA")
    BY <1>4, UpdateIrqFields DEF SetIrqLine
  <2>2. q.line = s.irq.line \ {"DMA"} /\ q.status = s.irq.status
    BY <1>1, <2>1 DEF LowerLine, IrqRegs
  <2> QED
    BY <1>1, <1>4, <2>2, UpdateIrqFields DEF Quiet, Step, Coherent
<1> QED
  BY <1>2, <1>3, <1>4

(* A bus error goes through dma_update_irq.                                *)
LEMMA FlagBusErrorStep ==
  ASSUME NEW s, Coherent(s)
  PROVE  Quiet(s, FlagBusError(s))
<1> DEFINE t == [s EXCEPT !.force_irq = TRUE]
<1>1. CASE s.force_irq
  BY <1>1, QuietRefl DEF FlagBusError
<1>2. CASE ~s.force_irq
  <2>1. /\ t \in State /\ t.irq = s.irq /\ t.master_irq_flag = s.master_irq_flag
        /\ t.gpu_ll_active = s.gpu_ll_active /\ t.mdec = s.mdec
        /\ t.evq_pending = s.evq_pending
    BY DEF Coherent, State
  <2>2. Quiet(t, UpdateIrq(t))
    BY <2>1, UpdateIrqStep DEF Coherent
  <2>3. FlagBusError(s) = UpdateIrq(t)
    BY <1>2 DEF FlagBusError
  <2> HIDE DEF t
  <2> QED
    BY <2>1, <2>2, <2>3 DEF Quiet, Step, GpuQuiet, MdecQuiet
<1> QED
  BY <1>1, <1>2

(* A completion goes through dma_update_irq.                               *)
LEMMA FlagCompletionStep ==
  ASSUME NEW s, Coherent(s), NEW c \in Channels
  PROVE  Quiet(s, FlagCompletion(s, c))
<1> DEFINE t == [s EXCEPT !.channel_irq_flags = @ \cup {c}]
<1>1. CASE c \notin s.channel_irq_enable
  BY <1>1, QuietRefl DEF FlagCompletion
<1>2. CASE c \in s.channel_irq_enable
  <2>1. /\ t \in State /\ t.irq = s.irq /\ t.master_irq_flag = s.master_irq_flag
        /\ t.gpu_ll_active = s.gpu_ll_active /\ t.mdec = s.mdec
        /\ t.evq_pending = s.evq_pending
    BY DEF Coherent, State
  <2>2. Quiet(t, UpdateIrq(t))
    BY <2>1, UpdateIrqStep DEF Coherent
  <2>3. FlagCompletion(s, c) = UpdateIrq(t)
    BY <1>2 DEF FlagCompletion
  <2> HIDE DEF t
  <2> QED
    BY <2>1, <2>2, <2>3 DEF Quiet, Step, GpuQuiet, MdecQuiet
<1> QED
  BY <1>1, <1>2
-----------------------------------------------------------------------------
(* Steps that leave the interrupt alone.                                   *)

IrqSame(s, t) == /\ t.force_irq = s.force_irq
                 /\ t.master_irq_enable = s.master_irq_enable
                 /\ t.channel_irq_flags = s.channel_irq_flags
                 /\ t.master_irq_flag = s.master_irq_flag
                 /\ t.irq = s.irq

(* A step that leaves the interrupt side alone keeps it coherent.          *)
LEMMA IrqSameStep ==
  ASSUME NEW s, Coherent(s), NEW t \in State, IrqSame(s, t)
  PROVE  Step(s, t)
  BY DEF Step, Coherent, IrqSame, MasterFlag

(* Writing a channel disturbs neither interrupt nor schedule.              *)
LEMMA SetChannelStep ==
  ASSUME NEW s, Coherent(s), NEW c \in Channels, NEW ch \in Channel
  PROVE  Quiet(s, SetChannel(s, c, ch))
<1>1. SetChannel(s, c, ch) \in State
  BY DEF Coherent, State, SetChannel
<1>2. /\ IrqSame(s, SetChannel(s, c, ch))
      /\ GpuQuiet(s, SetChannel(s, c, ch)) /\ MdecQuiet(s, SetChannel(s, c, ch))
  BY DEF Coherent, State, IrqSame, GpuQuiet, MdecQuiet, SetChannel
<1> QED
  BY <1>1, <1>2, IrqSameStep DEF Quiet

(* So does ending its transfer,                                            *)
LEMMA ChannelDoneStep ==
  ASSUME NEW s, Coherent(s), NEW c \in Channels
  PROVE  Quiet(s, ChannelDone(s, c))
<1>1. s.channels[c] \in Channel
  BY DEF Coherent, State
<1>2. [s.channels[c] EXCEPT !.enable = FALSE, !.trigger = FALSE] \in Channel
  BY <1>1 DEF Channel
<1> QED
  BY <1>2, SetChannelStep DEF ChannelDone

(* and signalling the end.                                                 *)
LEMMA SignalDoneStep ==
  ASSUME NEW s, Coherent(s), NEW c \in Channels
  PROVE  Quiet(s, SignalDone(s, c))
<1>1. Quiet(s, ChannelDone(s, c))
  BY ChannelDoneStep
<1>2. Quiet(ChannelDone(s, c), SignalDone(s, c))
  BY <1>1, FlagCompletionStep, QuietKeepsSchedule DEF SignalDone
<1> QED
  BY <1>1, <1>2, QuietTrans

(* The progress a slice writes back stays in the registers' range.         *)
LEMMA WritebackStep ==
  ASSUME NEW s, Coherent(s), NEW c \in Channels,
         NEW next \in Addr, NEW remaining \in 0..MaxWords
  PROVE  Quiet(s, Writeback(s, c, next, remaining))
<1>1. s.channels[c] \in Channel
  BY DEF Coherent, State
<1> DEFINE words == IF remaining = MaxWords THEN 0 ELSE remaining
<1>a. words \in 0..(MaxWords - 1)
  BY Sizes
<1> HIDE DEF words
<1>2. [s.channels[c] EXCEPT !.base_addr = next, !.words = words] \in Channel
  BY <1>1, <1>a DEF Channel
<1>3. Progress(s.channels[c], next, remaining) \in Channel
  BY <1>1, <1>2 DEF Progress, words
<1> QED
  BY <1>3, QuietRefl, SetChannelStep DEF Writeback

(* So does the progress of a list.                                         *)
LEMMA WritebackListStep ==
  ASSUME NEW s, Coherent(s), NEW c \in Channels, NEW madr \in Addr
  PROVE  Quiet(s, WritebackList(s, c, madr))
<1>1. s.channels[c] \in Channel
  BY DEF Coherent, State
<1>2. [s.channels[c] EXCEPT !.base_addr = madr] \in Channel
  BY <1>1 DEF Channel
<1> QED
  BY <1>2, QuietRefl, SetChannelStep DEF WritebackList
-----------------------------------------------------------------------------
(* Channel 2.                                                              *)

(* Moving the list on leaves the interrupt and the MDEC alone.             *)
LEMMA SetListStep ==
  ASSUME NEW s, Coherent(s), NEW a \in Addr, NEW b \in BOOLEAN
  PROVE  /\ Step(s, SetList(s, a, b)) /\ MdecQuiet(s, SetList(s, a, b))
         /\ (b => s.gpu_ll_active) => Quiet(s, SetList(s, a, b))
         /\ SetList(s, a, b).gpu_ll_active = b
         /\ SetList(s, a, b).gpu_ll_addr = a
<1> DEFINE t == SetList(s, a, b)
<1>1. /\ t \in State /\ t.gpu_ll_active = b /\ t.gpu_ll_addr = a
      /\ t.mdec = s.mdec /\ t.evq_pending = s.evq_pending
  BY DEF Coherent, State, SetList
<1>2. IrqSame(s, t)
  BY DEF Coherent, State, IrqSame, SetList
<1>3. Step(s, t) /\ MdecQuiet(s, t)
  BY <1>1, <1>2, IrqSameStep DEF MdecQuiet
<1> QED
  BY <1>1, <1>3 DEF Quiet, GpuQuiet

(* Wherever a list leads, the transfer goes on or is over.                 *)
LEMMA StopListStep ==
  ASSUME NEW s, Coherent(s), NEW stop \in 0..Runaway
  PROVE  Quiet(s, StopList(s, stop))
<1> DEFINE e == FlagBusError(s)
<1>1. Quiet(s, e) /\ Coherent(e)
  BY FlagBusErrorStep, QuietKeepsSchedule
<1>2. s.gpu_ll_active \in BOOLEAN /\ s.gpu_ll_addr \in Addr
  BY DEF Coherent, State
<1> HIDE DEF e
<1>3. ASSUME NEW a \in Addr
      PROVE  /\ Quiet(s, SetList(s, a, s.gpu_ll_active))
             /\ Quiet(s, SetList(s, a, FALSE))
             /\ Quiet(s, SetList(e, a, FALSE))
  BY <1>1, <1>2, SetListStep, QuietTrans
<1>4. stop \in Node \cup {EndMarker, OutOfRange} => stop \in Addr
  BY Sizes DEF Node, EndMarker, OutOfRange, Addr
<1> QED
  BY <1>2, <1>3, <1>4 DEF StopList, e

(* Following it from an address is one such stop.                          *)
LEMMA FollowStep ==
  ASSUME NEW s, Coherent(s), NEW ends \in [Node -> 0..Runaway]
  PROVE  Quiet(s, Follow(s, ends))
<1>1. (IF s.gpu_ll_addr \in Node THEN ends[s.gpu_ll_addr] ELSE Runaway) \in 0..Runaway
  BY Sizes DEF Runaway
<1> QED
  BY <1>1, StopListStep DEF Follow

(* The drain before the next kick is quiet.                                *)
LEMMA GpuDrainStep ==
  ASSUME NEW s, Coherent(s)
  PROVE  Quiet(s, GpuDrain(s))
<1>1. Quiet(s, Follow(s, ListEnd))
  BY Lists, FollowStep
<1>2. Quiet(Follow(s, ListEnd), GpuDrain(s))
  BY <1>1, SignalDoneStep, QuietKeepsSchedule DEF GpuDrain, Channels
<1> QED
  BY <1>1, <1>2, QuietTrans

(* Scheduling an event only helps.                                         *)
LEMMA ScheduleStep ==
  ASSUME NEW s, Coherent(s), NEW e \in {"DMA_GPU", "MDEC"}
  PROVE  Quiet(s, Schedule(s, e)) /\ e \in Schedule(s, e).evq_pending
<1> DEFINE t == Schedule(s, e)
<1>1. /\ t \in State /\ t.gpu_ll_active = s.gpu_ll_active
      /\ t.mdec = s.mdec /\ t.evq_pending = s.evq_pending \cup {e}
  BY DEF Coherent, State, Schedule
<1>2. IrqSame(s, t)
  BY DEF Coherent, State, IrqSame, Schedule
<1> QED
  BY <1>1, <1>2, IrqSameStep DEF Quiet, GpuQuiet, MdecQuiet

(* After a slice, a list in flight is scheduled again.                     *)
LEMMA GpuResumeStep ==
  ASSUME NEW s, Coherent(s)
  PROVE  /\ Step(s, GpuResume(s)) /\ MdecQuiet(s, GpuResume(s))
         /\ GpuScheduled(GpuResume(s))
<1> DEFINE r == GpuRunSlice(s)
           w == IF s.gpu_ll_active THEN WritebackList(r, 2, r.gpu_ll_addr) ELSE r
<1>1. Quiet(s, r)
  BY Lists, FollowStep, QuietRefl DEF GpuRunSlice
<1>2. Coherent(r) /\ r.gpu_ll_addr \in Addr
  BY <1>1, QuietKeepsSchedule DEF Coherent, State
<1>3. Quiet(r, w)
  BY <1>2, WritebackListStep, QuietRefl DEF Channels
<1>4. Quiet(s, w) /\ Coherent(w)
  BY <1>1, <1>3, QuietTrans, QuietKeepsSchedule
<1> HIDE DEF w, r
<1>5. CASE w.gpu_ll_active
  <2> DEFINE t == Schedule(w, "DMA_GPU")
  <2>1. GpuResume(s) = t
    BY <1>5 DEF GpuResume, w, r
  <2>2. Quiet(w, t) /\ "DMA_GPU" \in t.evq_pending
    BY <1>4, ScheduleStep
  <2>3. Quiet(s, t)
    BY <1>4, <2>2, QuietTrans
  <2> QED
    BY <2>1, <2>2, <2>3 DEF Quiet, GpuScheduled
<1>6. CASE ~w.gpu_ll_active
  <2>1. GpuResume(s) = SignalDone(w, 2)
    BY <1>6 DEF GpuResume, w, r
  <2>2. Quiet(w, GpuResume(s))
    BY <1>4, <2>1, SignalDoneStep DEF Channels
  <2>3. Quiet(s, GpuResume(s))
    BY <1>4, <2>2, QuietTrans
  <2> QED
    BY <1>6, <2>2, <2>3 DEF Quiet, GpuQuiet, GpuScheduled
<1> QED
  BY <1>5, <1>6

(* A transfer that runs to its end inside the register write.              *)

(* What lies inside RAM of a block is a part of it.                        *)
LEMMA InRamBounds ==
  ASSUME NEW addr \in Addr, NEW n \in Nat
  PROVE  /\ InRam(addr, n) \in 0..n
         /\ addr + InRam(addr, n) \in Addr
  BY Sizes DEF InRam, Addr

(* A BCR of 0 is the largest transfer.                                     *)
LEMMA TransferSizeType ==
  ASSUME NEW ch \in Channel
  PROVE  TransferSize(ch) \in 1..MaxWords
  BY Sizes DEF TransferSize, Channel

(* A block that runs at once starts nothing.                               *)
LEMMA RunBlockStep ==
  ASSUME NEW s, Coherent(s), NEW c \in Channels
  PROVE  Quiet(s, RunBlock(s, c))
<1> DEFINE ch   == s.channels[c]
           size == TransferSize(ch)
           n    == InRam(ch.base_addr, size)
           e    == IF n < size THEN FlagBusError(s) ELSE s
<1>1. ch \in Channel /\ ch.base_addr \in Addr
  BY DEF Coherent, State, Channel
<1>2. size \in 1..MaxWords /\ size \in Nat
  BY <1>1, TransferSizeType, Sizes
<1> HIDE DEF size
<1>3. n \in 0..size /\ ch.base_addr + n \in Addr
  BY <1>1, <1>2, InRamBounds
<1>4. size - n \in 0..MaxWords
  BY <1>2, <1>3, Sizes
<1>5. Quiet(s, e)
  BY FlagBusErrorStep, QuietRefl
<1> HIDE DEF n
<1>6. Quiet(e, Writeback(e, c, ch.base_addr + n, size - n))
  BY <1>3, <1>4, <1>5, QuietKeepsSchedule, WritebackStep
<1>7. RunBlock(s, c) = Writeback(e, c, ch.base_addr + n, size - n)
  BY DEF RunBlock, size, n
<1> QED
  BY <1>5, <1>6, <1>7, QuietTrans

(* Neither does an upload to the GPU.                                      *)
LEMMA GpuBlockStep ==
  ASSUME NEW s, Coherent(s)
  PROVE  Quiet(s, GpuBlock(s))
<1> DEFINE l == SetList(s, s.gpu_ll_addr, FALSE)
           r == RunBlock(l, 2)
<1>1. s.gpu_ll_addr \in Addr
  BY DEF Coherent, State
<1>2. Quiet(s, l)
  BY <1>1, SetListStep
<1> HIDE DEF l
<1>3. Quiet(l, r)
  BY <1>2, RunBlockStep, QuietKeepsSchedule DEF Channels
<1> HIDE DEF r
<1>4. Quiet(s, r)
  BY <1>2, <1>3, QuietTrans
<1>5. Quiet(r, SignalDone(r, 2))
  BY <1>4, SignalDoneStep, QuietKeepsSchedule DEF Channels
<1>6. GpuBlock(s) = SignalDone(r, 2)
  BY DEF GpuBlock, l, r
<1> QED
  BY <1>4, <1>5, <1>6, QuietTrans
-----------------------------------------------------------------------------
(* Channels 0 and 1.                                                       *)

Half == [active : BOOLEAN, addr : Addr, remaining : 0..MaxWords]

(* Setting up one half leaves the interrupt and the GPU alone.             *)
LEMMA SetMdecStep ==
  ASSUME NEW s, Coherent(s), NEW c \in MdecChannels, NEW d \in Half
  PROVE  /\ Step(s, SetMdec(s, c, d)) /\ GpuQuiet(s, SetMdec(s, c, d))
         /\ (d.active => s.mdec[c].active) => Quiet(s, SetMdec(s, c, d))
<1> DEFINE t == SetMdec(s, c, d)
<1>1. /\ t \in State /\ t.gpu_ll_active = s.gpu_ll_active
      /\ t.mdec = [s.mdec EXCEPT ![c] = d] /\ t.evq_pending = s.evq_pending
      /\ s.mdec \in [MdecChannels -> Half]
  BY DEF Coherent, State, SetMdec, Half
<1>2. IrqSame(s, t)
  BY DEF Coherent, State, IrqSame, SetMdec
<1>3. Step(s, t) /\ GpuQuiet(s, t)
  BY <1>1, <1>2, IrqSameStep DEF GpuQuiet
<1>4. (d.active => s.mdec[c].active) => MdecQuiet(s, t)
  BY <1>1 DEF MdecQuiet
<1> QED
  BY <1>3, <1>4 DEF Quiet

(* A half that runs moves its own transfer and starts none.                *)
LEMMA MdecRunHalfStep ==
  ASSUME NEW s, Coherent(s), NEW c \in MdecChannels, NEW ready \in 0..SliceWords
  PROVE  Quiet(s, MdecRunHalf(s, c, ready))
<1> DEFINE d    == s.mdec[c]
           want == CHOOSE n \in {d.remaining, SliceWords, ready} :
                     \A x \in {d.remaining, SliceWords, ready} : n <= x
           done == InRam(d.addr, want)
           left == IF done < want THEN 0 ELSE d.remaining - done
           e    == IF done < want THEN FlagBusError(s) ELSE s
           new  == [active |-> left > 0, addr |-> d.addr + done, remaining |-> left]
<1>1. /\ d \in Half /\ d.addr \in Addr /\ d.remaining \in 0..MaxWords
      /\ d.active \in BOOLEAN
  BY DEF Coherent, State, Half
<1>2. want \in 0..d.remaining /\ want \in Nat
  <2>1. \E n \in {d.remaining, SliceWords, ready} :
          \A x \in {d.remaining, SliceWords, ready} : n <= x
    BY <1>1, Sizes
  <2>2. want \in {d.remaining, SliceWords, ready} /\ want <= d.remaining
    BY <2>1
  <2> QED
    BY <1>1, <2>2, Sizes
<1> HIDE DEF d, want
<1>3. done \in 0..want /\ d.addr + done \in Addr
  BY <1>1, <1>2, InRamBounds
<1> HIDE DEF done
<1>4. left \in 0..MaxWords
  BY <1>1, <1>2, <1>3, Sizes
<1>5. new \in Half
  BY <1>3, <1>4 DEF Half
<1>6. Quiet(s, e)
  BY FlagBusErrorStep, QuietRefl
<1>7. MdecRunHalf(s, c, ready) = IF d.active THEN SetMdec(e, c, new) ELSE s
  BY DEF MdecRunHalf, d, want, done
<1> HIDE DEF new, e
<1>8. d.active => e.mdec[c].active
  <2>1. e.mdec = s.mdec
    BY DEF e, Coherent, State, FlagBusError, UpdateIrq
  <2> QED
    BY <2>1 DEF d
<1>9. d.active => Quiet(e, SetMdec(e, c, new))
  BY <1>5, <1>6, <1>8, QuietKeepsSchedule, SetMdecStep
<1> QED
  BY <1>6, <1>7, <1>9, QuietRefl, QuietTrans

(* Writing back a half is quiet,                                           *)
LEMMA MdecWritebackStep ==
  ASSUME NEW s, Coherent(s), NEW old, NEW c \in MdecChannels
  PROVE  Quiet(s, MdecWriteback(s, old, c))
<1>1. s.mdec[c].addr \in Addr /\ s.mdec[c].remaining \in 0..MaxWords /\ c \in Channels
  BY DEF Coherent, State, MdecChannels, Channels
<1> QED
  BY <1>1, WritebackStep, QuietRefl DEF MdecWriteback

(* and so is signalling it.                                                *)
LEMMA MdecSignalStep ==
  ASSUME NEW s, Coherent(s), NEW old, NEW c \in MdecChannels
  PROVE  Quiet(s, MdecSignal(s, old, c))
  BY SignalDoneStep, QuietRefl DEF MdecSignal, MdecChannels, Channels

(* After a slice of both halves, those in flight are scheduled again.      *)
LEMMA MdecResumeStep ==
  ASSUME NEW s, Coherent(s), NEW ready \in Ready
  PROVE  /\ Step(s, MdecResume(s, ready)) /\ GpuQuiet(s, MdecResume(s, ready))
         /\ MdecScheduled(MdecResume(s, ready))
<1> DEFINE r0 == MdecRunHalf(s, 0, ready[0])
           r  == MdecRunHalf(r0, 1, ready[1])
           w0 == MdecWriteback(r, s, 0)
           w  == MdecWriteback(w0, s, 1)
           d0 == MdecSignal(w, s, 0)
           d  == MdecSignal(d0, s, 1)
<1>0. 0 \in MdecChannels /\ 1 \in MdecChannels
      /\ ready[0] \in 0..SliceWords /\ ready[1] \in 0..SliceWords
  BY DEF MdecChannels, Ready
<1>1. Quiet(s, r0)
  BY <1>0, MdecRunHalfStep
<1> HIDE DEF r0
<1>2. Quiet(s, r)
  BY <1>0, <1>1, MdecRunHalfStep, QuietKeepsSchedule, QuietTrans
<1> HIDE DEF r
<1>3. Quiet(s, w0)
  BY <1>0, <1>2, MdecWritebackStep, QuietKeepsSchedule, QuietTrans
<1> HIDE DEF w0
<1>4. Quiet(s, w)
  BY <1>0, <1>3, MdecWritebackStep, QuietKeepsSchedule, QuietTrans
<1> HIDE DEF w
<1>5. Quiet(s, d0)
  BY <1>0, <1>4, MdecSignalStep, QuietKeepsSchedule, QuietTrans
<1> HIDE DEF d0
<1>6. Quiet(s, d) /\ Coherent(d)
  BY <1>0, <1>5, MdecSignalStep, QuietKeepsSchedule, QuietTrans
<1> HIDE DEF d
<1>7. MdecResume(s, ready) =
        IF d.mdec[0].active \/ d.mdec[1].active THEN Schedule(d, "MDEC") ELSE d
  BY DEF MdecResume, r0, r, w0, w, d0, d
<1>8. CASE d.mdec[0].active \/ d.mdec[1].active
  <2>1. Quiet(d, Schedule(d, "MDEC")) /\ "MDEC" \in Schedule(d, "MDEC").evq_pending
    BY <1>6, ScheduleStep
  <2>2. Quiet(s, Schedule(d, "MDEC"))
    BY <1>6, <2>1, QuietTrans
  <2> QED
    BY <1>7, <1>8, <2>1, <2>2 DEF Quiet, MdecScheduled
<1>9. CASE ~(d.mdec[0].active \/ d.mdec[1].active)
  BY <1>6, <1>7, <1>9 DEF Quiet, MdecScheduled, MdecChannels
<1> QED
  BY <1>8, <1>9
-----------------------------------------------------------------------------
(* A transfer from its kick on.                                            *)

Scheduled(s) == GpuScheduled(s) /\ MdecScheduled(s)

(* From s to t the interrupt stays coherent and no transfer is stranded.   *)
Sound(s, t) == Step(s, t) /\ (Scheduled(s) => Scheduled(t))

(* Sound steps chain.                                                      *)
LEMMA SoundTrans ==
  ASSUME NEW s, NEW t, NEW u, Coherent(s), Sound(s, t), Sound(t, u)
  PROVE  Sound(s, u)
  BY StepTrans DEF Sound

(* A quiet step is sound.                                                  *)
LEMMA QuietIsSound ==
  ASSUME NEW s, NEW t, Quiet(s, t)
  PROVE  Sound(s, t) /\ Coherent(t)
  BY QuietKeepsSchedule DEF Sound, Scheduled, Quiet

(* dma_writeback_begin is quiet.                                           *)
LEMMA WritebackBeginStep ==
  ASSUME NEW s, Coherent(s), NEW c \in Channels
  PROVE  /\ Quiet(s, WritebackBegin(s, c))
         /\ WritebackBegin(s, c).channels = s.channels
<1> DEFINE t == WritebackBegin(s, c)
<1>1. /\ t \in State /\ t.gpu_ll_active = s.gpu_ll_active
      /\ t.mdec = s.mdec /\ t.evq_pending = s.evq_pending /\ t.channels = s.channels
  BY DEF Coherent, State, WritebackBegin, SetGuestRegs
<1>2. IrqSame(s, t)
  BY DEF Coherent, State, IrqSame, WritebackBegin, SetGuestRegs
<1> QED
  BY <1>1, <1>2, IrqSameStep DEF Quiet, GpuQuiet, MdecQuiet

(* A list that starts is scheduled or over.                                *)
LEMMA GpuListStart ==
  ASSUME NEW s, Coherent(s), NEW a \in Addr
  PROVE  Sound(s, GpuResume(SetList(s, a, TRUE)))
<1> DEFINE l == SetList(s, a, TRUE)
<1>1. Step(s, l) /\ MdecQuiet(s, l)
  BY SetListStep
<1> HIDE DEF l
<1>2. Step(l, GpuResume(l)) /\ MdecQuiet(l, GpuResume(l)) /\ GpuScheduled(GpuResume(l))
  BY <1>1, GpuResumeStep DEF Step
<1>3. MdecScheduled(s) => MdecScheduled(GpuResume(l))
  BY <1>1, <1>2 DEF MdecQuiet, MdecScheduled
<1> QED
  BY <1>1, <1>2, <1>3, StepTrans DEF Sound, Scheduled, l

(* An MDEC transfer that starts is scheduled or over.                      *)
LEMMA MdecStartStep ==
  ASSUME NEW s, Coherent(s), NEW c \in MdecChannels, NEW ready \in Ready
  PROVE  Sound(s, MdecStart(s, c, ready))
<1> DEFINE d == [active |-> TRUE, addr |-> s.channels[c].base_addr,
                 remaining |-> TransferSize(s.channels[c])]
           m == SetMdec(s, c, d)
<1>1. s.channels[c] \in Channel
  BY DEF Coherent, State, MdecChannels, Channels
<1>2. s.channels[c].base_addr \in Addr /\ TransferSize(s.channels[c]) \in 0..MaxWords
  BY <1>1, TransferSizeType, Sizes DEF Channel
<1>3. d \in Half
  BY <1>2 DEF Half
<1>4. MdecStart(s, c, ready) = MdecResume(m, ready)
  BY DEF MdecStart
<1> HIDE DEF d
<1>5. Step(s, m) /\ GpuQuiet(s, m)
  BY <1>3, SetMdecStep
<1> HIDE DEF m
<1>6. /\ Step(m, MdecResume(m, ready)) /\ GpuQuiet(m, MdecResume(m, ready))
      /\ MdecScheduled(MdecResume(m, ready))
  BY <1>5, MdecResumeStep DEF Step
<1>7. GpuScheduled(s) => GpuScheduled(MdecResume(m, ready))
  BY <1>5, <1>6 DEF GpuQuiet, GpuScheduled
<1> QED
  BY <1>4, <1>5, <1>6, <1>7, StepTrans DEF Sound, Scheduled

(* The switch of interconnect_perform_dma is sound in every branch.        *)
LEMMA StartTransferStep ==
  ASSUME NEW s, Coherent(s), NEW c \in Channels, NEW ready \in Ready
  PROVE  Sound(s, StartTransfer(s, c, ready))
<1> DEFINE ch == s.channels[c]
           b  == WritebackBegin(s, c)
           t  == StartTransfer(s, c, ready)
<1>1. Sound(s, b) /\ Coherent(b)
  BY WritebackBeginStep, QuietIsSound
<1>2. ch.base_addr \in Addr
  BY DEF Coherent, State, Channel
<1>a. /\ ToGpu(c, ch.direction) => ~MdecSliced(c, ch.direction)
      /\ MdecSliced(c, ch.direction) => c \in MdecChannels
  BY DEF ToGpu, MdecSliced, MdecChannels
<1> HIDE DEF b
<1>3. CASE ch.sync = "LINKED_LIST" /\ ToGpu(c, ch.direction)
  <2>1. t = GpuResume(SetList(b, ch.base_addr, TRUE))
    BY <1>3 DEF StartTransfer, b
  <2> QED
    BY <1>1, <1>2, <2>1, GpuListStart, SoundTrans
<1>4. CASE ch.sync = "LINKED_LIST" /\ ~ToGpu(c, ch.direction)
  <2>1. t = SignalDone(b, c)
    BY <1>4 DEF StartTransfer, b
  <2> QED
    BY <1>1, <2>1, SignalDoneStep, QuietIsSound, SoundTrans
<1>5. CASE ch.sync # "LINKED_LIST" /\ ToGpu(c, ch.direction)
  <2>1. t = GpuBlock(b)
    BY <1>5, <1>a DEF StartTransfer, b
  <2> QED
    BY <1>1, <2>1, GpuBlockStep, QuietIsSound, SoundTrans
<1>6. CASE ch.sync # "LINKED_LIST" /\ MdecSliced(c, ch.direction)
  <2>1. t = MdecStart(b, c, ready) /\ c \in MdecChannels
    BY <1>6, <1>a DEF StartTransfer, b
  <2> QED
    BY <1>1, <2>1, MdecStartStep, SoundTrans
<1>7. CASE ch.sync # "LINKED_LIST" /\ ~ToGpu(c, ch.direction)
         /\ ~MdecSliced(c, ch.direction)
  <2>1. t = SignalDone(RunBlock(b, c), c)
    BY <1>7 DEF StartTransfer, b
  <2>2. Sound(b, RunBlock(b, c)) /\ Coherent(RunBlock(b, c))
    BY <1>1, RunBlockStep, QuietIsSound
  <2>3. Sound(RunBlock(b, c), t)
    BY <2>1, <2>2, SignalDoneStep, QuietIsSound
  <2> QED
    BY <1>1, <2>2, <2>3, SoundTrans
<1> QED
  BY <1>3, <1>4, <1>5, <1>6, <1>7

(* So is a kick, with the drain before it.                                 *)
LEMMA PerformDmaStep ==
  ASSUME NEW s, Coherent(s), NEW c \in Channels, NEW ready \in Ready
  PROVE  Sound(s, PerformDma(s, c, ready))
<1>1. CASE InFlight(s, c) /\ c # 2
  BY <1>1, QuietRefl, QuietIsSound DEF PerformDma
<1>2. CASE InFlight(s, c) /\ c = 2
  <2>1. Sound(s, GpuDrain(s)) /\ Coherent(GpuDrain(s))
    BY GpuDrainStep, QuietIsSound
  <2>2. PerformDma(s, c, ready) = StartTransfer(GpuDrain(s), c, ready)
    BY <1>2 DEF PerformDma
  <2> QED
    BY <2>1, <2>2, StartTransferStep, SoundTrans
<1>3. CASE ~InFlight(s, c)
  BY <1>3, StartTransferStep DEF PerformDma
<1> QED
  BY <1>1, <1>2, <1>3
-----------------------------------------------------------------------------
(* The register writes.                                                    *)

(* Noting a guest's write is quiet.                                        *)
LEMMA NoteGuestWriteStep ==
  ASSUME NEW s, Coherent(s), NEW c \in Channels
  PROVE  Quiet(s, NoteGuestWrite(s, c))
<1> DEFINE t == SetGuestRegs(s, s.guest_regs \cup {c})
<1>1. /\ t \in State /\ t.gpu_ll_active = s.gpu_ll_active
      /\ t.mdec = s.mdec /\ t.evq_pending = s.evq_pending
  BY DEF Coherent, State, SetGuestRegs
<1>2. IrqSame(s, t)
  BY DEF Coherent, State, IrqSame, SetGuestRegs
<1>3. Quiet(s, t)
  BY <1>1, <1>2, IrqSameStep DEF Quiet, GpuQuiet, MdecQuiet
<1> QED
  BY <1>3, QuietRefl DEF NoteGuestWrite

(* A write to MADR.                                                        *)
LEMMA WriteMadrStep ==
  ASSUME Coherent(inter), NEW c \in Channels, NEW a \in MadrWords, WriteMadr(c, a)
  PROVE  Sound(inter, inter')
<1> DEFINE ch == [inter.channels[c] EXCEPT !.base_addr = a]
           s  == SetChannel(inter, c, ch)
           t  == [s EXCEPT !.guest_madr[c] = a]
<1>1. a \in Addr /\ inter.channels[c] \in Channel
  BY GuestWords DEF Coherent, State
<1>2. ch \in Channel
  BY <1>1 DEF Channel
<1> HIDE DEF ch
<1>3. Quiet(inter, s)
  BY <1>2, SetChannelStep
<1>4. Coherent(s)
  BY <1>3, QuietKeepsSchedule
<1> HIDE DEF s
<1>5. /\ t \in State /\ t.gpu_ll_active = s.gpu_ll_active
      /\ t.mdec = s.mdec /\ t.evq_pending = s.evq_pending
  BY <1>1, <1>4 DEF Coherent, State
<1>6. IrqSame(s, t)
  BY <1>4 DEF Coherent, State, IrqSame
<1>7. inter' = NoteGuestWrite(t, c)
  BY DEF WriteMadr, s, ch
<1> HIDE DEF t
<1>8. Quiet(s, t)
  BY <1>4, <1>5, <1>6, IrqSameStep DEF Quiet, GpuQuiet, MdecQuiet
<1>9. Quiet(inter, t) /\ Coherent(t)
  BY <1>3, <1>8, QuietTrans, QuietKeepsSchedule
<1>10. Quiet(inter, inter')
  BY <1>7, <1>9, NoteGuestWriteStep, QuietTrans
<1> QED
  BY <1>10, QuietIsSound

(* A write to BCR.                                                         *)
LEMMA WriteBcrStep ==
  ASSUME Coherent(inter), NEW c \in Channels, NEW n \in BcrWords, WriteBcr(c, n)
  PROVE  Sound(inter, inter')
<1> DEFINE ch == [inter.channels[c] EXCEPT !.words = n]
           s  == SetChannel(inter, c, ch)
<1>1. n \in 0..(MaxWords - 1) /\ inter.channels[c] \in Channel
  BY GuestWords DEF Coherent, State
<1>2. ch \in Channel
  BY <1>1 DEF Channel
<1>3. inter' = NoteGuestWrite(s, c)
  BY DEF WriteBcr
<1> HIDE DEF ch
<1>4. Quiet(inter, s)
  BY <1>2, SetChannelStep
<1> HIDE DEF s
<1>5. Quiet(inter, inter')
  BY <1>3, <1>4, NoteGuestWriteStep, QuietTrans, QuietKeepsSchedule
<1> QED
  BY <1>5, QuietIsSound

(* An abort ends a transfer and leaves its event.                          *)
LEMMA CancelSliceStep ==
  ASSUME NEW s, Coherent(s), NEW c \in Channels
  PROVE  Quiet(s, CancelSlice(s, c))
<1>1. CASE c \in MdecChannels
  <2> DEFINE d == [s.mdec[c] EXCEPT !.active = FALSE]
  <2>1. s.mdec[c] \in Half
    BY <1>1 DEF Coherent, State, Half
  <2>2. d \in Half /\ ~d.active
    BY <2>1 DEF Half
  <2>3. CancelSlice(s, c) = SetMdec(s, c, d)
    <3>1. c # 2
      BY <1>1 DEF MdecChannels
    <3> QED
      BY <1>1, <3>1 DEF CancelSlice
  <2> HIDE DEF d
  <2> QED
    BY <1>1, <2>2, <2>3, SetMdecStep
<1>2. CASE c = 2
  <2>1. CancelSlice(s, c) = SetList(s, s.gpu_ll_addr, FALSE) /\ s.gpu_ll_addr \in Addr
    BY <1>2 DEF CancelSlice, MdecChannels, Coherent, State
  <2> QED
    BY <2>1, SetListStep
<1>3. CASE c \notin MdecChannels \cup {2}
  BY <1>3, QuietRefl DEF CancelSlice
<1> QED
  BY <1>1, <1>2, <1>3

(* A write to CHCR.                                                        *)
LEMMA WriteChcrStep ==
  ASSUME Coherent(inter), NEW c \in Channels, NEW v \in Chcr, NEW ready \in Ready,
         WriteChcr(c, v, ready)
  PROVE  Sound(inter, inter')
<1> DEFINE ch == SetControl(inter.channels[c], v)
           s  == SetChannel(inter, c, ch)
<1>1. inter.channels[c] \in Channel
  BY DEF Coherent, State
<1>2. ch \in Channel
  BY <1>1 DEF Channel, Chcr, SetControl
<1>3. inter' = IF ~IsActive(s.channels[c]) THEN CancelSlice(s, c)
               ELSE IF c \in s.control THEN PerformDma(s, c, ready)
               ELSE s
  BY DEF WriteChcr
<1> HIDE DEF ch
<1>4. Sound(inter, s) /\ Coherent(s)
  BY <1>2, SetChannelStep, QuietIsSound
<1> HIDE DEF s
<1>5. Sound(s, CancelSlice(s, c))
  BY <1>4, CancelSliceStep, QuietIsSound
<1>6. Sound(s, PerformDma(s, c, ready))
  BY <1>4, PerformDmaStep
<1> QED
  BY <1>3, <1>4, <1>5, <1>6, SoundTrans

(* One turn of the loop over the unblocked channels.                       *)
LEMMA UnblockStep ==
  ASSUME NEW s, Coherent(s), NEW c \in Channels, NEW ready \in Ready
  PROVE  Sound(s, Unblock(s, c, ready)) /\ Coherent(Unblock(s, c, ready))
<1>1. Sound(s, s)
  BY QuietRefl, QuietIsSound
<1> QED
  BY <1>1, PerformDmaStep DEF Unblock, Sound, Step

(* A write to DPCR.                                                        *)
LEMMA WriteDpcrStep ==
  ASSUME Coherent(inter), NEW enables \in SUBSET Driven, NEW ready \in Ready,
         WriteDpcr(enables, ready)
  PROVE  Sound(inter, inter')
<1> DEFINE s  == [inter EXCEPT !.control = enables]
           s0 == Unblock(s, 0, ready)
           s1 == Unblock(s0, 1, ready)
           s2 == Unblock(s1, 2, ready)
           s3 == Unblock(s2, 3, ready)
           s4 == Unblock(s3, 4, ready)
           s5 == Unblock(s4, 5, ready)
           s6 == Unblock(s5, 6, ready)
<1>0. \A c \in 0..6 : c \in Channels
  BY DEF Channels
<1>1. Sound(inter, s) /\ Coherent(s)
  <2>1. /\ s \in State /\ s.gpu_ll_active = inter.gpu_ll_active
        /\ s.mdec = inter.mdec /\ s.evq_pending = inter.evq_pending
    BY DEF Coherent, State, Driven
  <2>2. IrqSame(inter, s)
    BY DEF Coherent, State, IrqSame
  <2>3. Quiet(inter, s)
    BY <2>1, <2>2, IrqSameStep DEF Quiet, GpuQuiet, MdecQuiet
  <2> QED
    BY <2>3, QuietIsSound
<1> HIDE DEF s
<1>2. Sound(inter, s0) /\ Coherent(s0)
  BY <1>0, <1>1, UnblockStep, SoundTrans
<1> HIDE DEF s0
<1>3. Sound(inter, s1) /\ Coherent(s1)
  BY <1>0, <1>2, UnblockStep, SoundTrans
<1> HIDE DEF s1
<1>4. Sound(inter, s2) /\ Coherent(s2)
  BY <1>0, <1>3, UnblockStep, SoundTrans
<1> HIDE DEF s2
<1>5. Sound(inter, s3) /\ Coherent(s3)
  BY <1>0, <1>4, UnblockStep, SoundTrans
<1> HIDE DEF s3
<1>6. Sound(inter, s4) /\ Coherent(s4)
  BY <1>0, <1>5, UnblockStep, SoundTrans
<1> HIDE DEF s4
<1>7. Sound(inter, s5) /\ Coherent(s5)
  BY <1>0, <1>6, UnblockStep, SoundTrans
<1> HIDE DEF s5
<1>8. Sound(inter, s6)
  BY <1>0, <1>7, UnblockStep, SoundTrans
<1>9. inter' = s6
  BY DEF WriteDpcr, s, s0, s1, s2, s3, s4, s5
<1> QED
  BY <1>8, <1>9

(* DICR: the cached master flag is stale until dma_update_irq has run.     *)
LEMMA WriteDicrStep ==
  ASSUME Coherent(inter), NEW v \in Dicr, WriteDicr(v)
  PROVE  Sound(inter, inter')
<1> DEFINE t == [inter EXCEPT !.force_irq = v.force_irq,
                              !.channel_irq_enable = v.channel_irq_enable,
                              !.master_irq_enable = v.master_irq_enable,
                              !.channel_irq_flags = @ \ v.ack]
<1>1. /\ t \in State /\ t.irq = inter.irq /\ t.master_irq_flag = inter.master_irq_flag
      /\ t.gpu_ll_active = inter.gpu_ll_active /\ t.mdec = inter.mdec
      /\ t.evq_pending = inter.evq_pending
  BY DEF Coherent, State, Dicr
<1>2. Quiet(t, UpdateIrq(t))
  BY <1>1, UpdateIrqStep DEF Coherent
<1>3. inter' = UpdateIrq(t)
  BY DEF WriteDicr
<1> HIDE DEF t
<1>4. Quiet(inter, inter')
  BY <1>1, <1>2, <1>3 DEF Quiet, Step, GpuQuiet, MdecQuiet
<1> QED
  BY <1>4, QuietIsSound

(* I_STAT: the only action that takes something out of the status.         *)
LEMMA GuestIStatStep ==
  ASSUME Coherent(inter), Scheduled(inter), NEW keep \in SUBSET Lines, GuestIStat(keep)
  PROVE  /\ Coherent(inter') /\ Scheduled(inter')
         /\ inter'.master_irq_flag = inter.master_irq_flag
<1> DEFINE q == WriteIStat(inter.irq, keep)
<1>1. inter \in State /\ inter.irq \in IrqRegs
  BY DEF Coherent, State
<1>2. /\ q \in IrqRegs
      /\ q.line = inter.irq.line \cap keep /\ q.status = inter.irq.status \cap keep
  BY <1>1 DEF WriteIStat, IrqRegs
<1>3. inter' = [inter EXCEPT !.irq = q]
  BY <1>1 DEF GuestIStat, State
<1> HIDE DEF q
<1>4. /\ inter' \in State /\ inter'.irq = q
      /\ inter'.force_irq = inter.force_irq
      /\ inter'.master_irq_enable = inter.master_irq_enable
      /\ inter'.channel_irq_flags = inter.channel_irq_flags
      /\ inter'.master_irq_flag = inter.master_irq_flag
      /\ inter'.gpu_ll_active = inter.gpu_ll_active
      /\ inter'.mdec = inter.mdec /\ inter'.evq_pending = inter.evq_pending
  BY <1>1, <1>2, <1>3 DEF State
<1> QED
  BY <1>2, <1>4 DEF Coherent, Scheduled, GpuScheduled, MdecScheduled, MasterFlag

(* The dispatcher clears the pending bit; the handler sets it again if its *)
(* transfer goes on.                                                       *)
LEMMA TakeStep ==
  ASSUME NEW s, Coherent(s), NEW e \in {"DMA_GPU", "MDEC"}
  PROVE  /\ Step(s, Take(s, e))
         /\ e = "DMA_GPU" /\ MdecScheduled(s) => MdecScheduled(Take(s, e))
         /\ e = "MDEC" /\ GpuScheduled(s) => GpuScheduled(Take(s, e))
<1> DEFINE t == Take(s, e)
<1>1. /\ t \in State /\ t.gpu_ll_active = s.gpu_ll_active
      /\ t.mdec = s.mdec /\ t.evq_pending = s.evq_pending \ {e}
  BY DEF Coherent, State, Take
<1>2. IrqSame(s, t)
  BY DEF Coherent, State, IrqSame, Take
<1> QED
  BY <1>1, <1>2, IrqSameStep DEF GpuScheduled, MdecScheduled

(* The GPU slice event.                                                    *)
LEMMA DmaGpuEventStep ==
  ASSUME Coherent(inter), DmaGpuEvent
  PROVE  Sound(inter, inter')
<1> DEFINE t == Take(inter, "DMA_GPU")
<1>1. Step(inter, t) /\ (MdecScheduled(inter) => MdecScheduled(t))
  BY TakeStep
<1> HIDE DEF t
<1>2. inter' = GpuResume(t)
  BY DEF DmaGpuEvent, t
<1>3. Step(t, inter') /\ MdecQuiet(t, inter') /\ GpuScheduled(inter')
  BY <1>1, <1>2, GpuResumeStep DEF Step
<1>4. MdecScheduled(t) => MdecScheduled(inter')
  BY <1>3 DEF MdecQuiet, MdecScheduled
<1> QED
  BY <1>1, <1>3, <1>4, StepTrans DEF Sound, Scheduled

(* The MDEC slice event.                                                   *)
LEMMA MdecEventStep ==
  ASSUME Coherent(inter), NEW ready \in Ready, MdecEvent(ready)
  PROVE  Sound(inter, inter')
<1> DEFINE t == Take(inter, "MDEC")
<1>1. Step(inter, t) /\ (GpuScheduled(inter) => GpuScheduled(t))
  BY TakeStep
<1> HIDE DEF t
<1>2. inter' = MdecResume(t, ready)
  BY DEF MdecEvent, t
<1>3. Step(t, inter') /\ GpuQuiet(t, inter') /\ MdecScheduled(inter')
  BY <1>1, <1>2, MdecResumeStep DEF Step
<1>4. GpuScheduled(t) => GpuScheduled(inter')
  BY <1>3 DEF GpuQuiet, GpuScheduled
<1> QED
  BY <1>1, <1>3, <1>4, StepTrans DEF Sound, Scheduled
-----------------------------------------------------------------------------
(* The theorems.                                                           *)

(* The inductive invariant: the interrupt is coherent and every transfer   *)
(* in flight is scheduled.                                                 *)
IInv == Coherent(inter) /\ Scheduled(inter)

(* After dma_init nothing is in flight and the line is low.                *)
LEMMA InitIInv == Init => IInv
<1> SUFFICES ASSUME Init PROVE IInv
  OBVIOUS
<1>1. 0 \in Addr /\ 0 \in 0..(MaxWords - 1) /\ 0 \in 0..MaxWords
  BY Sizes DEF Addr
<1>2. IrqReset \in IrqRegs /\ IrqReset.line = {} /\ IrqReset.status = {}
  BY DEF IrqReset, IrqRegs
<1>3. inter \in State
  BY <1>1, <1>2 DEF Init, State, Channel
<1>4. /\ inter.force_irq = FALSE /\ inter.master_irq_enable = FALSE
      /\ inter.master_irq_flag = FALSE /\ inter.irq = IrqReset
      /\ inter.gpu_ll_active = FALSE
      /\ \A c \in MdecChannels : inter.mdec[c].active = FALSE
  BY DEF Init
<1> QED
  BY <1>2, <1>3, <1>4
     DEF IInv, Coherent, MasterFlag, Scheduled, GpuScheduled, MdecScheduled

(* Every action but a write to I_STAT is Sound.                            *)
LEMMA NextSound ==
  ASSUME IInv, Next
  PROVE  Sound(inter, inter') \/ \E keep \in SUBSET Lines : GuestIStat(keep)
<1>0. Coherent(inter) /\ Driven \subseteq Channels
  BY DEF IInv, Driven
<1>1. ASSUME NEW c \in Driven, NEW a \in MadrWords, WriteMadr(c, a)
      PROVE  Sound(inter, inter')
  BY <1>0, <1>1, WriteMadrStep
<1>2. ASSUME NEW c \in Driven, NEW n \in BcrWords, WriteBcr(c, n)
      PROVE  Sound(inter, inter')
  BY <1>0, <1>2, WriteBcrStep
<1>3. ASSUME NEW c \in Driven, NEW v \in ChcrWords[c], NEW ready \in Ready,
             WriteChcr(c, v, ready)
      PROVE  Sound(inter, inter')
  <2>1. v \in Chcr
    BY <1>0, GuestWords
  <2> QED
    BY <1>0, <1>3, <2>1, WriteChcrStep
<1>4. ASSUME NEW enables \in SUBSET Driven, NEW ready \in Ready, WriteDpcr(enables, ready)
      PROVE  Sound(inter, inter')
  BY <1>0, <1>4, WriteDpcrStep
<1>5. ASSUME NEW v \in DicrWords, WriteDicr(v)
      PROVE  Sound(inter, inter')
  BY <1>0, <1>5, GuestWords, WriteDicrStep
<1>6. ASSUME DmaGpuEvent
      PROVE  Sound(inter, inter')
  BY <1>0, <1>6, DmaGpuEventStep
<1>7. ASSUME NEW ready \in Ready, MdecEvent(ready)
      PROVE  Sound(inter, inter')
  BY <1>0, <1>7, MdecEventStep
<1> QED
  BY <1>1, <1>2, <1>3, <1>4, <1>5, <1>6, <1>7 DEF Next

(* Every action keeps the invariant.                                       *)
LEMMA NextIInv == IInv /\ [Next]_inter => IInv'
<1> SUFFICES ASSUME IInv, [Next]_inter PROVE IInv'
  OBVIOUS
<1>1. CASE Sound(inter, inter')
  BY <1>1 DEF IInv, Sound, Step
<1>2. ASSUME NEW keep \in SUBSET Lines, GuestIStat(keep)
      PROVE  IInv'
  BY <1>2, GuestIStatStep DEF IInv
<1>3. CASE UNCHANGED inter
  BY <1>3 DEF IInv
<1> QED
  BY <1>1, <1>2, <1>3, NextSound

(* So it always holds.                                                     *)
LEMMA SpecIInv == Spec => []IInv
  BY InitIInv, NextIInv, PTL DEF Spec

(* The registers stay in the state space the module declares, whatever the *)
(* guest writes and wherever its lists lead.                               *)
THEOREM TypeCorrect == Spec => []TypeOK
<1>1. IInv => TypeOK
  BY DEF IInv, Coherent, TypeOK
<1> QED
  BY <1>1, SpecIInv, PTL

(* DICR.31, cached by dma_update_irq, always equals its definition.        *)
THEOREM MasterFlagIsDerived == Spec => []MasterFlagDerived
<1>1. IInv => MasterFlagDerived
  BY DEF IInv, Coherent, MasterFlagDerived
<1> QED
  BY <1>1, SpecIInv, PTL

(* The IRQ3 line is low whenever DICR.31 is, so that it can rise again.    *)
THEOREM LineIsFreeToRise == Spec => []LineFollowsMaster
<1>1. IInv => LineFollowsMaster
  BY DEF IInv, Coherent, LineFollowsMaster
<1> QED
  BY <1>1, SpecIInv, PTL

(* No transfer in flight is stranded without its event.                    *)
THEOREM NoTransferStranded == Spec => []InFlightIsScheduled
<1>1. IInv => InFlightIsScheduled
  BY DEF IInv, Scheduled, GpuScheduled, MdecScheduled, InFlightIsScheduled,
         InFlight, MdecChannels
<1> QED
  BY <1>1, SpecIInv, PTL

(* Every rise of DICR.31 is an edge that I_STAT latches.                   *)
THEOREM MasterRiseIsLatched == Spec => MasterRiseIsPending
<1> DEFINE A == ~inter.master_irq_flag /\ inter'.master_irq_flag
                  => "DMA" \in inter'.irq.status
<1>1. IInv /\ [Next]_inter => [A]_inter
  <2> SUFFICES ASSUME IInv, Next PROVE A
    OBVIOUS
  <2>1. CASE Sound(inter, inter')
    BY <2>1 DEF Sound, Step
  <2>2. ASSUME NEW keep \in SUBSET Lines, GuestIStat(keep)
        PROVE  A
    BY <2>2, GuestIStatStep DEF IInv
  <2> QED
    BY <2>1, <2>2, NextSound
<1> QED
  BY <1>1, SpecIInv, PTL DEF Spec, MasterRiseIsPending

(* What the controller keeps twice, and keeps in the event queue, agrees.  *)
THEOREM ControllerStaysSound == Spec => []ControllerIsSound
<1>1. TypeOK /\ MasterFlagDerived /\ LineFollowsMaster /\ InFlightIsScheduled
        => ControllerIsSound
  BY DEF ControllerIsSound
<1> QED
  BY <1>1, TypeCorrect, MasterFlagIsDerived, LineIsFreeToRise, NoTransferStranded, PTL

-----------------------------------------------------------------------------
(* Each channel: its slices agree with its registers, a start is kept and  *)
(* an end is heard.                                                        *)

(* What follows is about one channel at a time.  From s to t the master    *)
(* enables and the interrupt enables stand and no completion is taken      *)
(* back;                                                                   *)
Rest(s, t) == /\ t.control = s.control
              /\ t.channel_irq_enable = s.channel_irq_enable
              /\ s.channel_irq_flags \subseteq t.channel_irq_flags

ListSame(s, t)  == t.gpu_ll_active = s.gpu_ll_active /\ t.gpu_ll_addr = s.gpu_ll_addr
GuestSame(s, t) == t.guest_regs = s.guest_regs /\ t.guest_madr = s.guest_madr

(* nothing happens to channel c;                                           *)
Untouched(s, t, c) ==
  /\ t.channels[c] = s.channels[c]
  /\ t.guest_madr[c] = s.guest_madr[c]
  /\ c \in t.guest_regs <=> c \in s.guest_regs
  /\ c \in MdecChannels => t.mdec[c] = s.mdec[c]
  /\ c = 2 => ListSame(s, t)

(* nothing happens to any but those in cs.                                 *)
Only(s, t, cs) == Rest(s, t) /\ \A d \in Channels \ cs : Untouched(s, t, d)

(* The guest hears of an end of channel c.                                 *)
Heard(s, t, c) == c \in s.channel_irq_enable => c \in t.channel_irq_flags

(* Which of the slices in flight is a channel's.                           *)
LEMMA InFlightIs ==
  ASSUME NEW s, NEW c \in Channels
  PROVE  /\ c \in MdecChannels => InFlight(s, c) = s.mdec[c].active
         /\ c = 2 => InFlight(s, c) = s.gpu_ll_active
         /\ c \notin MdecChannels /\ c # 2 => InFlight(s, c) = FALSE
<1>1. CASE c \in MdecChannels
  <2>1. c # 2
    BY <1>1 DEF MdecChannels
  <2> QED
    BY <1>1, <2>1 DEF InFlight
<1>2. CASE c = 2
  <2>1. c \notin MdecChannels
    BY <1>2 DEF MdecChannels
  <2> QED
    BY <1>2, <2>1 DEF InFlight
<1>3. CASE c \notin MdecChannels /\ c # 2
  BY <1>3 DEF InFlight
<1> QED
  BY <1>1, <1>2, <1>3

(* A transfer in flight is not touched either.                             *)
LEMMA UntouchedInFlight ==
  ASSUME NEW s, NEW t, NEW c \in Channels, Untouched(s, t, c)
  PROVE  InFlight(t, c) = InFlight(s, c)
<1>1. CASE c \in MdecChannels
  BY <1>1, InFlightIs DEF Untouched
<1>2. CASE c = 2
  <2>1. InFlight(s, c) = s.gpu_ll_active /\ InFlight(t, c) = t.gpu_ll_active
    BY <1>2, InFlightIs
  <2> QED
    BY <1>2, <2>1 DEF Untouched, ListSame
<1>3. CASE c \notin MdecChannels /\ c # 2
  BY <1>3, InFlightIs
<1> QED
  BY <1>1, <1>2, <1>3

(* Such steps chain.                                                       *)
LEMMA RestTrans ==
  ASSUME NEW s, NEW t, NEW u, Rest(s, t), Rest(t, u)
  PROVE  Rest(s, u)
  BY DEF Rest

(* What is untouched twice is untouched.                                   *)
LEMMA UntouchedTrans ==
  ASSUME NEW s, NEW t, NEW u, NEW c, Untouched(s, t, c), Untouched(t, u, c)
  PROVE  Untouched(s, u, c)
  BY DEF Untouched, ListSame

(* Steps about the same channels chain,                                    *)
LEMMA OnlyTrans ==
  ASSUME NEW s, NEW t, NEW u, NEW cs, Only(s, t, cs), Only(t, u, cs)
  PROVE  Only(s, u, cs)
  BY RestTrans, UntouchedTrans DEF Only

(* nothing done is about none of them,                                     *)
LEMMA OnlyRefl ==
  ASSUME NEW s, NEW cs
  PROVE  Only(s, s, cs)
  BY DEF Only, Rest, Untouched, ListSame

(* and more channels may be allowed for.                                   *)
LEMMA OnlyWider ==
  ASSUME NEW s, NEW t, NEW cs, NEW ds, Only(s, t, cs), cs \subseteq ds
  PROVE  Only(s, t, ds)
  BY DEF Only

(* The interrupt and the queue alone: no channel is touched.               *)
Aside(s, t) == /\ Rest(s, t) /\ ListSame(s, t) /\ GuestSame(s, t)
               /\ t.mdec = s.mdec /\ t.channels = s.channels

(* Such a step is about no channel.                                        *)
LEMMA AsideOnly ==
  ASSUME NEW s, NEW t, Aside(s, t)
  PROVE  Only(s, t, {})
  BY DEF Aside, Only, Untouched, GuestSame

(* dma_update_irq,                                                         *)
LEMMA UpdateIrqAside ==
  ASSUME NEW s \in State
  PROVE  Aside(s, UpdateIrq(s))
<1> DEFINE t == UpdateIrq(s)
<1>1. /\ t.control = s.control /\ t.channel_irq_enable = s.channel_irq_enable
      /\ t.channel_irq_flags = s.channel_irq_flags
      /\ t.gpu_ll_active = s.gpu_ll_active /\ t.gpu_ll_addr = s.gpu_ll_addr
      /\ t.guest_regs = s.guest_regs /\ t.guest_madr = s.guest_madr
      /\ t.mdec = s.mdec /\ t.channels = s.channels
  BY DEF UpdateIrq, State
<1> QED
  BY <1>1 DEF Aside, Rest, ListSame, GuestSame

(* a bus error,                                                            *)
LEMMA FlagBusErrorAside ==
  ASSUME NEW s \in State
  PROVE  Aside(s, FlagBusError(s))
<1> DEFINE t == [s EXCEPT !.force_irq = TRUE]
<1>1. t \in State /\ Aside(s, t)
  BY DEF State, Aside, Rest, ListSame, GuestSame
<1>2. Aside(t, UpdateIrq(t))
  BY <1>1, UpdateIrqAside
<1> HIDE DEF t
<1>3. Aside(s, UpdateIrq(t))
  BY <1>1, <1>2 DEF Aside, Rest, ListSame, GuestSame
<1>4. Aside(s, s)
  BY DEF Aside, Rest, ListSame, GuestSame
<1>5. FlagBusError(s) = IF s.force_irq THEN s ELSE UpdateIrq(t)
  BY DEF FlagBusError, t
<1> QED
  BY <1>3, <1>4, <1>5

(* a completion, which the guest hears of,                                 *)
LEMMA FlagCompletionAside ==
  ASSUME NEW s \in State, NEW c \in Channels
  PROVE  Aside(s, FlagCompletion(s, c)) /\ Heard(s, FlagCompletion(s, c), c)
<1> DEFINE t == [s EXCEPT !.channel_irq_flags = @ \cup {c}]
<1>1. t \in State /\ Aside(s, t) /\ c \in t.channel_irq_flags
  BY DEF State, Aside, Rest, ListSame, GuestSame
<1>2. Aside(t, UpdateIrq(t))
  BY <1>1, UpdateIrqAside
<1> HIDE DEF t
<1>3. Aside(s, UpdateIrq(t)) /\ c \in UpdateIrq(t).channel_irq_flags
  BY <1>1, <1>2 DEF Aside, Rest, ListSame, GuestSame
<1>4. Aside(s, s)
  BY DEF Aside, Rest, ListSame, GuestSame
<1>5. FlagCompletion(s, c) = IF c \in s.channel_irq_enable THEN UpdateIrq(t) ELSE s
  BY DEF FlagCompletion, t
<1> QED
  BY <1>3, <1>4, <1>5 DEF Heard

(* and what goes into the queue and out of it.                             *)
LEMMA QueueAside ==
  ASSUME NEW s \in State, NEW e
  PROVE  Aside(s, Schedule(s, e)) /\ Aside(s, Take(s, e))
  BY DEF State, Aside, Rest, ListSame, GuestSame, Schedule, Take
-----------------------------------------------------------------------------
(* Assignments to one channel.                                             *)

(* A channel is written and everything else stands;                        *)
LEMMA SetChannelFields ==
  ASSUME NEW s \in State, NEW c \in Channels, NEW ch
  PROVE  /\ Rest(s, SetChannel(s, c, ch)) /\ ListSame(s, SetChannel(s, c, ch))
         /\ GuestSame(s, SetChannel(s, c, ch)) /\ SetChannel(s, c, ch).mdec = s.mdec
         /\ SetChannel(s, c, ch).channels[c] = ch
         /\ \A d \in Channels \ {c} : SetChannel(s, c, ch).channels[d] = s.channels[d]
<1> DEFINE t == SetChannel(s, c, ch)
<1>1. /\ Rest(s, t) /\ ListSame(s, t) /\ GuestSame(s, t) /\ t.mdec = s.mdec
      /\ t.channels = [s.channels EXCEPT ![c] = ch]
  BY DEF State, Rest, ListSame, GuestSame, SetChannel
<1>2. s.channels \in [Channels -> Channel]
  BY DEF State
<1> HIDE DEF t
<1>3. t.channels[c] = ch /\ \A d \in Channels \ {c} : t.channels[d] = s.channels[d]
  BY <1>1, <1>2
<1> QED
  BY <1>1, <1>3 DEF t

(* so it is about that channel only.                                       *)
LEMMA SetChannelOnly ==
  ASSUME NEW s \in State, NEW c \in Channels, NEW ch
  PROVE  Only(s, SetChannel(s, c, ch), {c})
<1> DEFINE t == SetChannel(s, c, ch)
<1>1. /\ Rest(s, t) /\ ListSame(s, t) /\ GuestSame(s, t) /\ t.mdec = s.mdec
      /\ \A d \in Channels \ {c} : t.channels[d] = s.channels[d]
  BY SetChannelFields
<1> HIDE DEF t
<1> QED
  BY <1>1 DEF Only, Untouched, GuestSame, t

(* The end of a transfer: the channel is no longer active, its MADR stays  *)
(* where it is, and the guest hears of it.                                 *)
LEMMA SignalDoneFields ==
  ASSUME NEW s, Coherent(s), NEW c \in Channels
  PROVE  /\ Only(s, SignalDone(s, c), {c})
         /\ ListSame(s, SignalDone(s, c)) /\ GuestSame(s, SignalDone(s, c))
         /\ SignalDone(s, c).mdec = s.mdec
         /\ ~IsActive(SignalDone(s, c).channels[c])
         /\ SignalDone(s, c).channels[c].base_addr = s.channels[c].base_addr
         /\ Heard(s, SignalDone(s, c), c)
<1> DEFINE ch == [s.channels[c] EXCEPT !.enable = FALSE, !.trigger = FALSE]
           m  == SetChannel(s, c, ch)
           t  == FlagCompletion(m, c)
<1>1. s \in State /\ s.channels[c] \in Channel
  BY DEF Coherent, State
<1>2. ch.enable = FALSE /\ ch.base_addr = s.channels[c].base_addr /\ ch \in Channel
  BY <1>1 DEF Channel
<1>3. SignalDone(s, c) = t
  BY DEF SignalDone, ChannelDone
<1> HIDE DEF ch
<1>4. m \in State
  BY <1>2, SetChannelStep DEF Quiet, Step, Coherent
<1>5. /\ Rest(s, m) /\ ListSame(s, m) /\ GuestSame(s, m) /\ m.mdec = s.mdec
      /\ m.channels[c] = ch /\ Only(s, m, {c})
  BY <1>1, SetChannelFields, SetChannelOnly
<1> HIDE DEF m
<1>6. Aside(m, t) /\ Heard(m, t, c)
  BY <1>4, FlagCompletionAside
<1> HIDE DEF t
<1>7. Only(m, t, {c})
  BY <1>6, AsideOnly, OnlyWider
<1>8. Only(s, t, {c})
  BY <1>5, <1>7, OnlyTrans
<1>9. ListSame(s, t) /\ GuestSame(s, t) /\ t.mdec = s.mdec /\ t.channels[c] = ch
  BY <1>5, <1>6 DEF Aside, ListSame, GuestSame
<1>10. Heard(s, t, c)
  BY <1>5, <1>6 DEF Heard, Rest
<1> QED
  BY <1>2, <1>3, <1>8, <1>9, <1>10 DEF IsActive

(* Writing back moves MADR and BCR, and neither if the guest wrote one of  *)
(* them.                                                                   *)
LEMMA ProgressKeepsActive ==
  ASSUME NEW ch \in Channel, NEW next, NEW remaining
  PROVE  IsActive(Progress(ch, next, remaining)) <=> IsActive(ch)
  BY DEF Progress, IsActive, Channel

(* A block's progress.                                                     *)
LEMMA WritebackFields ==
  ASSUME NEW s \in State, NEW c \in Channels, NEW next, NEW remaining
  PROVE  /\ Only(s, Writeback(s, c, next, remaining), {c})
         /\ ListSame(s, Writeback(s, c, next, remaining))
         /\ GuestSame(s, Writeback(s, c, next, remaining))
         /\ Writeback(s, c, next, remaining).mdec = s.mdec
         /\ c \in s.guest_regs
              => Writeback(s, c, next, remaining).channels[c] = s.channels[c]
         /\ IsActive(Writeback(s, c, next, remaining).channels[c])
              <=> IsActive(s.channels[c])
<1>1. s.channels[c] \in Channel
  BY DEF State
<1>2. CASE c \in s.guest_regs
  BY <1>2, OnlyRefl DEF Writeback, ListSame, GuestSame
<1>3. CASE c \notin s.guest_regs
  <2> DEFINE ch == Progress(s.channels[c], next, remaining)
  <2>1. Writeback(s, c, next, remaining) = SetChannel(s, c, ch)
    BY <1>3 DEF Writeback
  <2>2. IsActive(ch) <=> IsActive(s.channels[c])
    BY <1>1, ProgressKeepsActive
  <2> HIDE DEF ch
  <2> QED
    BY <1>3, <2>1, <2>2, SetChannelFields, SetChannelOnly
<1> QED
  BY <1>2, <1>3

(* A list's progress.                                                      *)
LEMMA WritebackListFields ==
  ASSUME NEW s \in State, NEW c \in Channels, NEW madr
  PROVE  /\ Only(s, WritebackList(s, c, madr), {c})
         /\ ListSame(s, WritebackList(s, c, madr))
         /\ GuestSame(s, WritebackList(s, c, madr))
         /\ WritebackList(s, c, madr).mdec = s.mdec
         /\ c \in s.guest_regs => WritebackList(s, c, madr).channels[c] = s.channels[c]
<1>1. CASE c \in s.guest_regs
  BY <1>1, OnlyRefl DEF WritebackList, ListSame, GuestSame
<1>2. CASE c \notin s.guest_regs
  <2> DEFINE ch == [s.channels[c] EXCEPT !.base_addr = madr]
  <2>1. WritebackList(s, c, madr) = SetChannel(s, c, ch)
    BY <1>2 DEF WritebackList
  <2> HIDE DEF ch
  <2> QED
    BY <1>2, <2>1, SetChannelFields, SetChannelOnly
<1> QED
  BY <1>1, <1>2

(* Moving the list on is about channel 2, setting a half about its own.    *)
LEMMA SetListFields ==
  ASSUME NEW s \in State, NEW a, NEW b
  PROVE  /\ Only(s, SetList(s, a, b), {2})
         /\ GuestSame(s, SetList(s, a, b)) /\ SetList(s, a, b).mdec = s.mdec
         /\ SetList(s, a, b).channels = s.channels
         /\ SetList(s, a, b).gpu_ll_active = b
<1> DEFINE t == SetList(s, a, b)
<1>1. /\ Rest(s, t) /\ GuestSame(s, t) /\ t.mdec = s.mdec /\ t.channels = s.channels
      /\ t.gpu_ll_active = b
  BY DEF State, Rest, GuestSame, SetList
<1> HIDE DEF t
<1>2. Only(s, t, {2})
  BY <1>1 DEF Only, Untouched, GuestSame
<1> QED
  BY <1>1, <1>2 DEF t

(* A half is set and the registers stand.                                  *)
LEMMA SetMdecFields ==
  ASSUME NEW s \in State, NEW c \in MdecChannels, NEW d
  PROVE  /\ Only(s, SetMdec(s, c, d), {c})
         /\ GuestSame(s, SetMdec(s, c, d)) /\ SetMdec(s, c, d).channels = s.channels
         /\ SetMdec(s, c, d).mdec[c] = d
<1> DEFINE t == SetMdec(s, c, d)
<1>1. /\ Rest(s, t) /\ ListSame(s, t) /\ GuestSame(s, t) /\ t.channels = s.channels
      /\ t.mdec = [s.mdec EXCEPT ![c] = d]
  BY DEF State, Rest, ListSame, GuestSame, SetMdec
<1>2. DOMAIN s.mdec = MdecChannels
  BY DEF State
<1> HIDE DEF t
<1>3. t.mdec[c] = d /\ \A e \in MdecChannels \ {c} : t.mdec[e] = s.mdec[e]
  BY <1>1, <1>2
<1>4. Only(s, t, {c})
  BY <1>1, <1>3 DEF Only, Untouched, GuestSame
<1> QED
  BY <1>1, <1>3, <1>4 DEF t

(* What holds of channel c between two handlers: a half in flight is busy  *)
(* and has words left, and the MADR the guest wrote is still there, and    *)
(* known to be the guest's as long as there are slices to write back.      *)
Sane(s, c) ==
  /\ c \in MdecChannels /\ s.mdec[c].active
       => IsActive(s.channels[c]) /\ s.mdec[c].remaining > 0
  /\ s.guest_madr[c] # None
       => /\ s.channels[c].base_addr = s.guest_madr[c]
          /\ InFlight(s, c) => c \in s.guest_regs

(* Channel c does not wait for what has come already.                      *)
Runs(s, c) == c \in s.control /\ IsActive(s.channels[c]) => InFlight(s, c)

(* From s to t channel c is left in flight, or it is over and was heard.   *)
Settled(s, t, c) == \/ InFlight(t, c)
                    \/ ~IsActive(t.channels[c]) /\ Heard(s, t, c)

(* From s to t a transfer of channel c is carried on, none is started, and *)
(* the GPU's list does not move.                                           *)
Carried(s, t, c) ==
  /\ Sane(s, c) => Sane(t, c)
  /\ ~InFlight(s, c) => /\ ~InFlight(t, c)
                        /\ t.channels[c] = s.channels[c]
                        /\ c \in MdecChannels => t.mdec[c] = s.mdec[c]
  /\ InFlight(s, c) =>
       /\ Settled(s, t, c)
       /\ c \in MdecChannels => t.mdec[c].remaining <= s.mdec[c].remaining
  /\ c = 2 => ListSame(s, t)

(* What is not touched is carried.                                         *)
LEMMA UntouchedIsCarried ==
  ASSUME NEW s \in State, NEW t, NEW c \in Channels, Untouched(s, t, c)
  PROVE  Carried(s, t, c)
<1>1. InFlight(t, c) = InFlight(s, c)
  BY UntouchedInFlight
<1>2. Sane(s, c) => Sane(t, c)
  BY <1>1 DEF Sane, Untouched
<1>3. c \in MdecChannels => t.mdec[c].remaining <= s.mdec[c].remaining
  <2> SUFFICES ASSUME c \in MdecChannels
               PROVE  t.mdec[c].remaining <= s.mdec[c].remaining
    OBVIOUS
  <2>1. s.mdec[c].remaining \in 0..MaxWords
    BY DEF State
  <2>2. t.mdec[c] = s.mdec[c]
    BY DEF Untouched
  <2> QED
    BY <2>1, <2>2, Sizes
<1> QED
  BY <1>1, <1>2, <1>3 DEF Carried, Untouched, Settled

(* Carrying on chains.                                                     *)
LEMMA CarriedTrans ==
  ASSUME NEW s \in State, NEW t \in State, NEW u \in State, NEW c \in Channels,
         Carried(s, t, c), Rest(s, t), Carried(t, u, c), Rest(t, u)
  PROVE  Carried(s, u, c)
<1>1. c \in MdecChannels => /\ s.mdec[c].remaining \in Nat
                            /\ t.mdec[c].remaining \in Nat
                            /\ u.mdec[c].remaining \in Nat
  BY Sizes DEF State
<1>2. Heard(s, t, c) => Heard(s, u, c)
  BY DEF Heard, Rest
<1>3. Heard(t, u, c) => Heard(s, u, c)
  BY DEF Heard, Rest
<1>4. CASE ~InFlight(s, c)
  BY <1>4 DEF Carried, ListSame
<1>5. CASE InFlight(s, c) /\ InFlight(t, c)
  <2>1. Settled(s, u, c)
    BY <1>3, <1>5 DEF Carried, Settled
  <2>2. c \in MdecChannels => u.mdec[c].remaining <= s.mdec[c].remaining
    BY <1>1, <1>5 DEF Carried
  <2> QED
    BY <1>5, <2>1, <2>2 DEF Carried, ListSame
<1>6. CASE InFlight(s, c) /\ ~InFlight(t, c)
  <2>1. Settled(s, u, c)
    BY <1>2, <1>6 DEF Carried, Settled
  <2>2. c \in MdecChannels => u.mdec[c].remaining <= s.mdec[c].remaining
    BY <1>1, <1>6 DEF Carried
  <2> QED
    BY <1>6, <2>1, <2>2 DEF Carried, ListSame
<1> QED
  BY <1>4, <1>5, <1>6
-----------------------------------------------------------------------------
(* A slice of the MDEC, as one of the two channels sees it: its half runs, *)
(* is written back and is signalled, with steps of the other in between.   *)

(* A half that runs moves on, and is over when it has no words left.       *)
Ran(a, b, c) ==
  /\ b.channels[c] = a.channels[c] /\ b.guest_madr[c] = a.guest_madr[c]
  /\ c \in b.guest_regs <=> c \in a.guest_regs
  /\ ~a.mdec[c].active => b.mdec[c] = a.mdec[c]
  /\ a.mdec[c].active => /\ b.mdec[c].remaining <= a.mdec[c].remaining
                         /\ b.mdec[c].active <=> b.mdec[c].remaining > 0

(* Its progress goes into registers the guest has not written.             *)
Wrote(e, f, old, c) ==
  /\ f.mdec[c] = e.mdec[c] /\ f.guest_madr[c] = e.guest_madr[c]
  /\ c \in f.guest_regs <=> c \in e.guest_regs
  /\ ~old.mdec[c].active \/ c \in e.guest_regs => f.channels[c] = e.channels[c]
  /\ IsActive(f.channels[c]) <=> IsActive(e.channels[c])

(* Its end, if it has come to it, is signalled.                            *)
Ended(g, h, old, c) ==
  /\ h.mdec[c] = g.mdec[c] /\ h.guest_madr[c] = g.guest_madr[c]
  /\ c \in h.guest_regs <=> c \in g.guest_regs
  /\ h.channels[c].base_addr = g.channels[c].base_addr
  /\ IF old.mdec[c].active /\ ~g.mdec[c].active
     THEN ~IsActive(h.channels[c]) /\ Heard(g, h, c)
     ELSE h.channels[c] = g.channels[c]

(* The half of one channel runs.                                           *)
LEMMA MdecRunHalfRan ==
  ASSUME NEW s, Coherent(s), NEW c \in MdecChannels, NEW ready \in 0..SliceWords
  PROVE  Only(s, MdecRunHalf(s, c, ready), {c}) /\ Ran(s, MdecRunHalf(s, c, ready), c)
<1> DEFINE d    == s.mdec[c]
           want == CHOOSE n \in {d.remaining, SliceWords, ready} :
                     \A x \in {d.remaining, SliceWords, ready} : n <= x
           done == InRam(d.addr, want)
           left == IF done < want THEN 0 ELSE d.remaining - done
           e    == IF done < want THEN FlagBusError(s) ELSE s
           new  == [active |-> left > 0, addr |-> d.addr + done, remaining |-> left]
           t    == MdecRunHalf(s, c, ready)
<1>1. /\ d.addr \in Addr /\ d.remaining \in 0..MaxWords /\ d.active \in BOOLEAN
      /\ s \in State
  BY DEF Coherent, State
<1>2. want \in 0..d.remaining /\ want \in Nat
  <2>1. \E n \in {d.remaining, SliceWords, ready} :
          \A x \in {d.remaining, SliceWords, ready} : n <= x
    BY <1>1, Sizes
  <2>2. want \in {d.remaining, SliceWords, ready} /\ want <= d.remaining
    BY <2>1
  <2>3. d.remaining \in Nat
    BY <1>1, Sizes
  <2> HIDE DEF want, d
  <2> QED
    BY <2>2, <2>3, Sizes
<1>7. t = IF d.active THEN SetMdec(e, c, new) ELSE s
  BY DEF MdecRunHalf
<1>a. Aside(s, e) /\ e \in State
  <2>1. Aside(s, s)
    BY DEF Aside, Rest, ListSame, GuestSame
  <2>2. Coherent(FlagBusError(s))
    BY FlagBusErrorStep, QuietKeepsSchedule
  <2> QED
    BY <1>1, <2>1, <2>2, FlagBusErrorAside DEF Coherent
<1> HIDE DEF e
<1> HIDE DEF d, want
<1>3. done \in 0..want
  BY <1>1, <1>2, InRamBounds
<1> HIDE DEF done
<1>4. left \in 0..MaxWords /\ left <= d.remaining
  BY <1>1, <1>2, <1>3, Sizes
<1> HIDE DEF left
<1>5. new.remaining = left /\ (new.active <=> left > 0)
  OBVIOUS
<1> HIDE DEF new, t
<1>8. CASE d.active
  <2>1. t = SetMdec(e, c, new)
    BY <1>7, <1>8
  <2>2. /\ Only(e, t, {c}) /\ GuestSame(e, t) /\ t.channels = e.channels
        /\ t.mdec[c] = new
    BY <1>a, <2>1, SetMdecFields
  <2>3. Only(s, t, {c})
    BY <1>a, <2>2, AsideOnly, OnlyWider, OnlyTrans
  <2>4. GuestSame(s, t) /\ t.channels = s.channels
    BY <1>a, <2>2 DEF Aside, GuestSame
  <2> QED
    BY <1>4, <1>5, <1>8, <2>2, <2>3, <2>4 DEF Ran, GuestSame, d, t
<1>9. CASE ~d.active
  BY <1>7, <1>9, OnlyRefl DEF Ran, d, t
<1> QED
  BY <1>1, <1>8, <1>9 DEF t

(* It is written back.                                                     *)
LEMMA MdecWritebackWrote ==
  ASSUME NEW s \in State, NEW old, NEW c \in MdecChannels
  PROVE  /\ Only(s, MdecWriteback(s, old, c), {c})
         /\ Wrote(s, MdecWriteback(s, old, c), old, c)
<1> DEFINE t == MdecWriteback(s, old, c)
<1>1. c \in Channels
  BY DEF MdecChannels, Channels
<1>2. CASE old.mdec[c].active
  <2>1. t = Writeback(s, c, s.mdec[c].addr, s.mdec[c].remaining)
    BY <1>2 DEF MdecWriteback
  <2>2. /\ Only(s, t, {c}) /\ GuestSame(s, t) /\ t.mdec = s.mdec
        /\ c \in s.guest_regs => t.channels[c] = s.channels[c]
        /\ IsActive(t.channels[c]) <=> IsActive(s.channels[c])
    BY <1>1, <2>1, WritebackFields
  <2> HIDE DEF t
  <2> QED
    BY <1>2, <2>2 DEF Wrote, GuestSame, t
<1>3. CASE ~old.mdec[c].active
  BY <1>3, OnlyRefl DEF MdecWriteback, Wrote
<1> QED
  BY <1>2, <1>3

(* It is signalled.                                                        *)
LEMMA MdecSignalEnded ==
  ASSUME NEW s, Coherent(s), NEW old, NEW c \in MdecChannels
  PROVE  /\ Only(s, MdecSignal(s, old, c), {c})
         /\ Ended(s, MdecSignal(s, old, c), old, c)
<1> DEFINE t == MdecSignal(s, old, c)
<1>1. c \in Channels
  BY DEF MdecChannels, Channels
<1>2. CASE old.mdec[c].active /\ ~s.mdec[c].active
  <2>1. t = SignalDone(s, c)
    BY <1>2 DEF MdecSignal
  <2>2. /\ Only(s, t, {c}) /\ GuestSame(s, t) /\ t.mdec = s.mdec
        /\ ~IsActive(t.channels[c]) /\ Heard(s, t, c)
        /\ t.channels[c].base_addr = s.channels[c].base_addr
    BY <1>1, <2>1, SignalDoneFields
  <2> HIDE DEF t
  <2> QED
    BY <1>2, <2>2 DEF Ended, GuestSame, t
<1>3. CASE ~(old.mdec[c].active /\ ~s.mdec[c].active)
  BY <1>3, OnlyRefl DEF MdecSignal, Ended
<1> QED
  BY <1>2, <1>3

(* Put together, the channel is carried on.                                *)
LEMMA HalfIsCarried ==
  ASSUME NEW c \in MdecChannels, NEW s \in State, NEW t \in State, Rest(s, t),
         NEW a, NEW b, NEW e, NEW f, NEW g, NEW h,
         Untouched(s, a, c), Ran(a, b, c),
         Untouched(b, e, c), Wrote(e, f, s, c),
         Untouched(f, g, c), Rest(s, g), Ended(g, h, s, c), Rest(h, t),
         Untouched(h, t, c)
  PROVE  Carried(s, t, c)
<1>0. c \in Channels /\ c # 2
  BY DEF MdecChannels, Channels
<1>1. /\ InFlight(s, c) = s.mdec[c].active /\ InFlight(t, c) = t.mdec[c].active
      /\ s.mdec[c].active \in BOOLEAN /\ t.mdec[c].active \in BOOLEAN
  BY <1>0, InFlightIs DEF State
<1>2. a.mdec[c] = s.mdec[c] /\ t.mdec[c] = b.mdec[c] /\ g.mdec[c] = b.mdec[c]
  BY DEF Untouched, Wrote, Ended
<1>3. t.guest_madr[c] = s.guest_madr[c] /\ (c \in t.guest_regs <=> c \in s.guest_regs)
      /\ (c \in e.guest_regs <=> c \in s.guest_regs)
  BY DEF Untouched, Ran, Wrote, Ended
<1>4. e.channels[c] = s.channels[c] /\ g.channels[c] = f.channels[c]
      /\ t.channels[c] = h.channels[c]
  BY DEF Untouched, Ran
<1>5. CASE ~s.mdec[c].active
  <2>1. t.mdec[c] = s.mdec[c]
    BY <1>2, <1>5 DEF Ran
  <2>2. t.channels[c] = s.channels[c]
    BY <1>4, <1>5 DEF Wrote, Ended
  <2> QED
    BY <1>0, <1>1, <1>3, <1>5, <2>1, <2>2 DEF Carried, Sane
<1>6. CASE s.mdec[c].active
  <2>1. /\ t.mdec[c].remaining <= s.mdec[c].remaining
        /\ t.mdec[c].active <=> t.mdec[c].remaining > 0
    BY <1>2, <1>6 DEF Ran
  <2>2. c \in s.guest_regs => t.channels[c].base_addr = s.channels[c].base_addr
    BY <1>3, <1>4 DEF Wrote, Ended
  <2>3. t.mdec[c].active => (IsActive(t.channels[c]) <=> IsActive(s.channels[c]))
    BY <1>2, <1>4 DEF Wrote, Ended
  <2>4. ~t.mdec[c].active => ~IsActive(t.channels[c]) /\ Heard(s, t, c)
    BY <1>2, <1>4, <1>6 DEF Ended, Heard, Rest
  <2>5. Settled(s, t, c)
    BY <1>1, <2>4 DEF Settled
  <2>6. Sane(s, c) => Sane(t, c)
    BY <1>1, <1>3, <1>6, <2>1, <2>2, <2>3 DEF Sane
  <2> QED
    BY <1>0, <1>1, <1>6, <2>1, <2>5, <2>6 DEF Carried
<1> QED
  BY <1>1, <1>5, <1>6

(* A slice of the MDEC carries both channels on and touches no other.      *)
LEMMA MdecResumeCarries ==
  ASSUME NEW s, Coherent(s), NEW ready \in Ready
  PROVE  /\ Only(s, MdecResume(s, ready), MdecChannels)
         /\ \A c \in MdecChannels : Carried(s, MdecResume(s, ready), c)
<1> DEFINE r0 == MdecRunHalf(s, 0, ready[0])
           r  == MdecRunHalf(r0, 1, ready[1])
           w0 == MdecWriteback(r, s, 0)
           w  == MdecWriteback(w0, s, 1)
           d0 == MdecSignal(w, s, 0)
           d  == MdecSignal(d0, s, 1)
           t  == MdecResume(s, ready)
<1>0. /\ 0 \in MdecChannels /\ 1 \in MdecChannels
      /\ ready[0] \in 0..SliceWords /\ ready[1] \in 0..SliceWords
      /\ 0 \in Channels \ {1} /\ 1 \in Channels \ {0}
      /\ {0} \subseteq MdecChannels /\ {1} \subseteq MdecChannels
  BY DEF MdecChannels, Channels, Ready
<1>1. Coherent(t)
  BY MdecResumeStep DEF Step
<1>2. t = IF d.mdec[0].active \/ d.mdec[1].active THEN Schedule(d, "MDEC") ELSE d
  BY DEF MdecResume
<1> HIDE DEF t
<1>3. Coherent(r0) /\ Only(s, r0, {0}) /\ Ran(s, r0, 0)
  BY <1>0, MdecRunHalfStep, MdecRunHalfRan, QuietKeepsSchedule
<1> HIDE DEF r0
<1>4. Coherent(r) /\ Only(r0, r, {1}) /\ Ran(r0, r, 1)
  BY <1>0, <1>3, MdecRunHalfStep, MdecRunHalfRan, QuietKeepsSchedule
<1> HIDE DEF r
<1>5. Coherent(w0) /\ Only(r, w0, {0}) /\ Wrote(r, w0, s, 0)
  <2>1. r \in State
    BY <1>4 DEF Coherent
  <2> QED
    BY <1>0, <1>4, <2>1, MdecWritebackStep, MdecWritebackWrote, QuietKeepsSchedule
<1> HIDE DEF w0
<1>6. Coherent(w) /\ Only(w0, w, {1}) /\ Wrote(w0, w, s, 1)
  <2>1. w0 \in State
    BY <1>5 DEF Coherent
  <2> QED
    BY <1>0, <1>5, <2>1, MdecWritebackStep, MdecWritebackWrote, QuietKeepsSchedule
<1> HIDE DEF w
<1>7. Coherent(d0) /\ Only(w, d0, {0}) /\ Ended(w, d0, s, 0)
  BY <1>0, <1>6, MdecSignalStep, MdecSignalEnded, QuietKeepsSchedule
<1> HIDE DEF d0
<1>8. Coherent(d) /\ Only(d0, d, {1}) /\ Ended(d0, d, s, 1)
  BY <1>0, <1>7, MdecSignalStep, MdecSignalEnded, QuietKeepsSchedule
<1> HIDE DEF d
<1>9. Only(d, t, {})
  <2>1. d \in State
    BY <1>8 DEF Coherent
  <2>2. Only(d, Schedule(d, "MDEC"), {})
    BY <2>1, QueueAside, AsideOnly
  <2> QED
    BY <1>2, <2>2, OnlyRefl
<1>10. Only(s, t, MdecChannels)
  <2>1. /\ Only(s, r0, MdecChannels) /\ Only(r0, r, MdecChannels)
        /\ Only(r, w0, MdecChannels) /\ Only(w0, w, MdecChannels)
        /\ Only(w, d0, MdecChannels) /\ Only(d0, d, MdecChannels)
        /\ Only(d, t, MdecChannels)
    BY <1>0, <1>3, <1>4, <1>5, <1>6, <1>7, <1>8, <1>9, OnlyWider
  <2>2. Only(s, r, MdecChannels)
    BY <2>1, OnlyTrans
  <2>3. Only(s, w0, MdecChannels)
    BY <2>1, <2>2, OnlyTrans
  <2>4. Only(s, w, MdecChannels)
    BY <2>1, <2>3, OnlyTrans
  <2>5. Only(s, d0, MdecChannels)
    BY <2>1, <2>4, OnlyTrans
  <2>6. Only(s, d, MdecChannels)
    BY <2>1, <2>5, OnlyTrans
  <2> QED
    BY <2>1, <2>6, OnlyTrans
<1>11. /\ s \in State /\ t \in State /\ Rest(s, t)
       /\ Rest(s, w) /\ Rest(s, d0) /\ Rest(d0, t) /\ Rest(d, t)
  <2>1. /\ Rest(s, r0) /\ Rest(r0, r) /\ Rest(r, w0) /\ Rest(w0, w)
        /\ Rest(w, d0) /\ Rest(d0, d) /\ Rest(d, t)
    BY <1>3, <1>4, <1>5, <1>6, <1>7, <1>8, <1>9 DEF Only
  <2>2. Rest(s, r)
    BY <2>1, RestTrans
  <2>3. Rest(s, w0)
    BY <2>1, <2>2, RestTrans
  <2>4. Rest(s, w)
    BY <2>1, <2>3, RestTrans
  <2>5. Rest(s, d0) /\ Rest(d0, t)
    BY <2>1, <2>4, RestTrans
  <2> QED
    BY <1>1, <1>10, <2>1, <2>4, <2>5 DEF Only, Coherent
<1>12. Carried(s, t, 0)
  <2>1. Untouched(s, s, 0) /\ Untouched(r0, r, 0) /\ Untouched(w0, w, 0)
    BY <1>0, <1>4, <1>6 DEF Only, Untouched, ListSame
  <2>2. Untouched(d0, t, 0)
    <3>1. Untouched(d0, d, 0) /\ Untouched(d, t, 0)
      BY <1>0, <1>8, <1>9 DEF Only
    <3> QED
      BY <3>1, UntouchedTrans
  <2> QED
    BY <1>0, <1>3, <1>5, <1>7, <1>11, <2>1, <2>2, HalfIsCarried
<1>13. Carried(s, t, 1)
  <2>1. Untouched(s, r0, 1) /\ Untouched(r, w0, 1) /\ Untouched(w, d0, 1)
    BY <1>0, <1>3, <1>5, <1>7 DEF Only
  <2>2. Untouched(d, t, 1)
    BY <1>0, <1>9 DEF Only
  <2> QED
    BY <1>0, <1>4, <1>6, <1>8, <1>11, <2>1, <2>2, HalfIsCarried
<1> QED
  BY <1>10, <1>12, <1>13 DEF t, MdecChannels

(* Channel 2, and a kick of any channel.                                   *)

(* Following a list moves it, and may end it.                              *)
LEMMA FollowFields ==
  ASSUME NEW s, Coherent(s), NEW ends \in [Node -> 0..Runaway]
  PROVE  /\ Only(s, Follow(s, ends), {2}) /\ GuestSame(s, Follow(s, ends))
         /\ Follow(s, ends).mdec = s.mdec
         /\ Follow(s, ends).channels = s.channels
<1> DEFINE e == FlagBusError(s)
           t == Follow(s, ends)
<1>1. s \in State /\ e \in State /\ Aside(s, e)
  BY FlagBusErrorStep, FlagBusErrorAside, QuietKeepsSchedule DEF Coherent
<1>2. \/ \E a, b : t = SetList(s, a, b)
      \/ \E a, b : t = SetList(e, a, b)
  <2> DEFINE stop == IF s.gpu_ll_addr \in Node THEN ends[s.gpu_ll_addr] ELSE Runaway
  <2>1. t = StopList(s, stop)
    BY DEF Follow
  <2> HIDE DEF stop, t
  <2>2. EndMarker \notin Node /\ OutOfRange \notin Node /\ EndMarker # OutOfRange
    BY Sizes DEF EndMarker, OutOfRange, Node
  <2>3. CASE stop \in Node
    BY <2>1, <2>2, <2>3 DEF StopList
  <2>4. CASE stop = EndMarker
    BY <2>1, <2>2, <2>4 DEF StopList
  <2>5. CASE stop = OutOfRange
    BY <2>1, <2>2, <2>5 DEF StopList
  <2>6. CASE stop \notin Node \cup {EndMarker, OutOfRange}
    BY <2>1, <2>6 DEF StopList
  <2> QED
    BY <2>3, <2>4, <2>5, <2>6
<1> HIDE DEF e, t
<1>3. ASSUME NEW a, NEW b, t = SetList(s, a, b)
      PROVE  Only(s, t, {2}) /\ GuestSame(s, t) /\ t.mdec = s.mdec /\ t.channels = s.channels
  BY <1>1, <1>3, SetListFields
<1>4. ASSUME NEW a, NEW b, t = SetList(e, a, b)
      PROVE  Only(s, t, {2}) /\ GuestSame(s, t) /\ t.mdec = s.mdec /\ t.channels = s.channels
  <2>1. Only(e, t, {2}) /\ GuestSame(e, t) /\ t.mdec = e.mdec /\ t.channels = e.channels
    BY <1>1, <1>4, SetListFields
  <2>2. Only(s, e, {2})
    BY <1>1, AsideOnly, OnlyWider
  <2>3. Only(s, t, {2})
    BY <2>1, <2>2, OnlyTrans
  <2> QED
    BY <1>1, <2>1, <2>3 DEF Aside, GuestSame
<1> QED
  BY <1>2, <1>3, <1>4 DEF t

(* A slice of the list leaves channel 2 in flight or over, and its MADR to *)
(* the guest.                                                              *)
LEMMA GpuResumeSettles ==
  ASSUME NEW s, Coherent(s)
  PROVE  /\ Only(s, GpuResume(s), {2})
         /\ Sane(s, 2) => Sane(GpuResume(s), 2)
         /\ Settled(s, GpuResume(s), 2)
<1> DEFINE r == GpuRunSlice(s)
           w == IF s.gpu_ll_active THEN WritebackList(r, 2, r.gpu_ll_addr) ELSE r
           t == GpuResume(s)
<1>0. 2 \in Channels /\ 2 \notin MdecChannels
  BY DEF Channels, MdecChannels
<1>1. Quiet(s, r) /\ Coherent(r)
  BY Lists, FollowStep, QuietRefl, QuietKeepsSchedule DEF GpuRunSlice
<1>2. /\ Only(s, r, {2}) /\ GuestSame(s, r) /\ r.channels = s.channels
      /\ ~s.gpu_ll_active => r = s
  BY Lists, FollowFields, OnlyRefl DEF GpuRunSlice, GuestSame
<1>a. t = IF w.gpu_ll_active THEN Schedule(w, "DMA_GPU") ELSE SignalDone(w, 2)
  BY DEF GpuResume
<1> HIDE DEF t, r
<1>3. /\ Only(r, w, {2}) /\ ListSame(r, w) /\ GuestSame(r, w)
      /\ ~s.gpu_ll_active => w.channels = r.channels
      /\ 2 \in r.guest_regs => w.channels[2] = r.channels[2]
  <2>1. r \in State
    BY <1>1 DEF Coherent
  <2> QED
    BY <1>0, <2>1, WritebackListFields, OnlyRefl DEF ListSame, GuestSame
<1>b. Quiet(r, w) /\ Coherent(w)
  <2>1. r.gpu_ll_addr \in Addr
    BY <1>1 DEF Coherent, State
  <2> QED
    BY <1>0, <1>1, <2>1, WritebackListStep, QuietRefl, QuietKeepsSchedule
<1> HIDE DEF w
<1>4. Only(s, w, {2}) /\ GuestSame(s, w)
  BY <1>2, <1>3, OnlyTrans DEF GuestSame
<1>5. w.gpu_ll_active => s.gpu_ll_active
  BY <1>1, <1>b DEF Quiet, GpuQuiet
<1>6. Sane(s, 2) => (w.guest_madr[2] # None => w.channels[2].base_addr = w.guest_madr[2])
  <2>1. CASE ~s.gpu_ll_active
    BY <1>2, <1>3, <1>4, <2>1 DEF Sane, GuestSame
  <2>2. CASE s.gpu_ll_active
    <3>1. InFlight(s, 2)
      BY <1>0, <2>2, InFlightIs
    <3> QED
      BY <1>2, <1>3, <1>4, <3>1 DEF Sane, GuestSame
  <2> QED
    BY <2>1, <2>2
<1>7. CASE w.gpu_ll_active
  <2>1. Aside(w, t)
    BY <1>a, <1>b, <1>7, QueueAside DEF Coherent
  <2>2. Only(s, t, {2})
    BY <1>4, <2>1, AsideOnly, OnlyWider, OnlyTrans
  <2>3. t.gpu_ll_active = w.gpu_ll_active
    BY <2>1 DEF Aside, ListSame
  <2>4. InFlight(t, 2) /\ InFlight(s, 2)
    BY <1>0, <1>5, <1>7, <2>3, InFlightIs
  <2>5. Sane(s, 2) => Sane(t, 2)
    BY <1>0, <1>4, <1>6, <2>1, <2>4 DEF Sane, Aside, GuestSame
  <2> QED
    BY <2>2, <2>4, <2>5 DEF Settled, t
<1>8. CASE ~w.gpu_ll_active
  <2>1. t = SignalDone(w, 2)
    BY <1>a, <1>8
  <2>2. /\ Only(w, t, {2}) /\ ListSame(w, t) /\ GuestSame(w, t)
        /\ ~IsActive(t.channels[2]) /\ Heard(w, t, 2)
        /\ t.channels[2].base_addr = w.channels[2].base_addr
    BY <1>0, <1>b, <2>1, SignalDoneFields
  <2>3. Only(s, t, {2})
    BY <1>4, <2>2, OnlyTrans
  <2>4. Heard(s, t, 2)
    BY <1>4, <2>2 DEF Heard, Only, Rest
  <2>5. InFlight(t, 2) = t.gpu_ll_active /\ t.gpu_ll_active = w.gpu_ll_active
    BY <1>0, <2>2, InFlightIs DEF ListSame
  <2>6. ~InFlight(t, 2)
    BY <1>8, <2>5
  <2>7. Sane(s, 2) => Sane(t, 2)
    BY <1>0, <1>4, <1>6, <2>2, <2>6 DEF Sane, GuestSame
  <2> QED
    BY <2>2, <2>3, <2>4, <2>7 DEF Settled, t
<1> QED
  BY <1>7, <1>8

(* The drain before the next kick leaves the guest its MADR.               *)
LEMMA GpuDrainKeeps ==
  ASSUME NEW s, Coherent(s)
  PROVE  Only(s, GpuDrain(s), {2}) /\ (Sane(s, 2) => Sane(GpuDrain(s), 2))
<1> DEFINE r == Follow(s, ListEnd)
           t == GpuDrain(s)
<1>0. 2 \in Channels /\ 2 \notin MdecChannels
  BY DEF Channels, MdecChannels
<1>1. Quiet(s, r) /\ Coherent(r)
  BY Lists, FollowStep, QuietKeepsSchedule
<1>2. Only(s, r, {2}) /\ GuestSame(s, r) /\ r.channels = s.channels
  BY Lists, FollowFields
<1>3. t = SignalDone(r, 2)
  BY DEF GpuDrain
<1> HIDE DEF r, t
<1>4. /\ Only(r, t, {2}) /\ ListSame(r, t) /\ GuestSame(r, t)
      /\ t.channels[2].base_addr = r.channels[2].base_addr
  BY <1>0, <1>1, <1>3, SignalDoneFields
<1>5. InFlight(t, 2) => InFlight(s, 2)
  <2>1. t.gpu_ll_active => s.gpu_ll_active
    BY <1>1, <1>4 DEF ListSame, Quiet, GpuQuiet
  <2> QED
    BY <1>0, <2>1, InFlightIs
<1>6. Sane(s, 2) => Sane(t, 2)
  BY <1>0, <1>2, <1>4, <1>5 DEF Sane, GuestSame
<1>7. Only(s, t, {2})
  BY <1>2, <1>4, OnlyTrans
<1> QED
  BY <1>6, <1>7 DEF t

(* A block that runs at once is about its own channel and leaves the       *)
(* slices alone.                                                           *)
LEMMA RunBlockFields ==
  ASSUME NEW s, Coherent(s), NEW c \in Channels
  PROVE  /\ Only(s, RunBlock(s, c), {c}) /\ ListSame(s, RunBlock(s, c))
         /\ GuestSame(s, RunBlock(s, c)) /\ RunBlock(s, c).mdec = s.mdec
<1> DEFINE ch   == s.channels[c]
           size == TransferSize(ch)
           n    == InRam(ch.base_addr, size)
           e    == IF n < size THEN FlagBusError(s) ELSE s
           t    == RunBlock(s, c)
<1>1. t = Writeback(e, c, ch.base_addr + n, size - n)
  BY DEF RunBlock
<1>2. e \in State /\ Aside(s, e)
  <2>1. s \in State /\ Aside(s, s)
    BY DEF Coherent, Aside, Rest, ListSame, GuestSame
  <2>2. FlagBusError(s) \in State
    BY FlagBusErrorStep, QuietKeepsSchedule DEF Coherent
  <2> QED
    BY <2>1, <2>2, FlagBusErrorAside
<1> HIDE DEF e, n, size, t
<1>3. /\ Only(e, t, {c}) /\ ListSame(e, t) /\ GuestSame(e, t) /\ t.mdec = e.mdec
  BY <1>1, <1>2, WritebackFields
<1>4. Only(s, t, {c})
  BY <1>2, <1>3, AsideOnly, OnlyWider, OnlyTrans
<1> QED
  BY <1>2, <1>3, <1>4 DEF Aside, ListSame, GuestSame, t

(* dma_writeback_begin: the MADR is the transfer's from here on.           *)
LEMMA WritebackBeginFields ==
  ASSUME NEW s \in State, NEW c \in Channels
  PROVE  /\ Only(s, WritebackBegin(s, c), {c}) /\ ListSame(s, WritebackBegin(s, c))
         /\ WritebackBegin(s, c).mdec = s.mdec
         /\ WritebackBegin(s, c).channels = s.channels
         /\ WritebackBegin(s, c).guest_madr[c] = None
<1> DEFINE t == WritebackBegin(s, c)
<1>1. /\ Rest(s, t) /\ ListSame(s, t) /\ t.mdec = s.mdec /\ t.channels = s.channels
      /\ t.guest_regs = s.guest_regs \ {c}
      /\ t.guest_madr = [s.guest_madr EXCEPT ![c] = None]
  BY DEF State, Rest, ListSame, WritebackBegin, SetGuestRegs
<1>2. s.guest_madr \in [Channels -> Addr \cup {None}]
  BY DEF State
<1> HIDE DEF t
<1>3. t.guest_madr[c] = None /\ \A d \in Channels \ {c} : t.guest_madr[d] = s.guest_madr[d]
  BY <1>1, <1>2
<1>4. Only(s, t, {c})
  BY <1>1, <1>3 DEF Only, Untouched
<1> QED
  BY <1>1, <1>3, <1>4 DEF t

(* From s to t channel c was kicked: its transfer is in flight or over, and *)
(* every other is carried on.                                              *)
Kicked(s, t, c) == /\ Rest(s, t)
                   /\ \A d \in Channels \ {c} : Carried(s, t, d)
                   /\ Sane(t, c)
                   /\ Settled(s, t, c)

(* A step about channel c that leaves it in order is a kick of it.         *)
LEMMA OnlyIsKick ==
  ASSUME NEW s \in State, NEW t, NEW c \in Channels, Only(s, t, {c}),
         Sane(t, c), Settled(s, t, c)
  PROVE  Kicked(s, t, c)
  BY UntouchedIsCarried DEF Only, Kicked

(* A transfer that is over when the register write is.                     *)
LEMMA OverAtOnce ==
  ASSUME NEW s \in State, NEW r, NEW c \in Channels, Coherent(r), Only(s, r, {c}),
         r.guest_madr[c] = None, c \in MdecChannels => ~r.mdec[c].active
  PROVE  Kicked(s, SignalDone(r, c), c)
<1> DEFINE t == SignalDone(r, c)
<1>1. /\ Only(r, t, {c}) /\ GuestSame(r, t) /\ t.mdec = r.mdec
      /\ ~IsActive(t.channels[c]) /\ Heard(r, t, c)
  BY SignalDoneFields
<1> HIDE DEF t
<1>2. Only(s, t, {c})
  BY <1>1, OnlyTrans
<1>3. Sane(t, c)
  BY <1>1 DEF Sane, GuestSame
<1>4. Settled(s, t, c)
  BY <1>1 DEF Settled, Heard, Only, Rest
<1> QED
  BY <1>2, <1>3, <1>4, OnlyIsKick DEF t

(* The switch of interconnect_perform_dma.                                 *)
LEMMA StartTransferKicks ==
  ASSUME NEW s, Coherent(s), NEW c \in Channels, NEW ready \in Ready,
         c \in MdecChannels => ~InFlight(s, c) /\ IsActive(s.channels[c])
  PROVE  Kicked(s, StartTransfer(s, c, ready), c)
<1> DEFINE ch == s.channels[c]
           b  == WritebackBegin(s, c)
           t  == StartTransfer(s, c, ready)
<1>0. s \in State /\ 2 \in Channels /\ 2 \notin MdecChannels
  BY DEF Coherent, Channels, MdecChannels
<1>1. Coherent(b)
  BY WritebackBeginStep, QuietIsSound
<1>2. /\ Only(s, b, {c}) /\ ListSame(s, b) /\ b.mdec = s.mdec
      /\ b.channels = s.channels /\ b.guest_madr[c] = None
  BY <1>0, WritebackBeginFields
<1>3. c \in MdecChannels => ~b.mdec[c].active
  BY <1>2, InFlightIs
<1>a. /\ ToGpu(c, ch.direction) => ~MdecSliced(c, ch.direction) /\ c = 2
      /\ MdecSliced(c, ch.direction) => c \in MdecChannels
  BY DEF ToGpu, MdecSliced, MdecChannels
<1>b. ch.base_addr \in Addr /\ ch \in Channel
  BY DEF Coherent, State, Channel
<1> HIDE DEF b
<1>4. CASE ch.sync = "LINKED_LIST" /\ ToGpu(c, ch.direction)
  <2> DEFINE l == SetList(b, ch.base_addr, TRUE)
  <2>1. t = GpuResume(l) /\ c = 2
    BY <1>4, <1>a DEF StartTransfer, b
  <2>2. Coherent(l)
    BY <1>1, <1>b, SetListStep DEF Step
  <2>3. Only(b, l, {2}) /\ GuestSame(b, l)
    BY <1>1, SetListFields DEF Coherent
  <2> HIDE DEF l, t
  <2>4. Sane(l, 2)
    BY <1>0, <1>2, <2>1, <2>3 DEF Sane, GuestSame
  <2>5. Only(l, t, {2}) /\ Sane(t, 2) /\ Settled(l, t, 2)
    BY <2>1, <2>2, <2>4, GpuResumeSettles
  <2>6. Only(s, l, {2})
    BY <1>2, <2>1, <2>3, OnlyTrans
  <2>7. Only(s, t, {2})
    BY <2>5, <2>6, OnlyTrans
  <2>8. Settled(s, t, 2)
    BY <2>5, <2>6 DEF Settled, Heard, Only, Rest
  <2> QED
    BY <1>0, <2>1, <2>5, <2>7, <2>8, OnlyIsKick DEF t
<1>5. CASE ch.sync = "LINKED_LIST" /\ ~ToGpu(c, ch.direction)
  <2>1. t = SignalDone(b, c)
    BY <1>5 DEF StartTransfer, b
  <2> QED
    BY <1>0, <1>1, <1>2, <1>3, <2>1, OverAtOnce
<1>6. CASE ch.sync # "LINKED_LIST" /\ ToGpu(c, ch.direction)
  <2> DEFINE l == SetList(b, b.gpu_ll_addr, FALSE)
             r == RunBlock(l, 2)
  <2>1. t = SignalDone(r, 2) /\ c = 2
    BY <1>6, <1>a DEF StartTransfer, GpuBlock, b
  <2>2. Coherent(l)
    <3>1. b.gpu_ll_addr \in Addr
      BY <1>1 DEF Coherent, State
    <3> QED
      BY <1>1, <3>1, SetListStep DEF Step
  <2>3. Only(b, l, {2}) /\ GuestSame(b, l)
    BY <1>1, SetListFields DEF Coherent
  <2> HIDE DEF l
  <2>4. Coherent(r)
    BY <1>0, <2>2, RunBlockStep, QuietKeepsSchedule
  <2>5. Only(l, r, {2}) /\ GuestSame(l, r)
    BY <1>0, <2>2, RunBlockFields
  <2> HIDE DEF r
  <2>6. Only(s, r, {2})
    <3>1. Only(s, l, {2})
      BY <1>2, <2>1, <2>3, OnlyTrans
    <3> QED
      BY <2>5, <3>1, OnlyTrans
  <2>7. r.guest_madr[2] = None
    BY <1>2, <2>1, <2>3, <2>5 DEF GuestSame
  <2> QED
    BY <1>0, <2>1, <2>4, <2>6, <2>7, OverAtOnce
<1>7. CASE ch.sync # "LINKED_LIST" /\ MdecSliced(c, ch.direction)
  <2> DEFINE d == [active |-> TRUE, addr |-> b.channels[c].base_addr,
                   remaining |-> TransferSize(b.channels[c])]
             m == SetMdec(b, c, d)
  <2>1. t = MdecResume(m, ready) /\ c \in MdecChannels
    BY <1>7, <1>a DEF StartTransfer, MdecStart, b
  <2>2. TransferSize(ch) \in 1..MaxWords
    BY <1>b, TransferSizeType
  <2>3. d.active = TRUE /\ d.remaining \in 1..MaxWords /\ d \in Half
    <3>1. TransferSize(ch) \in 0..MaxWords
      BY <2>2, Sizes
    <3> QED
      BY <1>2, <1>b, <2>2, <3>1 DEF Half
  <2> HIDE DEF d
  <2>4. Coherent(m)
    BY <1>1, <2>1, <2>3, SetMdecStep DEF Step
  <2>5. Only(b, m, {c}) /\ GuestSame(b, m) /\ m.channels = b.channels /\ m.mdec[c] = d
    BY <1>1, <2>1, SetMdecFields DEF Coherent
  <2> HIDE DEF m
  <2>6. Only(m, t, MdecChannels) /\ \A e \in MdecChannels : Carried(m, t, e)
    BY <2>1, <2>4, MdecResumeCarries
  <2>7. Coherent(t)
    BY <2>1, <2>4, MdecResumeStep DEF Step
  <2> HIDE DEF t
  <2>8. Only(s, m, {c})
    BY <1>2, <2>5, OnlyTrans
  <2>9. Rest(s, m) /\ Rest(m, t) /\ Rest(s, t)
    BY <2>6, <2>8, RestTrans DEF Only
  <2>10. InFlight(m, c) = d.active
    BY <2>1, <2>5, InFlightIs
  <2>11. Sane(m, c)
    <3>1. IsActive(m.channels[c])
      BY <1>2, <2>1, <2>5
    <3>2. d.remaining > 0
      BY <2>3, Sizes
    <3> QED
      BY <1>2, <2>5, <3>1, <3>2 DEF Sane, GuestSame
  <2>12. Sane(t, c) /\ Settled(m, t, c)
    BY <2>1, <2>3, <2>6, <2>10, <2>11 DEF Carried
  <2>13. Settled(s, t, c)
    BY <2>9, <2>12 DEF Settled, Heard, Rest
  <2>14. ASSUME NEW e \in Channels \ {c}
         PROVE  Carried(s, t, e)
    <3>1. Carried(s, m, e)
      BY <1>0, <2>8, UntouchedIsCarried DEF Only
    <3>2. Carried(m, t, e)
      BY <2>4, <2>6, UntouchedIsCarried DEF Only, Coherent
    <3> QED
      BY <1>0, <2>4, <2>7, <2>9, <3>1, <3>2, CarriedTrans DEF Coherent
  <2> QED
    BY <2>9, <2>12, <2>13, <2>14 DEF Kicked, t
<1>8. CASE ch.sync # "LINKED_LIST" /\ ~ToGpu(c, ch.direction)
         /\ ~MdecSliced(c, ch.direction)
  <2> DEFINE r == RunBlock(b, c)
  <2>1. t = SignalDone(r, c)
    BY <1>8 DEF StartTransfer, b
  <2>2. Coherent(r)
    BY <1>1, RunBlockStep, QuietKeepsSchedule
  <2>3. Only(b, r, {c}) /\ GuestSame(b, r) /\ r.mdec = b.mdec
    BY <1>1, RunBlockFields
  <2> HIDE DEF r
  <2>4. Only(s, r, {c})
    BY <1>2, <2>3, OnlyTrans
  <2> QED
    BY <1>0, <1>2, <1>3, <2>1, <2>2, <2>3, <2>4, OverAtOnce DEF GuestSame
<1> QED
  BY <1>4, <1>5, <1>6, <1>7, <1>8

(* A kick, whether it is dropped, drains the list first or just starts.    *)
LEMMA PerformDmaKicks ==
  ASSUME NEW s, Coherent(s), NEW c \in Channels, NEW ready \in Ready,
         Sane(s, c), IsActive(s.channels[c])
  PROVE  Kicked(s, PerformDma(s, c, ready), c)
<1>0. s \in State
  BY DEF Coherent
<1>1. CASE InFlight(s, c) /\ c # 2
  <2>1. PerformDma(s, c, ready) = s
    BY <1>1 DEF PerformDma
  <2> QED
    BY <1>0, <1>1, <2>1, OnlyRefl, OnlyIsKick DEF Settled
<1>2. CASE InFlight(s, c) /\ c = 2
  <2> DEFINE g == GpuDrain(s)
             t == PerformDma(s, c, ready)
  <2>1. t = StartTransfer(g, c, ready)
    BY <1>2 DEF PerformDma
  <2>2. Coherent(g) /\ Only(s, g, {c})
    BY <1>2, GpuDrainStep, GpuDrainKeeps, QuietKeepsSchedule
  <2> HIDE DEF g
  <2>3. c \notin MdecChannels
    BY <1>2 DEF MdecChannels
  <2>4. Kicked(g, t, c)
    BY <2>1, <2>2, <2>3, StartTransferKicks
  <2>5. Coherent(t)
    BY PerformDmaStep DEF Sound, Step
  <2> HIDE DEF t
  <2>6. Rest(s, g) /\ Rest(g, t) /\ Rest(s, t)
    BY <2>2, <2>4, RestTrans DEF Only, Kicked
  <2>7. ASSUME NEW d \in Channels \ {c}
        PROVE  Carried(s, t, d)
    <3>1. Carried(s, g, d)
      BY <1>0, <2>2, UntouchedIsCarried DEF Only
    <3>2. Carried(g, t, d)
      BY <2>4 DEF Kicked
    <3> QED
      BY <1>0, <2>2, <2>5, <2>6, <3>1, <3>2, CarriedTrans DEF Coherent
  <2>8. Settled(s, t, c)
    BY <2>4, <2>6 DEF Kicked, Settled, Heard, Rest
  <2> QED
    BY <2>4, <2>6, <2>7, <2>8 DEF Kicked, t
<1>3. CASE ~InFlight(s, c)
  BY <1>3, StartTransferKicks DEF PerformDma
<1> QED
  BY <1>1, <1>2, <1>3

(* What a handler does to channel d, as the guest sees it when it looks    *)
(* again: it keeps what holds between handlers, leaves a transfer in       *)
(* flight or ends it aloud, and starts no other.                           *)
Turned(s, t, d) ==
  /\ Sane(s, d) => Sane(t, d)
  /\ Runs(s, d) => Runs(t, d)
  /\ InFlight(s, d) =>
       /\ Settled(s, t, d)
       /\ d \in MdecChannels => t.mdec[d].remaining <= s.mdec[d].remaining
       /\ d = 2 => InFlight(t, d) /\ t.gpu_ll_addr = s.gpu_ll_addr
  /\ ~InFlight(s, d) /\ ~IsActive(s.channels[d]) =>
       /\ ~InFlight(t, d) /\ ~IsActive(t.channels[d])
       /\ d \in MdecChannels => t.mdec[d] = s.mdec[d]

(* A channel that is carried on is in order.                               *)
LEMMA CarriedIsTurned ==
  ASSUME NEW s \in State, NEW t \in State, NEW d \in Channels, Carried(s, t, d), Rest(s, t)
  PROVE  Turned(s, t, d)
<1>1. Runs(s, d) => Runs(t, d)
  BY DEF Runs, Carried, Settled, Rest
<1>2. d = 2 /\ InFlight(s, d) => InFlight(t, d) /\ t.gpu_ll_addr = s.gpu_ll_addr
  <2> SUFFICES ASSUME d = 2, InFlight(s, d)
               PROVE  InFlight(t, d) /\ t.gpu_ll_addr = s.gpu_ll_addr
    OBVIOUS
  <2>1. InFlight(s, d) = s.gpu_ll_active /\ InFlight(t, d) = t.gpu_ll_active
    BY InFlightIs
  <2>2. ListSame(s, t)
    BY DEF Carried
  <2> QED
    BY <2>1, <2>2 DEF ListSame
<1> QED
  BY <1>1, <1>2 DEF Turned, Carried

(* Handlers chain.                                                         *)
LEMMA TurnedTrans ==
  ASSUME NEW s \in State, NEW t \in State, NEW u \in State, NEW d \in Channels,
         Turned(s, t, d), Rest(s, t), Turned(t, u, d), Rest(t, u)
  PROVE  Turned(s, u, d)
<1>1. d \in MdecChannels => /\ s.mdec[d].remaining \in Nat
                            /\ t.mdec[d].remaining \in Nat
                            /\ u.mdec[d].remaining \in Nat
  BY Sizes DEF State
<1>2. (Heard(s, t, d) => Heard(s, u, d)) /\ (Heard(t, u, d) => Heard(s, u, d))
  BY DEF Heard, Rest
<1>3. (Sane(s, d) => Sane(u, d)) /\ (Runs(s, d) => Runs(u, d))
  BY DEF Turned
<1>4. ~InFlight(s, d) /\ ~IsActive(s.channels[d]) =>
        /\ ~InFlight(u, d) /\ ~IsActive(u.channels[d])
        /\ d \in MdecChannels => u.mdec[d] = s.mdec[d]
  BY DEF Turned
<1>5. CASE InFlight(s, d) /\ InFlight(t, d)
  <2>1. Settled(s, u, d)
    BY <1>2, <1>5 DEF Turned, Settled
  <2>2. d \in MdecChannels => u.mdec[d].remaining <= s.mdec[d].remaining
    BY <1>1, <1>5 DEF Turned
  <2>3. d = 2 => InFlight(u, d) /\ u.gpu_ll_addr = s.gpu_ll_addr
    BY <1>5 DEF Turned
  <2> QED
    BY <1>3, <1>4, <1>5, <2>1, <2>2, <2>3 DEF Turned
<1>6. CASE InFlight(s, d) /\ ~InFlight(t, d)
  <2>1. ~IsActive(t.channels[d]) /\ Heard(s, t, d) /\ d # 2
    BY <1>6 DEF Turned, Settled
  <2>2. Settled(s, u, d)
    BY <1>2, <1>6, <2>1 DEF Turned, Settled
  <2>3. d \in MdecChannels => u.mdec[d].remaining <= s.mdec[d].remaining
    BY <1>1, <1>6, <2>1 DEF Turned
  <2> QED
    BY <1>3, <1>4, <1>6, <2>1, <2>2, <2>3 DEF Turned
<1>7. CASE ~InFlight(s, d)
  BY <1>3, <1>4, <1>7 DEF Turned
<1> QED
  BY <1>5, <1>6, <1>7

(* One turn of the loop over the unblocked channels: no other channel than *)
(* one that waits is kicked.                                               *)
LEMMA UnblockTurns ==
  ASSUME NEW s, Coherent(s), \A d \in Channels : Sane(s, d),
         NEW c \in Channels, NEW ready \in Ready
  PROVE  /\ Rest(s, Unblock(s, c, ready))
         /\ \A d \in Channels : Turned(s, Unblock(s, c, ready), d)
         /\ \A d \in Channels : Sane(Unblock(s, c, ready), d)
         /\ Runs(Unblock(s, c, ready), c)
<1> DEFINE t == Unblock(s, c, ready)
<1>0. s \in State /\ t \in State
  BY UnblockStep DEF Coherent
<1>1. CASE c \in s.control /\ IsActive(s.channels[c]) /\ ~InFlight(s, c)
  <2>1. t = PerformDma(s, c, ready)
    BY <1>1 DEF Unblock
  <2>2. Kicked(s, t, c)
    BY <1>1, <2>1, PerformDmaKicks
  <2> HIDE DEF t
  <2>3. Runs(t, c)
    BY <2>2 DEF Kicked, Settled, Runs
  <2>4. Turned(s, t, c)
    BY <1>1, <2>2, <2>3 DEF Turned, Kicked
  <2>5. ASSUME NEW d \in Channels, d # c PROVE Turned(s, t, d)
    BY <1>0, <2>2, <2>5, CarriedIsTurned DEF Kicked
  <2>6. \A d \in Channels : Turned(s, t, d)
    BY <2>4, <2>5
  <2>7. \A d \in Channels : Sane(t, d)
    BY <2>6 DEF Turned
  <2> QED
    BY <2>2, <2>3, <2>6, <2>7 DEF Kicked, t
<1>2. CASE ~(c \in s.control /\ IsActive(s.channels[c]) /\ ~InFlight(s, c))
  <2>1. t = s
    BY <1>2 DEF Unblock
  <2>2. Only(s, s, {})
    BY OnlyRefl
  <2>3. \A d \in Channels : Turned(s, s, d)
    BY <1>0, <2>2, UntouchedIsCarried, CarriedIsTurned DEF Only
  <2> QED
    BY <1>2, <2>1, <2>2, <2>3 DEF Only, Runs
<1> QED
  BY <1>1, <1>2

(* A write to DPCR: what ran goes on, and what waited and may run does.    *)
(* The first `n' channels have had their turn when s has become t.         *)
Unblocked(s, t, n) == /\ Coherent(t) /\ Rest(s, t)
                      /\ \A d \in Channels : Turned(s, t, d) /\ Sane(t, d)
                      /\ \A d \in Channels : d < n => Runs(t, d)

(* The next channel has its turn.                                          *)
LEMMA UnblockedNext ==
  ASSUME NEW s, Coherent(s), NEW t, NEW c \in Channels, NEW ready \in Ready,
         Unblocked(s, t, c)
  PROVE  Unblocked(s, Unblock(t, c, ready), c + 1)
<1> DEFINE u == Unblock(t, c, ready)
<1>1. Coherent(u) /\ Coherent(t)
  BY UnblockStep DEF Unblocked
<1>2. /\ Rest(t, u) /\ Runs(u, c)
      /\ \A d \in Channels : Turned(t, u, d) /\ Sane(u, d)
  BY <1>1, UnblockTurns DEF Unblocked
<1> HIDE DEF u
<1>3. \A d \in Channels : Turned(s, u, d)
  BY <1>1, <1>2, TurnedTrans DEF Unblocked, Coherent
<1>4. \A d \in Channels : d < c + 1 => Runs(u, d)
  <2> SUFFICES ASSUME NEW d \in Channels, d < c + 1 PROVE Runs(u, d)
    OBVIOUS
  <2>1. CASE d = c
    BY <1>2, <2>1
  <2>2. CASE d < c
    BY <1>2, <2>2 DEF Unblocked, Turned
  <2> QED
    BY <2>1, <2>2 DEF Channels
<1>5. Rest(s, u)
  BY <1>2, RestTrans DEF Unblocked
<1> QED
  BY <1>1, <1>2, <1>3, <1>4, <1>5 DEF Unblocked, u

(* The guest has written `enables' to DPCR and nothing else has happened.  *)
Enabled(s, enables) == [s EXCEPT !.control = enables]

(* That write moves nothing.                                               *)
LEMMA EnabledFields ==
  ASSUME NEW s, Coherent(s), NEW enables \in SUBSET Channels
  PROVE  /\ Coherent(Enabled(s, enables))
         /\ Enabled(s, enables).channel_irq_enable = s.channel_irq_enable
         /\ Enabled(s, enables).channel_irq_flags = s.channel_irq_flags
         /\ \A d \in Channels : Untouched(s, Enabled(s, enables), d)
         /\ \A d \in Channels : InFlight(Enabled(s, enables), d) = InFlight(s, d)
<1> DEFINE t == Enabled(s, enables)
<1>1. /\ t \in State /\ IrqSame(s, t)
      /\ t.channel_irq_enable = s.channel_irq_enable
      /\ t.gpu_ll_active = s.gpu_ll_active /\ t.gpu_ll_addr = s.gpu_ll_addr
      /\ t.guest_regs = s.guest_regs /\ t.guest_madr = s.guest_madr
      /\ t.mdec = s.mdec /\ t.channels = s.channels
  BY DEF Coherent, State, IrqSame, Enabled
<1> HIDE DEF t
<1>2. Coherent(t)
  BY <1>1, IrqSameStep DEF Step
<1>3. \A d \in Channels : Untouched(s, t, d)
  BY <1>1 DEF Untouched, ListSame
<1>4. \A d \in Channels : InFlight(t, d) = InFlight(s, d)
  BY <1>3, UntouchedInFlight
<1> QED
  BY <1>1, <1>2, <1>3, <1>4 DEF t, IrqSame

(* After the loop all seven have had theirs.                               *)
LEMMA WriteDpcrTurns ==
  ASSUME Coherent(inter), \A d \in Channels : Sane(inter, d),
         NEW enables \in SUBSET Channels, NEW ready \in Ready,
         WriteDpcr(enables, ready)
  PROVE  Unblocked(Enabled(inter, enables), inter', 7)
<1> DEFINE s  == Enabled(inter, enables)
           s0 == Unblock(s, 0, ready)
           s1 == Unblock(s0, 1, ready)
           s2 == Unblock(s1, 2, ready)
           s3 == Unblock(s2, 3, ready)
           s4 == Unblock(s3, 4, ready)
           s5 == Unblock(s4, 5, ready)
           s6 == Unblock(s5, 6, ready)
<1>0. \A c \in 0..6 : c \in Channels
  BY DEF Channels
<1>1. inter' = s6
  BY DEF WriteDpcr, Enabled
<1>2. Unblocked(s, s, 0)
  <2>1. Coherent(s) /\ s \in State /\ inter \in State
    BY EnabledFields DEF Coherent
  <2>2. \A d \in Channels : Sane(s, d)
    <3>1. \A d \in Channels : Carried(inter, s, d)
      BY <2>1, EnabledFields, UntouchedIsCarried
    <3> QED
      BY <3>1 DEF Carried
  <2> HIDE DEF s
  <2>3. Only(s, s, {})
    BY OnlyRefl
  <2>4. \A d \in Channels : Turned(s, s, d)
    BY <2>1, <2>3, UntouchedIsCarried, CarriedIsTurned DEF Only
  <2>5. \A d \in Channels : ~(d < 0)
    BY DEF Channels
  <2> QED
    BY <2>1, <2>2, <2>3, <2>4, <2>5 DEF Unblocked, Only
<1>a. Coherent(s)
  BY <1>2 DEF Unblocked
<1> HIDE DEF s
<1>3. Unblocked(s, s0, 1)
  BY <1>0, <1>2, <1>a, UnblockedNext
<1> HIDE DEF s0
<1>4. Unblocked(s, s1, 2)
  BY <1>0, <1>3, <1>a, UnblockedNext
<1> HIDE DEF s1
<1>5. Unblocked(s, s2, 3)
  BY <1>0, <1>4, <1>a, UnblockedNext
<1> HIDE DEF s2
<1>6. Unblocked(s, s3, 4)
  BY <1>0, <1>5, <1>a, UnblockedNext
<1> HIDE DEF s3
<1>7. Unblocked(s, s4, 5)
  BY <1>0, <1>6, <1>a, UnblockedNext
<1> HIDE DEF s4
<1>8. Unblocked(s, s5, 6)
  BY <1>0, <1>7, <1>a, UnblockedNext
<1> HIDE DEF s5
<1>9. Unblocked(s, s6, 7)
  BY <1>0, <1>8, <1>a, UnblockedNext
<1> QED
  BY <1>1, <1>9 DEF s
-----------------------------------------------------------------------------
(* The invariant and every action.                                         *)

(* No channel is out of step and none waits that may run.                  *)
Orderly(s) == \A d \in Channels : Sane(s, d) /\ Runs(s, d)

(* The guest hears of each end among the channels cs.                      *)
EndsAloud(s, t, cs) ==
  \A d \in cs : InFlight(s, d) /\ ~InFlight(t, d) => Heard(s, t, d)

(* A step that kicks channel c or carries it, and carries the others.      *)
LEMMA KickIsOrderly ==
  ASSUME NEW s \in State, NEW t \in State, NEW c \in Channels, Orderly(s), Rest(s, t),
         \A d \in Channels \ {c} : Carried(s, t, d),
         Sane(t, c), Settled(s, t, c)
  PROVE  Orderly(t) /\ EndsAloud(s, t, Channels)
<1>1. \A d \in Channels \ {c} : Turned(s, t, d)
  BY CarriedIsTurned
<1>2. Runs(t, c)
  BY DEF Settled, Runs
<1>3. Orderly(t)
  BY <1>1, <1>2 DEF Orderly, Turned
<1>4. EndsAloud(s, t, Channels)
  BY <1>1 DEF EndsAloud, Turned, Settled
<1> QED
  BY <1>3, <1>4

(* A register that only channel c sees.                                    *)
LEMMA WriteMadrOrderly ==
  ASSUME Coherent(inter), Coherent(inter'), Orderly(inter),
         NEW c \in Channels, NEW a \in MadrWords, WriteMadr(c, a)
  PROVE  Orderly(inter') /\ EndsAloud(inter, inter', Channels)
<1> DEFINE ch == [inter.channels[c] EXCEPT !.base_addr = a]
           s  == SetChannel(inter, c, ch)
           t  == [s EXCEPT !.guest_madr[c] = a]
<1>1. inter \in State /\ inter' \in State /\ inter.channels[c] \in Channel /\ a \in Addr
  BY GuestWords DEF Coherent, State
<1>2. ch.base_addr = a /\ ch \in Channel /\ (IsActive(ch) <=> IsActive(inter.channels[c]))
  BY <1>1 DEF Channel, IsActive
<1>3. inter' = NoteGuestWrite(t, c)
  BY DEF WriteMadr
<1> HIDE DEF ch
<1>4. s \in State
  BY <1>2, SetChannelStep DEF Quiet, Step, Coherent
<1>5. /\ Rest(inter, s) /\ ListSame(inter, s) /\ GuestSame(inter, s)
      /\ s.mdec = inter.mdec /\ s.channels[c] = ch
      /\ Only(inter, s, {c})
  BY <1>1, SetChannelFields, SetChannelOnly
<1> HIDE DEF s
<1>6. /\ t.channels = s.channels /\ t.mdec = s.mdec /\ t.guest_regs = s.guest_regs
      /\ Rest(s, t) /\ ListSame(s, t)
      /\ t.guest_madr = [s.guest_madr EXCEPT ![c] = a]
      /\ s.guest_madr \in [Channels -> Addr \cup {None}]
      /\ t \in State
  BY <1>1, <1>4 DEF State, Rest, ListSame
<1> HIDE DEF t
<1>7. t.guest_madr[c] = a /\ \A d \in Channels \ {c} : t.guest_madr[d] = s.guest_madr[d]
  BY <1>6
<1>8. Only(s, t, {c})
  BY <1>6, <1>7 DEF Only, Untouched
<1>9. /\ Only(t, inter', {c}) /\ inter'.channels = t.channels /\ inter'.mdec = t.mdec
      /\ inter'.guest_madr = t.guest_madr /\ ListSame(t, inter')
      /\ InFlight(t, c) => c \in inter'.guest_regs
  <2>1. CASE InFlight(t, c)
    <3>1. inter' = [t EXCEPT !.guest_regs = t.guest_regs \cup {c}]
      BY <1>3, <2>1 DEF NoteGuestWrite, SetGuestRegs
    <3>2. /\ inter'.channels = t.channels /\ inter'.mdec = t.mdec
          /\ inter'.guest_madr = t.guest_madr /\ ListSame(t, inter') /\ Rest(t, inter')
          /\ inter'.guest_regs = t.guest_regs \cup {c}
      BY <1>6, <3>1 DEF State, ListSame, Rest
    <3> QED
      BY <3>2 DEF Only, Untouched
  <2>2. CASE ~InFlight(t, c)
    BY <1>3, <2>2, OnlyRefl DEF NoteGuestWrite, ListSame
  <2> QED
    BY <2>1, <2>2
<1>10. Only(inter, inter', {c})
  BY <1>5, <1>8, <1>9, OnlyTrans
<1>11. InFlight(inter', c) = InFlight(inter, c) /\ InFlight(t, c) = InFlight(inter, c)
  <2>1. /\ ListSame(inter, inter') /\ ListSame(inter, t)
        /\ inter'.mdec = inter.mdec /\ t.mdec = inter.mdec
    BY <1>5, <1>6, <1>9 DEF ListSame
  <2>2. CASE c \in MdecChannels
    BY <2>1, <2>2, InFlightIs
  <2>3. CASE c = 2
    <3>1. /\ InFlight(inter', c) = inter'.gpu_ll_active
          /\ InFlight(t, c) = t.gpu_ll_active
          /\ InFlight(inter, c) = inter.gpu_ll_active
      BY <2>3, InFlightIs
    <3> QED
      BY <2>1, <3>1 DEF ListSame
  <2>4. CASE c \notin MdecChannels /\ c # 2
    BY <2>4, InFlightIs
  <2> QED
    BY <2>2, <2>3, <2>4
<1>12. inter'.channels[c] = ch /\ inter'.guest_madr[c] = a /\ inter'.mdec = inter.mdec
  BY <1>5, <1>6, <1>7, <1>9
<1>13. Sane(inter', c)
  BY <1>2, <1>9, <1>11, <1>12 DEF Sane, Orderly
<1>14. Rest(inter, inter') /\ \A d \in Channels \ {c} : Turned(inter, inter', d)
  BY <1>1, <1>10, UntouchedIsCarried, CarriedIsTurned DEF Only
<1>15. Runs(inter', c)
  BY <1>2, <1>11, <1>12, <1>14 DEF Runs, Orderly, Rest
<1>16. EndsAloud(inter, inter', Channels)
  BY <1>11, <1>14 DEF EndsAloud, Turned, Settled
<1> QED
  BY <1>13, <1>14, <1>15, <1>16 DEF Orderly, Turned

(* A write to BCR, which the guest's MADR does not notice.                 *)
LEMMA WriteBcrOrderly ==
  ASSUME Coherent(inter), Coherent(inter'), Orderly(inter),
         NEW c \in Channels, NEW n \in BcrWords, WriteBcr(c, n)
  PROVE  Orderly(inter') /\ EndsAloud(inter, inter', Channels)
<1> DEFINE ch == [inter.channels[c] EXCEPT !.words = n]
           s  == SetChannel(inter, c, ch)
<1>1. inter \in State /\ inter' \in State /\ inter.channels[c] \in Channel
      /\ n \in 0..(MaxWords - 1)
  BY GuestWords DEF Coherent, State
<1>2. /\ ch.base_addr = inter.channels[c].base_addr /\ ch \in Channel
      /\ IsActive(ch) <=> IsActive(inter.channels[c])
  BY <1>1 DEF Channel, IsActive
<1>3. inter' = NoteGuestWrite(s, c)
  BY DEF WriteBcr
<1> HIDE DEF ch
<1>4. s \in State
  BY <1>2, SetChannelStep DEF Quiet, Step, Coherent
<1>5. /\ Rest(inter, s) /\ ListSame(inter, s) /\ GuestSame(inter, s)
      /\ s.mdec = inter.mdec /\ s.channels[c] = ch
      /\ Only(inter, s, {c})
  BY <1>1, SetChannelFields, SetChannelOnly
<1> HIDE DEF s
<1>6. /\ Only(s, inter', {c}) /\ inter'.channels = s.channels /\ inter'.mdec = s.mdec
      /\ inter'.guest_madr = s.guest_madr /\ ListSame(s, inter')
      /\ s.guest_regs \subseteq inter'.guest_regs
  <2>1. CASE InFlight(s, c)
    <3>1. inter' = [s EXCEPT !.guest_regs = s.guest_regs \cup {c}]
      BY <1>3, <2>1 DEF NoteGuestWrite, SetGuestRegs
    <3>2. /\ inter'.channels = s.channels /\ inter'.mdec = s.mdec
          /\ inter'.guest_madr = s.guest_madr /\ ListSame(s, inter') /\ Rest(s, inter')
          /\ inter'.guest_regs = s.guest_regs \cup {c}
      BY <1>4, <3>1 DEF State, ListSame, Rest
    <3> QED
      BY <3>2 DEF Only, Untouched
  <2>2. CASE ~InFlight(s, c)
    BY <1>3, <2>2, OnlyRefl DEF NoteGuestWrite, ListSame
  <2> QED
    BY <2>1, <2>2
<1>7. Only(inter, inter', {c})
  BY <1>5, <1>6, OnlyTrans
<1>8. /\ ListSame(inter, inter') /\ inter'.mdec = inter.mdec
      /\ inter'.channels[c] = ch /\ inter'.guest_madr = inter.guest_madr
      /\ inter.guest_regs \subseteq inter'.guest_regs
  BY <1>5, <1>6 DEF ListSame, GuestSame
<1>9. InFlight(inter', c) = InFlight(inter, c)
  <2>2. CASE c \in MdecChannels
    BY <1>8, <2>2, InFlightIs
  <2>3. CASE c = 2
    <3>1. /\ InFlight(inter', c) = inter'.gpu_ll_active
          /\ InFlight(inter, c) = inter.gpu_ll_active
      BY <2>3, InFlightIs
    <3> QED
      BY <1>8, <3>1 DEF ListSame
  <2>4. CASE c \notin MdecChannels /\ c # 2
    BY <2>4, InFlightIs
  <2> QED
    BY <2>2, <2>3, <2>4
<1>10. Sane(inter', c)
  BY <1>2, <1>8, <1>9 DEF Sane, Orderly
<1>11. Rest(inter, inter') /\ \A d \in Channels \ {c} : Turned(inter, inter', d)
  BY <1>1, <1>7, UntouchedIsCarried, CarriedIsTurned DEF Only
<1>12. Runs(inter', c)
  BY <1>2, <1>8, <1>9, <1>11 DEF Runs, Orderly, Rest
<1>13. EndsAloud(inter, inter', Channels)
  BY <1>9, <1>11 DEF EndsAloud, Turned, Settled
<1> QED
  BY <1>10, <1>11, <1>12, <1>13 DEF Orderly, Turned

(* An abort drops the slices and leaves the registers to the guest.        *)
LEMMA CancelSliceFields ==
  ASSUME NEW s \in State, NEW c \in Channels
  PROVE  /\ Only(s, CancelSlice(s, c), {c}) /\ GuestSame(s, CancelSlice(s, c))
         /\ CancelSlice(s, c).channels = s.channels
         /\ ~InFlight(CancelSlice(s, c), c)
<1> DEFINE t == CancelSlice(s, c)
<1>1. CASE c \in MdecChannels
  <2> DEFINE d == [s.mdec[c] EXCEPT !.active = FALSE]
  <2>1. t = SetMdec(s, c, d)
    <3>1. c # 2
      BY <1>1 DEF MdecChannels
    <3> QED
      BY <1>1, <3>1 DEF CancelSlice
  <2>2. d.active = FALSE
    BY <1>1 DEF State
  <2> HIDE DEF d, t
  <2>3. Only(s, t, {c}) /\ GuestSame(s, t) /\ t.channels = s.channels /\ t.mdec[c] = d
    BY <1>1, <2>1, SetMdecFields
  <2>4. InFlight(t, c) = t.mdec[c].active
    BY <1>1, InFlightIs
  <2> QED
    BY <2>2, <2>3, <2>4 DEF t
<1>2. CASE c = 2
  <2> DEFINE over == FALSE
  <2>1. t = SetList(s, s.gpu_ll_addr, over)
    BY <1>2 DEF CancelSlice, MdecChannels
  <2>a. over = FALSE
    OBVIOUS
  <2> HIDE DEF t, over
  <2>2. Only(s, t, {2}) /\ GuestSame(s, t) /\ t.channels = s.channels
        /\ t.gpu_ll_active = over
    BY <2>1, SetListFields
  <2>3. InFlight(t, c) = t.gpu_ll_active
    BY <1>2, InFlightIs
  <2> QED
    BY <1>2, <2>a, <2>2, <2>3 DEF t
<1>3. CASE c \notin MdecChannels /\ c # 2
  <2>1. t = s
    BY <1>3 DEF CancelSlice
  <2>2. InFlight(s, c) = FALSE
    BY <1>3, InFlightIs
  <2> QED
    BY <2>1, <2>2, OnlyRefl DEF GuestSame
<1> QED
  BY <1>1, <1>2, <1>3

(* A write to CHCR: only an abort ends a transfer in silence.              *)
LEMMA WriteChcrOrderly ==
  ASSUME Coherent(inter), Coherent(inter'), Orderly(inter),
         NEW c \in Channels, NEW v \in Chcr, NEW ready \in Ready, WriteChcr(c, v, ready)
  PROVE  /\ Orderly(inter')
         /\ EndsAloud(inter, inter', Channels \ {c})
         /\ IsActive(SetControl(inter.channels[c], v)) => EndsAloud(inter, inter', {c})
<1> DEFINE ch == SetControl(inter.channels[c], v)
           s  == SetChannel(inter, c, ch)
<1>1. inter \in State /\ inter' \in State /\ inter.channels[c] \in Channel
  BY DEF Coherent, State
<1>2. ch \in Channel /\ ch.base_addr = inter.channels[c].base_addr
  BY <1>1 DEF Channel, Chcr, SetControl
<1>3. inter' = IF ~IsActive(s.channels[c]) THEN CancelSlice(s, c)
               ELSE IF c \in s.control THEN PerformDma(s, c, ready)
               ELSE s
  BY DEF WriteChcr
<1> HIDE DEF ch
<1>4. Coherent(s) /\ s \in State
  BY <1>2, SetChannelStep, QuietKeepsSchedule DEF Coherent
<1>5. /\ Rest(inter, s) /\ ListSame(inter, s) /\ GuestSame(inter, s)
      /\ s.mdec = inter.mdec /\ s.channels[c] = ch
      /\ Only(inter, s, {c})
  BY <1>1, SetChannelFields, SetChannelOnly
<1> HIDE DEF s
<1>6. InFlight(s, c) = InFlight(inter, c)
  <2>2. CASE c \in MdecChannels
    BY <1>5, <2>2, InFlightIs
  <2>3. CASE c = 2
    <3>1. InFlight(s, c) = s.gpu_ll_active /\ InFlight(inter, c) = inter.gpu_ll_active
      BY <2>3, InFlightIs
    <3> QED
      BY <1>5, <3>1 DEF ListSame
  <2>4. CASE c \notin MdecChannels /\ c # 2
    BY <2>4, InFlightIs
  <2> QED
    BY <2>2, <2>3, <2>4
<1>7. \A d \in Channels \ {c} : Carried(inter, s, d)
  BY <1>1, <1>5, UntouchedIsCarried DEF Only
<1>8. s.guest_madr[c] # None => /\ s.channels[c].base_addr = s.guest_madr[c]
                                /\ InFlight(s, c) => c \in s.guest_regs
  BY <1>2, <1>5, <1>6 DEF Orderly, Sane, GuestSame
<1>9. CASE ~IsActive(ch)
  <2>1. inter' = CancelSlice(s, c)
    BY <1>3, <1>5, <1>9
  <2>2. /\ Only(s, inter', {c}) /\ GuestSame(s, inter')
        /\ inter'.channels = s.channels /\ ~InFlight(inter', c)
    BY <1>4, <2>1, CancelSliceFields
  <2>3. Only(inter, inter', {c})
    BY <1>5, <2>2, OnlyTrans
  <2>4. Rest(inter, inter') /\ \A d \in Channels \ {c} : Turned(inter, inter', d)
    BY <1>1, <2>3, UntouchedIsCarried, CarriedIsTurned DEF Only
  <2>5. Sane(inter', c)
    <3>1. c \in MdecChannels => ~inter'.mdec[c].active
      BY <2>2, InFlightIs
    <3> QED
      BY <1>8, <2>2, <3>1 DEF Sane, GuestSame
  <2>6. Runs(inter', c)
    BY <1>5, <1>9, <2>2 DEF Runs
  <2>7. EndsAloud(inter, inter', Channels \ {c})
    BY <2>4 DEF EndsAloud, Turned, Settled
  <2> QED
    BY <1>9, <2>4, <2>5, <2>6, <2>7 DEF Orderly, Turned, ch
<1>10. CASE IsActive(ch)
  <2>1. Sane(s, c)
    BY <1>5, <1>6, <1>8, <1>10 DEF Orderly, Sane
  <2>2. inter' = IF c \in s.control THEN PerformDma(s, c, ready) ELSE s
    BY <1>3, <1>5, <1>10
  <2>3. CASE c \in s.control
    <3>1. Kicked(s, inter', c)
      BY <1>4, <1>5, <1>10, <2>1, <2>2, <2>3, PerformDmaKicks
    <3>2. Rest(inter, inter')
      BY <1>5, <3>1, RestTrans DEF Kicked
    <3>3. \A d \in Channels \ {c} : Carried(inter, inter', d)
      <4> SUFFICES ASSUME NEW d \in Channels \ {c} PROVE Carried(inter, inter', d)
        OBVIOUS
      <4>1. Carried(inter, s, d) /\ Carried(s, inter', d) /\ Rest(s, inter')
        BY <1>7, <3>1 DEF Kicked
      <4> QED
        BY <1>1, <1>4, <1>5, <4>1, CarriedTrans
    <3>4. Sane(inter', c) /\ Settled(inter, inter', c)
      BY <1>5, <3>1 DEF Kicked, Settled, Heard, Rest
    <3>5. Orderly(inter') /\ EndsAloud(inter, inter', Channels)
      BY <1>1, <3>2, <3>3, <3>4, KickIsOrderly
    <3> QED
      BY <3>5 DEF EndsAloud
  <2>4. CASE c \notin s.control
    <3>1. inter' = s
      BY <2>2, <2>4
    <3>2. \A d \in Channels \ {c} : Turned(inter, inter', d)
      BY <1>1, <1>5, <1>7, <3>1, CarriedIsTurned
    <3>3. Sane(inter', c) /\ Runs(inter', c)
      BY <2>1, <2>4, <3>1 DEF Runs
    <3>4. EndsAloud(inter, inter', Channels)
      BY <1>6, <3>1, <3>2 DEF EndsAloud, Turned, Settled
    <3> QED
      BY <3>2, <3>3, <3>4 DEF Orderly, Turned, EndsAloud
  <2> QED
    BY <2>3, <2>4
<1> QED
  BY <1>9, <1>10

(* A write to DPCR leaves no channel waiting that may run.                 *)
LEMMA WriteDpcrOrderly ==
  ASSUME Coherent(inter), \A d \in Channels : Sane(inter, d),
         NEW enables \in SUBSET Channels, NEW ready \in Ready, WriteDpcr(enables, ready)
  PROVE  Orderly(inter') /\ EndsAloud(inter, inter', Channels)
<1> DEFINE s == Enabled(inter, enables)
<1>1. Unblocked(s, inter', 7)
  BY WriteDpcrTurns
<1>2. /\ s.channel_irq_enable = inter.channel_irq_enable
      /\ \A d \in Channels : InFlight(s, d) = InFlight(inter, d)
  BY EnabledFields
<1> HIDE DEF s
<1>3. Orderly(inter')
  BY <1>1 DEF Unblocked, Orderly, Channels
<1>4. EndsAloud(inter, inter', Channels)
  BY <1>1, <1>2 DEF EndsAloud, Unblocked, Turned, Settled, Heard
<1> QED
  BY <1>3, <1>4

(* The steps that touch no channel.                                        *)
LEMMA AsideIsOrderly ==
  ASSUME Orderly(inter), inter \in State,
         inter'.control = inter.control,
         \A d \in Channels : Untouched(inter, inter', d)
  PROVE  Orderly(inter') /\ EndsAloud(inter, inter', Channels)
<1>1. \A d \in Channels : InFlight(inter', d) = InFlight(inter, d)
  BY UntouchedInFlight
<1>2. \A d \in Channels : Sane(inter', d)
  BY UntouchedIsCarried DEF Carried, Orderly
<1>3. \A d \in Channels : Runs(inter', d)
  BY <1>1 DEF Orderly, Runs, Untouched
<1> QED
  BY <1>1, <1>2, <1>3 DEF Orderly, EndsAloud

(* A write to DICR touches no channel,                                     *)
LEMMA WriteDicrOrderly ==
  ASSUME Coherent(inter), Orderly(inter), NEW v \in Dicr, WriteDicr(v)
  PROVE  Orderly(inter') /\ EndsAloud(inter, inter', Channels)
<1> DEFINE t == [inter EXCEPT !.force_irq = v.force_irq,
                              !.channel_irq_enable = v.channel_irq_enable,
                              !.master_irq_enable = v.master_irq_enable,
                              !.channel_irq_flags = @ \ v.ack]
<1>1. /\ t \in State /\ t.control = inter.control /\ t.channels = inter.channels
      /\ ListSame(inter, t) /\ GuestSame(inter, t) /\ t.mdec = inter.mdec
  BY DEF Coherent, State, Dicr, ListSame, GuestSame
<1>2. inter' = UpdateIrq(t)
  BY DEF WriteDicr
<1> HIDE DEF t
<1>3. Aside(t, inter')
  BY <1>1, <1>2, UpdateIrqAside
<1>4. /\ inter'.control = inter.control /\ inter'.channels = inter.channels
      /\ ListSame(inter, inter') /\ GuestSame(inter, inter') /\ inter'.mdec = inter.mdec
  BY <1>1, <1>3 DEF Aside, ListSame, GuestSame, Rest
<1>5. \A d \in Channels : Untouched(inter, inter', d)
  BY <1>4 DEF Untouched, GuestSame
<1> QED
  BY <1>4, <1>5, AsideIsOrderly DEF Coherent

(* nor does one to I_STAT.                                                 *)
LEMMA GuestIStatOrderly ==
  ASSUME Coherent(inter), Orderly(inter), NEW keep \in SUBSET Lines, GuestIStat(keep)
  PROVE  Orderly(inter') /\ EndsAloud(inter, inter', Channels)
<1>1. /\ inter'.control = inter.control /\ inter'.channels = inter.channels
      /\ ListSame(inter, inter') /\ GuestSame(inter, inter') /\ inter'.mdec = inter.mdec
  BY DEF Coherent, State, GuestIStat, ListSame, GuestSame
<1>2. \A d \in Channels : Untouched(inter, inter', d)
  BY <1>1 DEF Untouched, GuestSame
<1> QED
  BY <1>1, <1>2, AsideIsOrderly DEF Coherent

(* A slice of the list, or the end of none.                                *)
LEMMA DmaGpuEventOrderly ==
  ASSUME Coherent(inter), Coherent(inter'), Orderly(inter), DmaGpuEvent
  PROVE  Orderly(inter') /\ EndsAloud(inter, inter', Channels)
<1> DEFINE t == Take(inter, "DMA_GPU")
<1>1. inter \in State /\ inter' \in State /\ 2 \in Channels
  BY DEF Coherent, Channels
<1>2. Coherent(t)
  BY TakeStep DEF Step
<1>3. Only(inter, t, {})
  BY <1>1, QueueAside, AsideOnly
<1>4. inter' = GpuResume(t)
  BY DEF DmaGpuEvent
<1> HIDE DEF t
<1>5. Sane(t, 2)
  BY <1>1, <1>3, UntouchedIsCarried DEF Orderly, Carried, Only
<1>6. Only(t, inter', {2}) /\ Sane(inter', 2) /\ Settled(t, inter', 2)
  BY <1>2, <1>4, <1>5, GpuResumeSettles
<1>7. Only(inter, inter', {2})
  BY <1>3, <1>6, OnlyWider, OnlyTrans
<1>8. Settled(inter, inter', 2)
  BY <1>3, <1>6 DEF Settled, Heard, Only, Rest
<1>9. Rest(inter, inter') /\ \A d \in Channels \ {2} : Carried(inter, inter', d)
  BY <1>1, <1>7, UntouchedIsCarried DEF Only
<1> QED
  BY <1>1, <1>6, <1>8, <1>9, KickIsOrderly

(* A slice of the MDEC.                                                    *)
LEMMA MdecEventOrderly ==
  ASSUME Coherent(inter), Coherent(inter'), Orderly(inter),
         NEW ready \in Ready, MdecEvent(ready)
  PROVE  Orderly(inter') /\ EndsAloud(inter, inter', Channels)
<1> DEFINE t == Take(inter, "MDEC")
<1>1. inter \in State /\ inter' \in State
  BY DEF Coherent
<1>2. Coherent(t) /\ t \in State
  BY TakeStep DEF Step, Coherent
<1>3. Only(inter, t, {})
  BY <1>1, QueueAside, AsideOnly
<1>4. inter' = MdecResume(t, ready)
  BY DEF MdecEvent
<1> HIDE DEF t
<1>5. Only(t, inter', MdecChannels) /\ \A c \in MdecChannels : Carried(t, inter', c)
  BY <1>2, <1>4, MdecResumeCarries
<1>6. Rest(inter, t) /\ Rest(t, inter') /\ Rest(inter, inter')
  BY <1>3, <1>5, RestTrans DEF Only
<1>7. \A d \in Channels : Carried(inter, inter', d)
  <2> SUFFICES ASSUME NEW d \in Channels PROVE Carried(inter, inter', d)
    OBVIOUS
  <2>1. Carried(inter, t, d)
    BY <1>1, <1>3, UntouchedIsCarried DEF Only
  <2>2. Carried(t, inter', d)
    BY <1>2, <1>5, UntouchedIsCarried DEF Only
  <2> QED
    BY <1>1, <1>2, <1>6, <2>1, <2>2, CarriedTrans
<1>8. \A d \in Channels : Turned(inter, inter', d)
  BY <1>1, <1>6, <1>7, CarriedIsTurned
<1> QED
  BY <1>8 DEF Orderly, EndsAloud, Turned, Settled
-----------------------------------------------------------------------------
(* The invariant with the channels in it.                                  *)
ChannelIInv == IInv /\ Orderly(inter)

(* After dma_init nothing is started and nothing written.                  *)
LEMMA InitChannelIInv == Init => ChannelIInv
<1> SUFFICES ASSUME Init PROVE ChannelIInv
  OBVIOUS
<1>1. /\ inter.control = {} /\ \A d \in Channels : inter.guest_madr[d] = None
      /\ \A d \in MdecChannels : inter.mdec[d].active = FALSE
  BY DEF Init
<1>2. Orderly(inter)
  BY <1>1 DEF Orderly, Sane, Runs
<1> QED
  BY <1>2, InitIInv DEF ChannelIInv

(* Every action keeps it, and ends no transfer in silence but by an abort. *)
LEMMA NextOrderly ==
  ASSUME ChannelIInv, Coherent(inter'), Next
  PROVE  /\ Orderly(inter')
         /\ \A d \in Channels : EndsAloud(inter, inter', {d}) \/ Abort(d)
<1>0. Coherent(inter) /\ Orderly(inter) /\ Driven \subseteq Channels
  BY DEF ChannelIInv, IInv, Driven
<1>a. EndsAloud(inter, inter', Channels) =>
        \A d \in Channels : EndsAloud(inter, inter', {d})
  BY DEF EndsAloud
<1>1. ASSUME NEW c \in Driven, NEW a \in MadrWords, WriteMadr(c, a)
      PROVE  Orderly(inter') /\ EndsAloud(inter, inter', Channels)
  BY <1>0, <1>1, WriteMadrOrderly
<1>2. ASSUME NEW c \in Driven, NEW n \in BcrWords, WriteBcr(c, n)
      PROVE  Orderly(inter') /\ EndsAloud(inter, inter', Channels)
  BY <1>0, <1>2, WriteBcrOrderly
<1>3. ASSUME NEW c \in Driven, NEW v \in ChcrWords[c], NEW ready \in Ready,
             WriteChcr(c, v, ready)
      PROVE  /\ Orderly(inter')
             /\ \A d \in Channels : EndsAloud(inter, inter', {d}) \/ Abort(d)
  <2>1. v \in Chcr /\ c \in Channels
    BY <1>0, GuestWords
  <2>2. /\ Orderly(inter') /\ EndsAloud(inter, inter', Channels \ {c})
        /\ IsActive(SetControl(inter.channels[c], v)) => EndsAloud(inter, inter', {c})
    BY <1>0, <1>3, <2>1, WriteChcrOrderly
  <2>3. ~IsActive(SetControl(inter.channels[c], v)) => Abort(c)
    BY <1>3 DEF Abort
  <2> QED
    BY <2>2, <2>3 DEF EndsAloud
<1>4. ASSUME NEW enables \in SUBSET Driven, NEW ready \in Ready, WriteDpcr(enables, ready)
      PROVE  Orderly(inter') /\ EndsAloud(inter, inter', Channels)
  BY <1>0, <1>4, WriteDpcrOrderly DEF Orderly
<1>5. ASSUME NEW v \in DicrWords, WriteDicr(v)
      PROVE  Orderly(inter') /\ EndsAloud(inter, inter', Channels)
  BY <1>0, <1>5, GuestWords, WriteDicrOrderly
<1>6. ASSUME NEW keep \in SUBSET Lines, GuestIStat(keep)
      PROVE  Orderly(inter') /\ EndsAloud(inter, inter', Channels)
  BY <1>0, <1>6, GuestIStatOrderly
<1>7. ASSUME DmaGpuEvent
      PROVE  Orderly(inter') /\ EndsAloud(inter, inter', Channels)
  BY <1>0, <1>7, DmaGpuEventOrderly
<1>8. ASSUME NEW ready \in Ready, MdecEvent(ready)
      PROVE  Orderly(inter') /\ EndsAloud(inter, inter', Channels)
  BY <1>0, <1>8, MdecEventOrderly
<1> QED
  BY <1>a, <1>1, <1>2, <1>3, <1>4, <1>5, <1>6, <1>7, <1>8 DEF Next

(* Every action keeps it.                                                  *)
LEMMA NextChannelIInv == ChannelIInv /\ [Next]_inter => ChannelIInv'
<1> SUFFICES ASSUME ChannelIInv, [Next]_inter PROVE ChannelIInv'
  OBVIOUS
<1>1. IInv'
  BY NextIInv DEF ChannelIInv
<1>2. CASE Next
  <2>1. Coherent(inter')
    BY <1>1 DEF IInv
  <2> QED
    BY <1>1, <1>2, <2>1, NextOrderly DEF ChannelIInv
<1>3. CASE UNCHANGED inter
  BY <1>1, <1>3 DEF ChannelIInv
<1> QED
  BY <1>2, <1>3

(* So it always holds.                                                     *)
LEMMA SpecChannelIInv == Spec => []ChannelIInv
  BY InitChannelIInv, NextChannelIInv, PTL DEF Spec

(* What a slice keeps beside the registers agrees with them: an MDEC       *)
(* channel is busy while a half is in flight, and the MADR a guest writes  *)
(* is where its next transfer starts, whatever slices ran in between.      *)
THEOREM SlicesAlwaysAgree == Spec => []SlicesAgree
<1>1. ChannelIInv => SlicesAgree
  <2> SUFFICES ASSUME ChannelIInv PROVE SlicesAgree
    OBVIOUS
  <2>1. \A c \in Channels : Sane(inter, c)
    BY DEF ChannelIInv, Orderly
  <2>2. \A c \in MdecChannels : c \in Channels
    BY DEF MdecChannels, Channels
  <2>3. MdecBusyWhileInFlight
    BY <2>1, <2>2, InFlightIs DEF Sane, MdecBusyWhileInFlight
  <2>4. GuestMadrWins
    BY <2>1 DEF Sane, GuestMadrWins
  <2> QED
    BY <2>3, <2>4 DEF SlicesAgree
<1> QED
  BY <1>1, SpecChannelIInv, PTL

(* No start is lost: a channel that is started and enabled has its         *)
(* transfer in flight, or it has run to its end; and none is taken twice:  *)
(* a DPCR write carries on what runs.                                      *)
THEOREM StartsStayKept == Spec => StartsAreKept
<1> DEFINE Enables == \E enables \in SUBSET Driven, ready \in Ready : WriteDpcr(enables, ready)
           On == /\ InFlight(inter, 2) =>
                      inter'.gpu_ll_active /\ inter'.gpu_ll_addr = inter.gpu_ll_addr
                 /\ \A c \in MdecChannels : InFlight(inter, c) =>
                      inter'.mdec[c].remaining <= inter.mdec[c].remaining
<1>1. ChannelIInv => StartedIsRunning
  <2> SUFFICES ASSUME ChannelIInv PROVE StartedIsRunning
    OBVIOUS
  <2>1. inter.control \subseteq Channels /\ \A c \in Channels : Runs(inter, c)
    BY DEF ChannelIInv, IInv, Coherent, State, Orderly
  <2> QED
    BY <2>1 DEF Runs, StartedIsRunning
<1>2. ChannelIInv /\ [Next]_inter => [On \/ ~Enables]_inter
  <2> SUFFICES ASSUME ChannelIInv, NEW enables \in SUBSET Driven, NEW ready \in Ready,
                      WriteDpcr(enables, ready)
               PROVE  On
    OBVIOUS
  <2> DEFINE s == Enabled(inter, enables)
  <2>1. /\ Coherent(inter) /\ \A d \in Channels : Sane(inter, d)
        /\ enables \in SUBSET Channels
    BY DEF ChannelIInv, IInv, Orderly, Driven
  <2>2. Unblocked(s, inter', 7)
    BY <2>1, WriteDpcrTurns
  <2>3. \A d \in Channels : /\ Untouched(inter, s, d)
                            /\ InFlight(s, d) = InFlight(inter, d)
    BY <2>1, EnabledFields
  <2> HIDE DEF s
  <2>4. ASSUME InFlight(inter, 2)
        PROVE  inter'.gpu_ll_active /\ inter'.gpu_ll_addr = inter.gpu_ll_addr
    <3>1. 2 \in Channels
      BY DEF Channels
    <3>2. InFlight(inter', 2) /\ inter'.gpu_ll_addr = s.gpu_ll_addr
      BY <2>2, <2>3, <2>4, <3>1 DEF Unblocked, Turned
    <3>3. s.gpu_ll_addr = inter.gpu_ll_addr
      BY <2>3, <3>1 DEF Untouched, ListSame
    <3>4. InFlight(inter', 2) = inter'.gpu_ll_active
      BY <3>1, InFlightIs
    <3> QED
      BY <3>2, <3>3, <3>4
  <2>5. ASSUME NEW c \in MdecChannels, InFlight(inter, c)
        PROVE  inter'.mdec[c].remaining <= inter.mdec[c].remaining
    <3>1. c \in Channels
      BY DEF MdecChannels, Channels
    <3> QED
      BY <2>2, <2>3, <2>5, <3>1 DEF Unblocked, Turned, Untouched
  <2> QED
    BY <2>4, <2>5
<1>3. Spec => []StartedIsRunning
  BY <1>1, SpecChannelIInv, PTL
<1>4. Spec => DpcrNeverRestarts
  BY <1>2, SpecChannelIInv, PTL DEF Spec, DpcrNeverRestarts
<1> QED
  BY <1>3, <1>4 DEF StartsAreKept

(* Every end of a sliced transfer, at its end, on a bus error or drained,  *)
(* raises the flag of a channel whose interrupt is enabled, unless it is   *)
(* an abort; and every rise of DICR.31 is latched.                         *)
THEOREM EndsStayHeard == Spec => EndsAreHeard
<1> DEFINE A == \A c \in {0, 1, 2} :
                  InFlight(inter, c) /\ ~InFlight(inter', c) /\ c \in inter.channel_irq_enable
                    => c \in inter'.channel_irq_flags \/ Abort(c)
<1>1. ChannelIInv /\ [Next]_inter => [A]_inter
  <2> SUFFICES ASSUME ChannelIInv, Next PROVE A
    OBVIOUS
  <2>1. Coherent(inter')
    BY NextIInv DEF ChannelIInv, IInv
  <2>2. \A c \in Channels : EndsAloud(inter, inter', {c}) \/ Abort(c)
    BY <2>1, NextOrderly
  <2>3. \A c \in {0, 1, 2} : c \in Channels
    BY DEF Channels
  <2> QED
    BY <2>2, <2>3 DEF EndsAloud, Heard
<1>2. Spec => EndIsSignalled
  BY <1>1, SpecChannelIInv, PTL DEF Spec, EndIsSignalled
<1> QED
  BY <1>2, MasterRiseIsLatched DEF EndsAreHeard
=============================================================================
