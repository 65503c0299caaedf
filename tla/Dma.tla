-------------------------------- MODULE Dma --------------------------------
(***************************************************************************)
(* The DMA controller: its registers (src/core/dma.c), the transfers the   *)
(* bus runs for it (src/core/bus.c, hw_dma_write to                        *)
(* interconnect_perform_dma), the slices of a long transfer that run off   *)
(* the event scheduler, and the DMA interrupt (IRQ3).                      *)
(*                                                                         *)
(* The guest writes a register between two instructions; a slice event     *)
(* fires between two others.  A transfer is                                *)
(*   - sliced, for the GPU's linked list (channel 2) and for the MDEC's    *)
(*     two channels (0 in, 1 out): each slice event moves a piece;         *)
(*   - complete inside the register write, for everything else.            *)
(*                                                                         *)
(* A handler runs several steps on the same state, so the state is one     *)
(* record, as in the code (struct Interconnect), and a step is an operator *)
(* from states to states.                                                  *)
(*                                                                         *)
(* Data: RAM addresses are counted in blocks, 0 .. RamLimit - 1, and       *)
(* RamLimit stands for any address past DMA_RAM_LIMIT.  The linked lists   *)
(* in RAM are the constants SliceEnd and ListEnd.                          *)
(***************************************************************************)
EXTENDS Irq

CONSTANTS RamLimit,    \* DMA_RAM_LIMIT, in blocks
          MaxWords,    \* the 10000h units a BCR of 0 stands for
          SliceWords,  \* MDEC_SLICE_WORDS, in blocks
          SliceEnd,    \* where a slice that starts at a node stops
          ListEnd,     \* where the list that starts at a node stops
          MadrWords,   \* what the guest writes to MADR,
          BcrWords,    \* to BCR,
          ChcrWords,   \* to CHCR: [Channels -> SUBSET Chcr],
          DicrWords    \* to DICR

Channels  == 0..6
MdecChannels == {0, 1}

Node       == 0..(RamLimit - 1)
OutOfRange == RamLimit          \* next address past the end of RAM
EndMarker  == RamLimit + 1      \* FFFFFFh
Runaway    == RamLimit + 2      \* a packet whose words leave RAM
Addr       == 0..(RamLimit + 1)

Chcr == [direction : {"TO_RAM", "FROM_RAM"}, enable : BOOLEAN, trigger : BOOLEAN,
         sync : {"MANUAL", "REQUEST", "LINKED_LIST", "INVALID"}]

Dicr == [force_irq : BOOLEAN, channel_irq_enable : SUBSET Channels,
         master_irq_enable : BOOLEAN, ack : SUBSET Channels]

ASSUME IrqLine   == "DMA" \in Lines
ASSUME Sizes     == /\ RamLimit \in Nat \ {0}
                    /\ MaxWords \in Nat \ {0}
                    /\ SliceWords \in Nat \ {0}
ASSUME GuestWords == /\ MadrWords \subseteq Addr
                     /\ BcrWords \subseteq 0..(MaxWords - 1)
                     /\ ChcrWords \in [Channels -> SUBSET Chcr]
                     /\ DicrWords \subseteq Dicr
(* The guest's lists: following slices from a node leads to where the list *)
(* ends, and a list with no end (a loop) stands at a node when the drain   *)
(* gives up.                                                               *)
ASSUME Lists ==
  /\ SliceEnd \in [Node -> 0..Runaway]
  /\ ListEnd \in [Node -> 0..Runaway]
  /\ \A a \in Node :
       IF SliceEnd[a] \notin Node THEN ListEnd[a] = SliceEnd[a]
       ELSE \/ ListEnd[a] = ListEnd[SliceEnd[a]]
            \/ ListEnd[a] \in Node /\ ListEnd[SliceEnd[a]] \in Node

VARIABLE inter

None == RamLimit + 3       \* no address: history only

Channel == [enable : BOOLEAN, trigger : BOOLEAN,
            direction : {"TO_RAM", "FROM_RAM"},
            sync : {"MANUAL", "REQUEST", "LINKED_LIST"},
            base_addr : Addr, words : 0..(MaxWords - 1)]

State ==
  [control            : SUBSET Channels,     \* DPCR master enables
   force_irq          : BOOLEAN,             \* DICR.15
   channel_irq_enable : SUBSET Channels,     \* DICR.16-22
   master_irq_enable  : BOOLEAN,             \* DICR.23
   channel_irq_flags  : SUBSET Channels,     \* DICR.24-30
   master_irq_flag    : BOOLEAN,             \* DICR.31
   channels           : [Channels -> Channel],
   gpu_ll_active      : BOOLEAN,
   gpu_ll_addr        : Addr,
   mdec               : [MdecChannels -> [active : BOOLEAN, addr : Addr,
                                          remaining : 0..MaxWords]],
   guest_regs         : SUBSET Channels,     \* s_guest_regs_during_transfer
   evq_pending        : SUBSET {"DMA_GPU", "MDEC"},
   irq                : IrqRegs,
   \* history: the MADR the guest wrote for its next transfer
   guest_madr         : [Channels -> Addr \cup {None}]]

TypeOK == inter \in State

(* dma_init, with the interrupt controller at reset.                       *)
Init ==
  inter = [control |-> {}, force_irq |-> FALSE, channel_irq_enable |-> {},
           master_irq_enable |-> FALSE, channel_irq_flags |-> {},
           master_irq_flag |-> FALSE,
           channels |-> [c \in Channels |->
              [enable |-> FALSE, trigger |-> FALSE, direction |-> "TO_RAM",
               sync |-> "MANUAL", base_addr |-> 0, words |-> 0]],
           gpu_ll_active |-> FALSE, gpu_ll_addr |-> 0,
           mdec |-> [c \in MdecChannels |->
              [active |-> FALSE, addr |-> 0, remaining |-> 0]],
           guest_regs |-> {}, evq_pending |-> {}, irq |-> IrqReset,
           guest_madr |-> [c \in Channels |-> None]]
-----------------------------------------------------------------------------
(* Assignments.                                                            *)

SetChannel(s, c, ch)         == [s EXCEPT !.channels[c] = ch]
SetList(s, addr, active)     == [s EXCEPT !.gpu_ll_addr = addr, !.gpu_ll_active = active]
SetMdec(s, c, d)             == [s EXCEPT !.mdec[c] = d]
SetGuestRegs(s, cs)          == [s EXCEPT !.guest_regs = cs]
Schedule(s, event)           == [s EXCEPT !.evq_pending = @ \cup {event}]
Take(s, event)               == [s EXCEPT !.evq_pending = @ \ {event}]
-----------------------------------------------------------------------------
(* The interrupt side.                                                     *)

MasterFlag(s) == s.force_irq \/ (s.master_irq_enable /\ s.channel_irq_flags # {})

UpdateIrq_NeverLower(s) ==
  [s EXCEPT !.master_irq_flag = MasterFlag(s),
            !.irq = IF MasterFlag(s) THEN SetIrqLine(@, "DMA", TRUE) ELSE @]

UpdateIrq_ClearsStatus(s) ==
  [s EXCEPT !.master_irq_flag = MasterFlag(s),
            !.irq = IF s.master_irq_flag = MasterFlag(s) THEN @
                    ELSE IF MasterFlag(s) THEN SetIrqLine(@, "DMA", TRUE)
                    ELSE [@ EXCEPT !.status = @ \ {"DMA"}]]

(* dma_update_irq: the line follows changes of the master flag.            *)
UpdateIrq(s) ==
  [s EXCEPT !.master_irq_flag = MasterFlag(s),
            !.irq = IF s.master_irq_flag = MasterFlag(s) THEN @
                    ELSE SetIrqLine(@, "DMA", MasterFlag(s))]

(* dma_flag_bus_error.                                                     *)
FlagBusError(s) ==
  IF s.force_irq THEN s ELSE UpdateIrq([s EXCEPT !.force_irq = TRUE])

FlagCompletion_NoUpdate(s, c) ==
  IF c \in s.channel_irq_enable THEN [s EXCEPT !.channel_irq_flags = @ \cup {c}] ELSE s

(* The end of dma_ch2_signal_done, dma_mdec_signal_done and                *)
(* interconnect_perform_dma: the enable decides whether the flag is set.   *)
FlagCompletion(s, c) ==
  IF c \in s.channel_irq_enable
  THEN UpdateIrq([s EXCEPT !.channel_irq_flags = @ \cup {c}])
  ELSE s

(* dma_channel_done.                                                       *)
ChannelDone(s, c) ==
  SetChannel(s, c, [s.channels[c] EXCEPT !.enable = FALSE, !.trigger = FALSE])

SignalDone(s, c) == FlagCompletion(ChannelDone(s, c), c)
-----------------------------------------------------------------------------
(* Registers of a channel.                                                 *)

(* dma_channel_is_active.                                                  *)
IsActive(ch) == ch.enable /\ (ch.sync = "MANUAL" => ch.trigger)

(* dma_slice_running, dma_slice_in_flight.                                 *)
InFlight(s, c) == CASE c \in MdecChannels -> s.mdec[c].active
                    [] c = 2              -> s.gpu_ll_active
                    [] OTHER              -> FALSE

(* dma_get_transfer_size_words, for the sync modes that have a size.       *)
TransferSize(ch) == IF ch.words = 0 THEN MaxWords ELSE ch.words

(* dma_channel_progress: SyncMode 1 moves MADR and counts BCR down, with   *)
(* 10000h reading back as 0; SyncMode 0 (without chopping) moves neither.  *)
Progress(ch, next, remaining) ==
  IF ch.sync = "REQUEST"
  THEN [ch EXCEPT !.base_addr = next,
                  !.words = IF remaining = MaxWords THEN 0 ELSE remaining]
  ELSE ch

Writeback_Always(s, c, next, remaining) ==
  SetChannel(s, c, Progress(s.channels[c], next, remaining))

(* dma_writeback and dma_writeback_list: what the guest wrote during the   *)
(* transfer wins.                                                          *)
Writeback(s, c, next, remaining) ==
  IF c \in s.guest_regs THEN s
  ELSE SetChannel(s, c, Progress(s.channels[c], next, remaining))

WritebackList(s, c, madr) ==
  IF c \in s.guest_regs THEN s
  ELSE SetChannel(s, c, [s.channels[c] EXCEPT !.base_addr = madr])

(* How many of n words, from addr on, lie inside RAM.                      *)
InRam(addr, n) == IF addr >= RamLimit THEN 0
                  ELSE IF addr + n > RamLimit THEN RamLimit - addr ELSE n
-----------------------------------------------------------------------------
(* Channel 2, linked list.                                                 *)

(* What dma_gpu_run_slice does once the list has led it to `stop': a node  *)
(* to continue from, the end marker, or one of the two ways out of RAM.    *)
StopList(s, stop) ==
  CASE stop \in Node      -> SetList(s, stop, s.gpu_ll_active)
    [] stop = EndMarker   -> SetList(s, stop, FALSE)
    [] stop = OutOfRange  -> SetList(FlagBusError(s), stop, FALSE)
    [] OTHER              -> SetList(FlagBusError(s), s.gpu_ll_addr, FALSE)

Follow(s, ends) == StopList(s, IF s.gpu_ll_addr \in Node THEN ends[s.gpu_ll_addr]
                               ELSE Runaway)

(* dma_gpu_run_slice.  With nothing in flight it reports "done".           *)
GpuRunSlice(s) == IF s.gpu_ll_active THEN Follow(s, SliceEnd) ELSE s

GpuResume_ErrorIsSilent(s) ==
  LET r == GpuRunSlice(s)
      w == IF s.gpu_ll_active THEN WritebackList(r, 2, r.gpu_ll_addr) ELSE r
  IN IF w.gpu_ll_active THEN Schedule(w, "DMA_GPU")
     ELSE IF w.force_irq /\ ~s.force_irq THEN w
     ELSE SignalDone(w, 2)

GpuResume_OneSlice(s) ==
  LET r == GpuRunSlice(s)
  IN IF r.gpu_ll_active THEN WritebackList(r, 2, r.gpu_ll_addr) ELSE SignalDone(r, 2)

(* dma_gpu_resume: one slice; then MADR, and either the next slice or the  *)
(* end of the transfer.                                                    *)
GpuResume(s) ==
  LET r == GpuRunSlice(s)
      w == IF s.gpu_ll_active THEN WritebackList(r, 2, r.gpu_ll_addr) ELSE r
  IN IF w.gpu_ll_active THEN Schedule(w, "DMA_GPU")
     ELSE SignalDone(w, 2)

(* The drain loop of interconnect_perform_dma.                             *)
GpuDrain(s) == SignalDone(Follow(s, ListEnd), 2)
-----------------------------------------------------------------------------
(* Channels 0 and 1, MDEC.                                                 *)

(* One half of dma_mdec_run_slice: as many words as the slice, the rest of *)
(* the transfer and the MDEC (`ready' words of FIFO space or of output)    *)
(* allow.  Leaving RAM is a bus error and ends the transfer.               *)
MdecRunHalf(s, c, ready) ==
  LET d    == s.mdec[c]
      want == CHOOSE n \in {d.remaining, SliceWords, ready} :
                \A x \in {d.remaining, SliceWords, ready} : n <= x
      done == InRam(d.addr, want)
      left == IF done < want THEN 0 ELSE d.remaining - done
      e    == IF done < want THEN FlagBusError(s) ELSE s
  IN IF d.active
     THEN SetMdec(e, c, [active |-> left > 0, addr |-> d.addr + done, remaining |-> left])
     ELSE s

MdecWriteback(s, old, c) ==
  IF old.mdec[c].active THEN Writeback(s, c, s.mdec[c].addr, s.mdec[c].remaining)
  ELSE s

MdecSignal_BothDone(s, old, c) ==
  IF old.mdec[c].active /\ ~(s.mdec[0].active \/ s.mdec[1].active)
  THEN SignalDone(s, c) ELSE s

MdecSignal(s, old, c) ==
  IF old.mdec[c].active /\ ~s.mdec[c].active THEN SignalDone(s, c) ELSE s

MdecResume_InputOnly(s, ready) ==
  LET r == MdecRunHalf(MdecRunHalf(s, 0, ready[0]), 1, ready[1])
      w == MdecWriteback(MdecWriteback(r, s, 0), s, 1)
      d == MdecSignal(MdecSignal(w, s, 0), s, 1)
  IN IF d.mdec[0].active THEN Schedule(d, "MDEC") ELSE d

(* dma_mdec_resume: both halves, then MADR and BCR, then the completions,  *)
(* then the next slice.                                                    *)
MdecResume(s, ready) ==
  LET r == MdecRunHalf(MdecRunHalf(s, 0, ready[0]), 1, ready[1])
      w == MdecWriteback(MdecWriteback(r, s, 0), s, 1)
      d == MdecSignal(MdecSignal(w, s, 0), s, 1)
  IN IF d.mdec[0].active \/ d.mdec[1].active THEN Schedule(d, "MDEC") ELSE d
-----------------------------------------------------------------------------
(* interconnect_perform_dma.                                               *)

(* A block transfer that runs to its end at once: GPU upload, and the loop *)
(* shared by all the other channels and directions.                        *)
RunBlock(s, c) ==
  LET ch   == s.channels[c]
      size == TransferSize(ch)
      n    == InRam(ch.base_addr, size)
      e    == IF n < size THEN FlagBusError(s) ELSE s
  IN Writeback(e, c, ch.base_addr + n, size - n)

GpuBlock(s) == SignalDone(RunBlock(SetList(s, s.gpu_ll_addr, FALSE), 2), 2)

MdecStart(s, c, ready) ==
  MdecResume(SetMdec(s, c, [active |-> TRUE, addr |-> s.channels[c].base_addr,
                            remaining |-> TransferSize(s.channels[c])]),
             ready)

(* dma_writeback_begin.                                                    *)
WritebackBegin(s, c) == [SetGuestRegs(s, s.guest_regs \ {c}) EXCEPT !.guest_madr[c] = None]

ToGpu(c, direction)     == c = 2 /\ direction = "FROM_RAM"
MdecSliced(c, direction) == \/ c = 0 /\ direction = "FROM_RAM"
                            \/ c = 1 /\ direction = "TO_RAM"

(* The switch on the sync mode.  A linked list on any channel but the      *)
(* GPU's is an error that completes at once.                               *)
StartTransfer(s, c, ready) ==
  LET ch == s.channels[c]
      b  == WritebackBegin(s, c)
  IN CASE ch.sync = "LINKED_LIST" /\ ToGpu(c, ch.direction) ->
            GpuResume(SetList(b, ch.base_addr, TRUE))
       [] ch.sync = "LINKED_LIST" /\ ~ToGpu(c, ch.direction) ->
            SignalDone(b, c)
       [] ch.sync # "LINKED_LIST" /\ ToGpu(c, ch.direction) ->
            GpuBlock(b)
       [] ch.sync # "LINKED_LIST" /\ MdecSliced(c, ch.direction) ->
            MdecStart(b, c, ready)
       [] OTHER ->
            SignalDone(RunBlock(b, c), c)

(* A kick on a running MDEC channel is dropped; one on the GPU channel     *)
(* first drains the list that is in flight.                                *)
PerformDma(s, c, ready) ==
  CASE InFlight(s, c) /\ c # 2 -> s
    [] InFlight(s, c) /\ c = 2 -> StartTransfer(GpuDrain(s), c, ready)
    [] OTHER                   -> StartTransfer(s, c, ready)
-----------------------------------------------------------------------------
(* What the guest does: dma_write behind hw_dma_write.                     *)

Ready == [MdecChannels -> 0..SliceWords]

NoteGuestWrite_Never(s, c) == s

NoteGuestWrite(s, c) ==
  IF InFlight(s, c) THEN SetGuestRegs(s, s.guest_regs \cup {c}) ELSE s

WriteMadr(c, a) ==
  LET s == SetChannel(inter, c, [inter.channels[c] EXCEPT !.base_addr = a])
  IN inter' = NoteGuestWrite([s EXCEPT !.guest_madr[c] = a], c)

WriteBcr(c, n) ==
  inter' = NoteGuestWrite(SetChannel(inter, c, [inter.channels[c] EXCEPT !.words = n]), c)

SetControl_AnySync(ch, v) ==
  [ch EXCEPT !.direction = v.direction, !.enable = v.enable, !.trigger = v.trigger,
             !.sync = v.sync]

(* channel_set_control: an invalid sync mode leaves the old one.           *)
SetControl(ch, v) ==
  [ch EXCEPT !.direction = v.direction, !.enable = v.enable, !.trigger = v.trigger,
             !.sync = IF v.sync = "INVALID" THEN @ ELSE v.sync]

CancelSlice_GpuOnly(s, c) == IF c = 2 THEN SetList(s, s.gpu_ll_addr, FALSE) ELSE s

(* dma_cancel_slice.                                                       *)
CancelSlice(s, c) == CASE c \in MdecChannels -> SetMdec(s, c, [s.mdec[c] EXCEPT !.active = FALSE])
                       [] c = 2              -> SetList(s, s.gpu_ll_addr, FALSE)
                       [] OTHER              -> s

WriteChcr(c, v, ready) ==
  LET s == SetChannel(inter, c, SetControl(inter.channels[c], v))
  IN inter' = IF ~IsActive(s.channels[c]) THEN CancelSlice(s, c)
              ELSE IF c \in s.control THEN PerformDma(s, c, ready)
              ELSE s

Unblock_Never(s, c, ready) == s
Unblock_EvenRunning(s, c, ready) ==
  IF c \in s.control /\ IsActive(s.channels[c]) THEN StartTransfer(s, c, ready) ELSE s
Unblock_GpuOnly(s, c, ready) ==
  IF c = 2 /\ c \in s.control /\ IsActive(s.channels[c]) /\ ~InFlight(s, c)
  THEN PerformDma(s, c, ready)
  ELSE s

(* The loop of hw_dma_write over the channels that a DPCR write unblocks.  *)
Unblock(s, c, ready) ==
  IF c \in s.control /\ IsActive(s.channels[c]) /\ ~InFlight(s, c)
  THEN PerformDma(s, c, ready)
  ELSE s

WriteDpcr(enables, ready) ==
  LET s0 == Unblock([inter EXCEPT !.control = enables], 0, ready)
      s1 == Unblock(s0, 1, ready)
      s2 == Unblock(s1, 2, ready)
      s3 == Unblock(s2, 3, ready)
      s4 == Unblock(s3, 4, ready)
      s5 == Unblock(s4, 5, ready)
  IN inter' = Unblock(s5, 6, ready)

WriteDicr(v) ==
  inter' = UpdateIrq([inter EXCEPT !.force_irq = v.force_irq,
                                   !.channel_irq_enable = v.channel_irq_enable,
                                   !.master_irq_enable = v.master_irq_enable,
                                   !.channel_irq_flags = @ \ v.ack])

GuestIStat(keep) == inter' = [inter EXCEPT !.irq = WriteIStat(@, keep)]

(* What the scheduler does: evq_handle_dma_gpu and dma_mdec_resume.  The   *)
(* dispatcher clears the pending bit before it calls the handler.          *)
DmaGpuEvent ==
  /\ "DMA_GPU" \in inter.evq_pending
  /\ inter' = GpuResume(Take(inter, "DMA_GPU"))

MdecEvent(ready) ==
  /\ "MDEC" \in inter.evq_pending
  /\ inter' = MdecResume(Take(inter, "MDEC"), ready)

(* The channels the guest drives.                                          *)
Driven == {c \in Channels : ChcrWords[c] # {}}

Next == \/ \E c \in Driven, a \in MadrWords : WriteMadr(c, a)
        \/ \E c \in Driven, n \in BcrWords : WriteBcr(c, n)
        \/ \E c \in Driven : \E v \in ChcrWords[c], ready \in Ready : WriteChcr(c, v, ready)
        \/ \E enables \in SUBSET Driven, ready \in Ready : WriteDpcr(enables, ready)
        \/ \E v \in DicrWords : WriteDicr(v)
        \/ \E keep \in SUBSET Lines : GuestIStat(keep)
        \/ DmaGpuEvent
        \/ \E ready \in Ready : MdecEvent(ready)

Spec == Init /\ [][Next]_inter

(* evq_handle_dma_gpu runs once its target cycle is reached: the CPU keeps *)
(* retiring instructions, and eventq_dispatch_due fires every due event.   *)
FairSpec == Spec /\ WF_inter(DmaGpuEvent)
-----------------------------------------------------------------------------
(* DICR.31 is a cache of a condition over four other fields that six       *)
(* handlers change: it is never stale.                                     *)
MasterFlagDerived == inter.master_irq_flag = MasterFlag(inter)

(* The IRQ3 line is high only while DICR.31 is (it may be low, once the    *)
(* guest cleared the I_STAT bit), so a rising DICR.31 is always an edge.   *)
LineFollowsMaster == "DMA" \in inter.irq.line => inter.master_irq_flag

(* A transfer in flight always has its next slice in the event queue: no   *)
(* order of kicks, aborts, drains and errors leaves one that nothing will  *)
(* ever resume.                                                            *)
InFlightIsScheduled ==
  /\ InFlight(inter, 2) => "DMA_GPU" \in inter.evq_pending
  /\ \A c \in MdecChannels : InFlight(inter, c) => "MDEC" \in inter.evq_pending

(* An MDEC channel is busy for as long as its transfer is in flight, and   *)
(* the transfer has words left.                                            *)
MdecBusyWhileInFlight ==
  \A c \in MdecChannels :
     InFlight(inter, c) => IsActive(inter.channels[c]) /\ inter.mdec[c].remaining > 0

(* No kick is lost: a channel that is started and enabled in DPCR has its  *)
(* transfer in flight; every other one has run to its end, or waits.       *)
StartedIsRunning ==
  \A c \in inter.control : IsActive(inter.channels[c]) => InFlight(inter, c)

(* The MADR the guest wrote last is the one its next transfer starts from, *)
(* whatever slices of the previous transfer ran in between (dma.c:81-92).  *)
GuestMadrWins ==
  \A c \in Channels :
     inter.guest_madr[c] # None => inter.channels[c].base_addr = inter.guest_madr[c]

(* A rising DICR.31 always reaches I_STAT: the completion that raises it   *)
(* cannot be swallowed by an earlier one.                                  *)
MasterRiseIsPending ==
  [][~inter.master_irq_flag /\ inter'.master_irq_flag => "DMA" \in inter'.irq.status]_inter

(* The guest clears the start bit of a running channel.                    *)
Abort(c) == \E v \in ChcrWords[c], ready \in Ready :
               ~IsActive(SetControl(inter.channels[c], v)) /\ WriteChcr(c, v, ready)

(* A sliced transfer that stops, at its end, on a bus error or because the *)
(* next kick drained it, raises its completion flag if the channel's       *)
(* interrupt is enabled; only an abort is silent.                          *)
EndIsSignalled ==
  [][\A c \in {0, 1, 2} :
       InFlight(inter, c) /\ ~InFlight(inter', c) /\ c \in inter.channel_irq_enable
         => c \in inter'.channel_irq_flags \/ Abort(c)]_inter

(* A DPCR write does not start a running transfer over (bus.c:319-324).    *)
DpcrNeverRestarts ==
  [][\/ /\ InFlight(inter, 2) =>
             inter'.gpu_ll_active /\ inter'.gpu_ll_addr = inter.gpu_ll_addr
        /\ \A c \in MdecChannels : InFlight(inter, c) =>
             inter'.mdec[c].remaining <= inter.mdec[c].remaining
     \/ ~ \E enables \in SUBSET Driven, ready \in Ready : WriteDpcr(enables, ready)]_inter

(* Once the guest stops starting GPU transfers, a linked list in flight    *)
(* comes to its end, unless it has none.                                   *)
Idle == [c \in MdecChannels |-> 0]      \* to channel 2, one MDEC is as good as another
GuestKick == \/ \E v \in ChcrWords[2] : WriteChcr(2, v, Idle)
             \/ \E ready \in Ready : WriteDpcr(inter'.control, ready)
Endless(s) == s.gpu_ll_addr \in Node /\ ListEnd[s.gpu_ll_addr] \in Node
GpuListEnds ==
  <>[][~GuestKick]_inter => <>[](InFlight(inter, 2) => Endless(inter))

(* The controller as a whole: its derived flag and line, and the event of  *)
(* each transfer, are in step with the registers.                          *)
ControllerIsSound ==
  TypeOK /\ MasterFlagDerived /\ LineFollowsMaster /\ InFlightIsScheduled

(* A start is neither lost nor taken twice, by CHCR or by DPCR.            *)
StartsAreKept == []StartedIsRunning /\ DpcrNeverRestarts

(* What the slice state keeps beside the registers agrees with them.       *)
SlicesAgree == MdecBusyWhileInFlight /\ GuestMadrWins

(* The guest hears of every end, and of every rise of DICR.31.             *)
EndsAreHeard == EndIsSignalled /\ MasterRiseIsPending
-----------------------------------------------------------------------------
(* "A channel started while its Master Enable is off waits, and begins     *)
(* when the enable bit is set" (bus.c:320-321): until then, or until the   *)
(* guest writes its CHCR again, it stays active.                           *)
Waiting(s, c) == c \notin s.control /\ IsActive(s.channels[c]) /\ ~InFlight(s, c)

StartedChannelWaits ==
  [][\A c \in Channels :
       Waiting(inter, c) =>
          \/ Waiting(inter', c)
          \/ c \in inter'.control
          \/ \E v \in ChcrWords[c], ready \in Ready : WriteChcr(c, v, ready)]_inter
=============================================================================
