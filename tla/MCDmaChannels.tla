---------------------------- MODULE MCDmaChannels ----------------------------
(***************************************************************************)
(* Dma for TLC under two guests, apart because together they are too many  *)
(* states: subject is the one a behaviour is about.  "gpu" drives channel  *)
(* 2, with MCDma's linked lists; "mdec" drives the two channels of the     *)
(* MDEC, in transfers of two slices, the second of which leaves RAM when   *)
(* the guest wrote the MADR; only the first acknowledges in I_STAT.  Of    *)
(* the MDEC's two channels, which run the same code, one is given MADRs    *)
(* and the other BCRs.                                                     *)
(***************************************************************************)
EXTENDS MCDma

VARIABLE subject

channel_vars == <<subject, inter>>

ChannelChcr == [GpuChcr EXCEPT
  ![0] = {Start("REQUEST", "FROM_RAM"), Stop},
  ![1] = {Start("REQUEST", "TO_RAM")}]

MdecDicr ==
  {[force_irq |-> FALSE, channel_irq_enable |-> {0, 1}, master_irq_enable |-> TRUE, ack |-> {0, 1}]}

ChannelDicr == GpuDicr \cup MdecDicr

(* Dma's Next, of one guest: the channels it starts, the ones it writes    *)
(* the MADR or the BCR of, and what it writes.                             *)
Guest(driven, pointed, sized, madrs, bcrs, dicrs, keeps, readies) ==
  \/ \E c \in pointed, a \in madrs : WriteMadr(c, a)
  \/ \E c \in sized, n \in bcrs : WriteBcr(c, n)
  \/ \E c \in driven : \E v \in ChcrWords[c], ready \in readies : WriteChcr(c, v, ready)
  \/ \E enables \in SUBSET driven, ready \in readies : WriteDpcr(enables, ready)
  \/ \E v \in dicrs : WriteDicr(v)
  \/ \E keep \in keeps : GuestIStat(keep)
  \/ DmaGpuEvent
  \/ \E ready \in readies : MdecEvent(ready)

ChannelsInit == Init /\ subject \in {"gpu", "mdec"}

ChannelsNext ==
  /\ \/ subject = "gpu"  /\ Guest({2}, {2}, {2}, MadrWords \ {RamLimit - 1}, BcrWords, GpuDicr, SUBSET Lines, {Idle})
     \/ subject = "mdec" /\ Guest(MdecChannels, {0}, {1}, {RamLimit - 1}, {0}, MdecDicr, {}, Ready)
  /\ UNCHANGED subject

ChannelsSpec ==
  ChannelsInit /\ [][ChannelsNext]_channel_vars /\ WF_inter(subject = "gpu" /\ DmaGpuEvent)
=============================================================================
