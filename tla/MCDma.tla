------------------------------- MODULE MCDma -------------------------------
(* Instances of Dma for TLC: what the guest writes, and its lists.         *)
EXTENDS Dma

NoWords == [c \in Channels |-> {}]

Start(sync, dir) == [direction |-> dir, enable |-> TRUE, trigger |-> TRUE, sync |-> sync]
Stop == [direction |-> "FROM_RAM", enable |-> FALSE, trigger |-> FALSE, sync |-> "INVALID"]

(* The GPU channel: lists, uploads, read-backs and aborts.                 *)
GpuChcr == [NoWords EXCEPT
  ![2] = {Start("LINKED_LIST", "FROM_RAM"), Start("REQUEST", "FROM_RAM"),
          Start("REQUEST", "TO_RAM"), Stop}]


(* DICR: channel interrupts off, on, acknowledged, and a forced bus error. *)
Dicr4(cs) ==
  {[force_irq |-> FALSE, channel_irq_enable |-> {}, master_irq_enable |-> FALSE, ack |-> {}],
   [force_irq |-> FALSE, channel_irq_enable |-> cs, master_irq_enable |-> TRUE,  ack |-> {}],
   [force_irq |-> FALSE, channel_irq_enable |-> cs, master_irq_enable |-> TRUE,  ack |-> cs],
   [force_irq |-> TRUE,  channel_irq_enable |-> cs, master_irq_enable |-> FALSE, ack |-> {}]}
GpuDicr == Dicr4({2})

(* RAM of three nodes: 0 -> 1 -> end, 2 -> out of RAM; and one with a node *)
(* whose packet leaves RAM and a list without end.                         *)
FiniteSliceEnd == [a \in Node |-> CASE a = 0 -> 1 [] a = 1 -> EndMarker [] OTHER -> OutOfRange]
FiniteListEnd  == [a \in Node |-> IF a \in {0, 1} THEN EndMarker ELSE OutOfRange]
BadSliceEnd == [a \in Node |-> CASE a = 0 -> 0 [] a = 1 -> 2 [] OTHER -> Runaway]
BadListEnd  == [a \in Node |-> IF a = 0 THEN 0 ELSE Runaway]
=============================================================================
