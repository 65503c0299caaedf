-------------------------------- MODULE Irq --------------------------------
(***************************************************************************)
(* The interrupt controller of src/core/bus_irq.c and hw_irq_write() in    *)
(* src/core/bus.c, as operators on a record of its three registers.  The   *)
(* controller has no behaviour of its own: the devices and the guest call  *)
(* it, so the modules that own a device (Dma, IrqDevices) apply these      *)
(* operators inside their actions.                                         *)
(***************************************************************************)
EXTENDS Naturals

CONSTANT Lines      \* the interrupt sources in use, e.g. {"VBLANK", "DMA"}

(* inter->irq_status (I_STAT), inter->irq_line_state and inter->irq_mask,   *)
(* each as the set of lines whose bit is 1.                                *)
IrqRegs == [status : SUBSET Lines, line : SUBSET Lines, mask : SUBSET Lines]

IrqReset == [status |-> {}, line |-> {}, mask |-> {}]

(* interconnect_set_irq_line: I_STAT latches a low-to-high change of the   *)
(* line and nothing else.                                                  *)
RaiseLine(q, l) ==
  [q EXCEPT !.line   = @ \cup {l},
            !.status = IF l \in q.line THEN @ ELSE @ \cup {l}]

LowerLine_Acknowledges(q, l) == [q EXCEPT !.line = @ \ {l}, !.status = @ \ {l}]

LowerLine(q, l) == [q EXCEPT !.line = @ \ {l}]

SetIrqLine(q, l, level) == IF level THEN RaiseLine(q, l) ELSE LowerLine(q, l)

(* SIO (and the bus after an SIO register write) raises and drops the line *)
(* in one go.                                                              *)
PulseLine(q, l) == LowerLine(RaiseLine(q, l), l)

(* interconnect_trigger_cdrom_irq: low, then high.                         *)
TriggerLine(q, l) == RaiseLine(LowerLine(q, l), l)

WriteIStat_KeepsLine(q, keep) == [q EXCEPT !.status = @ \cap keep]

(* hw_irq_write to I_STAT: 0 clears, 1 keeps, and the line of a cleared    *)
(* bit is forgotten so that its device can raise it again.                 *)
WriteIStat(q, keep) == [q EXCEPT !.status = @ \cap keep,
                                 !.line   = @ \cap keep]

WriteIMask(q, m) == [q EXCEPT !.mask = m]

(* CheckPendingInterrupt: Cause.IP2 is the level of I_STAT & I_MASK.       *)
InterruptRequested(q) == q.status \cap q.mask # {}
=============================================================================
