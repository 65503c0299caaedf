----------------------------- MODULE IrqDevices -----------------------------
(***************************************************************************)
(* Every way a device of this machine reaches the interrupt controller,    *)
(* and the two registers through which the guest answers.                  *)
(*                                                                         *)
(*   VBLANK, TMR0..2   raise the line and never lower it                   *)
(*   GPU, SPU          raise it with a flag of their own, lower it when    *)
(*                     the guest acknowledges the device                   *)
(*   SIO               raises and lowers it at once                        *)
(*   CDROM             lowers it, then raises it                           *)
(*                                                                         *)
(* The DMA line is driven by module Dma.                                   *)
(***************************************************************************)
EXTENDS Irq

LatchLines == Lines \cap {"VBLANK", "TMR0", "TMR1", "TMR2"}
FlagLines  == Lines \cap {"GPU", "SPU"}

VARIABLES irq,      \* the controller's registers
          flag,     \* gpu->interrupt and spu->irq9_flag
          owed      \* history: requested since the guest last cleared the bit

vars == <<irq, flag, owed>>

TypeOK == /\ irq \in IrqRegs
          /\ flag \in SUBSET FlagLines
          /\ owed \in SUBSET Lines

Init == irq = IrqReset /\ flag = {} /\ owed = {}

(* interconnect_request_irq from evq_handle_vblank and from a timer that   *)
(* finds its bit clear (timer_fire_irq's already_pending guard).           *)
LatchRequest(l) ==
  /\ l = "VBLANK" \/ l \notin irq.status
  /\ irq' = SetIrqLine(irq, l, TRUE)
  /\ owed' = owed \cup {l}
  /\ UNCHANGED flag

(* gp0_interrupt_request: GP0(1Fh) may come again before GP1(02h).         *)
GpuRequest ==
  /\ "GPU" \in FlagLines
  /\ flag' = flag \cup {"GPU"}
  /\ irq' = SetIrqLine(irq, "GPU", TRUE)
  /\ owed' = owed \cup {"GPU"}

(* spu_check_irq, spu_check_irq_range: no new request while the flag is up. *)
SpuRequest ==
  /\ "SPU" \in FlagLines \ flag
  /\ flag' = flag \cup {"SPU"}
  /\ irq' = SetIrqLine(irq, "SPU", TRUE)
  /\ owed' = owed \cup {"SPU"}

(* gp1_acknowledge_irq and spu_irq_acknowledge.                            *)
DeviceAck(l) ==
  /\ flag' = flag \ {l}
  /\ irq' = SetIrqLine(irq, l, FALSE)
  /\ UNCHANGED owed

(* gp1_reset: GPUSTAT.24 is cleared, the line stays where it is.           *)
GpuReset ==
  /\ "GPU" \in FlagLines
  /\ flag' = flag \ {"GPU"}
  /\ UNCHANGED <<irq, owed>>

SioRequest_Flagged ==
  /\ "SIO" \in Lines
  /\ irq' = PulseLine(irq, "SIO")
  /\ flag' = flag \cup {"SIO"}
  /\ owed' = owed \cup {"SIO"}

(* sio_execute_event and hw_sio_write with pending_irq set.                *)
SioRequest ==
  /\ "SIO" \in Lines
  /\ irq' = PulseLine(irq, "SIO")
  /\ owed' = owed \cup {"SIO"}
  /\ UNCHANGED flag

CdromRequest ==
  /\ "CDROM" \in Lines
  /\ irq' = TriggerLine(irq, "CDROM")
  /\ owed' = owed \cup {"CDROM"}
  /\ UNCHANGED flag

GuestIStat(keep) ==
  /\ irq' = WriteIStat(irq, keep)
  /\ owed' = owed \cap keep
  /\ UNCHANGED flag

GuestIMask(m) ==
  /\ irq' = WriteIMask(irq, m)
  /\ UNCHANGED <<flag, owed>>

Next == \/ \E l \in LatchLines : LatchRequest(l)
        \/ GpuRequest
        \/ SpuRequest
        \/ \E l \in FlagLines : DeviceAck(l)
        \/ GpuReset
        \/ SioRequest
        \/ CdromRequest
        \/ \E keep \in SUBSET Lines : GuestIStat(keep)
        \/ \E m \in SUBSET Lines : GuestIMask(m)

Spec == Init /\ [][Next]_vars
-----------------------------------------------------------------------------
(* What the edge detector rests on: a line is never left high once its     *)
(* I_STAT bit is clear.  With a line stuck high the device's next request  *)
(* makes no edge and is lost (the failure told at dma.c:175-180).          *)
HighLineIsPending == irq.line \subseteq irq.status

(* No request is lost and none is invented: I_STAT holds exactly the lines *)
(* that were requested since the guest last cleared their bits, whatever   *)
(* the order of device requests, device acknowledges and I_STAT writes.    *)
NoRequestLost == irq.status = owed

(* Both together: whatever was requested is pending, and the next request  *)
(* will make an edge.                                                      *)
RequestsAreKept == HighLineIsPending /\ NoRequestLost
=============================================================================
