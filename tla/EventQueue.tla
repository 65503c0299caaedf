----------------------------- MODULE EventQueue -----------------------------
(***************************************************************************)
(* The event scheduler (src/core/event_scheduler.c) and the part of        *)
(* cpu_step() that drives it (src/cpu/cpu_execution.c).                    *)
(*                                                                         *)
(* Time is cpu_cycle_counter, a 32-bit counter that wraps every 127 s.     *)
(* The CPU counts `downcount' down as it counts cycles up and looks at the *)
(* queue only when downcount reaches zero; whoever schedules an event      *)
(* shortens downcount if the event is sooner than anything known.  Here    *)
(* the counter is modulo CounterModulus, small enough for TLC to wrap it   *)
(* many times.                                                             *)
(*                                                                         *)
(* `backlog' is history: the cycles to each pending event, exactly,        *)
(* with no modulus.  What the code computes from wrapped differences is    *)
(* checked against it.                                                     *)
(***************************************************************************)
EXTENDS Integers

CONSTANTS
  CounterModulus, \* 2^32
  LastEvent,    \* the events are 0..LastEvent, and 0 is EVQ_VBLANK
  DmaEvents,    \* those whose handler reads RAM through the CPU's bus
  Delays,       \* what eventq_schedule is called with
  FetchCosts,   \* cycles charged while an instruction is fetched,
  MemStalls,    \* owed by its data accesses,
  DmaStalls     \* and taken off downcount by a DMA it starts

ASSUME CounterSize == CounterModulus \in Nat /\ CounterModulus > 1 /\ CounterModulus % 2 = 0
ASSUME Queue   == LastEvent \in Nat /\ DmaEvents \subseteq 0..LastEvent
ASSUME Charges == /\ FetchCosts \subseteq Nat
                  /\ MemStalls \subseteq Nat
                  /\ DmaStalls \subseteq Nat
(* Every caller passes at least one cycle, and less than half the range of *)
(* the counter (the longest period is a timer's, 65536 x 2160 cycles).     *)
ASSUME SaneDelays == Delays \subseteq 1..(CounterModulus \div 2 - 1)
(* What two fetches and an instruction can cost, with an exception between *)
(* them and a stall left by a slice of every event, is small against the   *)
(* counter too.                                                            *)
ASSUME SaneCharges ==
  \E f \in FetchCosts \cup {0}, s \in MemStalls \cup {0} :
     /\ \A n \in FetchCosts : n <= f
     /\ \A n \in MemStalls : n <= s
     /\ 2 * f + (LastEvent + 3) * s < CounterModulus \div 2

Events == 0..LastEvent
VBLANK == 0
CycleOf ==  0..(CounterModulus - 1)
NoTarget == CounterModulus - 1          \* UINT32_MAX, which is also a cycle

(* (int32_t)(x).                                                           *)
Signed(x) == LET y == x % CounterModulus
             IN IF y >= CounterModulus \div 2 THEN y - CounterModulus ELSE y

VARIABLES
  sys,      \* the machine's clock and queue
  scan,     \* where eventq_dispatch_due stands, or Running
  faulted,  \* the last step ended in an exception
  backlog      \* history: exact cycles to each pending event

queue_vars == <<sys, scan, faulted, backlog>>

Running == [event |-> -1]     \* the CPU is between two instructions

(* evq_pending is the domain of evq_target_cycle.                          *)
Pending == DOMAIN sys.evq_target_cycle

QueueTypeOK ==
  /\ DOMAIN sys.evq_target_cycle \subseteq Events
  /\ \A e \in Pending : sys.evq_target_cycle[e] \in CycleOf
  /\ sys.cpu_cycle_counter \in CycleOf
  /\ sys.evq_next_cycle \in CycleOf
  /\ sys.downcount \in Int
  /\ sys.cpu_mem_stall_cycles \in Nat
  /\ \/ scan = Running
     \/ /\ scan.event \in 0..(LastEvent + 1)
        /\ scan.pending \subseteq Events
        /\ scan.any_fired \in BOOLEAN
        /\ scan.soonest \in CycleOf
        /\ scan.best_delta \in 1..CounterModulus
  /\ faulted \in BOOLEAN
  /\ DOMAIN backlog = Pending
  /\ \A e \in Pending : backlog[e] \in Int
-----------------------------------------------------------------------------
With(f, e, v)  == [x \in DOMAIN f \cup {e} |-> IF x = e THEN v ELSE f[x]]
Without(f, e)  == [x \in DOMAIN f \ {e} |-> f[x]]
Aged(f, n)   == [x \in DOMAIN f |-> f[x] - n]

(* Cycles that pass on the counter and on downcount together.              *)
Charge(q, n) == [q EXCEPT !.cpu_cycle_counter = (@ + n) % CounterModulus, !.downcount = @ - n]

(* eventq_schedule.                                                        *)
Sooner(q, target) ==
  \/ Signed(q.evq_next_cycle - target) > 0
  \/ Signed(q.evq_next_cycle - q.cpu_cycle_counter) <= 0

(* Mutant: the CPU is not told.                                            *)
Schedule_NoTruncate(q, e, cycles) ==
  LET target == (q.cpu_cycle_counter + cycles) % CounterModulus
      r      == [q EXCEPT !.evq_target_cycle = With(@, e, target)]
  IN IF Sooner(q, target) THEN [r EXCEPT !.evq_next_cycle = target] ELSE r

(* Mutant: the target does not wrap with the counter.                      *)
Schedule_NoWrap(q, e, cycles) ==
  [q EXCEPT !.evq_target_cycle = With(@, e, q.cpu_cycle_counter + cycles)]

Schedule(q, e, cycles) ==
  LET target == (q.cpu_cycle_counter + cycles) % CounterModulus
      until  == Signed(target - q.cpu_cycle_counter)
      r      == [q EXCEPT !.evq_target_cycle = With(@, e, target)]
  IN IF ~Sooner(q, target) THEN r
     ELSE [r EXCEPT !.evq_next_cycle = target,
                    !.downcount = IF 0 < until /\ until < @ THEN until ELSE @]

(* The start of a pass of eventq_dispatch_due.                             *)
Pass(q) == [event |-> 0, pending |-> DOMAIN q.evq_target_cycle, any_fired |-> FALSE,
            soonest |-> NoTarget, best_delta |-> CounterModulus]

(* interconnect_init and cpu_init, then system_init.                       *)
Boot == [cpu_cycle_counter |-> 0, downcount |-> 1, cpu_mem_stall_cycles |-> 0,
         evq_next_cycle |-> 0, evq_target_cycle |-> <<>>]

QueueInit == \E d \in Delays :
  /\ sys = Schedule(Boot, VBLANK, d)
  /\ backlog = With(<<>>, VBLANK, d)
  /\ scan = Running
  /\ faulted = FALSE
-----------------------------------------------------------------------------
(* cpu_step.  An instruction is fetched, has an effect on the queue, and   *)
(* retires: one cycle and the stall cycles owed are charged, and the queue *)
(* is looked at if downcount has run out.                                  *)

Retire(q, l, stall) ==
  LET owed == 1 + q.cpu_mem_stall_cycles + stall
      r    == [Charge(q, owed) EXCEPT !.cpu_mem_stall_cycles = 0]
  IN /\ sys' = r
     /\ backlog' = Aged(l, owed)
     /\ scan' = IF r.downcount <= 0 THEN Pass(r) ELSE Running
     /\ faulted' = FALSE

(* An instruction that leaves the queue alone.                             *)
PlainOp(fetch, stall) ==
  /\ scan = Running
  /\ Retire(Charge(sys, fetch), Aged(backlog, fetch), stall)

(* A store to a device register that schedules an event.                   *)
Store(e, cycles, fetch, stall) ==
  /\ scan = Running
  /\ Retire(Schedule(Charge(sys, fetch), e, cycles),
            With(Aged(backlog, fetch), e, cycles), stall)

(* A store to I_STAT or I_MASK: hw_irq_write forces a dispatch.            *)
IrqStore(fetch, stall) ==
  /\ scan = Running
  /\ Retire([Charge(sys, fetch) EXCEPT !.downcount = 0], Aged(backlog, fetch), stall)

(* A store to CHCR whose transfer runs at once: its cost comes off         *)
(* downcount and never reaches the counter.                                *)
DmaStore(dma, fetch, stall) ==
  /\ scan = Running
  /\ Retire([Charge(sys, fetch) EXCEPT !.downcount = @ - dma], Aged(backlog, fetch), stall)

(* An instruction that raises an exception: cpu_step returns before it     *)
(* charges the stall and before it looks at the queue.  The vector's own   *)
(* first instruction completes.                                            *)
Exception(fetch, stall) ==
  /\ scan = Running
  /\ ~faulted
  /\ faulted' = TRUE
  /\ sys' = [Charge(sys, fetch) EXCEPT !.cpu_mem_stall_cycles = @ + stall]
  /\ backlog' = Aged(backlog, fetch)
  /\ UNCHANGED scan

(* savestate_load: the file holds the queue as it was between two          *)
(* instructions, with every field but the accumulator of stall cycles, and *)
(* the cached next target is derived anew.                                 *)
Soonest(q) ==
  LET later == {e \in DOMAIN q.evq_target_cycle :
                  Signed(q.evq_target_cycle[e] - q.cpu_cycle_counter) > 0}
      first == CHOOSE e \in later : \A f \in later :
                  Signed(q.evq_target_cycle[e] - q.cpu_cycle_counter) <=
                  Signed(q.evq_target_cycle[f] - q.cpu_cycle_counter)
  IN IF later = {} THEN NoTarget ELSE q.evq_target_cycle[first]

(* Mutant: the counter is not in the file.                                 *)
Restore_NoCounter ==
  /\ scan = Running
  /\ sys' = [sys EXCEPT !.cpu_cycle_counter = 0, !.evq_next_cycle = Soonest(sys),
                        !.cpu_mem_stall_cycles = 0]
  /\ UNCHANGED <<scan, faulted, backlog>>

Restore ==
  /\ scan = Running
  /\ sys' = [sys EXCEPT !.evq_next_cycle = Soonest(sys), !.cpu_mem_stall_cycles = 0]
  /\ UNCHANGED <<scan, faulted, backlog>>
-----------------------------------------------------------------------------
(* eventq_dispatch_due, one slot of the scan at a time.                    *)

AtPending == scan.event \in Events /\ scan.event \in scan.pending

(* Mutants of the test for a due event.                                    *)
Due_Late(e)     == Signed(sys.cpu_cycle_counter - sys.evq_target_cycle[e]) > 0
Due_Absolute(e) == sys.cpu_cycle_counter >= sys.evq_target_cycle[e]

Due(e) == Signed(sys.cpu_cycle_counter - sys.evq_target_cycle[e]) >= 0

(* A slot that was not pending when the pass began.                        *)
Skip == /\ scan.event \in Events /\ ~AtPending
        /\ scan' = [scan EXCEPT !.event = @ + 1]
        /\ UNCHANGED <<sys, faulted, backlog>>

(* A pending slot that is not due yet.                                     *)
Wait ==
  /\ AtPending
  /\ ~Due(scan.event)
  /\ LET target == sys.evq_target_cycle[scan.event]
         delta  == Signed(target - sys.cpu_cycle_counter)
         better == delta > 0 /\ delta < scan.best_delta
     IN scan' = [scan EXCEPT !.event = @ + 1,
                             !.best_delta = IF better THEN delta ELSE @,
                             !.soonest    = IF better THEN target ELSE @]
  /\ UNCHANGED <<sys, faulted, backlog>>

(* Mutant: VBlank does not re-arm itself.                                  *)
Reschedules_NoVBlank(e) == {<<>>} \cup ((Events \ {VBLANK}) \X Delays)

(* What a handler schedules, in a sequence of at most one event: the       *)
(* VBlank handler itself, the others anything but VBlank.                  *)
Reschedules(e) ==
  IF e = VBLANK THEN {VBLANK} \X Delays
  ELSE {<<>>} \cup ((Events \ {VBLANK}) \X Delays)

(* A due slot fires.  A DMA handler leaves `stall' cycles owed.            *)
Fire(reschedule, stall) ==
  /\ AtPending
  /\ Due(scan.event)
  /\ stall > 0 => scan.event \in DmaEvents
  /\ LET q == [sys EXCEPT !.evq_target_cycle = Without(@, scan.event),
                          !.cpu_mem_stall_cycles = @ + stall]
         l == Without(backlog, scan.event)
     IN IF reschedule = <<>> THEN sys' = q /\ backlog' = l
        ELSE /\ sys' = Schedule(q, reschedule[1], reschedule[2])
             /\ backlog' = With(l, reschedule[1], reschedule[2])
  /\ scan' = [scan EXCEPT !.event = @ + 1, !.any_fired = TRUE]
  /\ UNCHANGED faulted

(* The end of a pass.  After one in which nothing fired the CPU goes on,   *)
(* with downcount set to the distance of the soonest target.               *)
NextPass == /\ scan.event = LastEvent + 1
            /\ scan.any_fired
            /\ scan' = Pass(sys)
            /\ UNCHANGED <<sys, faulted, backlog>>

Return ==
  /\ scan.event = LastEvent + 1
  /\ ~scan.any_fired
  /\ LET ahead == Signed(scan.soonest - sys.cpu_cycle_counter)
     IN sys' = [sys EXCEPT !.evq_next_cycle = scan.soonest,
                           !.downcount = IF scan.soonest # NoTarget /\ ahead > 0
                                         THEN ahead ELSE 1]
  /\ scan' = Running
  /\ UNCHANGED <<faulted, backlog>>

Instruction ==
  \E fetch \in FetchCosts, stall \in MemStalls :
     \/ PlainOp(fetch, stall)
     \/ \E e \in Events \ {VBLANK}, cycles \in Delays : Store(e, cycles, fetch, stall)
     \/ IrqStore(fetch, stall)
     \/ \E dma \in DmaStalls : DmaStore(dma, fetch, stall)
     \/ Exception(fetch, stall)

Fires == \E reschedule \in Reschedules(scan.event), stall \in {0} \cup MemStalls :
            Fire(reschedule, stall)

Dispatch == Skip \/ Wait \/ Fires \/ NextPass \/ Return

QueueNext == Instruction \/ Restore \/ Dispatch

QueueSpec == QueueInit /\ [][QueueNext]_queue_vars

(* The host thread runs the emulation loop: the CPU keeps stepping and a   *)
(* dispatch, once begun, runs to its end.  Loading a state is up to the    *)
(* user.                                                                   *)
QueueFairSpec == QueueSpec /\ WF_queue_vars(Instruction) /\ WF_queue_vars(Dispatch)
-----------------------------------------------------------------------------
(* The wrapped difference between a target and the counter is the exact    *)
(* number of cycles between them, across any number of wraps.              *)
TargetsAreExact ==
  \A e \in Pending : Signed(sys.evq_target_cycle[e] - sys.cpu_cycle_counter) = backlog[e]

(* Whenever the CPU is about to run an instruction, downcount runs out no  *)
(* later than the first pending event is due: no event can be overslept.   *)
(* Every place that schedules, charges cycles or recomputes has to keep it.*)
DowncountInTime == scan = Running => \A e \in Pending : sys.downcount <= backlog[e]

(* When an instruction has retired and its dispatch is over, nothing is    *)
(* left that was due.                                                      *)
NothingDueIsLeft == scan = Running /\ ~faulted => \A e \in Pending : backlog[e] > 0

(* No event fires before its time.                                         *)
NoEventEarly == [][Fires => backlog[scan.event] <= 0]_queue_vars

(* The frame boundary keeps coming: VBlank re-arms itself and its turn in  *)
(* the scan always comes.                                                  *)
VBlankKeepsComing == []<><<Fires /\ scan.event = VBLANK>>_queue_vars

(* The countdown the CPU runs on is never behind the queue, across wraps,  *)
(* dispatches and loaded states.                                           *)
ScheduleIsExact == TargetsAreExact /\ DowncountInTime /\ NothingDueIsLeft
=============================================================================
