------------------------------- MODULE Timers -------------------------------
(***************************************************************************)
(* A root counter of src/core/timers.c.  The counter is not stepped: its   *)
(* value is derived from the cycles since cycle_start, and the boundaries  *)
(* crossed are caught up with when the guest touches a register, when the  *)
(* gate moves, or when the event armed for the next boundary fires.        *)
(*                                                                         *)
(* Time is relative: since is cpu_cycle_counter - cycle_start and due the  *)
(* cycles left until EVQ_TIMER fires.  since stands still while the timer  *)
(* is paused, because every way out of the pause rebases it.               *)
(***************************************************************************)
EXTENDS Irq, Integers

CONSTANTS
  Wrap,             \* 10000h: the values of the 16-bit counter
  SystemDivider,    \* 8: the divider of Timer 2
  VideoRates,       \* cycles per dot or line in each video mode of the GPU
  TimerModes,       \* what the guest writes to the mode register
  StepCosts,        \* cycles charged by an instruction or a DMA burst
  Late              \* how far past an event the dispatcher can be

ASSUME TimerConstants ==
  /\ {Wrap, SystemDivider} \subseteq Nat \ {0}
  /\ VideoRates \cup StepCosts \subseteq Nat \ {0}
  /\ Late \in Nat
  /\ "TMR0" \in Lines    \* the line of whichever timer it is

Counts  == 0 .. Wrap - 1
Event == [queued : BOOLEAN, left : Int]
Queued(n) == [queued |-> TRUE, left |-> n]
NoEvent   == [queued |-> FALSE, left |-> 0]

VARIABLES irq,      \* the interrupt controller
          timer,    \* struct Timer
          since,    \* cpu_cycle_counter - cycle_start
          due,      \* EVQ_TIMER: queued or not, and the cycles left
          video,    \* cycles per tick of the GPU's current video mode
          retimed,  \* history: the video mode changed since the event was armed
          fires     \* history: boundary interrupts since the mode was written

timer_vars == <<irq, timer, since, due, video, retimed, fires>>

(* The bits of the mode register; toggle is bit 7, derived says whether    *)
(* the source bits select the GPU's clock or the divider.                  *)
ModeBits == [sync_enable : BOOLEAN, sync_mode : 0 .. 3, reset_on_target : BOOLEAN,
             irq_on_target : BOOLEAN, irq_on_ffff : BOOLEAN, irq_repeat : BOOLEAN,
             irq_pulse : BOOLEAN, derived : BOOLEAN]

ASSUME ModesAreBits == TimerModes \subseteq ModeBits

TimerState == [index : 0 .. 2, counter : Counts, target : Counts, mode : ModeBits,
               bit10 : BOOLEAN, gate : BOOLEAN, counting : BOOLEAN,
               reached_target : BOOLEAN, reached_ffff : BOOLEAN]

TimersTypeOK == /\ irq \in IrqRegs
                /\ timer \in TimerState
                /\ since \in Nat
                /\ due \in Event
                /\ video \in VideoRates
                /\ retimed \in BOOLEAN
                /\ fires \in 0 .. 2

(* timer_rate_cycles.                                                      *)
Rate(t) == IF ~t.mode.derived THEN 1
           ELSE IF t.index = 2 THEN SystemDivider ELSE video

(* timer_period_ticks.                                                     *)
PeriodTicks(t) == IF t.mode.reset_on_target /\ t.target # 0 THEN t.target ELSE Wrap

(* timer_update_counting_enabled: Timer 2 has no gate.                     *)
CountingEnabled(t) ==
  IF t.index = 2 THEN ~t.mode.sync_enable \/ t.mode.sync_mode \in {1, 2}
  ELSE \/ ~t.mode.sync_enable
       \/ t.mode.sync_mode = 1
       \/ t.mode.sync_mode = 0 /\ ~t.gate
       \/ t.mode.sync_mode \in {2, 3} /\ t.gate
-----------------------------------------------------------------------------
(* A crossing works on what it changes: the timer, the controller and the  *)
(* number of fires.                                                        *)
Machine == [t |-> timer, q |-> irq, n |-> fires]

(* interconnect_request_irq behind the already_pending guard.              *)
Request(m) == IF "TMR0" \in m.q.status THEN m
              ELSE [m EXCEPT !.q = RaiseLine(@, "TMR0")]

Disarm(m) ==
  IF m.t.mode.irq_repeat THEN m
  ELSE [m EXCEPT !.t.mode.irq_on_target = FALSE, !.t.mode.irq_on_ffff = FALSE]

FireIrq_NeverDisarms(m) ==
  LET high == ~m.t.mode.irq_pulse \/ ~m.t.bit10
      out  == [m EXCEPT !.t.bit10 = high, !.n = IF @ = 2 THEN 2 ELSE @ + 1]
  IN IF high THEN Request(out) ELSE out

(* timer_fire_irq: a level, or a bit that flips and requests when it rises. *)
FireIrq(m) ==
  LET high == ~m.t.mode.irq_pulse \/ ~m.t.bit10
      out  == [m EXCEPT !.t.bit10 = high, !.n = IF @ = 2 THEN 2 ELSE @ + 1]
  IN Disarm(IF high THEN Request(out) ELSE out)

ToTarget(t) == t.mode.reset_on_target /\ t.target # 0
Armed(t) == IF ToTarget(t) THEN t.mode.irq_on_target ELSE t.mode.irq_on_ffff

(* The sticky flag of a boundary.                                          *)
Reach(m) == IF ToTarget(m.t) THEN [m EXCEPT !.t.reached_target = TRUE]
            ELSE [m EXCEPT !.t.reached_ffff = TRUE]

Toggles_ParityOfAll(m, rest) ==
  LET out   == [m EXCEPT !.t.bit10 = IF (rest + 1) % 2 = 1 THEN ~@ ELSE @]
      rises == IF m.t.bit10 THEN rest >= 2 ELSE rest >= 1
  IN IF rises THEN Request(out) ELSE out

(* The remaining flips of a toggling bit at once: its parity, and whether  *)
(* one of them rises.                                                      *)
Toggles(m, rest) ==
  LET out   == [m EXCEPT !.t.bit10 = IF rest % 2 = 1 THEN ~@ ELSE @]
      rises == IF m.t.bit10 THEN rest >= 2 ELSE rest >= 1
  IN IF rises THEN Request(out) ELSE out

(* The crossings of timers_catch_up_one in closed form.                    *)
Cross(m, crossings) ==
  LET first == FireIrq(Reach(m))
      rest  == crossings - 1
  IN IF ~Armed(m.t) THEN Reach(m)
     ELSE IF ~Armed(first.t) \/ rest = 0 THEN first
     ELSE LET all == [first EXCEPT !.n = 2]
          IN IF first.t.mode.irq_pulse THEN Toggles(all, rest)
             ELSE [all EXCEPT !.t.bit10 = TRUE]

(* The same boundary by boundary, which the comment at timers.c:430-441    *)
(* says the closed form collapses.                                         *)
Stepwise(m, crossings) ==
  LET step[k \in 0 .. crossings] ==
        IF k = 0 THEN m
        ELSE LET r == Reach(step[k - 1]) IN IF Armed(r.t) THEN FireIrq(r) ELSE r
  IN step[crossings]

Elapsed   == since \div Rate(timer)
Crossings == Elapsed \div PeriodTicks(timer)

(* timers_catch_up_one, as what it leaves: nothing while paused.           *)
CaughtUp ==
  IF ~timer.counting THEN Machine
  ELSE LET m == IF Crossings = 0 THEN Machine ELSE Cross(Machine, Crossings)
       IN [m EXCEPT !.t.counter = Elapsed % PeriodTicks(timer)]

SinceCaughtUp ==
  IF timer.counting THEN since - Crossings * PeriodTicks(timer) * Rate(timer) ELSE since

(* timer_rebase, and the event timers_reschedule arms unless paused.       *)
Rebased(t)  == t.counter * Rate(t)
TicksLeft(t) == IF t.counter < PeriodTicks(t) THEN PeriodTicks(t) - t.counter ELSE 1
Rescheduled(t) == IF t.counting THEN Queued(TicksLeft(t) * Rate(t)) ELSE due

Keep(m) == timer' = m.t /\ irq' = m.q /\ fires' = m.n
Rearm(t) == due' = Rescheduled(t) /\ retimed' = (retimed /\ ~t.counting)
-----------------------------------------------------------------------------
InitialMode == [sync_enable |-> FALSE, sync_mode |-> 0, reset_on_target |-> FALSE,
                irq_on_target |-> FALSE, irq_on_ffff |-> FALSE, irq_repeat |-> FALSE,
                irq_pulse |-> FALSE, derived |-> FALSE]

(* timers_init and timers_start.                                           *)
TimersInit ==
  /\ irq = IrqReset
  /\ \E i \in 0 .. 2 :
       timer = [index |-> i, counter |-> 0, target |-> 0, mode |-> InitialMode,
                bit10 |-> FALSE, gate |-> FALSE, counting |-> TRUE,
                reached_target |-> FALSE, reached_ffff |-> FALSE]
  /\ since = 0 /\ due = Queued(Wrap)
  /\ video \in VideoRates
  /\ retimed = FALSE /\ fires = 0

(* timer_read16 of the counter, and of the mode, which clears the flags.   *)
ReadCounter ==
  /\ Keep(CaughtUp) /\ since' = SinceCaughtUp
  /\ UNCHANGED <<due, video, retimed>>

ReadMode ==
  /\ Keep([CaughtUp EXCEPT !.t.reached_target = FALSE, !.t.reached_ffff = FALSE])
  /\ since' = SinceCaughtUp
  /\ UNCHANGED <<due, video, retimed>>

(* timer_write16: the counter and the target.                              *)
WriteCounter(v) ==
  LET m == [CaughtUp EXCEPT !.t.counter = v] IN
  /\ Keep(m) /\ since' = Rebased(m.t) /\ Rearm(m.t)
  /\ UNCHANGED video

WriteTarget_NoRearm(v) ==
  /\ Keep([CaughtUp EXCEPT !.t.target = v]) /\ since' = SinceCaughtUp
  /\ UNCHANGED <<due, video, retimed>>

WriteTarget(v) ==
  LET m == [CaughtUp EXCEPT !.t.target = v] IN
  /\ Keep(m) /\ since' = SinceCaughtUp /\ Rearm(m.t)
  /\ UNCHANGED video

(* timer_write16 of the mode with timer_update_internal_state: the counter *)
(* restarts, and an interrupt on a target of 0 is asserted at once.        *)
WriteMode(bits) ==
  LET m  == CaughtUp
      t1 == [m.t EXCEPT !.mode = bits, !.counter = 0, !.bit10 = FALSE,
                        !.reached_target = FALSE, !.reached_ffff = FALSE]
      at == bits.irq_on_target /\ t1.target = 0
      t2 == [t1 EXCEPT !.bit10 = at, !.counting = CountingEnabled(t1)]
  IN /\ timer' = t2
     /\ irq' = IF at THEN RaiseLine(m.q, "TMR0") ELSE m.q
     /\ fires' = 0
     /\ since' = Rebased(t2) /\ Rearm(t2)
     /\ UNCHANGED video

(* timers_set_gate, which gpu_crtc_tick calls for Timer 1 at each VBlank.  *)
SetGate(level) ==
  LET m  == CaughtUp
      sm == m.t.mode.sync_mode
      t1 == [m.t EXCEPT !.gate = level,
               !.counter = IF m.t.mode.sync_enable
                              /\ ((sm = 1 /\ ~level) \/ (sm = 2 /\ level)) THEN 0 ELSE @,
               !.mode.sync_enable = @ /\ (sm = 3 => level)]
      t2 == IF m.t.mode.sync_enable
            THEN [t1 EXCEPT !.counting = CountingEnabled(t1)] ELSE t1
  IN /\ timer.index = 1 /\ timer.gate # level
     /\ Keep([m EXCEPT !.t = t2])
     /\ since' = Rebased(t2) /\ Rearm(t2)
     /\ UNCHANGED video

(* timer_event_handler, dispatched once due.                               *)
TimerEvent ==
  /\ due.queued /\ due.left <= 0
  /\ Keep(CaughtUp) /\ since' = SinceCaughtUp
  /\ due' = IF timer.counting THEN Rescheduled(CaughtUp.t) ELSE NoEvent
  /\ retimed' = FALSE
  /\ UNCHANGED video

(* Cycles are charged between two dispatches.                              *)
CyclesPass(c) ==
  /\ due.queued => due.left > 0 /\ c - due.left <= Late
  /\ since' = IF timer.counting THEN since + c ELSE since
  /\ due' = IF due.queued THEN Queued(due.left - c) ELSE due
  /\ UNCHANGED <<irq, timer, video, retimed, fires>>

(* GP1(08h) changes the rate under a running timer.                        *)
SetVideoMode(r) ==
  /\ r # video
  /\ video' = r
  /\ retimed' = (retimed \/ (timer.mode.derived /\ timer.index # 2))
  /\ UNCHANGED <<irq, timer, since, due, fires>>

(* The guest acknowledges I_STAT.                                          *)
AckTimer ==
  /\ irq' = WriteIStat(irq, {})
  /\ UNCHANGED <<timer, since, due, video, retimed, fires>>

TimersNext ==
  \/ ReadCounter
  \/ ReadMode
  \/ \E v \in Counts : WriteCounter(v)
  \/ \E v \in Counts : WriteTarget(v)
  \/ \E bits \in TimerModes : WriteMode(bits)
  \/ \E level \in BOOLEAN : SetGate(level)
  \/ TimerEvent
  \/ \E c \in StepCosts : CyclesPass(c)
  \/ \E r \in VideoRates : SetVideoMode(r)
  \/ AckTimer

TimersSpec == TimersInit /\ [][TimersNext]_timer_vars
-----------------------------------------------------------------------------
(* The catch-up in one division does what stepping would have done, in     *)
(* every state a guest can bring about: flags, toggle parity, the request, *)
(* the one-shot.  Many boundaries are crossed at once after a write of the *)
(* counter or of a smaller target, or a change of the video mode.          *)
ClosedFormIsExact ==
  LET same(m) == [t |-> m.t, q |-> m.q]
  IN timer.counting /\ Crossings > 0 =>
       same(Cross(Machine, Crossings)) = same(Stepwise(Machine, Crossings))

(* A timer that counts has its event queued, at most one tick after the    *)
(* boundary (timers.c:232: "up to one timer tick"): an interrupt is never  *)
(* missed by a wrap or left to the next one.                               *)
TimerEventInTime ==
  timer.counting /\ ~retimed =>
    /\ due.queued
    /\ LET left == PeriodTicks(timer) * Rate(timer) - since
       IN due.left <= 0 \/ due.left < Rate(timer) + (IF left > 0 THEN left ELSE 1)

(* In one-shot mode a boundary interrupts once until the mode is written   *)
(* again, however the counter, target and gate change in between.          *)
OneShotFiresOnce == ~timer.mode.irq_repeat => fires <= 1

(* The timer as a whole: the catch-up is exact, its event comes in time    *)
(* and a one-shot fires once.                                              *)
TimerIsExact == ClosedFormIsExact /\ TimerEventInTime /\ OneShotFiresOnce
=============================================================================
