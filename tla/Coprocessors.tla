---------------------------- MODULE Coprocessors ----------------------------
(***************************************************************************)
(* The two units that work beside the CPU, the multiplier (HI and LO) and  *)
(* the GTE, and how an instruction that needs a result waits for it        *)
(* (src/cpu/cpu_instructions.c).                                           *)
(*                                                                         *)
(* A unit remembers only the cycle at which it will be done, on the 32-bit *)
(* cycle counter, here modulo M.  `left' is history: the cycles each unit  *)
(* really still needs.                                                     *)
(***************************************************************************)
EXTENDS Integers

CONSTANTS
  M,            \* 2^32
  Units,        \* the multiplier and the GTE
  Interlocked,  \* a unit that makes a new operation wait too: the GTE
  Latencies,    \* MULT_TICKS, DIV_TICKS, what gte_execute_instruction returns
  Costs         \* what an instruction is charged besides its wait

ASSUME CounterRange == M \in Nat \ {0}
ASSUME TwoUnits     == Interlocked \subseteq Units
ASSUME CycleCounts  == /\ Latencies \subseteq 0..(M - 1)
                       /\ Costs \subseteq 1..(M - 1)

VARIABLES
  cpu_cycle_counter,
  completion_tick,   \* muldiv_completion_tick, gte_completion_tick
  left,              \* history: cycles until each unit is done
  wrapped            \* history: units for which the counter, or the tick
                     \* itself, wrapped after their last operation began

vars == <<cpu_cycle_counter, completion_tick, left, wrapped>>

Cycle == 0..(M - 1)

TypeOK == /\ cpu_cycle_counter \in Cycle
          /\ completion_tick \in [Units -> Cycle]
          /\ left \in [Units -> Nat]
          /\ wrapped \in SUBSET Units

(* cpu_init.                                                               *)
Init == /\ cpu_cycle_counter = 0
        /\ completion_tick = [u \in Units |-> 0]
        /\ left = [u \in Units |-> 0]
        /\ wrapped = {}
-----------------------------------------------------------------------------
Remaining(n, elapsed) == IF n > elapsed THEN n - elapsed ELSE 0

(* The wait of MFLO, MFHI, MTLO, MTHI, MFC2, CFC2 and a GTE operation.     *)
Stall(u) == IF cpu_cycle_counter < completion_tick[u]
            THEN completion_tick[u] - cpu_cycle_counter ELSE 0

(* n cycles pass.                                                          *)
Elapse(n) == /\ cpu_cycle_counter' = (cpu_cycle_counter + n) % M
             /\ left' = [u \in Units |-> Remaining(left[u], n)]
             /\ wrapped' = IF cpu_cycle_counter + n >= M THEN Units ELSE wrapped

Plain(cost) == Elapse(cost) /\ UNCHANGED completion_tick

(* An instruction that reads or replaces a unit's result.                  *)
Use(u, cost) == Elapse(Stall(u) + cost) /\ UNCHANGED completion_tick

(* Mutant: the operation begins when its instruction has retired.          *)
Issue_Late(u, n, cost) ==
  LET end == cpu_cycle_counter + cost + n
  IN /\ cpu_cycle_counter' = (cpu_cycle_counter + cost) % M
     /\ completion_tick' = [completion_tick EXCEPT ![u] = end % M]
     /\ left' = [v \in Units |-> Remaining(IF v = u THEN n ELSE left[v], cost)]
     /\ wrapped' = IF cpu_cycle_counter + cost >= M THEN Units
                   ELSE IF end >= M THEN wrapped \cup {u} ELSE wrapped \ {u}

(* Mutant: the tick does not wrap with the counter.                        *)
Issue_NoWrap(u, n, cost) ==
  /\ Elapse(cost)
  /\ completion_tick' = [completion_tick EXCEPT ![u] = cpu_cycle_counter + n]

(* An operation of n cycles begins.  MULT and DIV replace one in flight.   *)
Issue(u, n, cost) ==
  LET begin == cpu_cycle_counter + IF u \in Interlocked THEN Stall(u) ELSE 0
      spent == begin - cpu_cycle_counter
  IN /\ cpu_cycle_counter' = (begin + cost) % M
     /\ completion_tick' = [completion_tick EXCEPT ![u] = (begin + n) % M]
     /\ left' = [v \in Units |-> IF v = u THEN Remaining(n, cost)
                                 ELSE Remaining(left[v], spent + cost)]
     /\ wrapped' = IF begin + cost >= M THEN Units
                   ELSE IF begin + n >= M THEN wrapped \cup {u} ELSE wrapped \ {u}

Next == \E cost \in Costs :
           \/ Plain(cost)
           \/ \E u \in Units : Use(u, cost)
           \/ \E u \in Units, n \in Latencies : Issue(u, n, cost)

Spec == Init /\ [][Next]_vars
-----------------------------------------------------------------------------
(* As long as neither the counter nor the tick has wrapped since the       *)
(* operation began, an instruction that needs the result waits exactly as  *)
(* long as the unit still works, whatever ran in between.                  *)
ExactWithinOneWrap == \A u \in Units \ wrapped : Stall(u) = left[u]

(* "Stall MFLO until the mul/div unit reports its result is ready"         *)
(* (cpu_instructions.c:508): no shorter and no longer.                     *)
StallsUntilReady == \A u \in Units : Stall(u) = left[u]
=============================================================================
