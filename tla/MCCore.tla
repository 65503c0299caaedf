------------------------------- MODULE MCCore -------------------------------
(***************************************************************************)
(* The CPU, the event queue it counts down to and the timers, for TLC.     *)
(* Each module has its own environment, so one instance checks them side   *)
(* by side: subject is the unit a behaviour is about, and the others rest. *)
(***************************************************************************)
EXTENDS EventQueue, Timers, Coprocessors, CpuPipeline, ICache, CpuAlu

VARIABLE subject

core_vars == <<subject, queue_vars, timer_vars, vars, pipe_vars, icache_vars, alu_vars>>

(* Guests of the timers: free running; one-shot on a target; toggling and  *)
(* repeating; with each of the gates.                                      *)
Mode(se, sm, rt, it, iff, rep, p, d) ==
  [sync_enable |-> se, sync_mode |-> sm, reset_on_target |-> rt, irq_on_target |-> it,
   irq_on_ffff |-> iff, irq_repeat |-> rep, irq_pulse |-> p, derived |-> d]
GuestModes == {Mode(FALSE, 0, TRUE, TRUE, TRUE, TRUE, TRUE, TRUE),
               Mode(FALSE, 0, TRUE, TRUE, FALSE, FALSE, FALSE, TRUE),
               Mode(TRUE, 3, FALSE, FALSE, TRUE, TRUE, TRUE, FALSE),
               Mode(TRUE, 2, TRUE, TRUE, TRUE, TRUE, FALSE, FALSE),
               Mode(TRUE, 1, FALSE, TRUE, TRUE, FALSE, FALSE, TRUE)}

(* Every program of three instructions over an alphabet with loads, merged *)
(* loads, uses of both, a branch, a GTE command and a trap.                *)
Loads(op, d, v) == [op |-> op, d |-> d, v |-> v]
Adds(d, s)      == [op |-> "ADDIU", d |-> d, s |-> s]
Alphabet == {Loads("LW", "a", 5), Loads("LW", "b", 6), Loads("LWL", "a", 2), Loads("LWR", "a", 3),
             Adds("a", "a"), Adds("b", "a"), Adds("a", "b"),
             [op |-> "BEQ", s |-> "a", t |-> "b", off |-> 2], [op |-> "COP2"], [op |-> "TRAP"]}
ThreeInstructions ==
  {p \in [1..3 -> Alphabet] : /\ p[3].op # "BEQ"
                              /\ \A i \in 1..2 : p[i].op = "BEQ" => p[i + 1].op \notin {"BEQ", "TRAP"}}
-----------------------------------------------------------------------------
(* A unit that is not the subject starts in one of its initial states.     *)
Fixed(p, choice) == subject = p \/ choice

CoreInit ==
  /\ subject \in {"events", "timers", "units", "pipeline", "icache", "alu"}
  /\ QueueInit  /\ Fixed("events", backlog[VBLANK] = 7)
  /\ TimersInit /\ Fixed("timers", timer.index = 0 /\ video = 1)
  /\ Init
  /\ PipeInit   /\ Fixed("pipeline", \A i \in 1..3 : prog[i].op = "COP2")
  /\ ICacheInit
  /\ AluInit    /\ Fixed("alu", alu = Operands(0, 0) /\ word = Placed(0, TRUE))

Others(p) ==
  /\ UNCHANGED subject
  /\ IF p = "events"   THEN TRUE ELSE UNCHANGED queue_vars
  /\ IF p = "timers"   THEN TRUE ELSE UNCHANGED timer_vars
  /\ IF p = "units"    THEN TRUE ELSE UNCHANGED vars
  /\ IF p = "pipeline" THEN TRUE ELSE UNCHANGED pipe_vars
  /\ IF p = "icache"   THEN TRUE ELSE UNCHANGED icache_vars
  /\ IF p = "alu"      THEN TRUE ELSE UNCHANGED alu_vars

CoreNext ==
  \/ subject = "events"   /\ QueueNext  /\ Others("events")
  \/ subject = "timers"   /\ TimersNext /\ Others("timers")
  \/ subject = "units"    /\ Next       /\ Others("units")
  \/ subject = "pipeline" /\ PipeNext   /\ Others("pipeline")
  \/ subject = "icache"   /\ ICacheNext /\ Others("icache")
  \/ subject = "alu"      /\ AluNext    /\ Others("alu")

(* EventQueue's fairness, once it is the subject.                          *)
CoreSpec ==
  /\ CoreInit /\ [][CoreNext]_core_vars
  /\ WF_queue_vars(subject = "events" /\ Instruction)
  /\ WF_queue_vars(subject = "events" /\ Dispatch)
-----------------------------------------------------------------------------
(* The state of every unit keeps its type.                                 *)
TypesOK == /\ QueueTypeOK /\ TimersTypeOK /\ TypeOK
           /\ PipeTypeOK /\ ICacheTypeOK /\ AluTypeOK

(* See EventQueue: no event early, and VBlank again and again.             *)
EventsKeepTime == NoEventEarly /\ (subject = "events" => VBlankKeepsComing)
=============================================================================
