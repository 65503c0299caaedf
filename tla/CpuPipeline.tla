---------------------------- MODULE CpuPipeline ----------------------------
(***************************************************************************)
(* One instruction of the CPU at a time, cpu_step(): the branch delay      *)
(* slot, the two slots of the load delay, exceptions and the return from   *)
(* them, and the debugger that stops between instructions                  *)
(* (src/cpu/cpu_execution.c, cpu_exceptions.c, cpu_instructions.c,         *)
(* src/core/debugger.c).                                                   *)
(*                                                                         *)
(* A program is a sequence of instructions that keep what the pipeline can *)
(* tell apart; addresses count words, and a register holds two halves, so  *)
(* that LWL and LWR have something to merge.  `prog' is chosen in Init, so *)
(* a property is checked of every program of the set.                      *)
(***************************************************************************)
EXTENDS Naturals, Sequences

CONSTANTS
  Registers,      \* general registers besides zero and K0
  Programs,       \* what may be in memory
  Breakpoints,    \* word addresses the user has set a breakpoint on
  MaxInterrupts   \* bound: how often a device raises its line

ASSUME WellFormed ==
  \A p \in Programs : \A i \in 1..Len(p) :
     p[i].op = "BEQ" => /\ i < Len(p)
                        /\ p[i + 1].op \notin {"BEQ", "TRAP"}

VARIABLES
  prog,   \* the program in memory, never written
  core,   \* the Cpu
  line,   \* (I_STAT & I_MASK) # 0
  raised, \* history: how often the line has been raised
  dbg     \* the Debugger: paused, step_skip_bp

pipe_vars == <<prog, core, line, raised, dbg>>

Zero   == "zero"
Vector == 100             \* 80000080h: the BIOS's handler
NoLoad == [reg |-> Zero, value |-> 0]
Hi(v)  == v \div 4
Lo(v)  == v % 4
NOP    == [op |-> "NOP"]

(* The handler, as the BIOS and the kernel write it: K0 := EPC, the        *)
(* request acknowledged, one word on for an exception of the program's     *)
(* own, and back, the mode stack popped in the jump's delay slot.          *)
Handler == << [op |-> "MFC0"], [op |-> "ACK"], [op |-> "SKIP"], [op |-> "JR"],
              [op |-> "RFE"] >>

(* A program the reference below can read: K0 is left to the handler, the  *)
(* branches go forward and stay within two words of the end.               *)
UserRegs == Registers \cup {Zero}
Opcodes  == {"ADDIU", "LW", "LWL", "LWR", "BEQ", "COP2", "TRAP", "NOP"}

ForwardProgram(p) ==
  /\ Len(p) \in Nat /\ Len(p) + 3 < Vector
  /\ \A i \in 1..Len(p) :
       /\ p[i].op \in Opcodes
       /\ p[i].op = "ADDIU" => p[i].d \in Registers /\ p[i].s \in UserRegs
       /\ p[i].op \in {"LW", "LWL", "LWR"} => p[i].d \in Registers
       /\ p[i].op = "BEQ" => /\ p[i].s \in UserRegs /\ p[i].t \in UserRegs
                             /\ p[i].off \in Nat \ {0} /\ i + 1 + p[i].off <= Len(p) + 2

ASSUME ForwardPrograms == /\ "k0" \notin UserRegs /\ Zero \notin Registers
                          /\ \A p \in Programs : ForwardProgram(p)

(* What a load brings is a number, and so is the bound.                    *)
ASSUME LoadsAreNumbers ==
  /\ MaxInterrupts \in Nat
  /\ \A p \in Programs : \A i \in 1..Len(p) :
       p[i].op \in {"LW", "LWL", "LWR"} => p[i].v \in Nat

(* cpu_icache_fetch, the cache left out (ICache has it).                   *)
ProgramWord(pc) == IF pc >= Vector THEN Handler[pc - Vector + 1]
                   ELSE IF pc <= Len(prog) THEN prog[pc] ELSE NOP

Halted == core.pc < Vector /\ core.pc > Len(prog) + 2

(* cpu_init.                                                               *)
Power == [regs |-> [r \in Registers \cup {"k0", Zero} |-> 0], gte |-> 0,
          pc |-> 1, next_pc |-> 2, current_pc |-> 1,
          branch_taken |-> FALSE, in_delay_slot |-> FALSE,
          load |-> NoLoad, delay |-> NoLoad, exception_pending |-> FALSE,
          ie |-> <<TRUE, TRUE, TRUE>>,            \* IEc, IEp, IEo
          cause |-> [code |-> "NONE", bd |-> FALSE], epc |-> 1]

PipeInit == /\ prog \in Programs
            /\ core = Power
            /\ line = FALSE
            /\ raised = 0
            /\ dbg = [paused |-> FALSE, step_skip_bp |-> FALSE]

PipeTypeOK ==
  /\ prog \in Programs
  /\ core.regs \in [Registers \cup {"k0", Zero} -> Nat]
  /\ core.regs[Zero] = 0
  /\ {core.pc, core.next_pc, core.current_pc, core.epc} \subseteq 1..(Vector + 6)
  /\ {core.load.reg, core.delay.reg} \subseteq Registers \cup {"k0", Zero}
  /\ core.ie \in [1..3 -> BOOLEAN]
  /\ line \in BOOLEAN /\ raised \in 0..MaxInterrupts
  /\ dbg \in [paused : BOOLEAN, step_skip_bp : BOOLEAN]
-----------------------------------------------------------------------------
(* cpu_set_reg: a write cancels the load still in flight for its register. *)
SetReg_LoadWins(c, r, v) == IF r = Zero THEN c ELSE [c EXCEPT !.regs[r] = v]

SetReg(c, r, v) ==
  IF r = Zero THEN c
  ELSE [c EXCEPT !.regs[r] = v,
                 !.delay = IF c.delay.reg = r THEN NoLoad ELSE c.delay]

Land(regs, slot) == IF slot.reg = Zero THEN regs
                    ELSE [regs EXCEPT ![slot.reg] = slot.value]

(* cpu_retire_load_delay.                                                  *)
RetireLoadDelay(c) == [c EXCEPT !.regs = Land(c.regs, c.delay),
                                !.delay = c.load, !.load = NoLoad]

(* cpu_flush_load_delay: both slots, the older first.                      *)
FlushLoadDelay(c) == [c EXCEPT !.regs = Land(Land(c.regs, c.delay), c.load),
                               !.delay = NoLoad, !.load = NoLoad]

(* update_cause_and_epc.                                                   *)
ReturnAddress_NoSlot(c) == c.current_pc

ReturnAddress(c) == IF c.in_delay_slot THEN c.current_pc - 1 ELSE c.current_pc

(* cpu_exception.  branch_taken is left as it is.                          *)
TakeException(c, code) ==
  [FlushLoadDelay(c) EXCEPT
     !.exception_pending = TRUE,
     !.ie = <<FALSE, @[1], @[2]>>,
     !.cause = [code |-> code, bd |-> c.in_delay_slot],
     !.epc = ReturnAddress(c),
     !.pc = Vector, !.next_pc = Vector + 1]

(* The value LWL and LWR merge into: the one in flight, if it is for the   *)
(* same register.                                                          *)
MergeBase_Register(c, r) == c.regs[r]

MergeBase(c, r) == IF r # Zero /\ c.delay.reg = r THEN c.delay.value ELSE c.regs[r]

Load(c, r, v) == [c EXCEPT !.load = [reg |-> r, value |-> v]]

Jump(c, target) == [c EXCEPT !.next_pc = target, !.branch_taken = TRUE]

Addiu(c, i)         == SetReg(c, i.d, (c.regs[i.s] + 1) % 16)
LoadWord(c, i)      == Load(c, i.d, i.v)
LoadWordLeft(c, i)  == Load(c, i.d, 4 * i.v + Lo(MergeBase(c, i.d)))
LoadWordRight(c, i) == Load(c, i.d, 4 * Hi(MergeBase(c, i.d)) + i.v)
Branch(c, i)        == IF c.regs[i.s] = c.regs[i.t]
                       THEN Jump(c, c.current_pc + 1 + i.off) ELSE c
GteOperation(c)     == [c EXCEPT !.gte = (@ + 1) % 16]
MoveFromEpc(c)      == Load(c, "k0", c.epc)
JumpRegister(c)     == Jump(c, c.regs["k0"])
ReturnFromException(c) == [c EXCEPT !.ie = <<@[2], @[3], @[3]>>]

(* decode_and_execute, by what an instruction does to the pipeline; TRAP   *)
(* is any that raises an exception of its own.  ACK is the handler's store *)
(* to I_STAT: Acknowledges.                                                *)
Execute(c, i) ==
  CASE i.op = "ADDIU" -> Addiu(c, i)
    [] i.op = "LW"    -> LoadWord(c, i)
    [] i.op = "LWL"   -> LoadWordLeft(c, i)
    [] i.op = "LWR"   -> LoadWordRight(c, i)
    [] i.op = "BEQ"   -> Branch(c, i)
    [] i.op = "COP2"  -> GteOperation(c)
    [] i.op = "TRAP"  -> TakeException(c, "TRAP")
    [] i.op = "MFC0"  -> MoveFromEpc(c)
    [] i.op = "SKIP" /\ c.cause.code = "TRAP" -> SetReg(c, "k0", c.regs["k0"] + 1)
    [] i.op = "JR"    -> JumpRegister(c)
    [] i.op = "RFE"   -> ReturnFromException(c)
    [] OTHER          -> c

Acknowledges(i) == i.op = "ACK" /\ core.cause.code = "INT"

(* cpu_step up to the interrupt check.                                     *)
Begun == [core EXCEPT !.exception_pending = FALSE, !.current_pc = core.pc,
                      !.in_delay_slot = core.branch_taken]

(* CheckPendingInterrupt: put off while the next instruction is the GTE's. *)
Interrupted == /\ line /\ core.ie[1]
               /\ ProgramWord(core.pc).op # "COP2"

(* The fetch is done and pc has moved on; the breakpoint is looked at now. *)
Fetched == [Begun EXCEPT !.branch_taken = FALSE, !.pc = core.next_pc,
                         !.next_pc = core.next_pc + 1]

(* debugger_check_breakpoint, for a debugger in the state d.               *)
StopsHere(d) == core.pc \in Breakpoints /\ ~d.step_skip_bp

(* The rest of cpu_step: execute, and retire unless an exception came.     *)
Completed == LET c == Execute(Fetched, ProgramWord(core.pc))
             IN IF c.exception_pending THEN c ELSE RetireLoadDelay(c)

(* cpu_step with the debugger in the state d; `pausing' is whether         *)
(* whoever called it pauses again.                                         *)
CpuStep(d, pausing) ==
  /\ ~Halted
  /\ IF Interrupted
     THEN /\ core' = TakeException(Begun, "INT")
          /\ dbg' = [d EXCEPT !.paused = pausing]
          /\ UNCHANGED line
     ELSE IF StopsHere(d)
     THEN /\ core' = Fetched
          /\ dbg' = [d EXCEPT !.paused = TRUE]
          /\ UNCHANGED line
     ELSE /\ core' = Completed
          /\ dbg' = [paused |-> pausing, step_skip_bp |-> FALSE]
          /\ line' = (line /\ ~Acknowledges(ProgramWord(core.pc)))
  /\ UNCHANGED <<prog, raised>>

(* cpu_run_frame.                                                          *)
Run == ~dbg.paused /\ CpuStep(dbg, FALSE)

(* system_run_frame while paused: one step is asked for.                   *)
SingleStep == dbg.paused /\ CpuStep([paused |-> FALSE, step_skip_bp |-> TRUE], TRUE)

(* The user: Pause and Run, between two frames.                            *)
TogglePause == /\ ~Halted
               /\ dbg' = [dbg EXCEPT !.paused = ~@]
               /\ UNCHANGED <<prog, core, line, raised>>

(* A device: interconnect_set_irq_line.                                    *)
RaiseDeviceLine == /\ ~line /\ raised < MaxInterrupts /\ ~Halted
                   /\ line' = TRUE
                   /\ raised' = raised + 1
                   /\ UNCHANGED <<prog, core, dbg>>

(* The machine is reset.                                                   *)
Reset == /\ Halted
         /\ core' = Power /\ line' = FALSE /\ raised' = 0
         /\ dbg' = [paused |-> FALSE, step_skip_bp |-> FALSE]
         /\ UNCHANGED prog

PipeNext == Run \/ SingleStep \/ TogglePause \/ RaiseDeviceLine \/ Reset
PipeSpec == PipeInit /\ [][PipeNext]_pipe_vars
-----------------------------------------------------------------------------
(* What the program says, read one instruction after another with no       *)
(* interrupt, no debugger and no pipeline but the branch delay slot: a     *)
(* load lands at once.  `hazard': some instruction reads a register in the *)
(* delay slot of its load, and so cannot count on the old or the new value *)
(* (LWL and LWR on the register in flight can).                            *)
Reads(i) == CASE i.op = "ADDIU" -> {i.s}
              [] i.op = "BEQ"   -> {i.s, i.t}
              [] OTHER          -> {}

Unread == [at |-> 1, next |-> 2, regs |-> Power.regs, gte |-> 0,
           loaded |-> Zero, hazard |-> FALSE]

Meaning(m, i) ==
  CASE i.op = "ADDIU" -> [m.regs EXCEPT ![i.d] = (m.regs[i.s] + 1) % 16]
    [] i.op = "LW"    -> [m.regs EXCEPT ![i.d] = i.v]
    [] i.op = "LWL"   -> [m.regs EXCEPT ![i.d] = 4 * i.v + Lo(@)]
    [] i.op = "LWR"   -> [m.regs EXCEPT ![i.d] = 4 * Hi(@) + i.v]
    [] OTHER          -> m.regs

Advanced(m, i) ==
  [at |-> m.next,
   next |-> IF i.op = "BEQ" /\ m.regs[i.s] = m.regs[i.t]
            THEN m.at + 1 + i.off ELSE m.next + 1,
   regs |-> Meaning(m, i),
   gte |-> IF i.op = "COP2" THEN (m.gte + 1) % 16 ELSE m.gte,
   loaded |-> IF i.op \in {"LW", "LWL", "LWR"} THEN i.d ELSE Zero,
   hazard |-> m.hazard \/ m.loaded \in Reads(i) \ {Zero}]

Reference ==
  LET run[k \in 0..Len(prog)] ==
        IF k = 0 THEN Unread
        ELSE IF run[k - 1].at > Len(prog) THEN run[k - 1]
        ELSE Advanced(run[k - 1], prog[run[k - 1].at])
  IN run[Len(prog)]

(* However interrupts, traps, pauses and single steps fall between its     *)
(* instructions, a program that respects the load delay ends with the      *)
(* registers it says: a load is neither lost nor undone by an exception, a *)
(* branch is taken again after an interrupt in its slot, nothing runs      *)
(* twice and nothing is left out.                                          *)
ResultIsTheProgram ==
  Halted /\ ~Reference.hazard =>
     /\ \A r \in Registers : core.regs[r] = Reference.regs[r]
     /\ core.gte = Reference.gte
=============================================================================
