------------------------------- MODULE CpuAlu -------------------------------
(***************************************************************************)
(* The instructions whose result is easy to get wrong at the edges: the    *)
(* divisions and products of HI and LO, the additions that trap, and the   *)
(* loads and stores of a word that is not aligned                          *)
(* (src/cpu/cpu_instructions.c, include/cpu_mem.h).                        *)
(*                                                                         *)
(* Registers are Modulus wide, small enough to try every pair of operands. *)
(* A word that moves unaligned is four bytes, each its own value.          *)
(***************************************************************************)
EXTENDS Integers, Sequences

CONSTANTS
  Modulus,    \* 2^32
  Operations  \* the instructions to try

ASSUME AluWidth == Modulus \in Nat /\ Modulus > 1 /\ Modulus % 2 = 0
ASSUME KnownOperations ==
  Operations \subseteq {"DIV", "DIVU", "MULT", "MULTU", "ADD", "SUB", "SLT", "SLTU"}

VARIABLES
  alu,   \* operands, and what the instruction left: rd, hi, lo, trap
  word   \* an unaligned word on its way: memory, register, what is done

alu_vars == <<alu, word>>

Unsigned == 0..(Modulus - 1)
Bytes    == 0..3
MinInt   == -(Modulus \div 2)
SignedInts == MinInt..(Modulus \div 2 - 1)
(* (int32_t)(x).                                                           *)
AsSigned(x) == IF x >= Modulus \div 2 THEN x - Modulus ELSE x

Operands(a, b) == [rs |-> a, rt |-> b, op |-> "NONE",
                   rd |-> 0, hi |-> 0, lo |-> 0, trap |-> FALSE]

(* Two words of memory, the register's bytes, the address of the lowest    *)
(* byte, whether it is main RAM, and the halves still to store and load.   *)
Blank == [b \in Bytes |-> "blank"]
Placed(at, ram) ==
  [memory |-> [b \in 0..7 |-> <<"memory", b>>], reg |-> [b \in Bytes |-> <<"reg", b>>],
   loaded |-> Blank, at |-> at, ram |-> ram,
   store |-> {"LEFT", "RIGHT"}, load |-> {"LEFT", "RIGHT"}]

AluInit == /\ \E a, b \in Unsigned : alu = Operands(a, b)
           /\ \E at \in Bytes, ram \in BOOLEAN : word = Placed(at, ram)

AluTypeOK == /\ {alu.rs, alu.rt, alu.rd, alu.hi, alu.lo} \subseteq Unsigned
             /\ alu.trap \in BOOLEAN
             /\ alu.op \in Operations \cup {"NONE"}
             /\ DOMAIN word.memory = 0..7 /\ DOMAIN word.loaded = Bytes
             /\ word.store \subseteq {"LEFT", "RIGHT"}
             /\ word.load \subseteq {"LEFT", "RIGHT"}
-----------------------------------------------------------------------------
Magnitude(x) == IF x < 0 THEN -x ELSE x

(* C's division: towards zero, the remainder takes the numerator's sign.   *)
Quotient_Floors(n, d)  == IF d > 0 THEN n \div d ELSE (-n) \div (-d)

Quotient(n, d)  == LET q == Magnitude(n) \div Magnitude(d)
                   IN IF (n < 0) = (d < 0) THEN q ELSE -q

Quotiented(n, d) == [hi |-> (n - d * Quotient(n, d)) % Modulus,
                     lo |-> Quotient(n, d) % Modulus]

(* op_div.                                                                 *)
Div(n, d) ==
  IF d = 0 THEN [hi |-> n % Modulus, lo |-> IF n >= 0 THEN Modulus - 1 ELSE 1]
  ELSE IF n = MinInt /\ d = -1 THEN [hi |-> 0, lo |-> Modulus \div 2]
  ELSE Quotiented(n, d)

(* op_divu.                                                                *)
Divu(n, d) == IF d = 0 THEN [hi |-> n, lo |-> Modulus - 1] ELSE Quotiented(n, d)

(* op_mult, op_multu: the product's upper and lower half.                  *)
Mult_ZeroExtends(a, b) == [hi |-> ((a % Modulus) * (b % Modulus)) \div Modulus,
                           lo |-> (a * b) % Modulus]

Mult(a, b) == [hi |-> ((a * b) % (Modulus * Modulus)) \div Modulus,
               lo |-> (a * b) % Modulus]

(* op_add, op_addi, op_sub: __builtin_add_overflow.                        *)
Checked(r) == IF r \in SignedInts THEN [rd |-> r % Modulus] ELSE [trap |-> TRUE]

(* op_slt, op_slti; op_sltu, op_sltiu.                                     *)
SetIf(less) == [rd |-> IF less THEN 1 ELSE 0]

Outcome(op, a, b) ==
  LET s == AsSigned(a)
      t == AsSigned(b)
  IN CASE op = "DIV"   -> Div(s, t)
       [] op = "DIVU"  -> Divu(a, b)
       [] op = "MULT"  -> Mult(s, t)
       [] op = "MULTU" -> Mult(a, b)
       [] op = "ADD"   -> Checked(s + t)
       [] op = "SUB"   -> Checked(s - t)
       [] op = "SLT"   -> SetIf(s < t)
       [] op = "SLTU"  -> SetIf(a < b)

Compute(op) ==
  /\ alu.op = "NONE"
  /\ LET new == Outcome(op, alu.rs, alu.rt)
     IN alu' = [f \in DOMAIN alu |-> IF f = "op" THEN op
                                     ELSE IF f \in DOMAIN new THEN new[f] ELSE alu[f]]
  /\ UNCHANGED word
-----------------------------------------------------------------------------
(* cpu_swl_merge, cpu_swr_merge: what RAM ends up holding.                 *)
SwlMerge(mem, rt, off) == [b \in Bytes |-> IF b <= off THEN rt[b + 3 - off] ELSE mem[b]]
SwrMerge(mem, rt, off) == [b \in Bytes |-> IF b >= off THEN rt[b - off] ELSE mem[b]]

(* cpu_swl_plan, cpu_swr_plan: the same as naturally aligned stores of one *)
(* byte, two or four, for anything but RAM.                                *)
Piece(off, bytes) == [off |-> off, bytes |-> bytes]

SwlPlan(rt, off) ==
  CASE off = 0 -> {Piece(0, <<rt[3]>>)}
    [] off = 1 -> {Piece(0, <<rt[2], rt[3]>>)}
    [] off = 2 -> {Piece(0, <<rt[1], rt[2]>>), Piece(2, <<rt[3]>>)}
    [] off = 3 -> {Piece(0, <<rt[0], rt[1], rt[2], rt[3]>>)}

(* Mutant: the byte below the halfword is forgotten.                       *)
SwrPlan_OnePiece(rt, off) ==
  CASE off = 0 -> {Piece(0, <<rt[0], rt[1], rt[2], rt[3]>>)}
    [] off = 1 -> {Piece(2, <<rt[1], rt[2]>>)}
    [] off = 2 -> {Piece(2, <<rt[0], rt[1]>>)}
    [] off = 3 -> {Piece(3, <<rt[0]>>)}

SwrPlan(rt, off) ==
  CASE off = 0 -> {Piece(0, <<rt[0], rt[1], rt[2], rt[3]>>)}
    [] off = 1 -> {Piece(1, <<rt[0]>>), Piece(2, <<rt[1], rt[2]>>)}
    [] off = 2 -> {Piece(2, <<rt[0], rt[1]>>)}
    [] off = 3 -> {Piece(3, <<rt[0]>>)}

Aligned(memory, base) == [b \in Bytes |-> memory[base + b]]

Stored(memory, base, merged) ==
  [b \in 0..7 |-> IF b \in base..(base + 3) THEN merged[b - base] ELSE memory[b]]

Planned(mem, plan) ==
  [b \in Bytes |-> LET over == {p \in plan : b \in p.off..(p.off + Len(p.bytes) - 1)}
                   IN IF over = {} THEN mem[b]
                      ELSE LET p == CHOOSE p \in over : TRUE IN p.bytes[b - p.off + 1]]

(* The left half lives at the word's highest byte, the right at its lowest. *)
HalfAddress(half) == IF half = "LEFT" THEN word.at + 3 ELSE word.at

(* cpu_store_partial, for op_swl and op_swr.                               *)
StorePartial(half) ==
  LET base == 4 * (HalfAddress(half) \div 4)
      off  == HalfAddress(half) % 4
      mem  == Aligned(word.memory, base)
      new  == IF word.ram
              THEN IF half = "LEFT" THEN SwlMerge(mem, word.reg, off)
                                    ELSE SwrMerge(mem, word.reg, off)
              ELSE Planned(mem, IF half = "LEFT" THEN SwlPlan(word.reg, off)
                                                 ELSE SwrPlan(word.reg, off))
  IN /\ half \in word.store
     /\ word' = [word EXCEPT !.memory = Stored(@, base, new), !.store = @ \ {half}]
     /\ UNCHANGED alu

(* op_lwl, op_lwr: the merge with what the register holds.                 *)
LwlMerge(rt, mem, off) == [b \in Bytes |-> IF b >= 3 - off THEN mem[b - (3 - off)] ELSE rt[b]]
LwrMerge(rt, mem, off) == [b \in Bytes |-> IF b <= 3 - off THEN mem[b + off] ELSE rt[b]]

LoadPartial(half) ==
  LET base == 4 * (HalfAddress(half) \div 4)
      off  == HalfAddress(half) % 4
      mem  == Aligned(word.memory, base)
  IN /\ word.store = {} /\ half \in word.load
     /\ word' = [word EXCEPT !.load = @ \ {half},
                             !.loaded = IF half = "LEFT" THEN LwlMerge(@, mem, off)
                                                         ELSE LwrMerge(@, mem, off)]
     /\ UNCHANGED alu

(* The next value to try.                                                  *)
Again == /\ alu.op # "NONE" /\ word.load = {}
         /\ alu' = Operands(alu.rs, alu.rt)
         /\ word' = Placed(word.at, word.ram)

AluNext == \/ \E op \in Operations : Compute(op)
           \/ \E half \in {"LEFT", "RIGHT"} : StorePartial(half) \/ LoadPartial(half)
           \/ Again
AluSpec == AluInit /\ [][AluNext]_alu_vars
-----------------------------------------------------------------------------
(* HI and LO hold the numbers the operands say: a quotient and a remainder *)
(* smaller than the divisor that give the numerator back and lean to zero, *)
(* the whole product, signed or not.  Only a sum or difference that does   *)
(* not fit traps, and a trap leaves rd alone.                              *)
ResultsAreExact ==
  LET s == AsSigned(alu.rs)
      t == AsSigned(alu.rt)
      whole == alu.hi * Modulus + alu.lo
      exact == IF alu.op = "ADD" THEN s + t ELSE s - t
  IN /\ alu.op = "DIV" /\ t # 0 /\ ~(s = MinInt /\ t = -1) =>
           LET q == AsSigned(alu.lo)
               r == AsSigned(alu.hi)
           IN /\ s = q * t + r /\ Magnitude(r) < Magnitude(t)
              /\ r # 0 => (r < 0) = (s < 0)
     /\ alu.op = "DIVU" /\ alu.rt # 0 =>
           alu.rs = alu.lo * alu.rt + alu.hi /\ alu.hi < alu.rt
     /\ alu.op = "MULTU" => whole = alu.rs * alu.rt
     /\ alu.op = "MULT" =>
           s * t = IF alu.hi >= Modulus \div 2 THEN whole - Modulus * Modulus ELSE whole
     /\ alu.op \in {"ADD", "SUB"} =>
           IF alu.trap THEN exact \notin SignedInts /\ alu.rd = 0
           ELSE AsSigned(alu.rd) = exact

(* SWL and SWR at the two ends of an unaligned word, in either order, put  *)
(* its four bytes in place and touch no other, in RAM and elsewhere alike; *)
(* LWL and LWR, in either order, bring back what was stored.               *)
WordArrivesWhole ==
  /\ word.store = {} =>
       word.memory = [b \in 0..7 |-> IF b \in word.at..(word.at + 3)
                                     THEN word.reg[b - word.at] ELSE <<"memory", b>>]
  /\ word.load = {} => word.loaded = word.reg

(* HI, LO, sums and unaligned words are what the manual says.              *)
DataIsExact == ResultsAreExact /\ WordArrivesWhole
=============================================================================
