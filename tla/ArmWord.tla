-------------------------------- MODULE ArmWord --------------------------------
(***************************************************************************)
(* What the instructions of armv7/src/arm_isa.cpp compute with: words, the *)
(* shifter operand, flags and conditions.                                  *)
(*                                                                         *)
(* A word has W bits, four bytes; H is the weight of its sign bit.         *)
(***************************************************************************)
EXTENDS Integers, FiniteSetsExt

CONSTANTS
  W, H,         \* 32 bits and 2^31
  ByteMod       \* the values of the low byte of Rs: more than W

ASSUME WordAssumption == W \in Nat \ {0} /\ H \in Nat \ {0} /\ H = 2^(W - 1)
ASSUME ByteAssumption == W % 4 = 0 /\ ByteMod \in Nat /\ ByteMod > W

M == 2 * H
Word == 0..(M - 1)

-----------------------------------------------------------------------------
(* Words.                                                                  *)

\* getBit and isBitSet; Sign is bit 31
Bit(x, k) == (x \div 2^k) % 2 = 1
Sign(x) == x >= H
Signed(x) == IF x >= H THEN x - M ELSE x

\* bitwise operators, on the set of the bits that are set
Bits(x) == {k \in 0..(W - 1) : Bit(x, k)}
FromBits(B) == MapThenSumSet(LAMBDA k : 2^k, B)
Not(x) == M - 1 - x

\* 32-bit negation
Minus(x) == IF x = 0 THEN 0 ELSE M - x
\* a carry or a condition as a number
Num(b) == IF b THEN 1 ELSE 0

ArithmeticShiftRight(n, x) == (Signed(x) \div 2^n) % M
RotateRight(n, x) == IF n = 0 THEN x ELSE x \div 2^n + (x % 2^n) * 2^(W - n)
SignExtend(x, len) ==
  LET low == x % 2^len IN IF Bit(low, len - 1) THEN M - 2^len + low ELSE low

-----------------------------------------------------------------------------
(* The shifter operand: a value and a carry.                               *)

Operand(v, c) == [val |-> v, carry |-> c]

\* register shifted by an immediate: amount 0 stands for 32, or for RRX
Type_DPI1(x, shift, n, c) ==
  CASE shift = "LSL" /\ n = 0 -> Operand(x, c)
    [] shift = "LSL" /\ n > 0 -> Operand((x * 2^n) % M, Bit(x, W - n))
    [] shift = "LSR" /\ n = 0 -> Operand(0, Sign(x))
    [] shift = "LSR" /\ n > 0 -> Operand(x \div 2^n, Bit(x, n - 1))
    [] shift = "ASR" /\ n = 0 -> Operand(IF Sign(x) THEN M - 1 ELSE 0, Sign(x))
    [] shift = "ASR" /\ n > 0 -> Operand(ArithmeticShiftRight(n, x), Bit(x, n - 1))
    [] shift = "ROR" /\ n = 0 -> Operand(x \div 2 + Num(c) * H, Bit(x, 0))
    [] shift = "ROR" /\ n > 0 -> Operand(RotateRight(n, x), Bit(x, n - 1))

\* Mutant: an amount of 32 in a register shifts as an immediate 0 does.
Type_DPI2_wide(x, shift, rs, c) ==
  IF rs % ByteMod = 0 THEN Operand(x, c) ELSE Type_DPI1(x, shift, rs % W, c)

\* register shifted by the low byte of a register; a rotation takes the low
\* 4 bits of it only
Type_DPI2(x, shift, rs, c) ==
  LET b == rs % ByteMod
      rs40 == rs % (W \div 2)
  IN CASE b = 0 -> Operand(x, c)
       [] b \in 1..(W - 1) /\ shift # "ROR" -> Type_DPI1(x, shift, b, c)
       [] b = W /\ shift = "LSL" -> Operand(0, Bit(x, 0))
       [] b = W /\ shift = "LSR" -> Operand(0, Sign(x))
       [] b > W /\ shift \in {"LSL", "LSR"} -> Operand(0, FALSE)
       [] b >= W /\ shift = "ASR" -> Operand(IF Sign(x) THEN M - 1 ELSE 0, Sign(x))
       [] b > 0 /\ shift = "ROR" /\ rs40 = 0 -> Operand(x, Sign(x))
       [] b > 0 /\ shift = "ROR" /\ rs40 > 0 -> Operand(RotateRight(rs40, x), Bit(x, rs40 - 1))

\* an immediate rotated by an even amount
Type_DPI3(imm, rotate, c) ==
  LET v == RotateRight(2 * rotate, imm)
  IN Operand(v, IF rotate = 0 THEN c ELSE Sign(v))

\* the operand of instruction i when the registers are R and the flags f
ShifterOperand(i, R, f) ==
  CASE i.type = "DPI1" -> Type_DPI1(R[i.rm], i.shift, i.amount, f.C)
    [] i.type = "DPI2" -> Type_DPI2(R[i.rm], i.shift, R[i.rs], f.C)
    [] i.type = "DPI3" -> Type_DPI3(i.imm, i.rotate, f.C)
    [] OTHER -> Operand(0, FALSE)

-----------------------------------------------------------------------------
(* Flags.                                                                  *)

Overflow(a, b, r) == (Sign(a) /\ Sign(b) /\ ~Sign(r)) \/ (~Sign(a) /\ ~Sign(b) /\ Sign(r))

\* ADD, ADC and CMN: sum is the 64-bit sum of a, b and perhaps the carry
AddFlags(a, b, sum) ==
  [N |-> Sign(sum % M), Z |-> sum % M = 0, C |-> sum \div M # 0,
   V |-> Overflow(a, b, sum % M)]

\* Mutant: the carry of a subtraction is that of the sum with the negation.
SubFlags_sum(a, b, nb) ==
  LET r == (a + nb) % M
  IN [N |-> Sign(r), Z |-> r = 0, C |-> a + nb >= M, V |-> Overflow(a, nb, r)]

\* SUB, SBC, RSB, RSC and CMP: nb is minus the subtrahend b, less the borrow
SubFlags(a, b, nb) ==
  LET r == (a + nb) % M
  IN [N |-> Sign(r), Z |-> r = 0, C |-> ~(b > a), V |-> Overflow(a, nb, r)]

LogicFlags(f, r, c) == [f EXCEPT !.N = Sign(r), !.Z = r = 0, !.C = c]
ResultFlags(f, negative, zero) == [f EXCEPT !.N = negative, !.Z = zero]

\* the condition of an instruction
Passes(cond, f) ==
  CASE cond = "EQ" -> f.Z
    [] cond = "NE" -> ~f.Z
    [] cond = "CS" -> f.C
    [] cond = "CC" -> ~f.C
    [] cond = "MI" -> f.N
    [] cond = "PL" -> ~f.N
    [] cond = "VS" -> f.V
    [] cond = "VC" -> ~f.V
    [] cond = "HI" -> f.C /\ ~f.Z
    [] cond = "LS" -> ~f.C \/ f.Z
    [] cond = "GE" -> f.N = f.V
    [] cond = "LT" -> f.N # f.V
    [] cond = "GT" -> ~f.Z /\ f.N = f.V
    [] cond = "LE" -> f.Z \/ f.N # f.V
    [] cond = "AL" -> TRUE
    [] OTHER -> FALSE
===============================================================================
