-------------------------------- MODULE ArmAlu --------------------------------
(***************************************************************************)
(* The instructions of armv7/src/arm_isa.cpp that compute on registers:    *)
(* data processing, multiplications and bit fields.  The registers are the *)
(* ones every mode shares, without PC (ArmCore has the writes to PC).      *)
(***************************************************************************)
EXTENDS ArmWord

VARIABLES RB, flags

-----------------------------------------------------------------------------
(* The instructions.                                                       *)

Rn(i) == RB[i.rn]
Shiftop(i) == ShifterOperand(i, RB, flags).val
Carry(i) == ShifterOperand(i, RB, flags).carry

\* write the destination, and the flags if the S bit is set
Set(i, r, f) ==
  /\ RB' = [RB EXCEPT ![i.rd] = r]
  /\ flags' = IF i.s THEN f ELSE flags
Compare(f) == flags' = f /\ UNCHANGED RB
Logic(i, r) == Set(i, r, LogicFlags(flags, r, Carry(i)))
Subtract(i, a, b, nb) == Set(i, (a + nb) % M, SubFlags(a, b, nb))

\* Mutant: the 64-bit sum is written where its low word should be.
ADD_64(i) == LET sum == Rn(i) + Shiftop(i)
             IN Set(i, sum, AddFlags(Rn(i), Shiftop(i), sum))

ADD(i) == LET sum == Rn(i) + Shiftop(i)
          IN Set(i, sum % M, AddFlags(Rn(i), Shiftop(i), sum))
CMN(i) == Compare(AddFlags(Rn(i), Shiftop(i), Rn(i) + Shiftop(i)))

\* Mutant: the carry is lost.
ADC_nocarry(i) == ADD(i)

ADC(i) == LET sum == Rn(i) + Shiftop(i) + Num(flags.C)
          IN Set(i, sum % M, AddFlags(Rn(i), Shiftop(i), sum))

\* minus the subtrahend, and one less when C says borrow
MinusBorrow(b) == IF flags.C THEN Minus(b) ELSE (Minus(b) + M - 1) % M

SUB(i) == Subtract(i, Rn(i), Shiftop(i), Minus(Shiftop(i)))
RSB(i) == Subtract(i, Shiftop(i), Rn(i), Minus(Rn(i)))
SBC(i) == Subtract(i, Rn(i), Shiftop(i), MinusBorrow(Shiftop(i)))
RSC(i) == Subtract(i, Shiftop(i), Rn(i), MinusBorrow(Rn(i)))
CMP(i) == Compare(SubFlags(Rn(i), Shiftop(i), Minus(Shiftop(i))))

AND(i) == Logic(i, FromBits(Bits(Rn(i)) \cap Bits(Shiftop(i))))
BIC(i) == Logic(i, FromBits(Bits(Rn(i)) \ Bits(Shiftop(i))))
ORR(i) == Logic(i, FromBits(Bits(Rn(i)) \cup Bits(Shiftop(i))))
Xor(x, y) == FromBits((Bits(x) \ Bits(y)) \cup (Bits(y) \ Bits(x)))
EOR(i) == Logic(i, Xor(Rn(i), Shiftop(i)))
MOV(i) == Logic(i, Shiftop(i))
MVN(i) == Logic(i, Not(Shiftop(i)))
TST(i) == LET r == FromBits(Bits(Rn(i)) \cap Bits(Shiftop(i)))
          IN Compare(LogicFlags(flags, r, Carry(i)))
TEQ(i) == Compare(LogicFlags(flags, Xor(Rn(i), Shiftop(i)), Carry(i)))

Half == 2^(W \div 2)

MOVT(i) == Set(i, (i.imm * Half + (RB[i.rd] % Half)) % M, flags)

Product(i, r) == Set(i, r, ResultFlags(flags, Sign(r), r = 0))
MUL(i) == Product(i, (RB[i.rm] * RB[i.rs]) % M)
MLA(i) == Product(i, (RB[i.rm] * RB[i.rs] + Rn(i)) % M)
MLS(i) == Set(i, (Rn(i) - RB[i.rm] * RB[i.rs]) % M, flags)

\* SMLAxy and SMULxy: signed halves, the high one if bit x, or y, is set
HalfOf(r, high) == SignExtend(IF high THEN RB[r] \div Half ELSE RB[r], W \div 2)
DSPProduct(i) == HalfOf(i.rm, i.xx) * HalfOf(i.rs, i.yy)
DSMUL(i) == Set(i, DSPProduct(i) % M, flags)
DSMLA(i) == Set(i, (DSPProduct(i) + Rn(i)) % M, flags)

\* the two words of a 64-bit result; nothing happens if the combination of
\* registers is unpredictable
LongResult(i, value, unpredictable) ==
  LET r == value % (M * M)
  IN IF unpredictable THEN UNCHANGED <<RB, flags>>
     ELSE /\ RB' = [[RB EXCEPT ![i.rdhi] = r \div M] EXCEPT ![i.rdlo] = r % M]
          /\ flags' = IF i.s THEN ResultFlags(flags, r >= M * H, r = 0) ELSE flags
Accumulator(i) == RB[i.rdlo] + M * RB[i.rdhi]
SameRegisters(i) == i.rdhi = i.rdlo \/ i.rm \in {i.rdhi, i.rdlo}

UMULL(i) == LongResult(i, RB[i.rm] * RB[i.rs], i.rdhi = i.rdlo)
SMULL(i) == LongResult(i, Signed(RB[i.rm]) * Signed(RB[i.rs]), i.rdhi = i.rdlo)
UMLAL(i) == LongResult(i, RB[i.rm] * RB[i.rs] + Accumulator(i), SameRegisters(i))

\* Mutant: the low word of the accumulator alone is added.
SMLAL_low(i) ==
  LongResult(i, Signed(RB[i.rm]) * Signed(RB[i.rs]) + RB[i.rdlo], SameRegisters(i))

SMLAL(i) ==
  LongResult(i, Signed(RB[i.rm]) * Signed(RB[i.rs]) + Accumulator(i), SameRegisters(i))

\* BFI copies the bits lsb..msb, from the same place of Rn; BFC is Rn = 15
BFI(i) ==
  LET mask == i.lsb..i.msb
      orig == IF i.rn = 15 THEN 0 ELSE RB[i.rn]
  IN Set(i, FromBits((Bits(RB[i.rd]) \ mask) \cup (Bits(orig) \cap mask)), flags)

Field(x, lsb, width) == (x \div 2^lsb) % 2^width
UBFX(i) == Set(i, Field(Rn(i), i.lsb, i.width), flags)
\* the sign is taken from bit msb - 1 of the field, whatever its width
SBFX(i) == Set(i, SignExtend(Field(Rn(i), i.lsb, i.width), i.lsb + i.width - 1), flags)

\* UXTB, UXTH and SXTH rotate Rm by twice the field
Type_PCK1(i) == RotateRight(2 * i.rotate, RB[i.rm])
UXTB(i) == Set(i, Type_PCK1(i) % 2^(W \div 4), flags)
UXTH(i) == Set(i, Type_PCK1(i) % Half, flags)
SXTH(i) == Set(i, SignExtend(Type_PCK1(i), W \div 2), flags)

REV(i) ==
  LET bits == W \div 4
      byte(k) == (RB[i.rm] \div 2^(bits * k)) % 2^bits
  IN Set(i, MapThenSumSet(LAMBDA k : byte(k) * 2^(bits * (3 - k)), 0..3), flags)

CLZ(i) ==
  LET x == RB[i.rm]
  IN Set(i, IF x = 0 THEN W ELSE W - 1 - Max(Bits(x)), flags)

\* the operand of PKH: an arithmetic shift for the TB form
Type_DPI5(i) == IF i.tb THEN ArithmeticShiftRight(i.amount, RB[i.rm])
                        ELSE (RB[i.rm] * 2^i.amount) % M
PKH(i) ==
  LET low == IF i.tb THEN Type_DPI5(i) ELSE Rn(i)
      high == IF i.tb THEN Rn(i) ELSE Type_DPI5(i)
  IN Set(i, (high \div Half) * Half + (low % Half), flags)
===============================================================================
