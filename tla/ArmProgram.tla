------------------------------ MODULE ArmProgram ------------------------------
(***************************************************************************)
(* Straight-line programs of the instructions of ArmAlu and ArmMem.        *)
(*                                                                         *)
(* at is the instruction to execute next; hist holds registers, flags and  *)
(* memory before each one executed, ran whether its condition held.        *)
(***************************************************************************)
EXTENDS ArmMem, Sequences

CONSTANT Suites \* sets of programs, with the registers and the memories
                \* each program starts with

VARIABLES prog, at, hist, ran

progVars == <<RB, flags, mem, prog, at, hist, ran>>

-----------------------------------------------------------------------------
(* A program.                                                              *)

ProgInit ==
  /\ \E s \in Suites : prog \in s.programs /\ RB \in s.contents /\ mem \in s.memories
  /\ flags \in [N : {FALSE}, Z : {FALSE}, C : BOOLEAN, V : {FALSE}]
  /\ at = 1 /\ hist = <<>> /\ ran = <<>>

Instr == prog[at]
fetch(executed) ==
  /\ at <= Len(prog)
  /\ at' = at + 1
  /\ hist' = Append(hist, [RB |-> RB, flags |-> flags, mem |-> mem])
  /\ ran' = Append(ran, executed)
  /\ UNCHANGED prog

\* the condition fails: ac_annul
annul == fetch(FALSE) /\ ~Passes(Instr.cond, flags) /\ UNCHANGED <<RB, flags, mem>>

is(op) == Instr.op = op

data_processing ==
  \/ is("ADD") /\ ADD(Instr)
  \/ is("ADC") /\ ADC(Instr)
  \/ is("SUB") /\ SUB(Instr)
  \/ is("SBC") /\ SBC(Instr)
  \/ is("RSB") /\ RSB(Instr)
  \/ is("RSC") /\ RSC(Instr)
  \/ is("AND") /\ AND(Instr)
  \/ is("BIC") /\ BIC(Instr)
  \/ is("ORR") /\ ORR(Instr)
  \/ is("EOR") /\ EOR(Instr)
  \/ is("MOV") /\ MOV(Instr)
  \/ is("MVN") /\ MVN(Instr)
  \/ is("MOVT") /\ MOVT(Instr)
  \/ is("CMP") /\ CMP(Instr)
  \/ is("CMN") /\ CMN(Instr)
  \/ is("TST") /\ TST(Instr)
  \/ is("TEQ") /\ TEQ(Instr)

multiply ==
  \/ is("MUL") /\ MUL(Instr)
  \/ is("MLA") /\ MLA(Instr)
  \/ is("MLS") /\ MLS(Instr)
  \/ is("UMULL") /\ UMULL(Instr)
  \/ is("UMLAL") /\ UMLAL(Instr)
  \/ is("SMULL") /\ SMULL(Instr)
  \/ is("SMLAL") /\ SMLAL(Instr)
  \/ is("DSMUL") /\ DSMUL(Instr)
  \/ is("DSMLA") /\ DSMLA(Instr)

bit_field ==
  \/ is("BFI") /\ BFI(Instr)
  \/ is("UBFX") /\ UBFX(Instr)
  \/ is("SBFX") /\ SBFX(Instr)
  \/ is("UXTB") /\ UXTB(Instr)
  \/ is("UXTH") /\ UXTH(Instr)
  \/ is("SXTH") /\ SXTH(Instr)
  \/ is("REV") /\ REV(Instr)
  \/ is("CLZ") /\ CLZ(Instr)
  \/ is("PKH") /\ PKH(Instr)

load_store ==
  \/ is("LDR") /\ LDR(Instr)
  \/ is("LDRT") /\ LDRT(Instr)
  \/ is("LDRB") /\ LDRB(Instr)
  \/ is("LDRBT") /\ LDRBT(Instr)
  \/ is("LDRH") /\ LDRH(Instr)
  \/ is("LDRSB") /\ LDRSB(Instr)
  \/ is("LDRSH") /\ LDRSH(Instr)
  \/ is("LDRD") /\ LDRD(Instr)
  \/ is("STR") /\ STR(Instr)
  \/ is("STRT") /\ STRT(Instr)
  \/ is("STRB") /\ STRB(Instr)
  \/ is("STRBT") /\ STRBT(Instr)
  \/ is("STRH") /\ STRH(Instr)
  \/ is("STRD") /\ STRD(Instr)
  \/ is("SWP") /\ SWP(Instr)
  \/ is("SWPB") /\ SWPB(Instr)
  \/ is("LDREX") /\ LDREX(Instr)
  \/ is("STREX") /\ STREX(Instr)
  \/ is("LDM") /\ LDM(Instr)
  \/ is("STM") /\ STM(Instr)

execute ==
  /\ fetch(TRUE) /\ Passes(Instr.cond, flags)
  /\ \/ (data_processing \/ multiply \/ bit_field) /\ UNCHANGED mem
     \/ load_store /\ UNCHANGED flags

ProgNext == annul \/ execute
ProgSpec == ProgInit /\ [][ProgNext]_progVars

-----------------------------------------------------------------------------
(* Properties of pairs of instructions, the idioms of compiled code.       *)

Before(k) == hist[k]
After(k) == IF k + 1 < at THEN hist[k + 1] ELSE [RB |-> RB, flags |-> flags, mem |-> mem]
Ran(k, op) == k < at /\ ran[k] /\ prog[k].op = op
First(k) == Before(k).RB[prog[k].rn]
Second(k) == ShifterOperand(prog[k], Before(k).RB, Before(k).flags).val

Arithmetic == {"CMP", "ADD", "ADC", "SUB", "SBC", "RSB", "RSC"}
\* The type of the registers, uint32_t: what an instruction writes into one,
\* cut to a word (arm_isa.cpp:1236), is what a later comparison, sum or
\* difference reads.
WordOperands ==
  \A k \in DOMAIN ran : (ran[k] /\ prog[k].op \in Arithmetic) =>
    First(k) \in Word /\ Second(k) \in Word /\ prog[k].rd \in DOMAIN hist[k].RB

Relation(cond, a, b) ==
  CASE cond = "EQ" -> a = b
    [] cond = "NE" -> a # b
    [] cond = "CS" -> a >= b
    [] cond = "CC" -> a < b
    [] cond = "HI" -> a > b
    [] cond = "LS" -> a <= b
    [] cond = "GE" -> Signed(a) >= Signed(b)
    [] cond = "LT" -> Signed(a) < Signed(b)
    [] cond = "GT" -> Signed(a) > Signed(b)
    [] cond = "LE" -> Signed(a) <= Signed(b)
Signeds == {"GE", "LT", "GT", "LE"}
Relations == {"EQ", "NE", "CS", "CC", "HI", "LS"} \cup Signeds

\* An instruction after CMP runs exactly when the numbers compared stand in
\* the relation its condition names.  The flag V is computed with the sign of
\* the negated operand, which is wrong for the most negative number: for it
\* the signed relations are not claimed.
ComparisonsDecide ==
  \A k \in DOMAIN ran : (Ran(k, "CMP") /\ k + 1 < at) =>
    LET cond == prog[k + 1].cond
    IN (cond \in Relations /\ (cond \in Signeds => Second(k) # H))
         => ran[k + 1] = Relation(cond, First(k), Second(k))

Wide(low, high) == low + M * high
SignedWide(x) == IF x >= M * H THEN x - M * M ELSE x
WideRange == (-(M * H))..(M * H - 1)
Pair(k, op1, op2) ==
  /\ Ran(k, op1) /\ Ran(k + 1, op2) /\ prog[k].s /\ prog[k + 1].s
  /\ prog[k].rd # prog[k + 1].rd
WideResult(k) == Wide(After(k + 1).RB[prog[k].rd], After(k + 1).RB[prog[k + 1].rd])
WideFlags(k) == After(k + 1).flags

\* ADDS, ADCS add 64-bit numbers, and leave the carry and the signed overflow
\* of the 64-bit sum.
WideSum ==
  \A k \in DOMAIN ran : Pair(k, "ADD", "ADC") =>
    LET A == Wide(First(k), First(k + 1))
        B == Wide(Second(k), Second(k + 1))
    IN /\ WideResult(k) + M * M * Num(WideFlags(k).C) = A + B
       /\ WideFlags(k).V = (SignedWide(A) + SignedWide(B) \notin WideRange)

WideMinus(k, a0, a1, b0, b1) ==
  LET A == Wide(a0, a1)
      B == Wide(b0, b1)
  IN /\ WideResult(k) = (A - B) % (M * M)
     /\ ~(a0 < b0 /\ a1 = b1) => WideFlags(k).C = (A >= B)
     /\ ~(a0 >= b0 /\ b1 = H) => WideFlags(k).V = (SignedWide(A) - SignedWide(B) \notin WideRange)

\* SUBS, SBCS and RSBS, RSCS subtract 64-bit numbers.  The flags are those of
\* the 64-bit difference but in two cases: C ignores the borrow, so that it is
\* wrong when the high words are equal, and V is wrong for a high word that is
\* the most negative.
WideDifference ==
  \A k \in DOMAIN ran :
    /\ Pair(k, "SUB", "SBC") => WideMinus(k, First(k), First(k + 1), Second(k), Second(k + 1))
    /\ Pair(k, "RSB", "RSC") => WideMinus(k, Second(k), Second(k + 1), First(k), First(k + 1))

\* Arithmetic on two words, with the carry between them.
WideArithmetic == WideSum /\ WideDifference

\* n shifts by one place
ShiftOnce(shift, v, c) ==
  CASE shift = "LSL" -> Operand((2 * v) % M, Sign(v))
    [] shift = "LSR" -> Operand(v \div 2, v % 2 = 1)
    [] shift = "ASR" -> Operand(v \div 2 + Num(Sign(v)) * H, v % 2 = 1)
    [] shift = "ROR" -> Operand(v \div 2 + (v % 2) * H, v % 2 = 1)
ShiftTimes(shift, x, c, n) ==
  LET iter[k \in 0..n] == IF k = 0 THEN Operand(x, c)
                          ELSE ShiftOnce(shift, iter[k - 1].val, iter[k - 1].carry)
  IN iter[n]

\* A shift by a register is as many shifts by one place as its low byte says,
\* up to and beyond the width of a word.  A rotation takes 4 bits of the
\* amount where 5 are needed, and is right for half of the amounts.
ShiftStepByStep ==
  \A k \in DOMAIN ran : (Ran(k, "MOV") /\ prog[k].type = "DPI2" /\ prog[k].s) =>
    LET i == prog[k]
        n == Before(k).RB[i.rs] % ByteMod
        o == ShiftTimes(i.shift, Before(k).RB[i.rm], Before(k).flags.C, n)
    IN ~(i.shift = "ROR" /\ n % W >= W \div 2)
         => After(k).RB[i.rd] = o.val /\ After(k).flags.C = o.carry

LongPair(k, op1, op2) ==
  /\ Ran(k, op1) /\ Ran(k + 1, op2)
  /\ prog[k].rdlo = prog[k + 1].rdlo /\ prog[k].rdhi = prog[k + 1].rdhi
  /\ prog[k].rdlo # prog[k].rdhi /\ ~SameRegisters(prog[k + 1])
LongValue(k) == Wide(After(k).RB[prog[k].rdlo], After(k).RB[prog[k].rdhi])
Factor(k, r) == Before(k).RB[prog[k][r]]

\* A long product, accumulated onto another, is the sum of the two.
LongAccumulate ==
  \A k \in DOMAIN ran :
    /\ LongPair(k, "UMULL", "UMLAL") =>
         LongValue(k + 1) = (Factor(k, "rm") * Factor(k, "rs")
                             + Factor(k + 1, "rm") * Factor(k + 1, "rs")) % (M * M)
    /\ LongPair(k, "SMULL", "SMLAL") =>
         LongValue(k + 1) = (Signed(Factor(k, "rm")) * Signed(Factor(k, "rs"))
                             + Signed(Factor(k + 1, "rm")) * Signed(Factor(k + 1, "rs"))) % (M * M)

\* UBFX after BFI finds the field of the source, and the rest is untouched.
FieldInserted ==
  \A k \in DOMAIN ran : (Ran(k, "BFI") /\ Ran(k + 1, "UBFX")) =>
    LET i == prog[k]
        u == prog[k + 1]
        source == IF i.rn = 15 THEN 0 ELSE Before(k).RB[i.rn]
        old == Before(k).RB[i.rd]
        new == After(k).RB[i.rd]
    IN /\ Bits(new) \ (i.lsb..i.msb) = Bits(old) \ (i.lsb..i.msb)
       /\ (u.rn = i.rd /\ u.lsb = i.lsb /\ u.width = i.msb - i.lsb + 1)
            => After(k + 1).RB[u.rd] = Field(source, u.lsb, u.width)

\* CLZ and a shift left by its result normalise a number; 0 is shifted by 32.
Normalises ==
  \A k \in DOMAIN ran : (Ran(k, "CLZ") /\ Ran(k + 1, "MOV") /\ prog[k + 1].type = "DPI2") =>
    LET x == Before(k).RB[prog[k].rm]
        y == After(k + 1).RB[prog[k + 1].rd]
    IN (prog[k + 1].shift = "LSL" /\ prog[k + 1].rs = prog[k].rd /\ prog[k + 1].rm = prog[k].rm
          /\ prog[k].rd # prog[k].rm) =>
         IF x = 0 THEN y = 0
         ELSE Sign(y) /\ y = x * 2^(After(k).RB[prog[k].rd])

\* Long products, bit fields and normalisation compute what they are used for.
IdiomsExact == LongAccumulate /\ FieldInserted /\ Normalises

InverseModes(i, j) == i.u # j.u /\ i.p # j.p
Between(k, l) == {n \in DOMAIN ran : k < n /\ n < l}

\* A list of registers stored with one of the four modes and loaded with the
\* inverse mode comes back, each register in its place, and so does the base,
\* whatever was done to the registers of the list in between.
StackBalanced ==
  \A k, l \in DOMAIN ran :
    LET i == prog[k]
        j == prog[l]
    IN (/\ k < l /\ Ran(k, "STM") /\ Ran(l, "LDM")
        /\ i.rn = j.rn /\ i.rlist = j.rlist /\ i.w /\ j.w /\ InverseModes(i, j)
        /\ ~LSMAnnulled(i)
        /\ \A n \in Between(k, l) : prog[n].op = "MVN" /\ prog[n].rd \in i.rlist)
       => \A r \in i.rlist \cup {i.rn} : After(l).RB[r] = Before(k).RB[r]

Width(op) ==
  CASE op \in {"STR", "LDR", "STREX", "SWP"} -> 4
    [] op \in {"STRH", "LDRH", "LDRSH"} -> 2
    [] OTHER -> 1
Stores == {"STR", "STRH", "STRB"}
Loads == {"LDR", "LDRH", "LDRB", "LDRSH", "LDRSB"}
\* the address of an access with an offset and no writeback, or post-indexed
AccessAddress(k) ==
  LET i == prog[k]
      R == Before(k).RB
  IN IF i.p THEN (IF i.u THEN R[i.rn] + i.imm ELSE R[i.rn] - i.imm) % M ELSE R[i.rn]
Extended(op, v) ==
  LET bits == Width(op) * (W \div 4)
  IN IF op \in {"LDRSH", "LDRSB"} THEN SignExtend(v, bits) ELSE v % 2^bits
Aligned(op, a) == op \in {"STRH", "LDRSH"} => a % 2 = 0

\* A store changes the bytes it addresses and no other, although the port
\* reads and rewrites a whole word around a byte; a load of that width and
\* address then returns the value, extended as the load says, although the
\* store and the load index from different bases.
StoresReadBack ==
  \A k \in DOMAIN ran :
    LET a == AccessAddress(k)
        n == Width(prog[k].op)
    IN (k < at /\ ran[k] /\ prog[k].op \in Stores /\ prog[k].rd # prog[k].rn) =>
         /\ \A b \in DOMAIN mem :
              b \notin a..(a + n - 1) => After(k).mem[b] = Before(k).mem[b]
         /\ (/\ k + 1 < at /\ ran[k + 1] /\ prog[k + 1].op \in Loads
             /\ Width(prog[k + 1].op) = n /\ prog[k + 1].rd # prog[k + 1].rn
             /\ Aligned(prog[k].op, a) /\ Aligned(prog[k + 1].op, a)
             /\ AccessAddress(k + 1) = a)
            => After(k + 1).RB[prog[k + 1].rd]
                 = Extended(prog[k + 1].op, Before(k).RB[prog[k].rd])
===============================================================================
