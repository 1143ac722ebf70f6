------------------------------ MODULE MCArmProgram ------------------------------
(* Words of 4 bits and the idioms of two instructions, on all values of r0 *)
(* and r1 and some of r2 and r3.                                           *)
EXTENDS ArmProgram

MCContents ==
  {R \in [0..3 -> Word] : <<R[2], R[3]>> \in {<<0, 15>>, <<8, 7>>, <<15, 8>>, <<3, 3>>}}

Op(op, rd, rn, rm) ==
  [op |-> op, cond |-> "AL", s |-> TRUE, rd |-> rd, rn |-> rn,
   type |-> "DPI1", rm |-> rm, shift |-> "LSL", amount |-> 0]
Shift(rd, rm, shift, amount) ==
  [op |-> "MOV", cond |-> "AL", s |-> TRUE, rd |-> rd, rn |-> rd,
   type |-> "DPI1", rm |-> rm, shift |-> shift, amount |-> amount]
ShiftReg(rd, rm, shift, rs) ==
  [op |-> "MOV", cond |-> "AL", s |-> TRUE, rd |-> rd, rn |-> rd,
   type |-> "DPI2", rm |-> rm, shift |-> shift, rs |-> rs]
Imm(op, rd, rn, imm, rotate) ==
  [op |-> op, cond |-> "AL", s |-> TRUE, rd |-> rd, rn |-> rn,
   type |-> "DPI3", imm |-> imm, rotate |-> rotate]
If(cond, i) == [i EXCEPT !.cond = cond]
Mul(op, rd, rn, rm, rs) ==
  [op |-> op, cond |-> "AL", s |-> TRUE, rd |-> rd, rn |-> rn, rm |-> rm, rs |-> rs,
   type |-> "MULT1", xx |-> FALSE, yy |-> TRUE]
Long(op, hi, lo, rm, rs) ==
  [op |-> op, cond |-> "AL", s |-> TRUE, rdhi |-> hi, rdlo |-> lo, rm |-> rm, rs |-> rs,
   type |-> "MULT2"]
Bf(op, rd, rn, lsb, width) ==
  [op |-> op, cond |-> "AL", s |-> FALSE, rd |-> rd, rn |-> rn, rm |-> rn, type |-> "BF",
   lsb |-> lsb, msb |-> lsb + width - 1, width |-> width, rotate |-> 1, tb |-> lsb = 0,
   amount |-> 1]

Shifts == {"LSL", "LSR", "ASR", "ROR"}
Conds == {"EQ", "NE", "CS", "CC", "HI", "LS", "GE", "LT", "GT", "LE"}

Comparing ==
  {<<Op("CMP", 0, 0, rm), If(c, Imm("MOV", 2, 2, 1, 1))>> : c \in Conds, rm \in {1, 2}}
  \* the test of a sum for a carry
  \cup {<<Op("ADD", 2, 0, 1), Op("CMP", 0, 2, 0), If("CC", Imm("MOV", 3, 3, 1, 1))>>}
Carrying ==
  {<<Op("ADD", 0, 0, 1), Op("ADC", 2, 2, 3)>>, <<Op("ADD", 3, 0, 1), Op("ADC", 2, 1, 2)>>,
   <<Op("SUB", 0, 0, 1), Op("SBC", 2, 2, 3)>>, <<Op("SUB", 3, 0, 1), Op("SBC", 2, 1, 2)>>,
   <<Op("RSB", 0, 0, 1), Op("RSC", 2, 2, 3)>>, <<Imm("SUB", 0, 0, 2, 1), Imm("SBC", 1, 1, 0, 0)>>}
Shifting ==
  {<<ShiftReg(2, 0, s, 1)>> : s \in Shifts} \cup {<<Shift(2, 0, s, n)>> : s \in Shifts, n \in {0, 3}}
Multiplying ==
  {<<Long("UMULL", 3, 2, 0, 1), Long("UMLAL", 3, 2, 0, 0)>>,
   <<Long("SMULL", 3, 2, 0, 1), Long("SMLAL", 3, 2, 1, 1)>>,
   <<Long("UMLAL", 3, 2, 3, 1)>>}
   \cup {<<Mul(op, 2, 1, 0, 1)>> : op \in {"MUL", "MLA", "MLS", "DSMUL", "DSMLA"}}
Fields ==
  {<<Bf("BFI", 0, rn, l[1], l[2]), Bf("UBFX", 2, 0, l[1], l[2])>> :
      rn \in {1, 15}, l \in {<<0, 2>>, <<1, 2>>, <<3, 1>>}}
  \cup {<<Bf("CLZ", 2, 0, 0, 1), ShiftReg(3, 0, "LSL", 2)>>}
  \cup {<<Bf(op, 2, 0, 1, 2)>> : op \in {"SBFX", "UXTB", "UXTH", "SXTH", "REV", "PKH"}}
Logical ==
  {<<Op(op, 2, 0, 1), If(c, Op("MVN", 3, 3, 2))>> :
      op \in {"AND", "BIC", "ORR", "EOR", "TST", "TEQ", "CMN"}, c \in {"MI", "VS", "NV"}}
  \cup {<<Imm("MOVT", 0, 0, 3, 0), If(c, Op("MVN", 3, 3, 2))>> : c \in {"PL", "VC"}}

Bases == {R \in [0..3 -> Word] : R[0] \in {5, 10} /\ R[1] = 12 /\ R[2] = 3}

Ls(op, type, rd, rn, p, u, w, imm) ==
  [op |-> op, cond |-> "AL", type |-> type, rd |-> rd, rn |-> rn, rt |-> 1, rm |-> 2,
   shift |-> "LSL", amount |-> 1, i |-> TRUE, p |-> p, u |-> u, w |-> w, imm |-> imm]
Kind(op) == IF op \in {"LDRH", "LDRSH", "LDRSB", "STRH", "LDRD", "STRD"} THEN "LSE" ELSE "LSI"
\* a store post-indexed up or at an offset, a load that finds the value again
StoreLoad ==
  {<<Ls(st, Kind(st), 0, 3, p, TRUE, FALSE, 3),
     Ls(ld, Kind(ld), 1, 3, TRUE, p, FALSE, 3)>> :
      st \in Stores, ld \in Loads, p \in BOOLEAN}
  \cup {<<[Ls(st, Kind(st), 0, 3, FALSE, TRUE, FALSE, 3) EXCEPT !.i = FALSE],
          Ls(ld, Kind(ld), 1, 3, TRUE, FALSE, FALSE, 3)>> : st \in {"STRH"}, ld \in {"LDRH", "LDRSH"}}
\* the other forms of loads and stores
OtherLoadStore ==
  {<<Ls(op, Kind(op), rd, 3, pw[1], TRUE, pw[2], 4)>> :
      op \in {"LDRT", "LDRBT", "STRT", "STRBT", "LDRD", "STRD", "SWP", "SWPB", "LDREX", "STREX",
             "LDRSB"}, rd \in {0, 1}, pw \in BOOLEAN \X BOOLEAN}
  \cup {<<Ls("LDR", "LSR", 0, 3, pw[1], FALSE, pw[2], 0)>> : pw \in BOOLEAN \X BOOLEAN}

Lsm(op, rlist, p, u, w) ==
  [op |-> op, cond |-> "AL", type |-> "LSM", rn |-> 3, rlist |-> rlist, p |-> p, u |-> u, w |-> w]
Stacking ==
  {<<Lsm("STM", l, pu[1], pu[2], w), Op("MVN", 0, 0, 2), Lsm("LDM", l, ~pu[1], ~pu[2], w)>> :
      l \in {{0}, {0, 2}, {0, 1, 2}, {0, 3}, {}}, pu \in BOOLEAN \X BOOLEAN, w \in BOOLEAN}

Zeros == [b \in 0..(MemSize + 2) |-> 0]
Stripes == [b \in 0..(MemSize + 2) |-> IF b % 3 = 0 THEN 1 ELSE 0]

MCSuites ==
  {[programs |-> Comparing \cup Carrying \cup Shifting \cup Multiplying \cup Fields \cup Logical,
    contents |-> MCContents, memories |-> {Zeros}],
   [programs |-> StoreLoad \cup OtherLoadStore \cup Stacking,
    contents |-> Bases, memories |-> {Zeros, Stripes}]}
=============================================================================
