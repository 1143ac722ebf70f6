-------------------------------- MODULE ArmMem --------------------------------
(***************************************************************************)
(* The loads and stores of armv7/src/arm_isa.cpp, down to the accesses of  *)
(* the TLM port (archc ac_tlm_port.cpp) and a memory (armv7/src/ram.cpp).  *)
(*                                                                         *)
(* Every access moves a word at any byte address.  A store of a byte or a  *)
(* halfword reads the word at its address and writes it back.  mem has     *)
(* three bytes more than the memory: what lies behind its last word.       *)
(***************************************************************************)
EXTENDS ArmAlu, FiniteSets

CONSTANT MemSize      \* bytes

ASSUME MemAssumption == MemSize \in Nat /\ MemSize >= M

VARIABLE mem

Byte == 2^(W \div 4)

-----------------------------------------------------------------------------
(* The port.                                                               *)

MEM_read(m, a) ==
  m[a] + m[a + 1] * Byte + m[a + 2] * Byte^2 + m[a + 3] * Byte^3

MEM_write(m, a, v) ==
  [b \in DOMAIN m |-> IF b \in a..(a + 3) THEN (v \div Byte^(b - a)) % Byte ELSE m[b]]

\* Mutant: the word written back has zeros around the byte.
MEM_write_byte_zero(m, a, v) == MEM_write(m, a, v % Byte)

MEM_write_byte(m, a, v) ==
  MEM_write(m, a, (MEM_read(m, a) \div Byte) * Byte + (v % Byte))
MEM_write_half(m, a, v) ==
  MEM_write(m, a, (MEM_read(m, a) \div Half) * Half + (v % Half))
MEM_read_byte(m, a) == MEM_read(m, a) % Byte

-----------------------------------------------------------------------------
(* Addressing modes: the address, the base register afterwards, and        *)
(* whether the instruction is annulled.  A p of 0 with a w of 1 is the     *)
(* form of LDRT and STRT: LSI and LSR leave the address at 0 for it.       *)

Offset(i) ==
  CASE i.type = "LSI" -> i.imm
    [] i.type = "LSR" -> Type_DPI1(RB[i.rm], i.shift, i.amount, flags.C).val
    [] i.type = "LSE" -> IF i.i THEN i.imm ELSE RB[i.rm]

Indexed(i) == (IF i.u THEN RB[i.rn] + Offset(i) ELSE RB[i.rn] - Offset(i)) % M

\* the register combinations LSI, LSR and LSE refuse with a writeback
Refused(i) ==
  LET offsetReg == i.type = "LSR" \/ (i.type = "LSE" /\ ~i.i)
      post == ~i.p /\ ~i.w
  IN IF i.p /\ ~i.w THEN FALSE
     ELSE IF ~i.p /\ i.w THEN i.type = "LSE"
     ELSE \/ offsetReg /\ i.rn = i.rm
          \/ i.rn = i.rd /\ ~(i.type = "LSE" /\ i.i /\ post)

ls_address(i) == IF i.p THEN Indexed(i) ELSE IF i.w THEN 0 ELSE RB[i.rn]

\* the registers after the addressing mode, before the access
AfterIndexing(i) ==
  [RB EXCEPT ![i.rn] = IF i.p = i.w THEN Indexed(i) ELSE RB[i.rn]]

Load(i, v) ==
  /\ RB' = IF Refused(i) THEN RB ELSE [AfterIndexing(i) EXCEPT ![i.rd] = v]
  /\ UNCHANGED mem
\* an access the instruction rejects after the base was written back
Rejected(i) == /\ RB' = IF Refused(i) THEN RB ELSE AfterIndexing(i)
               /\ UNCHANGED mem
Store(i, m) ==
  /\ RB' = IF Refused(i) THEN RB ELSE AfterIndexing(i)
  /\ mem' = IF Refused(i) THEN mem ELSE m
Stored(i) == AfterIndexing(i)[i.rd]

-----------------------------------------------------------------------------
(* Loads and stores of one register, or two.                               *)

LDR(i) == Load(i, MEM_read(mem, ls_address(i)))
LDRT(i) == Load(i, MEM_read(mem, ls_address(i)))
LDRB(i) == Load(i, MEM_read_byte(mem, ls_address(i)))
LDRBT(i) == Load(i, MEM_read_byte(mem, ls_address(i)))
LDRH(i) == Load(i, MEM_read(mem, ls_address(i)) % Half)
LDRSB(i) == Load(i, SignExtend(MEM_read_byte(mem, ls_address(i)), W \div 4))
LDRSH(i) ==
  IF ls_address(i) % 2 = 1 THEN Rejected(i)
  ELSE Load(i, SignExtend(MEM_read(mem, ls_address(i)) % Half, W \div 2))

STR(i) == Store(i, MEM_write(mem, ls_address(i), Stored(i)))
STRT(i) == Store(i, MEM_write(mem, ls_address(i), Stored(i)))
STRB(i) == Store(i, MEM_write_byte(mem, ls_address(i), Stored(i)))
STRBT(i) == Store(i, MEM_write_byte(mem, ls_address(i), Stored(i)))
STRH(i) ==
  IF ls_address(i) % 2 = 1 THEN Rejected(i)
  ELSE Store(i, MEM_write_half(mem, ls_address(i), Stored(i)))

DoubleRejected(i) == i.rd % 2 = 1 \/ i.rd = 14 \/ ls_address(i) % 8 # 0
\* LDRD reads a byte for each of its registers
LDRD(i) ==
  IF DoubleRejected(i) THEN Rejected(i)
  ELSE /\ RB' = IF Refused(i) THEN RB
                ELSE [AfterIndexing(i) EXCEPT
                        ![i.rd] = MEM_read_byte(mem, ls_address(i)),
                        ![i.rd + 1] = MEM_read_byte(mem, ls_address(i) + 4)]
       /\ UNCHANGED mem
STRD(i) ==
  IF DoubleRejected(i) THEN Rejected(i)
  ELSE Store(i, MEM_write(MEM_write(mem, ls_address(i), Stored(i)),
                          ls_address(i) + 4, AfterIndexing(i)[i.rd + 1]))

\* SWP reads the word at the address and rotates it as an aligned read would
Swap(i, m, v) ==
  IF i.rm = i.rn \/ i.rn = i.rd THEN UNCHANGED <<RB, mem>>
  ELSE mem' = m /\ RB' = [RB EXCEPT ![i.rd] = v]
SWP(i) ==
  LET a == RB[i.rn]
  IN Swap(i, MEM_write(mem, a, RB[i.rm]),
          RotateRight((W \div 4) * (a % 4), MEM_read(mem, a)))
SWPB(i) ==
  LET a == RB[i.rn]
  IN Swap(i, MEM_write_byte(mem, a, RB[i.rm]), MEM_read_byte(mem, a))

\* LDREX is LDR, STREX always succeeds
LDREX(i) == RB' = [RB EXCEPT ![i.rd] = MEM_read(mem, RB[i.rn])] /\ UNCHANGED mem
STREX(i) == /\ mem' = MEM_write(mem, RB[i.rn], RB[i.rt])
            /\ RB' = [RB EXCEPT ![i.rd] = 0]

-----------------------------------------------------------------------------
(* Load and store multiple.                                                *)

LSM_CountSetBits(i) == Cardinality(i.rlist)

\* Mutant: decrement before starts as decrement after does.
lsm_startaddress_db(i) ==
  IF i.u THEN RB[i.rn] + (IF i.p THEN 4 ELSE 0)
         ELSE RB[i.rn] - 4 * LSM_CountSetBits(i) + 4

lsm_startaddress(i) ==
  IF i.u THEN RB[i.rn] + (IF i.p THEN 4 ELSE 0)
         ELSE RB[i.rn] - 4 * LSM_CountSetBits(i) + (IF i.p THEN 0 ELSE 4)
lsm_base(i) ==
  IF ~i.w THEN RB[i.rn]
  ELSE IF i.u THEN (RB[i.rn] + 4 * LSM_CountSetBits(i)) % M
  ELSE (RB[i.rn] - 4 * LSM_CountSetBits(i)) % M

LSMAnnulled(i) == i.rlist = {} \/ (i.w /\ i.rn \in i.rlist)

\* the place of register r in the list
Slot(i, r) == (lsm_startaddress(i) + 4 * Cardinality({q \in i.rlist : q < r})) % M

LDM(i) ==
  /\ RB' = IF LSMAnnulled(i) THEN RB
           ELSE [r \in DOMAIN RB |->
                   IF r \in i.rlist THEN MEM_read(mem, Slot(i, r))
                   ELSE IF r = i.rn THEN lsm_base(i) ELSE RB[r]]
  /\ UNCHANGED mem

STM(i) ==
  /\ mem' = IF LSMAnnulled(i) THEN mem
            ELSE LET Writer(b) == {r \in i.rlist : b \in Slot(i, r)..(Slot(i, r) + 3)}
                     Last(b) == CHOOSE r \in Writer(b) : \A q \in Writer(b) : q <= r
                 IN [b \in DOMAIN mem |->
                       IF Writer(b) = {} THEN mem[b]
                       ELSE (RB[Last(b)] \div Byte^(b - Slot(i, Last(b)))) % Byte]
  /\ RB' = IF LSMAnnulled(i) THEN RB ELSE [RB EXCEPT ![i.rn] = lsm_base(i)]
===============================================================================
