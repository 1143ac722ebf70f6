------------------------------- MODULE ArmCore -------------------------------
(***************************************************************************)
(* The registers and processor modes of the core and its exceptions        *)
(* (armv7/src/arm_isa.cpp, arm_interrupts.cpp, cp15.cpp).                  *)
(*                                                                         *)
(* A core is a record: RB is the register bank of user and system mode,    *)
(* bank the registers R8_fiq .. R14_und, SPSR the saved status registers,  *)
(* mode, fiq, irq and T the control bits, flags the condition flags in one *)
(* number, VBAR the vector base address of coprocessor 15.  An operator    *)
(* here takes the core to the core after it: an instruction is a           *)
(* composition of them.                                                    *)
(***************************************************************************)
EXTENDS Integers

CONSTANTS GPR,      \* the registers of r0 to r12 that are modelled
          FlagMax   \* 31: N, Z, C, V and Q as one number

ASSUME RegisterAssumption == GPR \subseteq 0..12 /\ FlagMax \in Nat

SP == 13
LR == 14
PC == 15
Registers == GPR \cup {SP, LR, PC}

USER_MODE == 16
FIQ_MODE == 17
IRQ_MODE == 18
SUPERVISOR_MODE == 19
ABORT_MODE == 23
UNDEFINED_MODE == 27
SYSTEM_MODE == 31

\* modes with registers and a saved status register of their own
ExceptionModes == {FIQ_MODE, IRQ_MODE, SUPERVISOR_MODE, ABORT_MODE, UNDEFINED_MODE}
Modes == ExceptionModes \cup {USER_MODE, SYSTEM_MODE}
Banked(mode) == (CASE mode = FIQ_MODE -> 8..14
                   [] mode \in ExceptionModes \ {FIQ_MODE} -> {SP, LR}
                   [] OTHER -> {}) \cap Registers

-----------------------------------------------------------------------------
(* Registers.                                                              *)

bypass_read(c, r) == IF r \in Banked(c.mode) THEN c.bank[c.mode][r] ELSE c.RB[r]

bypass_write(c, r, v) ==
  IF r \in Banked(c.mode) THEN [c EXCEPT !.bank[c.mode][r] = v]
                          ELSE [c EXCEPT !.RB[r] = v]

\* A status word: the mode, then T, F and I, then the flags.
Num(b) == IF b THEN 1 ELSE 0
CPSRBuild(c) ==
  c.mode + 32 * Num(c.T) + 64 * Num(c.fiq) + 128 * Num(c.irq) + 256 * c.flags

writeCPSR(c, v) ==
  [c EXCEPT !.mode = v % 32, !.T = (v \div 32) % 2 = 1, !.fiq = (v \div 64) % 2 = 1,
            !.irq = (v \div 128) % 2 = 1, !.flags = v \div 256]

\* User and system mode have none: a read gives 0, a write nothing.
readSPSR(c) == IF c.mode \in ExceptionModes THEN c.SPSR[c.mode] ELSE 0
writeSPSR(c, v) ==
  IF c.mode \in ExceptionModes THEN [c EXCEPT !.SPSR[c.mode] = v] ELSE c

SPSRtoCPSR(c) ==
  IF c.mode \in ExceptionModes THEN writeCPSR(c, c.SPSR[c.mode]) ELSE c

Privileged(c) == c.mode \in Modes \ {USER_MODE}

-----------------------------------------------------------------------------
(* Exceptions.                                                             *)

Exceptions == {"RESET", "UNDEFINED", "SWI", "PREFETCH_ABORT", "DATA_ABORT", "IRQ", "FIQ"}

\* The vectors.  An FIQ enters at the one of the data abort.
Vector(e) == CASE e = "RESET" -> 0
               [] e = "UNDEFINED" -> 4
               [] e = "SWI" -> 8
               [] e = "PREFETCH_ABORT" -> 12
               [] e \in {"DATA_ABORT", "FIQ"} -> 16
               [] e = "IRQ" -> 24

EntryMode(e) == CASE e \in {"RESET", "SWI"} -> SUPERVISOR_MODE
                  [] e = "UNDEFINED" -> UNDEFINED_MODE
                  [] e \in {"PREFETCH_ABORT", "DATA_ABORT"} -> ABORT_MODE
                  [] e = "IRQ" -> IRQ_MODE
                  [] e = "FIQ" -> FIQ_MODE

\* what the link register and the saved status register of that mode get
Link(c, e) == CASE e = "RESET" -> 0
                [] e \in {"UNDEFINED", "SWI", "PREFETCH_ABORT"} -> c.ac_pc
                [] e \in {"DATA_ABORT", "IRQ", "FIQ"} -> c.ac_pc + 4
SavedStatus(c, e) == IF e = "RESET" THEN 0 ELSE CPSRBuild(c)

Base(c) == (c.VBAR \div 32) * 32
Disabled(c, e) == (e = "FIQ" /\ c.fiq) \/ (e = "IRQ" /\ c.irq)

\* Mutant: interrupts stay enabled in the handler.
service_interrupt_open(c, e) ==
  IF Disabled(c, e) THEN c
  ELSE [c EXCEPT !.bank[EntryMode(e)][LR] = Link(c, e),
                 !.SPSR[EntryMode(e)] = SavedStatus(c, e),
                 !.mode = EntryMode(e),
                 !.fiq = @ \/ e \in {"RESET", "FIQ"},
                 !.T = FALSE,
                 !.ac_pc = Base(c) + Vector(e)]

service_interrupt(c, e) ==
  IF Disabled(c, e) THEN c
  ELSE [c EXCEPT !.bank[EntryMode(e)][LR] = Link(c, e),
                 !.SPSR[EntryMode(e)] = SavedStatus(c, e),
                 !.mode = EntryMode(e),
                 !.fiq = @ \/ e \in {"RESET", "FIQ"},
                 !.T = FALSE, !.irq = TRUE,
                 !.ac_pc = Base(c) + Vector(e)]

-----------------------------------------------------------------------------
(* Instructions.                                                           *)

\* the common beginning of all of them, and the end of most
instruction(c) == [c EXCEPT !.ac_pc = @ + 4, !.RB[PC] = c.ac_pc + 4]
finish(c) == [c EXCEPT !.ac_pc = c.RB[PC]]

MOV(c, rd, v) == finish(bypass_write(c, rd, v))

\* Mutant: the status register is not restored.
MOVS_PC_plain(c, v, f) == finish([c EXCEPT !.flags = f, !.RB[PC] = v])

\* SPSRtoCPSR, and then the flags of the operand all the same.  In user and
\* system mode nothing happens.
MOVS_PC(c, v, f) ==
  IF c.mode \in ExceptionModes
    THEN finish([SPSRtoCPSR(c) EXCEPT !.flags = f, !.RB[PC] = v])
    ELSE c

\* T comes from the number of the register.
BLX2(c, rm) ==
  finish([bypass_write(c, LR, c.RB[PC]) EXCEPT !.T = rm % 2 = 1,
                                               !.RB[PC] = bypass_read(c, rm)])
B(c, to) == finish([c EXCEPT !.RB[PC] = to])

MRS(c, rd, spsr) ==
  IF spsr /\ ~Privileged(c) THEN c
  ELSE finish(bypass_write(c, rd, IF spsr THEN readSPSR(c) ELSE CPSRBuild(c)))

\* Mutant: user mode may write the control bits.
MSR_CPSR_anyone(c, v, control, fl) ==
  writeCPSR(c, (IF control THEN v % 256 ELSE CPSRBuild(c) % 256)
               + 256 * (IF fl THEN v \div 256 ELSE c.flags))

\* the control byte in a privileged mode only, the flags in every mode
MSR_CPSR(c, v, control, fl) ==
  writeCPSR(c, (IF control /\ Privileged(c) THEN v % 256 ELSE CPSRBuild(c) % 256)
               + 256 * (IF fl THEN v \div 256 ELSE c.flags))

MSR_SPSR(c, v, control, fl) ==
  writeSPSR(c, (IF control THEN v % 256 ELSE readSPSR(c) % 256)
               + 256 * (IF fl THEN v \div 256 ELSE readSPSR(c) \div 256))

\* Coprocessor 15 is there, another one is not.
MCR_VBAR(c, rd) == [c EXCEPT !.VBAR = bypass_read(c, rd)]
MCR_absent(c) == service_interrupt(c, "UNDEFINED")

swi(c) == service_interrupt(c, "SWI")

\* A load from an address that no device claims: the bus calls
\* service_interrupt inside the access, then the load goes on, with what
\* the buffer held, in the new mode.
LDR_unmapped(c, rd, v) == MOV(service_interrupt(c, "DATA_ABORT"), rd, v)

-----------------------------------------------------------------------------
\* before the first instruction
Begin == [RB |-> [r \in Registers |-> 0],
          bank |-> [m \in ExceptionModes |-> [r \in Banked(m) |-> 0]],
          SPSR |-> [m \in ExceptionModes |-> 0],
          mode |-> SUPERVISOR_MODE, fiq |-> TRUE, irq |-> TRUE, T |-> FALSE,
          flags |-> 0, ac_pc |-> 0, VBAR |-> 0]
==============================================================================
