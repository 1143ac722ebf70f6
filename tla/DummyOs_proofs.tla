--------------------------- MODULE DummyOs_proofs ---------------------------
(***************************************************************************)
(* The handlers of dummyos give back what they interrupted, for every set  *)
(* of lines and priorities, every number of interrupts and every depth of  *)
(* nesting that the stacks have room for.                                  *)
(*                                                                         *)
(* interrupted holds the contexts that wait for a handler to return.  Each *)
(* of them, and the one that runs, is at a place of the activation below   *)
(* it: the application, a system call or an interrupt.  What the stacks    *)
(* hold for an activation follows from that place.                         *)
(***************************************************************************)
EXTENDS DummyOs, FiniteSetTheorems, SequenceTheorems, TLAPS

Depth == Len(interrupted)
Svc == {0, 7, LR}
Und == {FLAGS}
\* the word that SPSR holds while a context waits
Word(v) == v.status + 256 * v.flags

\* Below the interrupts there is at most one system call.
Calls(h) == IF Len(h) > 0 /\ h[1].free # {} THEN 1 ELSE 0
Level(h, k) == k - Calls(h)
\* where the words that activation k of irq_handler saves end
FrameTop(h, k) == IRQ_STACK - 20 * (Level(h, k) - 1)

\* the values of PRIOMASK
Masks == {0} \cup {PriorityOf[l] : l \in DOMAIN PriorityOf}

-----------------------------------------------------------------------------
(* Contexts that an interrupt can find.                                    *)

\* system_init and the application
OpenBase(c) ==
  /\ \/ c.status = 16 /\ c.pc \in {At(26), At(27), At(28), At(66), At(67)}
     \/ c.status = 31 /\ c.pc = At(25)
  /\ c.pc = At(27) => c.regs[0] = app
  /\ c.regs[SP] = USR_STACK /\ c.mask = 0

\* the part of svc_handler in system mode, for a call made in context v
OpenSvc(M, v, c) ==
  LET u == v.regs[SP]
      R == c.regs
  IN /\ c.mask = 0
     /\ \/ c.status = 31 /\ c.pc = At(33) /\ R[SP] = u /\ R[6] = v.regs[6]
        \/ /\ c.status = 31 /\ c.pc \in {At(34), At(35)} /\ R[SP] = u - 4 /\ R[6] = v.regs[6]
           /\ c.pc = At(35) => R[7] = sys_entry
        \/ /\ c.status = 31 /\ c.pc = At(36) /\ R[SP] = u /\ R[6] = v.regs[6]
           /\ R[7] = sys_entry
        \/ /\ c.status = 63 /\ c.pc \in {At(37), At(41)} /\ R[SP] = u /\ R[6] = v.regs[6]
           /\ c.pc = At(41) => R[LR] = At(37)
        \/ /\ c.status = 63 /\ c.pc \in {At(42), At(43)} /\ R[SP] = u - 12
           /\ M[u - 12] = v.regs[6] /\ M[u - 4] = At(37)

\* the part of irq_handler in system mode, for an interrupt of context v
OpenIrq(M, v, c) ==
  LET u == v.regs[SP]
      R == c.regs
      saved == M[u - 8] = v.regs[0] /\ M[u - 4] = v.regs[LR]
  IN /\ c.status = 31 /\ c.mask \in Masks
     /\ \/ /\ c.pc \in {At(53), At(57)} /\ R[SP] = u
           /\ R[0] = v.regs[0] /\ R[LR] = v.regs[LR]
        \/ /\ c.pc \in {At(54), At(55), At(56), At(63)} /\ R[SP] = u - 8 /\ saved
           /\ c.pc = At(55) => R[6] = line_handler
           /\ c.pc = At(63) => R[LR] = At(56)
        \/ /\ c.pc \in {At(64), At(65)} /\ R[SP] = u - 12 /\ saved
           /\ M[u - 12] = At(56)

SvcSaved(M, v) == M[SVC_STACK - 4] = v.pc /\ M[SVC_STACK - 8] = Word(v)
\* the words of an activation of irq_handler whose frame begins at s
IrqSaved(M, s, v) ==
  /\ M[s - 4] = v.pc /\ M[s - 8] = Word(v)
  /\ M[s - 12] = v.regs[7] /\ M[s - 16] = v.regs[6]

\* context c runs on activation k
Open(M, h, k, c) ==
  IF k = 0 THEN OpenBase(c)
  ELSE LET e == h[k]
           s == FrameTop(h, k)
       IN IF e.free = {}
            THEN OpenIrq(M, e.view, c) /\ IrqSaved(M, s, e.view) /\ M[s - 20] = e.view.mask
            ELSE OpenSvc(M, e.view, c) /\ SvcSaved(M, e.view)

-----------------------------------------------------------------------------
(* The contexts that wait.                                                 *)

\* the k-th of them
Waits(M, h, k) ==
  LET v == h[k].view
      free == h[k].free
  IN /\ Open(M, h, k - 1, v)
     /\ free \in {{}, Svc, Und}
     /\ free # {} => k = 1 /\ v.status = 16 /\ v.pc = At(67)
     /\ free = Und => Len(h) = 1
     /\ free = {} => k <= MaxDepth
     /\ \E w \in 0..(3 * Level(h, k)) : v.regs[SP] = USR_STACK - 4 * w
     /\ v.mask \in Masks /\ v.flags \in Nat /\ v.status \in {16, 31, 63}
     /\ \A r \in GPR \ {0, 6, 7} : v.regs[r] = 0

Waiting == \A k \in 1..Depth : Waits(mem, interrupted, k)

Descending ==
  \A i, k \in 1..Depth : i < k => interrupted[k].view.regs[SP] <= interrupted[i].view.regs[SP]

-----------------------------------------------------------------------------
(* The context that runs.                                                  *)

pc == core.ac_pc
Status(c) == c.mode + 32 * Num(c.T) + 64 * Num(c.fiq) + 128 * Num(c.irq)
Context(c, mask) ==
  [pc |-> c.ac_pc, status |-> Status(c), flags |-> c.flags, mask |-> mask,
   regs |-> [r \in Registers \ {PC} |-> c.RB[r]]]
svcSP(c) == c.bank[SUPERVISOR_MODE][SP]
svcLR(c) == c.bank[SUPERVISOR_MODE][LR]
irqSP(c) == c.bank[IRQ_MODE][SP]
irqLR(c) == c.bank[IRQ_MODE][LR]

\* in user or system mode, open to interrupts
RunsOpen(c, M, h, mask) ==
  /\ Open(M, h, Len(h), Context(c, mask))
  /\ svcSP(c) = SVC_STACK - 8 * Calls(h) /\ irqSP(c) = IRQ_STACK - 20 * Level(h, Len(h))
  /\ Len(h) > 0 => h[Len(h)].free # Und

\* in the handler of an undefined instruction
RunsUnd(c, h, mask) ==
  LET v == h[1].view
  IN /\ Len(h) = 1 /\ h[1].free = Und
     /\ c.mode = UNDEFINED_MODE /\ c.irq /\ c.ac_pc \in {At(1), At(23)}
     /\ c.bank[UNDEFINED_MODE][LR] = v.pc /\ c.SPSR[UNDEFINED_MODE] = Word(v)
     /\ \A r \in Registers \ {PC} : c.RB[r] = v.regs[r]
     /\ svcSP(c) = SVC_STACK /\ irqSP(c) = IRQ_STACK /\ mask = 0

\* svc_handler before and after its part in system mode: the place, the
\* stack, and where the address and the status to return to are
SvcPlace(c, M, v) ==
  \/ /\ c.ac_pc \in {At(2), At(29)} /\ svcSP(c) = SVC_STACK
     /\ svcLR(c) = v.pc /\ c.SPSR[SUPERVISOR_MODE] = Word(v)
  \/ /\ c.ac_pc \in {At(30), At(31)} /\ svcSP(c) = SVC_STACK - 4 /\ M[SVC_STACK - 4] = v.pc
     /\ c.ac_pc = At(30) => c.SPSR[SUPERVISOR_MODE] = Word(v)
     /\ c.ac_pc = At(31) => svcLR(c) = Word(v)
  \/ c.ac_pc \in {At(32), At(38)} /\ svcSP(c) = SVC_STACK - 8 /\ SvcSaved(M, v)
  \/ /\ c.ac_pc \in {At(39), At(40)} /\ svcSP(c) = SVC_STACK - 4 /\ M[SVC_STACK - 4] = v.pc
     /\ c.ac_pc = At(39) => svcLR(c) = Word(v)
     /\ c.ac_pc = At(40) => c.SPSR[SUPERVISOR_MODE] = Word(v)

RunsSvc(c, M, h, mask) ==
  LET v == h[1].view
  IN /\ Len(h) = 1 /\ h[1].free = Svc
     /\ c.mode = SUPERVISOR_MODE /\ c.irq
     /\ c.RB[SP] = v.regs[SP] /\ c.RB[6] = v.regs[6]
     /\ irqSP(c) = IRQ_STACK /\ mask = 0
     /\ SvcPlace(c, M, v)

\* the same of irq_handler, and where r6, r7 and PRIOMASK are
IrqPlace(c, M, mask, ln, v, s) ==
  LET kept == ln \in DOMAIN PriorityOf /\ mask = v.mask
      loaded == mask \in Masks
      intact == c.RB[6] = v.regs[6] /\ c.RB[7] = v.regs[7]
  IN \/ /\ c.ac_pc \in {At(6), At(44), At(45)} /\ irqSP(c) = s /\ kept /\ intact
        /\ irqLR(c) = IF c.ac_pc = At(45) THEN v.pc ELSE v.pc + 4
        /\ c.SPSR[IRQ_MODE] = Word(v)
     \/ /\ c.ac_pc \in {At(46), At(47)} /\ irqSP(c) = s - 4 /\ kept /\ intact
        /\ M[s - 4] = v.pc
        /\ c.ac_pc = At(46) => c.SPSR[IRQ_MODE] = Word(v)
        /\ c.ac_pc = At(47) => irqLR(c) = Word(v)
     \/ /\ c.ac_pc \in {At(48), At(49), At(50)} /\ irqSP(c) = s - 16 /\ kept
        /\ IrqSaved(M, s, v)
        /\ c.ac_pc # At(48) => c.RB[6] = ln
        /\ c.ac_pc = At(50) => c.RB[7] = v.mask
     \/ /\ c.ac_pc = At(51) /\ irqSP(c) = s - 20 /\ kept
        /\ IrqSaved(M, s, v) /\ M[s - 20] = v.mask
        /\ c.RB[6] = ln
     \/ /\ c.ac_pc \in {At(52), At(58)} /\ irqSP(c) = s - 20 /\ loaded
        /\ IrqSaved(M, s, v) /\ M[s - 20] = v.mask
     \/ c.ac_pc = At(59) /\ irqSP(c) = s - 16 /\ IrqSaved(M, s, v) /\ c.RB[7] = v.mask
     \/ c.ac_pc = At(60) /\ irqSP(c) = s - 16 /\ IrqSaved(M, s, v) /\ mask = v.mask
     \/ /\ c.ac_pc \in {At(61), At(62)} /\ irqSP(c) = s - 4 /\ intact /\ M[s - 4] = v.pc
        /\ mask = v.mask
        /\ c.ac_pc = At(61) => irqLR(c) = Word(v)
        /\ c.ac_pc = At(62) => c.SPSR[IRQ_MODE] = Word(v)

RunsIrq(c, M, h, mask, ln) ==
  LET v == h[Len(h)].view
  IN /\ Len(h) > 0 /\ h[Len(h)].free = {}
     /\ c.mode = IRQ_MODE /\ c.irq
     /\ c.RB[SP] = v.regs[SP] /\ c.RB[LR] = v.regs[LR] /\ c.RB[0] = v.regs[0]
     /\ svcSP(c) = SVC_STACK - 8 * Calls(h)
     /\ IrqPlace(c, M, mask, ln, v, FrameTop(h, Len(h)))

\* reset_handler and the first instruction of system_init
ResetPlace(c) ==
  \/ c.mode = SUPERVISOR_MODE /\ c.ac_pc \in {At(0), At(8)}
  \/ /\ svcSP(c) = SVC_STACK
     /\ \/ c.mode = SUPERVISOR_MODE /\ c.ac_pc = At(9)
        \/ c.mode = SYSTEM_MODE /\ c.ac_pc = At(10)
        \/ /\ c.RB[SP] = USR_STACK
           /\ \/ c.mode = SYSTEM_MODE /\ c.ac_pc = At(11)
              \/ c.mode = FIQ_MODE /\ c.ac_pc \in {At(12), At(13)}
              \/ c.mode = IRQ_MODE /\ c.ac_pc = At(14)
              \/ /\ irqSP(c) = IRQ_STACK
                 /\ \/ c.mode = IRQ_MODE /\ c.ac_pc = At(15)
                    \/ c.mode = ABORT_MODE /\ c.ac_pc \in {At(16), At(17)}
                    \/ c.mode = UNDEFINED_MODE /\ c.ac_pc \in {At(18), At(19)}
                    \/ c.mode = UNDEFINED_MODE /\ c.ac_pc = At(20) /\ c.RB[0] = Image
                    \/ c.mode = UNDEFINED_MODE /\ c.ac_pc = At(21) /\ c.VBAR = Image
                    \/ /\ Status(c) = 31 /\ c.ac_pc \in {At(22), At(24)}
                       /\ c.VBAR = Image

-----------------------------------------------------------------------------
IsCore(c) ==
  /\ c = [RB |-> c.RB, bank |-> c.bank, SPSR |-> c.SPSR, mode |-> c.mode, fiq |-> c.fiq,
          irq |-> c.irq, T |-> c.T, flags |-> c.flags, ac_pc |-> c.ac_pc, VBAR |-> c.VBAR]
  /\ c.RB = [r \in Registers |-> c.RB[r]]
  /\ c.bank = [m \in ExceptionModes |-> c.bank[m]]
  /\ \A m \in ExceptionModes : c.bank[m] = [r \in Banked(m) |-> c.bank[m][r]]
  /\ c.SPSR = [m \in ExceptionModes |-> c.SPSR[m]]
  /\ c.mode \in Modes /\ c.fiq \in BOOLEAN /\ c.irq \in BOOLEAN /\ c.T \in BOOLEAN
  /\ c.flags \in Nat

IsSeq(s) == s \in Seq({s[k] : k \in DOMAIN s})

Types ==
  /\ IsCore(core)
  /\ mem = [a \in Slots |-> mem[a]]
  /\ IsSeq(interrupted)
  /\ \A r \in GPR \ {0, 6, 7} : core.RB[r] = 0

Running ==
  /\ configured \in BOOLEAN
  /\ configured => /\ core.VBAR = Image
                   /\ \/ RunsOpen(core, mem, interrupted, priomask)
                      \/ RunsUnd(core, interrupted, priomask)
                      \/ RunsSvc(core, mem, interrupted, priomask)
                      \/ RunsIrq(core, mem, interrupted, priomask, line)
  /\ ~configured => interrupted = <<>> /\ priomask = 0 /\ ResetPlace(core)

Contexts == Types /\ Waiting /\ Descending

OsInv == Contexts /\ Running
-----------------------------------------------------------------------------
(* Registers and modes.                                                    *)

\* the numbers of the registers
LEMMA RegisterFacts ==
  /\ GPR \subseteq 0..12 /\ {0, 6, 7} \subseteq GPR
  /\ 0 \in Registers /\ 6 \in Registers /\ 7 \in Registers
  /\ SP \in Registers /\ LR \in Registers /\ PC \in Registers
  /\ SP = 13 /\ LR = 14 /\ PC = 15 /\ PC \notin GPR /\ SP \notin GPR /\ LR \notin GPR
BY RegisterAssumption, OsAssumption DEF Registers, SP, LR, PC

\* which registers a mode has for itself
LEMMA BankedFacts ==
  /\ \A m \in ExceptionModes \ {FIQ_MODE} : Banked(m) = {SP, LR}
  /\ Banked(USER_MODE) = {} /\ Banked(SYSTEM_MODE) = {}
  /\ \A m \in Modes : PC \notin Banked(m) /\ 0 \notin Banked(m) /\ 6 \notin Banked(m)
                         /\ 7 \notin Banked(m)
  /\ \A m \in ExceptionModes : SP \in Banked(m) /\ LR \in Banked(m)
  /\ {IRQ_MODE, SUPERVISOR_MODE, UNDEFINED_MODE, ABORT_MODE, FIQ_MODE} = ExceptionModes
<1>1. \A m \in ExceptionModes \ {FIQ_MODE} : Banked(m) = {SP, LR}
  BY RegisterFacts DEF Banked, FIQ_MODE
<1>2. Banked(USER_MODE) = {} /\ Banked(SYSTEM_MODE) = {}
  BY DEF Banked, USER_MODE, SYSTEM_MODE, FIQ_MODE, ExceptionModes, IRQ_MODE, SUPERVISOR_MODE,
         ABORT_MODE, UNDEFINED_MODE
<1>3. Banked(FIQ_MODE) \subseteq 8..14 /\ SP \in Banked(FIQ_MODE) /\ LR \in Banked(FIQ_MODE)
  BY RegisterFacts DEF Banked
<1>4. {IRQ_MODE, SUPERVISOR_MODE, UNDEFINED_MODE, ABORT_MODE, FIQ_MODE} = ExceptionModes
  BY DEF ExceptionModes
<1> QED BY <1>1, <1>2, <1>3, <1>4, RegisterFacts DEF Modes

\* RB_write of the register that the mode has under number r.
LEMMA WriteRegister ==
  ASSUME NEW c, IsCore(c), NEW r \in Registers \ {PC}, NEW v
  PROVE  LET d == bypass_write(c, r, v) IN
         /\ IsCore(d)
         /\ d.mode = c.mode /\ d.fiq = c.fiq /\ d.irq = c.irq /\ d.T = c.T /\ d.flags = c.flags
         /\ d.ac_pc = c.ac_pc /\ d.VBAR = c.VBAR /\ d.SPSR = c.SPSR
         /\ r \notin Banked(c.mode) =>
              /\ d.bank = c.bank
              /\ \A q \in Registers : d.RB[q] = IF q = r THEN v ELSE c.RB[q]
         /\ r \in Banked(c.mode) =>
              /\ d.RB = c.RB
              /\ \A m \in ExceptionModes : \A q \in Banked(m) :
                   d.bank[m][q] = IF m = c.mode /\ q = r THEN v ELSE c.bank[m][q]
<1> DEFINE d == bypass_write(c, r, v)
<1>1. CASE r \notin Banked(c.mode)
  <2>1. d = [c EXCEPT !.RB[r] = v]
    BY <1>1 DEF bypass_write
  <2> QED BY <1>1, <2>1 DEF IsCore
<1>2. CASE r \in Banked(c.mode)
  <2>1. c.mode \in ExceptionModes
    BY <1>2, BankedFacts DEF IsCore, Modes
  <2>2. d = [c EXCEPT !.bank[c.mode][r] = v]
    BY <1>2 DEF bypass_write
  <2>3. /\ d.bank = [c.bank EXCEPT ![c.mode] = [@ EXCEPT ![r] = v]]
        /\ d.RB = c.RB /\ d.mode = c.mode /\ d.fiq = c.fiq /\ d.irq = c.irq /\ d.T = c.T
        /\ d.flags = c.flags /\ d.ac_pc = c.ac_pc /\ d.VBAR = c.VBAR /\ d.SPSR = c.SPSR
        /\ d = [RB |-> d.RB, bank |-> d.bank, SPSR |-> d.SPSR, mode |-> d.mode, fiq |-> d.fiq,
                irq |-> d.irq, T |-> d.T, flags |-> d.flags, ac_pc |-> d.ac_pc, VBAR |-> d.VBAR]
    BY <2>2 DEF IsCore
  <2>4. /\ d.bank = [m \in ExceptionModes |-> d.bank[m]]
        /\ \A m \in ExceptionModes : d.bank[m] = [q \in Banked(m) |-> d.bank[m][q]]
    <3>1. d.bank = [m \in ExceptionModes |-> d.bank[m]]
      BY <2>1, <2>3 DEF IsCore
    <3>2. ASSUME NEW m \in ExceptionModes, m # c.mode
          PROVE  d.bank[m] = [q \in Banked(m) |-> d.bank[m][q]]
      <4>1. d.bank[m] = c.bank[m]
        BY <2>1, <2>3, <3>2 DEF IsCore
      <4> QED BY <4>1 DEF IsCore
    <3>3. d.bank[c.mode] = [q \in Banked(c.mode) |-> d.bank[c.mode][q]]
      <4>1. d.bank[c.mode] = [c.bank[c.mode] EXCEPT ![r] = v]
        BY <2>1, <2>3 DEF IsCore
      <4>2. c.bank[c.mode] = [q \in Banked(c.mode) |-> c.bank[c.mode][q]]
        BY <2>1 DEF IsCore
      <4> QED BY <4>1, <4>2
    <3> QED BY <3>1, <3>2, <3>3
  <2>5. ASSUME NEW m \in ExceptionModes, NEW q \in Banked(m)
        PROVE  d.bank[m][q] = IF m = c.mode /\ q = r THEN v ELSE c.bank[m][q]
    <3>1. CASE m = c.mode
      <4>1. d.bank[m] = [c.bank[m] EXCEPT ![r] = v]
        BY <2>1, <2>3, <3>1 DEF IsCore
      <4>2. c.bank[m] = [x \in Banked(m) |-> c.bank[m][x]]
        BY DEF IsCore
      <4> QED BY <3>1, <4>1, <4>2
    <3>2. CASE m # c.mode
      <4>1. d.bank[m] = c.bank[m]
        BY <2>1, <2>3, <3>2 DEF IsCore
      <4> QED BY <3>2, <4>1
    <3> QED BY <3>1, <3>2
  <2>6. IsCore(d)
    BY <2>3, <2>4 DEF IsCore
  <2> QED BY <1>2, <2>3, <2>5, <2>6
<1> QED BY <1>1, <1>2

-----------------------------------------------------------------------------
(* The status word.                                                        *)

\* The control bits of CPSR tell the modes and masks apart.
LEMMA StatusFacts ==
  ASSUME NEW c, IsCore(c)
  PROVE  /\ Status(c) \in 0..255
         /\ CPSRBuild(c) % 256 = Status(c)
         /\ CPSRBuild(c) = Status(c) + 256 * c.flags
         /\ Status(c) = 16 <=> c.mode = USER_MODE /\ ~c.T /\ ~c.fiq /\ ~c.irq
         /\ Status(c) = 31 <=> c.mode = SYSTEM_MODE /\ ~c.T /\ ~c.fiq /\ ~c.irq
         /\ Status(c) = 63 <=> c.mode = SYSTEM_MODE /\ c.T /\ ~c.fiq /\ ~c.irq
<1>1. c.mode \in {16, 17, 18, 19, 23, 27, 31} /\ c.flags \in Nat
  BY DEF IsCore, Modes, ExceptionModes, USER_MODE, SYSTEM_MODE, FIQ_MODE, IRQ_MODE,
         SUPERVISOR_MODE, ABORT_MODE, UNDEFINED_MODE
<1>2. /\ Num(c.T) \in {0, 1} /\ Num(c.fiq) \in {0, 1} /\ Num(c.irq) \in {0, 1}
      /\ Num(c.T) = 1 <=> c.T
      /\ Num(c.fiq) = 1 <=> c.fiq
      /\ Num(c.irq) = 1 <=> c.irq
  BY DEF Num, IsCore
<1>3. Status(c) \in 0..255
  BY <1>1, <1>2 DEF Status
<1>4. CPSRBuild(c) = Status(c) + 256 * c.flags
  BY <1>1, <1>2 DEF Status, CPSRBuild
<1>5. CPSRBuild(c) % 256 = Status(c)
  BY <1>1, <1>3, <1>4
<1>6. Status(c) = 16 <=> c.mode = USER_MODE /\ ~c.T /\ ~c.fiq /\ ~c.irq
  BY <1>1, <1>2 DEF Status, USER_MODE
<1>7. Status(c) = 31 <=> c.mode = SYSTEM_MODE /\ ~c.T /\ ~c.fiq /\ ~c.irq
  BY <1>1, <1>2 DEF Status, SYSTEM_MODE
<1>8. Status(c) = 63 <=> c.mode = SYSTEM_MODE /\ c.T /\ ~c.fiq /\ ~c.irq
  BY <1>1, <1>2 DEF Status, SYSTEM_MODE
<1> QED BY <1>3, <1>4, <1>5, <1>6, <1>7, <1>8

-----------------------------------------------------------------------------
(* What the operators of ArmCore do to a core.                             *)

\* Everything but the registers stays.
Same(c, d) ==
  /\ IsCore(d) /\ d.mode = c.mode /\ d.fiq = c.fiq /\ d.irq = c.irq /\ d.T = c.T
  /\ d.VBAR = c.VBAR /\ d.SPSR = c.SPSR /\ d.flags = c.flags

\* The common part of an instruction moves the counter alone.
LEMMA NowFacts ==
  ASSUME IsCore(core)
  PROVE  /\ Same(core, now) /\ now.bank = core.bank
         /\ now.ac_pc = pc + 4 /\ now.RB[PC] = pc + 4
         /\ \A r \in Registers \ {PC} : now.RB[r] = core.RB[r] /\ Read(r) = bypass_read(core, r)
<1>0. now = [core EXCEPT !.ac_pc = pc + 4, !.RB[PC] = pc + 4]
  BY DEF now, instruction, pc, IsCore
<1>a. /\ now.mode = core.mode /\ now.fiq = core.fiq /\ now.irq = core.irq /\ now.T = core.T
      /\ now.VBAR = core.VBAR /\ now.SPSR = core.SPSR /\ now.flags = core.flags
      /\ now.bank = core.bank /\ now.ac_pc = pc + 4 /\ now.RB = [core.RB EXCEPT ![PC] = pc + 4]
      /\ now = [RB |-> now.RB, bank |-> now.bank, SPSR |-> now.SPSR, mode |-> now.mode,
                fiq |-> now.fiq, irq |-> now.irq, T |-> now.T, flags |-> now.flags,
                ac_pc |-> now.ac_pc, VBAR |-> now.VBAR]
  BY <1>0 DEF IsCore
<1>b. /\ now.RB = [r \in Registers |-> now.RB[r]] /\ now.RB[PC] = pc + 4
      /\ \A r \in Registers \ {PC} : now.RB[r] = core.RB[r]
  BY <1>a, RegisterFacts DEF IsCore
<1>1. /\ Same(core, now) /\ now.bank = core.bank
      /\ now.ac_pc = pc + 4 /\ now.RB[PC] = pc + 4
      /\ \A r \in Registers \ {PC} : now.RB[r] = core.RB[r]
  BY <1>a, <1>b DEF Same, IsCore
<1> QED BY <1>1 DEF Read, bypass_read, Same

\* The end of an instruction takes the counter from register 15.
LEMMA FinishFacts ==
  ASSUME NEW c, IsCore(c)
  PROVE  LET d == finish(c) IN
         Same(c, d) /\ d.RB = c.RB /\ d.bank = c.bank /\ d.ac_pc = c.RB[PC]
BY DEF finish, IsCore, Same

\* MOV writes the register that the mode has under number r.
LEMMA MovFacts ==
  ASSUME NEW c, IsCore(c), NEW r \in Registers \ {PC}, NEW v
  PROVE  LET d == MOV(c, r, v) IN
         /\ Same(c, d) /\ d.ac_pc = c.RB[PC] /\ d.RB[PC] = c.RB[PC]
         /\ r \notin Banked(c.mode) =>
              /\ d.bank = c.bank
              /\ \A q \in Registers : d.RB[q] = IF q = r THEN v ELSE c.RB[q]
         /\ r \in Banked(c.mode) =>
              /\ d.RB = c.RB
              /\ \A m \in ExceptionModes : \A q \in Banked(m) :
                   d.bank[m][q] = IF m = c.mode /\ q = r THEN v ELSE c.bank[m][q]
<1> DEFINE d == MOV(c, r, v)
           e == bypass_write(c, r, v)
<1>1. /\ IsCore(e)
      /\ e.mode = c.mode /\ e.fiq = c.fiq /\ e.irq = c.irq /\ e.T = c.T /\ e.flags = c.flags
      /\ e.VBAR = c.VBAR /\ e.SPSR = c.SPSR
      /\ r \notin Banked(c.mode) =>
              /\ e.bank = c.bank
              /\ \A q \in Registers : e.RB[q] = IF q = r THEN v ELSE c.RB[q]
      /\ r \in Banked(c.mode) =>
              /\ e.RB = c.RB
              /\ \A m \in ExceptionModes : \A q \in Banked(m) :
                   e.bank[m][q] = IF m = c.mode /\ q = r THEN v ELSE c.bank[m][q]
  BY WriteRegister
<1>2. Same(e, d) /\ d.RB = e.RB /\ d.bank = e.bank /\ d.ac_pc = e.RB[PC]
  BY <1>1, FinishFacts DEF MOV
<1> HIDE DEF e, d
<1>3. Same(c, d)
  BY <1>1, <1>2 DEF Same
<1>4. CASE r \notin Banked(c.mode)
  BY <1>1, <1>2, <1>3, <1>4, RegisterFacts DEF d
<1>5. CASE r \in Banked(c.mode)
  BY <1>1, <1>2, <1>3, <1>5 DEF d
<1> QED BY <1>4, <1>5

Controls == {16, 31, 63, 146, 209, 210, 211, 215, 219, 223}

\* d is c with control byte s and flags f
Sets(c, d, s, f) ==
  /\ IsCore(d) /\ d.RB = c.RB /\ d.bank = c.bank /\ d.SPSR = c.SPSR
  /\ d.ac_pc = c.ac_pc /\ d.VBAR = c.VBAR
  /\ d.mode = s % 32 /\ d.flags = f /\ Status(d) = s
  /\ d.irq <=> s >= 128

\* writeCPSR with control bits that the image uses
LEMMA WriteStatus ==
  ASSUME NEW c, IsCore(c), NEW s \in Controls, NEW f \in Nat, NEW w, w = s + 256 * f
  PROVE  Sets(c, writeCPSR(c, w), s, f)
<1> DEFINE d == writeCPSR(c, w)
<1>0. s \in {16, 31, 63, 146, 209, 210, 211, 215, 219, 223} /\ f \in Nat
  BY DEF Controls
<1>1. /\ w % 32 = s % 32 /\ (w \div 32) % 2 = (s \div 32) % 2
      /\ (w \div 64) % 2 = (s \div 64) % 2 /\ (w \div 128) % 2 = (s \div 128) % 2
      /\ w \div 256 = f
  <2>1. w \div 256 = f
    BY <1>0
  <2>2. w % 32 = s % 32
    BY <1>0
  <2>3. w \div 32 = s \div 32 + 8 * f
    BY <1>0
  <2>4. w \div 64 = s \div 64 + 4 * f
    BY <1>0
  <2>5. w \div 128 = s \div 128 + 2 * f
    BY <1>0
  <2>6. (w \div 32) % 2 = (s \div 32) % 2
    BY <2>3, <1>0
  <2>7. (w \div 64) % 2 = (s \div 64) % 2
    BY <2>4, <1>0
  <2>8. (w \div 128) % 2 = (s \div 128) % 2
    BY <2>5, <1>0
  <2> QED BY <2>1, <2>2, <2>6, <2>7, <2>8
<1> DEFINE t == (w \div 32) % 2 = 1
           n == (w \div 64) % 2 = 1
           i == (w \div 128) % 2 = 1
<1>2. d = [c EXCEPT !.mode = w % 32, !.T = t, !.fiq = n, !.irq = i, !.flags = w \div 256]
  BY DEF writeCPSR
<1>r. c = [RB |-> c.RB, bank |-> c.bank, SPSR |-> c.SPSR, mode |-> c.mode, fiq |-> c.fiq,
           irq |-> c.irq, T |-> c.T, flags |-> c.flags, ac_pc |-> c.ac_pc, VBAR |-> c.VBAR]
  BY DEF IsCore
<1>a. t \in BOOLEAN /\ n \in BOOLEAN /\ i \in BOOLEAN
  OBVIOUS
<1> DEFINE m == w % 32
           x == w \div 256
<1>b. /\ t <=> (s \div 32) % 2 = 1
      /\ n <=> (s \div 64) % 2 = 1
      /\ i <=> (s \div 128) % 2 = 1
  BY <1>1
<1> HIDE DEF d, t, n, i
<1>3. /\ d.RB = c.RB /\ d.bank = c.bank /\ d.SPSR = c.SPSR /\ d.ac_pc = c.ac_pc
      /\ d.VBAR = c.VBAR /\ d.mode = w % 32 /\ d.flags = w \div 256
      /\ d.T = t /\ d.fiq = n /\ d.irq = i
      /\ d = [RB |-> d.RB, bank |-> d.bank, SPSR |-> d.SPSR, mode |-> d.mode, fiq |-> d.fiq,
              irq |-> d.irq, T |-> d.T, flags |-> d.flags, ac_pc |-> d.ac_pc, VBAR |-> d.VBAR]
  <2>1. d = [c EXCEPT !.mode = m, !.T = t, !.fiq = n, !.irq = i, !.flags = x]
    BY <1>2
  <2> HIDE DEF m, x
  <2>2. d = [RB |-> c.RB, bank |-> c.bank, SPSR |-> c.SPSR, mode |-> m, fiq |-> n,
             irq |-> i, T |-> t, flags |-> x, ac_pc |-> c.ac_pc, VBAR |-> c.VBAR]
    BY <1>r, <2>1
  <2>3. /\ d.RB = c.RB /\ d.bank = c.bank /\ d.SPSR = c.SPSR /\ d.ac_pc = c.ac_pc
        /\ d.VBAR = c.VBAR /\ d.mode = m /\ d.flags = x
        /\ d.T = t /\ d.fiq = n /\ d.irq = i
    BY <2>2
  <2> QED BY <2>2, <2>3 DEF m, x
<1>4. d.mode = s % 32 /\ d.flags = f /\ d.mode \in Modes
  <2>1. d.mode = s % 32 /\ d.flags = f
    BY <1>1, <1>3
  <2> QED BY <1>0, <2>1 DEF Modes, ExceptionModes, USER_MODE, SYSTEM_MODE, FIQ_MODE, IRQ_MODE,
                    SUPERVISOR_MODE, ABORT_MODE, UNDEFINED_MODE
<1>6. IsCore(d)
  BY <1>3, <1>4, <1>a DEF IsCore
<1>7. Num(d.T) = (s \div 32) % 2 /\ Num(d.fiq) = (s \div 64) % 2 /\ Num(d.irq) = (s \div 128) % 2
  <2>1. (s \div 32) % 2 \in {0, 1} /\ (s \div 64) % 2 \in {0, 1} /\ (s \div 128) % 2 \in {0, 1}
    BY <1>0
  <2>2. Num(t) = (s \div 32) % 2
    BY <1>b, <2>1 DEF Num
  <2>3. Num(n) = (s \div 64) % 2
    BY <1>b, <2>1 DEF Num
  <2>4. Num(i) = (s \div 128) % 2
    BY <1>b, <2>1 DEF Num
  <2> QED BY <1>3, <2>2, <2>3, <2>4
<1>8. Status(d) = s
  <2>1. (s % 32) + 32 * ((s \div 32) % 2) + 64 * ((s \div 64) % 2) + 128 * ((s \div 128) % 2) = s
    BY <1>0
  <2> QED BY <2>1, <1>4, <1>7 DEF Status
<1>9. d.irq <=> s >= 128
  <2>1. (s \div 128) % 2 = 1 <=> s >= 128
    BY <1>0
  <2> QED BY <2>1, <1>3, <1>b
<1> QED BY <1>3, <1>4, <1>6, <1>8, <1>9 DEF d, Sets

\* A word that SPSR takes is the one that MSR writes.
LEMMA WordFacts ==
  ASSUME NEW v, v.status \in {16, 31, 63}, v.flags \in Nat
  PROVE  /\ Word(v) \in Nat
         /\ (Word(v) % 256) + 256 * (Word(v) \div 256) = Word(v)
<1>1. Word(v) \in Nat
  BY DEF Word
<1>2. \A x \in Nat : (x % 256) + 256 * (x \div 256) = x
  OBVIOUS
<1> QED BY <1>1, <1>2

-----------------------------------------------------------------------------
(* What an instruction does to the core.                                   *)

Regs == Registers \ {PC}

\* Everything but the registers and the program counter stays.
Goes(d, to) == Same(core, d) /\ d.ac_pc = to

Jumped(d, to) ==
  Goes(d, to) /\ d.bank = core.bank /\ \A r \in Regs : d.RB[r] = core.RB[r]

\* B
LEMMA CoreB ==
  ASSUME IsCore(core), NEW to
  PROVE  Jumped(B(now, to), to)
<1> DEFINE d == B(now, to)
<1> DEFINE e == [now EXCEPT !.RB[PC] = to]
<1>1. Same(core, now) /\ now.bank = core.bank /\ \A r \in Regs : now.RB[r] = core.RB[r]
  BY NowFacts DEF Regs
<1>2. /\ Same(now, e) /\ e.bank = now.bank /\ e.RB[PC] = to
      /\ \A r \in Regs : e.RB[r] = now.RB[r]
  BY <1>1, RegisterFacts DEF Same, IsCore, Regs
<1>3. d = finish(e) /\ IsCore(e)
  BY <1>2 DEF B, Same
<1> HIDE DEF e
<1>4. Same(e, d) /\ d.RB = e.RB /\ d.bank = e.bank /\ d.ac_pc = e.RB[PC]
  BY <1>3, FinishFacts
<1> QED BY <1>1, <1>2, <1>4 DEF Goes, Same, Jumped

Moved(d, r, v) ==
  /\ Goes(d, pc + 4) /\ d.RB[PC] = pc + 4
  /\ r \notin Banked(core.mode) =>
       /\ d.bank = core.bank
       /\ \A q \in Regs : d.RB[q] = IF q = r THEN v ELSE core.RB[q]
  /\ r \in Banked(core.mode) =>
       /\ \A q \in Regs : d.RB[q] = core.RB[q]
       /\ \A m \in ExceptionModes : \A q \in Banked(m) :
            d.bank[m][q] = IF m = core.mode /\ q = r THEN v ELSE core.bank[m][q]

\* The register is one that all modes share, or the one of the mode.
LEMMA CoreMov ==
  ASSUME IsCore(core), NEW r \in Regs, NEW v
  PROVE  Moved(MOV(now, r, v), r, v)
<1> DEFINE d == MOV(now, r, v)
<1>1. /\ Same(core, now) /\ now.bank = core.bank /\ now.RB[PC] = pc + 4
      /\ \A q \in Regs : now.RB[q] = core.RB[q]
  BY NowFacts DEF Regs
<1>2. /\ Same(now, d) /\ d.ac_pc = now.RB[PC] /\ d.RB[PC] = now.RB[PC]
      /\ r \notin Banked(now.mode) =>
              /\ d.bank = now.bank
              /\ \A q \in Registers : d.RB[q] = IF q = r THEN v ELSE now.RB[q]
      /\ r \in Banked(now.mode) =>
              /\ d.RB = now.RB
              /\ \A m \in ExceptionModes : \A q \in Banked(m) :
                   d.bank[m][q] = IF m = now.mode /\ q = r THEN v ELSE now.bank[m][q]
  BY <1>1, MovFacts DEF Same, Regs
<1>3. Goes(d, pc + 4) /\ d.RB[PC] = pc + 4
  BY <1>1, <1>2 DEF Goes, Same
<1>4. now.mode = core.mode
  BY <1>1 DEF Same
<1>5. CASE r \notin Banked(core.mode)
  BY <1>1, <1>2, <1>3, <1>4, <1>5 DEF Regs, Moved
<1>6. CASE r \in Banked(core.mode)
  BY <1>1, <1>2, <1>3, <1>4, <1>6 DEF Regs, Moved
<1> QED BY <1>5, <1>6

Linked(d, rm) ==
  /\ IsCore(d) /\ d.mode = core.mode /\ d.fiq = core.fiq /\ d.irq = core.irq
  /\ d.VBAR = core.VBAR /\ d.SPSR = core.SPSR /\ d.flags = core.flags
  /\ d.T <=> rm = 7
  /\ d.ac_pc = core.RB[rm] /\ d.bank = core.bank
  /\ \A q \in Regs : d.RB[q] = IF q = LR THEN pc + 4 ELSE core.RB[q]

\* BLX in user or system mode
LEMMA CoreBlx ==
  ASSUME IsCore(core), core.mode \in {USER_MODE, SYSTEM_MODE}, NEW rm \in {0, 6, 7}
  PROVE  Linked(BLX2(now, rm), rm)
<1> DEFINE d == BLX2(now, rm)
<1> DEFINE w == bypass_write(now, LR, now.RB[PC])
           t == rm % 2 = 1
           a == bypass_read(now, rm)
           e == [w EXCEPT !.T = t, !.RB[PC] = a]
<1>1. /\ Same(core, now) /\ now.bank = core.bank /\ now.RB[PC] = pc + 4
      /\ \A q \in Regs : now.RB[q] = core.RB[q]
  BY NowFacts DEF Regs
<1>2. LR \in Registers \ {PC} /\ LR \notin Banked(now.mode) /\ rm \in Regs
  BY <1>1, RegisterFacts, BankedFacts DEF Same, Regs
<1>3. a = core.RB[rm]
  BY <1>1, <1>2, BankedFacts DEF bypass_read, Same
<1>4. /\ Same(now, w) /\ w.bank = now.bank
      /\ \A q \in Registers : w.RB[q] = IF q = LR THEN now.RB[PC] ELSE now.RB[q]
      /\ IsCore(w)
  <2>1. IsCore(now) /\ w = bypass_write(now, LR, now.RB[PC])
    BY <1>1 DEF Same
  <2> HIDE DEF w
  <2>2. /\ IsCore(w)
        /\ w.mode = now.mode /\ w.fiq = now.fiq /\ w.irq = now.irq /\ w.T = now.T
        /\ w.flags = now.flags /\ w.VBAR = now.VBAR /\ w.SPSR = now.SPSR
        /\ w.bank = now.bank
      /\ \A q \in Registers : w.RB[q] = IF q = LR THEN now.RB[PC] ELSE now.RB[q]
    BY <1>2, <2>1, WriteRegister
  <2> QED BY <2>2 DEF Same
<1>5. t \in BOOLEAN /\ (t <=> rm = 7)
  OBVIOUS
<1>6. d = finish(e) /\ e = [w EXCEPT !.T = t, !.RB[PC] = a]
  BY DEF BLX2
<1> HIDE DEF w, t, a, e
<1>7. /\ e.mode = w.mode /\ e.fiq = w.fiq /\ e.irq = w.irq /\ e.VBAR = w.VBAR
      /\ e.SPSR = w.SPSR /\ e.flags = w.flags /\ e.T = t /\ e.bank = w.bank
      /\ e.RB = [w.RB EXCEPT ![PC] = a]
      /\ e = [RB |-> e.RB, bank |-> e.bank, SPSR |-> e.SPSR, mode |-> e.mode, fiq |-> e.fiq,
              irq |-> e.irq, T |-> e.T, flags |-> e.flags, ac_pc |-> e.ac_pc, VBAR |-> e.VBAR]
  <2>1. w = [RB |-> w.RB, bank |-> w.bank, SPSR |-> w.SPSR, mode |-> w.mode, fiq |-> w.fiq,
             irq |-> w.irq, T |-> w.T, flags |-> w.flags, ac_pc |-> w.ac_pc, VBAR |-> w.VBAR]
    BY <1>4 DEF IsCore
  <2> QED BY <1>6, <2>1
<1>8. IsCore(e)
  BY <1>4, <1>5, <1>7 DEF Same, IsCore
<1>9. e.RB[PC] = a /\ \A q \in Regs : e.RB[q] = IF q = LR THEN pc + 4 ELSE core.RB[q]
  <2>1. w.RB[PC] = pc + 4 /\ \A q \in Regs : w.RB[q] = IF q = LR THEN pc + 4 ELSE core.RB[q]
    BY <1>1, <1>4, RegisterFacts DEF Same, IsCore, Regs
  <2> QED BY <2>1, <1>4, <1>7, RegisterFacts DEF Same, IsCore, Regs
<1>10. Same(e, d) /\ d.RB = e.RB /\ d.bank = e.bank /\ d.ac_pc = e.RB[PC]
  BY <1>6, <1>8, FinishFacts
<1> QED BY <1>1, <1>3, <1>4, <1>5, <1>7, <1>9, <1>10 DEF Same, Linked

Switched(d, s) ==
  /\ IsCore(d) /\ d.bank = core.bank /\ d.SPSR = core.SPSR /\ d.VBAR = core.VBAR
  /\ d.flags = core.flags /\ d.ac_pc = pc + 4
  /\ d.mode = s % 32 /\ Status(d) = s
  /\ d.irq <=> s >= 128
  /\ \A q \in Regs : d.RB[q] = core.RB[q]

\* MSR of the control byte in a privileged mode
LEMMA CoreMsr ==
  ASSUME IsCore(core), core.mode # USER_MODE, NEW s \in Controls
  PROVE  Switched(MSR_CPSR(now, s, TRUE, FALSE), s)
<1> DEFINE d == MSR_CPSR(now, s, TRUE, FALSE)
<1>1. /\ Same(core, now) /\ now.bank = core.bank /\ now.ac_pc = pc + 4
      /\ \A q \in Regs : now.RB[q] = core.RB[q]
  BY NowFacts DEF Regs
<1>2. Privileged(now) /\ s % 256 = s /\ now.flags \in Nat /\ IsCore(now)
  BY <1>1 DEF Privileged, Same, IsCore, Controls
<1> DEFINE w == s + 256 * now.flags
<1>3. d = writeCPSR(now, w)
  BY <1>2 DEF MSR_CPSR
<1>w. w = s + 256 * now.flags
  OBVIOUS
<1> HIDE DEF w
<1>4. /\ IsCore(d) /\ d.RB = now.RB /\ d.bank = now.bank /\ d.SPSR = now.SPSR
      /\ d.ac_pc = now.ac_pc /\ d.VBAR = now.VBAR
      /\ d.mode = s % 32 /\ d.flags = now.flags /\ Status(d) = s
      /\ d.irq <=> s >= 128
  <2>1. Sets(now, writeCPSR(now, w), s, now.flags)
    BY <1>2, <1>w, WriteStatus, ZenonT(30)
  <2> QED BY <1>3, <2>1 DEF Sets
<1> QED BY <1>1, <1>4 DEF Same, Switched

Unswitched(d) ==
  /\ IsCore(d) /\ d.bank = core.bank /\ d.SPSR = core.SPSR /\ d.VBAR = core.VBAR
  /\ d.flags = core.flags /\ d.ac_pc = pc + 4
  /\ d.mode = core.mode /\ Status(d) = 16
  /\ \A q \in Regs : d.RB[q] = core.RB[q]

\* and in user mode, where it has no effect
LEMMA CoreMsrUser ==
  ASSUME IsCore(core), core.mode = USER_MODE, Status(core) = 16, NEW s
  PROVE  Unswitched(MSR_CPSR(now, s, TRUE, FALSE))
<1> DEFINE d == MSR_CPSR(now, s, TRUE, FALSE)
<1>1. /\ Same(core, now) /\ now.bank = core.bank /\ now.ac_pc = pc + 4
      /\ \A q \in Regs : now.RB[q] = core.RB[q]
  BY NowFacts DEF Regs
<1>2. ~Privileged(now) /\ now.flags \in Nat /\ IsCore(now)
  BY <1>1 DEF Privileged, Same, IsCore
<1>3. CPSRBuild(now) % 256 = 16
  <2>1. Status(now) = Status(core)
    BY <1>1 DEF Same, Status
  <2> QED BY <1>1, <2>1, StatusFacts DEF Same
<1> DEFINE w == 16 + 256 * now.flags
<1>4. d = writeCPSR(now, w)
  BY <1>2, <1>3 DEF MSR_CPSR
<1>w. w = 16 + 256 * now.flags
  OBVIOUS
<1> HIDE DEF w
<1>5. 16 \in Controls /\ 16 % 32 = USER_MODE
  BY DEF Controls, USER_MODE
<1>6. /\ IsCore(d) /\ d.RB = now.RB /\ d.bank = now.bank /\ d.SPSR = now.SPSR
      /\ d.ac_pc = now.ac_pc /\ d.VBAR = now.VBAR
      /\ d.mode = 16 % 32 /\ d.flags = now.flags /\ Status(d) = 16
  <2>1. Sets(now, writeCPSR(now, w), 16, now.flags)
    BY <1>2, <1>5, <1>w, WriteStatus, ZenonT(30)
  <2> QED BY <1>4, <2>1 DEF Sets
<1> QED BY <1>1, <1>5, <1>6 DEF Same, Unswitched

Flagged(d, f) ==
  /\ IsCore(d) /\ d.mode = core.mode /\ d.fiq = core.fiq /\ d.irq = core.irq /\ d.T = core.T
  /\ d.VBAR = core.VBAR /\ d.SPSR = core.SPSR /\ d.bank = core.bank
  /\ d.flags = f /\ d.ac_pc = pc + 4

\* bodies that change scratch registers and flags
LEMMA CoreMovFlags ==
  ASSUME IsCore(core), NEW r \in {0, 6, 7}, NEW v, NEW f \in Nat
  PROVE  LET d == [MOV(now, r, v) EXCEPT !.flags = f] IN
         /\ Flagged(d, f)
         /\ \A q \in Regs : d.RB[q] = IF q = r THEN v ELSE core.RB[q]
<1> DEFINE c == MOV(now, r, v)
           d == [c EXCEPT !.flags = f]
<1>1. r \in Regs /\ r \notin Banked(core.mode)
  BY RegisterFacts, BankedFacts DEF Regs, IsCore
<1>2. Moved(c, r, v)
  BY <1>1, CoreMov
<1> HIDE DEF c
<1>3. /\ d.mode = c.mode /\ d.fiq = c.fiq /\ d.irq = c.irq /\ d.T = c.T /\ d.VBAR = c.VBAR
      /\ d.SPSR = c.SPSR /\ d.bank = c.bank /\ d.RB = c.RB /\ d.ac_pc = c.ac_pc
      /\ d.flags = f /\ IsCore(d)
  BY <1>2 DEF Moved, Goes, Same, IsCore
<1> HIDE DEF d
<1>4. Flagged(d, f)
  BY <1>1, <1>2, <1>3 DEF Moved, Goes, Same, Flagged
<1>5. \A q \in Regs : d.RB[q] = IF q = r THEN v ELSE core.RB[q]
  BY <1>1, <1>2, <1>3 DEF Moved
<1> QED BY <1>4, <1>5 DEF c, d

\* the same of two registers
LEMMA CoreMovMovFlags ==
  ASSUME IsCore(core), NEW x, NEW r \in {6, 7}, NEW v, NEW f \in Nat
  PROVE  LET d == [MOV(MOV(now, 0, x), r, v) EXCEPT !.flags = f] IN
         /\ Flagged(d, f)
         /\ \A q \in Regs : d.RB[q] = IF q = r THEN v ELSE IF q = 0 THEN x ELSE core.RB[q]
<1> DEFINE b == MOV(now, 0, x)
           c == MOV(b, r, v)
           d == [c EXCEPT !.flags = f]
<1>1. 0 \in Regs /\ 0 \notin Banked(core.mode) /\ r \in Regs /\ r \notin Banked(core.mode)
  BY RegisterFacts, BankedFacts DEF Regs, IsCore
<1>2. Moved(b, 0, x)
  BY <1>1, CoreMov
<1> HIDE DEF b
<1>3. IsCore(b) /\ r \notin Banked(b.mode) /\ r \in Registers \ {PC}
  BY <1>1, <1>2 DEF Moved, Goes, Same, Regs
<1>4. /\ Same(b, c) /\ c.ac_pc = b.RB[PC] /\ c.bank = b.bank
      /\ \A q \in Registers : c.RB[q] = IF q = r THEN v ELSE b.RB[q]
  BY <1>3, MovFacts
<1> HIDE DEF c
<1>5. /\ d.mode = c.mode /\ d.fiq = c.fiq /\ d.irq = c.irq /\ d.T = c.T /\ d.VBAR = c.VBAR
      /\ d.SPSR = c.SPSR /\ d.bank = c.bank /\ d.RB = c.RB /\ d.ac_pc = c.ac_pc
      /\ d.flags = f /\ IsCore(d)
  BY <1>4 DEF Same, IsCore
<1> HIDE DEF d
<1>6. Flagged(d, f)
  BY <1>1, <1>2, <1>4, <1>5 DEF Moved, Goes, Same, Flagged
<1>7. \A q \in Regs : d.RB[q] = IF q = r THEN v ELSE IF q = 0 THEN x ELSE core.RB[q]
  <2>1. \A q \in Regs : b.RB[q] = IF q = 0 THEN x ELSE core.RB[q]
    BY <1>1, <1>2 DEF Moved
  <2> QED BY <2>1, <1>4, <1>5 DEF Regs
<1> QED BY <1>6, <1>7 DEF b, c, d

\* MRS and MSR of SPSR in an exception mode
LEMMA CoreMrs ==
  ASSUME IsCore(core), core.mode \in ExceptionModes
  PROVE  MRS(now, LR, TRUE) = MOV(now, LR, core.SPSR[core.mode])
<1>1. now.mode = core.mode /\ now.SPSR = core.SPSR
  BY NowFacts DEF Same
<1>2. Privileged(now)
  BY <1>1 DEF Privileged, Modes, ExceptionModes, USER_MODE, FIQ_MODE, IRQ_MODE, SUPERVISOR_MODE,
              ABORT_MODE, UNDEFINED_MODE
<1>3. readSPSR(now) = core.SPSR[core.mode]
  BY <1>1 DEF readSPSR
<1> QED BY <1>2, <1>3 DEF MRS, MOV

Saves(d, x) ==
  /\ IsCore(d) /\ d.mode = core.mode /\ d.fiq = core.fiq /\ d.irq = core.irq /\ d.T = core.T
  /\ d.VBAR = core.VBAR /\ d.flags = core.flags /\ d.bank = core.bank /\ d.ac_pc = pc + 4
  /\ d.SPSR[core.mode] = x
  /\ \A q \in Regs : d.RB[q] = core.RB[q]

\* MSR to SPSR of the mode
LEMMA CoreMsrSpsr ==
  ASSUME IsCore(core), core.mode \in ExceptionModes, NEW x, (x % 256) + 256 * (x \div 256) = x
  PROVE  Saves(MSR_SPSR(now, x, TRUE, TRUE), x)
<1> DEFINE d == MSR_SPSR(now, x, TRUE, TRUE)
<1>1. /\ Same(core, now) /\ now.bank = core.bank /\ now.ac_pc = pc + 4
      /\ \A q \in Regs : now.RB[q] = core.RB[q]
  BY NowFacts DEF Regs
<1>2. d = writeSPSR(now, x)
  BY DEF MSR_SPSR
<1>3. d = [now EXCEPT !.SPSR[now.mode] = x]
  BY <1>1, <1>2 DEF writeSPSR, Same
<1> HIDE DEF d
<1>4. /\ d.mode = now.mode /\ d.fiq = now.fiq /\ d.irq = now.irq /\ d.T = now.T
      /\ d.VBAR = now.VBAR /\ d.flags = now.flags /\ d.bank = now.bank /\ d.ac_pc = now.ac_pc
      /\ d.RB = now.RB /\ d.SPSR = [now.SPSR EXCEPT ![now.mode] = x]
      /\ d = [RB |-> d.RB, bank |-> d.bank, SPSR |-> d.SPSR, mode |-> d.mode, fiq |-> d.fiq,
              irq |-> d.irq, T |-> d.T, flags |-> d.flags, ac_pc |-> d.ac_pc, VBAR |-> d.VBAR]
  BY <1>1, <1>3 DEF Same, IsCore
<1>5. IsCore(d)
  BY <1>1, <1>4 DEF Same, IsCore
<1>6. d.SPSR[core.mode] = x
  BY <1>1, <1>4 DEF Same, IsCore
<1> QED BY <1>1, <1>4, <1>5, <1>6 DEF Same, Saves, d

\* MCR of VBAR from r0
LEMMA CoreMcr ==
  ASSUME IsCore(core)
  PROVE  LET d == MCR_VBAR(now, 0) IN
         /\ IsCore(d) /\ d.mode = core.mode /\ d.bank = core.bank /\ d.flags = core.flags
         /\ d.VBAR = core.RB[0] /\ d.ac_pc = pc + 4
         /\ \A q \in Regs : d.RB[q] = core.RB[q]
<1> DEFINE d == MCR_VBAR(now, 0)
<1>1. /\ Same(core, now) /\ now.bank = core.bank /\ now.ac_pc = pc + 4
      /\ \A q \in Regs : now.RB[q] = core.RB[q]
  BY NowFacts DEF Regs
<1>2. bypass_read(now, 0) = core.RB[0]
  BY <1>1, RegisterFacts, BankedFacts DEF bypass_read, Same, IsCore, Regs
<1>3. d = [now EXCEPT !.VBAR = core.RB[0]]
  BY <1>2 DEF MCR_VBAR
<1> HIDE DEF d
<1>4. /\ d.mode = now.mode /\ d.bank = now.bank /\ d.flags = now.flags /\ d.RB = now.RB
      /\ d.VBAR = core.RB[0] /\ d.ac_pc = now.ac_pc /\ IsCore(d)
  BY <1>1, <1>3 DEF Same, IsCore
<1> QED BY <1>1, <1>4 DEF Same, d

\* core c enters exception mode m at vector a, with address l to return to
Entered(c, d, m, l, a) ==
  /\ IsCore(d) /\ d.mode = m /\ d.irq /\ d.VBAR = c.VBAR /\ d.flags = c.flags
  /\ d.RB = c.RB /\ d.ac_pc = a
  /\ d.SPSR[m] = Status(c) + 256 * c.flags
  /\ \A n \in ExceptionModes : \A q \in Banked(n) :
       d.bank[n][q] = IF n = m /\ q = LR THEN l ELSE c.bank[n][q]

\* An exception saves the status and the address, and goes to its vector.
LEMMA EnterFacts ==
  ASSUME NEW c, IsCore(c), c.VBAR = Image, NEW e \in {"UNDEFINED", "SWI", "IRQ"},
         e = "IRQ" => ~c.irq
  PROVE  Entered(c, service_interrupt(c, e), EntryMode(e), Link(c, e), Image + Vector(e))
<1> DEFINE d == service_interrupt(c, e)
           m == EntryMode(e)
           l == Link(c, e)
           x == SavedStatus(c, e)
           f == c.fiq \/ e \in {"RESET", "FIQ"}
           a == Base(c) + Vector(e)
<1>1. ~Disabled(c, e)
  BY DEF Disabled
<1>2. m \in ExceptionModes
  BY DEF EntryMode, ExceptionModes
<1>3. x = Status(c) + 256 * c.flags
  BY StatusFacts DEF SavedStatus
<1>4. f \in BOOLEAN
  OBVIOUS
<1>5. a = Image + Vector(e)
  BY DEF Base, Image
<1>6. d = [c EXCEPT !.bank[m][LR] = l, !.SPSR[m] = x, !.mode = m, !.fiq = f, !.T = FALSE,
                    !.irq = TRUE, !.ac_pc = a]
  BY <1>1 DEF service_interrupt, IsCore
<1> HIDE DEF d, m, l, x, f, a
<1>7. /\ d.bank = [c.bank EXCEPT ![m] = [@ EXCEPT ![LR] = l]]
      /\ d.SPSR = [c.SPSR EXCEPT ![m] = x]
      /\ d.mode = m /\ d.fiq = f /\ d.T = FALSE /\ d.irq = TRUE /\ d.ac_pc = a
      /\ d.VBAR = c.VBAR /\ d.flags = c.flags /\ d.RB = c.RB
      /\ d = [RB |-> d.RB, bank |-> d.bank, SPSR |-> d.SPSR, mode |-> d.mode, fiq |-> d.fiq,
              irq |-> d.irq, T |-> d.T, flags |-> d.flags, ac_pc |-> d.ac_pc, VBAR |-> d.VBAR]
  BY <1>6 DEF IsCore
<1>8. d.bank[m] = [c.bank[m] EXCEPT ![LR] = l]
  BY <1>2, <1>7 DEF IsCore
<1>9. c.bank[m] = [q \in Banked(m) |-> c.bank[m][q]]
  BY <1>2 DEF IsCore
<1>10. ASSUME NEW n \in ExceptionModes
       PROVE  /\ d.bank[n] = [q \in Banked(n) |-> d.bank[n][q]]
              /\ \A q \in Banked(n) :
                   d.bank[n][q] = IF n = m /\ q = LR THEN l ELSE c.bank[n][q]
  <2>1. CASE n = m
    BY <2>1, <1>8, <1>9
  <2>2. CASE n # m
    <3>1. d.bank[n] = c.bank[n]
      BY <1>2, <1>7, <2>2 DEF IsCore
    <3>2. c.bank[n] = [q \in Banked(n) |-> c.bank[n][q]]
      BY DEF IsCore
    <3> QED BY <2>2, <3>1, <3>2
  <2> QED BY <2>1, <2>2
<1>11. d.bank = [n \in ExceptionModes |-> d.bank[n]]
  BY <1>7 DEF IsCore
<1>12. d.SPSR = [n \in ExceptionModes |-> d.SPSR[n]] /\ d.SPSR[m] = x
  BY <1>2, <1>7 DEF IsCore
<1>13. IsCore(d)
  <2>1. d.mode \in Modes /\ d.fiq \in BOOLEAN /\ d.irq \in BOOLEAN /\ d.T \in BOOLEAN
    BY <1>2, <1>4, <1>7 DEF Modes
  <2>2. d.RB = [r \in Registers |-> d.RB[r]] /\ d.flags \in Nat
    BY <1>7 DEF IsCore
  <2> QED BY <1>7, <1>10, <1>11, <1>12, <2>1, <2>2 DEF IsCore
<1>14. Entered(c, d, m, l, a)
  BY <1>3, <1>7, <1>10, <1>12, <1>13 DEF Entered
<1> QED BY <1>5, <1>14 DEF d, m, l

\* the vectors of the image
LEMMA EntryFacts ==
  /\ EntryMode("IRQ") = IRQ_MODE /\ Image + Vector("IRQ") = At(6)
  /\ EntryMode("SWI") = SUPERVISOR_MODE /\ Image + Vector("SWI") = At(2)
  /\ EntryMode("UNDEFINED") = UNDEFINED_MODE /\ Image + Vector("UNDEFINED") = At(1)
  /\ \A c : /\ Link(c, "IRQ") = c.ac_pc + 4
            /\ Link(c, "SWI") = c.ac_pc /\ Link(c, "UNDEFINED") = c.ac_pc
BY DEF EntryMode, Vector, At, Image, Link

\* movs pc, lr in an exception mode that was entered from context v
LEMMA CoreMovs ==
  ASSUME IsCore(core), core.mode \in ExceptionModes, NEW v, v.status \in {16, 31, 63},
         v.flags \in Nat, core.SPSR[core.mode] = Word(v), NEW a
  PROVE  LET d == MOVS_PC(now, a, 0) IN
         /\ IsCore(d) /\ Status(d) = v.status /\ d.ac_pc = a /\ d.VBAR = core.VBAR
         /\ d.bank = core.bank
         /\ \A q \in Regs : d.RB[q] = core.RB[q]
<1> DEFINE d == MOVS_PC(now, a, 0)
           w == Word(v)
           c == writeCPSR(now, w)
           e == [c EXCEPT !.flags = 0, !.RB[PC] = a]
<1>1. /\ Same(core, now) /\ now.bank = core.bank
      /\ \A q \in Regs : now.RB[q] = core.RB[q]
  BY NowFacts DEF Regs
<1>2. Sets(now, c, v.status, v.flags)
  <2>1. IsCore(now) /\ v.status \in Controls /\ v.flags \in Nat
    BY <1>1 DEF Same, Controls
  <2>2. w = v.status + 256 * v.flags
    BY DEF Word
  <2> HIDE DEF w
  <2> QED BY <2>1, <2>2, WriteStatus, ZenonT(30)
<1>3. SPSRtoCPSR(now) = c
  BY <1>1 DEF SPSRtoCPSR, Same
<1>4. d = finish(e)
  BY <1>1, <1>3 DEF MOVS_PC, Same
<1>e. e = [c EXCEPT !.flags = 0, !.RB[PC] = a]
  OBVIOUS
<1> HIDE DEF w, c, e
<1>5. /\ e.mode = c.mode /\ e.fiq = c.fiq /\ e.irq = c.irq /\ e.T = c.T /\ e.VBAR = c.VBAR
      /\ e.SPSR = c.SPSR /\ e.bank = c.bank /\ e.RB = [c.RB EXCEPT ![PC] = a] /\ e.flags = 0
      /\ e = [RB |-> e.RB, bank |-> e.bank, SPSR |-> e.SPSR, mode |-> e.mode, fiq |-> e.fiq,
              irq |-> e.irq, T |-> e.T, flags |-> e.flags, ac_pc |-> e.ac_pc, VBAR |-> e.VBAR]
  BY <1>2, <1>e DEF Sets, IsCore
<1>6. IsCore(e) /\ Status(e) = v.status
  BY <1>2, <1>5 DEF Sets, IsCore, Status
<1>7. e.RB[PC] = a /\ \A q \in Regs : e.RB[q] = c.RB[q]
  BY <1>2, <1>5, RegisterFacts DEF Sets, IsCore, Regs
<1>8. Same(e, d) /\ d.RB = e.RB /\ d.bank = e.bank /\ d.ac_pc = e.RB[PC]
  BY <1>4, <1>6, FinishFacts
<1> HIDE DEF d
<1>9. Status(d) = v.status
  BY <1>6, <1>8 DEF Same, Status
<1>10. IsCore(d) /\ d.ac_pc = a /\ d.VBAR = core.VBAR /\ d.bank = core.bank
  BY <1>1, <1>2, <1>5, <1>7, <1>8 DEF Same, Sets
<1>11. \A q \in Regs : d.RB[q] = core.RB[q]
  BY <1>1, <1>2, <1>7, <1>8 DEF Sets
<1> QED BY <1>9, <1>10, <1>11 DEF d

\* ldmfd sp!, {pc}^ in an exception mode that was entered from context v
Resumes(d, v, a) ==
  /\ IsCore(d) /\ Status(d) = v.status /\ d.flags = v.flags /\ d.ac_pc = a
  /\ d.VBAR = core.VBAR
  /\ \A q \in Regs : d.RB[q] = core.RB[q]
  /\ \A m \in ExceptionModes : \A q \in Banked(m) :
       d.bank[m][q] = IF m = core.mode /\ q = SP THEN core.bank[m][SP] + 4 ELSE core.bank[m][q]

\* The return takes status, flags and address from what was saved.
LEMMA CoreReturn ==
  ASSUME IsCore(core), core.mode \in ExceptionModes, NEW v, v.status \in {16, 31, 63},
         v.flags \in Nat, core.SPSR[core.mode] = Word(v), NEW a
  PROVE  LET popped == bypass_write(now, SP, Read(SP) + 4)
         IN  Resumes(finish(SPSRtoCPSR([popped EXCEPT !.RB[PC] = a])), v, a)
<1> DEFINE b == bypass_write(now, SP, Read(SP) + 4)
           e == [b EXCEPT !.RB[PC] = a]
           w == Word(v)
           c == writeCPSR(e, w)
           d == finish(c)
<1>1. /\ Same(core, now) /\ now.bank = core.bank /\ IsCore(now) /\ now.mode = core.mode
      /\ \A q \in Regs : now.RB[q] = core.RB[q]
  BY NowFacts DEF Regs, Same
<1>2. SP \in Registers \ {PC} /\ SP \in Banked(core.mode) /\ SP \in Regs
  BY RegisterFacts, BankedFacts DEF Regs
<1>3. Read(SP) = core.bank[core.mode][SP]
  BY <1>2, NowFacts DEF bypass_read, Regs
<1>4. /\ IsCore(b) /\ b.mode = core.mode /\ b.flags = core.flags /\ b.VBAR = core.VBAR
      /\ b.SPSR = core.SPSR /\ b.RB = now.RB
      /\ \A m \in ExceptionModes : \A q \in Banked(m) :
           b.bank[m][q] = IF m = core.mode /\ q = SP THEN core.bank[m][SP] + 4 ELSE core.bank[m][q]
  <2>1. /\ IsCore(b) /\ b.mode = now.mode /\ b.flags = now.flags /\ b.VBAR = now.VBAR
        /\ b.SPSR = now.SPSR /\ b.RB = now.RB
        /\ \A m \in ExceptionModes : \A q \in Banked(m) :
             b.bank[m][q] = IF m = now.mode /\ q = SP THEN Read(SP) + 4 ELSE now.bank[m][q]
    BY <1>1, <1>2, WriteRegister
  <2> HIDE DEF b
  <2> QED BY <2>1, <1>1, <1>3 DEF Same
<1>e. e = [b EXCEPT !.RB[PC] = a]
  OBVIOUS
<1> HIDE DEF b, e
<1>5. /\ e.mode = b.mode /\ e.fiq = b.fiq /\ e.irq = b.irq /\ e.T = b.T /\ e.VBAR = b.VBAR
      /\ e.SPSR = b.SPSR /\ e.bank = b.bank /\ e.RB = [b.RB EXCEPT ![PC] = a]
      /\ e.flags = b.flags
      /\ e = [RB |-> e.RB, bank |-> e.bank, SPSR |-> e.SPSR, mode |-> e.mode, fiq |-> e.fiq,
              irq |-> e.irq, T |-> e.T, flags |-> e.flags, ac_pc |-> e.ac_pc, VBAR |-> e.VBAR]
  BY <1>4, <1>e DEF IsCore
<1>6. finish(SPSRtoCPSR([b EXCEPT !.RB[PC] = a])) = finish(SPSRtoCPSR(e))
  BY <1>e
<1>7. IsCore(e)
  BY <1>4, <1>5 DEF IsCore
<1>8. e.RB[PC] = a /\ \A q \in Regs : e.RB[q] = core.RB[q]
  BY <1>1, <1>4, <1>5, RegisterFacts DEF IsCore, Regs
<1>9. SPSRtoCPSR(e) = c
  BY <1>4, <1>5 DEF SPSRtoCPSR
<1>10. Sets(e, c, v.status, v.flags)
  <2>1. v.status \in Controls /\ v.flags \in Nat
    BY DEF Controls
  <2>2. w = v.status + 256 * v.flags
    BY DEF Word
  <2> HIDE DEF w
  <2> QED BY <1>7, <2>1, <2>2, WriteStatus, ZenonT(30)
<1> HIDE DEF c
<1>11. Same(c, d) /\ d.RB = c.RB /\ d.bank = c.bank /\ d.ac_pc = c.RB[PC]
  BY <1>10, FinishFacts DEF Sets
<1> HIDE DEF d
<1>12. Status(d) = v.status
  BY <1>10, <1>11 DEF Same, Status, Sets
<1>13. Resumes(d, v, a)
  BY <1>4, <1>5, <1>8, <1>10, <1>11, <1>12 DEF Same, Sets, Resumes
<1> QED BY <1>6, <1>9, <1>13 DEF d, b

Loads(d, vals, sp) ==
  /\ Same(core, d)
  /\ d.ac_pc = IF PC \in DOMAIN vals THEN vals[PC] ELSE pc + 4
  /\ d.RB[SP] = IF SP \in Banked(core.mode) THEN core.RB[SP] ELSE sp
  /\ \A q \in Regs \ {SP} :
       d.RB[q] = IF q \in DOMAIN vals \ Banked(core.mode) THEN vals[q] ELSE core.RB[q]
  /\ \A m \in ExceptionModes : \A q \in Banked(m) :
       d.bank[m][q] = IF m = core.mode /\ q \in DOMAIN vals THEN vals[q]
                      ELSE IF m = core.mode /\ q = SP THEN sp ELSE core.bank[m][q]

\* ldmfd of a list of registers without the base
LEMMA CoreLoad ==
  ASSUME IsCore(core), NEW vals, SP \notin DOMAIN vals, NEW sp
  PROVE  Loads(finish(Loaded(bypass_write(now, SP, sp), vals)), vals, sp)
<1> DEFINE b == bypass_write(now, SP, sp)
           rb == [r \in Registers |->
                    IF r \in DOMAIN vals \ Banked(b.mode) THEN vals[r] ELSE b.RB[r]]
           bk == [m \in ExceptionModes |-> [r \in Banked(m) |->
                    IF m = b.mode /\ r \in DOMAIN vals THEN vals[r] ELSE b.bank[m][r]]]
           l == Loaded(b, vals)
           d == finish(l)
<1>1. /\ Same(core, now) /\ now.bank = core.bank /\ IsCore(now) /\ now.mode = core.mode
      /\ now.RB[PC] = pc + 4
      /\ \A q \in Regs : now.RB[q] = core.RB[q]
  BY NowFacts DEF Regs, Same
<1>2. SP \in Registers \ {PC} /\ SP \in Regs /\ PC \in Registers
  BY RegisterFacts DEF Regs
<1>3. /\ IsCore(b) /\ Same(now, b)
      /\ SP \notin Banked(core.mode) =>
              /\ b.bank = now.bank
              /\ \A q \in Registers : b.RB[q] = IF q = SP THEN sp ELSE now.RB[q]
      /\ SP \in Banked(core.mode) =>
              /\ b.RB = now.RB
              /\ \A m \in ExceptionModes : \A q \in Banked(m) :
                   b.bank[m][q] = IF m = core.mode /\ q = SP THEN sp ELSE now.bank[m][q]
  BY <1>1, <1>2, WriteRegister DEF Same
<1>4. b.mode = core.mode
  BY <1>1, <1>3 DEF Same
<1>5. l = [b EXCEPT !.RB = rb, !.bank = bk]
  BY <1>3 DEF Loaded, IsCore
<1> HIDE DEF b, l, rb, bk
<1>6. /\ l.mode = b.mode /\ l.fiq = b.fiq /\ l.irq = b.irq /\ l.T = b.T /\ l.VBAR = b.VBAR
      /\ l.SPSR = b.SPSR /\ l.flags = b.flags /\ l.bank = bk /\ l.RB = rb
      /\ l = [RB |-> l.RB, bank |-> l.bank, SPSR |-> l.SPSR, mode |-> l.mode, fiq |-> l.fiq,
              irq |-> l.irq, T |-> l.T, flags |-> l.flags, ac_pc |-> l.ac_pc, VBAR |-> l.VBAR]
  BY <1>3, <1>5 DEF IsCore
<1>7. /\ rb = [r \in Registers |-> rb[r]]
      /\ \A q \in Registers : rb[q] = IF q \in DOMAIN vals \ Banked(core.mode) THEN vals[q]
                                                                         ELSE b.RB[q]
  BY <1>4 DEF rb
<1>8. /\ bk = [m \in ExceptionModes |-> bk[m]]
      /\ \A m \in ExceptionModes : bk[m] = [r \in Banked(m) |->
                    IF m = core.mode /\ r \in DOMAIN vals THEN vals[r] ELSE b.bank[m][r]]
  BY <1>4 DEF bk
<1>9. ASSUME NEW m \in ExceptionModes
      PROVE  /\ bk[m] = [r \in Banked(m) |-> bk[m][r]]
             /\ \A q \in Banked(m) :
                  bk[m][q] = IF m = core.mode /\ q \in DOMAIN vals THEN vals[q] ELSE b.bank[m][q]
  BY <1>8
<1>10. IsCore(l)
  <2>1. l.bank = [m \in ExceptionModes |-> l.bank[m]]
    BY <1>6, <1>8
  <2>2. l.RB = [r \in Registers |-> l.RB[r]]
    BY <1>6, <1>7
  <2>3. \A m \in ExceptionModes : l.bank[m] = [r \in Banked(m) |-> l.bank[m][r]]
    BY <1>6, <1>9
  <2> QED BY <1>3, <1>6, <2>1, <2>2, <2>3 DEF IsCore
<1>11. Same(l, d) /\ d.RB = rb /\ d.bank = bk /\ d.ac_pc = rb[PC]
  BY <1>6, <1>10, FinishFacts
<1> HIDE DEF d
<1>12. Same(core, d)
  BY <1>1, <1>3, <1>6, <1>11 DEF Same
<1>13. d.ac_pc = IF PC \in DOMAIN vals THEN vals[PC] ELSE pc + 4
  <2>1. PC \notin Banked(core.mode)
    BY BankedFacts DEF IsCore
  <2>2. b.RB[PC] = pc + 4
    BY <1>1, <1>2, <1>3
  <2> QED BY <2>1, <2>2, <1>2, <1>7, <1>11
<1>14. d.RB[SP] = IF SP \in Banked(core.mode) THEN core.RB[SP] ELSE sp
  BY <1>1, <1>2, <1>3, <1>7, <1>11
<1>15. ASSUME NEW q \in Regs \ {SP}
       PROVE  d.RB[q] = IF q \in DOMAIN vals \ Banked(core.mode) THEN vals[q] ELSE core.RB[q]
  <2>1. b.RB[q] = core.RB[q]
    BY <1>1, <1>3 DEF Regs
  <2> QED BY <2>1, <1>7, <1>11 DEF Regs
<1>16. ASSUME NEW m \in ExceptionModes, NEW q \in Banked(m)
       PROVE  d.bank[m][q] = IF m = core.mode /\ q \in DOMAIN vals THEN vals[q]
                             ELSE IF m = core.mode /\ q = SP THEN sp ELSE core.bank[m][q]
  <2>1. b.bank[m][q] = IF m = core.mode /\ q = SP THEN sp ELSE core.bank[m][q]
    <3>1. CASE SP \in Banked(core.mode)
      BY <3>1, <1>1, <1>3
    <3>2. CASE SP \notin Banked(core.mode)
      <4>1. m # core.mode
        BY <3>2, BankedFacts
      <4> QED BY <3>2, <4>1, <1>1, <1>3
    <3> QED BY <3>1, <3>2
  <2> QED BY <2>1, <1>9, <1>11
<1>17. Loads(d, vals, sp)
  BY <1>12, <1>13, <1>14, <1>15, <1>16 DEF Loads
<1> QED BY <1>17 DEF d, l, b

-----------------------------------------------------------------------------
(* Lists of registers.                                                     *)

\* the places of the registers of a list
LEMMA OneRegister ==
  ASSUME NEW r \in Int, NEW s \in Int
  PROVE  Cardinality({r}) = 1 /\ Place(s, {r}, r) = s
<1>1. {q \in {r} : q < r} = {}
  OBVIOUS
<1>2. Cardinality({r}) = 1 /\ Cardinality({}) = 0
  BY FS_Singleton, FS_EmptySet
<1>3. Place(s, {r}, r) = s + 4 * Cardinality({})
  BY <1>1 DEF Place
<1> QED BY <1>2, <1>3

\* the same for two registers
LEMMA TwoRegisters ==
  ASSUME NEW s \in Int
  PROVE  /\ Cardinality({0, LR}) = 2
         /\ Place(s, {0, LR}, 0) = s /\ Place(s, {0, LR}, LR) = s + 4
<1>0. LR \in Int /\ 0 < LR
  BY RegisterFacts
<1>1. {q \in {0, LR} : q < 0} = {} /\ {q \in {0, LR} : q < LR} = {0}
  BY <1>0
<1>2. Cardinality({0}) = 1 /\ IsFiniteSet({0}) /\ Cardinality({}) = 0
  BY FS_Singleton, FS_EmptySet
<1>3. {0} \cup {LR} = {0, LR} /\ LR \notin {0}
  BY <1>0
<1>4. Cardinality({0, LR}) = 2
  BY <1>2, <1>3, FS_AddElement
<1>5. /\ Place(s, {0, LR}, 0) = s + 4 * Cardinality({})
      /\ Place(s, {0, LR}, LR) = s + 4 * Cardinality({0})
  BY <1>1 DEF Place
<1> QED BY <1>2, <1>4, <1>5

\* and for three
LEMMA ThreeRegisters ==
  ASSUME NEW c \in {LR, PC}, NEW s \in Int
  PROVE  /\ Cardinality({6, 7, c}) = 3
         /\ Place(s, {6, 7, c}, 6) = s /\ Place(s, {6, 7, c}, 7) = s + 4
         /\ Place(s, {6, 7, c}, c) = s + 8
<1>0. c \in Int /\ 7 < c
  BY RegisterFacts
<1>1. /\ {q \in {6, 7, c} : q < 6} = {} /\ {q \in {6, 7, c} : q < 7} = {6}
      /\ {q \in {6, 7, c} : q < c} = {6, 7}
  BY <1>0
<1>2. Cardinality({6}) = 1 /\ IsFiniteSet({6}) /\ Cardinality({}) = 0
  BY FS_Singleton, FS_EmptySet
<1>3. {6} \cup {7} = {6, 7} /\ {6, 7} \cup {c} = {6, 7, c} /\ c \notin {6, 7} /\ 7 \notin {6}
  BY <1>0
<1>4. IsFiniteSet({6, 7}) /\ Cardinality({6, 7}) = 2
  BY <1>2, <1>3, FS_AddElement
<1>5. Cardinality({6, 7, c}) = 3
  BY <1>3, <1>4, FS_AddElement
<1>6. /\ Place(s, {6, 7, c}, 6) = s + 4 * Cardinality({})
      /\ Place(s, {6, 7, c}, 7) = s + 4 * Cardinality({6})
      /\ Place(s, {6, 7, c}, c) = s + 4 * Cardinality({6, 7})
  BY <1>1 DEF Place
<1> QED BY <1>2, <1>4, <1>5, <1>6

\* stmfd of one register
LEMMA StoreOne ==
  ASSUME IsCore(core), NEW r \in Regs, NEW sp \in Int, sp = bypass_read(core, SP),
         Instr = stm({r}), exec_stm
  PROVE  /\ Moved(core', SP, sp - 4) /\ UNCHANGED <<interrupted, priomask, line, configured>>
         /\ mem' = [a \in Slots |-> mem'[a]]
         /\ \A a \in Slots : mem'[a] = IF a = sp - 4 THEN bypass_read(core, r) ELSE mem[a]
<1> DEFINE list == {r}
           start == Read(SP) - 4 * Cardinality(list)
<1>1. SP \in Regs /\ r \in Int
  BY RegisterFacts DEF Regs, Registers
<1>2. Read(SP) = sp /\ Read(r) = bypass_read(core, r)
  BY <1>1, NowFacts DEF Regs
<1>3. start = sp - 4
  BY <1>1, <1>2, OneRegister
<1>4. Place(start, list, r) = start
  BY <1>1, <1>3, OneRegister
<1>5. /\ core' = finish(bypass_write(now, SP, start))
      /\ UNCHANGED <<interrupted, priomask, line, configured>>
      /\ mem' = [a \in Slots |-> IF \E x \in list : a = Place(start, list, x)
                                   THEN Read(CHOOSE x \in list : a = Place(start, list, x))
                                   ELSE mem[a]]
  BY DEF exec_stm, stm, Becomes
<1> HIDE DEF start
<1>6. Moved(core', SP, sp - 4)
  BY <1>1, <1>3, <1>5, CoreMov DEF MOV
<1>7. mem' = [a \in Slots |-> mem'[a]]
  BY <1>5
<1>8. ASSUME NEW a \in Slots
      PROVE  mem'[a] = IF a = sp - 4 THEN bypass_read(core, r) ELSE mem[a]
  <2>1. mem'[a] = IF \E x \in list : a = Place(start, list, x)
                    THEN Read(CHOOSE x \in list : a = Place(start, list, x))
                    ELSE mem[a]
    BY <1>5
  <2>2. (\E x \in list : a = Place(start, list, x)) <=> a = sp - 4
    BY <1>3, <1>4
  <2>3. CASE a = sp - 4
    <3>1. (CHOOSE x \in list : a = Place(start, list, x)) = r
      BY <2>3, <2>2
    <3> QED BY <2>1, <2>2, <2>3, <3>1, <1>2
  <2>4. CASE a # sp - 4
    BY <2>1, <2>2, <2>4
  <2> QED BY <2>3, <2>4
<1> QED BY <1>5, <1>6, <1>7, <1>8

\* stmfd of two registers
LEMMA StoreTwo ==
  ASSUME IsCore(core), NEW sp \in Int, sp = bypass_read(core, SP), Instr = stm({0, LR}), exec_stm
  PROVE  /\ Moved(core', SP, sp - 8) /\ UNCHANGED <<interrupted, priomask, line, configured>>
         /\ mem' = [a \in Slots |-> mem'[a]]
         /\ \A a \in Slots : mem'[a] = IF a = sp - 8 THEN bypass_read(core, 0)
                                       ELSE IF a = sp - 4 THEN bypass_read(core, LR) ELSE mem[a]
<1> DEFINE list == {0, LR}
           start == Read(SP) - 4 * Cardinality(list)
<1>1. SP \in Regs /\ 0 \in Regs /\ LR \in Regs /\ 0 \in Int /\ LR \in Int /\ 0 < LR
  BY RegisterFacts DEF Regs
<1>2. /\ Read(SP) = sp
      /\ Read(0) = bypass_read(core, 0) /\ Read(LR) = bypass_read(core, LR)
  BY <1>1, NowFacts DEF Regs
<1>3. start = sp - 8
  <2>1. Cardinality(list) = 2
    BY TwoRegisters
  <2> QED BY <1>2, <2>1
<1>4. Place(start, list, 0) = sp - 8 /\ Place(start, list, LR) = sp - 4
  <2>1. start \in Int
    BY <1>3
  <2> HIDE DEF start
  <2>2. Place(start, list, 0) = start /\ Place(start, list, LR) = start + 4
    BY <2>1, TwoRegisters
  <2> QED BY <1>3, <2>2
<1>5. /\ core' = finish(bypass_write(now, SP, start))
      /\ UNCHANGED <<interrupted, priomask, line, configured>>
      /\ mem' = [a \in Slots |-> IF \E x \in list : a = Place(start, list, x)
                                   THEN Read(CHOOSE x \in list : a = Place(start, list, x))
                                   ELSE mem[a]]
  BY DEF exec_stm, stm, Becomes
<1> HIDE DEF start
<1>6. Moved(core', SP, sp - 8)
  BY <1>1, <1>3, <1>5, CoreMov DEF MOV
<1>7. mem' = [a \in Slots |-> mem'[a]]
  BY <1>5
<1>8. ASSUME NEW a \in Slots
      PROVE  mem'[a] = IF a = sp - 8 THEN bypass_read(core, 0)
                       ELSE IF a = sp - 4 THEN bypass_read(core, LR) ELSE mem[a]
  <2>1. mem'[a] = IF \E x \in list : a = Place(start, list, x)
                    THEN Read(CHOOSE x \in list : a = Place(start, list, x))
                    ELSE mem[a]
    BY <1>5
  <2>2. (\E x \in list : a = Place(start, list, x)) <=> a = sp - 8 \/ a = sp - 4
    BY <1>4
  <2>3. CASE a = sp - 8
    <3>1. (CHOOSE x \in list : a = Place(start, list, x)) = 0
      BY <2>2, <2>3, <1>4
    <3> QED BY <2>1, <2>2, <2>3, <3>1, <1>2
  <2>4. CASE a = sp - 4
    <3>1. (CHOOSE x \in list : a = Place(start, list, x)) = LR
      BY <2>2, <2>4, <1>4
    <3>2. a # sp - 8
      BY <2>4
    <3>3. mem'[a] = bypass_read(core, LR)
      BY <2>1, <2>2, <2>4, <3>1, <1>2
    <3> QED BY <2>4, <3>2, <3>3
  <2>5. CASE a # sp - 8 /\ a # sp - 4
    BY <2>1, <2>2, <2>5
  <2> QED BY <2>3, <2>4, <2>5
<1> QED BY <1>5, <1>6, <1>7, <1>8

\* stmfd of three registers
LEMMA StoreThree ==
  ASSUME IsCore(core), NEW sp \in Int, sp = bypass_read(core, SP), Instr = stm({6, 7, LR}),
         exec_stm
  PROVE  /\ Moved(core', SP, sp - 12) /\ UNCHANGED <<interrupted, priomask, line, configured>>
         /\ mem' = [a \in Slots |-> mem'[a]]
         /\ \A a \in Slots : mem'[a] = IF a = sp - 12 THEN bypass_read(core, 6)
                                       ELSE IF a = sp - 8 THEN bypass_read(core, 7)
                                       ELSE IF a = sp - 4 THEN bypass_read(core, LR) ELSE mem[a]
<1> DEFINE list == {6, 7, LR}
           start == Read(SP) - 4 * Cardinality(list)
<1>1. SP \in Regs /\ 6 \in Regs /\ 7 \in Regs /\ LR \in Regs /\ LR \in Int /\ 7 < LR /\ 6 < 7
  BY RegisterFacts DEF Regs
<1>2. /\ Read(SP) = sp /\ Read(6) = bypass_read(core, 6) /\ Read(7) = bypass_read(core, 7)
      /\ Read(LR) = bypass_read(core, LR)
  BY <1>1, NowFacts DEF Regs
<1>3. start = sp - 12
  <2>1. Cardinality(list) = 3
    BY ThreeRegisters
  <2> QED BY <1>2, <2>1
<1>4. /\ Place(start, list, 6) = sp - 12 /\ Place(start, list, 7) = sp - 8
      /\ Place(start, list, LR) = sp - 4
  <2>1. start \in Int
    BY <1>3
  <2> HIDE DEF start
  <2>2. /\ Place(start, list, 6) = start /\ Place(start, list, 7) = start + 4
        /\ Place(start, list, LR) = start + 8
    BY <2>1, ThreeRegisters
  <2> QED BY <1>3, <2>2
<1>5. /\ core' = finish(bypass_write(now, SP, start))
      /\ UNCHANGED <<interrupted, priomask, line, configured>>
      /\ mem' = [a \in Slots |-> IF \E x \in list : a = Place(start, list, x)
                                   THEN Read(CHOOSE x \in list : a = Place(start, list, x))
                                   ELSE mem[a]]
  BY DEF exec_stm, stm, Becomes
<1> HIDE DEF start
<1>6. Moved(core', SP, sp - 12)
  BY <1>1, <1>3, <1>5, CoreMov DEF MOV
<1>7. mem' = [a \in Slots |-> mem'[a]]
  BY <1>5
<1>8. ASSUME NEW a \in Slots
      PROVE  mem'[a] = IF a = sp - 12 THEN bypass_read(core, 6)
                       ELSE IF a = sp - 8 THEN bypass_read(core, 7)
                       ELSE IF a = sp - 4 THEN bypass_read(core, LR) ELSE mem[a]
  <2>1. mem'[a] = IF \E x \in list : a = Place(start, list, x)
                    THEN Read(CHOOSE x \in list : a = Place(start, list, x))
                    ELSE mem[a]
    BY <1>5
  <2>2. (\E x \in list : a = Place(start, list, x)) <=> a = sp - 12 \/ a = sp - 8 \/ a = sp - 4
    BY <1>4
  <2>3. CASE a = sp - 12
    <3>1. (CHOOSE x \in list : a = Place(start, list, x)) = 6
      BY <2>2, <2>3, <1>4
    <3> QED BY <2>1, <2>2, <2>3, <3>1, <1>2
  <2>4. CASE a = sp - 8
    <3>1. (CHOOSE x \in list : a = Place(start, list, x)) = 7
      BY <2>2, <2>4, <1>4
    <3>2. a # sp - 12
      BY <2>4
    <3>3. mem'[a] = bypass_read(core, 7)
      BY <2>1, <2>2, <2>4, <3>1, <1>2
    <3> QED BY <2>4, <3>2, <3>3
  <2>5. CASE a = sp - 4
    <3>1. (CHOOSE x \in list : a = Place(start, list, x)) = LR
      BY <2>2, <2>5, <1>4
    <3>2. a # sp - 12 /\ a # sp - 8
      BY <2>5
    <3>3. mem'[a] = bypass_read(core, LR)
      BY <2>1, <2>2, <2>5, <3>1, <1>2
    <3> QED BY <2>5, <3>2, <3>3
  <2>6. CASE a # sp - 12 /\ a # sp - 8 /\ a # sp - 4
    BY <2>1, <2>2, <2>6
  <2> QED BY <2>3, <2>4, <2>5, <2>6
<1> QED BY <1>5, <1>6, <1>7, <1>8

\* LDM of n words at sp: the words are forgotten.
Popped(sp, n) ==
  /\ UNCHANGED <<interrupted, priomask, line, configured>>
  /\ mem' = [a \in Slots |-> mem'[a]]
  /\ \A a \in Slots : (a < sp \/ a >= sp + 4 * n) => mem'[a] = mem[a]

\* ldmfd, by the words at the places of its list
LEMMA LoadList ==
  ASSUME IsCore(core), NEW sp \in Int, sp = bypass_read(core, SP), NEW list,
         NEW n \in Nat, Cardinality(list) = n, SP \notin list, Instr = ldm(list), exec_ldm
  PROVE  /\ Popped(sp, n)
         /\ \E vals : /\ DOMAIN vals = list
                      /\ \A r \in list : vals[r] = mem[Place(sp, list, r)]
                      /\ Loads(core', vals, sp + 4 * n)
<1> DEFINE vals == [r \in list |-> mem[Place(sp, list, r)]]
<1>1. Read(SP) = sp
  BY RegisterFacts, NowFacts
<1>2. /\ core' = finish(Loaded(bypass_write(now, SP, sp + 4 * n), vals))
      /\ UNCHANGED <<interrupted, priomask, line, configured>>
      /\ mem' = [a \in Slots |-> IF a \in sp..(sp + 4 * n - 1) THEN 0 ELSE mem[a]]
  BY <1>1 DEF exec_ldm, ldm, Becomes, Pop
<1>3. DOMAIN vals = list /\ \A r \in list : vals[r] = mem[Place(sp, list, r)]
  OBVIOUS
<1> HIDE DEF vals
<1>4. Loads(core', vals, sp + 4 * n)
  BY <1>2, <1>3, CoreLoad
<1>5. mem' = [a \in Slots |-> mem'[a]]
  BY <1>2
<1>6. ASSUME NEW a \in Slots, a < sp \/ a >= sp + 4 * n
      PROVE  mem'[a] = mem[a]
  <2>1. a \notin sp..(sp + 4 * n - 1)
    BY <1>6
  <2> QED BY <1>2, <2>1
<1> QED BY <1>2, <1>3, <1>4, <1>5, <1>6 DEF Popped

\* ldmfd of one register
LEMMA LoadOne ==
  ASSUME IsCore(core), NEW sp \in Int, sp = bypass_read(core, SP), NEW r \in {0, 7, LR, PC},
         Instr = ldm({r}), exec_ldm
  PROVE  /\ Popped(sp, 1)
         /\ \E vals : DOMAIN vals = {r} /\ vals[r] = mem[sp] /\ Loads(core', vals, sp + 4)
<1>1. r \in Int /\ SP \notin {r}
  BY RegisterFacts
<1>2. Cardinality({r}) = 1 /\ Place(sp, {r}, r) = sp
  BY <1>1, OneRegister
<1>3. /\ Popped(sp, 1)
      /\ \E vals : /\ DOMAIN vals = {r}
                   /\ \A x \in {r} : vals[x] = mem[Place(sp, {r}, x)]
                   /\ Loads(core', vals, sp + 4 * 1)
  BY <1>1, <1>2, LoadList
<1> QED BY <1>2, <1>3

\* ldmfd of two registers
LEMMA LoadTwo ==
  ASSUME IsCore(core), NEW sp \in Int, sp = bypass_read(core, SP), Instr = ldm({0, LR}), exec_ldm
  PROVE  /\ Popped(sp, 2)
         /\ \E vals : /\ DOMAIN vals = {0, LR} /\ vals[0] = mem[sp] /\ vals[LR] = mem[sp + 4]
                      /\ Loads(core', vals, sp + 8)
<1>1. 0 \in Int /\ LR \in Int /\ 0 < LR /\ SP \notin {0, LR}
  BY RegisterFacts
<1>2. Cardinality({0, LR}) = 2 /\ Place(sp, {0, LR}, 0) = sp /\ Place(sp, {0, LR}, LR) = sp + 4
  BY TwoRegisters
<1>3. /\ Popped(sp, 2)
      /\ \E vals : /\ DOMAIN vals = {0, LR}
                   /\ \A x \in {0, LR} : vals[x] = mem[Place(sp, {0, LR}, x)]
                   /\ Loads(core', vals, sp + 4 * 2)
  BY <1>1, <1>2, LoadList
<1> QED BY <1>2, <1>3

\* ldmfd of three registers
LEMMA LoadThree ==
  ASSUME IsCore(core), NEW sp \in Int, sp = bypass_read(core, SP), NEW r \in {LR, PC},
         Instr = ldm({6, 7, r}), exec_ldm
  PROVE  /\ Popped(sp, 3)
         /\ \E vals : /\ DOMAIN vals = {6, 7, r} /\ vals[6] = mem[sp] /\ vals[7] = mem[sp + 4]
                      /\ vals[r] = mem[sp + 8]
                      /\ Loads(core', vals, sp + 12)
<1>1. 6 \in Int /\ 7 \in Int /\ r \in Int /\ 6 < 7 /\ 7 < r /\ SP \notin {6, 7, r}
  BY RegisterFacts
<1>2. /\ Cardinality({6, 7, r}) = 3 /\ Place(sp, {6, 7, r}, 6) = sp
      /\ Place(sp, {6, 7, r}, 7) = sp + 4 /\ Place(sp, {6, 7, r}, r) = sp + 8
  BY ThreeRegisters
<1>3. /\ Popped(sp, 3)
      /\ \E vals : /\ DOMAIN vals = {6, 7, r}
                   /\ \A x \in {6, 7, r} : vals[x] = mem[Place(sp, {6, 7, r}, x)]
                   /\ Loads(core', vals, sp + 4 * 3)
  BY <1>1, <1>2, LoadList
<1> QED BY <1>2, <1>3

-----------------------------------------------------------------------------
(* The image.                                                              *)

\* reset_handler, until the stack of the interrupt mode is set
LEMMA ResetCode ==
  /\ pc = At(0) => Instr = branch(reset_handler)
  /\ pc = At(8) => Instr = ldr(SP, SVC_STACK)
  /\ pc = At(9) => Instr = msr(223)
  /\ pc = At(10) => Instr = ldr(SP, USR_STACK)
  /\ pc = At(11) => Instr = msr(209)
  /\ pc = At(12) => Instr = ldr(SP, FIQ_STACK)
  /\ pc = At(13) => Instr = msr(210)
  /\ pc = At(14) => Instr = ldr(SP, IRQ_STACK)
  /\ pc = At(15) => Instr = msr(215)
BY DEF Instr, At, Image, Code, pc

\* the rest of reset_handler, and the first instruction of system_init
LEMMA InitCode ==
  /\ pc = At(16) => Instr = ldr(SP, ABT_STACK)
  /\ pc = At(17) => Instr = msr(219)
  /\ pc = At(18) => Instr = ldr(SP, UND_STACK)
  /\ pc = At(19) => Instr = ldr(0, Image)
  /\ pc = At(20) => Instr = I("mcr")
  /\ pc = At(21) => Instr = msr(31)
  /\ pc = At(22) => Instr = branch(system_init)
  /\ pc = At(24) => Instr = I("configure")
BY DEF Instr, At, Image, Code, pc

\* the handler that does nothing, system_init, the application
LEMMA BaseCode ==
  /\ pc = At(1) => Instr = branch(unimplemented)
  /\ pc = At(23) => Instr = I("movs")
  /\ pc = At(25) => Instr = msr(16)
  /\ pc = At(26) => Instr = ldr(0, app)
  /\ pc = At(27) => Instr = [op |-> "blx", rm |-> 0]
  /\ pc = At(28) => Instr = branch(loop)
  /\ pc = At(66) => Instr = I("app")
  /\ pc = At(67) => Instr = I("app_end")
BY DEF Instr, At, Image, Code, pc

\* svc_handler in supervisor mode
LEMMA SvcCode ==
  /\ pc = At(2) => Instr = branch(svc_handler)
  /\ pc = At(29) => Instr = stm({LR})
  /\ pc = At(30) => Instr = I("mrs")
  /\ pc = At(31) => Instr = stm({LR})
  /\ pc = At(32) => Instr = msr(31)
  /\ pc = At(38) => Instr = ldm({LR})
  /\ pc = At(39) => Instr = I("msr_spsr")
  /\ pc = At(40) => Instr = I("ldm_return")
BY DEF Instr, At, Image, Code, pc

\* svc_handler in system mode, and the routine it calls
LEMMA CallCode ==
  /\ pc = At(33) => Instr = stm({0})
  /\ pc = At(34) => Instr = I("dispatch")
  /\ pc = At(35) => Instr = ldm({0})
  /\ pc = At(36) => Instr = [op |-> "blx", rm |-> 7]
  /\ pc = At(37) => Instr = msr(211)
  /\ pc = At(41) => Instr = stm({6, 7, LR})
  /\ pc = At(42) => Instr = I("work")
  /\ pc = At(43) => Instr = ldm({6, 7, PC})
BY DEF Instr, At, Image, Code, pc

\* irq_handler in interrupt mode, before the line's handler
LEMMA IrqCode ==
  /\ pc = At(6) => Instr = branch(irq_handler)
  /\ pc = At(44) => Instr = I("sub")
  /\ pc = At(45) => Instr = stm({LR})
  /\ pc = At(46) => Instr = I("mrs")
  /\ pc = At(47) => Instr = stm({6, 7, LR})
  /\ pc = At(48) => Instr = I("find")
  /\ pc = At(49) => Instr = I("get_priomask")
  /\ pc = At(50) => Instr = stm({7})
  /\ pc = At(51) => Instr = I("set_priomask")
  /\ pc = At(52) => Instr = msr(31)
<1>1. /\ pc = At(6) => Instr = branch(irq_handler)
      /\ pc = At(44) => Instr = I("sub")
      /\ pc = At(45) => Instr = stm({LR})
      /\ pc = At(46) => Instr = I("mrs")
      /\ pc = At(47) => Instr = stm({6, 7, LR})
  BY DEF Instr, At, Image, Code, pc
<1>2. /\ pc = At(48) => Instr = I("find")
      /\ pc = At(49) => Instr = I("get_priomask")
      /\ pc = At(50) => Instr = stm({7})
      /\ pc = At(51) => Instr = I("set_priomask")
      /\ pc = At(52) => Instr = msr(31)
  BY DEF Instr, At, Image, Code, pc
<1> QED BY <1>1, <1>2

\* irq_handler in system mode, and the line's handler
LEMMA LineCode ==
  /\ pc = At(53) => Instr = stm({0, LR})
  /\ pc = At(54) => Instr = I("address")
  /\ pc = At(55) => Instr = [op |-> "blx", rm |-> 6]
  /\ pc = At(56) => Instr = ldm({0, LR})
  /\ pc = At(57) => Instr = msr(146)
  /\ pc = At(63) => Instr = stm({LR})
  /\ pc = At(64) => Instr = I("work")
  /\ pc = At(65) => Instr = ldm({PC})
BY DEF Instr, At, Image, Code, pc

\* irq_handler in interrupt mode, after the line's handler
LEMMA IrqEndCode ==
  /\ pc = At(58) => Instr = ldm({7})
  /\ pc = At(59) => Instr = I("restore_priomask")
  /\ pc = At(60) => Instr = ldm({6, 7, LR})
  /\ pc = At(61) => Instr = I("msr_spsr")
  /\ pc = At(62) => Instr = I("ldm_return")
BY DEF Instr, At, Image, Code, pc

\* A step executes the instruction at the counter.
LEMMA Executes ==
  ASSUME step
  PROVE  /\ Instr.op = "b" => exec_b
         /\ Instr.op = "ldr" => exec_ldr
         /\ Instr.op = "blx" => exec_blx
         /\ Instr.op = "msr" => exec_msr
         /\ Instr.op = "mcr" => exec_mcr
         /\ Instr.op = "mrs" => exec_mrs
         /\ Instr.op = "msr_spsr" => exec_msr_spsr
         /\ Instr.op = "sub" => exec_sub
         /\ Instr.op = "stm" => exec_stm
         /\ Instr.op = "ldm" => exec_ldm
         /\ Instr.op = "ldm_return" => exec_ldm_return
         /\ Instr.op = "movs" => exec_movs
         /\ Instr.op = "configure" => exec_configure
         /\ Instr.op = "dispatch" => exec_dispatch
         /\ Instr.op = "work" => exec_work
         /\ Instr.op = "find" => exec_find
         /\ Instr.op = "address" => exec_address
         /\ Instr.op = "get_priomask" => exec_get_priomask
         /\ Instr.op = "set_priomask" => exec_set_priomask
         /\ Instr.op = "restore_priomask" => exec_restore_priomask
         /\ Instr.op = "app" => app_compute \/ app_swi \/ app_undefined
         /\ Instr.op = "app_end" => app_end
BY DEF step, exec_b, exec_ldr, exec_blx, exec_msr, exec_mcr, exec_mrs, exec_msr_spsr, exec_sub, exec_stm, exec_ldm, exec_ldm_return, exec_movs, exec_configure, exec_dispatch, exec_work, exec_find, exec_address, exec_get_priomask, exec_set_priomask, exec_restore_priomask, app_compute, app_swi, app_undefined, app_end

-----------------------------------------------------------------------------
(* The contexts that wait, as a sequence.                                  *)

\* Every sequence is one over its own elements.
LEMMA OwnElements ==
  ASSUME NEW S, NEW t \in Seq(S)
  PROVE  IsSeq(t)
<1> DEFINE T == {t[k] : k \in DOMAIN t}
           n == Len(t)
<1>1. n \in Nat /\ t \in [1..n -> S] /\ DOMAIN t = 1..n
  BY LenProperties
<1>2. t \in [1..n -> T]
  BY <1>1
<1> HIDE DEF T, n
<1>3. t \in Seq(T)
  BY <1>1, <1>2
<1> QED BY <1>3 DEF T, IsSeq

\* No context waits if and only if the sequence is empty.
LEMMA DepthFacts ==
  ASSUME IsSeq(interrupted)
  PROVE  Depth \in Nat /\ (Depth = 0 <=> interrupted = <<>>)
BY EmptySeq, LenProperties DEF IsSeq, Depth

\* without contexts that wait there is no call
LEMMA NoCalls ==
  ASSUME NEW h, Len(h) = 0
  PROVE  Calls(h) = 0 /\ Level(h, 0) = 0
BY DEF Calls, Level

\* a context joins those that wait
LEMMA OneMore ==
  ASSUME IsSeq(interrupted), NEW e, interrupted' = Append(interrupted, e)
  PROVE  /\ IsSeq(interrupted)' /\ Depth' = Depth + 1 /\ interrupted'[Depth + 1] = e
         /\ \A k \in 1..Depth : interrupted'[k] = interrupted[k]
<1> DEFINE S == {interrupted[k] : k \in DOMAIN interrupted} \cup {e}
<1>1. interrupted \in Seq(S) /\ e \in S
  BY DEF IsSeq
<1> HIDE DEF S
<1>2. /\ interrupted' \in Seq(S) /\ Len(interrupted') = Len(interrupted) + 1
      /\ interrupted'[Len(interrupted) + 1] = e
      /\ \A k \in 1..Len(interrupted) : interrupted'[k] = interrupted[k]
  BY <1>1, AppendProperties
<1>3. IsSeq(interrupted')
  BY <1>2, OwnElements
<1> QED BY <1>2, <1>3 DEF Depth, IsSeq

\* the last context leaves
LEMMA OneLess ==
  ASSUME IsSeq(interrupted), Depth > 0, interrupted' = SubSeq(interrupted, 1, Len(interrupted) - 1)
  PROVE  /\ IsSeq(interrupted)' /\ Depth' = Depth - 1
         /\ \A k \in 1..(Depth - 1) : interrupted'[k] = interrupted[k]
<1> DEFINE S == {interrupted[k] : k \in DOMAIN interrupted}
           n == Len(interrupted) - 1
<1>1. interrupted \in Seq(S)
  BY DEF IsSeq
<1> HIDE DEF S
<1>2. n \in Nat /\ Depth = n + 1 /\ \A i \in 1..n : interrupted[i] \in S
  BY <1>1, LenProperties, ElementOfSeq DEF Depth
<1> HIDE DEF n
<1>3. interrupted' = SubSeq(interrupted, 1, n)
  BY DEF n
<1>4. /\ interrupted' \in Seq(S) /\ Len(interrupted') = n
      /\ \A i \in 1..n : interrupted'[i] = interrupted[i]
  <2>1. /\ SubSeq(interrupted, 1, n) \in Seq(S)
        /\ Len(SubSeq(interrupted, 1, n)) = IF 1 <= n THEN n - 1 + 1 ELSE 0
        /\ \A i \in 1..(n - 1 + 1) : SubSeq(interrupted, 1, n)[i] = interrupted[1 + i - 1]
    BY <1>2, SubSeqProperties
  <2> QED BY <1>2, <1>3, <2>1
<1>5. IsSeq(interrupted')
  BY <1>4, OwnElements
<1>6. Depth' = n /\ Depth - 1 = n
  BY <1>2, <1>4 DEF Depth
<1>7. IsSeq(interrupted)'
  BY <1>5 DEF IsSeq
<1> QED BY <1>4, <1>6, <1>7

-----------------------------------------------------------------------------
(* The stacks.                                                             *)

\* where the stacks are
LEMMA StackFacts ==
  /\ StackWords \in Nat /\ StackWords >= 3
  /\ SVC_STACK = 1000 + 4 * StackWords
  /\ IRQ_STACK = 1000 + 16 * StackWords
  /\ USR_STACK = 1000 + 24 * StackWords
  /\ MaxDepth \in Nat /\ 5 * MaxDepth <= StackWords /\ 3 + 3 * MaxDepth <= StackWords
BY OsAssumption, StackAssumption DEF SVC_STACK, IRQ_STACK, USR_STACK, Stack

\* the words of the stacks
LEMMA SlotFacts ==
  ASSUME NEW k \in 1..StackWords
  PROVE  SVC_STACK - 4 * k \in Slots /\ IRQ_STACK - 4 * k \in Slots /\ USR_STACK - 4 * k \in Slots
BY DEF Slots

\* Words have addresses.
LEMMA SlotInt == Slots \subseteq Int
BY StackFacts DEF Slots, SVC_STACK, IRQ_STACK, USR_STACK

\* Instructions have addresses.
LEMMA AtFacts == \A k \in Int : At(k) = 32 + 4 * k
BY DEF At, Image

\* PRIOMASK is a number.
LEMMA MaskFacts ==
  ASSUME NEW m \in Masks
  PROVE  m \in Nat
BY OsAssumption DEF Masks

\* An activation within MaxDepth: there is room for what it saves.
LEMMA Room ==
  ASSUME IsSeq(interrupted), Waiting, NEW k \in 1..Depth
  PROVE  /\ Calls(interrupted) \in {0, 1} /\ Level(interrupted, k) \in Nat /\ 3 * Level(interrupted, k) + 3 <= StackWords
         /\ interrupted[k].free = {} => Level(interrupted, k) >= 1 /\ 5 * Level(interrupted, k) <= StackWords
         /\ interrupted[k].free # {} => k = 1 /\ Calls(interrupted) = 1 /\ Level(interrupted, k) = 0
<1>1. Depth \in Nat /\ k \in Nat /\ k >= 1
  BY DepthFacts
<1>2. /\ interrupted[k].free # {} => k = 1
      /\ interrupted[k].free = {} => k <= MaxDepth
  BY DEF Waiting, Waits
<1>3. Calls(interrupted) \in {0, 1}
  BY DEF Calls, Depth
<1>4. k = 1 /\ interrupted[k].free = {} => Calls(interrupted) = 0
  BY DEF Calls, Depth
<1>5. k = 1 /\ interrupted[k].free # {} => Calls(interrupted) = 1
  BY <1>1 DEF Calls, Depth
<1>6. CASE interrupted[k].free # {}
  BY <1>1, <1>2, <1>5, <1>6, StackFacts DEF Level
<1>7. CASE interrupted[k].free = {}
  <2>1. Level(interrupted, k) \in Nat /\ Level(interrupted, k) >= 1
    BY <1>1, <1>3, <1>4, <1>7 DEF Level
  <2>2. Level(interrupted, k) <= MaxDepth
    BY <1>1, <1>2, <1>3, <1>7, StackFacts DEF Level
  <2> QED BY <1>3, <1>7, <2>1, <2>2, StackFacts
<1> QED BY <1>6, <1>7

\* the stack of the application, below a context that waits
LEMMA UserStack ==
  ASSUME IsSeq(interrupted), Waiting, NEW k \in 1..Depth
  PROVE  LET u == interrupted[k].view.regs[SP] IN
         /\ u \in Int /\ u <= USR_STACK /\ IRQ_STACK <= u - 12
         /\ u - 4 \in Slots /\ u - 8 \in Slots /\ u - 12 \in Slots
<1> DEFINE u == interrupted[k].view.regs[SP]
           n == Level(interrupted, k)
<1>1. n \in Nat /\ 3 * n + 3 <= StackWords
  BY Room
<1>2. PICK w \in 0..(3 * n) : u = USR_STACK - 4 * w
  BY DEF Waiting, Waits
<1> HIDE DEF u, n
<1>3. w + 1 \in 1..StackWords /\ w + 2 \in 1..StackWords /\ w + 3 \in 1..StackWords /\ w \in Nat
  BY <1>1, StackFacts
<1>4. /\ u - 4 = USR_STACK - 4 * (w + 1) /\ u - 8 = USR_STACK - 4 * (w + 2)
      /\ u - 12 = USR_STACK - 4 * (w + 3)
  BY <1>2, <1>3, StackFacts
<1>5. u - 4 \in Slots /\ u - 8 \in Slots /\ u - 12 \in Slots
  <2>1. USR_STACK - 4 * (w + 1) \in Slots
    BY <1>3, SlotFacts
  <2>2. USR_STACK - 4 * (w + 2) \in Slots
    BY <1>3, SlotFacts
  <2>3. USR_STACK - 4 * (w + 3) \in Slots
    BY <1>3, SlotFacts
  <2> QED BY <2>1, <2>2, <2>3, <1>4
<1>6. u \in Int /\ u <= USR_STACK /\ IRQ_STACK <= u - 12
  BY <1>2, <1>3, StackFacts
<1> QED BY <1>5, <1>6 DEF u

\* the frame of an activation of irq_handler
LEMMA IrqFrame ==
  ASSUME IsSeq(interrupted), Waiting, NEW k \in 1..Depth, interrupted[k].free = {}
  PROVE  LET s == FrameTop(interrupted, k) IN
         /\ s \in Int /\ s <= IRQ_STACK /\ SVC_STACK <= s - 20
         /\ \A i \in {4, 8, 12, 16, 20} : s - i \in Slots
<1> DEFINE s == FrameTop(interrupted, k)
           n == Level(interrupted, k)
           j == 5 * (n - 1)
<1>1. n \in Nat /\ n >= 1 /\ 5 * n <= StackWords
  BY Room
<1>2. s = IRQ_STACK - 4 * j
  BY <1>1, StackFacts DEF FrameTop
<1> HIDE DEF s, n
<1>3. /\ j + 1 \in 1..StackWords /\ j + 2 \in 1..StackWords /\ j + 3 \in 1..StackWords
      /\ j + 4 \in 1..StackWords /\ j + 5 \in 1..StackWords /\ j \in Nat /\ j + 5 <= StackWords
  BY <1>1, StackFacts
<1> HIDE DEF j
<1>4. /\ s - 4 = IRQ_STACK - 4 * (j + 1) /\ s - 8 = IRQ_STACK - 4 * (j + 2)
      /\ s - 12 = IRQ_STACK - 4 * (j + 3) /\ s - 16 = IRQ_STACK - 4 * (j + 4)
      /\ s - 20 = IRQ_STACK - 4 * (j + 5)
  BY <1>2, <1>3, StackFacts
<1>5. /\ s - 4 \in Slots /\ s - 8 \in Slots /\ s - 12 \in Slots /\ s - 16 \in Slots
      /\ s - 20 \in Slots
  <2>1. IRQ_STACK - 4 * (j + 1) \in Slots
    BY <1>3, SlotFacts
  <2>2. IRQ_STACK - 4 * (j + 2) \in Slots
    BY <1>3, SlotFacts
  <2>3. IRQ_STACK - 4 * (j + 3) \in Slots
    BY <1>3, SlotFacts
  <2>4. IRQ_STACK - 4 * (j + 4) \in Slots
    BY <1>3, SlotFacts
  <2>5. IRQ_STACK - 4 * (j + 5) \in Slots
    BY <1>3, SlotFacts
  <2> QED BY <2>1, <2>2, <2>3, <2>4, <2>5, <1>4
<1>6. s \in Int /\ s <= IRQ_STACK /\ SVC_STACK <= s - 20
  BY <1>2, <1>3, StackFacts
<1>7. \A i \in {4, 8, 12, 16, 20} : s - i \in Slots
  BY <1>5
<1> QED BY <1>6, <1>7 DEF s

\* the two words that svc_handler saves
LEMMA SvcFrame == SVC_STACK - 4 \in Slots /\ SVC_STACK - 8 \in Slots /\ SVC_STACK \in Int
<1>1. 1 \in 1..StackWords /\ 2 \in 1..StackWords
  BY StackFacts
<1>2. SVC_STACK - 4 * 1 \in Slots
  BY <1>1, SlotFacts
<1>3. SVC_STACK - 4 * 2 \in Slots
  BY <1>1, SlotFacts
<1> QED BY <1>2, <1>3, StackFacts

\* The words that context c has on the stacks, on activation k, are the same
\* in N as in M.
Keeps(M, N, h, g, k, c) ==
  LET u == h[k].view.regs[SP]
      s == FrameTop(h, k)
  IN /\ g[k] = h[k]
     /\ h[k].free = {} => /\ FrameTop(g, k) = s
                          /\ \A i \in {4, 8, 12, 16, 20} : N[s - i] = M[s - i]
     /\ h[k].free # {} => \A i \in {4, 8} : N[SVC_STACK - i] = M[SVC_STACK - i]
     /\ u \in Int
     /\ \A i \in {4, 8, 12} : u - i >= c.regs[SP] => N[u - i] = M[u - i]

\* A place depends on the words of its activation only.
LEMMA OpenKept ==
  ASSUME NEW M, NEW N, NEW h, NEW g, NEW k \in Nat, NEW c, Open(M, h, k, c),
         k > 0 => Keeps(M, N, h, g, k, c)
  PROVE  Open(N, g, k, c)
<1>1. CASE k = 0
  BY <1>1 DEF Open
<1>2. CASE k > 0 /\ h[k].free = {}
  <2> DEFINE v == h[k].view
             u == v.regs[SP]
             s == FrameTop(h, k)
  <2>1. /\ g[k] = h[k] /\ FrameTop(g, k) = s
        /\ \A i \in {4, 8, 12, 16, 20} : N[s - i] = M[s - i]
        /\ u \in Int
        /\ \A i \in {4, 8, 12} : u - i >= c.regs[SP] => N[u - i] = M[u - i]
    BY <1>2 DEF Keeps
  <2>2. OpenIrq(M, v, c) /\ IrqSaved(M, s, v) /\ M[s - 20] = v.mask
    BY <1>2 DEF Open
  <2> HIDE DEF v, s
  <2>3. IrqSaved(N, s, v) /\ N[s - 20] = v.mask
    BY <2>1, <2>2 DEF IrqSaved
  <2>4. OpenIrq(N, v, c)
    <3>1. CASE c.pc \in {At(53), At(57)}
      BY <2>2, <3>1, AtFacts DEF OpenIrq
    <3>2. CASE c.pc \in {At(54), At(55), At(56), At(63)}
      BY <2>1, <2>2, <3>2, AtFacts DEF OpenIrq
    <3>3. CASE c.pc \in {At(64), At(65)}
      BY <2>1, <2>2, <3>3, AtFacts DEF OpenIrq
    <3> QED BY <2>2, <3>1, <3>2, <3>3 DEF OpenIrq
  <2> QED BY <1>2, <2>1, <2>3, <2>4 DEF Open, v, s
<1>3. CASE k > 0 /\ h[k].free # {}
  <2> DEFINE v == h[k].view
             u == v.regs[SP]
  <2>1. /\ g[k] = h[k]
        /\ \A i \in {4, 8} : N[SVC_STACK - i] = M[SVC_STACK - i]
        /\ u \in Int
        /\ \A i \in {4, 8, 12} : u - i >= c.regs[SP] => N[u - i] = M[u - i]
    BY <1>3 DEF Keeps
  <2>2. OpenSvc(M, v, c) /\ SvcSaved(M, v)
    BY <1>3 DEF Open
  <2> HIDE DEF v
  <2>3. SvcSaved(N, v)
    BY <2>1, <2>2 DEF SvcSaved
  <2>4. OpenSvc(N, v, c)
    <3>1. CASE c.pc \in {At(42), At(43)}
      BY <2>1, <2>2, <3>1, AtFacts DEF OpenSvc
    <3>2. CASE c.pc \notin {At(42), At(43)}
      BY <2>2, <3>2 DEF OpenSvc
    <3> QED BY <3>1, <3>2
  <2> QED BY <1>3, <2>1, <2>3, <2>4 DEF Open, v
<1> QED BY <1>1, <1>2, <1>3

\* Two views of the same context.
LEMMA OpenSame ==
  ASSUME NEW M, NEW h, NEW k, NEW c, NEW d, Open(M, h, k, c),
         d.pc = c.pc, d.status = c.status, d.mask = c.mask,
         \A r \in {0, 6, 7, SP, LR} : d.regs[r] = c.regs[r]
  PROVE  Open(M, h, k, d)
<1>0. /\ d.regs[0] = c.regs[0] /\ d.regs[6] = c.regs[6] /\ d.regs[7] = c.regs[7]
      /\ d.regs[SP] = c.regs[SP] /\ d.regs[LR] = c.regs[LR]
  OBVIOUS
<1>1. OpenBase(c) => OpenBase(d)
  BY <1>0 DEF OpenBase
<1>2. \A v : OpenSvc(M, v, c) => OpenSvc(M, v, d)
  BY <1>0 DEF OpenSvc
<1>3. \A v : OpenIrq(M, v, c) => OpenIrq(M, v, d)
  BY <1>0 DEF OpenIrq
<1> QED BY <1>1, <1>2, <1>3 DEF Open

\* Words from b up to t change.
Changed(b, t) == \A a \in Slots : a < b \/ a >= t => mem'[a] = mem[a]

\* none of them a word of a context that waits below activation k
Spares(k, b, t) ==
  \/ IRQ_STACK <= b /\ t <= interrupted[k].view.regs[SP]
  \/ SVC_STACK <= b /\ interrupted[k].free = {} /\ t <= FrameTop(interrupted, k)
  \/ k = 1

\* A context that waits still runs on the activation below it.
LEMMA OpenBelow ==
  ASSUME IsSeq(interrupted), Waiting, Descending,
         NEW n \in 1..Depth, NEW b \in Int, NEW t \in Int, Changed(b, t), Spares(n, b, t),
         NEW k \in 1..n, IsSeq(interrupted)', Depth' >= k - 1,
         \A i \in 1..(k - 1) : interrupted'[i] = interrupted[i]
  PROVE  Open(mem', interrupted', k - 1, interrupted[k].view)
<1> DEFINE h == interrupted
           g == interrupted'
           v == h[k].view
<1>1. Depth \in Nat /\ Depth' \in Nat /\ Len(g) = Depth' /\ Len(h) = Depth /\ k \in 1..Depth
  <2>1. Depth \in Nat
    BY DepthFacts
  <2>2. Depth' \in Nat
    BY LenProperties DEF IsSeq, Depth
  <2> QED BY <2>1, <2>2 DEF Depth
<1>2. Waits(mem, h, k)
  BY <1>1 DEF Waiting
<1>3. Open(mem, h, k - 1, v)
  BY <1>2 DEF Waits
<1>4. Calls(h) \in {0, 1}
  BY DEF Calls
<1>5. CASE k = 1
  BY <1>5, <1>3 DEF Open
<1>6. CASE k > 1
  <2> DEFINE j == k - 1
             u == h[j].view.regs[SP]
             s == FrameTop(h, j)
  <2>1. j \in 1..Depth /\ j \in Nat /\ j > 0 /\ j < k /\ j < n
    BY <1>6, <1>1
  <2>2. u \in Int /\ u <= USR_STACK /\ IRQ_STACK <= u - 12
        /\ u - 4 \in Slots /\ u - 8 \in Slots /\ u - 12 \in Slots
    BY <2>1, UserStack
  <2>3. /\ interrupted[n].view.regs[SP] \in Int /\ v.regs[SP] \in Int
        /\ interrupted[n].view.regs[SP] <= v.regs[SP]
    <3>1. interrupted[n].view.regs[SP] \in Int /\ v.regs[SP] \in Int
      BY <1>1, UserStack
    <3>2. interrupted[n].view.regs[SP] <= v.regs[SP]
      BY <1>1, <3>1 DEF Descending
    <3> QED BY <3>1, <3>2
  <2>4. b >= SVC_STACK /\ n # 1
    <3>1. n # 1
      BY <1>6, <1>1
    <3> QED BY <3>1, StackFacts DEF Spares
  <2>5. ASSUME h[j].free = {}, NEW i \in {4, 8, 12, 16, 20} PROVE mem'[s - i] = mem[s - i]
    <3>1. /\ s \in Int /\ s <= IRQ_STACK /\ s - i \in Slots
      BY <2>1, <2>5, IrqFrame
    <3>2. CASE IRQ_STACK <= b
      BY <3>1, <3>2, StackFacts DEF Changed
    <3>3. CASE interrupted[n].free = {} /\ t <= FrameTop(interrupted, n)
      <4>1. FrameTop(interrupted, n) <= s - 20
        BY <1>4, <2>1, StackFacts DEF FrameTop, Level
      <4>2. FrameTop(interrupted, n) \in Int
        BY <1>4, <1>1, StackFacts DEF FrameTop, Level
      <4>3. s - i >= t
        BY <3>1, <3>3, <4>1, <4>2
      <4> QED BY <3>1, <4>3 DEF Changed
    <3> QED BY <2>4, <3>2, <3>3 DEF Spares
  <2>6. \A i \in {4, 8} : mem'[SVC_STACK - i] = mem[SVC_STACK - i]
    <3>1. SVC_STACK - 4 < b /\ SVC_STACK - 8 < b
      BY <2>4, StackFacts
    <3> QED BY <3>1, SvcFrame DEF Changed
  <2>7. ASSUME NEW i \in {4, 8, 12}, u - i >= v.regs[SP] PROVE mem'[u - i] = mem[u - i]
    <3>1. u - i \in Slots /\ u - i >= IRQ_STACK /\ u - i \in Int
      BY <2>2, StackFacts
    <3>2. CASE t <= interrupted[n].view.regs[SP]
      <4>1. u - i >= t
        BY <3>1, <3>2, <2>3, <2>7
      <4> QED BY <3>1, <4>1 DEF Changed
    <3>3. CASE interrupted[n].free = {} /\ t <= FrameTop(interrupted, n)
      <4>1. FrameTop(interrupted, n) <= IRQ_STACK /\ FrameTop(interrupted, n) \in Int
        BY <3>3, IrqFrame
      <4>2. u - i >= t
        BY <3>1, <3>3, <4>1, StackFacts
      <4> QED BY <3>1, <4>2 DEF Changed
    <3> QED BY <2>4, <3>2, <3>3 DEF Spares
  <2>8. g[j] = h[j] /\ FrameTop(g, j) = s
    <3>1. Len(g) > 0 /\ Len(h) > 0 /\ g[j] = h[j] /\ g[1] = h[1]
      BY <1>1, <1>6, <2>1
    <3>2. Calls(g) = Calls(h)
      BY <3>1 DEF Calls
    <3> QED BY <3>1, <3>2 DEF Level, FrameTop
  <2> HIDE DEF j, s
  <2>9. Open(mem, h, j, v)
    BY <1>3 DEF j
  <2>10. Open(mem', g, j, v)
    <3>1. Keeps(mem, mem', h, g, j, v)
      BY <2>2, <2>5, <2>6, <2>7, <2>8 DEF s, Keeps
    <3> HIDE DEF v, g, h
    <3> QED BY <2>1, <2>9, <3>1, OpenKept
  <2> QED BY <2>10 DEF j
<1> QED BY <1>1, <1>5, <1>6

\* A context below activation n waits on, whatever n does to its own words.
LEMMA WaitsKept ==
  ASSUME IsSeq(interrupted), Waiting, Descending,
         NEW n \in 1..Depth, NEW b \in Int, NEW t \in Int, Changed(b, t), Spares(n, b, t),
         NEW k \in 1..n, IsSeq(interrupted)', Depth' >= k,
         interrupted[k].free = Und => Depth' = 1,
         \A i \in 1..k : interrupted'[i] = interrupted[i]
  PROVE  Waits(mem', interrupted', k) /\ Level(interrupted', k) = Level(interrupted, k)
<1> DEFINE h == interrupted
           g == interrupted'
           v == h[k].view
<1>1. Depth \in Nat /\ Depth' \in Nat /\ Len(g) = Depth' /\ Len(h) = Depth /\ k \in 1..Depth
  <2>1. Depth \in Nat
    BY DepthFacts
  <2>2. Depth' \in Nat
    BY LenProperties DEF IsSeq, Depth
  <2> QED BY <2>1, <2>2 DEF Depth
<1>2. g[1] = h[1] /\ g[k] = h[k] /\ (k > 1 => g[k - 1] = h[k - 1])
  BY <1>1
<1>3. Calls(g) = Calls(h) /\ Calls(h) \in {0, 1}
  <2>1. Len(g) > 0 /\ Len(h) > 0
    BY <1>1
  <2> QED BY <1>2, <2>1 DEF Calls
<1>4. Level(g, k) = Level(h, k) /\ FrameTop(g, k - 1) = FrameTop(h, k - 1)
  BY <1>3 DEF Level, FrameTop
<1>5. Waits(mem, h, k)
  BY <1>1 DEF Waiting
<1>7. Open(mem', g, k - 1, v)
  <2>1. Depth' >= k - 1 /\ \A i \in 1..(k - 1) : interrupted'[i] = interrupted[i]
    BY <1>1
  <2> QED BY <2>1, OpenBelow
<1>8. h[k].free = Und => Len(g) = 1
  BY <1>1
<1> QED BY <1>2, <1>4, <1>5, <1>7, <1>8 DEF Waits

-----------------------------------------------------------------------------
(* Steps that neither take an exception nor return from one.               *)

\* A step that leaves the contexts alone and writes words the innermost one spares.
LEMMA InnerMem ==
  ASSUME Contexts, IsCore(core'), UNCHANGED interrupted, mem' = [a \in Slots |-> mem'[a]],
         \A r \in GPR \ {0, 6, 7} : core'.RB[r] = 0,
         NEW b \in Int, NEW t \in Int, Changed(b, t), Depth > 0 => Spares(Depth, b, t)
  PROVE  Contexts'
<1>1. IsSeq(interrupted) /\ Waiting /\ Descending
  BY DEF Contexts, Types
<1>2. Depth \in Nat /\ Depth' = Depth /\ IsSeq(interrupted)'
  BY <1>1, DepthFacts DEF Depth, IsSeq
<1>3. Types'
  BY <1>2 DEF Types
<1>4. Descending'
  BY <1>1, <1>2 DEF Descending
<1>5. ASSUME NEW k \in 1..Depth PROVE Waits(mem', interrupted', k)
  <2>1. Depth \in 1..Depth /\ Spares(Depth, b, t) /\ Depth' >= k
    BY <1>2
  <2>2. interrupted[k].free = Und => Depth' = 1
    BY <1>1, <1>2 DEF Waiting, Waits, Depth
  <2>3. \A i \in 1..k : interrupted'[i] = interrupted[i]
    OBVIOUS
  <2> QED BY <1>1, <1>2, <2>1, <2>2, <2>3, WaitsKept
<1> QED BY <1>2, <1>3, <1>4, <1>5 DEF Contexts, Waiting

\* the same when it writes none
LEMMA Inner ==
  ASSUME Contexts, IsCore(core'), UNCHANGED <<interrupted, mem>>,
         \A r \in GPR \ {0, 6, 7} : core'.RB[r] = 0
  PROVE  Contexts'
<1>1. Depth' = Depth
  BY DEF Depth
<1>2. Types'
  BY DEF Contexts, Types, IsSeq
<1>3. Waiting' /\ Descending'
  BY <1>1 DEF Contexts, Waiting, Descending
<1> QED BY <1>2, <1>3 DEF Contexts

\* The registers that no instruction of the image names.
LEMMA OtherRegisters ==
  ASSUME NEW r \in GPR \ {0, 6, 7}
  PROVE  r \in Regs /\ r # 0 /\ r # 6 /\ r # 7 /\ r # SP /\ r # LR
BY RegisterFacts DEF Regs, Registers

-----------------------------------------------------------------------------
(* A step by the instruction it executes.                                  *)

Idle == UNCHANGED <<interrupted, mem, priomask, line, configured>>

\* B
LEMMA DoB ==
  ASSUME IsCore(core), step, NEW to, Instr = branch(to)
  PROVE  Jumped(core', to) /\ Idle
<1>1. exec_b
  BY Executes DEF branch
<1>2. core' = B(now, to) /\ Idle
  BY <1>1 DEF exec_b, branch, Becomes, Unmoved, Idle
<1> QED BY <1>2, CoreB

\* LDR of a constant
LEMMA DoLdr ==
  ASSUME IsCore(core), step, NEW r \in Regs, NEW x, Instr = ldr(r, x)
  PROVE  Moved(core', r, x) /\ Idle
<1>1. exec_ldr
  BY Executes DEF ldr
<1>2. core' = MOV(now, r, x) /\ Idle
  BY <1>1 DEF exec_ldr, ldr, Becomes, Unmoved, Idle
<1> QED BY <1>2, CoreMov

\* MSR CPSR_c of a constant, in a privileged mode
LEMMA DoMsr ==
  ASSUME IsCore(core), step, NEW s \in Controls, core.mode # USER_MODE, Instr = msr(s)
  PROVE  Switched(core', s) /\ Idle
<1>1. exec_msr
  BY Executes DEF msr
<1>2. core' = MSR_CPSR(now, s, TRUE, FALSE) /\ Idle
  BY <1>1 DEF exec_msr, msr, Becomes, Unmoved, Idle
<1> QED BY <1>2, CoreMsr

\* BLX
LEMMA DoBlx ==
  ASSUME IsCore(core), step, NEW rm \in {0, 6, 7}, core.mode \in {USER_MODE, SYSTEM_MODE},
         Instr = [op |-> "blx", rm |-> rm]
  PROVE  Linked(core', rm) /\ Idle
<1>1. exec_blx
  BY Executes
<1>2. core' = BLX2(now, rm) /\ Idle
  BY <1>1 DEF exec_blx, Becomes, Unmoved, Idle
<1> QED BY <1>2, CoreBlx

-----------------------------------------------------------------------------
(* reset_handler.                                                          *)

\* Every instruction until the interrupts are configured.
LEMMA ResetStep ==
  ASSUME Contexts, interrupted = <<>>, priomask = 0, configured = FALSE, ResetPlace(core), step
  PROVE  Contexts' /\ Running'
<1> USE DEF USER_MODE, FIQ_MODE, IRQ_MODE, SUPERVISOR_MODE, ABORT_MODE, UNDEFINED_MODE,
            SYSTEM_MODE
<1>1. IsCore(core) /\ \A r \in GPR \ {0, 6, 7} : core.RB[r] = 0
  BY DEF Contexts, Types
<1>2. SP \in Regs /\ 0 \in Regs /\ 0 # SP /\ 0 \notin Banked(core.mode)
  BY <1>1, RegisterFacts, BankedFacts DEF Regs, IsCore
<1>3. /\ core.mode \in ExceptionModes => SP \in Banked(core.mode)
      /\ core.mode = SYSTEM_MODE => SP \notin Banked(core.mode)
      /\ SP \in Banked(SUPERVISOR_MODE) /\ SP \in Banked(IRQ_MODE)
      /\ SUPERVISOR_MODE \in ExceptionModes /\ IRQ_MODE \in ExceptionModes
  BY BankedFacts DEF ExceptionModes
<1>4. ASSUME Idle, ResetPlace(core'), IsCore(core'), \A r \in Regs \ {0, SP} : core'.RB[r] = core.RB[r]
      PROVE  Contexts' /\ Running'
  <2>1. \A r \in GPR \ {0, 6, 7} : core'.RB[r] = 0
    BY <1>1, <1>4, OtherRegisters
  <2>2. Contexts'
    BY <1>4, <2>1, Inner DEF Idle
  <2>3. Running'
    BY <1>4 DEF Running, Idle
  <2> QED BY <2>2, <2>3
<1>5. CASE pc = At(0) /\ core.mode = SUPERVISOR_MODE
  <2>1. Instr = branch(At(8))
    BY <1>5, ResetCode DEF reset_handler
  <2>2. Jumped(core', At(8)) /\ Idle
    BY <1>1, <2>1, DoB
  <2>3. ResetPlace(core')
    BY <1>5, <2>2 DEF Jumped, Goes, Same, ResetPlace
  <2> QED BY <1>4, <2>2, <2>3 DEF Jumped, Goes, Same
<1>6. CASE pc = At(8) /\ core.mode = SUPERVISOR_MODE
  <2>1. Instr = ldr(SP, SVC_STACK)
    BY <1>6, ResetCode
  <2>2. Moved(core', SP, SVC_STACK) /\ Idle
    BY <1>1, <1>2, <2>1, DoLdr
  <2>3. /\ core'.ac_pc = At(9) /\ core'.mode = core.mode /\ IsCore(core') /\ core'.VBAR = core.VBAR
    BY <1>6, <2>2 DEF Moved, Goes, Same, At, Image, pc
  <2>4. /\ core'.RB[SP] = core.RB[SP] /\ core'.bank[core.mode][SP] = SVC_STACK
        /\ core.mode # SUPERVISOR_MODE => svcSP(core') = svcSP(core)
        /\ core.mode # IRQ_MODE => irqSP(core') = irqSP(core)
    BY <1>6, <1>2, <1>3, <2>2 DEF Moved, svcSP, irqSP, ExceptionModes
  <2>5. ResetPlace(core')
    BY <1>6, <2>3, <2>4 DEF ResetPlace, svcSP, irqSP, At, Image, pc
  <2>6. \A r \in Regs \ {0, SP} : core'.RB[r] = core.RB[r]
    BY <1>6, <1>2, <1>3, <2>2 DEF Moved, ExceptionModes
  <2> QED BY <1>4, <2>2, <2>3, <2>5, <2>6
<1>7. CASE pc = At(9) /\ core.mode = SUPERVISOR_MODE
  <2>1. Instr = msr(223) /\ 223 \in Controls
    BY <1>7, ResetCode DEF Controls
  <2>2. Switched(core', 223) /\ Idle
    BY <1>7, <1>1, <2>1, DoMsr
  <2>3. /\ core'.ac_pc = At(10) /\ core'.mode = 31 /\ core'.bank = core.bank /\ core'.VBAR = core.VBAR
        /\ \A r \in Regs : core'.RB[r] = core.RB[r]
        /\ IsCore(core') /\ Status(core') = 223
    BY <1>7, <2>2 DEF Switched, At, Image, pc
  <2>4. ResetPlace(core')
    BY <1>7, <1>2, <2>3 DEF ResetPlace, svcSP, irqSP, At, Image, pc
  <2> QED BY <1>4, <2>2, <2>3, <2>4
<1>8. CASE pc = At(10) /\ core.mode = SYSTEM_MODE
  <2>1. Instr = ldr(SP, USR_STACK)
    BY <1>8, ResetCode
  <2>2. Moved(core', SP, USR_STACK) /\ Idle
    BY <1>1, <1>2, <2>1, DoLdr
  <2>3. /\ core'.ac_pc = At(11) /\ core'.mode = core.mode /\ IsCore(core') /\ core'.VBAR = core.VBAR
    BY <1>8, <2>2 DEF Moved, Goes, Same, At, Image, pc
  <2>4. core'.RB[SP] = USR_STACK /\ core'.bank = core.bank
    BY <1>8, <1>2, <1>3, <2>2 DEF Moved
  <2>5. ResetPlace(core')
    BY <1>8, <2>3, <2>4 DEF ResetPlace, svcSP, irqSP, At, Image, pc
  <2>6. \A r \in Regs \ {0, SP} : core'.RB[r] = core.RB[r]
    BY <1>8, <1>2, <1>3, <2>2 DEF Moved, ExceptionModes
  <2> QED BY <1>4, <2>2, <2>3, <2>5, <2>6
<1>9. CASE pc = At(11) /\ core.mode = SYSTEM_MODE
  <2>1. Instr = msr(209) /\ 209 \in Controls
    BY <1>9, ResetCode DEF Controls
  <2>2. Switched(core', 209) /\ Idle
    BY <1>9, <1>1, <2>1, DoMsr
  <2>3. /\ core'.ac_pc = At(12) /\ core'.mode = 17 /\ core'.bank = core.bank /\ core'.VBAR = core.VBAR
        /\ \A r \in Regs : core'.RB[r] = core.RB[r]
        /\ IsCore(core') /\ Status(core') = 209
    BY <1>9, <2>2 DEF Switched, At, Image, pc
  <2>4. ResetPlace(core')
    BY <1>9, <1>2, <2>3 DEF ResetPlace, svcSP, irqSP, At, Image, pc
  <2> QED BY <1>4, <2>2, <2>3, <2>4
<1>10. CASE pc = At(12) /\ core.mode = FIQ_MODE
  <2>1. Instr = ldr(SP, FIQ_STACK)
    BY <1>10, ResetCode
  <2>2. Moved(core', SP, FIQ_STACK) /\ Idle
    BY <1>1, <1>2, <2>1, DoLdr
  <2>3. /\ core'.ac_pc = At(13) /\ core'.mode = core.mode /\ IsCore(core') /\ core'.VBAR = core.VBAR
    BY <1>10, <2>2 DEF Moved, Goes, Same, At, Image, pc
  <2>4. /\ core'.RB[SP] = core.RB[SP] /\ core'.bank[core.mode][SP] = FIQ_STACK
        /\ core.mode # SUPERVISOR_MODE => svcSP(core') = svcSP(core)
        /\ core.mode # IRQ_MODE => irqSP(core') = irqSP(core)
    BY <1>10, <1>2, <1>3, <2>2 DEF Moved, svcSP, irqSP, ExceptionModes
  <2>5. ResetPlace(core')
    BY <1>10, <2>3, <2>4 DEF ResetPlace, svcSP, irqSP, At, Image, pc
  <2>6. \A r \in Regs \ {0, SP} : core'.RB[r] = core.RB[r]
    BY <1>10, <1>2, <1>3, <2>2 DEF Moved, ExceptionModes
  <2> QED BY <1>4, <2>2, <2>3, <2>5, <2>6
<1>11. CASE pc = At(13) /\ core.mode = FIQ_MODE
  <2>1. Instr = msr(210) /\ 210 \in Controls
    BY <1>11, ResetCode DEF Controls
  <2>2. Switched(core', 210) /\ Idle
    BY <1>11, <1>1, <2>1, DoMsr
  <2>3. /\ core'.ac_pc = At(14) /\ core'.mode = 18 /\ core'.bank = core.bank /\ core'.VBAR = core.VBAR
        /\ \A r \in Regs : core'.RB[r] = core.RB[r]
        /\ IsCore(core') /\ Status(core') = 210
    BY <1>11, <2>2 DEF Switched, At, Image, pc
  <2>4. ResetPlace(core')
    BY <1>11, <1>2, <2>3 DEF ResetPlace, svcSP, irqSP, At, Image, pc
  <2> QED BY <1>4, <2>2, <2>3, <2>4
<1>12. CASE pc = At(14) /\ core.mode = IRQ_MODE
  <2>1. Instr = ldr(SP, IRQ_STACK)
    BY <1>12, ResetCode
  <2>2. Moved(core', SP, IRQ_STACK) /\ Idle
    BY <1>1, <1>2, <2>1, DoLdr
  <2>3. /\ core'.ac_pc = At(15) /\ core'.mode = core.mode /\ IsCore(core') /\ core'.VBAR = core.VBAR
    BY <1>12, <2>2 DEF Moved, Goes, Same, At, Image, pc
  <2>4. /\ core'.RB[SP] = core.RB[SP] /\ core'.bank[core.mode][SP] = IRQ_STACK
        /\ core.mode # SUPERVISOR_MODE => svcSP(core') = svcSP(core)
        /\ core.mode # IRQ_MODE => irqSP(core') = irqSP(core)
    BY <1>12, <1>2, <1>3, <2>2 DEF Moved, svcSP, irqSP, ExceptionModes
  <2>5. ResetPlace(core')
    BY <1>12, <2>3, <2>4 DEF ResetPlace, svcSP, irqSP, At, Image, pc
  <2>6. \A r \in Regs \ {0, SP} : core'.RB[r] = core.RB[r]
    BY <1>12, <1>2, <1>3, <2>2 DEF Moved, ExceptionModes
  <2> QED BY <1>4, <2>2, <2>3, <2>5, <2>6
<1>13. CASE pc = At(15) /\ core.mode = IRQ_MODE
  <2>1. Instr = msr(215) /\ 215 \in Controls
    BY <1>13, ResetCode DEF Controls
  <2>2. Switched(core', 215) /\ Idle
    BY <1>13, <1>1, <2>1, DoMsr
  <2>3. /\ core'.ac_pc = At(16) /\ core'.mode = 23 /\ core'.bank = core.bank /\ core'.VBAR = core.VBAR
        /\ \A r \in Regs : core'.RB[r] = core.RB[r]
        /\ IsCore(core') /\ Status(core') = 215
    BY <1>13, <2>2 DEF Switched, At, Image, pc
  <2>4. ResetPlace(core')
    BY <1>13, <1>2, <2>3 DEF ResetPlace, svcSP, irqSP, At, Image, pc
  <2> QED BY <1>4, <2>2, <2>3, <2>4
<1>14. CASE pc = At(16) /\ core.mode = ABORT_MODE
  <2>1. Instr = ldr(SP, ABT_STACK)
    BY <1>14, InitCode
  <2>2. Moved(core', SP, ABT_STACK) /\ Idle
    BY <1>1, <1>2, <2>1, DoLdr
  <2>3. /\ core'.ac_pc = At(17) /\ core'.mode = core.mode /\ IsCore(core') /\ core'.VBAR = core.VBAR
    BY <1>14, <2>2 DEF Moved, Goes, Same, At, Image, pc
  <2>4. /\ core'.RB[SP] = core.RB[SP] /\ core'.bank[core.mode][SP] = ABT_STACK
        /\ core.mode # SUPERVISOR_MODE => svcSP(core') = svcSP(core)
        /\ core.mode # IRQ_MODE => irqSP(core') = irqSP(core)
    BY <1>14, <1>2, <1>3, <2>2 DEF Moved, svcSP, irqSP, ExceptionModes
  <2>5. ResetPlace(core')
    BY <1>14, <2>3, <2>4 DEF ResetPlace, svcSP, irqSP, At, Image, pc
  <2>6. \A r \in Regs \ {0, SP} : core'.RB[r] = core.RB[r]
    BY <1>14, <1>2, <1>3, <2>2 DEF Moved, ExceptionModes
  <2> QED BY <1>4, <2>2, <2>3, <2>5, <2>6
<1>15. CASE pc = At(17) /\ core.mode = ABORT_MODE
  <2>1. Instr = msr(219) /\ 219 \in Controls
    BY <1>15, InitCode DEF Controls
  <2>2. Switched(core', 219) /\ Idle
    BY <1>15, <1>1, <2>1, DoMsr
  <2>3. /\ core'.ac_pc = At(18) /\ core'.mode = 27 /\ core'.bank = core.bank /\ core'.VBAR = core.VBAR
        /\ \A r \in Regs : core'.RB[r] = core.RB[r]
        /\ IsCore(core') /\ Status(core') = 219
    BY <1>15, <2>2 DEF Switched, At, Image, pc
  <2>4. ResetPlace(core')
    BY <1>15, <1>2, <2>3 DEF ResetPlace, svcSP, irqSP, At, Image, pc
  <2> QED BY <1>4, <2>2, <2>3, <2>4
<1>16. CASE pc = At(18) /\ core.mode = UNDEFINED_MODE
  <2>1. Instr = ldr(SP, UND_STACK)
    BY <1>16, InitCode
  <2>2. Moved(core', SP, UND_STACK) /\ Idle
    BY <1>1, <1>2, <2>1, DoLdr
  <2>3. /\ core'.ac_pc = At(19) /\ core'.mode = core.mode /\ IsCore(core') /\ core'.VBAR = core.VBAR
    BY <1>16, <2>2 DEF Moved, Goes, Same, At, Image, pc
  <2>4. /\ core'.RB[SP] = core.RB[SP] /\ core'.bank[core.mode][SP] = UND_STACK
        /\ core.mode # SUPERVISOR_MODE => svcSP(core') = svcSP(core)
        /\ core.mode # IRQ_MODE => irqSP(core') = irqSP(core)
    BY <1>16, <1>2, <1>3, <2>2 DEF Moved, svcSP, irqSP, ExceptionModes
  <2>5. ResetPlace(core')
    BY <1>16, <2>3, <2>4 DEF ResetPlace, svcSP, irqSP, At, Image, pc
  <2>6. \A r \in Regs \ {0, SP} : core'.RB[r] = core.RB[r]
    BY <1>16, <1>2, <1>3, <2>2 DEF Moved, ExceptionModes
  <2> QED BY <1>4, <2>2, <2>3, <2>5, <2>6
<1>17. CASE pc = At(19) /\ core.mode = UNDEFINED_MODE
  <2>1. Instr = ldr(0, Image)
    BY <1>17, InitCode
  <2>2. Moved(core', 0, Image) /\ Idle
    BY <1>1, <1>2, <2>1, DoLdr
  <2>3. /\ core'.ac_pc = At(20) /\ core'.mode = core.mode /\ IsCore(core') /\ core'.VBAR = core.VBAR
    BY <1>17, <2>2 DEF Moved, Goes, Same, At, Image, pc
  <2>4. core'.RB[SP] = core.RB[SP] /\ core'.RB[0] = Image /\ core'.bank = core.bank
    BY <1>2, <2>2 DEF Moved
  <2>5. ResetPlace(core')
    BY <1>17, <2>3, <2>4 DEF ResetPlace, svcSP, irqSP, At, Image, pc
  <2>6. \A r \in Regs \ {0, SP} : core'.RB[r] = core.RB[r]
    BY <1>2, <2>2 DEF Moved
  <2> QED BY <1>4, <2>2, <2>3, <2>5, <2>6
<1>18. CASE pc = At(20) /\ core.mode = UNDEFINED_MODE
  <2>1. Instr = I("mcr")
    BY <1>18, InitCode
  <2>2. exec_mcr
    BY <2>1, Executes DEF I
  <2>3. core' = MCR_VBAR(now, 0) /\ Idle
    BY <2>2 DEF exec_mcr, Becomes, Unmoved, Idle
  <2>4. /\ IsCore(core') /\ core'.mode = core.mode /\ core'.bank = core.bank
        /\ core'.VBAR = core.RB[0] /\ core'.ac_pc = At(21)
        /\ \A q \in Regs : core'.RB[q] = core.RB[q]
    BY <1>18, <1>1, <2>3, CoreMcr DEF At, Image, pc
  <2>5. ResetPlace(core')
    BY <1>18, <1>2, <2>4 DEF ResetPlace, svcSP, irqSP, At, Image, pc
  <2> QED BY <1>4, <2>3, <2>4, <2>5
<1>19. CASE pc = At(21) /\ core.mode = UNDEFINED_MODE
  <2>1. Instr = msr(31) /\ 31 \in Controls
    BY <1>19, InitCode DEF Controls
  <2>2. Switched(core', 31) /\ Idle
    BY <1>19, <1>1, <2>1, DoMsr
  <2>3. /\ core'.ac_pc = At(22) /\ core'.mode = 31 /\ core'.bank = core.bank /\ core'.VBAR = core.VBAR
        /\ \A r \in Regs : core'.RB[r] = core.RB[r]
        /\ IsCore(core') /\ Status(core') = 31
    BY <1>19, <2>2 DEF Switched, At, Image, pc
  <2>4. ResetPlace(core')
    BY <1>19, <1>2, <2>3 DEF ResetPlace, svcSP, irqSP, At, Image, pc
  <2> QED BY <1>4, <2>2, <2>3, <2>4
<1>20. CASE pc = At(22) /\ core.mode = SYSTEM_MODE
  <2>1. Instr = branch(At(24))
    BY <1>20, InitCode DEF system_init
  <2>2. Jumped(core', At(24)) /\ Idle
    BY <1>1, <2>1, DoB
  <2>3. Status(core') = Status(core) /\ svcSP(core') = svcSP(core) /\ irqSP(core') = irqSP(core)
    BY <2>2 DEF Jumped, Goes, Same, Status, svcSP, irqSP
  <2>4. ResetPlace(core')
    BY <1>20, <1>2, <2>2, <2>3 DEF Jumped, Goes, Same, ResetPlace, At, Image, pc
  <2> QED BY <1>4, <2>2, <2>4 DEF Jumped, Goes, Same
<1>21. CASE pc = At(24) /\ core.mode = SYSTEM_MODE
  <2>1. Instr = I("configure")
    BY <1>21, InitCode
  <2>2. exec_configure
    BY <2>1, Executes DEF I
  <2>3. /\ core' = MOV(now, 0, 1) /\ configured' = TRUE /\ UNCHANGED <<interrupted, mem, priomask>>
    BY <2>2 DEF exec_configure, Becomes
  <2>4. Moved(core', 0, 1)
    BY <1>1, <1>2, <2>3, CoreMov
  <2>5. /\ core'.ac_pc = At(25) /\ IsCore(core') /\ core'.VBAR = core.VBAR
        /\ Status(core') = Status(core) /\ core'.bank = core.bank /\ core'.RB[SP] = core.RB[SP]
    BY <1>21, <1>2, <2>4 DEF Moved, Goes, Same, Status, At, Image, pc
  <2>6. /\ Status(core) = 31 /\ svcSP(core) = SVC_STACK /\ irqSP(core) = IRQ_STACK
        /\ core.RB[SP] = USR_STACK /\ core.VBAR = Image
    BY <1>21 DEF ResetPlace, At, Image, pc
  <2>7. \A r \in GPR \ {0, 6, 7} : core'.RB[r] = 0
    BY <1>1, <1>2, <2>4, OtherRegisters DEF Moved
  <2>8. Contexts'
    BY <2>3, <2>5, <2>7, Inner
  <2>9. Len(<<>>) = 0 /\ Calls(<<>>) = 0 /\ Level(<<>>, 0) = 0
    BY EmptySeq, NoCalls
  <2>10. OpenBase(Context(core', 0))
    BY <1>2, <2>5, <2>6 DEF OpenBase, Context, Regs, At, Image
  <2>11. RunsOpen(core', mem', <<>>, 0)
    BY <2>5, <2>6, <2>9, <2>10, StackFacts DEF RunsOpen, Open, svcSP, irqSP
  <2> QED BY <2>3, <2>5, <2>6, <2>8, <2>11 DEF Running
<1>22. \/ core.mode = SUPERVISOR_MODE /\ pc \in {At(0), At(8), At(9)}
       \/ core.mode = SYSTEM_MODE /\ pc \in {At(10), At(11), At(22), At(24)}
       \/ core.mode = FIQ_MODE /\ pc \in {At(12), At(13)}
       \/ core.mode = IRQ_MODE /\ pc \in {At(14), At(15)}
       \/ core.mode = ABORT_MODE /\ pc \in {At(16), At(17)}
       \/ core.mode = UNDEFINED_MODE /\ pc \in {At(18), At(19), At(20), At(21)}
  BY <1>1, StatusFacts DEF ResetPlace, pc
<1> QED BY <1>5, <1>6, <1>7, <1>8, <1>9, <1>10, <1>11, <1>12, <1>13, <1>14, <1>15, <1>16, <1>17, <1>18, <1>19, <1>20, <1>21, <1>22

-----------------------------------------------------------------------------
(* Taking an exception and returning from one.                             *)

\* the fields of a context
LEMMA ContextFacts ==
  ASSUME NEW c, NEW m
  PROVE  LET x == Context(c, m) IN
         /\ x.pc = c.ac_pc /\ x.status = Status(c) /\ x.flags = c.flags /\ x.mask = m
         /\ \A r \in Regs : x.regs[r] = c.RB[r]
         /\ 0 \in Regs /\ 6 \in Regs /\ 7 \in Regs /\ SP \in Regs /\ LR \in Regs
BY RegisterFacts DEF Context, Regs

\* In user and system mode the view is the context.
LEMMA ViewFacts ==
  ASSUME NEW c, IsCore(c), c.mode \in {USER_MODE, SYSTEM_MODE}, NEW m
  PROVE  LET x == View(c, m) IN
         /\ x.pc = c.ac_pc /\ x.status = Status(c) /\ x.flags = c.flags /\ x.mask = m
         /\ \A r \in Regs : x.regs[r] = c.RB[r]
         /\ Word(x) = Status(c) + 256 * c.flags
<1>1. CPSRBuild(c) % 256 = Status(c)
  BY StatusFacts
<1>2. \A r \in Regs : bypass_read(c, r) = c.RB[r]
  BY BankedFacts DEF bypass_read
<1> QED BY <1>1, <1>2 DEF View, Word, Regs

\* the modes that are open to interrupts
LEMMA OpenMode ==
  ASSUME NEW c, IsCore(c), Status(c) \in {16, 31, 63}
  PROVE  /\ c.mode \in {USER_MODE, SYSTEM_MODE} /\ ~c.irq
         /\ c.mode = USER_MODE <=> Status(c) = 16
BY StatusFacts DEF USER_MODE, SYSTEM_MODE

\* what is common to the contexts on activation k
LEMMA OpenShape ==
  ASSUME IsSeq(interrupted), Waiting, NEW c, Open(mem, interrupted, Depth, c),
         Depth > 0 => interrupted[Depth].free # Und
  PROVE  /\ c.status \in {16, 31, 63} /\ c.mask \in Masks
         /\ Depth = 0 => c.regs[SP] = USR_STACK /\ c.mask = 0
         /\ Depth > 0 => LET v == interrupted[Depth].view IN
              /\ c.status # 16
              /\ c.regs[SP] \in {v.regs[SP], v.regs[SP] - 4, v.regs[SP] - 8, v.regs[SP] - 12}
              /\ interrupted[Depth].free # {} => c.mask = 0 /\ Depth = 1
<1>1. Depth \in Nat
  BY DepthFacts
<1>2. CASE Depth = 0
  BY <1>2 DEF Open, OpenBase, Masks
<1>3. CASE Depth > 0
  <2>1. Waits(mem, interrupted, Depth)
    BY <1>1, <1>3 DEF Waiting
  <2>2. CASE interrupted[Depth].free = {}
    BY <1>3, <2>2 DEF Open, OpenIrq
  <2>3. CASE interrupted[Depth].free # {}
    <3>1. OpenSvc(mem, interrupted[Depth].view, c)
      BY <1>3, <2>3 DEF Open
    <3>2. Depth = 1
      BY <2>1, <2>3 DEF Waits
    <3> QED BY <1>3, <2>3, <3>1, <3>2 DEF OpenSvc, Masks
  <2> QED BY <2>2, <2>3
<1> QED BY <1>1, <1>2, <1>3

\* Context c, open to interrupts, joins the contexts that wait.
LEMMA TakeContexts ==
  ASSUME Contexts, NEW c, IsCore(c), Open(mem, interrupted, Depth, Context(c, priomask)),
         Depth > 0 => interrupted[Depth].free # Und,
         \A r \in GPR \ {0, 6, 7} : c.RB[r] = 0,
         NEW f \in {{}, Svc, Und},
         f # {} => Depth = 0 /\ Status(c) = 16 /\ c.ac_pc = At(67),
         f = {} => Depth < MaxDepth,
         interrupted' = Append(interrupted, [view |-> View(c, priomask), free |-> f]),
         UNCHANGED mem, IsCore(core'), core'.RB = c.RB
  PROVE  /\ Contexts' /\ Depth' = Depth + 1
         /\ interrupted'[Depth'] = [view |-> View(c, priomask), free |-> f]
         /\ Depth > 0 => Calls(interrupted') = Calls(interrupted)
         /\ Depth = 0 => Calls(interrupted') = IF f = {} THEN 0 ELSE 1
         /\ Calls(interrupted) \in {0, 1}
<1> DEFINE h == interrupted
           g == interrupted'
           x == Context(c, priomask)
           v == View(c, priomask)
           e == [view |-> v, free |-> f]
<1>1. IsSeq(h) /\ Waiting /\ Descending /\ Depth \in Nat
  BY DepthFacts DEF Contexts, Types
<1>2. /\ IsSeq(interrupted)' /\ Depth' = Depth + 1 /\ g[Depth + 1] = e
      /\ \A k \in 1..Depth : g[k] = h[k]
  <2>1. g = Append(h, e)
    OBVIOUS
  <2> QED BY <1>1, <2>1, OneMore
<1>3. /\ x.pc = c.ac_pc /\ x.status = Status(c) /\ x.flags = c.flags /\ x.mask = priomask
      /\ \A r \in Regs : x.regs[r] = c.RB[r]
      /\ 0 \in Regs /\ 6 \in Regs /\ 7 \in Regs /\ SP \in Regs /\ LR \in Regs
  BY ContextFacts
<1>4. /\ x.status \in {16, 31, 63} /\ x.mask \in Masks
      /\ Depth = 0 => x.regs[SP] = USR_STACK /\ x.mask = 0
      /\ Depth > 0 => LET w == interrupted[Depth].view IN
           /\ x.status # 16
           /\ x.regs[SP] \in {w.regs[SP], w.regs[SP] - 4, w.regs[SP] - 8, w.regs[SP] - 12}
           /\ interrupted[Depth].free # {} => x.mask = 0 /\ Depth = 1
  <2> HIDE DEF x
  <2>1. Open(mem, interrupted, Depth, x)
    BY DEF x
  <2> QED BY <1>1, <2>1, OpenShape
<1>5. /\ v.pc = x.pc /\ v.status = x.status /\ v.flags = x.flags /\ v.mask = x.mask
      /\ \A r \in Regs : v.regs[r] = x.regs[r]
  BY <1>3, <1>4, OpenMode, ViewFacts
<1> HIDE DEF x, v
<1>6. Len(h) = Depth /\ Len(g) = Depth + 1
  BY <1>2 DEF Depth
<1> HIDE DEF h, g
<1>7. /\ Depth > 0 => Calls(g) = Calls(h)
      /\ Depth = 0 => Calls(g) = IF f = {} THEN 0 ELSE 1
      /\ Calls(h) \in {0, 1}
  <2>1. Depth > 0 => g[1] = h[1]
    BY <1>1, <1>2
  <2>2. Depth = 0 => g[1] = e
    BY <1>1, <1>2
  <2> QED BY <1>1, <1>6, <2>1, <2>2 DEF Calls
<1>8. ASSUME NEW k \in 1..Depth PROVE Waits(mem', g, k)
  <2> DEFINE b == h[Depth].view.regs[SP]
  <2>1. Depth \in 1..Depth /\ Depth' >= k /\ \A i \in 1..k : g[i] = h[i]
    BY <1>1, <1>2
  <2>2. b \in Int /\ IRQ_STACK <= b
    BY <1>1, <2>1, UserStack, StackFacts DEF h
  <2>3. Changed(b, b)
    BY DEF Changed
  <2>4. Spares(Depth, b, b)
    BY <2>2 DEF Spares, h
  <2>5. h[k].free # Und
    <3>1. Waits(mem, h, k)
      BY <1>1 DEF Waiting, h
    <3>2. h[k].free = Und => Depth = 1
      BY <3>1, <1>6 DEF Waits
    <3> QED BY <1>1, <3>2, <2>1 DEF h
  <2> HIDE DEF b
  <2> QED BY <1>1, <1>2, <2>1, <2>2, <2>3, <2>4, <2>5, WaitsKept DEF h, g
<1>9. Open(mem', g, Depth, v)
  <2>1. Open(mem, h, Depth, v)
    <3>1. Open(mem, h, Depth, x)
      BY DEF x, h
    <3>2. \A r \in {0, 6, 7, SP, LR} : v.regs[r] = x.regs[r]
      BY <1>3, <1>5
    <3> QED BY <1>5, <3>1, <3>2, OpenSame
  <2>2. CASE Depth = 0
    BY <2>1, <2>2 DEF Open
  <2>3. CASE Depth > 0
    <3>1. g[Depth] = h[Depth] /\ FrameTop(g, Depth) = FrameTop(h, Depth)
      BY <1>1, <1>2, <1>7, <2>3 DEF FrameTop, Level
    <3>2. h[Depth].view.regs[SP] \in Int
      BY <1>1, <2>3, UserStack DEF h
    <3>3. Keeps(mem, mem', h, g, Depth, v)
      BY <3>1, <3>2 DEF Keeps
    <3> QED BY <1>1, <2>1, <3>3, OpenKept
  <2> QED BY <1>1, <2>2, <2>3
<1>10. Level(g, Depth + 1) = IF Depth = 0 /\ f # {} THEN 0 ELSE Level(h, Depth) + 1
  <2>1. Depth = 0 => Calls(h) = 0
    BY <1>6 DEF Calls
  <2> QED BY <1>1, <1>7, <2>1 DEF Level
<1>11. \E w \in 0..(3 * Level(g, Depth + 1)) : v.regs[SP] = USR_STACK - 4 * w
  <2>1. CASE Depth = 0
    <3>1. 0 \in 0..(3 * Level(g, Depth + 1))
      BY <1>7, <2>1 DEF Level
    <3>2. v.regs[SP] = USR_STACK - 4 * 0
      BY <1>3, <1>4, <1>5, <2>1, StackFacts
    <3> QED BY <3>1, <3>2
  <2>2. CASE Depth > 0
    <3>1. Waits(mem, h, Depth) /\ Level(h, Depth) \in Nat
      BY <1>1, <2>2, Room DEF Waiting, h
    <3>2. PICK w \in 0..(3 * Level(h, Depth)) : h[Depth].view.regs[SP] = USR_STACK - 4 * w
      BY <3>1 DEF Waits
    <3>3. PICK i \in 0..3 : v.regs[SP] = h[Depth].view.regs[SP] - 4 * i
      <4>1. h[Depth].view.regs[SP] \in Int
        BY <3>2, StackFacts
      <4>2. v.regs[SP] \in {h[Depth].view.regs[SP], h[Depth].view.regs[SP] - 4,
                            h[Depth].view.regs[SP] - 8, h[Depth].view.regs[SP] - 12}
        BY <1>3, <1>4, <1>5, <2>2 DEF h
      <4> QED BY <4>1, <4>2
    <3>4. v.regs[SP] = USR_STACK - 4 * (w + i)
      BY <3>1, <3>2, <3>3, StackFacts
    <3>5. w + i \in 0..(3 * Level(g, Depth + 1))
      BY <1>10, <2>2, <3>1, <3>2, <3>3
    <3> QED BY <3>4, <3>5
  <2> QED BY <1>1, <2>1, <2>2
<1>12. f = {} => Depth + 1 <= MaxDepth
  BY <1>1, StackFacts
<1>13. Waits(mem', g, Depth + 1)
  <2>1. g[Depth + 1].view = v /\ g[Depth + 1].free = f
    BY <1>2
  <2>3. f # {} => Depth + 1 = 1 /\ v.status = 16 /\ v.pc = At(67) /\ Len(g) = 1
    BY <1>3, <1>5, <1>6
  <2>4. v.mask \in Masks /\ v.flags \in Nat /\ v.status \in {16, 31, 63}
    BY <1>3, <1>4, <1>5 DEF IsCore
  <2>5. \A r \in GPR \ {0, 6, 7} : v.regs[r] = 0
    BY <1>3, <1>5, OtherRegisters
  <2>6. Und # {}
    BY DEF Und
  <2> DEFINE k == Depth + 1
  <2>7. \E w \in 0..(3 * Level(g, k)) : v.regs[SP] = USR_STACK - 4 * w
    BY <1>11
  <2>8. f = {} => k <= MaxDepth
    BY <1>12
  <2>9. Open(mem', g, k - 1, v)
    BY <1>1, <1>9
  <2>10. g[k].view = v /\ g[k].free = f
    BY <2>1
  <2>11. f # {} => k = 1 /\ v.status = 16 /\ v.pc = At(67) /\ Len(g) = 1
    BY <2>3
  <2> HIDE DEF k
  <2>12. Waits(mem', g, k)
    BY <2>4, <2>5, <2>6, <2>7, <2>8, <2>9, <2>10, <2>11 DEF Waits
  <2> QED BY <2>12 DEF k
<1>14. Waiting'
  BY <1>1, <1>2, <1>8, <1>13 DEF Waiting, g
<1>15. Descending'
  <2>1. ASSUME NEW i \in 1..Depth
        PROVE  v.regs[SP] <= h[i].view.regs[SP] /\ h[i].view.regs[SP] \in Int
    <3>1. h[i].view.regs[SP] \in Int /\ h[Depth].view.regs[SP] \in Int
      <4>1. Depth \in 1..Depth /\ IsSeq(interrupted)
        BY <1>1 DEF h
      <4>2. interrupted[i].view.regs[SP] \in Int
        BY <1>1, <4>1, UserStack, ZenonT(30)
      <4>3. interrupted[Depth].view.regs[SP] \in Int
        BY <1>1, <4>1, UserStack, ZenonT(30)
      <4> QED BY <4>2, <4>3 DEF h
    <3>2. h[Depth].view.regs[SP] <= h[i].view.regs[SP]
      BY <1>1, <3>1 DEF Descending, h
    <3>3. v.regs[SP] <= h[Depth].view.regs[SP] /\ v.regs[SP] \in Int
      <4>1. v.regs[SP] \in {h[Depth].view.regs[SP], h[Depth].view.regs[SP] - 4,
                            h[Depth].view.regs[SP] - 8, h[Depth].view.regs[SP] - 12}
        BY <1>1, <1>3, <1>4, <1>5 DEF h
      <4> DEFINE a == h[Depth].view.regs[SP]
      <4>2. a \in Int /\ v.regs[SP] \in {a, a - 4, a - 8, a - 12}
        BY <3>1, <4>1
      <4> HIDE DEF a
      <4>3. v.regs[SP] <= a /\ v.regs[SP] \in Int
        BY <4>2
      <4> QED BY <4>3 DEF a
    <3> QED BY <3>1, <3>2, <3>3
  <2>2. SUFFICES ASSUME NEW i \in 1..(Depth + 1), NEW k \in 1..(Depth + 1), i < k
        PROVE  g[k].view.regs[SP] <= g[i].view.regs[SP]
    BY <1>2 DEF Descending, g
  <2>3. i \in 1..Depth /\ g[i] = h[i]
    BY <1>1, <1>2, <2>2
  <2>4. CASE k = Depth + 1
    BY <1>2, <2>1, <2>3, <2>4
  <2>5. CASE k \in 1..Depth
    BY <1>1, <1>2, <2>2, <2>3, <2>5 DEF Descending, h
  <2> QED BY <1>1, <2>4, <2>5
<1>16. Types'
  BY <1>2 DEF Contexts, Types
<1> QED BY <1>2, <1>7, <1>14, <1>15, <1>16 DEF Contexts, v, g, h

\* The last of the contexts that wait runs again.
LEMMA ReturnContexts ==
  ASSUME Contexts, Depth > 0, interrupted' = SubSeq(interrupted, 1, Len(interrupted) - 1),
         mem' = [a \in Slots |-> mem'[a]], IsCore(core'),
         \A r \in GPR \ {0, 6, 7} : core'.RB[r] = 0,
         NEW b \in Int, NEW t \in Int, Changed(b, t), Spares(Depth, b, t)
  PROVE  /\ Contexts' /\ Depth' = Depth - 1
         /\ Open(mem', interrupted', Depth', interrupted[Depth].view)
         /\ Depth' > 0 => /\ Calls(interrupted') = Calls(interrupted)
                          /\ interrupted'[Depth'].free # Und
         /\ Depth' = 0 => Calls(interrupted') = 0
<1> DEFINE h == interrupted
           g == interrupted'
<1>1. IsSeq(interrupted) /\ Waiting /\ Descending /\ Depth \in Nat
  BY DepthFacts DEF Contexts, Types
<1>2. /\ IsSeq(interrupted)' /\ Depth' = Depth - 1
      /\ \A k \in 1..(Depth - 1) : g[k] = h[k]
  BY <1>1, OneLess
<1>3. Len(h) = Depth /\ Len(g) = Depth - 1
  BY <1>2 DEF Depth
<1> HIDE DEF h, g
<1>4. ASSUME NEW k \in 1..(Depth - 1) PROVE Waits(mem', g, k) /\ h[k].free # Und
  <2>1. Depth \in 1..Depth /\ k \in 1..Depth /\ Depth' >= k /\ \A i \in 1..k : g[i] = h[i]
    BY <1>1, <1>2
  <2>2. h[k].free # Und
    <3>1. Waits(mem, h, k)
      BY <1>1, <2>1 DEF Waiting, h
    <3>2. h[k].free = Und => Depth = 1
      BY <3>1, <1>3 DEF Waits
    <3> QED BY <1>1, <3>2
  <2> QED BY <1>1, <1>2, <2>1, <2>2, WaitsKept DEF h, g
<1>5. Open(mem', g, Depth - 1, h[Depth].view)
  <2>1. Depth \in 1..Depth /\ Depth' >= Depth - 1
    BY <1>1, <1>2
  <2> QED BY <1>1, <1>2, <2>1, OpenBelow DEF h, g
<1>6. Waiting'
  BY <1>1, <1>2, <1>4 DEF Waiting, g
<1>7. Descending'
  <2>1. SUFFICES ASSUME NEW i \in 1..(Depth - 1), NEW k \in 1..(Depth - 1), i < k
        PROVE  g[k].view.regs[SP] <= g[i].view.regs[SP]
    BY <1>2 DEF Descending, g
  <2>2. i \in 1..Depth /\ k \in 1..Depth
    BY <1>1
  <2> QED BY <1>1, <1>2, <2>1, <2>2 DEF Descending, h
<1>8. Types'
  BY <1>2 DEF Contexts, Types
<1>9. /\ Depth - 1 > 0 => Calls(g) = Calls(h) /\ g[Depth - 1].free # Und
      /\ Depth - 1 = 0 => Calls(g) = 0
  <2>1. CASE Depth - 1 > 0
    <3>1. g[1] = h[1] /\ g[Depth - 1] = h[Depth - 1] /\ Depth - 1 \in 1..(Depth - 1)
      BY <1>1, <1>2, <2>1
    <3> QED BY <1>3, <1>4, <2>1, <3>1 DEF Calls
  <2>2. CASE Depth - 1 = 0
    BY <1>3, <2>2 DEF Calls
  <2> QED BY <1>1, <2>1, <2>2
<1> QED BY <1>2, <1>5, <1>6, <1>7, <1>8, <1>9 DEF Contexts, g, h

\* system_init and the application, when no context waits
AtBase(c, m) ==
  /\ \/ Status(c) = 16 /\ c.ac_pc \in {At(26), At(27), At(28), At(66), At(67)}
     \/ Status(c) = 31 /\ c.ac_pc = At(25)
  /\ c.ac_pc = At(27) => c.RB[0] = app
  /\ c.RB[SP] = USR_STACK /\ m = 0
  /\ svcSP(c) = SVC_STACK /\ irqSP(c) = IRQ_STACK

\* With no context waiting, the open places are those of system_init and the application.
LEMMA BaseFacts ==
  ASSUME NEW c, NEW M, NEW h, NEW m, Len(h) = 0
  PROVE  RunsOpen(c, M, h, m) <=> AtBase(c, m)
<1>1. Calls(h) = 0 /\ Level(h, Len(h)) = 0
  BY NoCalls
<1>2. svcSP(c) = SVC_STACK - 8 * Calls(h) <=> svcSP(c) = SVC_STACK
  BY <1>1, StackFacts
<1>3. irqSP(c) = IRQ_STACK - 20 * Level(h, Len(h)) <=> irqSP(c) = IRQ_STACK
  BY <1>1, StackFacts
<1>4. Open(M, h, Len(h), Context(c, m)) <=> OpenBase(Context(c, m))
  BY DEF Open
<1>5. OpenBase(Context(c, m)) <=> /\ \/ Status(c) = 16 /\ c.ac_pc \in {At(26), At(27), At(28), At(66), At(67)}
                                     \/ Status(c) = 31 /\ c.ac_pc = At(25)
                                  /\ c.ac_pc = At(27) => c.RB[0] = app
                                  /\ c.RB[SP] = USR_STACK /\ m = 0
  BY ContextFacts DEF OpenBase
<1> QED BY <1>2, <1>3, <1>4, <1>5 DEF RunsOpen, AtBase

-----------------------------------------------------------------------------
(* system_init and the application.                                        *)

\* The application calls the system or meets an undefined instruction.
LEMMA AppTakes ==
  ASSUME Contexts, configured = TRUE, core.VBAR = Image, Depth = 0, AtBase(core, priomask),
         pc = At(66), app_swi \/ app_undefined
  PROVE  Contexts' /\ Running'
<1> DEFINE v == View(now, priomask)
<1>1. /\ IsCore(core) /\ Status(core) = 16 /\ core.RB[SP] = USR_STACK /\ priomask = 0
      /\ svcSP(core) = SVC_STACK /\ irqSP(core) = IRQ_STACK
      /\ \A r \in GPR \ {0, 6, 7} : core.RB[r] = 0
  BY DEF Contexts, Types, AtBase, At, Image, pc
<1>2. /\ IsCore(now) /\ now.VBAR = Image /\ now.ac_pc = At(67) /\ now.bank = core.bank
      /\ Status(now) = 16 /\ \A r \in Regs : now.RB[r] = core.RB[r]
  BY <1>1, NowFacts DEF Same, Status, At, Image, pc, Regs
<1>3. 0 \in Regs /\ 6 \in Regs /\ 7 \in Regs /\ SP \in Regs /\ LR \in Regs
  BY RegisterFacts DEF Regs
<1>4. Open(mem, interrupted, Depth, Context(now, priomask))
  <2>1. OpenBase(Context(now, priomask))
    BY <1>1, <1>2, <1>3, ContextFacts DEF OpenBase, At, Image
  <2> QED BY <2>1 DEF Open
<1>5. /\ now.mode \in {USER_MODE, SYSTEM_MODE} /\ ~now.irq
      /\ \A r \in GPR \ {0, 6, 7} : now.RB[r] = 0
  BY <1>1, <1>2, OpenMode, OtherRegisters
<1>6. /\ v.pc = At(67) /\ v.status = 16 /\ v.flags = now.flags /\ v.mask = 0
      /\ \A r \in Regs : v.regs[r] = core.RB[r]
      /\ Word(v) = Status(now) + 256 * now.flags
  BY <1>1, <1>2, <1>5, ViewFacts
<1>7. /\ SP \in Banked(SUPERVISOR_MODE) /\ SP \in Banked(IRQ_MODE) /\ LR \in Banked(SUPERVISOR_MODE)
      /\ LR \in Banked(UNDEFINED_MODE) /\ SP # LR /\ SUPERVISOR_MODE # IRQ_MODE
      /\ UNDEFINED_MODE # IRQ_MODE /\ UNDEFINED_MODE # SUPERVISOR_MODE
      /\ SUPERVISOR_MODE \in ExceptionModes /\ IRQ_MODE \in ExceptionModes /\ UNDEFINED_MODE \in ExceptionModes
  <2>1. SUPERVISOR_MODE \in ExceptionModes /\ IRQ_MODE \in ExceptionModes /\ UNDEFINED_MODE \in ExceptionModes
    BY BankedFacts
  <2> QED BY <2>1, BankedFacts, RegisterFacts DEF UNDEFINED_MODE, SUPERVISOR_MODE, IRQ_MODE
<1>8. ASSUME NEW f \in {Svc, Und}, NEW a, Entered(now, core', a, now.ac_pc, core'.ac_pc),
             interrupted' = Append(interrupted, [view |-> v, free |-> f]), UNCHANGED mem
      PROVE  /\ Contexts' /\ Len(interrupted') = 1
             /\ interrupted'[1] = [view |-> v, free |-> f]
  <2>1. IsCore(core') /\ core'.RB = now.RB
    BY <1>8 DEF Entered
  <2>2. f # {} /\ f \in {{}, Svc, Und} /\ ~(Depth > 0)
    <3>1. Svc # {} /\ Und # {}
      BY DEF Svc, Und
    <3>2. ~(Depth > 0)
      OBVIOUS
    <3> QED BY <3>1, <3>2
  <2>3. /\ Contexts' /\ Depth' = Depth + 1
        /\ interrupted'[Depth'] = [view |-> v, free |-> f]
    BY <1>2, <1>4, <1>5, <1>8, <2>1, <2>2, TakeContexts
  <2>4. Depth' = 1
    BY <2>3
  <2> QED BY <2>3, <2>4 DEF Depth
<1>9. CASE app_swi
  <2>1. /\ core' = service_interrupt(now, "SWI")
        /\ interrupted' = Append(interrupted, [view |-> v, free |-> Svc])
        /\ UNCHANGED <<mem, priomask, line, configured>>
    BY <1>9 DEF app_swi, Takes, Unmoved, Svc
  <2>2. Entered(now, core', SUPERVISOR_MODE, now.ac_pc, At(2))
    BY <1>2, <2>1, EnterFacts, EntryFacts
  <2>3. core'.ac_pc = At(2)
    BY <2>2 DEF Entered
  <2>4. Contexts' /\ Len(interrupted') = 1 /\ interrupted'[1] = [view |-> v, free |-> Svc]
    BY <1>8, <2>1, <2>2, <2>3
  <2> HIDE DEF v
  <2>5. interrupted'[1].view = v /\ interrupted'[1].free = Svc
    BY <2>4
  <2>6. /\ core'.mode = SUPERVISOR_MODE /\ core'.irq /\ core'.VBAR = Image
        /\ core'.RB[SP] = v.regs[SP] /\ core'.RB[6] = v.regs[6]
        /\ irqSP(core') = IRQ_STACK /\ svcSP(core') = SVC_STACK /\ svcLR(core') = v.pc
        /\ core'.SPSR[SUPERVISOR_MODE] = Word(v)
    <3>1. /\ core'.mode = SUPERVISOR_MODE /\ core'.irq /\ core'.VBAR = Image
          /\ core'.RB[SP] = v.regs[SP] /\ core'.RB[6] = v.regs[6]
          /\ core'.SPSR[SUPERVISOR_MODE] = Word(v)
      BY <1>2, <1>3, <1>6, <2>2 DEF Entered
    <3>2. /\ core'.bank[IRQ_MODE][SP] = core.bank[IRQ_MODE][SP]
          /\ core'.bank[SUPERVISOR_MODE][SP] = core.bank[SUPERVISOR_MODE][SP]
          /\ core'.bank[SUPERVISOR_MODE][LR] = now.ac_pc
      BY <1>2, <1>7, <2>2 DEF Entered
    <3> QED BY <1>1, <1>2, <1>6, <3>1, <3>2 DEF svcSP, svcLR, irqSP
  <2>7. RunsSvc(core', mem', interrupted', priomask')
    BY <1>1, <2>1, <2>3, <2>4, <2>5, <2>6 DEF RunsSvc, SvcPlace
  <2> QED BY <2>1, <2>4, <2>6, <2>7 DEF Running
<1>10. CASE app_undefined
  <2>1. /\ core' = service_interrupt(now, "UNDEFINED")
        /\ interrupted' = Append(interrupted, [view |-> v, free |-> Und])
        /\ UNCHANGED <<mem, priomask, line, configured>>
    BY <1>10 DEF app_undefined, Takes, Unmoved, Und
  <2>2. Entered(now, core', UNDEFINED_MODE, now.ac_pc, At(1))
    BY <1>2, <2>1, EnterFacts, EntryFacts
  <2>3. core'.ac_pc = At(1)
    BY <2>2 DEF Entered
  <2>4. Contexts' /\ Len(interrupted') = 1 /\ interrupted'[1] = [view |-> v, free |-> Und]
    BY <1>8, <2>1, <2>2, <2>3
  <2> HIDE DEF v
  <2>5. interrupted'[1].view = v /\ interrupted'[1].free = Und
    BY <2>4
  <2>6. /\ core'.mode = UNDEFINED_MODE /\ core'.irq /\ core'.VBAR = Image
        /\ \A r \in Registers \ {PC} : core'.RB[r] = v.regs[r]
        /\ irqSP(core') = IRQ_STACK /\ svcSP(core') = SVC_STACK
        /\ core'.bank[UNDEFINED_MODE][LR] = v.pc
        /\ core'.SPSR[UNDEFINED_MODE] = Word(v)
    <3>1. /\ core'.mode = UNDEFINED_MODE /\ core'.irq /\ core'.VBAR = Image
          /\ \A r \in Registers \ {PC} : core'.RB[r] = v.regs[r]
          /\ core'.SPSR[UNDEFINED_MODE] = Word(v)
      BY <1>2, <1>6, <2>2 DEF Entered, Regs
    <3>2. /\ core'.bank[IRQ_MODE][SP] = core.bank[IRQ_MODE][SP]
          /\ core'.bank[SUPERVISOR_MODE][SP] = core.bank[SUPERVISOR_MODE][SP]
          /\ core'.bank[UNDEFINED_MODE][LR] = now.ac_pc
      BY <1>2, <1>7, <2>2 DEF Entered
    <3> QED BY <1>1, <1>2, <1>6, <3>1, <3>2 DEF svcSP, irqSP
  <2>7. RunsUnd(core', interrupted', priomask')
    BY <1>1, <2>1, <2>3, <2>4, <2>5, <2>6 DEF RunsUnd
  <2> QED BY <2>1, <2>4, <2>6, <2>7 DEF Running
<1> QED BY <1>9, <1>10

\* Every instruction of system_init and the application.
LEMMA BaseStep ==
  ASSUME Contexts, configured = TRUE, core.VBAR = Image, Depth = 0, AtBase(core, priomask), step
  PROVE  Contexts' /\ Running'
<1>1. /\ IsCore(core) /\ core.RB[SP] = USR_STACK /\ priomask = 0
      /\ svcSP(core) = SVC_STACK /\ irqSP(core) = IRQ_STACK
      /\ \A r \in GPR \ {0, 6, 7} : core.RB[r] = 0
      /\ Status(core) \in {16, 31}
  BY DEF Contexts, Types, AtBase
<1>2. /\ core.mode \in {USER_MODE, SYSTEM_MODE} /\ ~core.irq
      /\ core.mode = USER_MODE <=> Status(core) = 16
  BY <1>1, OpenMode
<1>3. /\ 0 \in Regs /\ 6 \in Regs /\ 7 \in Regs /\ SP \in Regs /\ LR \in Regs
      /\ 0 # SP /\ 6 # SP /\ LR # SP
      /\ \A r \in Regs : r \notin Banked(core.mode)
  BY <1>2, RegisterFacts, BankedFacts DEF Regs
<1>4. ASSUME Idle, IsCore(core'), core'.VBAR = core.VBAR, core'.bank = core.bank,
             core'.RB[SP] = core.RB[SP], \A r \in Regs \ {0, 6, LR} : core'.RB[r] = core.RB[r],
             \/ Status(core') = 16 /\ core'.ac_pc \in {At(26), At(27), At(28), At(66), At(67)}
             \/ Status(core') = 31 /\ core'.ac_pc = At(25),
             core'.ac_pc = At(27) => core'.RB[0] = app
      PROVE  Contexts' /\ Running'
  <2>1. \A r \in GPR \ {0, 6, 7} : core'.RB[r] = 0
    BY <1>1, <1>4, OtherRegisters
  <2>2. Contexts'
    BY <1>4, <2>1, Inner DEF Idle
  <2>3. AtBase(core', priomask')
    BY <1>1, <1>4 DEF AtBase, Idle, svcSP, irqSP
  <2>4. Len(interrupted') = 0
    BY <1>4 DEF Idle, Depth
  <2>5. RunsOpen(core', mem', interrupted', priomask')
    BY <2>3, <2>4, BaseFacts
  <2> QED BY <1>4, <2>2, <2>5 DEF Running, Idle
<1>5. CASE pc = At(25)
  <2>1. Status(core) = 31 /\ core.mode # USER_MODE
    BY <1>2, <1>5 DEF AtBase, At, Image, pc
  <2>2. Instr = msr(16) /\ 16 \in Controls
    BY <1>5, BaseCode DEF Controls
  <2>3. Switched(core', 16) /\ Idle
    BY <1>1, <2>1, <2>2, DoMsr
  <2>4. core'.ac_pc = At(26)
    BY <1>5, <2>3 DEF Switched, At, Image, pc
  <2>5. At(26) # At(27)
    BY DEF At, Image
  <2> QED BY <1>3, <1>4, <2>3, <2>4, <2>5 DEF Switched
<1>6. CASE pc = At(26)
  <2>1. Status(core) = 16 /\ Instr = ldr(0, app)
    BY <1>6, BaseCode DEF AtBase, At, Image, pc
  <2>2. Moved(core', 0, app) /\ Idle
    BY <1>1, <1>3, <2>1, DoLdr
  <2>3. core'.ac_pc = At(27)
    BY <1>6, <2>2 DEF Moved, Goes, At, Image, pc
  <2>4. Status(core') = 16
    BY <2>1, <2>2 DEF Moved, Goes, Same, Status
  <2> QED BY <1>3, <1>4, <2>2, <2>3, <2>4 DEF Moved, Goes, Same
<1>7. CASE pc = At(27)
  <2>1. Status(core) = 16 /\ core.RB[0] = app /\ Instr = [op |-> "blx", rm |-> 0]
    BY <1>7, BaseCode DEF AtBase, At, Image, pc
  <2>2. Linked(core', 0) /\ Idle
    BY <1>1, <1>2, <2>1, DoBlx
  <2>3. Status(core') = 16
    <3>1. core.mode = USER_MODE /\ ~core.fiq /\ ~core.irq
      BY <1>1, <2>1, StatusFacts
    <3>2. /\ IsCore(core') /\ core'.mode = USER_MODE /\ ~core'.fiq /\ ~core'.irq
          /\ ~core'.T
      BY <2>2, <3>1 DEF Linked
    <3> QED BY <3>2, StatusFacts
  <2>4. core'.ac_pc = At(66) /\ At(66) # At(27)
    BY <2>1, <2>2 DEF Linked, app, At, Image
  <2> QED BY <1>3, <1>4, <2>2, <2>3, <2>4 DEF Linked
<1>8. CASE pc = At(28)
  <2>1. Status(core) = 16 /\ Instr = branch(At(28))
    BY <1>8, BaseCode DEF AtBase, At, Image, pc, loop
  <2>2. Jumped(core', At(28)) /\ Idle
    BY <1>1, <2>1, DoB
  <2>3. Status(core') = 16
    BY <2>1, <2>2 DEF Jumped, Goes, Same, Status
  <2>4. At(28) # At(27)
    BY DEF At, Image
  <2> QED BY <1>3, <1>4, <2>2, <2>3, <2>4 DEF Jumped, Goes, Same
<1>9. CASE pc = At(66)
  <2>1. Status(core) = 16 /\ core.mode = USER_MODE
    BY <1>2, <1>9 DEF AtBase, At, Image, pc
  <2>2. app_compute \/ app_swi \/ app_undefined
    BY <1>9, BaseCode, Executes DEF I
  <2>3. pc + 4 = At(67) /\ At(67) # At(27)
    BY <1>9 DEF At, Image
  <2>4. CASE app_compute
    <3>1. Idle
      BY <2>4 DEF app_compute, Becomes, Unmoved, Idle
    <3>2. CASE core' = MSR_CPSR(now, 31, TRUE, FALSE)
      <4>1. Unswitched(core')
        BY <1>1, <2>1, <3>2, CoreMsrUser
      <4> QED BY <1>3, <1>4, <2>3, <3>1, <4>1 DEF Unswitched
    <3>3. ASSUME NEW f \in 0..FlagMax, core' = [MOV(now, 6, 1 + f) EXCEPT !.flags = f]
          PROVE  Contexts' /\ Running'
      <4>1. f \in Nat
        BY RegisterAssumption
      <4>2. /\ Flagged(core', f)
            /\ \A q \in Regs : core'.RB[q] = IF q = 6 THEN 1 + f ELSE core.RB[q]
        BY <1>1, <3>3, <4>1, CoreMovFlags
      <4>3. Status(core') = 16
        BY <2>1, <4>2 DEF Flagged, Status
      <4> QED BY <1>3, <1>4, <2>3, <3>1, <4>2, <4>3 DEF Flagged
    <3> QED BY <2>4, <3>2, <3>3 DEF app_compute, Becomes
  <2> QED BY <1>9, <2>2, <2>4, AppTakes
<1>10. CASE pc = At(67)
  <2>1. Status(core) = 16 /\ app_end
    BY <1>10, BaseCode, Executes DEF AtBase, At, Image, pc, I
  <2>2. PICK to \in {app, loop} : core' = B(now, to)
    BY <2>1 DEF app_end, Becomes
  <2>3. Idle
    BY <2>1 DEF app_end, Becomes, Unmoved, Idle
  <2>4. Jumped(core', to)
    BY <1>1, <2>2, CoreB
  <2>5. Status(core') = 16
    BY <2>1, <2>4 DEF Jumped, Goes, Same, Status
  <2>6. to \in {At(66), At(28)} /\ to # At(27)
    BY <2>2 DEF app, loop, At, Image
  <2> QED BY <1>3, <1>4, <2>3, <2>4, <2>5, <2>6 DEF Jumped, Goes, Same
<1> QED BY <1>5, <1>6, <1>7, <1>8, <1>9, <1>10 DEF AtBase, pc

-----------------------------------------------------------------------------
(* An interrupt.                                                           *)

\* An interrupt is taken at any open place, at any depth.
LEMMA IrqTakes ==
  ASSUME Contexts, configured = TRUE, core.VBAR = Image,
         RunsOpen(core, mem, interrupted, priomask), NEW l \in DOMAIN PriorityOf, irq(l)
  PROVE  Contexts' /\ Running'
<1> DEFINE v == View(core, priomask)
           g == interrupted'
<1>1. /\ IsCore(core) /\ IsSeq(interrupted) /\ Waiting /\ Depth \in Nat
      /\ \A r \in GPR \ {0, 6, 7} : core.RB[r] = 0
      /\ Len(interrupted) = Depth
  BY DepthFacts DEF Contexts, Types, Depth
<1>2. /\ Open(mem, interrupted, Depth, Context(core, priomask))
      /\ Depth > 0 => interrupted[Depth].free # Und
      /\ svcSP(core) = SVC_STACK - 8 * Calls(interrupted)
      /\ irqSP(core) = IRQ_STACK - 20 * Level(interrupted, Depth)
  BY <1>1 DEF RunsOpen
<1>3. /\ Len(interrupted) < MaxDepth /\ ~core.irq /\ line' = l
      /\ core' = service_interrupt(core, "IRQ")
      /\ g = Append(interrupted, [view |-> v, free |-> {}])
      /\ UNCHANGED <<mem, priomask, configured>>
  BY DEF irq, Takes
<1>4. Entered(core, core', IRQ_MODE, pc + 4, At(6))
  BY <1>1, <1>3, EnterFacts, EntryFacts DEF pc
<1>5. Depth < MaxDepth
  BY <1>1, <1>3
<1>6. /\ Contexts' /\ Depth' = Depth + 1 /\ g[Depth'] = [view |-> v, free |-> {}]
      /\ Depth > 0 => Calls(g) = Calls(interrupted)
      /\ Depth = 0 => Calls(g) = 0
      /\ Calls(interrupted) \in {0, 1}
  <2>1. IsCore(core') /\ core'.RB = core.RB
    BY <1>4 DEF Entered
  <2> QED BY <1>1, <1>2, <1>3, <1>5, <2>1, TakeContexts
<1>7. Calls(g) = Calls(interrupted) /\ Level(interrupted, Depth) \in Int
  <2>1. Depth = 0 => Calls(interrupted) = 0
    BY <1>1 DEF Calls
  <2> QED BY <1>1, <1>6, <2>1 DEF Level
<1>8. Len(g) = Depth + 1 /\ g[Len(g)].view = v /\ g[Len(g)].free = {}
  BY <1>6 DEF Depth
<1>9. FrameTop(g, Len(g)) = irqSP(core)
  <2>1. Level(g, Depth + 1) = Level(interrupted, Depth) + 1
    BY <1>1, <1>6, <1>7 DEF Level
  <2> QED BY <1>2, <1>7, <1>8, <2>1, StackFacts DEF FrameTop
<1>10. /\ v.pc = pc /\ v.mask = priomask /\ \A r \in Regs : v.regs[r] = core.RB[r]
       /\ Word(v) = Status(core) + 256 * core.flags
  <2>1. Status(core) \in {16, 31, 63}
    <3>1. Context(core, priomask).status \in {16, 31, 63}
      BY <1>1, <1>2, OpenShape
    <3> QED BY <3>1, ContextFacts
  <2>2. core.mode \in {USER_MODE, SYSTEM_MODE}
    BY <1>1, <2>1, OpenMode
  <2> QED BY <1>1, <2>2, ViewFacts DEF pc
<1> HIDE DEF v, g
<1>11. /\ SP \in Banked(SUPERVISOR_MODE) /\ SP \in Banked(IRQ_MODE) /\ LR \in Banked(IRQ_MODE)
       /\ SP # LR /\ SUPERVISOR_MODE # IRQ_MODE
       /\ SUPERVISOR_MODE \in ExceptionModes /\ IRQ_MODE \in ExceptionModes
  <2>1. SUPERVISOR_MODE \in ExceptionModes /\ IRQ_MODE \in ExceptionModes
    BY BankedFacts
  <2> QED BY <2>1, BankedFacts, RegisterFacts DEF SUPERVISOR_MODE, IRQ_MODE
<1>12. irqSP(core') = irqSP(core) /\ irqLR(core') = v.pc + 4 /\ svcSP(core') = svcSP(core)
  BY <1>4, <1>10, <1>11 DEF Entered, irqSP, irqLR, svcSP
<1>13. /\ core'.mode = IRQ_MODE /\ core'.irq /\ core'.VBAR = Image /\ core'.ac_pc = At(6)
       /\ \A r \in Regs : core'.RB[r] = v.regs[r]
       /\ core'.SPSR[IRQ_MODE] = Word(v)
  BY <1>4, <1>10 DEF Entered
<1>14. 0 \in Regs /\ 6 \in Regs /\ 7 \in Regs /\ SP \in Regs /\ LR \in Regs /\ At(6) # At(45)
  BY RegisterFacts DEF Regs, At, Image
<1>15. IrqPlace(core', mem', priomask', line', v, FrameTop(g, Len(g)))
  BY <1>3, <1>9, <1>10, <1>12, <1>13, <1>14 DEF IrqPlace
<1>16. RunsIrq(core', mem', g, priomask', line')
  <2>1. Len(g) > 0
    BY <1>1, <1>8
  <2> QED BY <1>2, <1>7, <1>8, <1>12, <1>13, <1>14, <1>15, <2>1 DEF RunsIrq
<1> QED BY <1>3, <1>6, <1>13, <1>16 DEF Running, g

-----------------------------------------------------------------------------
(* The registers of the modes of svc_handler and irq_handler.              *)

\* supervisor and interrupt mode have stacks of their own
LEMMA OwnBank ==
  /\ \A m \in {SUPERVISOR_MODE, IRQ_MODE} : Banked(m) = {SP, LR} /\ m \in ExceptionModes
  /\ SUPERVISOR_MODE # IRQ_MODE /\ SP # LR
  /\ 0 \in Regs /\ 6 \in Regs /\ 7 \in Regs /\ SP \in Regs /\ LR \in Regs
  /\ 0 \notin {SP, LR} /\ 6 \notin {SP, LR} /\ 7 \notin {SP, LR}
<1>1. SUPERVISOR_MODE \in ExceptionModes /\ IRQ_MODE \in ExceptionModes
  BY BankedFacts
<1>2. SUPERVISOR_MODE # FIQ_MODE /\ IRQ_MODE # FIQ_MODE /\ SUPERVISOR_MODE # IRQ_MODE
  BY DEF SUPERVISOR_MODE, FIQ_MODE, IRQ_MODE
<1> QED BY <1>1, <1>2, BankedFacts, RegisterFacts DEF Regs

\* which an instruction in them uses
LEMMA OwnRead ==
  /\ core.mode = SUPERVISOR_MODE =>
       bypass_read(core, SP) = svcSP(core) /\ bypass_read(core, LR) = svcLR(core)
  /\ core.mode = IRQ_MODE =>
       bypass_read(core, SP) = irqSP(core) /\ bypass_read(core, LR) = irqLR(core)
  /\ core.mode \in {SUPERVISOR_MODE, IRQ_MODE} => 
       /\ bypass_read(core, 0) = core.RB[0] /\ bypass_read(core, 6) = core.RB[6]
       /\ bypass_read(core, 7) = core.RB[7]
BY OwnBank DEF bypass_read, svcSP, svcLR, irqSP, irqLR

\* the stack pointers and link registers after a step
Own(d, sp, lr) ==
  /\ core.mode = SUPERVISOR_MODE => svcSP(d) = sp /\ svcLR(d) = lr /\ irqSP(d) = irqSP(core)
  /\ core.mode = IRQ_MODE => irqSP(d) = sp /\ irqLR(d) = lr /\ svcSP(d) = svcSP(core)

\* An instruction in them that writes one of their registers.
LEMMA OwnMove ==
  ASSUME core.mode \in {SUPERVISOR_MODE, IRQ_MODE}, NEW d, NEW r \in {SP, LR}, NEW x,
         Moved(d, r, x)
  PROVE  /\ \A q \in Regs : d.RB[q] = core.RB[q]
         /\ Own(d, IF r = SP THEN x ELSE bypass_read(core, SP),
                   IF r = LR THEN x ELSE bypass_read(core, LR))
<1>1. r \in Banked(core.mode)
  BY OwnBank
<1>2. \A m \in {SUPERVISOR_MODE, IRQ_MODE} : \A q \in {SP, LR} :
        d.bank[m][q] = IF m = core.mode /\ q = r THEN x ELSE core.bank[m][q]
  BY <1>1, OwnBank DEF Moved
<1>3. Own(d, IF r = SP THEN x ELSE bypass_read(core, SP),
             IF r = LR THEN x ELSE bypass_read(core, LR))
  BY <1>2, OwnBank, OwnRead DEF Own, svcSP, svcLR, irqSP, irqLR
<1> QED BY <1>1, <1>3 DEF Moved

\* ldmfd in them
LEMMA OwnLoad ==
  ASSUME core.mode \in {SUPERVISOR_MODE, IRQ_MODE}, NEW d, NEW vals, NEW sp, Loads(d, vals, sp),
         SP \notin DOMAIN vals, PC \notin DOMAIN vals
  PROVE  /\ Same(core, d) /\ d.ac_pc = pc + 4
         /\ \A q \in Regs : d.RB[q] = IF q \in DOMAIN vals /\ q # LR THEN vals[q] ELSE core.RB[q]
         /\ Own(d, sp, IF LR \in DOMAIN vals THEN vals[LR] ELSE bypass_read(core, LR))
<1>1. Banked(core.mode) = {SP, LR}
  BY OwnBank
<1>2. \A q \in Regs : d.RB[q] = IF q \in DOMAIN vals /\ q # LR THEN vals[q] ELSE core.RB[q]
  BY <1>1, OwnBank DEF Loads
<1>3. \A m \in {SUPERVISOR_MODE, IRQ_MODE} : \A q \in {SP, LR} :
        d.bank[m][q] = IF m = core.mode /\ q \in DOMAIN vals THEN vals[q]
                       ELSE IF m = core.mode /\ q = SP THEN sp ELSE core.bank[m][q]
  BY <1>1, OwnBank DEF Loads
<1>4. Own(d, sp, IF LR \in DOMAIN vals THEN vals[LR] ELSE bypass_read(core, LR))
  BY <1>3, OwnBank, OwnRead DEF Own, svcSP, svcLR, irqSP, irqLR
<1> QED BY <1>2, <1>4 DEF Loads

-----------------------------------------------------------------------------
(* The handler of an undefined instruction.                                *)

\* Every instruction after an undefined one, until it returns.
LEMMA UndStep ==
  ASSUME Contexts, configured = TRUE, core.VBAR = Image,
         RunsUnd(core, interrupted, priomask), step
  PROVE  Contexts' /\ Running'
<1> DEFINE v == interrupted[1].view
<1>1. /\ IsCore(core) /\ IsSeq(interrupted) /\ Waiting
      /\ \A r \in GPR \ {0, 6, 7} : core.RB[r] = 0
      /\ mem = [a \in Slots |-> mem[a]]
  BY DEF Contexts, Types
<1>2. /\ Depth = 1 /\ interrupted[1].free = Und
      /\ core.mode = UNDEFINED_MODE /\ core.irq /\ pc \in {At(1), At(23)}
      /\ core.bank[UNDEFINED_MODE][LR] = v.pc /\ core.SPSR[UNDEFINED_MODE] = Word(v)
      /\ \A r \in Regs : core.RB[r] = v.regs[r]
      /\ svcSP(core) = SVC_STACK /\ irqSP(core) = IRQ_STACK /\ priomask = 0
  BY DEF RunsUnd, Depth, pc, Regs
<1>3. CASE pc = At(1)
  <2>1. Instr = branch(At(23))
    BY <1>3, BaseCode DEF unimplemented
  <2>2. Jumped(core', At(23)) /\ Idle
    BY <1>1, <2>1, DoB
  <2>3. /\ IsCore(core') /\ core'.VBAR = core.VBAR /\ core'.mode = core.mode
        /\ core'.irq = core.irq /\ core'.SPSR = core.SPSR /\ core'.bank = core.bank
        /\ core'.ac_pc = At(23) /\ \A r \in Regs : core'.RB[r] = core.RB[r]
    BY <2>2 DEF Jumped, Goes, Same
  <2>4. Contexts'
    BY <1>1, <2>2, <2>3, OtherRegisters, Inner DEF Idle
  <2>5. RunsUnd(core', interrupted', priomask')
    BY <1>2, <2>2, <2>3 DEF RunsUnd, Idle, Depth, Regs, svcSP, irqSP
  <2> QED BY <2>2, <2>3, <2>4, <2>5 DEF Running, Idle
<1>4. CASE pc = At(23)
  <2>1. Instr.op = "movs"
    BY <1>4, BaseCode DEF I
  <2>2. exec_movs
    BY <2>1, Executes
  <2>3. UNDEFINED_MODE \in ExceptionModes /\ LR \in Banked(UNDEFINED_MODE) /\ LR \in Regs
    <3>1. UNDEFINED_MODE \in ExceptionModes
      BY BankedFacts
    <3> QED BY <3>1, BankedFacts, RegisterFacts DEF Regs
  <2>4. Read(LR) = v.pc
    <3>1. Read(LR) = bypass_read(core, LR)
      BY <1>1, <2>3, NowFacts DEF Regs
    <3> QED BY <1>2, <2>3, <3>1 DEF bypass_read
  <2>5. /\ core' = MOVS_PC(now, v.pc, 0)
        /\ interrupted' = SubSeq(interrupted, 1, Len(interrupted) - 1)
        /\ UNCHANGED <<mem, priomask, line, configured>>
    BY <2>2, <2>4 DEF exec_movs, Returns, Unmoved
  <2>6. /\ v.status = 16 /\ v.flags \in Nat /\ v.pc = At(67) /\ OpenBase(v)
    <3>1. Waits(mem, interrupted, 1)
      BY <1>1, <1>2 DEF Waiting
    <3>2. Und # {}
      BY DEF Und
    <3> QED BY <1>2, <3>1, <3>2 DEF Waits, Open
  <2>7. /\ IsCore(core') /\ Status(core') = 16 /\ core'.ac_pc = At(67) /\ core'.VBAR = core.VBAR
        /\ core'.bank = core.bank /\ \A q \in Regs : core'.RB[q] = core.RB[q]
    BY <1>1, <1>2, <2>3, <2>5, <2>6, CoreMovs
  <2>8. Contexts' /\ Depth' = 0
    <3>1. \A r \in GPR \ {0, 6, 7} : core'.RB[r] = 0
      BY <1>1, <2>7, OtherRegisters
    <3>2. Changed(0, 0) /\ Spares(1, 0, 0) /\ mem' = [a \in Slots |-> mem'[a]]
      BY <1>1, <2>5 DEF Changed, Spares
    <3>3. Depth > 0 /\ Spares(Depth, 0, 0) /\ 0 \in Int
      BY <1>2, <3>2
    <3>4. Contexts' /\ Depth' = Depth - 1
      BY <2>5, <2>7, <3>1, <3>2, <3>3, ReturnContexts, ZenonT(30)
    <3> QED BY <1>2, <3>4
  <2>9. AtBase(core', priomask')
    <3>1. At(67) # At(27) /\ SP \in Regs
      BY RegisterFacts DEF At, Image, Regs
    <3> QED BY <1>2, <2>5, <2>6, <2>7, <3>1 DEF AtBase, OpenBase, svcSP, irqSP
  <2>10. RunsOpen(core', mem', interrupted', priomask')
    BY <2>8, <2>9, BaseFacts DEF Depth
  <2> QED BY <2>5, <2>7, <2>8, <2>10 DEF Running
<1> QED BY <1>2, <1>3, <1>4

-----------------------------------------------------------------------------
(* svc_handler.                                                            *)

\* the call of which svc_handler takes care
LEMMA CallFacts ==
  ASSUME IsSeq(interrupted), Waiting, Depth = 1, interrupted[1].free = Svc
  PROVE  LET v == interrupted[1].view IN
         /\ v.status = 16 /\ v.flags \in Nat /\ v.pc = At(67) /\ v.regs[SP] = USR_STACK
         /\ v.mask = 0
         /\ Calls(interrupted) = 1 /\ Level(interrupted, 1) = 0
         /\ (Word(v) % 256) + 256 * (Word(v) \div 256) = Word(v)
<1>1. Svc # {}
  BY DEF Svc
<1>2. Waits(mem, interrupted, 1)
  BY DEF Waiting
<1>3. /\ interrupted[1].view.status = 16 /\ interrupted[1].view.flags \in Nat
      /\ interrupted[1].view.pc = At(67) /\ OpenBase(interrupted[1].view)
  BY <1>1, <1>2 DEF Waits, Open
<1>4. Len(interrupted) > 0
  BY DEF Depth
<1>5. Calls(interrupted) = 1 /\ Level(interrupted, 1) = 0
  BY <1>1, <1>4 DEF Calls, Level
<1> QED BY <1>3, <1>5, WordFacts DEF OpenBase

\* RunsOpen in a system call
LEMMA CallOpen ==
  ASSUME NEW c, NEW M, NEW h, NEW m, Len(h) = 1, h[1].free = Svc, Calls(h) = 1, Level(h, 1) = 0
  PROVE  LET v == h[1].view IN
         RunsOpen(c, M, h, m) <=>
           /\ OpenSvc(M, v, Context(c, m)) /\ SvcSaved(M, v)
           /\ svcSP(c) = SVC_STACK - 8 /\ irqSP(c) = IRQ_STACK
<1>1. h[1].free # {} /\ h[1].free # Und
  <2>1. Svc # {}
    BY DEF Svc
  <2>2. Svc # Und
    <3>1. 0 \in Svc /\ 0 \notin Und
      BY DEF Svc, Und, FLAGS
    <3> QED BY <3>1
  <2> QED BY <2>1, <2>2
<1>2. Open(M, h, Len(h), Context(c, m)) <=>
        OpenSvc(M, h[1].view, Context(c, m)) /\ SvcSaved(M, h[1].view)
  BY <1>1 DEF Open
<1>3. /\ svcSP(c) = SVC_STACK - 8 * Calls(h) <=> svcSP(c) = SVC_STACK - 8
      /\ irqSP(c) = IRQ_STACK - 20 * Level(h, Len(h)) <=> irqSP(c) = IRQ_STACK
  BY StackFacts
<1> QED BY <1>1, <1>2, <1>3 DEF RunsOpen

\* Every instruction of svc_handler in supervisor mode.
LEMMA SvcStep ==
  ASSUME Contexts, configured = TRUE, core.VBAR = Image,
         RunsSvc(core, mem, interrupted, priomask), step
  PROVE  Contexts' /\ Running'
<1> DEFINE v == interrupted[1].view
           S == SVC_STACK
<1>1. /\ IsCore(core) /\ IsSeq(interrupted) /\ Waiting
      /\ \A r \in GPR \ {0, 6, 7} : core.RB[r] = 0
      /\ mem = [a \in Slots |-> mem[a]]
  BY DEF Contexts, Types
<1>2. /\ Len(interrupted) = 1 /\ Depth = 1 /\ interrupted[1].free = Svc
      /\ core.mode = SUPERVISOR_MODE /\ core.irq
      /\ core.RB[SP] = v.regs[SP] /\ core.RB[6] = v.regs[6]
      /\ irqSP(core) = IRQ_STACK /\ priomask = 0 /\ SvcPlace(core, mem, v)
  BY DEF RunsSvc, Depth
<1>3. /\ v.status = 16 /\ v.flags \in Nat /\ v.pc = At(67) /\ v.regs[SP] = USR_STACK /\ v.mask = 0
      /\ Calls(interrupted) = 1 /\ Level(interrupted, 1) = 0
      /\ (Word(v) % 256) + 256 * (Word(v) \div 256) = Word(v)
  BY <1>1, <1>2, CallFacts
<1>4. /\ S - 4 \in Slots /\ S - 8 \in Slots /\ S \in Int /\ S - 4 \in Int /\ S - 8 \in Int
      /\ S - 4 # S - 8 /\ S - 4 - 4 = S - 8 /\ S - 8 + 4 = S - 4 /\ S - 4 + 4 = S
  BY SvcFrame
<1> HIDE DEF S
<1>5. /\ bypass_read(core, SP) = svcSP(core) /\ bypass_read(core, LR) = svcLR(core)
      /\ core.mode \in {SUPERVISOR_MODE, IRQ_MODE} /\ core.mode \in ExceptionModes
      /\ 0 \in Regs /\ 6 \in Regs /\ 7 \in Regs /\ SP \in Regs /\ LR \in Regs /\ SP # LR
  BY <1>2, OwnRead, OwnBank
<1>6. ASSUME IsCore(core'), core'.VBAR = core.VBAR, \A r \in Regs : core'.RB[r] = core.RB[r],
             UNCHANGED <<interrupted, priomask, line, configured>>,
             mem' = [a \in Slots |-> mem'[a]],
             Changed(S - 8, S)
      PROVE  Contexts'
  <2>1. \A r \in GPR \ {0, 6, 7} : core'.RB[r] = 0
    BY <1>1, <1>6, OtherRegisters
  <2>2. Depth > 0 => Spares(Depth, S - 8, S)
    BY <1>2 DEF Spares
  <2> QED BY <1>4, <1>6, <2>1, <2>2, InnerMem, ZenonT(30)
<1>7. ASSUME IsCore(core'), core'.VBAR = core.VBAR, \A r \in Regs : core'.RB[r] = core.RB[r],
             UNCHANGED <<interrupted, priomask, line, configured>>,
             mem' = [a \in Slots |-> mem'[a]],
             Changed(S - 8, S),
             core'.mode = core.mode, core'.irq = core.irq, irqSP(core') = irqSP(core),
             SvcPlace(core', mem', v)
      PROVE  Contexts' /\ Running'
  <2>1. Contexts'
    BY <1>6, <1>7
  <2>2. RunsSvc(core', mem', interrupted', priomask')
    BY <1>2, <1>5, <1>7 DEF RunsSvc
  <2> QED BY <1>7, <2>1, <2>2 DEF Running
<1>8. CASE pc = At(2)
  <2>1. Instr = branch(At(29))
    BY <1>8, SvcCode DEF svc_handler
  <2>2. Jumped(core', At(29)) /\ Idle
    BY <1>1, <2>1, DoB
  <2>3. svcSP(core) = S /\ svcLR(core) = v.pc /\ core.SPSR[SUPERVISOR_MODE] = Word(v)
    BY <1>2, <1>8 DEF SvcPlace, At, Image, pc, S
  <2>4. SvcPlace(core', mem', v)
    BY <2>2, <2>3 DEF SvcPlace, Jumped, Goes, Same, svcSP, svcLR, S
  <2> QED BY <1>1, <1>7, <2>2, <2>4 DEF Jumped, Goes, Same, Idle, irqSP, Changed
<1>9. CASE pc = At(29)
  <2>1. svcSP(core) = S /\ svcLR(core) = v.pc /\ core.SPSR[SUPERVISOR_MODE] = Word(v)
    BY <1>2, <1>9 DEF SvcPlace, At, Image, pc, S
  <2>2. Instr = stm({LR}) /\ exec_stm
    BY <1>9, SvcCode, Executes DEF stm
  <2>3. /\ Moved(core', SP, S - 4) /\ UNCHANGED <<interrupted, priomask, line, configured>>
        /\ mem' = [a \in Slots |-> mem'[a]]
        /\ \A a \in Slots : mem'[a] = IF a = S - 4 THEN svcLR(core) ELSE mem[a]
    <3>1. S = bypass_read(core, SP)
      BY <1>5, <2>1
    <3>2. /\ Moved(core', SP, S - 4) /\ UNCHANGED <<interrupted, priomask, line, configured>>
          /\ mem' = [a \in Slots |-> mem'[a]]
          /\ \A a \in Slots : mem'[a] = IF a = S - 4 THEN bypass_read(core, LR) ELSE mem[a]
      BY <1>1, <1>4, <1>5, <2>2, <3>1, StoreOne, ZenonT(30)
    <3> QED BY <1>5, <3>2
  <2>4. /\ \A q \in Regs : core'.RB[q] = core.RB[q]
        /\ svcSP(core') = S - 4 /\ irqSP(core') = irqSP(core)
    BY <1>2, <1>5, <2>3, OwnMove DEF Own
  <2>5. core'.ac_pc = At(30) /\ At(30) # At(31)
    BY <1>9, <2>3 DEF Moved, Goes, At, Image, pc
  <2>6. SvcPlace(core', mem', v)
    BY <1>4, <2>1, <2>3, <2>4, <2>5 DEF SvcPlace, Moved, Goes, Same, S
  <2>7. Changed(S - 8, S)
    BY <1>4, <2>3 DEF Changed
  <2> QED BY <1>7, <2>3, <2>4, <2>6, <2>7 DEF Moved, Goes, Same
<1>10. CASE pc = At(30)
  <2>1. svcSP(core) = S - 4 /\ core.SPSR[SUPERVISOR_MODE] = Word(v) /\ mem[S - 4] = v.pc
    BY <1>2, <1>10 DEF SvcPlace, At, Image, pc, S
  <2>2. exec_mrs
    BY <1>10, SvcCode, Executes DEF I
  <2>3. core' = MOV(now, LR, Word(v)) /\ Idle
    BY <1>1, <1>2, <1>5, <2>1, <2>2, CoreMrs DEF exec_mrs, Becomes, Unmoved, Idle
  <2>4. Moved(core', LR, Word(v))
    BY <1>1, <1>5, <2>3, CoreMov
  <2>5. /\ \A q \in Regs : core'.RB[q] = core.RB[q]
        /\ svcSP(core') = S - 4 /\ svcLR(core') = Word(v) /\ irqSP(core') = irqSP(core)
    BY <1>2, <1>5, <2>1, <2>4, OwnMove DEF Own
  <2>6. core'.ac_pc = At(31) /\ At(31) # At(30)
    BY <1>10, <2>4 DEF Moved, Goes, At, Image, pc
  <2>7. SvcPlace(core', mem', v)
    BY <2>1, <2>3, <2>5, <2>6 DEF SvcPlace, Idle, S
  <2> QED BY <1>1, <1>7, <2>3, <2>4, <2>5, <2>7 DEF Moved, Goes, Same, Idle, Changed
<1>11. CASE pc = At(31)
  <2>1. svcSP(core) = S - 4 /\ svcLR(core) = Word(v) /\ mem[S - 4] = v.pc
    BY <1>2, <1>11 DEF SvcPlace, At, Image, pc, S
  <2>2. Instr = stm({LR}) /\ exec_stm
    BY <1>11, SvcCode, Executes DEF stm
  <2>3. /\ Moved(core', SP, S - 4 - 4) /\ UNCHANGED <<interrupted, priomask, line, configured>>
        /\ mem' = [a \in Slots |-> mem'[a]]
        /\ \A a \in Slots : mem'[a] = IF a = S - 4 - 4 THEN svcLR(core) ELSE mem[a]
    <3>1. S - 4 = bypass_read(core, SP)
      BY <1>5, <2>1
    <3>2. /\ Moved(core', SP, S - 4 - 4) /\ UNCHANGED <<interrupted, priomask, line, configured>>
          /\ mem' = [a \in Slots |-> mem'[a]]
          /\ \A a \in Slots : mem'[a] = IF a = S - 4 - 4 THEN bypass_read(core, LR) ELSE mem[a]
      BY <1>1, <1>4, <1>5, <2>2, <3>1, StoreOne, ZenonT(30)
    <3> QED BY <1>5, <3>2
  <2>4. /\ \A q \in Regs : core'.RB[q] = core.RB[q]
        /\ svcSP(core') = S - 8 /\ irqSP(core') = irqSP(core)
    BY <1>2, <1>4, <1>5, <2>3, OwnMove DEF Own
  <2>5. core'.ac_pc = At(32)
    BY <1>11, <2>3 DEF Moved, Goes, At, Image, pc
  <2>6. SvcSaved(mem', v)
    BY <1>4, <2>1, <2>3 DEF SvcSaved, S
  <2>7. SvcPlace(core', mem', v)
    BY <2>4, <2>5, <2>6 DEF SvcPlace, S
  <2>8. Changed(S - 8, S)
    BY <1>4, <2>3 DEF Changed
  <2> QED BY <1>7, <2>3, <2>4, <2>7, <2>8 DEF Moved, Goes, Same
<1>12. CASE pc = At(32)
  <2>1. svcSP(core) = S - 8 /\ SvcSaved(mem, v)
    BY <1>2, <1>12 DEF SvcPlace, At, Image, pc, S
  <2>2. Instr = msr(31) /\ 31 \in Controls /\ core.mode # USER_MODE
    BY <1>2, <1>12, SvcCode DEF Controls, SUPERVISOR_MODE, USER_MODE
  <2>3. Switched(core', 31) /\ Idle
    BY <1>1, <2>2, DoMsr
  <2>4. core'.ac_pc = At(33)
    BY <1>12, <2>3 DEF Switched, At, Image, pc
  <2>5. Contexts'
    BY <1>1, <1>6, <2>3 DEF Switched, Idle, Changed
  <2>6. OpenSvc(mem', v, Context(core', priomask'))
    BY <1>2, <1>5, <2>3, <2>4, ContextFacts DEF OpenSvc, Switched, Idle
  <2>7. RunsOpen(core', mem', interrupted', priomask')
    BY <1>2, <1>3, <2>1, <2>3, <2>6, CallOpen DEF Switched, Idle, svcSP, irqSP, S
  <2> QED BY <2>3, <2>5, <2>7 DEF Running, Switched, Idle
<1>13. CASE pc = At(38)
  <2>1. svcSP(core) = S - 8 /\ mem[S - 4] = v.pc /\ mem[S - 8] = Word(v)
    BY <1>2, <1>13 DEF SvcPlace, SvcSaved, At, Image, pc, S
  <2>2. Instr = ldm({LR}) /\ exec_ldm
    BY <1>13, SvcCode, Executes DEF ldm
  <2>3. /\ Popped(S - 8, 1)
        /\ \E vals : DOMAIN vals = {LR} /\ vals[LR] = mem[S - 8] /\ Loads(core', vals, S - 8 + 4)
    BY <1>1, <1>4, <1>5, <2>1, <2>2, LoadOne, ZenonT(30)
  <2>4. PICK vals : DOMAIN vals = {LR} /\ vals[LR] = mem[S - 8] /\ Loads(core', vals, S - 8 + 4)
    BY <2>3
  <2>5. PC # LR /\ SP \notin DOMAIN vals /\ PC \notin DOMAIN vals
    BY <2>4, RegisterFacts
  <2>6. /\ Same(core, core') /\ core'.ac_pc = pc + 4
        /\ \A q \in Regs : core'.RB[q] = core.RB[q]
        /\ svcSP(core') = S - 8 + 4 /\ svcLR(core') = Word(v) /\ irqSP(core') = irqSP(core)
    BY <1>2, <1>5, <2>1, <2>4, <2>5, OwnLoad DEF Own
  <2>7. core'.ac_pc = At(39) /\ At(39) # At(40)
    BY <1>13, <2>6 DEF At, Image, pc
  <2>8. Changed(S - 8, S) /\ mem'[S - 4] = mem[S - 4]
    BY <1>4, <2>3, SlotInt DEF Popped, Changed
  <2>9. SvcPlace(core', mem', v)
    BY <1>4, <2>1, <2>6, <2>7, <2>8 DEF SvcPlace, S
  <2> QED BY <1>7, <2>3, <2>6, <2>8, <2>9 DEF Same, Popped
<1>14. CASE pc = At(39)
  <2>1. svcSP(core) = S - 4 /\ svcLR(core) = Word(v) /\ mem[S - 4] = v.pc
    BY <1>2, <1>14 DEF SvcPlace, At, Image, pc, S
  <2>2. exec_msr_spsr
    BY <1>14, SvcCode, Executes DEF I
  <2>3. Read(LR) = Word(v)
    BY <1>1, <1>5, <2>1, NowFacts DEF Regs
  <2>4. core' = MSR_SPSR(now, Word(v), TRUE, TRUE) /\ Idle
    BY <2>2, <2>3 DEF exec_msr_spsr, Becomes, Unmoved, Idle
  <2>5. Saves(core', Word(v))
    BY <1>1, <1>3, <1>5, <2>4, CoreMsrSpsr
  <2>6. core'.ac_pc = At(40) /\ At(39) # At(40)
    BY <1>14, <2>5 DEF Saves, At, Image, pc
  <2>7. SvcPlace(core', mem', v)
    BY <1>2, <2>1, <2>4, <2>5, <2>6 DEF SvcPlace, Saves, Idle, svcSP, S
  <2> QED BY <1>1, <1>7, <2>4, <2>5, <2>7 DEF Saves, Idle, irqSP, Changed
<1>15. CASE pc = At(40)
  <2>1. svcSP(core) = S - 4 /\ core.SPSR[SUPERVISOR_MODE] = Word(v) /\ mem[S - 4] = v.pc
    BY <1>2, <1>15 DEF SvcPlace, At, Image, pc, S
  <2>2. exec_ldm_return
    BY <1>15, SvcCode, Executes DEF I
  <2>3. Read(SP) = S - 4
    BY <1>1, <1>5, <2>1, NowFacts DEF Regs
  <2>4. Resumes(core', v, v.pc)
    <3>1. LET popped == bypass_write(now, SP, Read(SP) + 4)
          IN  core' = finish(SPSRtoCPSR([popped EXCEPT !.RB[PC] = mem[Read(SP)]]))
      BY <2>2 DEF exec_ldm_return, Returns
    <3>2. mem[Read(SP)] = v.pc
      BY <2>1, <2>3
    <3> QED BY <1>1, <1>2, <1>3, <1>5, <2>1, <3>1, <3>2, CoreReturn
  <2>5. /\ interrupted' = SubSeq(interrupted, 1, Len(interrupted) - 1)
        /\ UNCHANGED <<priomask, line, configured>>
        /\ mem' = [a \in Slots |-> IF a \in (S - 4)..(S - 4 + 4 * 1 - 1) THEN 0 ELSE mem[a]]
    BY <2>2, <2>3 DEF exec_ldm_return, Returns, Pop
  <2>6. mem' = [a \in Slots |-> mem'[a]] /\ Changed(S - 8, S)
    BY <1>4, <2>5 DEF Changed
  <2>7. /\ IsCore(core') /\ Status(core') = 16 /\ core'.ac_pc = At(67) /\ core'.VBAR = core.VBAR
        /\ core'.RB[SP] = USR_STACK /\ svcSP(core') = S /\ irqSP(core') = irqSP(core)
        /\ \A r \in GPR \ {0, 6, 7} : core'.RB[r] = 0
    <3>1. /\ IsCore(core') /\ Status(core') = 16 /\ core'.ac_pc = At(67) /\ core'.VBAR = core.VBAR
          /\ core'.RB[SP] = USR_STACK /\ \A r \in GPR \ {0, 6, 7} : core'.RB[r] = 0
      BY <1>1, <1>2, <1>3, <1>5, <2>4, OtherRegisters DEF Resumes
    <3>2. svcSP(core') = svcSP(core) + 4 /\ irqSP(core') = irqSP(core)
      BY <1>2, <2>4, OwnBank DEF Resumes, svcSP, irqSP
    <3> QED BY <1>4, <2>1, <3>1, <3>2
  <2>8. Contexts' /\ Depth' = 0
    <3>1. Depth > 0 /\ Spares(Depth, S - 8, S)
      BY <1>2 DEF Spares
    <3>2. Contexts' /\ Depth' = Depth - 1
      BY <1>4, <2>5, <2>6, <2>7, <3>1, ReturnContexts, ZenonT(30)
    <3> QED BY <1>2, <3>2
  <2>9. AtBase(core', priomask')
    <3>1. At(67) # At(27)
      BY DEF At, Image
    <3> QED BY <1>2, <2>5, <2>7, <3>1 DEF AtBase, S
  <2>10. RunsOpen(core', mem', interrupted', priomask')
    BY <2>8, <2>9, BaseFacts DEF Depth
  <2> QED BY <2>5, <2>7, <2>8, <2>10 DEF Running
<1> QED BY <1>2, <1>8, <1>9, <1>10, <1>11, <1>12, <1>13, <1>14, <1>15 DEF SvcPlace, pc

-----------------------------------------------------------------------------
(* System mode.                                                            *)

\* In system mode the registers are those of the application.
LEMMA SystemFacts ==
  ASSUME IsCore(core), Status(core) \in {31, 63}
  PROVE  /\ core.mode = SYSTEM_MODE /\ core.mode # USER_MODE /\ core.mode \in {USER_MODE, SYSTEM_MODE}
         /\ \A r \in Regs : r \notin Banked(core.mode) /\ bypass_read(core, r) = core.RB[r]
         /\ 0 \in Regs /\ 6 \in Regs /\ 7 \in Regs /\ SP \in Regs /\ LR \in Regs
         /\ 0 # 6 /\ 0 # 7 /\ 6 # 7
         /\ 0 \notin {SP, LR} /\ 6 \notin {SP, LR} /\ 7 \notin {SP, LR} /\ SP # LR
<1>1. core.mode = SYSTEM_MODE /\ SYSTEM_MODE # USER_MODE
  BY StatusFacts DEF SYSTEM_MODE, USER_MODE
<1>2. Banked(core.mode) = {}
  BY <1>1, BankedFacts
<1> QED BY <1>1, <1>2, RegisterFacts DEF Regs, bypass_read

\* The status is that of the mode and the masks.
LEMMA SameStatus ==
  ASSUME NEW d, d.mode = core.mode, d.fiq = core.fiq, d.irq = core.irq, d.T = core.T
  PROVE  Status(d) = Status(core)
BY DEF Status

\* the other modes
Others(d) == svcSP(d) = svcSP(core) /\ irqSP(d) = irqSP(core)

SystemMoved(d, r, x) ==
  /\ IsCore(d) /\ d.VBAR = core.VBAR /\ Status(d) = Status(core) /\ d.ac_pc = pc + 4
  /\ \A q \in Regs : d.RB[q] = IF q = r THEN x ELSE core.RB[q]
  /\ Others(d)

\* MOV in system mode
LEMMA SystemMove ==
  ASSUME IsCore(core), Status(core) \in {31, 63}, NEW d, NEW r \in Regs, NEW x, Moved(d, r, x)
  PROVE  SystemMoved(d, r, x)
<1>1. r \notin Banked(core.mode)
  BY SystemFacts
<1>2. Same(core, d) /\ d.ac_pc = pc + 4 /\ d.bank = core.bank
      /\ \A q \in Regs : d.RB[q] = IF q = r THEN x ELSE core.RB[q]
  BY <1>1 DEF Moved, Goes
<1> QED BY <1>2, SameStatus DEF SystemMoved, Same, Others, svcSP, irqSP

\* ldmfd in system mode
LEMMA SystemLoad ==
  ASSUME IsCore(core), Status(core) \in {31, 63}, NEW d, NEW vals, NEW sp, Loads(d, vals, sp),
         SP \notin DOMAIN vals
  PROVE  /\ IsCore(d) /\ d.VBAR = core.VBAR /\ Status(d) = Status(core)
         /\ d.ac_pc = IF PC \in DOMAIN vals THEN vals[PC] ELSE pc + 4
         /\ d.RB[SP] = sp
         /\ \A q \in Regs \ {SP} : d.RB[q] = IF q \in DOMAIN vals THEN vals[q] ELSE core.RB[q]
         /\ Others(d)
<1>1. Banked(core.mode) = {} /\ core.mode = SYSTEM_MODE
  BY SystemFacts, BankedFacts
<1>2. /\ Same(core, d) /\ d.ac_pc = IF PC \in DOMAIN vals THEN vals[PC] ELSE pc + 4
      /\ d.RB[SP] = sp
      /\ \A q \in Regs \ {SP} : d.RB[q] = IF q \in DOMAIN vals THEN vals[q] ELSE core.RB[q]
  BY <1>1 DEF Loads
<1>3. SUPERVISOR_MODE # core.mode /\ IRQ_MODE # core.mode
  BY <1>1 DEF SUPERVISOR_MODE, IRQ_MODE, SYSTEM_MODE
<1>4. Others(d)
  BY <1>3, OwnBank DEF Loads, Others, svcSP, irqSP
<1> QED BY <1>2, <1>4, SameStatus DEF Same

\* The flags are no part of the status.
LEMMA SystemFlags ==
  ASSUME NEW d, NEW f, Flagged(d, f)
  PROVE  /\ IsCore(d) /\ d.VBAR = core.VBAR /\ Status(d) = Status(core) /\ d.ac_pc = pc + 4
         /\ Others(d)
BY SameStatus DEF Flagged, Others, svcSP, irqSP

\* BLX in system mode
LEMMA SystemBlx ==
  ASSUME IsCore(core), Status(core) = 31, NEW d, NEW rm \in {6, 7}, Linked(d, rm)
  PROVE  /\ IsCore(d) /\ d.VBAR = core.VBAR /\ Status(d) = IF rm = 7 THEN 63 ELSE 31
         /\ d.ac_pc = core.RB[rm] /\ Others(d)
         /\ \A q \in Regs : d.RB[q] = IF q = LR THEN pc + 4 ELSE core.RB[q]
<1>1. core.mode = SYSTEM_MODE /\ ~core.fiq /\ ~core.irq
  BY StatusFacts
<1>2. IsCore(d) /\ d.mode = SYSTEM_MODE /\ ~d.fiq /\ ~d.irq /\ (d.T <=> rm = 7)
  BY <1>1 DEF Linked
<1>3. Status(d) = IF rm = 7 THEN 63 ELSE 31
  BY <1>2, StatusFacts
<1> QED BY <1>3 DEF Linked, Others, svcSP, irqSP

-----------------------------------------------------------------------------
(* A system call, in system mode.                                          *)

\* Every instruction of svc_handler and its routine in system mode.
LEMMA CallStep ==
  ASSUME Contexts, configured = TRUE, core.VBAR = Image,
         RunsOpen(core, mem, interrupted, priomask), Depth = 1, interrupted[1].free = Svc, step
  PROVE  Contexts' /\ Running'
<1> DEFINE v == interrupted[1].view
           u == USR_STACK
           x == Context(core, priomask)
           y == Context(core', priomask')
<1>1. /\ IsCore(core) /\ IsSeq(interrupted) /\ Waiting
      /\ \A r \in GPR \ {0, 6, 7} : core.RB[r] = 0
      /\ mem = [a \in Slots |-> mem[a]] /\ Len(interrupted) = 1
  BY DEF Contexts, Types, Depth
<1>2. /\ v.regs[SP] = u /\ Calls(interrupted) = 1 /\ Level(interrupted, 1) = 0
  BY <1>1, CallFacts
<1>3. /\ OpenSvc(mem, v, x) /\ SvcSaved(mem, v)
      /\ svcSP(core) = SVC_STACK - 8 /\ irqSP(core) = IRQ_STACK
  BY <1>1, <1>2, CallOpen
<1>4. /\ u \in Int /\ u - 4 \in Slots /\ u - 8 \in Slots /\ u - 12 \in Slots
      /\ u - 4 \in Int /\ u - 8 \in Int /\ u - 12 \in Int /\ IRQ_STACK <= u - 12
      /\ u - 4 + 4 = u /\ u - 12 + 12 = u /\ u - 12 + 4 = u - 8 /\ u - 12 + 8 = u - 4
      /\ u - 4 # u - 8 /\ u - 4 # u - 12 /\ u - 8 # u - 12
  <2>1. /\ u \in Int /\ u - 4 \in Slots /\ u - 8 \in Slots /\ u - 12 \in Slots
        /\ IRQ_STACK <= u - 12
    BY <1>1, <1>2, UserStack
  <2> HIDE DEF u
  <2> QED BY <2>1
<1>5. /\ x.pc = pc /\ x.status = Status(core) /\ x.mask = priomask
      /\ \A r \in Regs : x.regs[r] = core.RB[r]
      /\ y.pc = core'.ac_pc /\ y.status = Status(core') /\ y.mask = priomask'
      /\ \A r \in Regs : y.regs[r] = core'.RB[r]
  BY ContextFacts DEF pc
<1> HIDE DEF u, x, y
<1>6. priomask = 0 /\ Status(core) \in {31, 63}
  BY <1>3, <1>5 DEF OpenSvc
<1>7. /\ core.mode = SYSTEM_MODE /\ core.mode # USER_MODE /\ core.mode \in {USER_MODE, SYSTEM_MODE}
      /\ \A r \in Regs : r \notin Banked(core.mode) /\ bypass_read(core, r) = core.RB[r]
      /\ 0 \in Regs /\ 6 \in Regs /\ 7 \in Regs /\ SP \in Regs /\ LR \in Regs
      /\ 0 # 6 /\ 0 # 7 /\ 6 # 7
      /\ 0 \notin {SP, LR} /\ 6 \notin {SP, LR} /\ 7 \notin {SP, LR} /\ SP # LR
  BY <1>1, <1>6, SystemFacts
<1>8. ASSUME IsCore(core'), core'.VBAR = core.VBAR, Others(core'),
             \A r \in Regs \ {0, 6, 7, SP, LR} : core'.RB[r] = core.RB[r],
             UNCHANGED <<interrupted, priomask, line, configured>>,
             mem' = [a \in Slots |-> mem'[a]], Changed(u - 12, u)
      PROVE  /\ Contexts' /\ SvcSaved(mem', v)
             /\ OpenSvc(mem', v, y) => Running'
  <2>1. \A r \in GPR \ {0, 6, 7} : core'.RB[r] = 0
    BY <1>1, <1>8, OtherRegisters
  <2>2. Depth > 0 => Spares(Depth, u - 12, u)
    BY DEF Spares
  <2>3. Contexts'
    BY <1>4, <1>8, <2>1, <2>2, InnerMem, ZenonT(30)
  <2>4. SvcSaved(mem', v)
    <3>1. /\ SVC_STACK - 4 \in Slots /\ SVC_STACK - 8 \in Slots
          /\ SVC_STACK - 4 < u - 12 /\ SVC_STACK - 8 < u - 12
      BY <1>4, SvcFrame, StackFacts
    <3> QED BY <1>3, <1>8, <3>1 DEF SvcSaved, Changed
  <2>5. ASSUME OpenSvc(mem', v, y) PROVE Running'
    <3>1. RunsOpen(core', mem', interrupted', priomask')
      BY <1>1, <1>2, <1>3, <1>8, <2>4, <2>5, CallOpen DEF Others, y
    <3> QED BY <1>8, <3>1 DEF Running
  <2> QED BY <2>3, <2>4, <2>5
<1>9. CASE pc = At(33)
  <2>1. Status(core) = 31 /\ core.RB[SP] = u /\ core.RB[6] = v.regs[6]
    BY <1>2, <1>3, <1>5, <1>7, <1>9 DEF OpenSvc, At, Image
  <2>2. Instr = stm({0}) /\ exec_stm
    BY <1>9, CallCode, Executes DEF stm
  <2>3. /\ Moved(core', SP, u - 4) /\ UNCHANGED <<interrupted, priomask, line, configured>>
        /\ mem' = [a \in Slots |-> mem'[a]]
        /\ \A a \in Slots : mem'[a] = IF a = u - 4 THEN bypass_read(core, 0) ELSE mem[a]
    <3>1. u = bypass_read(core, SP)
      BY <1>7, <2>1
    <3> QED BY <1>1, <1>4, <1>7, <2>2, <3>1, StoreOne, ZenonT(30)
  <2>4. /\ IsCore(core') /\ core'.VBAR = core.VBAR /\ Status(core') = Status(core)
        /\ core'.ac_pc = pc + 4
        /\ \A q \in Regs : core'.RB[q] = IF q = SP THEN u - 4 ELSE core.RB[q]
        /\ Others(core')
    <3>1. SystemMoved(core', SP, u - 4)
      BY <1>1, <1>6, <1>7, <2>3, SystemMove, ZenonT(30)
    <3> QED BY <3>1 DEF SystemMoved
  <2>5. core'.ac_pc = At(34) /\ At(34) # At(35)
    BY <1>9, <2>4 DEF At, Image, pc
  <2>6. Changed(u - 12, u)
    BY <1>4, <2>3, SlotInt DEF Changed
  <2>7. OpenSvc(mem', v, y)
    BY <1>2, <1>5, <1>6, <1>7, <2>1, <2>3, <2>4, <2>5 DEF OpenSvc
  <2> QED BY <1>8, <2>3, <2>4, <2>6, <2>7
<1>10. CASE pc = At(34)
  <2>1. Status(core) = 31 /\ core.RB[SP] = u - 4 /\ core.RB[6] = v.regs[6]
    BY <1>2, <1>3, <1>5, <1>7, <1>10 DEF OpenSvc, At, Image
  <2>2. exec_dispatch
    BY <1>10, CallCode, Executes DEF I
  <2>3. core' = [MOV(MOV(now, 0, 0), 7, sys_entry) EXCEPT !.flags = 0] /\ Idle
    BY <2>2 DEF exec_dispatch, Becomes, Unmoved, Idle
  <2>4. /\ Flagged(core', 0)
        /\ \A q \in Regs : core'.RB[q] = IF q = 7 THEN sys_entry ELSE IF q = 0 THEN 0 ELSE core.RB[q]
    BY <1>1, <2>3, CoreMovMovFlags
  <2>5. /\ IsCore(core') /\ core'.VBAR = core.VBAR /\ Status(core') = 31
        /\ core'.ac_pc = pc + 4 /\ Others(core')
    BY <2>1, <2>4, SystemFlags
  <2>6. core'.ac_pc = At(35)
    BY <1>10, <2>5 DEF At, Image, pc
  <2>7. OpenSvc(mem', v, y)
    BY <1>2, <1>5, <1>6, <1>7, <2>1, <2>3, <2>4, <2>5, <2>6 DEF OpenSvc, Idle
  <2> QED BY <1>1, <1>8, <2>3, <2>4, <2>5, <2>7 DEF Idle, Changed
<1>11. CASE pc = At(35)
  <2>1. /\ Status(core) = 31 /\ core.RB[SP] = u - 4 /\ core.RB[6] = v.regs[6]
        /\ core.RB[7] = sys_entry
    BY <1>2, <1>3, <1>5, <1>7, <1>11 DEF OpenSvc, At, Image
  <2>2. Instr = ldm({0}) /\ exec_ldm
    BY <1>11, CallCode, Executes DEF ldm
  <2>3. /\ Popped(u - 4, 1)
        /\ \E vals : DOMAIN vals = {0} /\ vals[0] = mem[u - 4] /\ Loads(core', vals, u - 4 + 4)
    <3>1. u - 4 = bypass_read(core, SP) /\ 0 \in {0, 7, LR, PC}
      BY <1>7, <2>1
    <3> QED BY <1>1, <1>4, <2>2, <3>1, LoadOne, ZenonT(30)
  <2>4. PICK vals : DOMAIN vals = {0} /\ Loads(core', vals, u - 4 + 4)
    BY <2>3
  <2>5. SP \notin DOMAIN vals /\ PC \notin DOMAIN vals
    BY <2>4, RegisterFacts
  <2>6. /\ IsCore(core') /\ core'.VBAR = core.VBAR /\ Status(core') = Status(core)
        /\ core'.ac_pc = pc + 4 /\ core'.RB[SP] = u - 4 + 4
        /\ \A q \in Regs \ {SP} : core'.RB[q] = IF q \in DOMAIN vals THEN vals[q] ELSE core.RB[q]
        /\ Others(core')
    BY <1>1, <1>6, <2>4, <2>5, SystemLoad
  <2>7. core'.ac_pc = At(36) /\ core'.RB[SP] = u
    BY <1>4, <1>11, <2>6 DEF At, Image, pc
  <2>8. core'.RB[6] = core.RB[6] /\ core'.RB[7] = core.RB[7]
    BY <1>7, <2>4, <2>6
  <2>9. Changed(u - 12, u) /\ UNCHANGED <<interrupted, priomask, line, configured>>
        /\ mem' = [a \in Slots |-> mem'[a]]
    BY <1>4, <2>3, SlotInt DEF Popped, Changed
  <2>10. OpenSvc(mem', v, y)
    BY <1>2, <1>5, <1>6, <1>7, <2>1, <2>6, <2>7, <2>8, <2>9 DEF OpenSvc
  <2>11. \A r \in Regs \ {0, 6, 7, SP, LR} : core'.RB[r] = core.RB[r]
    BY <2>4, <2>6
  <2> QED BY <1>8, <2>6, <2>9, <2>10, <2>11
<1>12. CASE pc = At(36)
  <2>1. /\ Status(core) = 31 /\ core.RB[SP] = u /\ core.RB[6] = v.regs[6]
        /\ core.RB[7] = sys_entry
    BY <1>2, <1>3, <1>5, <1>7, <1>12 DEF OpenSvc, At, Image
  <2>2. Instr = [op |-> "blx", rm |-> 7]
    BY <1>12, CallCode
  <2>3. Linked(core', 7) /\ Idle
    BY <1>1, <1>7, <2>2, DoBlx
  <2>4. /\ IsCore(core') /\ core'.VBAR = core.VBAR /\ Status(core') = 63
        /\ core'.ac_pc = core.RB[7] /\ Others(core')
        /\ \A q \in Regs : core'.RB[q] = IF q = LR THEN pc + 4 ELSE core.RB[q]
    BY <1>1, <2>1, <2>3, SystemBlx
  <2>5. core'.ac_pc = At(41) /\ core'.RB[LR] = At(37)
    <3>1. core'.ac_pc = At(41)
      BY <2>1, <2>4 DEF sys_entry
    <3>2. pc + 4 = At(37)
      BY <1>12 DEF At, Image
    <3> QED BY <1>7, <2>4, <3>1, <3>2
  <2>6. OpenSvc(mem', v, y)
    BY <1>2, <1>5, <1>6, <1>7, <2>1, <2>3, <2>4, <2>5 DEF OpenSvc, Idle
  <2> QED BY <1>1, <1>8, <2>3, <2>4, <2>6 DEF Idle, Changed
<1>13. CASE pc = At(37)
  <2>1. core.RB[SP] = u /\ core.RB[6] = v.regs[6]
    BY <1>2, <1>3, <1>5, <1>7, <1>13 DEF OpenSvc, At, Image
  <2>2. Instr = msr(211) /\ 211 \in Controls
    BY <1>13, CallCode DEF Controls
  <2>3. Switched(core', 211) /\ Idle
    BY <1>1, <1>7, <2>2, DoMsr
  <2>4. /\ IsCore(core') /\ core'.VBAR = core.VBAR /\ core'.mode = SUPERVISOR_MODE /\ core'.irq
        /\ core'.ac_pc = At(38) /\ Others(core') /\ \A q \in Regs : core'.RB[q] = core.RB[q]
    BY <1>13, <2>3 DEF Switched, SUPERVISOR_MODE, Others, svcSP, irqSP, At, Image, pc
  <2>5. Contexts' /\ SvcSaved(mem', v)
    BY <1>1, <1>8, <2>3, <2>4 DEF Idle, Changed
  <2>6. SvcPlace(core', mem', v)
    BY <1>3, <2>4, <2>5 DEF SvcPlace, Others
  <2>7. RunsSvc(core', mem', interrupted', priomask')
    BY <1>1, <1>2, <1>3, <1>6, <1>7, <2>1, <2>3, <2>4, <2>6 DEF RunsSvc, Idle, Others
  <2> QED BY <2>3, <2>4, <2>5, <2>7 DEF Running, Idle
<1>14. CASE pc = At(41)
  <2>1. Status(core) = 63 /\ core.RB[SP] = u /\ core.RB[6] = v.regs[6] /\ core.RB[LR] = At(37)
    BY <1>2, <1>3, <1>5, <1>7, <1>14 DEF OpenSvc, At, Image
  <2>2. Instr = stm({6, 7, LR}) /\ exec_stm
    BY <1>14, CallCode, Executes DEF stm
  <2>3. /\ Moved(core', SP, u - 12) /\ UNCHANGED <<interrupted, priomask, line, configured>>
        /\ mem' = [a \in Slots |-> mem'[a]]
        /\ \A a \in Slots : mem'[a] = IF a = u - 12 THEN bypass_read(core, 6)
                                      ELSE IF a = u - 8 THEN bypass_read(core, 7)
                                      ELSE IF a = u - 4 THEN bypass_read(core, LR) ELSE mem[a]
    <3>1. u = bypass_read(core, SP)
      BY <1>7, <2>1
    <3> QED BY <1>1, <1>4, <2>2, <3>1, StoreThree, ZenonT(30)
  <2>4. /\ IsCore(core') /\ core'.VBAR = core.VBAR /\ Status(core') = Status(core)
        /\ core'.ac_pc = pc + 4
        /\ \A q \in Regs : core'.RB[q] = IF q = SP THEN u - 12 ELSE core.RB[q]
        /\ Others(core')
    <3>1. SystemMoved(core', SP, u - 12)
      BY <1>1, <1>6, <1>7, <2>3, SystemMove, ZenonT(30)
    <3> QED BY <3>1 DEF SystemMoved
  <2>5. core'.ac_pc = At(42)
    BY <1>14, <2>4 DEF At, Image, pc
  <2>6. Changed(u - 12, u) /\ mem'[u - 12] = v.regs[6] /\ mem'[u - 4] = At(37)
    <3>1. mem'[u - 12] = v.regs[6] /\ mem'[u - 4] = At(37)
      BY <1>4, <1>7, <2>1, <2>3
    <3>2. Changed(u - 12, u)
      BY <1>4, <2>3, SlotInt DEF Changed
    <3> QED BY <3>1, <3>2
  <2>7. OpenSvc(mem', v, y)
    BY <1>2, <1>5, <1>6, <1>7, <2>1, <2>3, <2>4, <2>5, <2>6 DEF OpenSvc
  <2> QED BY <1>8, <2>3, <2>4, <2>6, <2>7
<1>15. CASE pc = At(42)
  <2>1. /\ Status(core) = 63 /\ core.RB[SP] = u - 12
        /\ mem[u - 12] = v.regs[6] /\ mem[u - 4] = At(37)
    BY <1>2, <1>3, <1>5, <1>7, <1>15 DEF OpenSvc, At, Image
  <2>2. exec_work
    BY <1>15, CallCode, Executes DEF I
  <2>3. core' = [MOV(MOV(now, 0, 0), 6, 0) EXCEPT !.flags = 1] /\ Idle
    BY <2>2 DEF exec_work, Becomes, Unmoved, Idle
  <2>4. /\ Flagged(core', 1)
        /\ \A q \in Regs : core'.RB[q] = IF q = 6 THEN 0 ELSE IF q = 0 THEN 0 ELSE core.RB[q]
    BY <1>1, <2>3, CoreMovMovFlags
  <2>5. /\ IsCore(core') /\ core'.VBAR = core.VBAR /\ Status(core') = 63
        /\ core'.ac_pc = pc + 4 /\ Others(core')
    BY <2>1, <2>4, SystemFlags
  <2>6. core'.ac_pc = At(43)
    BY <1>15, <2>5 DEF At, Image, pc
  <2>7. OpenSvc(mem', v, y)
    BY <1>2, <1>5, <1>6, <1>7, <2>1, <2>3, <2>4, <2>5, <2>6 DEF OpenSvc, Idle
  <2> QED BY <1>1, <1>8, <2>3, <2>4, <2>5, <2>7 DEF Idle, Changed
<1>16. CASE pc = At(43)
  <2>1. /\ Status(core) = 63 /\ core.RB[SP] = u - 12
        /\ mem[u - 12] = v.regs[6] /\ mem[u - 4] = At(37)
    BY <1>2, <1>3, <1>5, <1>7, <1>16 DEF OpenSvc, At, Image
  <2>2. Instr = ldm({6, 7, PC}) /\ exec_ldm
    BY <1>16, CallCode, Executes DEF ldm
  <2>3. /\ Popped(u - 12, 3)
        /\ \E vals : /\ DOMAIN vals = {6, 7, PC} /\ vals[6] = mem[u - 12]
                     /\ vals[7] = mem[u - 12 + 4] /\ vals[PC] = mem[u - 12 + 8]
                     /\ Loads(core', vals, u - 12 + 12)
    <3>1. u - 12 = bypass_read(core, SP) /\ PC \in {LR, PC}
      BY <1>7, <2>1
    <3> QED BY <1>1, <1>4, <2>2, <3>1, LoadThree, ZenonT(30)
  <2>4. PICK vals : /\ DOMAIN vals = {6, 7, PC} /\ vals[6] = mem[u - 12]
                    /\ vals[PC] = mem[u - 12 + 8] /\ Loads(core', vals, u - 12 + 12)
    BY <2>3
  <2>5. SP \notin DOMAIN vals /\ PC \in DOMAIN vals
    BY <2>4, RegisterFacts
  <2>6. /\ IsCore(core') /\ core'.VBAR = core.VBAR /\ Status(core') = Status(core)
        /\ core'.ac_pc = vals[PC] /\ core'.RB[SP] = u - 12 + 12
        /\ \A q \in Regs \ {SP} : core'.RB[q] = IF q \in DOMAIN vals THEN vals[q] ELSE core.RB[q]
        /\ Others(core')
    BY <1>1, <1>6, <2>4, <2>5, SystemLoad
  <2>7. core'.ac_pc = At(37) /\ core'.RB[SP] = u /\ At(37) # At(41)
    BY <1>4, <2>1, <2>4, <2>6 DEF At, Image
  <2>8. core'.RB[6] = v.regs[6]
    BY <1>7, <2>1, <2>4, <2>6
  <2>9. Changed(u - 12, u) /\ UNCHANGED <<interrupted, priomask, line, configured>>
        /\ mem' = [a \in Slots |-> mem'[a]]
    BY <1>4, <2>3, SlotInt DEF Popped, Changed
  <2>10. OpenSvc(mem', v, y)
    BY <1>2, <1>5, <1>6, <1>7, <2>1, <2>6, <2>7, <2>8, <2>9 DEF OpenSvc
  <2>11. \A r \in Regs \ {0, 6, 7, SP, LR} : core'.RB[r] = core.RB[r]
    BY <2>4, <2>6 DEF Regs
  <2> QED BY <1>8, <2>6, <2>9, <2>10, <2>11
<1> QED BY <1>3, <1>5, <1>9, <1>10, <1>11, <1>12, <1>13, <1>14, <1>15, <1>16 DEF OpenSvc

-----------------------------------------------------------------------------
(* An interrupt, in system mode.                                           *)

\* RunsOpen in a handler of an interrupt
LEMMA LineOpen ==
  ASSUME NEW c, NEW M, NEW h, NEW m, Len(h) \in Nat, Len(h) > 0, h[Len(h)].free = {}
  PROVE  LET n == Len(h)
             v == h[n].view
             s == FrameTop(h, n)
         IN  RunsOpen(c, M, h, m) <=>
               /\ OpenIrq(M, v, Context(c, m)) /\ IrqSaved(M, s, v) /\ M[s - 20] = v.mask
               /\ svcSP(c) = SVC_STACK - 8 * Calls(h) /\ irqSP(c) = IRQ_STACK - 20 * Level(h, n)
<1>1. Und # {} /\ Len(h) # 0
  BY DEF Und
<1> QED BY <1>1 DEF RunsOpen, Open

\* Every instruction of irq_handler and the line's handler in system mode.
LEMMA LineStep ==
  ASSUME Contexts, configured = TRUE, core.VBAR = Image,
         RunsOpen(core, mem, interrupted, priomask), Depth > 0, interrupted[Depth].free = {}, step
  PROVE  Contexts' /\ Running'
<1> DEFINE v == interrupted[Depth].view
           u == v.regs[SP]
           s == FrameTop(interrupted, Depth)
           x == Context(core, priomask)
           y == Context(core', priomask')
<1>1. /\ IsCore(core) /\ IsSeq(interrupted) /\ Waiting /\ Depth \in Nat /\ Depth \in 1..Depth
      /\ \A r \in GPR \ {0, 6, 7} : core.RB[r] = 0
      /\ mem = [a \in Slots |-> mem[a]] /\ Len(interrupted) = Depth
  BY DepthFacts DEF Contexts, Types, Depth
<1>2. /\ OpenIrq(mem, v, x) /\ IrqSaved(mem, s, v) /\ mem[s - 20] = v.mask
      /\ svcSP(core) = SVC_STACK - 8 * Calls(interrupted)
      /\ irqSP(core) = IRQ_STACK - 20 * Level(interrupted, Depth)
  BY <1>1, LineOpen
<1>3. /\ s \in Int /\ s <= IRQ_STACK /\ \A i \in {4, 8, 12, 16, 20} : s - i \in Slots
  BY <1>1, IrqFrame
<1>4. irqSP(core) = s - 20
  <2>1. Level(interrupted, Depth) \in Int
    BY <1>1, Room
  <2> QED BY <1>2, <2>1, StackFacts DEF FrameTop
<1>5. /\ u \in Int /\ u - 4 \in Slots /\ u - 8 \in Slots /\ u - 12 \in Slots
      /\ u - 4 \in Int /\ u - 8 \in Int /\ u - 12 \in Int /\ IRQ_STACK <= u - 12
      /\ u - 8 + 8 = u /\ u - 8 + 4 = u - 4 /\ u - 12 + 4 = u - 8 /\ u - 8 - 4 = u - 12
      /\ u - 4 # u - 8 /\ u - 4 # u - 12 /\ u - 8 # u - 12 /\ u <= u
  <2>1. /\ u \in Int /\ u - 4 \in Slots /\ u - 8 \in Slots /\ u - 12 \in Slots
        /\ IRQ_STACK <= u - 12
    BY <1>1, UserStack
  <2> HIDE DEF u
  <2> QED BY <2>1
<1>6. /\ x.pc = pc /\ x.status = Status(core) /\ x.mask = priomask
      /\ \A r \in Regs : x.regs[r] = core.RB[r]
      /\ y.pc = core'.ac_pc /\ y.status = Status(core') /\ y.mask = priomask'
      /\ \A r \in Regs : y.regs[r] = core'.RB[r]
  BY ContextFacts DEF pc
<1> HIDE DEF u, s, x, y
<1>7. Status(core) = 31 /\ Status(core) \in {31, 63} /\ priomask \in Masks
  BY <1>2, <1>6 DEF OpenIrq
<1>8. /\ core.mode = SYSTEM_MODE /\ core.mode # USER_MODE /\ core.mode \in {USER_MODE, SYSTEM_MODE}
      /\ \A r \in Regs : r \notin Banked(core.mode) /\ bypass_read(core, r) = core.RB[r]
      /\ 0 \in Regs /\ 6 \in Regs /\ 7 \in Regs /\ SP \in Regs /\ LR \in Regs
      /\ 0 # 6 /\ 0 # 7 /\ 6 # 7
      /\ 0 \notin {SP, LR} /\ 6 \notin {SP, LR} /\ 7 \notin {SP, LR} /\ SP # LR
  BY <1>1, <1>7, SystemFacts
<1>9. ASSUME IsCore(core'), core'.VBAR = core.VBAR, Others(core'),
             \A r \in Regs \ {0, 6, 7, SP, LR} : core'.RB[r] = core.RB[r],
             UNCHANGED <<interrupted, priomask, line, configured>>,
             mem' = [a \in Slots |-> mem'[a]], Changed(u - 12, u)
      PROVE  /\ Contexts' /\ IrqSaved(mem', s, v) /\ mem'[s - 20] = v.mask
             /\ OpenIrq(mem', v, y) => Running'
  <2>1. \A r \in GPR \ {0, 6, 7} : core'.RB[r] = 0
    BY <1>1, <1>9, OtherRegisters
  <2>2. Depth > 0 => Spares(Depth, u - 12, u)
    BY <1>5 DEF Spares, u
  <2>3. Contexts'
    BY <1>5, <1>9, <2>1, <2>2, InnerMem, ZenonT(30)
  <2>4. IrqSaved(mem', s, v) /\ mem'[s - 20] = v.mask
    <3>1. \A i \in {4, 8, 12, 16, 20} : s - i < u - 12 /\ s - i \in Slots
      BY <1>3, <1>5, StackFacts
    <3>2. \A i \in {4, 8, 12, 16, 20} : mem'[s - i] = mem[s - i]
      BY <1>9, <3>1 DEF Changed
    <3> QED BY <1>2, <3>2 DEF IrqSaved
  <2>5. ASSUME OpenIrq(mem', v, y) PROVE Running'
    <3>1. RunsOpen(core', mem', interrupted', priomask')
      BY <1>1, <1>2, <1>9, <2>4, <2>5, LineOpen DEF Others, y, s
    <3> QED BY <1>9, <3>1 DEF Running
  <2> QED BY <2>3, <2>4, <2>5
<1>10. CASE pc = At(53)
  <2>1. core.RB[SP] = u /\ core.RB[0] = v.regs[0] /\ core.RB[LR] = v.regs[LR]
    BY <1>2, <1>6, <1>8, <1>10 DEF OpenIrq, At, Image, u
  <2>2. Instr = stm({0, LR}) /\ exec_stm
    BY <1>10, LineCode, Executes DEF stm
  <2>3. /\ Moved(core', SP, u - 8) /\ UNCHANGED <<interrupted, priomask, line, configured>>
        /\ mem' = [a \in Slots |-> mem'[a]]
        /\ \A a \in Slots : mem'[a] = IF a = u - 8 THEN bypass_read(core, 0)
                                      ELSE IF a = u - 4 THEN bypass_read(core, LR) ELSE mem[a]
    <3>1. u = bypass_read(core, SP)
      BY <1>8, <2>1
    <3> QED BY <1>1, <1>5, <2>2, <3>1, StoreTwo, ZenonT(30)
  <2>4. /\ IsCore(core') /\ core'.VBAR = core.VBAR /\ Status(core') = Status(core)
        /\ core'.ac_pc = pc + 4 /\ Others(core')
        /\ \A q \in Regs : core'.RB[q] = IF q = SP THEN u - 8 ELSE core.RB[q]
    <3>1. SystemMoved(core', SP, u - 8)
      BY <1>1, <1>7, <1>8, <2>3, SystemMove, ZenonT(30)
    <3> QED BY <3>1 DEF SystemMoved
  <2>5. core'.ac_pc = At(54) /\ At(54) # At(55) /\ At(54) # At(63)
    BY <1>10, <2>4 DEF At, Image, pc
  <2>6. Changed(u - 12, u) /\ mem'[u - 8] = v.regs[0] /\ mem'[u - 4] = v.regs[LR]
    <3>1. mem'[u - 8] = v.regs[0] /\ mem'[u - 4] = v.regs[LR]
      BY <1>5, <1>8, <2>1, <2>3
    <3>2. Changed(u - 12, u)
      BY <1>5, <2>3, SlotInt DEF Changed
    <3> QED BY <3>1, <3>2
  <2>7. OpenIrq(mem', v, y)
    <3>1. y.status = 31 /\ y.mask \in Masks /\ y.pc = At(54)
      BY <1>6, <1>7, <2>3, <2>4, <2>5
    <3>2. y.regs[SP] = u - 8
      BY <1>6, <1>8, <2>4
    <3> HIDE DEF v
    <3> QED BY <2>5, <2>6, <3>1, <3>2 DEF OpenIrq, u
  <2> QED BY <1>9, <2>3, <2>4, <2>6, <2>7
<1>11. CASE pc = At(54)
  <2>1. core.RB[SP] = u - 8 /\ mem[u - 8] = v.regs[0] /\ mem[u - 4] = v.regs[LR]
    BY <1>2, <1>6, <1>8, <1>11 DEF OpenIrq, At, Image, u
  <2>2. exec_address
    BY <1>11, LineCode, Executes DEF I
  <2>3. core' = MOV(now, 6, line_handler) /\ Idle
    BY <2>2 DEF exec_address, Becomes, Unmoved, Idle
  <2>4. Moved(core', 6, line_handler)
    BY <1>1, <1>8, <2>3, CoreMov
  <2>5. /\ IsCore(core') /\ core'.VBAR = core.VBAR /\ Status(core') = Status(core)
        /\ core'.ac_pc = pc + 4 /\ Others(core')
        /\ \A q \in Regs : core'.RB[q] = IF q = 6 THEN line_handler ELSE core.RB[q]
    BY <1>1, <1>7, <1>8, <2>4, SystemMove DEF SystemMoved
  <2>6. core'.ac_pc = At(55) /\ At(55) # At(63)
    BY <1>11, <2>5 DEF At, Image, pc
  <2>7. OpenIrq(mem', v, y)
    BY <1>6, <1>7, <1>8, <2>1, <2>3, <2>5, <2>6 DEF OpenIrq, Idle, u
  <2> QED BY <1>1, <1>9, <2>3, <2>5, <2>7 DEF Idle, Changed
<1>12. CASE pc = At(55)
  <2>1. /\ core.RB[SP] = u - 8 /\ mem[u - 8] = v.regs[0] /\ mem[u - 4] = v.regs[LR]
        /\ core.RB[6] = line_handler
    BY <1>2, <1>6, <1>8, <1>12 DEF OpenIrq, At, Image, u
  <2>2. Instr = [op |-> "blx", rm |-> 6]
    BY <1>12, LineCode
  <2>3. Linked(core', 6) /\ Idle
    BY <1>1, <1>8, <2>2, DoBlx
  <2>4. /\ IsCore(core') /\ core'.VBAR = core.VBAR /\ Status(core') = 31
        /\ core'.ac_pc = core.RB[6] /\ Others(core')
        /\ \A q \in Regs : core'.RB[q] = IF q = LR THEN pc + 4 ELSE core.RB[q]
    BY <1>1, <1>7, <2>3, SystemBlx
  <2>5. core'.ac_pc = At(63) /\ core'.RB[LR] = At(56) /\ At(63) # At(55)
    <3>1. core'.ac_pc = At(63)
      BY <2>1, <2>4 DEF line_handler
    <3>2. pc + 4 = At(56) /\ At(63) # At(55)
      BY <1>12 DEF At, Image
    <3> QED BY <1>8, <2>4, <3>1, <3>2
  <2>6. OpenIrq(mem', v, y)
    BY <1>6, <1>7, <1>8, <2>1, <2>3, <2>4, <2>5 DEF OpenIrq, Idle, u
  <2> QED BY <1>1, <1>9, <2>3, <2>4, <2>6 DEF Idle, Changed
<1>13. CASE pc = At(56)
  <2>1. core.RB[SP] = u - 8 /\ mem[u - 8] = v.regs[0] /\ mem[u - 4] = v.regs[LR]
    BY <1>2, <1>6, <1>8, <1>13 DEF OpenIrq, At, Image, u
  <2>2. Instr = ldm({0, LR}) /\ exec_ldm
    BY <1>13, LineCode, Executes DEF ldm
  <2>3. /\ Popped(u - 8, 2)
        /\ \E vals : /\ DOMAIN vals = {0, LR} /\ vals[0] = mem[u - 8] /\ vals[LR] = mem[u - 8 + 4]
                     /\ Loads(core', vals, u - 8 + 8)
    <3>1. u - 8 = bypass_read(core, SP)
      BY <1>8, <2>1
    <3> QED BY <1>1, <1>5, <2>2, <3>1, LoadTwo, ZenonT(30)
  <2>4. PICK vals : /\ DOMAIN vals = {0, LR} /\ vals[0] = mem[u - 8] /\ vals[LR] = mem[u - 8 + 4]
                    /\ Loads(core', vals, u - 8 + 8)
    BY <2>3
  <2>5. SP \notin DOMAIN vals /\ PC \notin DOMAIN vals
    BY <2>4, RegisterFacts
  <2>6. /\ IsCore(core') /\ core'.VBAR = core.VBAR /\ Status(core') = Status(core)
        /\ core'.ac_pc = pc + 4 /\ core'.RB[SP] = u - 8 + 8
        /\ \A q \in Regs \ {SP} : core'.RB[q] = IF q \in DOMAIN vals THEN vals[q] ELSE core.RB[q]
        /\ Others(core')
    BY <1>1, <1>7, <2>4, <2>5, SystemLoad
  <2>7. core'.ac_pc = At(57) /\ core'.RB[SP] = u
    BY <1>5, <1>13, <2>6 DEF At, Image, pc
  <2>8. core'.RB[0] = v.regs[0] /\ core'.RB[LR] = v.regs[LR]
    BY <1>5, <1>8, <2>1, <2>4, <2>6
  <2>9. Changed(u - 12, u) /\ UNCHANGED <<interrupted, priomask, line, configured>>
        /\ mem' = [a \in Slots |-> mem'[a]]
    BY <1>5, <2>3, SlotInt DEF Popped, Changed
  <2>10. OpenIrq(mem', v, y)
    BY <1>6, <1>7, <1>8, <2>6, <2>7, <2>8, <2>9 DEF OpenIrq, u
  <2>11. \A r \in Regs \ {0, 6, 7, SP, LR} : core'.RB[r] = core.RB[r]
    BY <2>4, <2>6
  <2> QED BY <1>9, <2>6, <2>9, <2>10, <2>11
<1>14. CASE pc = At(57)
  <2>1. core.RB[SP] = u /\ core.RB[0] = v.regs[0] /\ core.RB[LR] = v.regs[LR]
    BY <1>2, <1>6, <1>8, <1>14 DEF OpenIrq, At, Image, u
  <2>2. Instr = msr(146) /\ 146 \in Controls
    BY <1>14, LineCode DEF Controls
  <2>3. Switched(core', 146) /\ Idle
    BY <1>1, <1>8, <2>2, DoMsr
  <2>4. /\ IsCore(core') /\ core'.VBAR = core.VBAR /\ core'.mode = IRQ_MODE /\ core'.irq
        /\ core'.ac_pc = At(58) /\ Others(core') /\ \A q \in Regs : core'.RB[q] = core.RB[q]
    BY <1>14, <2>3 DEF Switched, IRQ_MODE, Others, svcSP, irqSP, At, Image, pc
  <2>5. Contexts' /\ IrqSaved(mem', s, v) /\ mem'[s - 20] = v.mask
    BY <1>1, <1>9, <2>3, <2>4 DEF Idle, Changed
  <2>6. IrqPlace(core', mem', priomask', line', v, s)
    BY <1>4, <1>7, <2>3, <2>4, <2>5 DEF IrqPlace, Others, Idle
  <2>7. RunsIrq(core', mem', interrupted', priomask', line')
    BY <1>1, <1>2, <1>8, <2>1, <2>3, <2>4, <2>6 DEF RunsIrq, Idle, Others, u, s
  <2> QED BY <2>3, <2>4, <2>5, <2>7 DEF Running, Idle
<1>15. CASE pc = At(63)
  <2>1. /\ core.RB[SP] = u - 8 /\ mem[u - 8] = v.regs[0] /\ mem[u - 4] = v.regs[LR]
        /\ core.RB[LR] = At(56)
    BY <1>2, <1>6, <1>8, <1>15 DEF OpenIrq, At, Image, u
  <2>2. Instr = stm({LR}) /\ exec_stm
    BY <1>15, LineCode, Executes DEF stm
  <2>3. /\ Moved(core', SP, u - 8 - 4) /\ UNCHANGED <<interrupted, priomask, line, configured>>
        /\ mem' = [a \in Slots |-> mem'[a]]
        /\ \A a \in Slots : mem'[a] = IF a = u - 8 - 4 THEN bypass_read(core, LR) ELSE mem[a]
    <3>1. u - 8 = bypass_read(core, SP)
      BY <1>8, <2>1
    <3> QED BY <1>1, <1>5, <1>8, <2>2, <3>1, StoreOne, ZenonT(30)
  <2>4. /\ IsCore(core') /\ core'.VBAR = core.VBAR /\ Status(core') = Status(core)
        /\ core'.ac_pc = pc + 4 /\ Others(core')
        /\ \A q \in Regs : core'.RB[q] = IF q = SP THEN u - 12 ELSE core.RB[q]
    <3>1. Moved(core', SP, u - 12)
      BY <1>5, <2>3
    <3>2. SystemMoved(core', SP, u - 12)
      BY <1>1, <1>7, <1>8, <3>1, SystemMove, ZenonT(30)
    <3> QED BY <3>2 DEF SystemMoved
  <2>5. core'.ac_pc = At(64)
    BY <1>15, <2>4 DEF At, Image, pc
  <2>6. /\ Changed(u - 12, u) /\ mem'[u - 8] = v.regs[0] /\ mem'[u - 4] = v.regs[LR]
        /\ mem'[u - 12] = At(56)
    <3>1. mem'[u - 8] = v.regs[0] /\ mem'[u - 4] = v.regs[LR] /\ mem'[u - 12] = At(56)
      BY <1>5, <1>8, <2>1, <2>3
    <3>2. Changed(u - 12, u)
      BY <1>5, <2>3, SlotInt DEF Changed
    <3> QED BY <3>1, <3>2
  <2>7. OpenIrq(mem', v, y)
    BY <1>6, <1>7, <1>8, <2>3, <2>4, <2>5, <2>6 DEF OpenIrq, u
  <2> QED BY <1>9, <2>3, <2>4, <2>6, <2>7
<1>16. CASE pc = At(64)
  <2>1. /\ core.RB[SP] = u - 12 /\ mem[u - 8] = v.regs[0] /\ mem[u - 4] = v.regs[LR]
        /\ mem[u - 12] = At(56)
    BY <1>2, <1>6, <1>8, <1>16 DEF OpenIrq, At, Image, u
  <2>2. exec_work
    BY <1>16, LineCode, Executes DEF I
  <2>3. core' = [MOV(MOV(now, 0, 0), 6, 0) EXCEPT !.flags = 1] /\ Idle
    BY <2>2 DEF exec_work, Becomes, Unmoved, Idle
  <2>4. /\ Flagged(core', 1)
        /\ \A q \in Regs : core'.RB[q] = IF q = 6 THEN 0 ELSE IF q = 0 THEN 0 ELSE core.RB[q]
    BY <1>1, <2>3, CoreMovMovFlags
  <2>5. /\ IsCore(core') /\ core'.VBAR = core.VBAR /\ Status(core') = Status(core)
        /\ core'.ac_pc = pc + 4 /\ Others(core')
    BY <2>4, SystemFlags
  <2>6. core'.ac_pc = At(65)
    BY <1>16, <2>5 DEF At, Image, pc
  <2>7. OpenIrq(mem', v, y)
    BY <1>6, <1>7, <1>8, <2>1, <2>3, <2>4, <2>5, <2>6 DEF OpenIrq, Idle, u
  <2> QED BY <1>1, <1>9, <2>3, <2>4, <2>5, <2>7 DEF Idle, Changed
<1>17. CASE pc = At(65)
  <2>1. /\ core.RB[SP] = u - 12 /\ mem[u - 8] = v.regs[0] /\ mem[u - 4] = v.regs[LR]
        /\ mem[u - 12] = At(56)
    BY <1>2, <1>6, <1>8, <1>17 DEF OpenIrq, At, Image, u
  <2>2. Instr = ldm({PC}) /\ exec_ldm
    BY <1>17, LineCode, Executes DEF ldm
  <2>3. /\ Popped(u - 12, 1)
        /\ \E vals : DOMAIN vals = {PC} /\ vals[PC] = mem[u - 12] /\ Loads(core', vals, u - 12 + 4)
    <3>1. u - 12 = bypass_read(core, SP) /\ PC \in {0, 7, LR, PC}
      BY <1>8, <2>1
    <3> QED BY <1>1, <1>5, <2>2, <3>1, LoadOne, ZenonT(30)
  <2>4. PICK vals : DOMAIN vals = {PC} /\ vals[PC] = mem[u - 12] /\ Loads(core', vals, u - 12 + 4)
    BY <2>3
  <2>5. SP \notin DOMAIN vals /\ PC \in DOMAIN vals
    BY <2>4, RegisterFacts
  <2>6. /\ IsCore(core') /\ core'.VBAR = core.VBAR /\ Status(core') = Status(core)
        /\ core'.ac_pc = vals[PC] /\ core'.RB[SP] = u - 12 + 4
        /\ \A q \in Regs \ {SP} : core'.RB[q] = IF q \in DOMAIN vals THEN vals[q] ELSE core.RB[q]
        /\ Others(core')
    BY <1>1, <1>7, <2>4, <2>5, SystemLoad
  <2>7. core'.ac_pc = At(56) /\ core'.RB[SP] = u - 8 /\ At(56) # At(55) /\ At(56) # At(63)
    BY <1>5, <2>1, <2>4, <2>6 DEF At, Image
  <2>8. Changed(u - 12, u) /\ UNCHANGED <<interrupted, priomask, line, configured>>
        /\ mem' = [a \in Slots |-> mem'[a]]
    BY <1>5, <2>3, SlotInt DEF Popped, Changed
  <2>9. mem'[u - 8] = v.regs[0] /\ mem'[u - 4] = v.regs[LR]
    BY <1>5, <2>1, <2>3 DEF Popped
  <2>10. OpenIrq(mem', v, y)
    BY <1>6, <1>7, <1>8, <2>6, <2>7, <2>8, <2>9 DEF OpenIrq, u
  <2>11. \A r \in Regs \ {0, 6, 7, SP, LR} : core'.RB[r] = core.RB[r]
    BY <2>4, <2>6 DEF Regs
  <2> QED BY <1>9, <2>6, <2>8, <2>10, <2>11
<1> QED BY <1>2, <1>6, <1>10, <1>11, <1>12, <1>13, <1>14, <1>15, <1>16, <1>17 DEF OpenIrq

-----------------------------------------------------------------------------
(* irq_handler.                                                            *)

\* the place of a context is an address
LEMMA PlaceInt ==
  ASSUME NEW M, NEW h, NEW k, NEW c, Open(M, h, k, c)
  PROVE  c.pc \in Int
<1>1. \A i \in 0..67 : At(i) \in Int
  BY AtFacts
<1>2. OpenBase(c) => c.pc \in Int
  BY <1>1 DEF OpenBase
<1>3. ASSUME NEW v, OpenSvc(M, v, c) PROVE c.pc \in Int
  <2>1. c.pc \in {At(33), At(34), At(35), At(36), At(37), At(41), At(42), At(43)}
    BY <1>3 DEF OpenSvc
  <2> QED BY <1>1, <2>1
<1>4. ASSUME NEW v, OpenIrq(M, v, c) PROVE c.pc \in Int
  <2>1. c.pc \in {At(53), At(54), At(55), At(56), At(57), At(63), At(64), At(65)}
    BY <1>4 DEF OpenIrq
  <2> QED BY <1>1, <2>1
<1> QED BY <1>2, <1>3, <1>4 DEF Open

\* an instruction that writes no register
LEMMA CoreFinish ==
  ASSUME IsCore(core)
  PROVE  Jumped(finish(now), pc + 4)
<1>1. IsCore(now)
  BY NowFacts DEF Same
<1> QED BY <1>1, NowFacts, FinishFacts DEF Jumped, Goes, Same, Regs

\* The return from an interrupt.
LEMMA IrqReturns ==
  ASSUME Contexts, configured = TRUE, core.VBAR = Image, Depth > 0, interrupted[Depth].free = {},
         core.mode = IRQ_MODE,
         \A r \in {0, 6, 7, SP, LR} : core.RB[r] = interrupted[Depth].view.regs[r],
         svcSP(core) = SVC_STACK - 8 * Calls(interrupted),
         irqSP(core) = FrameTop(interrupted, Depth) - 4,
         mem[FrameTop(interrupted, Depth) - 4] = interrupted[Depth].view.pc,
         priomask = interrupted[Depth].view.mask,
         core.SPSR[IRQ_MODE] = Word(interrupted[Depth].view),
         exec_ldm_return
  PROVE  /\ Contexts' /\ Running' /\ Depth' = Depth - 1
         /\ Resumes(core', interrupted[Depth].view, interrupted[Depth].view.pc)
         /\ priomask' = priomask
<1> DEFINE v == interrupted[Depth].view
           s == FrameTop(interrupted, Depth)
<1>1. /\ IsCore(core) /\ IsSeq(interrupted) /\ Waiting /\ Depth \in Nat /\ Depth \in 1..Depth
      /\ \A r \in GPR \ {0, 6, 7} : core.RB[r] = 0
      /\ Len(interrupted) = Depth
  BY DepthFacts DEF Contexts, Types, Depth
<1>2. v.status \in {16, 31, 63} /\ v.flags \in Nat
  BY <1>1 DEF Waiting, Waits
<1>3. /\ s \in Int /\ SVC_STACK <= s - 20
  BY <1>1, IrqFrame
<1>4. /\ bypass_read(core, SP) = irqSP(core) /\ core.mode \in ExceptionModes
      /\ 0 \in Regs /\ 6 \in Regs /\ 7 \in Regs /\ SP \in Regs /\ LR \in Regs /\ SP # LR
  BY OwnRead, OwnBank
<1>5. Read(SP) = s - 4
  BY <1>1, <1>4, NowFacts DEF Regs
<1>6. Resumes(core', v, v.pc)
  <2>1. LET popped == bypass_write(now, SP, Read(SP) + 4)
        IN  core' = finish(SPSRtoCPSR([popped EXCEPT !.RB[PC] = mem[Read(SP)]]))
    BY DEF exec_ldm_return, Returns
  <2>2. mem[Read(SP)] = v.pc
    BY <1>5
  <2> QED BY <1>1, <1>2, <1>4, <2>1, <2>2, CoreReturn
<1>7. /\ interrupted' = SubSeq(interrupted, 1, Len(interrupted) - 1)
      /\ UNCHANGED <<priomask, line, configured>>
      /\ mem' = [a \in Slots |-> IF a \in (s - 4)..(s - 4 + 4 * 1 - 1) THEN 0 ELSE mem[a]]
  BY <1>5 DEF exec_ldm_return, Returns, Pop
<1> HIDE DEF s
<1>8. mem' = [a \in Slots |-> mem'[a]] /\ Changed(s - 20, s)
  BY <1>3, <1>7 DEF Changed
<1>9. s - 20 \in Int /\ Spares(Depth, s - 20, s)
  BY <1>3 DEF Spares, s
<1>10. /\ IsCore(core') /\ Status(core') = v.status /\ core'.ac_pc = v.pc /\ core'.VBAR = Image
       /\ \A r \in Regs : core'.RB[r] = core.RB[r]
       /\ \A r \in GPR \ {0, 6, 7} : core'.RB[r] = 0
  BY <1>1, <1>6, OtherRegisters DEF Resumes
<1>11. /\ Contexts' /\ Depth' = Depth - 1
       /\ Open(mem', interrupted', Depth', v)
       /\ Depth' > 0 => /\ Calls(interrupted') = Calls(interrupted)
                        /\ interrupted'[Depth'].free # Und
       /\ Depth' = 0 => Calls(interrupted') = 0
  BY <1>3, <1>7, <1>8, <1>9, <1>10, ReturnContexts, ZenonT(30)
<1>12. Calls(interrupted') = Calls(interrupted) /\ Calls(interrupted) \in {0, 1}
  <2>1. Depth = 1 => Calls(interrupted) = 0
    BY <1>1 DEF Calls
  <2> QED BY <1>1, <1>11, <2>1 DEF Calls
<1>13. svcSP(core') = svcSP(core) /\ irqSP(core') = s
  <2>1. svcSP(core') = svcSP(core) /\ irqSP(core') = irqSP(core) + 4
    BY <1>6, OwnBank DEF Resumes, svcSP, irqSP
  <2> QED BY <1>3, <2>1 DEF s
<1>14. s = IRQ_STACK - 20 * Level(interrupted', Depth')
  <2>1. Level(interrupted', Depth') = Level(interrupted, Depth) - 1 /\ Level(interrupted, Depth) \in Int
    BY <1>1, <1>11, <1>12 DEF Level
  <2> QED BY <2>1, StackFacts DEF s, FrameTop
<1>15. Open(mem', interrupted', Depth', Context(core', priomask'))
  <2> DEFINE y == Context(core', priomask')
  <2>1. /\ y.pc = v.pc /\ y.status = v.status /\ y.mask = v.mask
        /\ \A r \in {0, 6, 7, SP, LR} : y.regs[r] = v.regs[r]
    BY <1>4, <1>7, <1>10, ContextFacts
  <2> HIDE DEF y, v
  <2>2. Open(mem', interrupted', Depth', y)
    BY <1>11, <2>1, OpenSame
  <2> QED BY <2>2 DEF y
<1>16. RunsOpen(core', mem', interrupted', priomask')
  BY <1>11, <1>12, <1>13, <1>14, <1>15 DEF RunsOpen, Depth
<1> QED BY <1>6, <1>7, <1>10, <1>11, <1>16 DEF Running

\* Every instruction of irq_handler in interrupt mode.
LEMMA IrqStep ==
  ASSUME Contexts, configured = TRUE, core.VBAR = Image,
         RunsIrq(core, mem, interrupted, priomask, line), step
  PROVE  Contexts' /\ Running'
<1> DEFINE v == interrupted[Depth].view
           s == FrameTop(interrupted, Depth)
<1>1. /\ IsCore(core) /\ IsSeq(interrupted) /\ Waiting /\ Depth \in Nat
      /\ \A r \in GPR \ {0, 6, 7} : core.RB[r] = 0
      /\ mem = [a \in Slots |-> mem[a]] /\ Len(interrupted) = Depth
  BY DepthFacts DEF Contexts, Types, Depth
<1>2. /\ Depth > 0 /\ Depth \in 1..Depth /\ interrupted[Depth].free = {}
      /\ core.mode = IRQ_MODE /\ core.irq
      /\ core.RB[SP] = v.regs[SP] /\ core.RB[LR] = v.regs[LR] /\ core.RB[0] = v.regs[0]
      /\ svcSP(core) = SVC_STACK - 8 * Calls(interrupted)
      /\ IrqPlace(core, mem, priomask, line, v, s)
  BY <1>1 DEF RunsIrq
<1>3. /\ s \in Int /\ s - 4 \in Slots /\ s - 8 \in Slots /\ s - 12 \in Slots /\ s - 16 \in Slots
      /\ s - 20 \in Slots /\ SVC_STACK <= s - 20
      /\ s - 4 \in Int /\ s - 8 \in Int /\ s - 12 \in Int /\ s - 16 \in Int /\ s - 20 \in Int
      /\ s - 4 - 12 = s - 16 /\ s - 4 - 8 = s - 12 /\ s - 4 - 4 = s - 8 /\ s - 16 - 4 = s - 20
      /\ s - 20 + 4 = s - 16 /\ s - 16 + 4 = s - 12 /\ s - 16 + 8 = s - 8 /\ s - 16 + 12 = s - 4
  <2>1. s \in Int /\ SVC_STACK <= s - 20 /\ \A i \in {4, 8, 12, 16, 20} : s - i \in Slots
    BY <1>1, <1>2, IrqFrame
  <2> HIDE DEF s
  <2> QED BY <2>1
<1>4. /\ v.status \in {16, 31, 63} /\ v.flags \in Nat /\ v.pc \in Int /\ v.mask \in Masks
      /\ (Word(v) % 256) + 256 * (Word(v) \div 256) = Word(v)
  <2>1. Waits(mem, interrupted, Depth)
    BY <1>1, <1>2 DEF Waiting
  <2>2. /\ v.status \in {16, 31, 63} /\ v.flags \in Nat /\ v.mask \in Masks
        /\ Open(mem, interrupted, Depth - 1, v)
    BY <2>1 DEF Waits
  <2>3. v.pc \in Int
    BY <2>2, PlaceInt
  <2> QED BY <2>2, <2>3, WordFacts
<1> HIDE DEF s
<1>5. /\ bypass_read(core, SP) = irqSP(core) /\ bypass_read(core, LR) = irqLR(core)
      /\ bypass_read(core, 6) = core.RB[6] /\ bypass_read(core, 7) = core.RB[7]
      /\ core.mode \in {SUPERVISOR_MODE, IRQ_MODE} /\ core.mode \in ExceptionModes
      /\ 0 \in Regs /\ 6 \in Regs /\ 7 \in Regs /\ SP \in Regs /\ LR \in Regs /\ SP # LR
      /\ 0 # 6 /\ 0 # 7 /\ 6 # 7 /\ 0 \notin {SP, LR} /\ 6 \notin {SP, LR} /\ 7 \notin {SP, LR}
      /\ 7 \notin Banked(core.mode)
  BY <1>2, OwnRead, OwnBank
<1>6. /\ Read(LR) = irqLR(core) /\ Read(6) = core.RB[6] /\ Read(7) = core.RB[7]
  BY <1>1, <1>5, NowFacts DEF Regs
<1>7. ASSUME IsCore(core'), core'.VBAR = core.VBAR, \A r \in Regs \ {6, 7} : core'.RB[r] = core.RB[r],
             UNCHANGED <<interrupted, line, configured>>,
             mem' = [a \in Slots |-> mem'[a]], Changed(s - 20, s)
      PROVE  Contexts'
  <2>1. \A r \in GPR \ {0, 6, 7} : core'.RB[r] = 0
    BY <1>1, <1>7, OtherRegisters
  <2>2. Depth > 0 => Spares(Depth, s - 20, s)
    BY <1>2, <1>3 DEF Spares, s
  <2> QED BY <1>3, <1>7, <2>1, <2>2, InnerMem, ZenonT(30)
<1>8. ASSUME IsCore(core'), core'.VBAR = core.VBAR, \A r \in Regs \ {6, 7} : core'.RB[r] = core.RB[r],
             UNCHANGED <<interrupted, line, configured>>,
             mem' = [a \in Slots |-> mem'[a]], Changed(s - 20, s),
             core'.mode = core.mode, core'.irq = core.irq, svcSP(core') = svcSP(core),
             IrqPlace(core', mem', priomask', line', v, s)
      PROVE  Contexts' /\ Running'
  <2>1. Contexts'
    BY <1>7, <1>8
  <2>2. RunsIrq(core', mem', interrupted', priomask', line')
    BY <1>1, <1>2, <1>5, <1>8 DEF RunsIrq, s
  <2> QED BY <1>8, <2>1, <2>2 DEF Running
<1>9. CASE pc = At(6)
  <2>1. Instr = branch(At(44))
    BY <1>9, IrqCode DEF irq_handler
  <2>2. Jumped(core', At(44)) /\ Idle
    BY <1>1, <2>1, DoB
  <2>3. /\ irqSP(core) = s /\ irqLR(core) = v.pc + 4 /\ core.SPSR[IRQ_MODE] = Word(v)
        /\ line \in DOMAIN PriorityOf /\ priomask = v.mask
        /\ core.RB[6] = v.regs[6] /\ core.RB[7] = v.regs[7]
    BY <1>2, <1>9 DEF IrqPlace, At, Image, pc
  <2>4. At(44) # At(45)
    BY DEF At, Image
  <2>5. /\ irqSP(core') = irqSP(core) /\ irqLR(core') = irqLR(core) /\ svcSP(core') = svcSP(core)
        /\ core'.SPSR = core.SPSR /\ core'.ac_pc = At(44)
        /\ core'.RB[6] = core.RB[6] /\ core'.RB[7] = core.RB[7]
    BY <1>5, <2>2 DEF Jumped, Goes, Same, irqSP, irqLR, svcSP
  <2>6. IrqPlace(core', mem', priomask', line', v, s)
    BY <2>2, <2>3, <2>4, <2>5 DEF IrqPlace, Idle
  <2> QED BY <1>1, <1>8, <2>2, <2>5, <2>6 DEF Jumped, Goes, Same, Idle, Changed
<1>10. CASE pc = At(44)
  <2>1. /\ irqSP(core) = s /\ irqLR(core) = v.pc + 4 /\ core.SPSR[IRQ_MODE] = Word(v)
        /\ line \in DOMAIN PriorityOf /\ priomask = v.mask
        /\ core.RB[6] = v.regs[6] /\ core.RB[7] = v.regs[7]
    BY <1>2, <1>10 DEF IrqPlace, At, Image, pc
  <2>2. exec_sub
    BY <1>10, IrqCode, Executes DEF I
  <2>3. Read(LR) - 4 = v.pc
    BY <1>4, <1>6, <2>1
  <2>4. core' = MOV(now, LR, v.pc) /\ Idle
    BY <2>2, <2>3 DEF exec_sub, Becomes, Unmoved, Idle
  <2>5. Moved(core', LR, v.pc)
    BY <1>1, <1>5, <2>4, CoreMov
  <2>6. /\ \A q \in Regs : core'.RB[q] = core.RB[q]
        /\ irqSP(core') = s /\ irqLR(core') = v.pc /\ svcSP(core') = svcSP(core)
    BY <1>2, <1>5, <2>1, <2>5, OwnMove DEF Own
  <2>7. core'.ac_pc = At(45)
    BY <1>10, <2>5 DEF Moved, Goes, At, Image, pc
  <2>8. IrqPlace(core', mem', priomask', line', v, s)
    BY <1>5, <2>1, <2>4, <2>5, <2>6, <2>7 DEF IrqPlace, Idle, Moved, Goes, Same
  <2> QED BY <1>1, <1>8, <2>4, <2>5, <2>6, <2>8 DEF Moved, Goes, Same, Idle, Changed
<1>11. CASE pc = At(45)
  <2>1. /\ irqSP(core) = s /\ irqLR(core) = v.pc /\ core.SPSR[IRQ_MODE] = Word(v)
        /\ line \in DOMAIN PriorityOf /\ priomask = v.mask
        /\ core.RB[6] = v.regs[6] /\ core.RB[7] = v.regs[7]
    BY <1>2, <1>11 DEF IrqPlace, At, Image, pc
  <2>2. Instr = stm({LR}) /\ exec_stm
    BY <1>11, IrqCode, Executes DEF stm
  <2>3. /\ Moved(core', SP, s - 4) /\ UNCHANGED <<interrupted, priomask, line, configured>>
        /\ mem' = [a \in Slots |-> mem'[a]]
        /\ \A a \in Slots : mem'[a] = IF a = s - 4 THEN bypass_read(core, LR) ELSE mem[a]
    <3>1. s = bypass_read(core, SP)
      BY <1>5, <2>1
    <3> QED BY <1>1, <1>3, <1>5, <2>2, <3>1, StoreOne, ZenonT(30)
  <2>4. /\ \A q \in Regs : core'.RB[q] = core.RB[q]
        /\ irqSP(core') = s - 4 /\ svcSP(core') = svcSP(core)
    BY <1>2, <1>5, <2>3, OwnMove DEF Own
  <2>5. core'.ac_pc = At(46) /\ At(46) # At(47)
    BY <1>11, <2>3 DEF Moved, Goes, At, Image, pc
  <2>6. Changed(s - 20, s) /\ mem'[s - 4] = v.pc
    <3>1. mem'[s - 4] = v.pc
      BY <1>3, <1>5, <2>1, <2>3
    <3>2. Changed(s - 20, s)
      BY <1>3, <2>3, SlotInt DEF Changed
    <3> QED BY <3>1, <3>2
  <2>7. IrqPlace(core', mem', priomask', line', v, s)
    BY <1>5, <2>1, <2>3, <2>4, <2>5, <2>6 DEF IrqPlace, Moved, Goes, Same
  <2> QED BY <1>8, <2>3, <2>4, <2>6, <2>7 DEF Moved, Goes, Same
<1>12. CASE pc = At(46)
  <2>1. /\ irqSP(core) = s - 4 /\ core.SPSR[IRQ_MODE] = Word(v) /\ mem[s - 4] = v.pc
        /\ line \in DOMAIN PriorityOf /\ priomask = v.mask
        /\ core.RB[6] = v.regs[6] /\ core.RB[7] = v.regs[7]
    BY <1>2, <1>12 DEF IrqPlace, At, Image, pc
  <2>2. exec_mrs
    BY <1>12, IrqCode, Executes DEF I
  <2>3. core' = MOV(now, LR, Word(v)) /\ Idle
    BY <1>1, <1>2, <1>5, <2>1, <2>2, CoreMrs DEF exec_mrs, Becomes, Unmoved, Idle
  <2>4. Moved(core', LR, Word(v))
    BY <1>1, <1>5, <2>3, CoreMov
  <2>5. /\ \A q \in Regs : core'.RB[q] = core.RB[q]
        /\ irqSP(core') = s - 4 /\ irqLR(core') = Word(v) /\ svcSP(core') = svcSP(core)
    BY <1>2, <1>5, <2>1, <2>4, OwnMove DEF Own
  <2>6. core'.ac_pc = At(47) /\ At(46) # At(47)
    BY <1>12, <2>4 DEF Moved, Goes, At, Image, pc
  <2>7. IrqPlace(core', mem', priomask', line', v, s)
    BY <1>5, <2>1, <2>3, <2>5, <2>6 DEF IrqPlace, Idle
  <2> QED BY <1>1, <1>8, <2>3, <2>4, <2>5, <2>7 DEF Moved, Goes, Same, Idle, Changed
<1>13. CASE pc = At(47)
  <2>1. /\ irqSP(core) = s - 4 /\ irqLR(core) = Word(v) /\ mem[s - 4] = v.pc
        /\ line \in DOMAIN PriorityOf /\ priomask = v.mask
        /\ core.RB[6] = v.regs[6] /\ core.RB[7] = v.regs[7]
    BY <1>2, <1>13 DEF IrqPlace, At, Image, pc
  <2>2. Instr = stm({6, 7, LR}) /\ exec_stm
    BY <1>13, IrqCode, Executes DEF stm
  <2>3. /\ Moved(core', SP, s - 4 - 12) /\ UNCHANGED <<interrupted, priomask, line, configured>>
        /\ mem' = [a \in Slots |-> mem'[a]]
        /\ \A a \in Slots : mem'[a] = IF a = s - 4 - 12 THEN bypass_read(core, 6)
                                      ELSE IF a = s - 4 - 8 THEN bypass_read(core, 7)
                                      ELSE IF a = s - 4 - 4 THEN bypass_read(core, LR) ELSE mem[a]
    <3>1. s - 4 = bypass_read(core, SP)
      BY <1>5, <2>1
    <3> QED BY <1>1, <1>3, <2>2, <3>1, StoreThree, ZenonT(30)
  <2>4. /\ \A q \in Regs : core'.RB[q] = core.RB[q]
        /\ irqSP(core') = s - 16 /\ svcSP(core') = svcSP(core)
    BY <1>2, <1>3, <1>5, <2>3, OwnMove DEF Own
  <2>5. core'.ac_pc = At(48) /\ At(48) # At(50)
    BY <1>13, <2>3 DEF Moved, Goes, At, Image, pc
  <2>6. IrqSaved(mem', s, v)
    BY <1>3, <1>5, <2>1, <2>3 DEF IrqSaved
  <2>7. Changed(s - 20, s)
    BY <1>3, <2>3, SlotInt DEF Changed
  <2>8. IrqPlace(core', mem', priomask', line', v, s)
    BY <2>1, <2>3, <2>4, <2>5, <2>6 DEF IrqPlace
  <2> QED BY <1>8, <2>3, <2>4, <2>7, <2>8 DEF Moved, Goes, Same
<1>14. CASE pc = At(48)
  <2>1. /\ irqSP(core) = s - 16 /\ IrqSaved(mem, s, v)
        /\ line \in DOMAIN PriorityOf /\ priomask = v.mask
    BY <1>2, <1>14 DEF IrqPlace, At, Image, pc
  <2>2. exec_find
    BY <1>14, IrqCode, Executes DEF I
  <2>3. core' = [MOV(now, 6, line) EXCEPT !.flags = 1] /\ Idle
    BY <2>2 DEF exec_find, Becomes, Unmoved, Idle
  <2>4. /\ Flagged(core', 1)
        /\ \A q \in Regs : core'.RB[q] = IF q = 6 THEN line ELSE core.RB[q]
    <3> DEFINE d == [MOV(now, 6, line) EXCEPT !.flags = 1]
    <3>1. IsCore(core) /\ 6 \in {0, 6, 7} /\ 1 \in Nat
      BY <1>1
    <3>2. \A f \in Nat : LET e == [MOV(now, 6, line) EXCEPT !.flags = f] IN
            Flagged(e, f) /\ \A q \in Regs : e.RB[q] = IF q = 6 THEN line ELSE core.RB[q]
      BY <3>1, CoreMovFlags
    <3>3. Flagged(d, 1) /\ \A q \in Regs : d.RB[q] = IF q = 6 THEN line ELSE core.RB[q]
      BY <3>1, <3>2, ZenonT(30)
    <3>4. core' = d
      BY <2>3
    <3> HIDE DEF d
    <3> QED BY <3>3, <3>4
  <2>5. core'.ac_pc = At(49) /\ At(49) # At(50)
    BY <1>14, <2>4 DEF Flagged, At, Image, pc
  <2>6. irqSP(core') = s - 16 /\ svcSP(core') = svcSP(core) /\ core'.RB[6] = line
    BY <1>5, <2>1, <2>4 DEF Flagged, irqSP, svcSP
  <2>7. IrqPlace(core', mem', priomask', line', v, s)
    BY <2>1, <2>3, <2>5, <2>6 DEF IrqPlace, Idle
  <2> QED BY <1>1, <1>8, <2>3, <2>4, <2>6, <2>7 DEF Flagged, Idle, Changed
<1>15. CASE pc = At(49)
  <2>1. /\ irqSP(core) = s - 16 /\ IrqSaved(mem, s, v) /\ core.RB[6] = line
        /\ line \in DOMAIN PriorityOf /\ priomask = v.mask
    BY <1>2, <1>15 DEF IrqPlace, At, Image, pc
  <2>2. exec_get_priomask
    BY <1>15, IrqCode, Executes DEF I
  <2>3. core' = MOV(now, 7, priomask) /\ Idle
    BY <2>2 DEF exec_get_priomask, Becomes, Unmoved, Idle
  <2>4. Moved(core', 7, priomask)
    BY <1>1, <1>5, <2>3, CoreMov
  <2>5. core'.ac_pc = At(50)
    BY <1>15, <2>4 DEF Moved, Goes, At, Image, pc
  <2>6. /\ core'.bank = core.bank
        /\ \A q \in Regs : core'.RB[q] = IF q = 7 THEN priomask ELSE core.RB[q]
    BY <1>5, <2>4 DEF Moved
  <2>7. /\ irqSP(core') = s - 16 /\ svcSP(core') = svcSP(core) /\ core'.RB[6] = line
        /\ core'.RB[7] = v.mask
    BY <1>5, <2>1, <2>6 DEF irqSP, svcSP
  <2>8. IrqPlace(core', mem', priomask', line', v, s)
    BY <2>1, <2>3, <2>5, <2>7 DEF IrqPlace, Idle
  <2> QED BY <1>1, <1>8, <2>3, <2>4, <2>6, <2>7, <2>8 DEF Moved, Goes, Same, Idle, Changed
<1>16. CASE pc = At(50)
  <2>1. /\ irqSP(core) = s - 16 /\ IrqSaved(mem, s, v) /\ core.RB[6] = line /\ core.RB[7] = v.mask
        /\ line \in DOMAIN PriorityOf /\ priomask = v.mask
    BY <1>2, <1>16 DEF IrqPlace, At, Image, pc
  <2>2. Instr = stm({7}) /\ exec_stm
    BY <1>16, IrqCode, Executes DEF stm
  <2>3. /\ Moved(core', SP, s - 16 - 4) /\ UNCHANGED <<interrupted, priomask, line, configured>>
        /\ mem' = [a \in Slots |-> mem'[a]]
        /\ \A a \in Slots : mem'[a] = IF a = s - 16 - 4 THEN bypass_read(core, 7) ELSE mem[a]
    <3>1. s - 16 = bypass_read(core, SP)
      BY <1>5, <2>1
    <3> QED BY <1>1, <1>3, <1>5, <2>2, <3>1, StoreOne, ZenonT(30)
  <2>4. /\ \A q \in Regs : core'.RB[q] = core.RB[q]
        /\ irqSP(core') = s - 20 /\ svcSP(core') = svcSP(core)
    BY <1>2, <1>3, <1>5, <2>3, OwnMove DEF Own
  <2>5. core'.ac_pc = At(51)
    BY <1>16, <2>3 DEF Moved, Goes, At, Image, pc
  <2>6. IrqSaved(mem', s, v) /\ mem'[s - 20] = v.mask
    BY <1>3, <1>5, <2>1, <2>3 DEF IrqSaved
  <2>7. Changed(s - 20, s)
    BY <1>3, <2>3, SlotInt DEF Changed
  <2>8. IrqPlace(core', mem', priomask', line', v, s)
    BY <1>5, <2>1, <2>3, <2>4, <2>5, <2>6 DEF IrqPlace
  <2> QED BY <1>8, <2>3, <2>4, <2>7, <2>8 DEF Moved, Goes, Same
<1>17. CASE pc = At(51)
  <2>1. /\ irqSP(core) = s - 20 /\ IrqSaved(mem, s, v) /\ mem[s - 20] = v.mask /\ core.RB[6] = line
        /\ line \in DOMAIN PriorityOf
    BY <1>2, <1>17 DEF IrqPlace, At, Image, pc
  <2>2. exec_set_priomask
    BY <1>17, IrqCode, Executes DEF I
  <2>3. /\ core' = finish(now) /\ priomask' = PriorityByte(line)
        /\ UNCHANGED <<interrupted, mem, line, configured>>
    BY <1>6, <2>1, <2>2 DEF exec_set_priomask, Becomes
  <2>4. Jumped(core', pc + 4)
    BY <1>1, <2>3, CoreFinish
  <2>5. core'.ac_pc = At(52)
    BY <1>17, <2>4 DEF Jumped, Goes, At, Image, pc
  <2>6. irqSP(core') = s - 20 /\ svcSP(core') = svcSP(core)
    BY <2>1, <2>4 DEF Jumped, irqSP, svcSP
  <2>7. priomask' \in Masks
    BY <2>3 DEF Masks, PriorityByte
  <2>8. IrqPlace(core', mem', priomask', line', v, s)
    BY <2>1, <2>3, <2>5, <2>6, <2>7 DEF IrqPlace
  <2> QED BY <1>1, <1>8, <2>3, <2>4, <2>6, <2>8 DEF Jumped, Goes, Same, Changed
<1>18. CASE pc = At(52)
  <2>1. /\ irqSP(core) = s - 20 /\ IrqSaved(mem, s, v) /\ mem[s - 20] = v.mask
        /\ priomask \in Masks
    BY <1>2, <1>18 DEF IrqPlace, At, Image, pc
  <2>2. Instr = msr(31) /\ 31 \in Controls /\ core.mode # USER_MODE
    BY <1>2, <1>18, IrqCode DEF Controls, IRQ_MODE, USER_MODE
  <2>3. Switched(core', 31) /\ Idle
    BY <1>1, <2>2, DoMsr
  <2>4. core'.ac_pc = At(53)
    BY <1>18, <2>3 DEF Switched, At, Image, pc
  <2>5. Contexts'
    BY <1>1, <1>7, <2>3 DEF Switched, Idle, Changed
  <2>6. OpenIrq(mem', v, Context(core', priomask'))
    BY <1>2, <1>5, <2>1, <2>3, <2>4, ContextFacts DEF OpenIrq, Switched, Idle
  <2>7. svcSP(core') = svcSP(core) /\ irqSP(core') = IRQ_STACK - 20 * Level(interrupted, Depth)
    <3>1. svcSP(core') = svcSP(core) /\ irqSP(core') = s - 20
      BY <2>1, <2>3 DEF Switched, svcSP, irqSP
    <3>2. Level(interrupted, Depth) \in Int
      BY <1>1, <1>2, Room
    <3> QED BY <3>1, <3>2, StackFacts DEF s, FrameTop
  <2>8. RunsOpen(core', mem', interrupted', priomask')
    BY <1>1, <1>2, <2>1, <2>3, <2>6, <2>7, LineOpen DEF Idle, s
  <2> QED BY <2>3, <2>5, <2>8 DEF Running, Switched, Idle
<1>19. CASE pc = At(58)
  <2>1. /\ irqSP(core) = s - 20 /\ IrqSaved(mem, s, v) /\ mem[s - 20] = v.mask
    BY <1>2, <1>19 DEF IrqPlace, At, Image, pc
  <2>2. Instr = ldm({7}) /\ exec_ldm
    BY <1>19, IrqEndCode, Executes DEF ldm
  <2>3. /\ Popped(s - 20, 1)
        /\ \E vals : DOMAIN vals = {7} /\ vals[7] = mem[s - 20] /\ Loads(core', vals, s - 20 + 4)
    <3>1. s - 20 = bypass_read(core, SP) /\ 7 \in {0, 7, LR, PC}
      BY <1>5, <2>1
    <3> QED BY <1>1, <1>3, <2>2, <3>1, LoadOne, ZenonT(30)
  <2>4. PICK vals : DOMAIN vals = {7} /\ vals[7] = mem[s - 20] /\ Loads(core', vals, s - 20 + 4)
    BY <2>3
  <2>5. SP \notin DOMAIN vals /\ PC \notin DOMAIN vals
    BY <2>4, RegisterFacts
  <2>6. /\ Same(core, core') /\ core'.ac_pc = pc + 4
        /\ \A q \in Regs : core'.RB[q] = IF q \in DOMAIN vals /\ q # LR THEN vals[q] ELSE core.RB[q]
        /\ Own(core', s - 20 + 4, IF LR \in DOMAIN vals THEN vals[LR] ELSE bypass_read(core, LR))
    BY <1>5, <2>4, <2>5, OwnLoad, ZenonT(30)
  <2>7. core'.ac_pc = At(59)
    BY <1>19, <2>6 DEF At, Image, pc
  <2>8. irqSP(core') = s - 16 /\ svcSP(core') = svcSP(core) /\ core'.RB[7] = v.mask
        /\ \A r \in Regs \ {6, 7} : core'.RB[r] = core.RB[r]
    <3>1. irqSP(core') = s - 20 + 4 /\ svcSP(core') = svcSP(core)
      BY <1>2, <2>6 DEF Own
    <3>2. core'.RB[7] = v.mask /\ \A r \in Regs \ {6, 7} : core'.RB[r] = core.RB[r]
      BY <1>5, <2>1, <2>4, <2>6
    <3> QED BY <1>3, <3>1, <3>2
  <2>9. IrqSaved(mem', s, v)
    BY <1>3, <2>1, <2>3 DEF Popped, IrqSaved
  <2>10. Changed(s - 20, s) /\ UNCHANGED <<interrupted, priomask, line, configured>>
         /\ mem' = [a \in Slots |-> mem'[a]]
    BY <1>3, <2>3, SlotInt DEF Popped, Changed
  <2>11. IrqPlace(core', mem', priomask', line', v, s)
    BY <2>7, <2>8, <2>9 DEF IrqPlace
  <2> QED BY <1>8, <2>6, <2>8, <2>10, <2>11 DEF Same
<1>20. CASE pc = At(59)
  <2>1. /\ irqSP(core) = s - 16 /\ IrqSaved(mem, s, v) /\ core.RB[7] = v.mask
    BY <1>2, <1>20 DEF IrqPlace, At, Image, pc
  <2>2. exec_restore_priomask
    BY <1>20, IrqEndCode, Executes DEF I
  <2>3. /\ core' = finish(now) /\ priomask' = v.mask
        /\ UNCHANGED <<interrupted, mem, line, configured>>
    BY <1>6, <2>1, <2>2 DEF exec_restore_priomask, Becomes
  <2>4. Jumped(core', pc + 4)
    BY <1>1, <2>3, CoreFinish
  <2>5. core'.ac_pc = At(60)
    BY <1>20, <2>4 DEF Jumped, Goes, At, Image, pc
  <2>6. irqSP(core') = s - 16 /\ svcSP(core') = svcSP(core)
    BY <2>1, <2>4 DEF Jumped, irqSP, svcSP
  <2>7. IrqPlace(core', mem', priomask', line', v, s)
    BY <2>1, <2>3, <2>5, <2>6 DEF IrqPlace
  <2> QED BY <1>1, <1>8, <2>3, <2>4, <2>6, <2>7 DEF Jumped, Goes, Same, Changed
<1>21. CASE pc = At(60)
  <2>1. irqSP(core) = s - 16 /\ IrqSaved(mem, s, v) /\ priomask = v.mask
    BY <1>2, <1>21 DEF IrqPlace, At, Image, pc
  <2>2. Instr = ldm({6, 7, LR}) /\ exec_ldm
    BY <1>21, IrqEndCode, Executes DEF ldm
  <2>3. /\ Popped(s - 16, 3)
        /\ \E vals : /\ DOMAIN vals = {6, 7, LR} /\ vals[6] = mem[s - 16]
                     /\ vals[7] = mem[s - 16 + 4] /\ vals[LR] = mem[s - 16 + 8]
                     /\ Loads(core', vals, s - 16 + 12)
    <3>1. s - 16 = bypass_read(core, SP) /\ LR \in {LR, PC}
      BY <1>5, <2>1
    <3> QED BY <1>1, <1>3, <2>2, <3>1, LoadThree, ZenonT(30)
  <2>4. PICK vals : /\ DOMAIN vals = {6, 7, LR} /\ vals[6] = mem[s - 16]
                    /\ vals[7] = mem[s - 16 + 4] /\ vals[LR] = mem[s - 16 + 8]
                    /\ Loads(core', vals, s - 16 + 12)
    BY <2>3
  <2>5. SP \notin DOMAIN vals /\ PC \notin DOMAIN vals
    BY <2>4, RegisterFacts
  <2>6. /\ Same(core, core') /\ core'.ac_pc = pc + 4
        /\ \A q \in Regs : core'.RB[q] = IF q \in DOMAIN vals /\ q # LR THEN vals[q] ELSE core.RB[q]
        /\ Own(core', s - 16 + 12, IF LR \in DOMAIN vals THEN vals[LR] ELSE bypass_read(core, LR))
    BY <1>5, <2>4, <2>5, OwnLoad, ZenonT(30)
  <2>7. core'.ac_pc = At(61) /\ At(61) # At(62)
    BY <1>21, <2>6 DEF At, Image, pc
  <2>8. /\ irqSP(core') = s - 4 /\ irqLR(core') = Word(v) /\ svcSP(core') = svcSP(core)
        /\ core'.RB[6] = v.regs[6] /\ core'.RB[7] = v.regs[7]
        /\ \A r \in Regs \ {6, 7} : core'.RB[r] = core.RB[r]
    <3>1. irqSP(core') = s - 16 + 12 /\ svcSP(core') = svcSP(core) /\ irqLR(core') = vals[LR]
      BY <1>2, <2>4, <2>6 DEF Own
    <3>2. vals[6] = v.regs[6] /\ vals[7] = v.regs[7] /\ vals[LR] = Word(v)
      BY <1>3, <2>1, <2>4 DEF IrqSaved
    <3>3. /\ core'.RB[6] = v.regs[6] /\ core'.RB[7] = v.regs[7]
          /\ \A r \in Regs \ {6, 7} : core'.RB[r] = core.RB[r]
      BY <1>5, <2>4, <2>6, <3>2
    <3> QED BY <1>3, <3>1, <3>2, <3>3
  <2>9. mem'[s - 4] = v.pc
    BY <1>3, <2>1, <2>3 DEF Popped, IrqSaved
  <2>10. Changed(s - 20, s) /\ UNCHANGED <<interrupted, priomask, line, configured>>
         /\ mem' = [a \in Slots |-> mem'[a]]
    BY <1>3, <2>3, SlotInt DEF Popped, Changed
  <2>11. IrqPlace(core', mem', priomask', line', v, s)
    BY <2>1, <2>7, <2>8, <2>9, <2>10 DEF IrqPlace
  <2> QED BY <1>8, <2>6, <2>8, <2>10, <2>11 DEF Same
<1>22. CASE pc = At(61)
  <2>1. /\ irqSP(core) = s - 4 /\ irqLR(core) = Word(v) /\ mem[s - 4] = v.pc /\ priomask = v.mask
        /\ core.RB[6] = v.regs[6] /\ core.RB[7] = v.regs[7]
    BY <1>2, <1>22 DEF IrqPlace, At, Image, pc
  <2>2. exec_msr_spsr
    BY <1>22, IrqEndCode, Executes DEF I
  <2>3. core' = MSR_SPSR(now, Word(v), TRUE, TRUE) /\ Idle
    BY <1>6, <2>1, <2>2 DEF exec_msr_spsr, Becomes, Unmoved, Idle
  <2>4. Saves(core', Word(v))
    BY <1>1, <1>4, <1>5, <2>3, CoreMsrSpsr
  <2>5. core'.ac_pc = At(62) /\ At(61) # At(62)
    BY <1>22, <2>4 DEF Saves, At, Image, pc
  <2>6. /\ irqSP(core') = s - 4 /\ svcSP(core') = svcSP(core) /\ core'.SPSR[IRQ_MODE] = Word(v)
        /\ core'.RB[6] = v.regs[6] /\ core'.RB[7] = v.regs[7]
    BY <1>2, <1>5, <2>1, <2>4 DEF Saves, irqSP, svcSP
  <2>7. IrqPlace(core', mem', priomask', line', v, s)
    BY <2>1, <2>3, <2>5, <2>6 DEF IrqPlace, Idle
  <2> QED BY <1>1, <1>8, <2>3, <2>4, <2>6, <2>7 DEF Saves, Idle, Changed
<1>23. CASE pc = At(62)
  <2>1. /\ irqSP(core) = s - 4 /\ core.SPSR[IRQ_MODE] = Word(v) /\ mem[s - 4] = v.pc
        /\ priomask = v.mask /\ core.RB[6] = v.regs[6] /\ core.RB[7] = v.regs[7]
    BY <1>2, <1>23 DEF IrqPlace, At, Image, pc
  <2>2. exec_ldm_return
    BY <1>23, IrqEndCode, Executes DEF I
  <2>3. \A r \in {0, 6, 7, SP, LR} : core.RB[r] = v.regs[r]
    BY <1>2, <2>1
  <2> QED BY <1>2, <2>1, <2>2, <2>3, IrqReturns DEF s
<1>24. pc \in {At(6), At(44), At(45), At(46), At(47), At(48), At(49), At(50), At(51), At(52), At(58),
               At(59), At(60), At(61), At(62)}
  BY <1>2 DEF IrqPlace, pc
<1> QED BY <1>9, <1>10, <1>11, <1>12, <1>13, <1>14, <1>15, <1>16, <1>17, <1>18, <1>19, <1>20,
           <1>21, <1>22, <1>23, <1>24

-----------------------------------------------------------------------------
(* The invariant.                                                          *)

\* It holds when the image starts.
LEMMA OsInvInit == OsInit => OsInv
<1> SUFFICES ASSUME OsInit PROVE OsInv
  OBVIOUS
<1>1. /\ core.RB = [r \in Registers |-> 0] /\ core.mode = SUPERVISOR_MODE
      /\ core.ac_pc = At(0)
  BY DEF OsInit, Begin, At, Image
<1>2. IsCore(core)
  <2>1. /\ core = [RB |-> core.RB, bank |-> core.bank, SPSR |-> core.SPSR, mode |-> core.mode,
                   fiq |-> core.fiq, irq |-> core.irq, T |-> core.T, flags |-> core.flags,
                   ac_pc |-> core.ac_pc, VBAR |-> core.VBAR]
        /\ core.fiq \in BOOLEAN /\ core.irq \in BOOLEAN /\ core.T \in BOOLEAN /\ core.flags \in Nat
    BY DEF OsInit, Begin
  <2>2. /\ core.bank = [m \in ExceptionModes |-> core.bank[m]]
        /\ \A m \in ExceptionModes : core.bank[m] = [r \in Banked(m) |-> core.bank[m][r]]
        /\ core.SPSR = [m \in ExceptionModes |-> core.SPSR[m]]
    BY DEF OsInit, Begin
  <2> QED BY <1>1, <2>1, <2>2 DEF IsCore, Modes, ExceptionModes
<1>3. interrupted = <<>> /\ IsSeq(interrupted) /\ Depth = 0
  BY EmptySeq, DepthFacts DEF OsInit, IsSeq
<1>4. \A r \in GPR \ {0, 6, 7} : core.RB[r] = 0
  BY <1>1, OtherRegisters DEF Regs
<1>5. mem = [a \in Slots |-> mem[a]]
  BY DEF OsInit
<1>6. Contexts
  BY <1>2, <1>3, <1>4, <1>5 DEF Contexts, Types, Waiting, Descending
<1>7. Running
  BY <1>1, <1>3 DEF OsInit, Running, ResetPlace
<1> QED BY <1>6, <1>7 DEF OsInv

\* On what the context that runs may rest.
LEMMA OpenCases ==
  ASSUME Contexts, RunsOpen(core, mem, interrupted, priomask)
  PROVE  \/ Depth = 0 /\ AtBase(core, priomask)
         \/ Depth = 1 /\ interrupted[1].free = Svc
         \/ Depth > 0 /\ interrupted[Depth].free = {}
<1>1. Depth \in Nat /\ Waiting
  BY DepthFacts DEF Contexts, Types
<1>2. CASE Depth = 0
  BY <1>2, BaseFacts DEF Depth
<1>3. CASE Depth > 0
  <2>1. Waits(mem, interrupted, Depth) /\ interrupted[Depth].free # Und
    BY <1>1, <1>3 DEF Waiting, RunsOpen, Depth
  <2>2. /\ interrupted[Depth].free \in {{}, Svc}
        /\ interrupted[Depth].free # {} => Depth = 1
    BY <2>1 DEF Waits
  <2> QED BY <1>3, <2>2
<1> QED BY <1>1, <1>2, <1>3

\* Every instruction keeps it.
LEMMA OsInvStep == OsInv /\ step => OsInv'
<1> SUFFICES ASSUME OsInv, step PROVE OsInv'
  OBVIOUS
<1>1. Contexts /\ Running
  BY DEF OsInv
<1>2. CASE configured
  <2>1. configured = TRUE /\ core.VBAR = Image
    BY <1>1, <1>2 DEF Running
  <2>2. CASE RunsOpen(core, mem, interrupted, priomask)
    BY <1>1, <2>1, <2>2, OpenCases, BaseStep, CallStep, LineStep DEF OsInv
  <2>3. CASE RunsUnd(core, interrupted, priomask)
    BY <1>1, <2>1, <2>3, UndStep DEF OsInv
  <2>4. CASE RunsSvc(core, mem, interrupted, priomask)
    BY <1>1, <2>1, <2>4, SvcStep DEF OsInv
  <2>5. CASE RunsIrq(core, mem, interrupted, priomask, line)
    BY <1>1, <2>1, <2>5, IrqStep DEF OsInv
  <2> QED BY <1>1, <1>2, <2>2, <2>3, <2>4, <2>5 DEF Running
<1>3. CASE ~configured
  <2>1. configured = FALSE /\ interrupted = <<>> /\ priomask = 0 /\ ResetPlace(core)
    BY <1>1, <1>3 DEF Running
  <2> QED BY <1>1, <2>1, ResetStep DEF OsInv
<1> QED BY <1>2, <1>3

\* Interrupts are taken only by a context that is open to them.
LEMMA IrqOpen ==
  ASSUME OsInv, NEW l \in DOMAIN PriorityOf, irq(l)
  PROVE  RunsOpen(core, mem, interrupted, priomask) /\ configured = TRUE /\ core.VBAR = Image
<1>1. configured /\ ~core.irq
  BY DEF irq
<1> QED BY <1>1 DEF OsInv, Running, RunsUnd, RunsSvc, RunsIrq

\* So does every step.
LEMMA OsInvNext == OsInv /\ [OsNext]_osVars => OsInv'
<1> SUFFICES ASSUME OsInv, [OsNext]_osVars PROVE OsInv'
  OBVIOUS
<1>1. CASE step
  BY <1>1, OsInvStep
<1>2. ASSUME NEW l \in DOMAIN PriorityOf, irq(l)
      PROVE  OsInv'
  BY <1>2, IrqOpen, IrqTakes DEF OsInv
<1>3. CASE UNCHANGED osVars
  <2>1. UNCHANGED Contexts
    BY <1>3 DEF osVars, Contexts, Types, Waiting, Descending, Depth, IsSeq
  <2>2. UNCHANGED Running
    BY <1>3 DEF osVars, Running
  <2> QED BY <2>1, <2>2 DEF OsInv
<1> QED BY <1>1, <1>2, <1>3 DEF OsNext

\* Every context that waits is where its handler can resume it, and the one
\* that runs is at a place of the image with the stacks that belong to it.
THEOREM OsInvHolds == OsSpec => []OsInv
BY OsInvInit, OsInvNext, PTL DEF OsSpec

-----------------------------------------------------------------------------
(* User mode.                                                              *)

\* User mode is that of system_init and of the application.
LEMMA UserFacts ==
  ASSUME OsInv, core.mode = USER_MODE
  PROVE  /\ Depth = 0 /\ AtBase(core, priomask) /\ Status(core) = 16
         /\ configured = TRUE /\ core.VBAR = Image
<1>1. /\ Contexts /\ IsCore(core) /\ IsSeq(interrupted) /\ Waiting /\ Depth \in Nat
      /\ Len(interrupted) = Depth
  BY DepthFacts DEF OsInv, Contexts, Types, Depth
<1>2. USER_MODE \notin {SYSTEM_MODE, FIQ_MODE, IRQ_MODE, SUPERVISOR_MODE, ABORT_MODE, UNDEFINED_MODE}
  BY DEF USER_MODE, SYSTEM_MODE, FIQ_MODE, IRQ_MODE, SUPERVISOR_MODE, ABORT_MODE, UNDEFINED_MODE
<1>3. Status(core) # 31
  BY <1>1, <1>2, StatusFacts
<1>4. ~ResetPlace(core)
  BY <1>2, <1>3 DEF ResetPlace
<1>5. configured = TRUE /\ core.VBAR = Image /\ RunsOpen(core, mem, interrupted, priomask)
  BY <1>2, <1>4 DEF OsInv, Running, RunsUnd, RunsSvc, RunsIrq
<1>6. /\ Status(core) \in {16, 31, 63}
      /\ Depth > 0 => Status(core) # 16
  <2>1. /\ Open(mem, interrupted, Depth, Context(core, priomask))
        /\ Depth > 0 => interrupted[Depth].free # Und
    BY <1>1, <1>5 DEF RunsOpen
  <2> QED BY <1>1, <2>1, OpenShape, ContextFacts
<1>7. Status(core) = 16
  BY <1>1, <1>6, OpenMode
<1>8. Depth = 0
  BY <1>1, <1>6, <1>7
<1> QED BY <1>5, <1>7, <1>8, BaseFacts DEF Depth

\* An instruction in user mode stays there or enters by a vector.
LEMMA UserStep ==
  ASSUME IsCore(core), AtBase(core, priomask), Status(core) = 16, core.mode = USER_MODE,
         core.VBAR = Image, step
  PROVE  core'.mode = USER_MODE \/ core'.ac_pc \in {At(1), At(2)}
<1>1. 0 \in Regs
  BY RegisterFacts DEF Regs
<1>2. CASE pc = At(26)
  BY <1>1, <1>2, BaseCode, DoLdr DEF Moved, Goes, Same
<1>3. CASE pc = At(27)
  BY <1>3, BaseCode, DoBlx DEF Linked
<1>4. CASE pc = At(28)
  BY <1>4, BaseCode, DoB DEF Jumped, Goes, Same
<1>5. CASE pc = At(66)
  <2>1. app_compute \/ app_swi \/ app_undefined
    BY <1>5, BaseCode, Executes DEF I
  <2>2. CASE core' = MSR_CPSR(now, 31, TRUE, FALSE)
    BY <2>2, CoreMsrUser DEF Unswitched
  <2>3. ASSUME NEW f \in 0..FlagMax, core' = [MOV(now, 6, 1 + f) EXCEPT !.flags = f]
        PROVE  core'.mode = USER_MODE
    <3>1. f \in Nat
      BY RegisterAssumption
    <3> QED BY <2>3, <3>1, CoreMovFlags DEF Flagged
  <2>4. CASE app_swi \/ app_undefined
    <3>1. IsCore(now) /\ now.VBAR = Image
      BY NowFacts DEF Same
    <3>2. \E e \in {"SWI", "UNDEFINED"} : core' = service_interrupt(now, e)
      BY <2>4 DEF app_swi, app_undefined, Takes
    <3> QED BY <3>1, <3>2, EnterFacts, EntryFacts DEF Entered
  <2> QED BY <2>1, <2>2, <2>3, <2>4 DEF app_compute, Becomes
<1>6. CASE pc = At(67)
  <2>1. app_end
    BY <1>6, BaseCode, Executes DEF I
  <2>2. PICK to \in {app, loop} : core' = B(now, to)
    BY <2>1 DEF app_end, Becomes
  <2> QED BY <2>2, CoreB DEF Jumped, Goes, Same
<1> QED BY <1>2, <1>3, <1>4, <1>5, <1>6 DEF AtBase, pc

\* User mode is left only to the vectors, when nothing faults: os_abort shows
\* that a load which no device claims leaves it elsewhere.
THEOREM OsEnterByVector == OsSpec => EnterByVector
<1>1. ASSUME OsInv, [OsNext]_osVars, core.mode = USER_MODE, core'.mode # USER_MODE
      PROVE  core'.ac_pc \in {At(k) : k \in 0..7}
  <2>1. /\ IsCore(core) /\ AtBase(core, priomask) /\ Status(core) = 16 /\ core.VBAR = Image
    BY <1>1, UserFacts DEF OsInv, Contexts, Types
  <2>2. core' # core
    BY <1>1
  <2>3. CASE step
    BY <1>1, <2>1, <2>3, UserStep
  <2>4. ASSUME NEW l \in DOMAIN PriorityOf, irq(l)
        PROVE  core'.ac_pc = At(6)
    <3>1. core' = service_interrupt(core, "IRQ") /\ ~core.irq
      BY <2>4 DEF irq, Takes
    <3> QED BY <2>1, <3>1, EnterFacts, EntryFacts DEF Entered
  <2> QED BY <1>1, <2>2, <2>3, <2>4 DEF OsNext, osVars
<1>2. OsInv /\ [OsNext]_osVars
        => [core.mode = USER_MODE /\ core'.mode # USER_MODE
              => core'.ac_pc \in {At(k) : k \in 0..7}]_osVars
  BY <1>1
<1> QED BY <1>2, OsInvHolds, PTL DEF OsSpec, EnterByVector

\* Whenever the application runs, no exception is left half done: the stacks
\* of svc_handler and irq_handler are empty, PRIOMASK is open, and so are the
\* interrupts, whatever the handlers did and however they nested.
THEOREM OsNothingLeftBehind == OsSpec => []NothingLeftBehind
<1>1. OsInv => NothingLeftBehind
  <2> SUFFICES ASSUME OsInv, core.mode = USER_MODE
               PROVE  /\ interrupted = <<>>
                      /\ priomask = 0 /\ ~core.irq /\ ~core.fiq
                      /\ core.RB[SP] = USR_STACK
                      /\ core.bank[SUPERVISOR_MODE][SP] = SVC_STACK
                      /\ core.bank[IRQ_MODE][SP] = IRQ_STACK
    BY DEF NothingLeftBehind
  <2>1. Depth = 0 /\ AtBase(core, priomask) /\ Status(core) = 16
    BY UserFacts
  <2>2. IsSeq(interrupted) /\ IsCore(core)
    BY DEF OsInv, Contexts, Types
  <2>3. interrupted = <<>>
    BY <2>1, <2>2, DepthFacts
  <2>4. ~core.irq /\ ~core.fiq
    BY <2>1, <2>2, StatusFacts
  <2> QED BY <2>1, <2>3, <2>4 DEF AtBase, svcSP, irqSP
<1> QED BY <1>1, OsInvHolds, PTL

-----------------------------------------------------------------------------
(* Returns.                                                                *)

\* The core after the step is as it was in context v but for free.
Restored(v, free) ==
  LET view == View(core', priomask') IN
    /\ view.pc = v.pc
    /\ view.status = v.status /\ view.mask = v.mask
    /\ FLAGS \notin free => view.flags = v.flags
    /\ \A r \in Regs \ free : view.regs[r] = v.regs[r]

\* in terms of the core
LEMMA RestoredFacts ==
  ASSUME IsCore(core'), NEW v, NEW free, v.status \in {16, 31, 63}, Status(core') = v.status,
         core'.ac_pc = v.pc, priomask' = v.mask, FLAGS \notin free => core'.flags = v.flags,
         \A r \in Regs \ free : core'.RB[r] = v.regs[r]
  PROVE  Restored(v, free)
<1>1. core'.mode \in {USER_MODE, SYSTEM_MODE}
  BY OpenMode
<1> QED BY <1>1, ViewFacts DEF Restored

\* the registers by name
LEMMA AllRegisters ==
  ASSUME NEW r \in Regs
  PROVE  r \in {0, 6, 7, SP, LR} \/ r \in GPR \ {0, 6, 7}
BY RegisterFacts DEF Regs, Registers

\* the return from an undefined instruction
LEMMA UndReturns ==
  ASSUME Contexts, RunsUnd(core, interrupted, priomask), exec_movs
  PROVE  Restored(interrupted[Depth].view, interrupted[Depth].free)
<1> DEFINE v == interrupted[1].view
<1>1. IsCore(core) /\ IsSeq(interrupted) /\ Waiting
  BY DEF Contexts, Types
<1>2. /\ Depth = 1 /\ interrupted[1].free = Und
      /\ core.mode = UNDEFINED_MODE
      /\ core.bank[UNDEFINED_MODE][LR] = v.pc /\ core.SPSR[UNDEFINED_MODE] = Word(v)
      /\ \A r \in Regs : core.RB[r] = v.regs[r]
      /\ priomask = 0
  BY DEF RunsUnd, Depth, Regs
<1>3. v.status = 16 /\ v.flags \in Nat /\ v.mask = 0
  <2>1. Waits(mem, interrupted, 1) /\ Und # {}
    BY <1>1, <1>2 DEF Waiting, Und
  <2> QED BY <1>2, <2>1 DEF Waits, Open, OpenBase
<1>4. UNDEFINED_MODE \in ExceptionModes /\ LR \in Banked(UNDEFINED_MODE) /\ LR \in Regs
  BY BankedFacts, RegisterFacts DEF Regs
<1>5. Read(LR) = v.pc
  <2>1. Read(LR) = bypass_read(core, LR)
    BY <1>1, <1>4, NowFacts DEF Regs
  <2> QED BY <1>2, <1>4, <2>1 DEF bypass_read
<1>6. core' = MOVS_PC(now, v.pc, 0) /\ priomask' = priomask
  BY <1>5 DEF exec_movs, Returns, Unmoved
<1>7. /\ IsCore(core') /\ Status(core') = v.status /\ core'.ac_pc = v.pc
      /\ \A q \in Regs : core'.RB[q] = core.RB[q]
  BY <1>1, <1>2, <1>3, <1>4, <1>6, CoreMovs
<1>8. FLAGS \in Und /\ priomask' = v.mask /\ \A r \in Regs \ Und : core'.RB[r] = v.regs[r]
  BY <1>2, <1>3, <1>6, <1>7 DEF Und
<1> HIDE DEF v
<1>9. Restored(v, Und)
  BY <1>3, <1>7, <1>8, RestoredFacts
<1> QED BY <1>2, <1>9 DEF v

\* the return from a system call
LEMMA SvcReturns ==
  ASSUME Contexts, RunsSvc(core, mem, interrupted, priomask), pc = At(40), exec_ldm_return
  PROVE  Restored(interrupted[Depth].view, interrupted[Depth].free)
<1> DEFINE v == interrupted[1].view
<1>1. /\ IsCore(core) /\ IsSeq(interrupted) /\ Waiting
      /\ \A r \in GPR \ {0, 6, 7} : core.RB[r] = 0
  BY DEF Contexts, Types
<1>2. /\ Depth = 1 /\ interrupted[1].free = Svc /\ core.mode = SUPERVISOR_MODE
      /\ core.RB[SP] = v.regs[SP] /\ core.RB[6] = v.regs[6] /\ priomask = 0
      /\ svcSP(core) = SVC_STACK - 4 /\ mem[SVC_STACK - 4] = v.pc
      /\ core.SPSR[SUPERVISOR_MODE] = Word(v)
  BY DEF RunsSvc, SvcPlace, Depth, At, Image, pc
<1>3. /\ v.status = 16 /\ v.flags \in Nat /\ v.mask = 0
      /\ \A r \in GPR \ {0, 6, 7} : v.regs[r] = 0
  <2>1. Waits(mem, interrupted, 1)
    BY <1>1, <1>2 DEF Waiting
  <2>2. \A r \in GPR \ {0, 6, 7} : v.regs[r] = 0
    BY <2>1 DEF Waits
  <2> QED BY <1>1, <1>2, <2>2, CallFacts
<1>4. bypass_read(core, SP) = svcSP(core) /\ core.mode \in ExceptionModes /\ SP \in Regs
  BY <1>2, OwnRead, OwnBank
<1>5. Read(SP) = SVC_STACK - 4
  BY <1>1, <1>2, <1>4, NowFacts DEF Regs
<1>6. Resumes(core', v, v.pc) /\ priomask' = priomask
  <2>1. LET popped == bypass_write(now, SP, Read(SP) + 4)
        IN  core' = finish(SPSRtoCPSR([popped EXCEPT !.RB[PC] = mem[Read(SP)]]))
    BY DEF exec_ldm_return, Returns
  <2>2. mem[Read(SP)] = v.pc
    BY <1>2, <1>5
  <2>3. priomask' = priomask
    BY DEF exec_ldm_return
  <2> QED BY <1>1, <1>2, <1>3, <1>4, <2>1, <2>2, <2>3, CoreReturn
<1>7. \A r \in Regs \ Svc : core'.RB[r] = v.regs[r]
  BY <1>1, <1>2, <1>3, <1>6, AllRegisters DEF Resumes, Svc
<1> HIDE DEF v
<1>8. Restored(v, Svc)
  BY <1>2, <1>3, <1>6, <1>7, RestoredFacts DEF Resumes
<1> QED BY <1>2, <1>8 DEF v

\* the return from an interrupt
LEMMA IrqRestores ==
  ASSUME Contexts, configured = TRUE, core.VBAR = Image,
         RunsIrq(core, mem, interrupted, priomask, line), pc = At(62), exec_ldm_return
  PROVE  Restored(interrupted[Depth].view, interrupted[Depth].free)
<1> DEFINE v == interrupted[Depth].view
           s == FrameTop(interrupted, Depth)
<1>1. /\ IsCore(core) /\ IsSeq(interrupted) /\ Waiting /\ Depth \in Nat
      /\ \A r \in GPR \ {0, 6, 7} : core.RB[r] = 0
      /\ Len(interrupted) = Depth
  BY DepthFacts DEF Contexts, Types, Depth
<1>2. /\ Depth > 0 /\ Depth \in 1..Depth /\ interrupted[Depth].free = {} /\ core.mode = IRQ_MODE
      /\ core.RB[SP] = v.regs[SP] /\ core.RB[LR] = v.regs[LR] /\ core.RB[0] = v.regs[0]
      /\ svcSP(core) = SVC_STACK - 8 * Calls(interrupted)
      /\ IrqPlace(core, mem, priomask, line, v, s)
  BY <1>1 DEF RunsIrq
<1>3. /\ irqSP(core) = s - 4 /\ core.SPSR[IRQ_MODE] = Word(v) /\ mem[s - 4] = v.pc
      /\ priomask = v.mask /\ core.RB[6] = v.regs[6] /\ core.RB[7] = v.regs[7]
  BY <1>2 DEF IrqPlace, At, Image, pc
<1>4. v.status \in {16, 31, 63} /\ \A r \in GPR \ {0, 6, 7} : v.regs[r] = 0
  BY <1>1, <1>2 DEF Waiting, Waits
<1>5. \A r \in {0, 6, 7, SP, LR} : core.RB[r] = v.regs[r]
  BY <1>2, <1>3
<1>6. Resumes(core', v, v.pc) /\ priomask' = priomask
  BY <1>2, <1>3, <1>5, IrqReturns
<1>7. \A r \in Regs \ {} : core'.RB[r] = v.regs[r]
  BY <1>1, <1>4, <1>5, <1>6, AllRegisters DEF Resumes
<1> HIDE DEF v
<1>8. Restored(v, {})
  BY <1>3, <1>4, <1>6, <1>7, RestoredFacts DEF Resumes
<1> QED BY <1>2, <1>8 DEF v

\* Contexts leave the sequence by these two instructions.
LEMMA Shrinks ==
  ASSUME OsInv, [OsNext]_osVars, Len(interrupted') < Len(interrupted)
  PROVE  step /\ Instr.op \in {"movs", "ldm_return"}
<1>1. IsSeq(interrupted) /\ Depth \in Nat /\ Len(interrupted) = Depth
  BY DepthFacts DEF OsInv, Contexts, Types, Depth
<1>2. interrupted' # interrupted
  BY <1>1
<1>3. ~ \E e : interrupted' = Append(interrupted, e)
  BY <1>1, OneMore DEF Depth
<1>4. ~ UNCHANGED osVars /\ ~ \E l \in DOMAIN PriorityOf : irq(l)
  BY <1>2, <1>3 DEF osVars, irq, Takes
<1>5. step
  BY <1>4 DEF OsNext
<1>6. ~ app_swi /\ ~ app_undefined
  BY <1>3 DEF app_swi, app_undefined, Takes
<1>7. exec_ldm_return \/ exec_movs
  BY <1>2, <1>5, <1>6 DEF step, Becomes, exec_b, exec_ldr, exec_blx, exec_msr, exec_mcr, exec_mrs,
     exec_msr_spsr, exec_sub, exec_stm, exec_ldm, exec_configure, exec_dispatch, exec_work,
     exec_find, exec_address, exec_get_priomask, exec_set_priomask, exec_restore_priomask,
     app_compute, app_end
<1> QED BY <1>5, <1>7 DEF exec_ldm_return, exec_movs

\* They are the last ones of the three handlers, and no others.
LEMMA ReturnPlaces ==
  ASSUME OsInv, Depth > 0, Instr.op \in {"movs", "ldm_return"}
  PROVE  /\ configured = TRUE /\ core.VBAR = Image
         /\ \/ RunsUnd(core, interrupted, priomask) /\ Instr.op = "movs"
            \/ RunsSvc(core, mem, interrupted, priomask) /\ pc = At(40)
            \/ RunsIrq(core, mem, interrupted, priomask, line) /\ pc = At(62)
<1>1. Contexts /\ Running /\ Len(interrupted) = Depth
  BY DEF OsInv, Depth
<1>2. interrupted # <<>>
  BY DepthFacts DEF OsInv, Contexts, Types
<1>3. configured = TRUE /\ core.VBAR = Image
  BY <1>1, <1>2 DEF Running
<1>4. ASSUME RunsUnd(core, interrupted, priomask)
      PROVE  Instr.op = "movs"
  <2>1. pc \in {At(1), At(23)}
    BY <1>4 DEF RunsUnd, pc
  <2> QED BY <2>1, BaseCode DEF branch, I
<1>5. ASSUME RunsSvc(core, mem, interrupted, priomask)
      PROVE  pc = At(40)
  <2>1. pc \in {At(2), At(29), At(30), At(31), At(32), At(38), At(39), At(40)}
    BY <1>5 DEF RunsSvc, SvcPlace, pc
  <2> QED BY <2>1, SvcCode DEF branch, stm, ldm, msr, I
<1>6. ASSUME RunsIrq(core, mem, interrupted, priomask, line)
      PROVE  pc = At(62)
  <2>1. pc \in {At(6), At(44), At(45), At(46), At(47), At(48), At(49), At(50), At(51), At(52), At(58),
                At(59), At(60), At(61), At(62)}
    BY <1>6 DEF RunsIrq, IrqPlace, pc
  <2> QED BY <2>1, IrqCode, IrqEndCode DEF branch, stm, ldm, msr, I
<1>7. ~ RunsOpen(core, mem, interrupted, priomask)
  <2> SUFFICES ASSUME RunsOpen(core, mem, interrupted, priomask) PROVE FALSE
    OBVIOUS
  <2>1. /\ Open(mem, interrupted, Depth, Context(core, priomask))
        /\ Context(core, priomask).pc = pc
    BY <1>1, ContextFacts DEF RunsOpen, pc
  <2>2. CASE interrupted[Depth].free = {}
    <3>1. pc \in {At(53), At(54), At(55), At(56), At(57), At(63), At(64), At(65)}
      BY <2>1, <2>2 DEF Open, OpenIrq
    <3> QED BY <3>1, LineCode DEF stm, ldm, msr, I
  <2>3. CASE interrupted[Depth].free # {}
    <3>1. pc \in {At(33), At(34), At(35), At(36), At(37), At(41), At(42), At(43)}
      BY <2>1, <2>3 DEF Open, OpenSvc
    <3> QED BY <3>1, CallCode DEF stm, ldm, msr, I
  <2> QED BY <2>2, <2>3
<1> QED BY <1>1, <1>3, <1>4, <1>5, <1>6, <1>7 DEF Running

\* A handler returns to the instruction that follows, in the mode, with the
\* interrupt masks, PRIOMASK, the flags and the registers that were
\* interrupted, to whatever depth other interrupts nested into it.
THEOREM OsTransparent == OsSpec => Transparent
<1>1. ASSUME OsInv, [OsNext]_osVars, Len(interrupted') < Len(interrupted)
      PROVE  Restored(Top.view, Top.free)
  <2>1. step /\ Instr.op \in {"movs", "ldm_return"}
    BY <1>1, Shrinks
  <2>2. IsSeq(interrupted) /\ Contexts /\ Depth \in Nat /\ Top = interrupted[Depth]
    BY <1>1, DepthFacts DEF OsInv, Contexts, Types, Depth, Top
  <2>3. Depth > 0
    <3>1. IsSeq(interrupted')
      BY <1>1, OsInvNext DEF OsInv, Contexts, Types, IsSeq
    <3>2. Len(interrupted') \in Nat
      BY <3>1, LenProperties DEF IsSeq
    <3> QED BY <1>1, <2>2, <3>2 DEF Depth
  <2>4. configured = TRUE /\ core.VBAR = Image
    BY <1>1, <2>1, <2>3, ReturnPlaces
  <2>5. CASE RunsUnd(core, interrupted, priomask) /\ Instr.op = "movs"
    <3>1. exec_movs
      BY <2>1, <2>5, Executes
    <3> QED BY <2>2, <2>5, <3>1, UndReturns
  <2>6. CASE RunsSvc(core, mem, interrupted, priomask) /\ pc = At(40)
    <3>1. exec_ldm_return
      BY <2>1, <2>6, SvcCode, Executes DEF I
    <3> QED BY <2>2, <2>6, <3>1, SvcReturns
  <2>7. CASE RunsIrq(core, mem, interrupted, priomask, line) /\ pc = At(62)
    <3>1. exec_ldm_return
      BY <2>1, <2>7, IrqEndCode, Executes DEF I
    <3> QED BY <2>2, <2>4, <2>7, <3>1, IrqRestores
  <2> QED BY <1>1, <2>1, <2>3, <2>5, <2>6, <2>7, ReturnPlaces
<1>2. OsInv /\ [OsNext]_osVars =>
        [Len(interrupted') < Len(interrupted) =>
           LET view == View(core', priomask') IN
             /\ view.pc = Top.view.pc
             /\ view.status = Top.view.status /\ view.mask = Top.view.mask
             /\ FLAGS \notin Top.free => view.flags = Top.view.flags
             /\ \A r \in (Registers \ {PC}) \ Top.free : view.regs[r] = Top.view.regs[r]]_osVars
  BY <1>1 DEF Restored, Regs
<1> QED BY <1>2, OsInvHolds, PTL DEF OsSpec, Transparent
=============================================================================
