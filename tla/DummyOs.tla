------------------------------- MODULE DummyOs -------------------------------
(***************************************************************************)
(* dummyos on the core: base.s (vectors, reset_handler, system_init),      *)
(* syscalls.s (svc_handler) and irq.s (irq_handler), instruction by        *)
(* instruction, under an application that does what it likes in user mode. *)
(*                                                                         *)
(* r0 stands for r0-r3, r6 for r4-r6, r8 and r9.  The search of the line,  *)
(* the body of read and write and the body of a line's handler are one     *)
(* instruction each; IrqSystem and Console model them.  The controller may *)
(* raise an interrupt after any instruction: a batch may end there.        *)
(***************************************************************************)
EXTENDS ArmCore, Sequences, FiniteSets

CONSTANTS
  PriorityOf,   \* the lines enabled and their priorities
  StackWords,   \* 0x400: words from one stack to the next
  MaxIrqs,      \* bound: interrupts in one behaviour
  MaxDepth      \* bound: exceptions not returned from at one time

ASSUME OsAssumption == /\ {0, 6, 7} \subseteq GPR
                       /\ \A l \in DOMAIN PriorityOf : PriorityOf[l] \in Nat \ {0}
                       /\ MaxIrqs \in Nat /\ MaxDepth \in Nat

\* The stacks have room for MaxDepth activations of irq_handler: five words each
\* on the stack of the interrupt mode and three on that of the application,
\* which a system call uses as well.  Nothing in the code keeps the nesting
\* within that room: the byte that irq_handler loads into PRIOMASK may leave the
\* line it serves unmasked.
ASSUME StackAssumption ==
  /\ StackWords \in Nat
  /\ 5 * MaxDepth <= StackWords /\ 3 + 3 * MaxDepth <= StackWords

VARIABLES
  core,
  mem,          \* the stacks
  priomask,     \* PRIOMASK of the controller
  line,         \* the line HIPND shows
  configured,   \* configure_tzic has run
  irqs,         \* interrupts so far
  interrupted   \* history: what each exception not returned from should find
                \* when it returns

osVars == <<core, mem, priomask, line, configured, irqs, interrupted>>

-----------------------------------------------------------------------------
(* The image.                                                              *)

Image == 32
At(k) == Image + 4 * k
reset_handler == At(8)
unimplemented == At(23)
system_init == At(24)
loop == At(28)
svc_handler == At(29)
sys_entry == At(41)
irq_handler == At(44)
line_handler == At(63)
app == At(66)

\* 0x77701000, 0x77702000 and so on
Stack(i) == 1000 + 4 * StackWords * i
SVC_STACK == Stack(1)
UND_STACK == Stack(2)
ABT_STACK == Stack(3)
IRQ_STACK == Stack(4)
FIQ_STACK == Stack(5)
USR_STACK == Stack(6)
Slots == {b - 4 * k : b \in {SVC_STACK, IRQ_STACK, USR_STACK}, k \in 1..StackWords}

I(op) == [op |-> op]
branch(to) == [op |-> "b", to |-> to]
ldr(rd, v) == [op |-> "ldr", rd |-> rd, val |-> v]
msr(v) == [op |-> "msr", val |-> v]
stm(list) == [op |-> "stm", list |-> list]
ldm(list) == [op |-> "ldm", list |-> list]

Code == <<
  branch(reset_handler), branch(unimplemented), branch(svc_handler),
  branch(unimplemented), branch(unimplemented), I("nop"),
  branch(irq_handler), branch(unimplemented),
  \* reset_handler
  ldr(SP, SVC_STACK), msr(223), ldr(SP, USR_STACK), msr(209), ldr(SP, FIQ_STACK),
  msr(210), ldr(SP, IRQ_STACK), msr(215), ldr(SP, ABT_STACK), msr(219),
  ldr(SP, UND_STACK), ldr(0, Image), I("mcr"), msr(31), branch(system_init),
  \* undefined_i_handler, the abort handlers, fiq_handler
  I("movs"),
  \* system_init
  I("configure"), msr(16), ldr(0, app), [op |-> "blx", rm |-> 0], branch(loop),
  \* svc_handler
  stm({LR}), I("mrs"), stm({LR}), msr(31), stm({0}), I("dispatch"), ldm({0}),
  [op |-> "blx", rm |-> 7], msr(211), ldm({LR}), I("msr_spsr"), I("ldm_return"),
  \* read, write
  stm({6, 7, LR}), I("work"), ldm({6, 7, PC}),
  \* irq_handler
  I("sub"), stm({LR}), I("mrs"), stm({6, 7, LR}), I("find"), I("get_priomask"),
  stm({7}), I("set_priomask"), msr(31), stm({0, LR}), I("address"),
  [op |-> "blx", rm |-> 6], ldm({0, LR}), msr(146), ldm({7}), I("restore_priomask"),
  ldm({6, 7, LR}), I("msr_spsr"), I("ldm_return"),
  \* the handler of a line
  stm({LR}), I("work"), ldm({PC}),
  I("app"), I("app_end") >>

Instr == Code[(core.ac_pc - Image) \div 4 + 1]

-----------------------------------------------------------------------------
OsInit ==
  /\ core = [Begin EXCEPT !.ac_pc = Image]
  /\ mem = [a \in Slots |-> 0]
  /\ priomask = 0 /\ line = 0 /\ configured = FALSE
  /\ irqs = 0 /\ interrupted = <<>>

\* the core after the common part of the instruction
now == instruction(core)
Read(r) == bypass_read(now, r)

Becomes(c) == core' = c /\ UNCHANGED interrupted

\* What an exception should resume, but for the registers in free.  FLAGS in
\* free: the flags as well.
FLAGS == 16
View(c, mask) ==
  [pc |-> c.ac_pc, status |-> CPSRBuild(c) % 256, flags |-> c.flags, mask |-> mask,
   regs |-> [r \in Registers \ {PC} |-> bypass_read(c, r)]]
Takes(c, e, free) ==
  /\ core' = service_interrupt(c, e)
  /\ interrupted' = Append(interrupted, [view |-> View(c, priomask), free |-> free])
Returns(c) ==
  /\ core' = c
  /\ interrupted' = SubSeq(interrupted, 1, Len(interrupted) - 1)

Unmoved == UNCHANGED <<mem, priomask, line, configured, irqs>>

-----------------------------------------------------------------------------
(* Instructions of the handlers.                                           *)

exec_b == Instr.op = "b" /\ Becomes(B(now, Instr.to)) /\ Unmoved
exec_ldr == Instr.op = "ldr" /\ Becomes(MOV(now, Instr.rd, Instr.val)) /\ Unmoved
exec_blx == Instr.op = "blx" /\ Becomes(BLX2(now, Instr.rm)) /\ Unmoved
exec_msr ==
  Instr.op = "msr" /\ Becomes(MSR_CPSR(now, Instr.val, TRUE, FALSE)) /\ Unmoved
exec_mcr == Instr.op = "mcr" /\ Becomes(MCR_VBAR(now, 0)) /\ Unmoved
exec_mrs == Instr.op = "mrs" /\ Becomes(MRS(now, LR, TRUE)) /\ Unmoved
exec_msr_spsr ==
  Instr.op = "msr_spsr" /\ Becomes(MSR_SPSR(now, Read(LR), TRUE, TRUE)) /\ Unmoved
exec_sub == Instr.op = "sub" /\ Becomes(MOV(now, LR, Read(LR) - 4)) /\ Unmoved

\* Full descending stack of the current mode: the base register first, then
\* the registers, the lowest at the lowest address.
Place(start, list, r) == start + 4 * Cardinality({q \in list : q < r})

exec_stm ==
  /\ Instr.op = "stm"
  /\ LET list == Instr.list
         start == Read(SP) - 4 * Cardinality(list)
     IN /\ Becomes(finish(bypass_write(now, SP, start)))
        /\ mem' = [a \in Slots |->
                     IF \E r \in list : a = Place(start, list, r)
                       THEN Read(CHOOSE r \in list : a = Place(start, list, r))
                       ELSE mem[a]]
  /\ UNCHANGED <<priomask, line, configured, irqs>>

\* bypass_write of several registers
Loaded(c, vals) ==
  [c EXCEPT !.RB = [r \in Registers |->
                      IF r \in DOMAIN vals \ Banked(c.mode) THEN vals[r] ELSE @[r]],
            !.bank = [m \in ExceptionModes |-> [r \in Banked(m) |->
                      IF m = c.mode /\ r \in DOMAIN vals THEN vals[r] ELSE @[m][r]]]]

\* The words below the stack pointer are dead: the model forgets them.
Pop(start, n) == mem' = [a \in Slots |-> IF a \in start..(start + 4 * n - 1) THEN 0 ELSE mem[a]]

exec_ldm ==
  /\ Instr.op = "ldm"
  /\ LET list == Instr.list
         start == Read(SP)
         popped == bypass_write(now, SP, start + 4 * Cardinality(list))
     IN /\ Becomes(finish(Loaded(popped, [r \in list |-> mem[Place(start, list, r)]])))
        /\ Pop(start, Cardinality(list))
  /\ UNCHANGED <<priomask, line, configured, irqs>>

\* ldmfd sp!, {PC}^: the base of the current mode, then SPSRtoCPSR.
exec_ldm_return ==
  /\ Instr.op = "ldm_return"
  /\ LET popped == bypass_write(now, SP, Read(SP) + 4)
     IN Returns(finish(SPSRtoCPSR([popped EXCEPT !.RB[PC] = mem[Read(SP)]])))
  /\ Pop(Read(SP), 1)
  /\ UNCHANGED <<priomask, line, configured, irqs>>

\* movs pc, lr: the flags are those of the address, never negative nor zero.
exec_movs ==
  /\ Instr.op = "movs"
  /\ Returns(MOVS_PC(now, Read(LR), 0))
  /\ Unmoved

\* configure_tzic and the devices
exec_configure ==
  /\ Instr.op = "configure"
  /\ Becomes(MOV(now, 0, 1))
  /\ configured' = TRUE
  /\ UNCHANGED <<mem, priomask, line, irqs>>

\* svc_handler: the compare and the address of the routine, in r7
exec_dispatch ==
  /\ Instr.op = "dispatch"
  /\ Becomes([MOV(MOV(now, 0, 0), 7, sys_entry) EXCEPT !.flags = 0])
  /\ Unmoved

\* the body of a routine: scratch registers and flags are lost
exec_work ==
  /\ Instr.op = "work"
  /\ Becomes([MOV(MOV(now, 0, 0), 6, 0) EXCEPT !.flags = 1])
  /\ Unmoved

\* irq_handler: r6 takes the number of the line, then its handler's address
exec_find ==
  /\ Instr.op = "find"
  /\ Becomes([MOV(now, 6, line) EXCEPT !.flags = 1])
  /\ Unmoved
exec_address == Instr.op = "address" /\ Becomes(MOV(now, 6, line_handler)) /\ Unmoved
exec_get_priomask ==
  Instr.op = "get_priomask" /\ Becomes(MOV(now, 7, priomask)) /\ Unmoved

\* ldrb of byte l of the PRIORITY registers yields the lowest byte of the
\* register: the priority of its first line, zero when that was not enabled.
PriorityByte(l) ==
  LET first == 4 * (l \div 4)
  IN IF first \in DOMAIN PriorityOf THEN PriorityOf[first] ELSE 0

exec_set_priomask ==
  /\ Instr.op = "set_priomask"
  /\ priomask' = PriorityByte(Read(6))
  /\ Becomes(finish(now))
  /\ UNCHANGED <<mem, line, configured, irqs>>

\* Mutant: the mask of the interrupted activation is not put back.
exec_restore_priomask_not ==
  /\ Instr.op = "restore_priomask"
  /\ Becomes(finish(now))
  /\ Unmoved

exec_restore_priomask ==
  /\ Instr.op = "restore_priomask"
  /\ priomask' = Read(7)
  /\ Becomes(finish(now))
  /\ UNCHANGED <<mem, line, configured, irqs>>

-----------------------------------------------------------------------------
(* The application.                                                        *)

\* computes, or tries to write the control bits
app_compute ==
  /\ Instr.op = "app"
  /\ \/ \E f \in 0..FlagMax : Becomes([MOV(now, 6, 1 + f) EXCEPT !.flags = f])
     \/ Becomes(MSR_CPSR(now, 31, TRUE, FALSE))
  /\ Unmoved

\* A system call may change r0, r7 and LR: svc_handler calls the routine
\* from system mode, which has the link register of user mode.
app_swi ==
  /\ Instr.op = "app"
  /\ Takes(now, "SWI", {0, 7, LR})
  /\ Unmoved

\* a coprocessor that is not there; MOVS leaves other flags
app_undefined ==
  /\ Instr.op = "app"
  /\ Takes(now, "UNDEFINED", {FLAGS})
  /\ Unmoved

app_load_unmapped ==
  /\ Instr.op = "app"
  /\ Becomes(LDR_unmapped(now, 6, 0))
  /\ Unmoved

\* once more, or back to system_init by the address it has saved: LR does not
\* survive a system call
app_end ==
  /\ Instr.op = "app_end"
  /\ \E to \in {app, loop} : Becomes(B(now, to))
  /\ Unmoved

-----------------------------------------------------------------------------
(* The controller: an interrupt above PRIOMASK.                            *)

irq(l) ==
  /\ configured /\ irqs < MaxIrqs /\ Len(interrupted) < MaxDepth
  /\ PriorityOf[l] > priomask
  /\ ~core.irq
  /\ line' = l /\ irqs' = irqs + 1
  /\ Takes(core, "IRQ", {})
  /\ UNCHANGED <<mem, priomask, configured>>

step ==
  \/ exec_b \/ exec_ldr \/ exec_blx \/ exec_msr \/ exec_mcr \/ exec_mrs
  \/ exec_msr_spsr \/ exec_sub \/ exec_stm \/ exec_ldm \/ exec_ldm_return
  \/ exec_movs \/ exec_configure \/ exec_dispatch \/ exec_work \/ exec_find
  \/ exec_address \/ exec_get_priomask \/ exec_set_priomask \/ exec_restore_priomask
  \/ app_compute \/ app_swi \/ app_undefined \/ app_end

OsNext == step \/ \E l \in DOMAIN PriorityOf : irq(l)

\* The core goes on executing.
OsSpec == OsInit /\ [][OsNext]_osVars /\ WF_osVars(step)

\* The application also loads from addresses that no device claims.
OsFaultSpec == OsInit /\ [][OsNext \/ app_load_unmapped]_osVars /\ WF_osVars(step)

-----------------------------------------------------------------------------
Top == interrupted[Len(interrupted)]

\* A handler returns to the instruction that follows, in the mode, with the
\* interrupt masks, PRIOMASK, the flags and the registers that were interrupted, however
\* other interrupts nested into it: in the application, in a system call that
\* runs in system mode on the registers of the application, in another handler.
Transparent ==
  [][Len(interrupted') < Len(interrupted) =>
       LET view == View(core', priomask') IN
         /\ view.pc = Top.view.pc
         /\ view.status = Top.view.status /\ view.mask = Top.view.mask
         /\ FLAGS \notin Top.free => view.flags = Top.view.flags
         /\ \A r \in (Registers \ {PC}) \ Top.free : view.regs[r] = Top.view.regs[r]
    ]_osVars

\* Whenever the application runs, no exception is left half done: the stacks
\* of all modes are empty, PRIOMASK is open and interrupts are enabled.
NothingLeftBehind ==
  core.mode = USER_MODE =>
    /\ interrupted = <<>>
    /\ priomask = 0 /\ ~core.irq /\ ~core.fiq
    /\ core.RB[SP] = USR_STACK
    /\ core.bank[SUPERVISOR_MODE][SP] = SVC_STACK
    /\ core.bank[IRQ_MODE][SP] = IRQ_STACK

\* dummyos/base.s:21 "This is the entry point used by ARM core to switch
\* between different operation modes": user mode is left only to the vectors.
EnterByVector ==
  [][core.mode = USER_MODE /\ core'.mode # USER_MODE
       => core'.ac_pc \in {At(k) : k \in 0..7}]_osVars

\* Interrupts nested in a system call and in each other do not keep it from
\* returning to the application, as long as no new ones arrive.
HandlersReturn == core.mode # USER_MODE ~> core.mode = USER_MODE
==============================================================================
