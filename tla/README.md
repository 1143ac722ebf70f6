# A TLA+ model of the ARMv7 platform simulator

The repository is a functional simulator of a Freescale iMX53 board: an ArchC
ARM core and a set of device models written in SystemC/C++ (`armv7/`), a boot
ROM (`dumboot/`) and a small teaching operating system (`dummyos/`), both in
ARM assembly. This directory models the devices and the code that drives them,
checks the models with TLC and proves the main invariants with TLAPS.

## 1. The system

Everything runs in one SystemC simulation. Each device is a cooperative thread
(`prc_tzic`, `prc_gpt`, `prc_uart`, `prc_ESDHCV2`, `prc_sdcard`) that does one
cycle of work and yields with `wait (1, SC_NS)`. The core is one more thread:
it executes a *batch* of instructions (`arm.cpp:517`, 100 by default, option
`-b`) before it yields. An access of the core to a device register is a direct
call of the device's `fast_read`/`fast_write`, so it is atomic with respect to
the device threads, but between two instructions a batch may end and every
device thread may run. That is where the hard behaviour is: software sees the
devices move between any two of its steps, or not move for a hundred of them.

| component | state | operations | talks to |
|---|---|---|---|
| interrupt controller (`tzic`) | enable, source, pending, priority registers, the lines, `changed` | `interrupt`, `fast_write`, `prc_tzic` | called by devices, interrupts the core |
| timer (`gpt`) | counter, prescaler, mode, compare and capture registers, flags | `fast_write`, capture pins, `prc_gpt` | drives line 39 |
| UART (`uart`) | two FIFOs, flags, enables | `fast_read/write`, `prc_uart` | standard streams of the host, line 31 |
| SD card (`sd`) | protocol state, block position, line buffer | commands, `prc_sdcard` | called by the host controller |
| SD host controller (`esdhcv2`) | transfer state, buffer, block count, interrupt registers | `fast_read/write`, `prc_ESDHCV2` | card, line 1 |
| `dumboot` | return codes, loop registers | `init_sd`, `sd_read`, `esdhc_send_command`, UART routines | polls host controller and UART |
| `dummyos` | the stacks of the modes, PRIOMASK | `reset_handler`, `irq_handler`, `svc_handler`, UART routines | TZIC, timer, UART |
| core: instructions | register bank, flags, memory | one behaviour per instruction format and instruction (`arm_isa.cpp`) | memory port |
| core: exceptions | mode, masks, banked LR, SP and SPSR, VBAR | `service_interrupt`, MSR, MRS, returns | called inside the controller's cycle, by the bus and by instructions |
| core: loop | decoding tree, cache of decoded instructions, `decode_pc` | fetch, decode, stop, execute (`arm.cpp`) | memory, debugger stub |
| GDB stub (`ac_gdb`) | breakpoints, step flag, packet being sent | one handler per command, `comm_getpacket`, `comm_putpacket` | the debugger over a socket |
| MMU, CP15, bus, memories | translation registers, tables in memory, windows of the devices | `transport`, both levels of the walk, routing | core above, devices below |
| SRC, CCM, DPLLC, system call emulation, ArchC's generators | | | not modelled, section 8 |

What makes each correct:

* **tzic**: the cached PND/HIPND are not stale; an interrupt always has a cause
  software can find; no request is left unprocessed; hold-off really holds off.
* **gpt**: the timer is periodic under any reprogramming; the line ends at the
  level of the flags; restart mode never overshoots.
* **uart and its drivers**: characters are neither lost nor repeated; no access
  past the FIFOs; polls end.
* **SD**: `sd_read` copies the blocks asked for, in order, whatever the three
  threads' interleaving; nothing of one transfer is left for the next; the
  status bits software polls agree with the transfer.
* **interrupt handling**: only what is above PRIOMASK nests; PRIOMASK is
  restored, whatever nested; an interrupt dropped by a masked core is not lost for ever; what was
  interrupted goes on as if nothing had happened.
* **instructions**: what compilers build from two or three of them (compare and
  branch, add with carry, shift by a register, push and pop, store and load)
  computes what it is meant to, at every boundary value.
* **MMU**: two processes that share the memory have memories of their own.
* **loop and debugger**: what is executed is what memory holds now, in spite of
  the cache; the debugger stops where it asked to, whatever the line damages.

## 2. Modules

| module | models |
|---|---|
| `Tzic` | the interrupt controller with open devices and software |
| `Gpt`, `MCGpt` | the timer with open software; words for TLC |
| `Uart` | the UART, both FIFOs, the host's terminal (external) |
| `Console`, `MCConsole` | EXTENDS `Uart`: the read and write loops of dummyos and dumboot |
| `SdCard` | the card: state machine, handlers, line buffer |
| `Esdhc` | EXTENDS `SdCard`: the controller's registers and thread |
| `SdHost` | EXTENDS `Esdhc`: controller and card under arbitrary software |
| `BlockRead` | abstract: what a call of `sd_read` promises |
| `SdBoot`, `MCSdBoot` | EXTENDS `Esdhc`: the boot driver, one action per register access; implements `BlockRead` |
| `IrqSystem`, `MCIrqSystem` | EXTENDS `Tzic`: devices, core and `irq_handler` |
| `ArmWord` | words of `W` bits, conditions, flags, shifter operands |
| `ArmAlu` | EXTENDS `ArmWord`: data processing, multiplications, bit fields |
| `ArmMem` | EXTENDS `ArmAlu`: memory port, addressing modes, loads and stores |
| `ArmProgram`, `MCArmProgram` | EXTENDS `ArmMem`: straight-line programs; the programs for TLC |
| `ArmCore` | modes, banked registers, status registers, exceptions, as operators on a core |
| `DummyOs`, `MCDummyOs` | EXTENDS `ArmCore`: reset, system calls and interrupts of dummyos, one action per kind of instruction |
| `AddressSpaces` | abstract: every process has a memory of its own |
| `Mmu`, `MCMmu` | the table walk, CP15, bus and memories under a kernel with two processes; implements `AddressSpaces` |
| `Decoder` | the decoding tree of ArchC and the search in it |
| `GdbStub` | breakpoints and packet protocol, with the debugger (external) at the other end |
| `Simulator`, `MCSimulator` | EXTENDS `GdbStub`, `Decoder`: the loop of the core with its cache |
| `Tzic_proofs`, `Gpt_proofs`, `SdHost_proofs`, `Console_proofs`, `IrqSystem_proofs`, `SdBoot_proofs`, `ArmProgram_proofs`, `DummyOs_proofs` | theorems, section 6 |

Representation. A bank of 32-bit registers is the set of its 1 bits (interrupt
numbers, event names, flag numbers). A FIFO and its pointer are a sequence. The
contents of a disk block are its addresses, so that a word in the wrong place,
missing or repeated is visible. Lengths of SD blocks count the words of the
data port. Control registers written as a whole are records of their fields.
Fields that no code reads have no state. Uninitialised members that are read
(`im2` of the timer, `wakeup_signal`, `blocklen`, the block counts) start with
any value; the byte past `txd_fifo` and what a too long block overwrites are
nondeterministic.

Granularity. One action is one register access of the core together with all
the work the device does in it, or one cycle of a device thread. The read and
the later use of a register by software are two actions. In `ArmProgram` and
`DummyOs` an action is an instruction; in `Simulator` the fetch (with the stop
for the debugger) and the execution are two, because the debugger acts between
them.

Widths. `ArmWord` is written for a word of `W` bits with its four bytes of `W/4`
bits and its sign bit `H`; the code's masks and constants are expressed in `W`.
`Mmu` is written for the widths `VB`, `SB`, `LB`, `PB` of an address and of the
offsets in a section, a large and a small page. TLC checks them at 4 and at
7, 5, 4, 3 bits: small enough for every value of two registers, large enough for
every case the code tells apart.

From code to state, for the modules where it is not obvious:

* `DummyOs`: `core` is the record of `RB`, the banked registers `bank`, `SPSR`,
  the mode and mask bits, the flags and `VBAR`; `Code` is the image, one record
  per instruction, r0 standing for r0-r3 and r6 for r4-r6, r8 and r9;
  `interrupted` is a history of what each exception should give back.
* `Mmu`: `mem` holds the tables and the data; `frame`, `free`, `current` are the
  kernel's bookkeeping, `written` the history of what each process stored. The
  kernel moves a page through its own translated windows.
* `Simulator`: `decoder` is the tree made from the table, `fields` the static
  array `Decode` returns, `dec_cache` the cache; `rx` and `tx` are the socket.

Operators whose name extends another's (`raising_atMask`, `Sent_first`, ...)
and whose comment begins with "Mutant" are plausible bugs: replacing the
original by it must violate the property `PROJECT.json` names.

## 3. Runs that pass

* **tzic** (`Tzic.cfg`). Two lines of one word, two priorities, every register
  write, device call and cycle in every order. `PendingCoherent` (the caches are
  what would be computed now, whenever `changed` is down), `RaiseHasCause`,
  `HoldOff`, and `RequestAnswered` under fairness of the thread. Two lines of
  one word are the smallest case in which one line can disturb another
  (equality of priorities, the unmasked shift); the theorems of section 6 cover
  all 128.
* **gpt** (`Gpt.cfg`). Free run and restart, forced outputs, input capture,
  stop, restart from enable and software reset, switched at any time; counter
  0..2. `RestartBound`: since the counter was last 0 in restart mode it has not
  passed OCR1 (the history `freerun` says when that is). `TimerFires` and
  `LineSettles`: if from some time on only the thread acts and the timer runs,
  OCR1 is met again and again and the line settles at the flags' level. PR stays
  below `PrescalerMax` (see observation 2).
* **console** (`Console.cfg`). FIFO of two, two characters of which one is
  above 127 and one is the new line at which dumboot stops reading, three typed
  (more than the FIFO holds), four written. `Batch` is twice the FIFO for
  dummyos, which must rely on TRDY, and exactly the FIFO for dumboot, which does
  not test it. The real loops need about ten instructions per character, so the
  default batch of 100 sends at most 11 characters, a third of the real FIFO.
  The host may close the input at any time.
* **sdboot** (`SdBoot.cfg`). Initialisation and four calls of `sd_read`: one
  block, two, four from another start, one. Driver, controller and card
  interleave freely, except that a batch does not end between a multiple block
  command and the read of BLKATTR (that window is **sdboot_race**).
  `ImplementsBlockRead` is the refinement with `returned` and `mem` as they are;
  it includes that every call returns. `CleanStart`, `WordAvailable` and
  `NoExit` say why. `DriverWml < BlockWords` as in the code: BRR alone does not
  mean a whole block, the driver relies on blocks arriving whole.
* **sdhost** (`SdHost.cfg`). Seven commands that reach every state with a
  transfer, every transfer type, resets, and all register writes in any order;
  the buffer, a queue without limit in the code, is cut at `MaxBuffer`.
  The words written to the interrupt registers name all events; the theorems of
  section 6 cover every other word.
* **irq** (`Irq.cfg`). Lines 31 and 39, which dummyos enables, and 28 and 36, the
  first lines of their PRIORITY registers; up to three causes, one system call
  window, room for three activations on the stack. Two configurations: the one of
  `configure_tzic` (31 and 39 with priority 1, the others 0), in which the handler
  leaves PRIOMASK at 0 and every line nests into every handler, its own too; and
  one with priorities 0, 1, 2, 3 for 28, 31, 36, 39, in which the byte that is
  loaded is the line's own priority (36), less than it (39) or 0 (31), so that the
  mask rises and falls. `NestingAboveMask` says what does hold of nesting (what
  the comment of `irq_handler` claims does not: observation 24),
  `MaskFollowsStack` that each activation gives PRIOMASK back, and `CauseServed`,
  under fairness, that a cause of the highest priority is served unless the
  handler is lost (observation 11, or a branch to address 0) or has nested until
  the stack is full. 31 and 39 are in different HIPND words, 28 and 31 in one.

* **isa** (`ArmProgram.cfg`). Programs of one to three instructions, on all 256
  values of r0 and r1 and four pairs of r2 and r3, or on all bases with two
  memories for loads and stores. `WordOperands` (the type of the operands, the
  hypothesis of two theorems), `ComparisonsDecide` (each condition after CMP
  against the numbers), `WideArithmetic` (ADDS/ADCS, SUBS/SBCS, RSBS/RSCS against
  numbers of two words, with C and V), `ShiftStepByStep` (a shift by a register
  against repeated shifts by one, from 0 to far above the width), `IdiomsExact`
  (long multiply and accumulate, BFI then UBFX, CLZ then shift),
  `StackBalanced` (the four modes of STM with the inverse LDM),
  `StoresReadBack` (a store changes its bytes and no others, and a load finds
  it). The exceptions each property names are cases in which the code differs
  from the architecture; they are listed under the observations.
* **os** (`DummyOs.cfg`). The image from reset on, an application that computes,
  calls the system, executes an undefined instruction or tries to change its
  mode, and two interrupts at any instruction. Lines 31 and 36 with priorities 2
  and 1: the mask becomes 0 for 31, as for the lines of the image, so that 31
  nests into itself and 36 into 31, and 1 for 36. `Transparent`: an
  exception gives back address, mode, masks, PRIOMASK, flags and registers, but for
  the registers a system call may change. `NothingLeftBehind`: in the application
  all stacks are empty and PRIOMASK is open. `EnterByVector`: user mode is left
  through the vectors only. `HandlersReturn`: nothing stays in a handler. Two
  interrupts in a system call are the deepest nesting `MaxIrqs` = 2 allows, and
  `MaxDepth` = 3 leaves them all in. A stack has `StackWords` = 15 words (4096 bytes
  in `base.s:11`), just enough for `MaxDepth`: a frame that overlaps another stack
  would show.
* **mmu** (`Mmu.cfg`). Two processes with small pages, a large page and a
  section, N = 0 and N = 1, switches, stores and moves of pages in any order.
  `ImplementsAddressSpaces` is the refinement (what a process reads is what it
  stored last); `TranslationAsMapped` goes through every word of every page.
* **debug** (`Simulator.cfg`). Without a debugger, every table of three
  instructions whose decode lists share prefixes or check fields in another
  order, and every first word; with one, a program that rewrites itself, three
  addresses on two lines of the cache, two breakpoints, every command, and one
  packet damaged in either direction. `ExecutesMemory`, `StopsExactly` and, under
  fairness, `CommandsComplete`.

## 4. Runs that show a disagreement

* **sdboot_race**: the driver reads the number of blocks back from a register
  that counts down, and can return with fewer.
* **os_abort**: a load from an address that no device claims. The bus calls
  `service_interrupt` inside the access, and the load then ends as every load
  does, by assigning `ac_pc`: the core is in abort mode and executes the
  application's next instruction, where `dummyos/base.s:20` says that the
  vectors are the entry point to the other modes. The rest of the specification
  is that of **os**.

Observations made while modelling, without a run of their own. Devices:

1. ENCLEAR and SRCCLEAR store `reg | ~datum` (`tzic.cpp:257, 270`), which sets
   the bits the write does not name and clears none.
2. PR is stored unmasked (`gpt.cpp:235`) though `gpt.h:67` calls it 12 bits; a
   value above 4096 is never met and the timer stops.
3. The loop of `dumboot/uart.s:123` meant for TRDY tests bit 12 with the
   opposite sense, so it never waits.
4. `generate_signal` calls `tzic.interrupt` with `deassert = true`
   (`esdhcv2.cpp:223`): the SD host never interrupts.
5. CDIHB is never consulted (`esdhcv2.cpp:168`) and RSTD does not call
   `reset_DAT_line` (`esdhcv2.cpp:502`), against the comments at 239 and 35.
6. CMD16 accepts 4098 bytes for a line of 4096 (`sd.cpp:525`).
7. An FIQ enters at the data abort vector (`arm_interrupts.cpp:105`).
8. `prc_tzic` shifts the candidate word without masking one bit (`tzic.cpp:77`;
   the comment at 62 says "PENDING based on ENSET & (SRCSET | int_in)"), so a request
   of line 31 also makes lower lines of its word pending.
9. The overrun test of the UART compares with 33, the array has 32
   (`uart.cpp:300`): one character is written past it when software does not
   test TRDY for a whole batch.
10. At end of input `prc_uart` never reaches `wait` again (`uart.cpp:160`), and
    with it the simulation stops.
11. `irq_handler`, finding nothing pending, pops its frame one word off
    (`irq.s:105`, "just quit" at 103). It happens when the line falls between the
    interrupt and the reads of HIPND; the model ends there in "lost". If other lines
    are up that do not pass a PRIOMASK above 0, HIPND shows instead the candidates
    without priority (`tzic.cpp:142`, `highest_pri` being 0; by observation 8 these
    include lines nobody raised), and the handler branches through an empty entry of
    `interrupt_vector` to address 0 (`no_handler`). With the priorities of dummyos
    PRIOMASK is always 0 and this does not happen.
12. `configure_gpt` writes CR with what its caller left in r0 (`gpt.s:26`); among
    lines of one HIPND word `irq_handler` finds the highest (`irq.s:109`).

Core (the properties of **isa** and **os** exclude or include them as written):

13. V after CMP, SUB and RSB is wrong when the operand is the most negative
    number; C after SBC and RSC ignores the borrow (`arm_isa.cpp:2396`).
14. A rotation by a register uses 4 bits of the amount (`arm_isa.cpp:531`).
15. SBFX extends from the wrong bit, BFI copies from the position it inserts at,
    UXTB and its relatives rotate by twice the amount, LDRD loads bytes; LDRT and
    STRT use address 0; MLS and PKH read the user bank in every mode.
16. BX and BLX take the instruction set from the number of the register.
17. `movs pc, lr` restores CPSR and then overwrites N, Z and C; LDM with `^` loads
    r13 and r14 into the user bank; a system call changes r7 and the link
    register of the application (`syscalls.s:35`).

Memory:

18. A first level fault prints a message and accesses physical address 0
    (`mmu.cpp:222`); a second level fault and a supersection end the simulation.
19. A word access in the last three bytes of a RAM runs past its block, and the
    RAMs are allocated one word short of their window (`main.cpp:353`). The arrays
    of SRC, CCM and DPLLC are smaller than their windows.
20. A read that fails leaves the buffer of the port uninitialised, and a byte
    store writes that back.

Loop and debugger:

21. `blx1` is never decoded, `b` comes first (`arm_isa.ac:447`). For a word without
    instruction `Decode` returns NULL and `arm_decode_unit.cpp` reads through it;
    the message at `arm.cpp:41` is not reached.
22. `c addr`, `s addr` and a PC written with `G` are lost: `arm.cpp:49` restores
    `ac_pc` after the debugger returns. A word written at the address of the stop
    takes effect from the next visit.
23. With as many breakpoints as the list holds, none is found and none can be
    removed (`breakpoints.cpp:74, 128`). A closed connection keeps
    `comm_getpacket` in its loop.

Interrupts:

24. The handler does not mask the line it serves. `irq.s:68` says that it "sets
    priority mask to the priority of the current interrupt being serviced. In this
    way, no other interrupt with equal or lower priority will occur while we are
    servicing the current interrupt". But `ldrb r6, [r6, r5]` (`irq.s:120`) of byte n
    of the PRIORITY registers does not yield the priority of line n: with
    `UNALIGNED_ACCESS_SUPPORT` (`defines.H:3`) the bus neither aligns the address nor
    shifts the answer (`bus.cpp:54-83`), the controller ignores the offset
    (`tzic.h:142`) and answers with the whole register (`tzic.cpp:214`), and the port
    keeps its lowest byte (`ac_tlm_port.cpp:75`): the priority of line 4 * (n div 4)
    (`PriorityByte`). For lines 31 and 39, each in byte 3 of its register, that is 0.
    Equal priorities therefore nest, and so does a line that is still up into its own
    handler; nothing but the end of a batch limits how often, so the stacks can
    overflow. With other priorities a lower one can interrupt a higher one. All of
    this happens in **irq** and **os**; asked of **irq**, strictly increasing
    priorities of the lines in service are violated with line 31 in its own handler.
25. `do_reset` of the timer assigns `im1` twice and `im2` never (`gpt.cpp:217`); in the
    model `im2` starts with any value. A transfer of 0 counted blocks runs for 65536,
    because BLKCNT is decremented before it is compared (`esdhcv2.cpp:122`); in the
    model it wraps at `CntMod`.

## 5. Fairness

Weak fairness of each device thread and of the core: SystemC's scheduler resumes
every thread whose `wait (1, SC_NS)` has expired, and each iterates without end.
In `Console` all of it stops once `spinning` is up, because the thread that
spins never yields. `RequestAnswered`, `TimerFires`, `LineSettles`,
`WriteCompletes`, `CauseServed`, `HandlersReturn` and the liveness part of
`BlockRead` use it. `CommandsComplete` also assumes that the debugger reads what
arrives and that only `MaxFaults` packets are damaged; nothing can be promised on
a line that damages every packet. `HandlersReturn` holds for a bounded number of
interrupts, for the same reason.
`TimerFires` and `LineSettles` assume that software eventually leaves the timer
alone and running (`LeftRunning`); nothing else is assumed of software. No
strong fairness is used: in `CauseServed` the repetition of the device's call
(`gpt.cpp:140-151`, `uart.cpp:199-209` pass the level on every cycle) is what
brings a dropped interrupt back; the mutant that signals edges only violates it.
The handler need not reach the instruction that removes the cause: when every
batch ends while it runs with interrupts enabled, the line nests into it again.
How a batch falls is not a matter of fairness (option `-b` sets its length), so
`CauseServed` does not exclude it and has the full stack as an outcome.

## 6. Theorems

All are proved for every value of the constants allowed by the named ASSUMEs.

* `Tzic_proofs`. `TzicTypeCorrect` (TLC checks it as part of `IrqTypeOK`); `HoldOffHolds` (`HoldOff` is inductive by
  itself: DSMINT is set only with all lines down, and `interrupt` changes a line
  only with DSMINT clear); `PendingCoherentHolds`: a step that leaves `changed`
  down either is `prc_tzic_evaluate`, which has just computed the caches
  (`PendingFrame`: from variables that step does not change), or changes no
  input of them (`FastWrite`: every register write raises `changed`).
  `RaiseHasCauseHolds` is an action property; its core is `HighestExists`: a
  nonempty set of lines has one of maximal priority, from the finiteness of
  0..255.
* `SdHost_proofs`. `PresentStateHolds` and `IdleDrainedHolds`, from the
  invariant `HostInv`, their conjunction. `WritesKeep` goes through software's
  operations, `CycleKeeps` through the thread's cycle; the card is unconstrained.
  `HostTypeCorrect`: `HostTypeOK` is inductive by itself.
* `Gpt_proofs`. `GptTypeCorrect`, and `RestartBoundHolds` from `RestartInv`,
  which adds the mode: that a tick restarts the counter at OCR1 depends on
  `counter_mode`, which only CR words and resets assign; the statement is for the
  time since the counter was last 0 in that mode.

* `Console_proofs`. `FifoNeverOverruns`, `NothingLostGoingOut`,
  `NothingLostComingIn` and the action property `NeverSendsUnready`, with
  `ConsoleTypeCorrect`, for every depth of the FIFOs, every text and every
  interleaving of driver and thread. None is inductive alone. `ConsoleInv` adds
  `Phase` (where the driver is tells which channels are on, so that the reset in
  UCR2 finds empty FIFOs and loses nothing), `FlagsMean` (the flags are true of
  the FIFOs, also between the poll and the access that relies on it) and `Room`
  (how full a FIFO can be: dummyos is held back by TRDY, dumboot only by the end
  of its batch). `CapacityAssumption` is what the code gives: the FIFO has room
  for the threshold and for a batch of dumboot (section 3, **console**).
* `IrqSystem_proofs`. `NestingHolds`, `MaskFollowsStackHolds` and
  `IrqTypeCorrect`, for every set of lines, every assignment of priorities, zero
  included, and every room on the stack. `NestingHolds` is about `NestingAboveMask`:
  nesting relative to the byte loaded, the claim of the code's comment being false
  (observation 24). The handler reads HIPND in four loads, then finds a line,
  then writes PRIOMASK, and the controller may compute HIPND again between any two
  of them. `HighOnly` says why that does no harm: until PRIOMASK is written,
  whatever was or will be loaded lies above the current mask, or has no priority
  while the mask is not zero (`Over`). `MaskAt` and
  `FramesMatch` give PRIOMASK and the saved masks at every place of the handler,
  `MaskedWhere` the places where it can be interrupted, `Nested` relates each
  frame to the byte loaded by the one below it. `OverflowKeeps` is the end at a
  full stack. The theorems of `Tzic_proofs` are reused for the controller.
* `SdBoot_proofs`. `BootNeverExits`, `WordsAreThere`, `CallsStartClean` and
  `ReadsAsAsked`, for every sequence of calls and every size of block, line and
  watermark. Their hypothesis `Provided` is about constants only: the batch does
  not end in the window of **sdboot_race**, where the refinement is false, and
  every call asks for at least one block. With none, which an image of less than
  512 bytes would give (`base.s:271`), the multiple block command starts, the
  driver fetches nothing and returns, and the transfer is left running. `ReadsAsAsked` is the
  refinement of `BlockRead` without fairness: initial states map to initial
  states and every step to a delivery, a return or a stutter. The
  invariant `BootInv` follows the words of a call over the three threads: blocks
  taken by the controller (`Taken`) against BLKCNT and the card's position
  (`Transfer`), the words in line, buffer and memory as one run of addresses
  (`Words`), the loop counters (`Loop`). `Fresh` is the delicate part: BRR left
  from an earlier block would announce words that are not there; between the
  driver's acknowledgement and its next poll the flag is up only with words in
  the buffer. `CardReady` carries the state of the card through initialisation.
* `ArmProgram_proofs`. `ComparisonsDecideAlways` and `WideArithmeticAlways`, for
  words of every width and for every program. `Trace` is the invariant: the
  history is what happened, an instruction ran exactly if its condition held, and
  then led from one entry to the next. The rest is arithmetic: lemmas on sums and
  differences of words, on V as the overflow of the signed result, and on the
  carry between two words. The hypothesis `WordOperands` says that operands are
  words. That every instruction keeps it would need an induction over bits and
  bytes (the values of `FromBits` and of a load), which the provers cannot do; the
  run **isa** checks it.
* `DummyOs_proofs`. `OsTransparent`, `OsNothingLeftBehind` and `OsEnterByVector`,
  for every set of lines and priorities, any number of interrupts and any nesting of
  at most `MaxDepth` exceptions. `StackAssumption` says that the stacks have room for
  it: five words of the interrupt mode's stack and three of the application's for
  each, and three for the system call below them. With all registers, which the
  model folds, an activation takes eight words of the interrupt mode's stack, so the
  1024 words of `base.s:14` hold 128. Nothing in the code keeps the nesting below
  that: PRIOMASK gives no bound (observation 24), and the theorems say nothing of a
  nesting that overflows. `OsEnterByVector` is about `OsSpec`, in which no access faults;
  with faults the property is false (**os_abort**).

  None of the three is inductive: what a return finds in SPSR, in LR and on the
  stack was put there many instructions earlier, and other handlers ran on the
  same registers and the same two stacks in between. `OsInv` therefore describes
  every context, the running one and those that wait, by its place. `Open` lists
  the places at which an interrupt can find a context: those of `system_init` and
  the application (`OpenBase`), of a system call in system mode (`OpenSvc`) and
  of `irq_handler` in system mode (`OpenIrq`), each with the words that the
  activation below it must still have on the stacks. `Waits` says that of the
  k-th context that waits, at a depth of at most `MaxDepth`, so that its frame is
  inside the stack (`Room`, `IrqFrame`, `UserStack`); it assumes nothing about the
  order of the masks. `RunsUnd`, `RunsSvc`, `RunsIrq` and `ResetPlace` say
  where address, status, r6, r7 and PRIOMASK are at each instruction that runs with
  interrupts masked. `OpenBelow` is the heart: an activation writes only between its
  own stack pointer and what waits above it (`Spares`), so no word of another
  context changes. One lemma for each part of the image (`ResetStep`, `BaseStep`,
  `UndStep`, `SvcStep`, `CallStep`, `LineStep`, `IrqStep`), one case for each
  instruction in it, and `IrqTakes` for the interrupt show that `OsInv` is kept
  (`OsInvHolds`). The three theorems follow: a return is at the last instruction of
  one of three handlers (`ReturnPlaces`), where `OsInv` names all that is given
  back. Below them are the lemmas on `ArmCore` for every core: `WriteStatus` and
  `StatusFacts` (what CPSRBuild packs, writeCPSR unpacks), `EnterFacts`
  (`service_interrupt`), `CoreReturn`, `CoreMovs`, `CoreLoad`.

Checked by TLC only, and why:

* Liveness: `RequestAnswered`, `TimerFires`, `LineSettles`, `WriteCompletes`,
  `CauseServed`, `HandlersReturn`, `CommandsComplete`, and in
  `ImplementsBlockRead` that every call returns. Fairness and ENABLED are out of
  the prover's reach.
* Induction over data: `ShiftStepByStep` (its reference is an iteration),
  `IdiomsExact`, `StackBalanced` and `StoresReadBack` (sums over the bits and
  bytes of a word).
* `Mmu`: `TranslationAsMapped` and `ImplementsAddressSpaces` are about the layout
  of one set of tables, given by concrete addresses.
* `Simulator`: `Decoder` is written with RECURSIVE operators.

## 7. Bounds

`MaxTyped`, `MaxWritten` (characters of a behaviour), `MaxBlock` (where the card
stops reading ahead, beyond every block asked for), `MaxBuffer`, `MaxCauses`,
`MaxCalls`, `MaxIrqs` (interrupts of a behaviour), `MaxDepth` (activations that the
stacks have room for: in `IrqSystem` the model ends in "overflow" when one more
arrives, in `DummyOs` none arrives), `MaxStores` (of the program that
rewrites itself), `MaxInserted` (breakpoints, fewer than the list holds),
`MaxFaults`. The widths `MaxCount`, `PrescalerMax`, `CntMod`, `Depth`, `LineSize`,
`BlockLenMax`, `StackWords`, `W`, `MemSize`, `VB` to `PB`, `Magnitude` and `QuantMax` are the
code's constants scaled down; wraps are modelled at them.

## 8. Not modelled

* ArchC's generators, preprocessor and binary tools (`acsim`, `accsim`, `actsim`,
  `acpp`, `acbinutils`, `acdoc`): they print the C++ and the assembler of a core
  from its description before the platform exists, without state that outlives a
  run. They are most of the repository's lines and none of the platform's
  behaviour; what they print for this core is in `armv7/src` and is modelled there.
* ArchC's loader, run-time linker, caches and pipeline storage (`ac_rtld`,
  `ac_storage`, `ac_utils`): this platform boots an image from the card and has no
  ArchC cache, so nothing reaches them.
* The TLB (`tlb.h`): `mmu.cpp:29` removes it from the build. SRC, CCM, DPLLC: stores.
* System call emulation, statistics, backtrace, options, image tools: host I/O.
* Instructions that only report that they are not implemented, data processing
  into PC other than MOV, the table of `arm_isa.ac` (a parameter of `Decoder`).
* Write transfers of the SD host (they exit the simulation), the contents of
  CID/CSD/OCR answers beyond what the driver tests, checks of the boot header,
  the terminal mode, debug output.
* SWINT numbers above 127, a receive pointer past its array.

## 9. Plan

What is left is proof:

1. `LongAccumulate` for every width, with the lemmas of `ArmProgram_proofs`.
2. `GdbStub`: that the list of breakpoints stays sorted, on which `StopsExactly`
   rests.
3. `Mmu`: the walk for every layout of the tables, once the layout is a parameter
   of the module.
