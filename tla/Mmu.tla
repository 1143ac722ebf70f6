--------------------------------- MODULE Mmu ---------------------------------
(***************************************************************************)
(* From a virtual address to a device: the memory management unit          *)
(* (armv7/src/mmu.cpp), its registers in coprocessor 15 (cp15.cpp), the    *)
(* bus (bus.cpp) and the memories (ram.cpp, rom.cpp).                      *)
(*                                                                         *)
(* The address fields are scaled: VB, SB, LB and PB are the bits of a      *)
(* virtual address and of the offset in a section, a large page and a      *)
(* small page.  A word is 4 bytes, a table entry one word.  The software   *)
(* is a kernel that runs two processes; the kernel's own accesses are      *)
(* translated like all others.                                             *)
(***************************************************************************)
EXTENDS Integers, FiniteSets, FiniteSetsExt, Sequences

CONSTANTS
  VB, SB, LB, PB,   \* 32, 20, 16, 12
  Devices,          \* the devices in the order of connect_device
  Procs, Values

ASSUME FieldAssumption == /\ {VB, SB, LB, PB} \subseteq Nat
                          /\ 2 < PB /\ PB < LB /\ LB < SB /\ SB < VB

VARIABLES
  mem,              \* the words of the devices, by physical address
  ttbr0, ttbr1, N,  \* TTBR0, TTBR1 and TTBCR.N
  active,           \* bit 0 of CONTROL
  frame,            \* kernel: the frame of each process's first page
  free,             \* kernel: a frame that is not in use
  current,          \* kernel: the process that runs
  written,          \* history: what each process stored last
  running           \* the simulator has not called exit

cp15Vars == <<ttbr0, ttbr1, N, active>>
kernelVars == <<frame, free, current>>
mmuVars == <<mem, cp15Vars, kernelVars, written, running>>

Bit(x, k) == (x \div 2^k) % 2 = 1
\* x with its k low bits cleared
Clear(x, k) == (x \div 2^k) * 2^k

-----------------------------------------------------------------------------
(* The bus: the first device whose window holds the address.               *)

Claims(i, a) == Devices[i].start <= a /\ a <= Devices[i].end
Claimed(a) == \E i \in DOMAIN Devices : Claims(i, a)
Route(a) == Devices[CHOOSE i \in DOMAIN Devices :
                      Claims(i, a) /\ \A j \in 1..(i - 1) : ~Claims(j, a)]

\* A ROM ignores writes; so does, but for the abort, an address without device.
bus_write(m, a, v) ==
  IF Claimed(a) /\ Route(a).type = "ram" THEN [m EXCEPT ![a] = v] ELSE m

-----------------------------------------------------------------------------
(* Translation.                                                            *)

\* any of the N high bits selects TTBR1
UsesTTBR1(va) == N # 0 /\ \E k \in (VB - N)..(VB - 1) : Bit(va, k)

TableBits == VB - SB + 2
\* Mutant: the table of TTBR0 is aligned as if N were 0.
ttb_address_full(base0, va) ==
  Clear(IF UsesTTBR1(va) THEN ttbr1 ELSE base0, TableBits)

ttb_address(base0, va) ==
  Clear(IF UsesTTBR1(va) THEN ttbr1 ELSE base0, TableBits - N)

table_entry_index(va) == (va % 2^(IF UsesTTBR1(va) THEN VB ELSE VB - N)) \div 2^SB

\* the bitwise or of the base and the offset of the entry
first_level_entry_address(base0, va) ==
  LET base == ttb_address(base0, va)
      offset == 4 * table_entry_index(va)
  IN base + MapThenSumSet(LAMBDA k : 2^k, {k \in 2..(TableBits - 1) : Bit(offset, k) /\ ~Bit(base, k)})

\* Mutant: the offset in a large page has the bits of a small one.
L2_translate_small(m, base, va) ==
  LET data == m[base + 4 * ((va % 2^SB) \div 2^PB)]
  IN CASE data % 4 = 0 -> -1
       [] data % 4 = 1 -> Clear(data, LB) + (va % 2^PB)
       [] data % 4 > 1 -> Clear(data, PB) + (va % 2^PB)

\* Second level: fault, large page or small page.  The model exits at a fault:
\* the result is -1.
L2_translate(m, base, va) ==
  LET data == m[base + 4 * ((va % 2^SB) \div 2^PB)]
  IN CASE data % 4 = 0 -> -1
       [] data % 4 = 1 -> Clear(data, LB) + (va % 2^LB)
       [] data % 4 > 1 -> Clear(data, PB) + (va % 2^PB)

\* First level: fault, page table, or section.  Nothing is raised at a fault:
\* the physical address is 0.  The model exits at a supersection.
L1_translate(m, base0, va) ==
  LET data == m[first_level_entry_address(base0, va)]
  IN CASE data % 4 = 0 -> 0
       [] data % 4 = 1 -> L2_translate(m, Clear(data, SB - PB + 2), va)
       [] data % 4 > 1 -> IF Bit(data, SB - 2) THEN -1
                          ELSE Clear(data, SB) + (va % 2^SB)

\* MMU::transport, for the table of TTBR0 given
Physical(m, base0, va) == IF active THEN L1_translate(m, base0, va) ELSE va
Stored(m, va, v) == bus_write(m, Physical(m, ttbr0, va), v)
Fetched(m, va) == m[Physical(m, ttbr0, va)]

-----------------------------------------------------------------------------
(* The software.  Its memory: boot ROM, tables and data.  The addresses    *)
(* are for VB = 7, SB = 5, LB = 4, PB = 3: four sections of four pages.    *)

KernelTable == 32
FirstProc == CHOOSE p \in Procs : TRUE
L1Table(p, n) == IF p = FirstProc THEN IF n = 0 THEN 64 ELSE 72 ELSE 80
L2Table(p) == IF p = FirstProc THEN 96 ELSE 112
LargeFrame(p) == IF p = FirstProc THEN 160 ELSE 176
Section(p) == IF p = FirstProc THEN 192 ELSE 224

\* section 0: page table; 1: a section; 2: a fault without the kernel's table;
\* 2, 3: the kernel's windows on the page tables and on the small frames
KernelEntry(i) == IF i = 2 THEN 96 + 2 ELSE 128 + 16 + 2
L1Entry(p, i) == CASE i = 0 -> L2Table(p) + 12 + 1
                   [] i = 1 -> Section(p) + 16 + 2
                   [] i > 1 -> KernelEntry(i)
\* page 0: small; 1: fault; 2, 3: large
L2Entry(p, i, f) == CASE i = 0 -> f + 4 + 2
                      [] i = 1 -> 0
                      [] i > 1 -> LargeFrame(p) + 12 + 1

FirstFrame(p) == IF p = FirstProc THEN 128 ELSE 136

Tables(n) ==
  [a \in {4 * k : k \in 0..63} |->
     CASE \E p \in Procs : a \in L1Table(p, n)..(L1Table(p, n) + (16 \div 2^n) - 1) ->
            LET p == CHOOSE p \in Procs : a \in L1Table(p, n)..(L1Table(p, n) + (16 \div 2^n) - 1)
            IN L1Entry(p, (a - L1Table(p, n)) \div 4)
       [] \E p \in Procs : a \in L2Table(p)..(L2Table(p) + 15) ->
            LET p == CHOOSE p \in Procs : a \in L2Table(p)..(L2Table(p) + 15)
            IN L2Entry(p, (a - L2Table(p)) \div 4, FirstFrame(p))
       [] a \in {KernelTable + 8, KernelTable + 12} -> KernelEntry((a - KernelTable) \div 4)
       [] OTHER -> CHOOSE v \in Values : TRUE]

UserVA == {4, 28, 36}
\* page 1 has no entry
HoleVA == {8}

\* what translation gives with the tables of a process, and what it reads
PhysicalOf(p, va) == L1_translate(mem, L1Table(p, N) + 3, va)
content == [p \in Procs |-> [va \in UserVA |-> mem[PhysicalOf(p, va)]]]

\* translation is off after reset; the low bits of the registers are attributes
MmuInit ==
  /\ N \in 0..1
  /\ mem = Tables(N)
  /\ current \in Procs
  /\ ttbr0 = L1Table(current, N) + 3
  /\ ttbr1 = KernelTable + 3
  /\ active = FALSE
  /\ frame = [p \in Procs |-> FirstFrame(p)] /\ free = 144
  /\ written = content
  /\ running = TRUE

\* MCR to CONTROL
enable ==
  /\ running /\ ~active
  /\ active' = TRUE
  /\ UNCHANGED <<mem, ttbr0, ttbr1, N, kernelVars, written, running>>

\* a process stores a word; a translation that exits ends the simulation
store(va, v) ==
  /\ running /\ active
  /\ IF Physical(mem, ttbr0, va) = -1
       THEN running' = FALSE /\ UNCHANGED <<mem, written>>
       ELSE /\ mem' = Stored(mem, va, v)
            /\ written' = [written EXCEPT ![current][va] = v]
            /\ UNCHANGED running
  /\ UNCHANGED <<cp15Vars, kernelVars>>

\* MCR to TTBR0
switch(p) ==
  /\ running /\ active
  /\ ttbr0' = L1Table(p, N) + 3
  /\ current' = p
  /\ UNCHANGED <<mem, ttbr1, N, active, frame, free, written, running>>

\* The kernel moves the first page of a process: it copies the frame and
\* writes the entry, through its own windows.
Window(pa) == IF pa < 128 THEN pa - 96 + 64 ELSE pa - 128 + 96
migrate(p) ==
  /\ running /\ active
  /\ LET copied(m, k) == Stored(m, Window(free + k), Fetched(m, Window(frame[p] + k)))
     IN mem' = Stored(copied(copied(mem, 0), 4), Window(L2Table(p)), L2Entry(p, 0, free))
  /\ frame' = [frame EXCEPT ![p] = free]
  /\ free' = frame[p]
  /\ UNCHANGED <<cp15Vars, current, written, running>>

MmuNext ==
  \/ enable
  \/ \E va \in UserVA \cup HoleVA, v \in Values : store(va, v)
  \/ \E p \in Procs : switch(p) \/ migrate(p)

MmuSpec == MmuInit /\ [][MmuNext]_mmuVars

-----------------------------------------------------------------------------
AS == INSTANCE AddressSpaces WITH
        content <- content, written <- written, current <- current

\* Two processes share the memory and the tables lie in it; yet each reads what
\* it stored last itself, whatever the other stored, whoever runs, and although
\* the kernel moves pages under them: the code implements separate memories.
ImplementsAddressSpaces == AS!ASpec

Offsets(size) == {4 * k : k \in 0..(size \div 4 - 1)}

\* Every page a process reaches is the one the kernel gave it, to the last
\* word, through TTBR0 and TTBR1, small pages, large pages and sections; the
\* kernel reaches its tables.
TranslationAsMapped ==
  /\ \A p \in Procs :
       /\ \A o \in Offsets(8) : PhysicalOf(p, o) = frame[p] + o
       /\ \A o \in Offsets(16) : PhysicalOf(p, 16 + o) = LargeFrame(p) + o
       /\ \A o \in Offsets(32) : PhysicalOf(p, 32 + o) = Section(p) + o
       /\ \A o \in Offsets(32) : PhysicalOf(p, 64 + o) = 96 + o
==============================================================================
