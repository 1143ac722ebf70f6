-------------------------------- MODULE Tzic --------------------------------
(***************************************************************************)
(* The TrustZone interrupt controller of the iMX53 platform                *)
(* (armv7/src/tzic.h, armv7/src/tzic.cpp).                                 *)
(*                                                                         *)
(* Every bank of four 32-bit registers (ENSET, SRCSET, PND, ...) is the    *)
(* set of the interrupt numbers whose bit is 1.  A bus write names a word  *)
(* w in 0..3 and a datum D, the set of the numbers whose bit is 1 in it.   *)
(* The registers without effect on any other state (INTTYPE, INTSEC,       *)
(* SYNCCTRL) are represented by fast_write_other.                          *)
(***************************************************************************)
EXTENDS Integers, FiniteSets

CONSTANTS
  IRQ,  \* the interrupt numbers considered, 0..127 in the code
  Prio  \* the values software gives to PRIORITY bytes and to PRIOMASK

ASSUME IRQAssumption == IRQ \subseteq 0..127
\* PRIORITY is a byte; a PRIOMASK above 255 masks no more than 255 does.
ASSUME PrioAssumption == Prio \subseteq 0..255 /\ 0 \in Prio

VARIABLES
  enset, srcset,     \* ENSETn, SRCSETn
  int_in,            \* level of the hardware lines
  pnd, hipnd,        \* PNDn, HIPNDn
  wakeup,            \* WAKEUPn
  priority,          \* the PRIORITYn bytes
  priomask,          \* PRIOMASK
  dsmint,            \* DSMINT, the hold-off bit
  enabled,           \* INTCTRL bit 0
  changed,           \* there is something for prc_tzic to process
  wakeup_signal,     \* output towards the power management
  irq                \* the last prc_tzic cycle called proc_port->transport

regVars == <<enset, srcset, wakeup, priority, priomask, enabled>>
tzicVars == <<regVars, int_in, pnd, hipnd, dsmint, changed, wakeup_signal, irq>>

-----------------------------------------------------------------------------
(* Words and the candidate computation of prc_tzic.                        *)

Words == 0..3
Word(i) == i \div 32
InWord(w) == {i \in IRQ : Word(i) = w}

candidate == enset \cap (srcset \cup int_in)

\* bool cur = candidate[i / 32] >> (i % 32): the shifted word is not masked
\* to one bit, so i counts as soon as it or a higher line of its word does.
cur == {i \in IRQ : \E j \in candidate : Word(j) = Word(i) /\ j >= i}

\* Mutant: the comparison with PRIOMASK is not strict.
raising_atMask == {i \in cur : priority[i] >= priomask}
\* Mutant: a line that is already pending is skipped.
raising_onlyNew == {i \in cur : priority[i] > priomask /\ i \notin pnd}

\* The lines of cur whose priority passes PRIOMASK.
raising == {i \in cur : priority[i] > priomask}

\* highest_pri: maximum over raising, 0 when there is none.
HasHighestPri(i) == IF raising = {} THEN priority[i] = 0
                    ELSE \A j \in raising : priority[i] >= priority[j]

\* The second loop compares every line of cur with highest_pri for equality;
\* a line below PRIOMASK is never equal to the highest priority above it.
hiPending == {i \in cur : HasHighestPri(i)}

-----------------------------------------------------------------------------
TzicInit ==
  /\ enset = {} /\ srcset = {} /\ int_in = {}
  /\ pnd = {} /\ hipnd = {} /\ wakeup = {}
  /\ priority = [i \in IRQ |-> 0]
  /\ priomask = 0
  /\ dsmint = FALSE
  /\ enabled = FALSE
  /\ changed = TRUE
  /\ wakeup_signal \in BOOLEAN      \* not initialised by the constructor
  /\ irq = FALSE

\* One cycle of the SystemC thread.  A line of cur at or below PRIOMASK
\* keeps the PND bit it had.
prc_tzic_evaluate ==
  /\ changed
  /\ pnd' = raising \cup (pnd \cap cur)
  /\ hipnd' = hiPending
  /\ wakeup_signal' = (raising \cap wakeup # {})
  /\ changed' = (raising \cap wakeup # {})
  /\ dsmint' = (dsmint /\ raising \cap wakeup = {})
  /\ irq' = (raising # {} /\ enabled)
  /\ UNCHANGED <<regVars, int_in>>

prc_tzic_idle ==
  /\ ~changed
  /\ irq' = FALSE
  /\ UNCHANGED <<regVars, int_in, pnd, hipnd, dsmint, changed, wakeup_signal>>

prc_tzic == prc_tzic_evaluate \/ prc_tzic_idle

\* Mutant: the hold-off bit is not consulted.
interrupt_noHoldOff(i, deassert) ==
  /\ int_in' = IF deassert THEN int_in \ {i} ELSE int_in \cup {i}
  /\ changed' = TRUE
  /\ UNCHANGED <<regVars, pnd, hipnd, dsmint, wakeup_signal, irq>>

\* interrupt(intnumber, deassert): the port the devices call.
interrupt(i, deassert) ==
  /\ IF dsmint
       THEN UNCHANGED <<int_in, changed>>
       ELSE /\ int_in' = IF deassert THEN int_in \ {i} ELSE int_in \cup {i}
            /\ changed' = TRUE
  /\ UNCHANGED <<regVars, pnd, hipnd, dsmint, wakeup_signal, irq>>

-----------------------------------------------------------------------------
(* fast_write, one action per register (bank).                             *)

fast_write_INTCTRL(b) ==
  /\ changed' = TRUE
  /\ enabled' = b
  /\ UNCHANGED <<enset, srcset, wakeup, priority, priomask, int_in, pnd,
                 hipnd, dsmint, wakeup_signal, irq>>

fast_write_PRIOMASK(m) ==
  /\ changed' = TRUE
  /\ priomask' = m
  /\ UNCHANGED <<enset, srcset, wakeup, priority, enabled, int_in, pnd,
                 hipnd, dsmint, wakeup_signal, irq>>

fast_write_DSMINT(b) ==
  /\ changed' = TRUE
  /\ dsmint' = IF int_in \cup srcset # {} THEN dsmint ELSE b
  /\ UNCHANGED <<regVars, int_in, pnd, hipnd, wakeup_signal, irq>>

\* Mutant: the thread is not told of the write.
fast_write_ENSET_silent(w, D) ==
  /\ enset' = enset \cup D
  /\ UNCHANGED <<srcset, wakeup, priority, priomask, enabled, int_in, pnd,
                 hipnd, dsmint, changed, wakeup_signal, irq>>

fast_write_ENSET(w, D) ==
  /\ changed' = TRUE
  /\ enset' = enset \cup D
  /\ UNCHANGED <<srcset, wakeup, priority, priomask, enabled, int_in, pnd,
                 hipnd, dsmint, wakeup_signal, irq>>

\* The code stores reg | ~datum.
fast_write_ENCLEAR(w, D) ==
  /\ changed' = TRUE
  /\ enset' = enset \cup (InWord(w) \ D)
  /\ UNCHANGED <<srcset, wakeup, priority, priomask, enabled, int_in, pnd,
                 hipnd, dsmint, wakeup_signal, irq>>

fast_write_SRCSET(w, D) ==
  /\ changed' = TRUE
  /\ srcset' = srcset \cup D
  /\ UNCHANGED <<enset, wakeup, priority, priomask, enabled, int_in, pnd,
                 hipnd, dsmint, wakeup_signal, irq>>

\* The code stores reg | ~datum.
fast_write_SRCCLEAR(w, D) ==
  /\ changed' = TRUE
  /\ srcset' = srcset \cup (InWord(w) \ D)
  /\ UNCHANGED <<enset, wakeup, priority, priomask, enabled, int_in, pnd,
                 hipnd, dsmint, wakeup_signal, irq>>

\* SWINT sets or clears one SRCSET bit.
fast_write_SWINT(negate, i) ==
  /\ changed' = TRUE
  /\ srcset' = IF negate THEN srcset \ {i} ELSE srcset \cup {i}
  /\ UNCHANGED <<enset, wakeup, priority, priomask, enabled, int_in, pnd,
                 hipnd, dsmint, wakeup_signal, irq>>

\* PRIORITY registers fall in the default case: a store gives new values f to
\* all the priority bytes held in register r.
PriorityReg(r) == {i \in IRQ : i \div 4 = r}
fast_write_PRIORITY(r, f) ==
  /\ changed' = TRUE
  /\ priority' = [i \in IRQ |-> IF i \in PriorityReg(r) THEN f[i] ELSE priority[i]]
  /\ UNCHANGED <<enset, srcset, wakeup, priomask, enabled, int_in, pnd,
                 hipnd, dsmint, wakeup_signal, irq>>

\* WAKEUP registers fall in the default case and store the whole word.
fast_write_WAKEUP(w, D) ==
  /\ changed' = TRUE
  /\ wakeup' = (wakeup \ InWord(w)) \cup D
  /\ UNCHANGED <<enset, srcset, priority, priomask, enabled, int_in, pnd,
                 hipnd, dsmint, wakeup_signal, irq>>

\* PND and HIPND (writes ignored), INTTYPE (ignored), INTSEC and SYNCCTRL
\* (stored, without effect): only changed is touched.
fast_write_other ==
  /\ changed' = TRUE
  /\ UNCHANGED <<regVars, int_in, pnd, hipnd, dsmint, wakeup_signal, irq>>

fast_write ==
  \/ \E b \in BOOLEAN : fast_write_INTCTRL(b) \/ fast_write_DSMINT(b)
  \/ \E m \in Prio : fast_write_PRIOMASK(m)
  \/ \E w \in Words : \E D \in SUBSET InWord(w) :
       \/ fast_write_ENSET(w, D) \/ fast_write_ENCLEAR(w, D)
       \/ fast_write_SRCSET(w, D) \/ fast_write_SRCCLEAR(w, D)
       \/ fast_write_WAKEUP(w, D)
  \/ \E negate \in BOOLEAN, i \in IRQ : fast_write_SWINT(negate, i)
  \/ \E r \in {i \div 4 : i \in IRQ} : \E f \in [PriorityReg(r) -> Prio] :
       fast_write_PRIORITY(r, f)
  \/ fast_write_other

\* fast_read has no side effect; the HIPND words read back as stored.
fast_read_HIPND(w) == hipnd \cap InWord(w)

-----------------------------------------------------------------------------
TzicNext ==
  \/ prc_tzic
  \/ \E i \in IRQ, deassert \in BOOLEAN : interrupt(i, deassert)
  \/ fast_write

TzicSpec == TzicInit /\ [][TzicNext]_tzicVars

\* The thread is resumed every simulated nanosecond.
TzicFairSpec == TzicSpec /\ WF_tzicVars(prc_tzic)

-----------------------------------------------------------------------------
\* Types of the registers and lines; a device signals only lines that exist.
TzicTypeOK ==
  /\ enset \subseteq IRQ /\ srcset \subseteq IRQ /\ int_in \subseteq IRQ
  /\ pnd \subseteq IRQ /\ hipnd \subseteq IRQ /\ wakeup \subseteq IRQ
  /\ priority \in [IRQ -> Prio]
  /\ priomask \in Prio
  /\ dsmint \in BOOLEAN /\ enabled \in BOOLEAN /\ changed \in BOOLEAN
  /\ wakeup_signal \in BOOLEAN /\ irq \in BOOLEAN

\* Hold-off: while DSMINT is set no hardware line is up.  DSMINT can only be
\* set when all lines are down, and interrupt() drops every change until
\* prc_tzic clears it, so a device's request made meanwhile is not seen.
HoldOff == dsmint => int_in = {}

\* The cached HIPND and PND are not stale: whenever prc_tzic has nothing to
\* do, they are what it would compute from the registers of this instant.
\* It relies on every writer raising changed.
PendingCoherent ==
  ~changed => /\ hipnd = hiPending
              /\ raising \subseteq pnd
              /\ pnd \subseteq cur

\* What irq_handler relies on when the controller interrupts the core: HIPND
\* is not empty, and its lines share one priority which exceeds PRIOMASK.
RaiseHasCause ==
  [][irq' /\ prc_tzic => /\ hipnd' # {}
                         /\ \A i \in hipnd' : priority[i] > priomask
                         /\ \A i, j \in hipnd' : priority[i] = priority[j]]_tzicVars

Deliverable(i) == enabled /\ i \in candidate /\ priority[i] > priomask

\* A line that is enabled, up and above PRIOMASK while the controller is
\* enabled is answered by an interrupt of the core unless one of these is
\* withdrawn: no request is left unprocessed.
RequestAnswered ==
  \A i \in IRQ : (Deliverable(i) /\ changed) ~> (irq \/ ~Deliverable(i))
=============================================================================
