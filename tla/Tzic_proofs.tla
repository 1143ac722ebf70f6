---------------------------- MODULE Tzic_proofs ----------------------------
(***************************************************************************)
(* Proofs about the interrupt controller, for every set of interrupt       *)
(* numbers and of priorities.                                              *)
(***************************************************************************)
EXTENDS Tzic, TLAPS, WellFoundedInduction

\* The sets prc_tzic computes hold lines only.
LEMMA CurType == cur \subseteq IRQ /\ raising \subseteq IRQ /\ hiPending \subseteq IRQ
BY DEF cur, raising, hiPending

\* The candidate computation reads only the registers, the lines and the mask.
LEMMA PendingFrame ==
  ASSUME enset' = enset, srcset' = srcset, int_in' = int_in,
         priority' = priority, priomask' = priomask
  PROVE  cur' = cur /\ raising' = raising /\ hiPending' = hiPending
<1>1. candidate' = candidate
  BY DEF candidate
<1>2. cur' = cur
  BY <1>1 DEF cur
<1>3. raising' = raising
  BY <1>2 DEF raising
<1>4. \A i : HasHighestPri(i)' = HasHighestPri(i)
  BY <1>3 DEF HasHighestPri
<1> QED
  BY <1>2, <1>3, <1>4 DEF hiPending

-----------------------------------------------------------------------------
\* Every register keeps its type through every cycle of prc_tzic, every line
\* change and every bus write.
THEOREM TzicTypeCorrect == TzicSpec => []TzicTypeOK
<1>1. TzicInit => TzicTypeOK
  BY PrioAssumption DEF TzicInit, TzicTypeOK
<1>2. TzicTypeOK /\ [TzicNext]_tzicVars => TzicTypeOK'
  <2> SUFFICES ASSUME TzicTypeOK, [TzicNext]_tzicVars PROVE TzicTypeOK'
    OBVIOUS
  <2> USE DEF TzicTypeOK, regVars
  <2>1. CASE prc_tzic
    <3>1. CASE prc_tzic_evaluate
      BY <3>1, CurType DEF prc_tzic_evaluate
    <3>2. CASE prc_tzic_idle
      BY <3>2 DEF prc_tzic_idle
    <3> QED BY <2>1, <3>1, <3>2 DEF prc_tzic
  <2>2. ASSUME NEW i \in IRQ, NEW deassert \in BOOLEAN, interrupt(i, deassert)
        PROVE  TzicTypeOK'
    BY <2>2 DEF interrupt
  <2>3. CASE fast_write
    <3>1. ASSUME NEW b \in BOOLEAN, fast_write_INTCTRL(b) \/ fast_write_DSMINT(b)
          PROVE  TzicTypeOK'
      BY <3>1 DEF fast_write_INTCTRL, fast_write_DSMINT
    <3>2. ASSUME NEW m \in Prio, fast_write_PRIOMASK(m)
          PROVE  TzicTypeOK'
      BY <3>2 DEF fast_write_PRIOMASK
    <3>3. ASSUME NEW w \in Words, NEW D \in SUBSET InWord(w),
                 \/ fast_write_ENSET(w, D) \/ fast_write_ENCLEAR(w, D)
                 \/ fast_write_SRCSET(w, D) \/ fast_write_SRCCLEAR(w, D)
                 \/ fast_write_WAKEUP(w, D)
          PROVE  TzicTypeOK'
      <4> InWord(w) \subseteq IRQ
        BY DEF InWord
      <4> QED
        BY <3>3 DEF fast_write_ENSET, fast_write_ENCLEAR, fast_write_SRCSET,
                    fast_write_SRCCLEAR, fast_write_WAKEUP
    <3>4. ASSUME NEW negate \in BOOLEAN, NEW i \in IRQ, fast_write_SWINT(negate, i)
          PROVE  TzicTypeOK'
      BY <3>4 DEF fast_write_SWINT
    <3>5. ASSUME NEW r \in {i \div 4 : i \in IRQ}, NEW f \in [PriorityReg(r) -> Prio],
                 fast_write_PRIORITY(r, f)
          PROVE  TzicTypeOK'
      BY <3>5 DEF fast_write_PRIORITY
    <3>6. CASE fast_write_other
      BY <3>6 DEF fast_write_other
    <3> QED
      BY <2>3, <3>1, <3>2, <3>3, <3>4, <3>5, <3>6 DEF fast_write
  <2>4. CASE UNCHANGED tzicVars
    BY <2>4 DEF tzicVars
  <2> QED
    BY <2>1, <2>2, <2>3, <2>4 DEF TzicNext
<1> QED
  BY <1>1, <1>2, PTL DEF TzicSpec

-----------------------------------------------------------------------------
\* A bus write leaves the lines alone, announces itself to prc_tzic, and sets
\* DSMINT only when no line is up.
LEMMA FastWrite ==
  ASSUME fast_write
  PROVE  /\ int_in' = int_in
         /\ changed'
         /\ dsmint' = dsmint \/ int_in = {}
<1> USE DEF regVars
<1>1. ASSUME NEW b \in BOOLEAN, fast_write_INTCTRL(b) \/ fast_write_DSMINT(b)
      PROVE  int_in' = int_in /\ changed' /\ (dsmint' = dsmint \/ int_in = {})
  BY <1>1 DEF fast_write_INTCTRL, fast_write_DSMINT
<1>2. ASSUME NEW m \in Prio, fast_write_PRIOMASK(m)
      PROVE  int_in' = int_in /\ changed' /\ dsmint' = dsmint
  BY <1>2 DEF fast_write_PRIOMASK
<1>3. ASSUME NEW w \in Words, NEW D \in SUBSET InWord(w),
             \/ fast_write_ENSET(w, D) \/ fast_write_ENCLEAR(w, D)
             \/ fast_write_SRCSET(w, D) \/ fast_write_SRCCLEAR(w, D)
             \/ fast_write_WAKEUP(w, D)
      PROVE  int_in' = int_in /\ changed' /\ dsmint' = dsmint
  BY <1>3 DEF fast_write_ENSET, fast_write_ENCLEAR, fast_write_SRCSET,
              fast_write_SRCCLEAR, fast_write_WAKEUP
<1>4. ASSUME NEW negate \in BOOLEAN, NEW i \in IRQ, fast_write_SWINT(negate, i)
      PROVE  int_in' = int_in /\ changed' /\ dsmint' = dsmint
  BY <1>4 DEF fast_write_SWINT
<1>5. ASSUME NEW r \in {i \div 4 : i \in IRQ}, NEW f \in [PriorityReg(r) -> Prio],
             fast_write_PRIORITY(r, f)
      PROVE  int_in' = int_in /\ changed' /\ dsmint' = dsmint
  BY <1>5 DEF fast_write_PRIORITY
<1>6. CASE fast_write_other
  BY <1>6 DEF fast_write_other
<1> QED
  BY <1>1, <1>2, <1>3, <1>4, <1>5, <1>6 DEF fast_write

\* The hold-off discipline: with DSMINT set no line is up.
THEOREM HoldOffHolds == TzicSpec => []HoldOff
<1>1. TzicInit => HoldOff
  BY DEF TzicInit, HoldOff
<1>2. HoldOff /\ [TzicNext]_tzicVars => HoldOff'
  <2> SUFFICES ASSUME HoldOff, [TzicNext]_tzicVars PROVE HoldOff'
    OBVIOUS
  <2>1. CASE prc_tzic
    BY <2>1 DEF HoldOff, prc_tzic, prc_tzic_evaluate, prc_tzic_idle
  <2>2. ASSUME NEW i \in IRQ, NEW deassert \in BOOLEAN, interrupt(i, deassert)
        PROVE  HoldOff'
    BY <2>2 DEF HoldOff, interrupt
  <2>3. CASE fast_write
    BY <2>3, FastWrite DEF HoldOff
  <2>4. CASE UNCHANGED tzicVars
    BY <2>4 DEF HoldOff, tzicVars
  <2> QED
    BY <2>1, <2>2, <2>3, <2>4 DEF TzicNext
<1> QED
  BY <1>1, <1>2, PTL DEF TzicSpec

\* PND and HIPND are never stale once prc_tzic has nothing to process.
THEOREM PendingCoherentHolds == TzicSpec => []PendingCoherent
<1>1. TzicInit => PendingCoherent
  BY DEF TzicInit, PendingCoherent
<1>2. PendingCoherent /\ [TzicNext]_tzicVars => PendingCoherent'
  <2> SUFFICES ASSUME PendingCoherent, [TzicNext]_tzicVars PROVE PendingCoherent'
    OBVIOUS
  <2>1. CASE prc_tzic_evaluate
    <3>1. cur' = cur /\ raising' = raising /\ hiPending' = hiPending
      BY <2>1, PendingFrame DEF prc_tzic_evaluate, regVars
    <3>2. raising \subseteq cur
      BY DEF raising
    <3> QED
      BY <2>1, <3>1, <3>2 DEF prc_tzic_evaluate, PendingCoherent
  <2>2. CASE prc_tzic_idle
    <3>1. cur' = cur /\ raising' = raising /\ hiPending' = hiPending
      BY <2>2, PendingFrame DEF prc_tzic_idle, regVars
    <3> QED
      BY <2>2, <3>1 DEF prc_tzic_idle, PendingCoherent
  <2>3. ASSUME NEW i \in IRQ, NEW deassert \in BOOLEAN, interrupt(i, deassert)
        PROVE  PendingCoherent'
    <3>1. CASE dsmint
      <4>1. cur' = cur /\ raising' = raising /\ hiPending' = hiPending
        BY <2>3, <3>1, PendingFrame DEF interrupt, regVars
      <4> QED
        BY <2>3, <3>1, <4>1 DEF interrupt, PendingCoherent
    <3>2. CASE ~dsmint
      BY <2>3, <3>2 DEF interrupt, PendingCoherent
    <3> QED BY <3>1, <3>2
  <2>4. CASE fast_write
    BY <2>4, FastWrite DEF PendingCoherent
  <2>5. CASE UNCHANGED tzicVars
    <3>1. cur' = cur /\ raising' = raising /\ hiPending' = hiPending
      BY <2>5, PendingFrame DEF tzicVars, regVars
    <3> QED
      BY <2>5, <3>1 DEF tzicVars, PendingCoherent
  <2> QED
    BY <2>1, <2>2, <2>3, <2>4, <2>5 DEF TzicNext, prc_tzic
<1> QED
  BY <1>1, <1>2, PTL DEF TzicSpec

-----------------------------------------------------------------------------
\* The lines above PRIOMASK, when there are any, have one of highest priority:
\* priorities are bytes.
LEMMA HighestExists ==
  ASSUME TzicTypeOK, raising # {}
  PROVE  \E i \in raising : \A j \in raising : priority[i] >= priority[j]
<1> DEFINE S == {255 - priority[i] : i \in raising}
           R == OpToRel(<, Nat)
<1>0. \A i \in raising : priority[i] \in 0..255
  BY CurType, PrioAssumption DEF TzicTypeOK
<1>1. S \subseteq Nat /\ S # {}
  BY <1>0
<1>2. PICK n \in S : \A m \in S : ~ (<<m, n>> \in R)
  <2>1. IsWellFoundedOn(R, Nat)
    BY NatLessThanWellFounded
  <2> HIDE DEF S, R
  <2> QED BY <1>1, <2>1, WFMin
<1>3. PICK i \in raising : n = 255 - priority[i]
  BY <1>2
<1>4. ASSUME NEW j \in raising PROVE priority[i] >= priority[j]
  <2> DEFINE m == 255 - priority[j]
  <2>1. m \in S /\ m \in Nat /\ n \in Nat
    BY <1>1
  <2>2. ~ (m < n)
    <3> HIDE DEF m
    <3> QED BY <2>1, <1>2 DEF OpToRel
  <2>3. PICK p \in 0..255, q \in 0..255 : p = priority[i] /\ q = priority[j]
    BY <1>0
  <2>4. ~ (255 - q < 255 - p)
    BY <2>2, <2>3, <1>3
  <2>5. p >= q
    BY <2>4
  <2> QED BY <2>3, <2>5
<1> QED
  BY <1>4

\* Whenever prc_tzic interrupts the core, HIPND names at least one line, all
\* its lines have one priority, and that priority is above PRIOMASK.
THEOREM RaiseHasCauseHolds == TzicSpec => RaiseHasCause
<1>1. TzicTypeOK /\ [TzicNext]_tzicVars =>
        [irq' /\ prc_tzic => /\ hipnd' # {}
                             /\ \A i \in hipnd' : priority[i] > priomask
                             /\ \A i, j \in hipnd' : priority[i] = priority[j]]_tzicVars
  <2> SUFFICES ASSUME TzicTypeOK, irq', prc_tzic
               PROVE  /\ hipnd' # {}
                      /\ \A i \in hipnd' : priority[i] > priomask
                      /\ \A i, j \in hipnd' : priority[i] = priority[j]
    OBVIOUS
  <2>1. raising # {} /\ hipnd' = hiPending
    BY DEF prc_tzic, prc_tzic_evaluate, prc_tzic_idle
  <2>2. PICK k \in raising : \A j \in raising : priority[k] >= priority[j]
    BY <2>1, HighestExists
  <2>3. k \in hiPending
    BY <2>1, <2>2 DEF hiPending, HasHighestPri, raising
  <2>4. \A i \in IRQ : priority[i] \in Nat
    <3>1. Prio \subseteq Nat
      BY PrioAssumption
    <3> QED BY <3>1 DEF TzicTypeOK
  <2>5. priomask \in Nat
    BY PrioAssumption DEF TzicTypeOK
  <2>6. ASSUME NEW i \in hiPending PROVE priority[i] > priomask /\ i \in raising
    <3>1. i \in cur /\ i \in IRQ /\ priority[i] >= priority[k]
      BY <2>1, CurType DEF hiPending, HasHighestPri
    <3>2. priority[k] > priomask /\ k \in IRQ
      BY CurType DEF raising
    <3> QED BY <3>1, <3>2, <2>4, <2>5 DEF raising
  <2>7. ASSUME NEW i \in hiPending, NEW j \in hiPending
        PROVE  priority[i] = priority[j]
    <3>1. i \in raising /\ j \in raising
      BY <2>6
    <3>2. priority[i] >= priority[j] /\ priority[j] >= priority[i]
      BY <2>1, <3>1 DEF hiPending, HasHighestPri
    <3> QED BY <3>1, <3>2, <2>4, CurType
  <2> QED
    BY <2>1, <2>3, <2>6, <2>7
<1> QED
  BY <1>1, TzicTypeCorrect, PTL DEF TzicSpec, RaiseHasCause
=============================================================================
