-------------------------- MODULE IrqSystem_proofs --------------------------
(***************************************************************************)
(* The handler of dummyos/irq.s nests above PRIOMASK and puts it back, for *)
(* every set of lines, every assignment of priorities and every depth of   *)
(* nesting that the stack has room for.                                    *)
(***************************************************************************)
EXTENDS IrqSystem, Tzic_proofs, SequenceTheorems

\* irq_handler between its first instruction and the store to PRIOMASK.
Entering == pc \in {"hipnd", "find", "priomask"}
\* The innermost frame has its line, PRIOMASK is the byte loaded for that line,
\* PRIOMASK is what it was before, the frame holds the PRIOMASK of before.
Found == pc \in {"priomask", "service", "served", "restore", "return"}
Raised == pc \in {"service", "served", "restore"}
Lowered == pc \in {"hipnd", "find", "priomask", "return"}
Saved == pc \in {"service", "served", "restore", "return"}

HasLine(k) == k < Len(frames) \/ Found
\* Line i may be served while PRIOMASK is m.
Over(i, m) == priority[i] > m \/ (priority[i] = 0 /\ m > 0)

\* The core takes interrupts only in the application and in a handler in service.
MaskedWhere == masked <=> pc \notin {"app", "service", "served"}

\* One frame for each activation, the outermost on top of the application.
FramesMatch ==
  /\ pc \in {"app", "svc"} <=> frames = <<>>
  /\ \A k \in 1..Len(frames) :
       /\ k = 1 => frames[k].at = "app"
       /\ k > 1 => frames[k].at \in {"service", "served"}
       /\ HasLine(k) => frames[k].num \in IRQ
       /\ k < Len(frames) \/ Saved => frames[k].mask = Below(k)

\* Every line found was above the PRIOMASK its activation began with.
Nested ==
  \A k \in 1..Len(frames) : frames[k].num # NoLine => Over(frames[k].num, Below(k))

\* PRIOMASK at every place of the handler.
MaskAt ==
  /\ priority \in Configurations /\ enset = {i \in IRQ : priority[i] # 0}
  /\ frames = <<>> => priomask = 0
  /\ Raised => priomask = PriorityByte(frames[Len(frames)].num)
  /\ Lowered => priomask = Below(Len(frames))

\* Until the handler writes PRIOMASK, HIPND holds lines that may be served, however
\* often the controller computes it again between the loads.
HighOnly == Entering => \A i \in hipnd \cup loaded : Over(i, priomask)

IrqInv == IrqTypeOK /\ MaskedWhere /\ FramesMatch /\ Nested /\ MaskAt /\ HighOnly

-----------------------------------------------------------------------------
(* What the controller and the search of the handler compute.              *)

\* Priorities, PRIOMASK and the bytes loaded are numbers.
LEMMA PriorityTypes ==
  ASSUME IrqInv
  PROVE  /\ priomask \in Nat /\ priomask \in Prio
         /\ \A i \in IRQ : priority[i] \in Nat /\ priority[i] \in Prio
         /\ \A i \in IRQ : PriorityByte(i) \in Nat /\ PriorityByte(i) \in Prio
<1>1. priority \in [IRQ -> Prio] /\ priomask \in Prio
  BY DEF IrqInv, IrqTypeOK, TzicTypeOK
<1>2. \A i \in IRQ : priority[i] \in Prio /\ PriorityByte(i) \in Prio
  BY <1>1, ConfigAssumption DEF PriorityByte
<1>3. \A p \in Prio : p \in Nat
  BY PrioAssumption
<1>4. ASSUME NEW i \in IRQ
      PROVE  /\ priority[i] \in Nat /\ priority[i] \in Prio
             /\ PriorityByte(i) \in Nat /\ PriorityByte(i) \in Prio
  BY <1>2, <1>3
<1> QED BY <1>1, <1>3, <1>4

\* Every line that prc_tzic puts into HIPND is above PRIOMASK, or has priority 0
\* and PRIOMASK is not zero: with no line above PRIOMASK, highest_pri stays 0
\* (tzic.cpp:70), and a line that is up has a priority.
LEMMA HiPendingAbove ==
  ASSUME IrqInv
  PROVE  \A i \in hiPending : Over(i, priomask)
<1>1. TzicTypeOK
  BY DEF IrqInv, IrqTypeOK
<1>2. CASE raising = {}
  <2>1. SUFFICES ASSUME NEW i \in hiPending PROVE priority[i] = 0 /\ priomask > 0
    BY DEF Over
  <2>2. i \in cur /\ priority[i] = 0
    BY <1>2 DEF hiPending, HasHighestPri
  <2>3. PICK j \in candidate : Word(j) = Word(i) /\ j >= i
    BY <2>2 DEF cur
  <2>4. j \in IRQ /\ j \in 0..127 /\ priority[j] # 0
    BY <2>3, IRQAssumption DEF candidate, IrqInv, MaskAt
  <2>5. j \in cur
    BY <2>3, <2>4 DEF cur
  <2>6. ~ (priority[j] > priomask)
    BY <1>2, <2>5 DEF raising
  <2> QED BY <2>2, <2>4, <2>6, PriorityTypes
<1>3. CASE raising # {}
  <2>1. PICK k \in raising : \A j \in raising : priority[k] >= priority[j]
    BY <1>1, <1>3, HighestExists
  <2>2. k \in IRQ /\ priority[k] > priomask
    BY CurType DEF raising
  <2>3. \A i \in hiPending : i \in IRQ /\ priority[i] >= priority[k]
    BY <1>3, CurType DEF hiPending, HasHighestPri
  <2> QED BY <2>2, <2>3, PriorityTypes DEF Over
<1> QED BY <1>2, <1>3

\* The search of irq.s:33 ends at one of the lines loaded.
LEMMA FoundIsLoaded ==
  ASSUME loaded \subseteq IRQ, loaded # {}
  PROVE  found \in loaded
<1> DEFINE Key(i) == 128 * (i \div 32) + (127 - i)
           S == {Key(i) : i \in loaded}
           R == OpToRel(<, Nat)
<1>0. \A i \in loaded : i \in 0..127
  BY IRQAssumption
<1>1. S \subseteq Nat /\ S # {}
  BY <1>0
<1>2. PICK n \in S : \A m \in S : ~ (<<m, n>> \in R)
  <2>1. IsWellFoundedOn(R, Nat)
    BY NatLessThanWellFounded
  <2> HIDE DEF S, R
  <2> QED BY <1>1, <2>1, WFMin
<1>3. PICK i \in loaded : n = Key(i)
  BY <1>2
<1>4. ASSUME NEW j \in loaded
      PROVE  Word(i) < Word(j) \/ (Word(i) = Word(j) /\ i >= j)
  <2>1. Key(j) \in S /\ Key(j) \in Nat /\ n \in Nat
    BY <1>1
  <2>2. ~ (Key(j) < n)
    <3> DEFINE m == Key(j)
    <3>1. m \in S /\ m \in Nat /\ n \in Nat
      BY <2>1
    <3>2. ~ (m < n)
      <4> HIDE DEF m, S
      <4> QED BY <3>1, <1>2 DEF OpToRel
    <3> QED BY <3>2
  <2>3. i \in 0..127 /\ j \in 0..127
    BY <1>0
  <2>4. 128 * (j \div 32) + (127 - j) >= 128 * (i \div 32) + (127 - i)
    BY <2>1, <2>2, <2>3, <1>3
  <2> QED BY <2>3, <2>4 DEF Word
<1>5. \E x \in loaded : \A j \in loaded : Word(x) < Word(j) \/ (Word(x) = Word(j) /\ x >= j)
  BY <1>4
<1> QED BY <1>5 DEF found

-----------------------------------------------------------------------------
(* The actions.                                                            *)

\* The state configure_tzic leaves.
LEMMA IrqInitHolds ==
  IrqInit => IrqInv
<1> SUFFICES ASSUME IrqInit PROVE IrqInv
  OBVIOUS
<1>1. TzicTypeOK
  <2>1. priority \in [IRQ -> Prio]
    BY ConfigAssumption DEF IrqInit
  <2> QED BY <2>1, PrioAssumption DEF IrqInit, TzicTypeOK
<1>2. frames = <<>> /\ frames \in Seq(Frame) /\ Len(frames) = 0
  BY DEF IrqInit
<1>3. IrqTypeOK
  <2>1. req \subseteq IRQ /\ arisen \in 0..MaxCauses /\ calls \in 0..MaxCalls
    BY ConfigAssumption DEF IrqInit
  <2>2. masked \in BOOLEAN /\ loaded \subseteq IRQ
    BY DEF IrqInit
  <2>3. pc \in Places /\ w \in Words
    BY DEF IrqInit, Places, Words
  <2> QED BY <1>1, <1>2, <2>1, <2>2, <2>3 DEF IrqTypeOK
<1>4. MaskedWhere /\ FramesMatch /\ Nested /\ MaskAt /\ HighOnly
  BY <1>2 DEF IrqInit, MaskedWhere, FramesMatch, Nested, MaskAt, HighOnly, Entering, Raised,
              Lowered
<1> QED BY <1>3, <1>4 DEF IrqInv

\* A cause, the call of interrupt() by a device, or nothing: neither touches
\* PRIOMASK, HIPND or the core.
LEMMA DevicesKeep ==
  ASSUME IrqInv, \/ \E i \in IRQ : cause(i) \/ signal(i)
                 \/ UNCHANGED sysVars
  PROVE  IrqInv'
<1> USE DEF IrqInv
<1>1. /\ UNCHANGED <<masked, pc, loaded, w, frames, calls, enset, srcset, wakeup, priority,
                     priomask, enabled, pnd, hipnd, dsmint, wakeup_signal, irq>>
      /\ int_in' \subseteq IRQ /\ changed' \in BOOLEAN
      /\ req' \subseteq IRQ /\ arisen' \in 0..MaxCauses
  <2> USE DEF IrqTypeOK, TzicTypeOK, coreVars, tzicVars, regVars
  <2>1. ASSUME NEW i \in IRQ, cause(i)
        PROVE  <1>1!:
    BY <2>1, ConfigAssumption DEF cause
  <2>2. ASSUME NEW i \in IRQ, signal(i)
        PROVE  <1>1!:
    BY <2>2 DEF signal, interrupt
  <2>3. CASE UNCHANGED sysVars
    BY <2>3 DEF sysVars
  <2> QED BY <2>1, <2>2, <2>3
<1>2. IrqTypeOK'
  BY <1>1 DEF IrqTypeOK, TzicTypeOK
<1>3. MaskedWhere' /\ MaskAt' /\ HighOnly'
  BY <1>1 DEF MaskedWhere, MaskAt, HighOnly, Over, Raised, Lowered, Entering, Below, PriorityByte
<1>4. FramesMatch' /\ Nested'
  BY <1>1 DEF FramesMatch, Nested, Over, HasLine, Found, Saved, Below, PriorityByte
<1> QED BY <1>2, <1>3, <1>4

\* A cycle of prc_tzic that does not interrupt the core, or in vain.
LEMMA ControllerKeeps ==
  ASSUME IrqInv, controller, UNCHANGED coreVars
  PROVE  IrqInv'
<1> USE DEF IrqInv
<1>1. /\ UNCHANGED <<masked, pc, loaded, w, frames, req, arisen, calls, enset, priority,
                     priomask>>
      /\ TzicTypeOK'
      /\ hipnd' = hipnd \/ hipnd' = hiPending
  <2> UNCHANGED <<masked, pc, loaded, w, frames, req, arisen, calls>>
    BY DEF controller, coreVars
  <2>1. CASE prc_tzic_evaluate
    BY <2>1, CurType DEF prc_tzic_evaluate, regVars, IrqTypeOK, TzicTypeOK
  <2>2. CASE prc_tzic_idle
    BY <2>2 DEF prc_tzic_idle, regVars, IrqTypeOK, TzicTypeOK
  <2> QED BY <2>1, <2>2 DEF controller, prc_tzic
<1>2. IrqTypeOK'
  BY <1>1 DEF IrqTypeOK
<1>3. MaskedWhere' /\ MaskAt' /\ HighOnly'
  BY <1>1, HiPendingAbove DEF MaskedWhere, MaskAt, HighOnly, Over, Raised, Lowered, Entering,
                              Below, PriorityByte
<1>4. FramesMatch' /\ Nested'
  BY <1>1 DEF FramesMatch, Nested, Over, HasLine, Found, Saved, Below, PriorityByte
<1> QED BY <1>2, <1>3, <1>4

\* The controller interrupts the core: HIPND holds lines above PRIOMASK, and a
\* new activation begins on top of the application or of a line in service.
LEMMA InterruptKeeps ==
  ASSUME IrqInv, controller, irq', ~masked, Len(frames) # MaxDepth
  PROVE  IrqInv'
<1> USE DEF IrqInv
<1> DEFINE f == [at |-> pc, num |-> NoLine, mask |-> 0]
<1>1. /\ UNCHANGED <<req, arisen, calls, enset, priority, priomask>>
      /\ masked' = TRUE /\ pc' = "hipnd" /\ loaded' = {} /\ w' = 0
      /\ frames' = Append(frames, f)
      /\ TzicTypeOK' /\ hipnd' = hiPending
  <2>1. prc_tzic_evaluate
    BY DEF controller, prc_tzic, prc_tzic_idle
  <2> QED BY <2>1, CurType DEF controller, service_interrupt, activate, prc_tzic_evaluate,
                               regVars, IrqTypeOK, TzicTypeOK
<1>2. pc \in {"app", "service", "served"}
  BY DEF MaskedWhere
<1>3. frames \in Seq(Frame) /\ f \in Frame /\ Len(frames) \in Nat
  BY <1>2, PrioAssumption DEF Frame, IrqTypeOK
<1>4. /\ frames' \in Seq(Frame) /\ Len(frames') = Len(frames) + 1 /\ frames' # <<>>
      /\ frames'[Len(frames) + 1] = f /\ \A k \in 1..Len(frames) : frames'[k] = frames[k]
  <2> HIDE DEF f
  <2> QED BY <1>1, <1>3, AppendProperties
<1>5. IrqTypeOK'
  BY <1>1, <1>4 DEF IrqTypeOK, Places, Words
<1>6. MaskedWhere' /\ HighOnly'
  BY <1>1, HiPendingAbove DEF MaskedWhere, HighOnly, Over
<1>7. FramesMatch'
  <2>1. frames = <<>> <=> pc = "app"
    BY <1>2 DEF FramesMatch
  <2>2. ASSUME NEW k \in 1..Len(frames)
        PROVE  /\ k < Len(frames) + 1 /\ frames'[k] = frames[k]
               /\ k = 1 => frames[k].at = "app"
               /\ k > 1 => frames[k].at \in {"service", "served"}
               /\ frames[k].num \in IRQ
               /\ frames[k].mask = Below(k) /\ Below(k)' = Below(k)
    <3>1. HasLine(k) /\ (k < Len(frames) \/ Saved)
      BY <1>2, <1>3, <2>1 DEF HasLine, Found, Saved
    <3>2. Below(k)' = Below(k)
      BY <1>1, <1>3, <1>4 DEF Below, PriorityByte
    <3> QED BY <1>3, <1>4, <3>1, <3>2 DEF FramesMatch
  <2>3. ~Found' /\ ~Saved'
    BY <1>1 DEF Found, Saved
  <2>4. f.at = pc /\ f.num = NoLine /\ (Len(frames) + 1 = 1 => pc = "app")
        /\ (Len(frames) + 1 > 1 => pc \in {"service", "served"})
    BY <1>2, <1>3, <2>1
  <2> HIDE DEF f
  <2> QED BY <1>1, <1>3, <1>4, <2>2, <2>3, <2>4 DEF FramesMatch, HasLine
<1>8. Nested'
  <2>1. ASSUME NEW k \in 1..Len(frames'), frames'[k].num # NoLine
        PROVE  Over(frames[k].num, Below(k))'
    <3>1. k \in 1..Len(frames) /\ frames'[k] = frames[k]
      <4>1. f.num = NoLine
        OBVIOUS
      <4> HIDE DEF f
      <4> QED BY <1>3, <1>4, <2>1, <4>1
    <3>2. Below(k)' = Below(k)
      BY <1>1, <1>3, <1>4, <3>1 DEF Below, PriorityByte
    <3> QED BY <1>1, <2>1, <3>1, <3>2 DEF Nested, Over
  <2> QED BY <2>1 DEF Nested
<1>9. MaskAt'
  <2>1. Below(Len(frames))' = priomask
    <3>1. CASE frames = <<>>
      BY <3>1, <1>4 DEF Below, MaskAt
    <3>2. CASE frames # <<>>
      <4>1. Raised /\ Len(frames) > 0
        BY <3>2, <1>2, <1>3 DEF FramesMatch, Raised
      <4>2. priomask = PriorityByte(frames[Len(frames)].num)
        BY <3>2, <4>1 DEF MaskAt
      <4> HIDE DEF f
      <4> QED BY <1>1, <1>3, <1>4, <4>1, <4>2 DEF Below, PriorityByte
    <3> QED BY <3>1, <3>2
  <2> QED BY <1>1, <1>4, <2>1 DEF MaskAt, Raised
<1> QED BY <1>5, <1>6, <1>7, <1>8, <1>9

\* The stack of activations is full: the model ends, and nothing else changes.
LEMMA OverflowKeeps ==
  ASSUME IrqInv, controller, irq', ~masked, Len(frames) = MaxDepth
  PROVE  IrqInv'
<1> USE DEF IrqInv
<1>1. /\ UNCHANGED <<loaded, w, frames, req, arisen, calls, enset, priority, priomask>>
      /\ masked' = TRUE /\ pc' = "overflow" /\ TzicTypeOK'
  <2>1. prc_tzic_evaluate
    BY DEF controller, prc_tzic, prc_tzic_idle
  <2> QED BY <2>1, CurType DEF controller, service_interrupt, activate, prc_tzic_evaluate,
                               regVars, IrqTypeOK, TzicTypeOK
<1>2. frames # <<>>
  BY ConfigAssumption, EmptySeq
<1>3. IrqTypeOK'
  BY <1>1 DEF IrqTypeOK, Places
<1>4. MaskedWhere' /\ MaskAt' /\ HighOnly'
  BY <1>1, <1>2 DEF MaskedWhere, MaskAt, HighOnly, Raised, Lowered, Entering
<1>5. FramesMatch' /\ Nested'
  BY <1>1, <1>2 DEF FramesMatch, Nested, Over, HasLine, Found, Saved, Below, PriorityByte
<1> QED BY <1>3, <1>4, <1>5

\* A store to PRIOMASK keeps the types of the controller.
LEMMA MaskWriteTypes ==
  ASSUME TzicTypeOK, NEW m \in Prio, fast_write_PRIOMASK(m)
  PROVE  TzicTypeOK' /\ UNCHANGED <<enset, priority, hipnd>> /\ priomask' = m
BY DEF TzicTypeOK, fast_write_PRIOMASK

\* The registers of the controller stay when no thread runs.
LEMMA TzicStays ==
  ASSUME TzicTypeOK, UNCHANGED tzicVars
  PROVE  TzicTypeOK' /\ UNCHANGED <<enset, priority, priomask, hipnd>>
BY DEF TzicTypeOK, tzicVars, regVars

\* A supervisor call, entered and left with an empty stack of activations.
LEMMA SvcKeeps ==
  ASSUME IrqInv, svc_enter \/ svc_leave
  PROVE  IrqInv'
<1> USE DEF IrqInv
<1>1. /\ UNCHANGED <<req, arisen, loaded, w, frames, enset, priority, priomask, hipnd>>
      /\ TzicTypeOK' /\ calls' \in 0..MaxCalls
      /\ \/ pc = "app" /\ pc' = "svc" /\ masked' = TRUE
         \/ pc = "svc" /\ pc' = "app" /\ masked' = FALSE
  BY TzicStays, ConfigAssumption DEF svc_enter, svc_leave, IrqTypeOK
<1>2. frames = <<>> /\ Len(frames) = 0
  BY <1>1 DEF FramesMatch
<1>3. IrqTypeOK'
  BY <1>1 DEF IrqTypeOK, Places
<1>4. MaskedWhere' /\ MaskAt' /\ HighOnly'
  BY <1>1, <1>2 DEF MaskedWhere, MaskAt, HighOnly, Entering, Raised, Lowered
<1>5. FramesMatch' /\ Nested'
  BY <1>1, <1>2 DEF FramesMatch, Nested
<1> QED BY <1>3, <1>4, <1>5

\* The four loads of HIPND, and the way out of a handler that finds them zero.
LEMMA LoadKeeps ==
  ASSUME IrqInv, load_hipnd \/ quit
  PROVE  IrqInv'
<1> USE DEF IrqInv
<1>1. /\ UNCHANGED <<req, arisen, calls, masked, frames, enset, priority, priomask, hipnd>>
      /\ TzicTypeOK' /\ pc \in {"hipnd", "find"} /\ pc' \in {"hipnd", "find", "lost"}
      /\ loaded' \subseteq loaded \cup hipnd /\ w' \in Words
  <2>1. TzicTypeOK' /\ UNCHANGED <<enset, priority, priomask, hipnd>>
    BY TzicStays DEF load_hipnd, quit, IrqTypeOK
  <2>2. CASE load_hipnd
    BY <2>1, <2>2 DEF load_hipnd, step, fast_read_HIPND, IrqTypeOK, Words
  <2>3. CASE quit
    BY <2>1, <2>3 DEF quit, step, IrqTypeOK
  <2> QED BY <2>2, <2>3
<1>2. IrqTypeOK'
  <2>1. loaded' \subseteq IRQ
    BY <1>1 DEF IrqTypeOK, TzicTypeOK
  <2>2. pc' \in Places
    BY <1>1 DEF Places
  <2> QED BY <1>1, <2>1, <2>2 DEF IrqTypeOK
<1>3. HighOnly'
  BY <1>1 DEF HighOnly, Over, Entering
<1>4. MaskedWhere' /\ MaskAt'
  BY <1>1 DEF MaskedWhere, MaskAt, Raised, Lowered, Below, PriorityByte
<1>5. FramesMatch' /\ Nested'
  BY <1>1 DEF FramesMatch, Nested, Over, HasLine, Found, Saved, Below, PriorityByte
<1> QED BY <1>2, <1>3, <1>4, <1>5

\* The line found is above PRIOMASK, the byte loaded by the activation below.
LEMMA FindKeeps ==
  ASSUME IrqInv, find
  PROVE  IrqInv'
<1> USE DEF IrqInv
<1> DEFINE n == Len(frames)
<1>1. /\ UNCHANGED <<req, arisen, calls, masked, loaded, w, enset, priority, priomask, hipnd>>
      /\ TzicTypeOK' /\ pc = "find" /\ pc' = "priomask"
      /\ frames' = [frames EXCEPT ![n].num = found]
  BY TzicStays DEF find, step, IrqTypeOK
<1>2. found \in loaded /\ found \in IRQ /\ Over(found, priomask)
  <2>1. loaded \subseteq IRQ /\ loaded # {}
    BY DEF IrqTypeOK, find
  <2> QED BY <1>1, <2>1, FoundIsLoaded DEF HighOnly, Entering
<1>3. frames \in Seq(Frame) /\ n \in Nat /\ n > 0
  <2>1. frames \in Seq(Frame) /\ frames # <<>>
    BY <1>1 DEF FramesMatch, IrqTypeOK
  <2> QED BY <2>1
<1>4. frames[n] \in Frame
  BY <1>3
<1>5. /\ Len(frames') = n /\ frames' \in Seq(Frame) /\ frames' # <<>>
      /\ \A k \in 1..n : /\ frames'[k].at = frames[k].at /\ frames'[k].mask = frames[k].mask
                         /\ k < n => frames'[k].num = frames[k].num
      /\ frames'[n].num = found
  <2>1. [frames[n] EXCEPT !.num = found] \in Frame
    BY <1>2, <1>4 DEF Frame
  <2>2. frames' = [frames EXCEPT ![n] = [frames[n] EXCEPT !.num = found]]
    BY <1>1
  <2>3. frames' \in Seq(Frame) /\ Len(frames') = n
    BY <1>3, <2>1, <2>2
  <2>4. \A k \in 1..n : frames[k] \in Frame
    BY <1>3
  <2>5. frames'[n] = [frames[n] EXCEPT !.num = found] /\ \A k \in 1..n : k < n => frames'[k] = frames[k]
    BY <1>3, <2>2
  <2>6. frames'[n].at = frames[n].at /\ frames'[n].mask = frames[n].mask /\ frames'[n].num = found
    BY <1>4, <2>5 DEF Frame
  <2>7. frames' # <<>>
    BY <1>3, <2>3
  <2>8. ASSUME NEW k \in 1..n
        PROVE  /\ frames'[k].at = frames[k].at /\ frames'[k].mask = frames[k].mask
               /\ k < n => frames'[k].num = frames[k].num
    <3>1. k < n \/ k = n
      BY <1>3
    <3> QED BY <2>5, <2>6, <3>1
  <2> HIDE DEF n
  <2> QED BY <2>3, <2>6, <2>7, <2>8
<1> HIDE DEF n
<1>6. IrqTypeOK'
  BY <1>1, <1>5 DEF IrqTypeOK, Places
<1>7. MaskedWhere' /\ HighOnly'
  BY <1>1 DEF MaskedWhere, HighOnly, Over, Entering
<1>8. \A k \in 1..n : Below(k)' = Below(k)
  BY <1>1, <1>3, <1>5 DEF Below, PriorityByte
<1>9. MaskAt'
  BY <1>1, <1>3, <1>5, <1>8 DEF MaskAt, Raised, Lowered, n
<1>10. FramesMatch'
  BY <1>1, <1>2, <1>3, <1>5, <1>8 DEF FramesMatch, HasLine, Found, Saved, n
<1>11. Nested'
  <2>1. ASSUME NEW k \in 1..n, frames'[k].num # NoLine
        PROVE  Over(frames[k].num, Below(k))'
    <3>1. CASE k < n
      BY <1>1, <1>3, <1>5, <1>8, <2>1, <3>1 DEF Nested, Over, n
    <3>2. CASE k = n
      <4>1. priomask = Below(n)
        BY <1>1 DEF MaskAt, Lowered, n
      <4> QED BY <1>1, <1>2, <1>5, <1>8, <3>2, <4>1 DEF Over
    <3> QED BY <1>3, <3>1, <3>2
  <2> QED BY <1>5, <2>1 DEF Nested
<1> QED BY <1>6, <1>7, <1>9, <1>10, <1>11

\* PRIOMASK is saved and becomes the byte loaded for the line found.
LEMMA SetPriomaskKeeps ==
  ASSUME IrqInv, set_priomask
  PROVE  IrqInv'
<1> USE DEF IrqInv
<1> DEFINE n == Len(frames)
<1>1. frames \in Seq(Frame) /\ n \in Nat /\ n > 0 /\ pc = "priomask"
  <2>1. frames \in Seq(Frame) /\ frames # <<>> /\ pc = "priomask"
    BY DEF FramesMatch, IrqTypeOK, set_priomask, step
  <2> QED BY <2>1
<1>2. frames[n] \in Frame /\ frames[n].num \in IRQ /\ Top = frames[n]
  BY <1>1 DEF FramesMatch, HasLine, Found, Top
<1>3. priomask = Below(n) /\ priomask \in Prio /\ PriorityByte(frames[n].num) \in Prio
  BY <1>1, <1>2, PriorityTypes DEF MaskAt, Lowered
<1>4. /\ UNCHANGED <<req, arisen, calls, loaded, w, enset, priority, hipnd>>
      /\ priomask' = PriorityByte(frames[n].num)
      /\ TzicTypeOK' /\ pc' = "service" /\ masked' = FALSE
      /\ frames' = [frames EXCEPT ![n].mask = priomask]
  BY <1>2, <1>3, MaskWriteTypes DEF set_priomask, step, IrqTypeOK
<1>5. /\ Len(frames') = n /\ frames' \in Seq(Frame) /\ frames' # <<>>
      /\ \A k \in 1..n : /\ frames'[k].at = frames[k].at /\ frames'[k].num = frames[k].num
                         /\ k < n => frames'[k].mask = frames[k].mask
      /\ frames'[n].mask = priomask
  <2>1. [frames[n] EXCEPT !.mask = priomask] \in Frame
    BY <1>2, <1>3 DEF Frame
  <2>2. frames' = [frames EXCEPT ![n] = [frames[n] EXCEPT !.mask = priomask]]
    BY <1>4
  <2>3. frames' \in Seq(Frame) /\ Len(frames') = n
    BY <1>1, <2>1, <2>2
  <2>4. frames'[n] = [frames[n] EXCEPT !.mask = priomask] /\ \A k \in 1..n : k < n => frames'[k] = frames[k]
    BY <1>1, <2>2
  <2>5. frames'[n].at = frames[n].at /\ frames'[n].num = frames[n].num /\ frames'[n].mask = priomask
    BY <1>2, <2>4 DEF Frame
  <2>6. frames' # <<>>
    BY <1>1, <2>3
  <2>7. ASSUME NEW k \in 1..n
        PROVE  /\ frames'[k].at = frames[k].at /\ frames'[k].num = frames[k].num
               /\ k < n => frames'[k].mask = frames[k].mask
    <3>1. k < n \/ k = n
      BY <1>1
    <3> QED BY <2>4, <2>5, <3>1
  <2> HIDE DEF n
  <2> QED BY <2>3, <2>5, <2>6, <2>7
<1> HIDE DEF n
<1>6. IrqTypeOK'
  BY <1>4, <1>5 DEF IrqTypeOK, Places
<1>7. MaskedWhere' /\ HighOnly'
  BY <1>4 DEF MaskedWhere, HighOnly, Entering
<1>8. \A k \in 1..n : Below(k)' = Below(k)
  BY <1>1, <1>4, <1>5 DEF Below, PriorityByte
<1>9. MaskAt'
  BY <1>1, <1>4, <1>5 DEF MaskAt, Raised, Lowered, PriorityByte, n
<1>10. FramesMatch'
  <2>1. ASSUME NEW k \in 1..n
        PROVE  /\ k = 1 => frames'[k].at = "app"
               /\ k > 1 => frames'[k].at \in {"service", "served"}
               /\ frames'[k].num \in IRQ
               /\ frames'[k].mask = Below(k)'
    BY <1>1, <1>2, <1>3, <1>5, <1>8 DEF FramesMatch, HasLine, Found, n
  <2>2. Found' /\ Saved'
    BY <1>4 DEF Found, Saved
  <2> QED BY <1>4, <1>5, <2>1, <2>2 DEF FramesMatch, HasLine
<1>11. Nested'
  BY <1>1, <1>4, <1>5, <1>8 DEF Nested, Over, n
<1> QED BY <1>6, <1>7, <1>9, <1>10, <1>11

\* The handler of the line or the branch to address 0, the switch back to IRQ
\* mode and the store that restores PRIOMASK: the stack of activations stays.
LEMMA ServiceKeeps ==
  ASSUME IrqInv, service \/ no_handler \/ leave_service \/ restore_priomask
  PROVE  IrqInv'
<1> USE DEF IrqInv
<1>1. /\ frames # <<>> /\ frames \in Seq(Frame) /\ Len(frames) \in Nat /\ Len(frames) > 0
      /\ pc \in {"service", "served", "restore"}
  <2>1. frames # <<>> /\ frames \in Seq(Frame) /\ pc \in {"service", "served", "restore"}
    BY DEF service, no_handler, leave_service, restore_priomask, step, FramesMatch, IrqTypeOK
  <2> QED BY <2>1
<1>2. Top = frames[Len(frames)] /\ Top \in Frame /\ Top.mask \in Prio /\ Top.mask = Below(Len(frames))
  <2>1. Top = frames[Len(frames)] /\ Top \in Frame
    BY <1>1 DEF Top
  <2>2. Top.mask \in Prio
    BY <2>1 DEF Frame
  <2>3. Top.mask = Below(Len(frames))
    BY <1>1, <2>1 DEF FramesMatch, Saved
  <2> QED BY <2>1, <2>2, <2>3
<1>3. /\ UNCHANGED <<arisen, calls, loaded, w, frames, enset, priority, hipnd>>
      /\ TzicTypeOK' /\ req' \subseteq req
      /\ \/ pc = "service" /\ pc' = "served" /\ masked' = masked /\ priomask' = priomask
         \/ pc = "service" /\ pc' = "lost" /\ masked' = TRUE /\ priomask' = priomask
         \/ pc = "served" /\ pc' = "restore" /\ masked' = TRUE /\ priomask' = priomask
         \/ pc = "restore" /\ pc' = "return" /\ masked' = masked /\ priomask' = Below(Len(frames))
  <2>1. CASE service
    BY <2>1, TzicStays DEF service, IrqTypeOK
  <2>2. CASE leave_service
    BY <2>2, TzicStays DEF leave_service, step, IrqTypeOK
  <2>3. CASE restore_priomask
    BY <2>3, <1>2, MaskWriteTypes DEF restore_priomask, step, IrqTypeOK
  <2>4. CASE no_handler
    BY <2>4, TzicStays DEF no_handler, step, IrqTypeOK
  <2> QED BY <2>1, <2>2, <2>3, <2>4
<1>4. IrqTypeOK'
  <2>1. req' \subseteq IRQ /\ masked' \in BOOLEAN
    BY <1>3 DEF IrqTypeOK
  <2> QED BY <1>3, <2>1 DEF IrqTypeOK, Places
<1>5. MaskedWhere' /\ HighOnly'
  BY <1>3 DEF MaskedWhere, HighOnly, Entering
<1>6. MaskAt'
  BY <1>1, <1>3 DEF MaskAt, Raised, Lowered, Below, PriorityByte
<1>7. FramesMatch' /\ Nested'
  BY <1>1, <1>3 DEF FramesMatch, Nested, Over, HasLine, Found, Saved, Below, PriorityByte
<1> QED BY <1>4, <1>5, <1>6, <1>7

\* The return to the place interrupted: PRIOMASK is that of the activation
\* below, or zero in the application.
LEMMA ReturnKeeps ==
  ASSUME IrqInv, return
  PROVE  IrqInv'
<1> USE DEF IrqInv
<1> DEFINE n == Len(frames)
<1>1. frames \in Seq(Frame) /\ n \in Nat /\ n > 0 /\ pc = "return"
  <2>1. frames \in Seq(Frame) /\ frames # <<>> /\ pc = "return"
    BY DEF FramesMatch, IrqTypeOK, return, step
  <2> QED BY <2>1
<1>2. /\ UNCHANGED <<req, arisen, calls, loaded, w, enset, priority, priomask, hipnd>>
      /\ TzicTypeOK' /\ masked' = FALSE /\ pc' = frames[n].at
      /\ frames' = SubSeq(frames, 1, n - 1)
  BY TzicStays DEF return, step, IrqTypeOK, Top
<1>3. /\ frames' \in Seq(Frame) /\ Len(frames') = n - 1
      /\ \A k \in 1..(n - 1) : frames'[k] = frames[k]
  <2> HIDE DEF n
  <2>1. \A k \in 1..(n - 1) : frames[k] \in Frame
    BY <1>1 DEF n
  <2> QED BY <1>1, <1>2, <2>1, SubSeqProperties
<1>4. (n = 1 => pc' = "app") /\ (n > 1 => pc' \in {"service", "served"})
  BY <1>1, <1>2 DEF FramesMatch
<1>5. frames' = <<>> <=> n = 1
  BY <1>1, <1>3
<1> HIDE DEF n
<1>6. pc' \in {"app", "service", "served"}
  BY <1>1, <1>4
<1>7. IrqTypeOK'
  BY <1>2, <1>3, <1>6 DEF IrqTypeOK, Places
<1>8. MaskedWhere' /\ HighOnly'
  BY <1>2, <1>6 DEF MaskedWhere, HighOnly, Entering
<1>9. \A k \in 1..(n - 1) : Below(k)' = Below(k)
  BY <1>1, <1>2, <1>3 DEF Below, PriorityByte
<1>10. MaskAt'
  <2>1. priomask = Below(n)
    BY <1>1 DEF MaskAt, Lowered, n
  <2>2. CASE n = 1
    BY <1>2, <1>3, <1>4, <1>5, <2>1, <2>2 DEF MaskAt, Below, Raised, Lowered
  <2>3. CASE n > 1
    <3>1. priomask' = priority'[4 * (frames'[n - 1].num \div 4)]
      BY <1>1, <1>2, <1>3, <2>1, <2>3 DEF Below, PriorityByte
    <3>2. Raised' /\ ~Lowered'
      BY <1>4, <2>3 DEF Raised, Lowered
    <3> QED BY <1>1, <1>2, <1>3, <1>5, <2>3, <3>1, <3>2 DEF MaskAt, PriorityByte
  <2> QED BY <1>1, <2>2, <2>3
<1>11. FramesMatch'
  <2>1. ASSUME NEW k \in 1..(n - 1)
        PROVE  /\ k = 1 => frames'[k].at = "app"
               /\ k > 1 => frames'[k].at \in {"service", "served"}
               /\ frames'[k].num \in IRQ
               /\ frames'[k].mask = Below(k)'
               /\ HasLine(k)'
    <3>1. HasLine(k)'
      BY <1>1, <1>3, <1>4, <2>1 DEF HasLine, Found
    <3> QED BY <1>1, <1>3, <1>9, <3>1 DEF FramesMatch, HasLine, n
  <2>2. pc' \in {"app", "svc"} <=> frames' = <<>>
    BY <1>1, <1>4, <1>5
  <2> QED BY <1>3, <2>1, <2>2 DEF FramesMatch
<1>12. Nested'
  <2>1. ASSUME NEW k \in 1..(n - 1), frames'[k].num # NoLine
        PROVE  Over(frames[k].num, Below(k))'
    <3>1. k \in 1..Len(frames) /\ frames'[k] = frames[k] /\ Below(k)' = Below(k)
      BY <1>1, <1>3, <1>9 DEF n
    <3> QED BY <1>2, <2>1, <3>1 DEF Nested, Over
  <2> QED BY <1>3, <2>1 DEF Nested
<1> QED BY <1>7, <1>8, <1>10, <1>11, <1>12

-----------------------------------------------------------------------------
(* The theorems.                                                           *)

\* Every step of the devices, of the controller and of the core keeps the
\* invariant.
LEMMA IrqInvInductive ==
  IrqInv /\ [IrqNext]_sysVars => IrqInv'
<1> SUFFICES ASSUME IrqInv, [IrqNext]_sysVars PROVE IrqInv'
  OBVIOUS
<1>1. CASE controller
  <2>1. CASE irq' /\ ~masked
    BY <1>1, <2>1, InterruptKeeps, OverflowKeeps
  <2>2. CASE ~(irq' /\ ~masked)
    <3>1. UNCHANGED coreVars
      BY <1>1, <2>2 DEF controller, service_interrupt
    <3> QED BY <1>1, <3>1, ControllerKeeps
  <2> QED BY <2>1, <2>2
<1>2. CASE core
  BY <1>2, SvcKeeps, LoadKeeps, FindKeeps, SetPriomaskKeeps, ServiceKeeps, ReturnKeeps DEF core
<1> QED BY <1>1, <1>2, SvcKeeps, DevicesKeep DEF IrqNext

\* The invariant holds in every reachable state.
LEMMA IrqInvHolds ==
  IrqSpec => []IrqInv
BY IrqInitHolds, IrqInvInductive, PTL DEF IrqSpec

\* The system keeps its types: in particular an activation never interrupts the
\* entry or the exit of irq_handler (dummyos/irq.s:24, irq.s:97).
THEOREM IrqTypeCorrect ==
  IrqSpec => []IrqTypeOK
<1>1. IrqInv => IrqTypeOK
  BY DEF IrqInv
<1> QED BY <1>1, IrqInvHolds, PTL

\* The line of every activation is above the byte that the activation it
\* interrupts loaded into PRIOMASK (dummyos/irq.s:120), or has no priority at all:
\* to any depth and for any priorities, although HIPND is read in four loads after
\* the interrupt and PRIOMASK is written later still.  From the application only
\* an enabled line is served.
THEOREM NestingHolds ==
  IrqSpec => []NestingAboveMask
<1>1. ASSUME IrqInv PROVE NestingAboveMask
  <2>1. frames \in Seq(Frame) /\ DOMAIN frames = 1..Len(frames)
    BY <1>1 DEF IrqInv, IrqTypeOK
  <2> QED BY <1>1, <2>1 DEF IrqInv, Nested, Over, InService, NestingAboveMask
<1> QED BY <1>1, IrqInvHolds, PTL

\* PRIOMASK is zero in the application, the byte loaded for the innermost line
\* inside its handler, and on the way out what it was when the activation began:
\* irq_handler restores what it changed (dummyos/irq.s:136).
THEOREM MaskFollowsStackHolds ==
  IrqSpec => []MaskFollowsStack
<1>1. ASSUME IrqInv PROVE MaskFollowsStack
  BY <1>1 DEF IrqInv, FramesMatch, MaskAt, Raised, Lowered, MaskFollowsStack, Top
<1> QED BY <1>1, IrqInvHolds, PTL
==============================================================================
