------------------------------ MODULE Gpt_proofs ------------------------------
(***************************************************************************)
(* Proofs about the timer, for every width of its counter and every set of *)
(* words software writes.                                                  *)
(***************************************************************************)
EXTENDS Gpt, TLAPS

\* set_output_pin drives a level in every output mode.
LEMMA OutputPinType ==
  ASSUME NEW output \in BOOLEAN, NEW mode \in OutputModes
  PROVE  set_output_pin(output, mode) \in BOOLEAN
BY DEF set_output_pin, OutputModes

\* The counter update of prc_gpt stays in the range of the counter.
LEMMA NextCounterType ==
  ASSUME GptTypeOK PROVE NextCounter \in 0..MaxCount
BY CountAssumption DEF GptTypeOK, NextCounter

\* A word of CR, field by field.
LEMMA CRFields ==
  ASSUME NEW d \in CRWords
  PROVE  /\ d.om \in [Channels -> OutputModes] /\ d.im \in [1..2 -> CaptureModes]
         /\ d.mode \in CounterModes /\ d.clk \in ClockSources
         /\ d.en_mode \in BOOLEAN /\ d.en \in BOOLEAN /\ d.swr \in BOOLEAN
BY WordsAssumption DEF CRType

\* A tick of prc_gpt keeps the types of the registers.
LEMMA TickKeepsType ==
  ASSUME GptTypeOK, prc_gpt_tick, freerun' \in BOOLEAN PROVE GptTypeOK'
<1>1. sr' \subseteq Flags
  <2>1. \A c \in CompareEvent : c \in 1..3
    BY DEF CompareEvent, Matching, Channels
  <2>2. {c - 1 : c \in CompareEvent} \subseteq Flags
    BY <2>1 DEF Flags
  <2>3. (IF counter = MaxCount THEN {5} ELSE {}) \subseteq Flags
    BY DEF Flags
  <2> QED BY <2>2, <2>3 DEF prc_gpt_tick, GptTypeOK
<1>2. cmpout' \in [Channels -> BOOLEAN]
  BY OutputPinType DEF prc_gpt_tick, GptTypeOK
<1>3. counter' \in 0..MaxCount
  BY NextCounterType DEF prc_gpt_tick
<1>4. prescaler_counter' \in 0..PrescalerMax
  BY CountAssumption DEF prc_gpt_tick
<1>5. gpt_line' \in BOOLEAN
  BY DEF prc_gpt_tick, LineLevel
<1> QED
  BY <1>1, <1>2, <1>3, <1>4, <1>5 DEF prc_gpt_tick, GptTypeOK, controlVars

\* A write of CR keeps the types, with or without the software reset.
LEMMA CRKeepsType ==
  ASSUME GptTypeOK, NEW d \in CRWords, gpt_write_CR(d), freerun' \in BOOLEAN
  PROVE  GptTypeOK'
<1>1. im' \in [1..2 -> CaptureModes]
  BY CRFields DEF gpt_write_CR, CaptureModes
<1>f. en_mode' \in BOOLEAN /\ gpt_enabled' \in BOOLEAN /\ gpt_line' \in BOOLEAN
  BY CRFields DEF gpt_write_CR, GptTypeOK
<1>2. CASE d.swr
  <2>1. counter' \in 0..MaxCount /\ prescaler' \in Nat /\ prescaler_counter' \in 0..PrescalerMax
    BY <1>2, CountAssumption DEF gpt_write_CR
  <2>2. clock_src' \in ClockSources /\ counter_mode' \in CounterModes
    BY <1>2 DEF gpt_write_CR, ClockSources, CounterModes
  <2>3. om' = [c \in Channels |-> "OC_DISCONNECTED"] /\ cmpout' = [c \in Channels |-> FALSE]
    BY <1>2 DEF gpt_write_CR
  <2>4. om' \in [Channels -> OutputModes] /\ cmpout' \in [Channels -> BOOLEAN]
    BY <2>3 DEF OutputModes
  <2>5. sr' \subseteq Flags /\ ir' \subseteq Flags
    BY <1>2 DEF gpt_write_CR
  <2>6. ocr' \in [Channels -> 0..MaxCount] /\ icr' \in [1..2 -> 0..MaxCount]
    BY <1>2, CountAssumption DEF gpt_write_CR
  <2> QED
    BY <1>1, <1>f, <2>1, <2>2, <2>4, <2>5, <2>6 DEF GptTypeOK
<1>3. CASE ~d.swr
  <2>1. cmpout' = [c \in Channels |-> IF c \in d.fo THEN set_output_pin(cmpout[c], om[c])
                                                  ELSE cmpout[c]]
    BY <1>3 DEF gpt_write_CR
  <2>2. \A c \in Channels : cmpout[c] \in BOOLEAN /\ om[c] \in OutputModes
    BY DEF GptTypeOK
  <2>3. cmpout' \in [Channels -> BOOLEAN]
    BY <2>1, <2>2, OutputPinType
  <2>4. counter' \in 0..MaxCount /\ prescaler_counter' \in 0..PrescalerMax
    BY <1>3, CountAssumption DEF gpt_write_CR, GptTypeOK
  <2>5. /\ clock_src' = d.clk /\ om' = d.om /\ counter_mode' = d.mode
        /\ UNCHANGED <<prescaler, sr, ir, ocr, icr>>
    BY <1>3 DEF gpt_write_CR
  <2> QED
    BY <1>1, <1>f, <2>3, <2>4, <2>5, CRFields DEF GptTypeOK
<1> QED BY <1>2, <1>3

\* Every register keeps its type: no cycle of prc_gpt, write or capture leaves
\* its range, the prescaler's own counter included.
THEOREM GptTypeCorrect == GptSpec => []GptTypeOK
<1>1. GptInit => GptTypeOK
  <2> SUFFICES ASSUME GptInit PROVE GptTypeOK
    OBVIOUS
  <2>1. im \in [1..2 -> CaptureModes]
    BY DEF GptInit, CaptureModes
  <2>2. om \in [Channels -> OutputModes] /\ cmpout \in [Channels -> BOOLEAN]
    BY DEF GptInit, OutputModes
  <2>3. ocr \in [Channels -> 0..MaxCount] /\ icr \in [1..2 -> 0..MaxCount]
    BY CountAssumption DEF GptInit
  <2>4. /\ counter \in 0..MaxCount /\ prescaler \in Nat /\ prescaler_counter \in 0..PrescalerMax
        /\ clock_src \in ClockSources /\ counter_mode \in CounterModes
    BY CountAssumption DEF GptInit, ClockSources, CounterModes
  <2> QED
    BY <2>1, <2>2, <2>3, <2>4 DEF GptInit, GptTypeOK
<1>2. GptTypeOK /\ [GptNext]_gptVars => GptTypeOK'
  <2> SUFFICES ASSUME GptTypeOK, [GptNext]_gptVars PROVE GptTypeOK'
    OBVIOUS
  <2>0. freerun' \in BOOLEAN
    BY DEF GptNext, gptVars, GptTypeOK
  <2>1. CASE prc_gpt_tick
    BY <2>0, <2>1, TickKeepsType
  <2>2. CASE prc_gpt_prescale
    BY <2>0, <2>2, CountAssumption DEF prc_gpt_prescale, GptTypeOK, controlVars
  <2>3. CASE UNCHANGED registers
    BY <2>0, <2>3 DEF registers, countVars, controlVars, GptTypeOK
  <2>4. ASSUME NEW d \in CRWords, gpt_write_CR(d)
        PROVE  GptTypeOK'
    BY <2>0, <2>4, CRKeepsType
  <2>5. ASSUME NEW D \in SRWords, gpt_write_SR(D)
        PROVE  GptTypeOK'
    BY <2>0, <2>5 DEF gpt_write_SR, GptTypeOK, countVars, controlVars
  <2>6. ASSUME NEW D \in IRWords, gpt_write_IR(D)
        PROVE  GptTypeOK'
    BY <2>0, <2>6, WordsAssumption DEF gpt_write_IR, GptTypeOK, countVars, controlVars
  <2>7. ASSUME NEW c \in Channels, NEW v \in OCRWords, gpt_write_OCR(c, v)
        PROVE  GptTypeOK'
    BY <2>0, <2>7, WordsAssumption, CountAssumption DEF gpt_write_OCR, GptTypeOK, controlVars
  <2>8. ASSUME NEW v \in PRWords, gpt_write_PR(v)
        PROVE  GptTypeOK'
    BY <2>0, <2>8, WordsAssumption, CountAssumption DEF gpt_write_PR, GptTypeOK, controlVars
  <2>9. ASSUME NEW j \in 1..2, NEW deassert \in BOOLEAN, ind_capin(j, deassert)
        PROVE  GptTypeOK'
    BY <2>0, <2>9 DEF ind_capin, GptTypeOK, countVars, controlVars, Flags
  <2> QED
    BY <2>1, <2>2, <2>3, <2>4, <2>5, <2>6, <2>7, <2>8, <2>9
       DEF GptNext, prc_gpt, prc_gpt_halted, gpt_write, gptVars
<1> QED BY <1>1, <1>2, PTL DEF GptSpec

-----------------------------------------------------------------------------
\* The bound alone is not inductive: that a tick restarts the counter at OCR1
\* needs the mode, which software could have left.
RestartInv == ~freerun => counter_mode = "M_RESTART" /\ counter <= ocr[1]

\* In restart mode since its counter was last 0 the timer never counts past
\* OCR1, whatever software writes to OCR1 and whenever it does (fast_write of
\* gpt.cpp).
THEOREM RestartBoundHolds == GptSpec => []RestartBound
<1>1. GptInit => RestartInv
  BY CountAssumption DEF GptInit, RestartInv, Channels
<1>2. GptTypeOK /\ GptTypeOK' /\ RestartInv /\ [GptNext]_gptVars => RestartInv'
  <2> SUFFICES ASSUME GptTypeOK, GptTypeOK', RestartInv, [GptNext]_gptVars, ~freerun'
               PROVE  counter_mode' = "M_RESTART" /\ counter' <= ocr'[1]
    BY DEF RestartInv
  <2>n. CASE UNCHANGED gptVars
    BY <2>n DEF gptVars, registers, countVars, controlVars, RestartInv
  <2>m. GptNext => counter_mode' = "M_RESTART" /\ (counter' = 0 \/ ~freerun)
    BY DEF GptNext, GptTypeOK, CounterModes
  <2>z. ASSUME GptNext, counter' = 0 PROVE counter' <= ocr'[1]
    BY <2>z, CountAssumption DEF GptTypeOK, Channels
  <2>b. ASSUME GptNext, ~freerun, counter_mode' = "M_RESTART" PROVE counter' <= ocr'[1]
    <3>0. /\ counter_mode = "M_RESTART" /\ counter <= ocr[1]
          /\ counter \in Int /\ ocr[1] \in 0..MaxCount /\ 1 \in Channels
          /\ ocr \in [Channels -> 0..MaxCount]
      BY <2>b, CountAssumption DEF RestartInv, GptTypeOK, Channels
    <3>1. CASE prc_gpt_tick
      BY <3>0, <3>1, CountAssumption DEF prc_gpt_tick, NextCounter, controlVars
    <3>2. CASE prc_gpt_prescale
      BY <3>0, <3>2 DEF prc_gpt_prescale, controlVars
    <3>3. CASE UNCHANGED registers
      BY <3>0, <3>3 DEF registers, countVars, controlVars
    <3>4. ASSUME NEW d \in CRWords, gpt_write_CR(d)
          PROVE  counter' <= ocr'[1]
      <4>1. CASE d.swr
        BY <3>4, <4>1, <3>0, CountAssumption DEF gpt_write_CR
      <4>2. CASE ~d.swr
        BY <3>4, <4>2, <3>0, CountAssumption DEF gpt_write_CR
      <4> QED BY <4>1, <4>2
    <3>5. ASSUME NEW D, gpt_write_SR(D) \/ gpt_write_IR(D) \/ gpt_write_PR(D)
          PROVE  counter' <= ocr'[1]
      BY <3>5, <3>0 DEF gpt_write_SR, gpt_write_IR, gpt_write_PR, countVars, controlVars
    <3>6. ASSUME NEW c \in Channels, NEW v \in OCRWords, gpt_write_OCR(c, v)
          PROVE  counter' <= ocr'[1]
      <4>1. v \in 0..MaxCount
        BY WordsAssumption
      <4>2. CASE c = 1
        BY <3>6, <3>0, <4>1, <4>2, CountAssumption DEF gpt_write_OCR, controlVars
      <4>3. CASE c # 1
        BY <3>6, <3>0, <4>1, <4>3 DEF gpt_write_OCR, controlVars
      <4> QED BY <4>2, <4>3
    <3>7. ASSUME NEW j \in 1..2, NEW deassert \in BOOLEAN, ind_capin(j, deassert)
          PROVE  counter' <= ocr'[1]
      BY <3>7, <3>0 DEF ind_capin, countVars, controlVars
    <3> QED
      BY <2>b, <3>1, <3>2, <3>3, <3>4, <3>5, <3>6, <3>7
         DEF GptNext, prc_gpt, prc_gpt_halted, gpt_write
  <2> QED BY <2>n, <2>m, <2>z, <2>b
<1>3. RestartInv => RestartBound
  BY DEF RestartInv, RestartBound
<1> QED BY <1>1, <1>2, <1>3, GptTypeCorrect, PTL DEF GptSpec
===============================================================================
