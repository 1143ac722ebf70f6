---------------------------- MODULE SdHost_proofs ----------------------------
(***************************************************************************)
(* The controller's status bits and its buffer, for every command sequence *)
(* and every size of line, block and buffer.                               *)
(***************************************************************************)
EXTENDS SdHost, SequenceTheorems, TLAPS

\* The inductive invariant: each part is kept with the help of the other, the
\* controller leaving its transfer state only with the status bits down.
HostInv == PresentState /\ IdleDrained

\* What the card does is of no consequence: a command of software touches the
\* controller only through its transfer bits.
LEMMA WritesKeep ==
  ASSUME HostInv, software
  PROVE  HostInv'
<1>1. ASSUME NEW c \in Cmds, NEW a \in Args, NEW data \in BOOLEAN,
             NEW multi \in BOOLEAN, NEW count \in BOOLEAN,
             esdhc_write_XFERTYP(c, a, data, multi, count)
      PROVE  HostInv'
  <2>1. CASE data
    BY <1>1, <2>1 DEF HostInv, PresentState, IdleDrained, esdhc_write_XFERTYP, beginTransfer
  <2>2. CASE ~data
    BY <1>1, <2>2 DEF HostInv, PresentState, IdleDrained, esdhc_write_XFERTYP
  <2> QED BY <2>1, <2>2
<1>2. ASSUME NEW n \in 0..(CntMod - 1), esdhc_write_BLKATTR(n)
      PROVE  HostInv'
  BY <1>2 DEF HostInv, PresentState, IdleDrained, esdhc_write_BLKATTR
<1>3. ASSUME NEW E \in EventWords,
             \/ esdhc_write_IRQSTAT(E) \/ esdhc_write_IRQSTATEN(E)
             \/ esdhc_write_IRQSIGEN(E) \/ esdhc_write_FEVT(E)
      PROVE  HostInv'
  BY <1>3 DEF HostInv, PresentState, IdleDrained, esdhc_write_IRQSTAT,
              esdhc_write_IRQSTATEN, esdhc_write_IRQSIGEN, esdhc_write_FEVT, xferVars
<1>4. ASSUME NEW n \in 0..ResetWml, esdhc_write_WML(n)
      PROVE  HostInv'
  BY <1>4 DEF HostInv, PresentState, IdleDrained, esdhc_write_WML, xferVars
<1>5. ASSUME NEW rsta \in BOOLEAN, NEW rstd \in BOOLEAN, esdhc_write_SYSCTL(rsta, rstd)
      PROVE  HostInv'
  <2>1. CASE rsta
    BY <1>5, <2>1 DEF HostInv, PresentState, IdleDrained, esdhc_write_SYSCTL
  <2>2. CASE ~rsta
    BY <1>5, <2>2 DEF HostInv, PresentState, IdleDrained, esdhc_write_SYSCTL
  <2> QED BY <2>1, <2>2
<1>6. ASSUME esdhc_read_DATPORT
      PROVE  HostInv'
  BY <1>6 DEF HostInv, PresentState, IdleDrained, esdhc_read_DATPORT
<1> QED BY <1>1, <1>2, <1>3, <1>4, <1>5, <1>6 DEF software

\* The controller's cycle gives up the data line exactly when it leaves the
\* transfer, and becomes idle only with an empty buffer.
LEMMA CycleKeeps ==
  ASSUME HostInv, prc_ESDHCV2
  PROVE  HostInv'
<1>1. hc_state # "IDLE" /\ ibuffer' = Buffer
  BY DEF prc_ESDHCV2
<1>2. CDIHB' = (CDIHB /\ ~LastBlock) /\ DLA' = (DLA /\ ~LastBlock)
  BY DEF prc_ESDHCV2
<1>3. CASE Completes
  <2>1. hc_state' = "IDLE" /\ Buffer = <<>>
    BY <1>3 DEF prc_ESDHCV2, Completes
  <2>2. LastBlock \/ hc_state = "HOST_READ_DONE"
    BY <1>3 DEF Completes
  <2>3. ~CDIHB' /\ ~DLA'
    BY <1>2, <2>2 DEF HostInv, PresentState
  <2> QED BY <1>1, <2>1, <2>3, <1>2 DEF HostInv, PresentState, IdleDrained
<1>4. CASE LastBlock /\ ~Completes
  <2>1. hc_state' = "HOST_READ_DONE"
    BY <1>4 DEF prc_ESDHCV2
  <2> QED BY <1>2, <1>4, <2>1 DEF HostInv, PresentState, IdleDrained
<1>5. CASE ~LastBlock /\ ~Completes
  <2>1. hc_state' = hc_state
    BY <1>5 DEF prc_ESDHCV2
  <2> QED BY <1>1, <1>2, <1>5, <2>1 DEF HostInv, PresentState, IdleDrained
<1> QED BY <1>3, <1>4, <1>5

\* Every step of software, card and controller keeps the invariant.
LEMMA HostInvInductive == HostSpec => []HostInv
<1>1. HostInit => HostInv
  BY DEF HostInit, EsdhcInit, HostInv, PresentState, IdleDrained
<1>2. HostInv /\ [HostNext]_hostVars => HostInv'
  <2> SUFFICES ASSUME HostInv, [HostNext]_hostVars PROVE HostInv'
    OBVIOUS
  <2>1. CASE software
    BY <2>1, WritesKeep
  <2>2. CASE UNCHANGED esdhcVars
    BY <2>2 DEF esdhcVars, xferVars, HostInv, PresentState, IdleDrained
  <2>3. CASE prc_ESDHCV2
    BY <2>3, CycleKeeps
  <2>4. CASE UNCHANGED hostVars
    BY <2>4 DEF hostVars, esdhcVars, xferVars, HostInv, PresentState, IdleDrained
  <2> QED BY <2>1, <2>2, <2>3, <2>4 DEF HostNext
<1> QED BY <1>1, <1>2, PTL DEF HostSpec

\* PRSSTAT shows a busy data line only while blocks are taken (update_state of
\* esdhcv2.cpp), whatever software does.
THEOREM PresentStateHolds == HostSpec => []PresentState
BY HostInvInductive, PTL DEF HostInv

\* The controller is idle only with a drained buffer (host_protocol of
\* esdhcv2.cpp), whatever software does.
THEOREM IdleDrainedHolds == HostSpec => []IdleDrained
BY HostInvInductive, PTL DEF HostInv

-----------------------------------------------------------------------------
(* Types of card and controller.                                           *)

\* The line buffer holds words after a memcpy of any length (sd.cpp:178).
LEMMA FillTypes ==
  ASSUME CardTypeOK, NEW len \in Nat, NEW F \in [0..(LineSize - 1) -> Int],
         data_line' = [i \in 1..LineSize |-> IF i <= len THEN F[i - 1] ELSE data_line[i]]
  PROVE  data_line' \in [1..LineSize -> Int]
<1>1. \A i \in 1..LineSize : i - 1 \in 0..(LineSize - 1)
  BY LengthAssumption
<1>2. \A i \in 1..LineSize : F[i - 1] \in Int /\ data_line[i] \in Int
  BY <1>1 DEF CardTypeOK
<1> QED BY <1>2

\* The lengths a block can have.
LEMMA BlockLengths ==
  ASSUME CardTypeOK
  PROVE  blocklen \in Nat /\ current_block \in Nat
BY LengthAssumption DEF CardTypeOK

\* What the host takes from the line is words (sd.cpp:190).
LEMMA LineWordsTypes ==
  ASSUME CardTypeOK
  PROVE  LineWords \in Seq(Int)
<1> DEFINE m == IF blocklen < LineSize THEN blocklen ELSE LineSize
<1>1. m \in Nat /\ m <= LineSize
  BY BlockLengths, LengthAssumption
<1>2. \A i \in 1..m : data_line[i] \in Int
  BY <1>1, LengthAssumption DEF CardTypeOK
<1>3. SubSeq(data_line, 1, m) \in Seq(Int)
  <2> HIDE DEF m
  <2> QED BY <1>1, <1>2, SubSeqProperties
<1> QED BY <1>3 DEF LineWords

\* The card's thread sends a block (sd.cpp:168).
LEMMA SendTypes ==
  ASSUME CardTypeOK, exec_state_data
  PROVE  CardTypeOK'
<1>1. data_line' \in [1..LineSize -> Int]
  <2> DEFINE F == [k \in 0..(LineSize - 1) |-> current_block * blocklen + k]
  <2>1. F \in [0..(LineSize - 1) -> Int]
    BY BlockLengths, LengthAssumption
  <2>2. \A i \in 1..LineSize : F[i - 1] = blockWord(i - 1)
    BY LengthAssumption DEF blockWord
  <2>3. data_line' = [i \in 1..LineSize |-> IF i <= blocklen THEN F[i - 1] ELSE data_line[i]]
    BY <2>2 DEF exec_state_data, Fill
  <2> HIDE DEF F
  <2> QED BY <2>1, <2>3, BlockLengths, FillTypes
<1>2. current_block' \in Nat /\ rca' \in RCAs
  BY BlockLengths DEF exec_state_data, nextBlock, CardTypeOK
<1> QED BY <1>1, <1>2 DEF exec_state_data, CardTypeOK, SdStates

\* A line filled with one word, as CMD6 and ACMD51 do (sd.cpp:365, sd.cpp:627).
LEMMA SendLineTypes ==
  ASSUME CardTypeOK, NEW len \in {SwitchLen, ScrLen}, NEW word \in Int, sendLine(len, word)
  PROVE  /\ data_line' \in [1..LineSize -> Int] /\ blocklen' = len /\ data_line_busy' = TRUE
         /\ UNCHANGED <<sd_state, single_block_p, current_block, rca>>
<1> DEFINE F == [k \in 0..(LineSize - 1) |-> word]
<1>1. F \in [0..(LineSize - 1) -> Int] /\ len \in Nat
  BY LengthAssumption
<1>2. data_line' = [i \in 1..LineSize |-> IF i <= len THEN F[i - 1] ELSE data_line[i]]
  BY LengthAssumption DEF sendLine, Fill
<1>3. data_line' \in [1..LineSize -> Int]
  <2> HIDE DEF F
  <2> QED BY <1>1, <1>2, FillTypes
<1> QED BY <1>3 DEF sendLine

\* Every command handler keeps the types, for any command and argument: the
\* length CMD16 accepts is bounded (sd.cpp:525), CMD17 and CMD18 take any block.
LEMMA CommandTypes ==
  ASSUME CardTypeOK, NEW cmd \in Nat, NEW arg \in Nat, exec_cmd(cmd, arg)
  PROVE  CardTypeOK'
<1>1. exited' \in BOOLEAN /\ application_specific_p' \in BOOLEAN
  BY DEF exec_cmd, Refused
<1> DEFINE Rest == /\ sd_state' \in SdStates /\ single_block_p' \in BOOLEAN
                   /\ blocklen' \in 0..BlockLenMax \cup {SwitchLen, ScrLen}
                   /\ current_block' \in Nat /\ data_line' \in [1..LineSize -> Int]
                   /\ data_line_busy' \in BOOLEAN /\ rca' \in RCAs
<1>2. ASSUME NEW s \in SdStates, toState(s) PROVE Rest
  BY <1>2 DEF toState, CardTypeOK
<1>3. sd_state \in SdStates
  BY DEF CardTypeOK
<1>4. noEffect => Rest
  BY <1>2, <1>3 DEF noEffect
<1>5. cmd0_handler => Rest
  BY DEF cmd0_handler, CardTypeOK, SdStates
<1>6. cmd2_handler \/ cmd12_handler \/ acmd41_handler \/ cmd7_handler(arg) => Rest
  BY <1>2, <1>3 DEF cmd2_handler, cmd12_handler, acmd41_handler, cmd7_handler, SdStates
<1>7. cmd3_handler => Rest
  BY <1>4 DEF cmd3_handler, CardTypeOK, SdStates, RCA, RCAs
<1>8. sendLine(ScrLen, SCR) \/ sendLine(SwitchLen, ZERO) => Rest
  <2>1. SCR \in Int /\ ZERO \in Int
    BY DEF SCR, ZERO
  <2>2. ASSUME NEW len \in {SwitchLen, ScrLen}, NEW word \in Int, sendLine(len, word) PROVE Rest
    BY <2>2, SendLineTypes DEF CardTypeOK
  <2> HIDE DEF Rest
  <2> QED BY <2>1, <2>2
<1>9. cmd16_handler(arg) => Rest
  BY LengthAssumption DEF cmd16_handler, CardTypeOK
<1>10. cmd17_handler(arg) \/ cmd18_handler(arg) => Rest
  BY <1>4 DEF cmd17_handler, cmd18_handler, startRead, CardTypeOK, SdStates
<1>11. Rest
  <2>1. \/ noEffect \/ cmd0_handler \/ cmd2_handler \/ cmd3_handler \/ cmd7_handler(arg)
        \/ cmd12_handler \/ cmd16_handler(arg) \/ cmd17_handler(arg) \/ cmd18_handler(arg)
        \/ acmd41_handler \/ sendLine(ScrLen, SCR) \/ sendLine(SwitchLen, ZERO)
    BY DEF exec_cmd
  <2> HIDE DEF Rest
  <2> QED BY <1>4, <1>5, <1>6, <1>7, <1>8, <1>9, <1>10, <2>1
<1> QED BY <1>1, <1>11 DEF CardTypeOK

\* The answers are among those listed.
LEMMA AnswerTypes ==
  ASSUME NEW cmd
  PROVE  Answer(cmd) \in Answers
BY DEF Answer, Answers

\* A cycle of the controller: BLKCNT, decremented before it is compared with
\* zero, wraps within its 16 bits (esdhcv2.cpp:122).
LEMMA CycleTypes ==
  ASSUME HostTypeOK, prc_ESDHCV2
  PROVE  HostTypeOK'
<1> USE DEF HostTypeOK
<1>1. Buffer \in Seq(Int)
  BY LineWordsTypes DEF Buffer, EsdhcTypeOK
<1>2. NextCount \in 0..(CntMod - 1)
  BY HostAssumption DEF NextCount, EsdhcTypeOK
<1>3. BLKCNT' \in 0..(CntMod - 1)
  BY <1>2 DEF prc_ESDHCV2, EsdhcTypeOK
<1>4. hc_state' \in HostStates
  BY DEF prc_ESDHCV2, EsdhcTypeOK, HostStates
<1>5. irqstat' \subseteq Events /\ irqstaten' \subseteq Events /\ irqsigen' \subseteq Events
  BY DEF prc_ESDHCV2, generate_signal, EsdhcTypeOK
<1>6. CDIHB' \in BOOLEAN /\ DLA' \in BOOLEAN /\ sdhc_line' \in BOOLEAN
  BY DEF prc_ESDHCV2, generate_signal
<1>7. EsdhcTypeOK'
  BY <1>1, <1>3, <1>4, <1>5, <1>6 DEF prc_ESDHCV2, EsdhcTypeOK
<1>8. CardTypeOK'
  <2>1. CASE Takes
    BY <2>1 DEF prc_ESDHCV2, CardTypeOK, SdStates
  <2>2. CASE ~Takes
    BY <2>2 DEF prc_ESDHCV2, CardTypeOK, cardVars
  <2> QED BY <2>1, <2>2
<1> QED BY <1>7, <1>8

\* The accesses of software keep the types.
LEMMA SoftwareTypes ==
  ASSUME HostTypeOK, software
  PROVE  HostTypeOK'
<1> USE DEF HostTypeOK
<1>1. ASSUME NEW c \in Cmds, NEW a \in Args, NEW data \in BOOLEAN,
             NEW multi \in BOOLEAN, NEW count \in BOOLEAN,
             esdhc_write_XFERTYP(c, a, data, multi, count)
      PROVE  HostTypeOK'
  <2>1. CardTypeOK'
    BY <1>1, CommandTypes, SoftwareAssumption DEF esdhc_write_XFERTYP
  <2>2. /\ hc_state' \in HostStates /\ CDIHB' \in BOOLEAN /\ DLA' \in BOOLEAN
    BY <1>1 DEF esdhc_write_XFERTYP, beginTransfer, EsdhcTypeOK, HostStates
  <2>3. /\ irqstat' \subseteq Events /\ irqstaten' \subseteq Events /\ irqsigen' \subseteq Events
        /\ sdhc_line' \in BOOLEAN
    BY <1>1 DEF esdhc_write_XFERTYP, generate_signal, EsdhcTypeOK
  <2>4. cmdrsp' \in Answers
    BY <1>1, AnswerTypes DEF esdhc_write_XFERTYP
  <2> QED BY <1>1, <2>1, <2>2, <2>3, <2>4 DEF esdhc_write_XFERTYP, EsdhcTypeOK
<1>2. UNCHANGED cardVars => CardTypeOK'
  BY DEF CardTypeOK, cardVars
<1>3. ASSUME NEW n \in 0..(CntMod - 1), esdhc_write_BLKATTR(n)
      PROVE  HostTypeOK'
  BY <1>2, <1>3 DEF esdhc_write_BLKATTR, EsdhcTypeOK, irqVars
<1>4. ASSUME NEW E \in EventWords,
             \/ esdhc_write_IRQSTAT(E) \/ esdhc_write_IRQSTATEN(E)
             \/ esdhc_write_IRQSIGEN(E) \/ esdhc_write_FEVT(E)
      PROVE  HostTypeOK'
  <2>1. E \subseteq Events
    BY SoftwareAssumption
  <2> QED BY <1>2, <1>4, <2>1 DEF esdhc_write_IRQSTAT, esdhc_write_IRQSTATEN,
                   esdhc_write_IRQSIGEN, esdhc_write_FEVT, EsdhcTypeOK, xferVars
<1>5. ASSUME NEW n \in 0..ResetWml, esdhc_write_WML(n)
      PROVE  HostTypeOK'
  BY <1>2, <1>5, HostAssumption DEF esdhc_write_WML, EsdhcTypeOK, xferVars, irqVars
<1>6. ASSUME NEW rsta \in BOOLEAN, NEW rstd \in BOOLEAN, esdhc_write_SYSCTL(rsta, rstd)
      PROVE  HostTypeOK'
  <2>1. CASE rsta
    BY <1>2, <1>6, <2>1, HostAssumption DEF esdhc_write_SYSCTL, EsdhcTypeOK, Answers
  <2>2. CASE ~rsta
    BY <1>2, <1>6, <2>2 DEF esdhc_write_SYSCTL, EsdhcTypeOK
  <2> QED BY <2>1, <2>2
<1>7. ASSUME esdhc_read_DATPORT PROVE HostTypeOK'
  <2>1. ibuffer' \in Seq(Int)
    BY <1>7 DEF esdhc_read_DATPORT, EsdhcTypeOK
  <2> QED BY <1>2, <1>7, <2>1 DEF esdhc_read_DATPORT, EsdhcTypeOK, irqVars
<1> QED BY <1>1, <1>3, <1>4, <1>5, <1>6, <1>7 DEF software

\* Card and controller keep their types under any software.
THEOREM HostTypeCorrect == HostSpec => []HostTypeOK
<1>1. HostInit => HostTypeOK
  <2> SUFFICES ASSUME HostInit PROVE HostTypeOK
    OBVIOUS
  <2>1. CardTypeOK
    <3>1. data_line \in [1..LineSize -> Int]
      BY DEF HostInit, CardInit, JUNK
    <3>2. sd_state \in SdStates /\ rca \in RCAs /\ current_block \in Nat /\ blocklen \in 0..BlockLenMax
      BY DEF HostInit, CardInit, SdStates, RCAs
    <3>3. /\ single_block_p \in BOOLEAN /\ application_specific_p \in BOOLEAN
          /\ data_line_busy \in BOOLEAN /\ exited \in BOOLEAN
      BY DEF HostInit, CardInit
    <3> QED BY <3>1, <3>2, <3>3 DEF CardTypeOK
  <2>2. EsdhcTypeOK
    <3>1. ibuffer \in Seq(Int) /\ hc_state \in HostStates /\ cmdrsp \in Answers
      BY DEF HostInit, EsdhcInit, HostStates, Answers
    <3> QED BY <3>1, HostAssumption DEF HostInit, EsdhcInit, EsdhcTypeOK
  <2> QED BY <2>1, <2>2 DEF HostTypeOK
<1>2. HostTypeOK /\ [HostNext]_hostVars => HostTypeOK'
  <2> SUFFICES ASSUME HostTypeOK, [HostNext]_hostVars PROVE HostTypeOK'
    OBVIOUS
  <2>1. CASE software
    BY <2>1, SoftwareTypes
  <2>2. UNCHANGED esdhcVars => EsdhcTypeOK'
    BY DEF HostTypeOK, EsdhcTypeOK, esdhcVars, xferVars, irqVars
  <2>3. CASE exec_state_data /\ UNCHANGED esdhcVars
    BY <2>2, <2>3, SendTypes DEF HostTypeOK
  <2>4. CASE prc_ESDHCV2
    BY <2>4, CycleTypes
  <2>5. CASE UNCHANGED hostVars
    BY <2>2, <2>5 DEF hostVars, HostTypeOK, CardTypeOK, cardVars
  <2> QED BY <2>1, <2>3, <2>4, <2>5 DEF HostNext
<1> QED BY <1>1, <1>2, PTL DEF HostSpec
==============================================================================
