--------------------------- MODULE SdBoot_proofs ---------------------------
(***************************************************************************)
(* The boot code's reads deliver the blocks of the card, for every         *)
(* sequence of calls and every size of block, line and watermark, provided *)
(* that the batch of the core does not end between a multiple block        *)
(* command and the read of BLKATTR, and that no call asks for no block.    *)
(***************************************************************************)
EXTENDS SdBoot, SequenceTheorems, TLAPS

Provided == ~Racy /\ \A k \in 1..Len(Reads) : Reads[k].n > 0

\* the command of the stage has been executed by the card
Executed == pc \in {"sigen", "complete", "blkcnt", "brr", "word", "irqstat", "ack", "finish"}
Reading == stage = "read" /\ Executed

BeforeReads == stage \in {"reset", "mmcboot", "cmd0", "cmd8", "cmd55", "acmd41", "cmd2", "cmd3", "cmd7"}

\* Where the driver can be: it never hangs in its tests of an answer.
Places ==
  /\ stage \in {"reset", "mmcboot", "cmd0", "cmd8", "cmd55", "acmd41", "cmd2", "cmd3",
                "cmd7", "attr", "cmd16", "read", "booted"}
  /\ pc \in {"none", "clear", "enable", "idle", "wml", "xfertyp", "sigen", "complete",
             "blkcnt", "brr", "word", "irqstat", "ack", "finish"}
  /\ stage \in {"reset", "mmcboot", "attr", "booted"} <=> pc = "none"
  /\ pc \in {"wml", "blkcnt", "brr", "word", "irqstat", "ack"} => stage = "read"
  /\ returned \in 0..Len(Reads)
  /\ stage \in {"attr", "cmd16", "read"} => returned < Len(Reads)

\* The registers of the controller that the driver looks at.
Registers ==
  /\ irqstat \subseteq Events /\ irqstaten \subseteq Events /\ seen \subseteq Events
  /\ pc = "ack" => "BRR" \in seen
  /\ hc_state \in HostStates
  /\ stage \in {"reset", "mmcboot"} => hc_state = "IDLE"
  /\ hc_state # "IDLE" => RD_WML = DriverWml
  /\ stage = "read" /\ (pc = "xfertyp" \/ Executed) => RD_WML = DriverWml
  /\ stage \in {"cmd16", "read"} => BLKCNT_BKP = Call.n
  /\ stage \in {"cmd16", "read"} /\ ~Reading => BLKCNT = Call.n

\* The card is in the state that each command needs, and knows it.
CardReady ==
  /\ ~exited
  /\ application_specific_p <=> (stage = "cmd55" /\ Executed) \/ (stage = "acmd41" /\ ~Executed)
  /\ stage \in {"reset", "mmcboot", "cmd0", "cmd8", "cmd55"} => sd_state = "IDLE"
  /\ stage = "acmd41" => sd_state = IF Executed THEN "READY" ELSE "IDLE"
  /\ stage = "cmd2" => sd_state = IF Executed THEN "IDENT" ELSE "READY"
  /\ stage = "cmd3" => sd_state = IF Executed THEN "STBY" ELSE "IDENT"
  /\ stage = "cmd7" => sd_state = IF Executed THEN "TRAN" ELSE "STBY"
  /\ ~BeforeReads /\ ~Reading => sd_state = "TRAN"
  /\ stage = "cmd8" /\ Executed => cmdrsp = "IF_COND"
  /\ stage = "acmd41" /\ Executed => cmdrsp = "OCR"
  /\ stage = "cmd3" /\ Executed => cmdrsp = "RCA" /\ rca = RCA
  /\ stage = "cmd7" => rca = RCA /\ host_rca = RCA
  /\ stage = "read" \/ (stage = "cmd16" /\ Executed) => blocklen = BlockWords

\* Outside a transfer nothing of an earlier one is left.
Quiet ==
  ~Reading => /\ ibuffer = <<>> /\ mem = <<>> /\ ~data_line_busy /\ ~CDIHB /\ ~DLA
              /\ hc_state # "HOST_READ_TRANSFER"

\* BRR announces words that are there until the driver has fetched a block.
Fresh ==
  stage = "read" /\ pc \in {"enable", "idle", "wml", "xfertyp", "sigen", "complete", "blkcnt", "brr"}
  /\ "BRR" \in irqstat => ibuffer # <<>>

\* The blocks of the current call that the controller has taken.
Taken == current_block - Call.start - (IF data_line_busy THEN 1 ELSE 0)

\* Who has how much of the current call: card and controller.
Transfer ==
  Reading =>
    /\ Taken \in 0..Call.n /\ current_block \in Nat
    /\ MSBSEL = (Call.n # 1) /\ BCEN = (Call.n # 1) /\ single_block_p = (Call.n = 1)
    /\ Taken < Call.n => /\ hc_state = "HOST_READ_TRANSFER"
                         /\ BLKCNT = Call.n - (IF Call.n = 1 THEN 0 ELSE Taken)
                         /\ sd_state = IF Call.n = 1 /\ data_line_busy THEN "TRAN" ELSE "DATA"
    /\ Taken = Call.n => /\ hc_state # "HOST_READ_TRANSFER" /\ ~CDIHB /\ ~DLA /\ BLKCNT = Call.n
                         /\ sd_state = "TRAN" /\ ~data_line_busy
    /\ Call.n # 1 /\ pc \in {"sigen", "complete", "blkcnt"} => Taken = 0

\* The words on their way: the line, the buffer, the memory.
Words ==
  Reading =>
    /\ mem \in Seq(Int) /\ ibuffer \in Seq(Int)
    /\ Len(mem) + Len(ibuffer) = Taken * BlockWords
    /\ \A i \in 1..Len(ibuffer) : ibuffer[i] = Call.start * BlockWords + Len(mem) + i - 1
    /\ data_line_busy =>
         \A i \in 1..BlockWords : data_line[i] = (Call.start + Taken) * BlockWords + i - 1

\* Where the driver is in its loop over blocks and words.
Loop ==
  /\ stage = "read" /\ pc \in {"sigen", "complete", "blkcnt"} => mem = <<>>
  /\ pc \in {"brr", "word", "irqstat", "ack"} => cnt = Call.n /\ blk \in 0..Call.n
  /\ pc = "brr" => Len(mem) = blk * BlockWords
  /\ pc = "word" => /\ Len(mem) = blk * BlockWords + wrd /\ wrd \in 0..(BlockWords - 1)
                    /\ blk < Taken
  /\ pc \in {"irqstat", "ack"} => Len(mem) = (blk + 1) * BlockWords /\ blk < Call.n
  /\ stage = "read" /\ pc = "finish" => Len(mem) = Call.n * BlockWords

BootInv == Places /\ Registers /\ CardReady /\ Quiet /\ Fresh /\ Transfer /\ Words /\ Loop

-----------------------------------------------------------------------------
(* Sizes.                                                                  *)

\* The block length fits the line and the limit of CMD16, and the watermark
\* asks for one word at least.
LEMMA Sizes ==
  /\ BlockWords \in Nat /\ BlockWords > 0 /\ BlockWords <= LineSize /\ BlockWords <= BlockLenMax
  /\ LineSize \in Nat /\ BlockLenMax \in Nat
  /\ DriverWml \in Nat /\ DriverWml > 0 /\ DriverWml <= BlockWords
  /\ CntMod \in Nat /\ Len(Reads) \in Nat
BY BootAssumption, LengthAssumption, HostAssumption

\* The parameters of the current call of sd_read.
LEMMA CallTypes ==
  ASSUME Provided, Places, stage \in {"attr", "cmd16", "read"}
  PROVE  /\ Call.start \in Nat /\ Call.n \in Nat /\ Call.n > 0 /\ Call.n < CntMod
         /\ returned \in Nat /\ returned < Len(Reads)
<1>1. returned \in Nat /\ returned < Len(Reads) /\ returned + 1 \in 1..Len(Reads)
  BY Sizes DEF Places
<1>2. Reads[returned + 1] \in [start : Nat, n : 0..(CntMod - 1)]
  <2>1. Reads \in Seq([start : Nat, n : 0..(CntMod - 1)])
    BY BootAssumption
  <2> QED BY <1>1, <2>1, ElementOfSeq
<1>3. Reads[returned + 1].n > 0
  BY <1>1 DEF Provided
<1> QED BY <1>1, <1>2, <1>3, Sizes DEF Call

\* Blocks and words.
LEMMA BlocksAndWords ==
  ASSUME NEW a \in Nat, NEW b \in Nat, NEW B \in Nat, B > 0
  PROVE  /\ a * B \in Nat /\ (a + 1) * B = a * B + B /\ (a + b) * B = a * B + b * B
         /\ a < b => a * B + B <= b * B
         /\ a <= b => a * B <= b * B
         /\ a * B < b * B => a < b
<1>1. /\ a * B \in Nat /\ b * B \in Nat /\ (a + 1) * B = a * B + B
      /\ (a + b) * B = a * B + b * B
  OBVIOUS
<1>2. ASSUME NEW c \in Nat, NEW d \in Nat, c <= d PROVE c * B <= d * B
  <2>1. d - c \in Nat /\ d = c + (d - c)
    BY <1>2
  <2>2. (d - c) * B \in Nat /\ d * B = c * B + (d - c) * B
    BY <2>1
  <2>3. c * B \in Nat /\ d * B \in Nat
    OBVIOUS
  <2> QED BY <2>2, <2>3
<1>3. a < b => (a + 1) * B <= b * B
  BY <1>2
<1>4. b <= a => b * B <= a * B
  BY <1>2
<1> QED BY <1>1, <1>2, <1>3, <1>4

-----------------------------------------------------------------------------
(* The steps of the core.                                                  *)

\* Power on.
LEMMA BootInitHolds ==
  BootInit => BootInv
<1> SUFFICES ASSUME BootInit PROVE BootInv
  OBVIOUS
<1> USE DEF BootInit, CardInit, EsdhcInit
<1>1. Places
  BY Sizes DEF Places
<1>2. Registers
  BY DEF Registers, HostStates, Reading, Executed
<1>3. CardReady
  BY DEF CardReady, BeforeReads, Reading, Executed
<1>4. Quiet /\ Fresh /\ Transfer /\ Words /\ Loop
  BY DEF Quiet, Fresh, Transfer, Words, Loop, Reading
<1> QED BY <1>1, <1>2, <1>3, <1>4 DEF BootInv

\* A step of the core that changes neither card nor transfer keeps what is
\* known of them.
LEMMA DriverFrame ==
  ASSUME BootInv,
         UNCHANGED <<cardVars, xferVars, cmdrsp, host_rca, stage, returned, mem>>,
         Executed' <=> Executed,
         pc' \in {"sigen", "complete", "blkcnt"} => pc \in {"sigen", "complete", "blkcnt"}
  PROVE  CardReady' /\ Quiet' /\ Transfer' /\ Words' /\ Call' = Call /\ Taken' = Taken
                    /\ (Reading' <=> Reading)
<1> USE DEF BootInv, cardVars, xferVars
<1>1. Call' = Call /\ (Reading' <=> Reading)
  BY DEF Call, Reading
<1>2. Taken' = Taken
  BY <1>1 DEF Taken
<1>3. CardReady'
  BY <1>1 DEF CardReady, BeforeReads
<1>4. Quiet'
  BY <1>1 DEF Quiet
<1>5. Transfer'
  BY <1>1, <1>2 DEF Transfer
<1>6. Words'
  BY <1>1, <1>2 DEF Words
<1> QED BY <1>1, <1>2, <1>3, <1>4, <1>5, <1>6

\* The accesses before the command, and those that wait for its end.
LEMMA SendKeeps ==
  ASSUME BootInv, \/ send_clear \/ send_enable \/ send_wait_idle \/ send_wml
                  \/ send_mask_irqs \/ send_wait_complete
  PROVE  BootInv'
<1> USE DEF BootInv
<1>1. /\ UNCHANGED <<cardVars, xferVars, cmdrsp, host_rca, stage, returned, mem, blk, cnt, wrd, seen>>
      /\ \/ pc = "clear" /\ pc' = "enable"
         \/ pc = "enable" /\ pc' = "idle"
         \/ pc = "idle" /\ pc' = IF stage = "read" THEN "wml" ELSE "xfertyp"
         \/ pc = "wml" /\ pc' = "xfertyp" /\ RD_WML' = DriverWml
         \/ pc = "sigen" /\ pc' = "complete"
         \/ pc = "complete" /\ pc' = IF stage = "read" THEN "blkcnt" ELSE "finish"
      /\ pc # "wml" => RD_WML' = RD_WML
      /\ irqstat' = irqstat \/ irqstat' = irqstat \ Events
      /\ pc = "clear" => irqstat' = irqstat \ Events
      /\ irqstaten' \subseteq irqstaten \cup Events
  BY DEF send_clear, send_enable, send_wait_idle, send_wml, send_mask_irqs, send_wait_complete,
         esdhc_write_IRQSTAT, esdhc_write_IRQSTATEN, esdhc_write_WML, esdhc_write_IRQSIGEN,
         at, step, DataStage, irqVars, esdhcVars
<1>2. Executed' <=> Executed
  BY <1>1 DEF Executed
<1>3. /\ CardReady' /\ Quiet' /\ Transfer' /\ Words' /\ Call' = Call /\ Taken' = Taken
      /\ (Reading' <=> Reading)
  BY <1>1, <1>2, DriverFrame
<1>4. Places'
  BY <1>1 DEF Places
<1>5. Registers'
  BY <1>1, <1>2, <1>3 DEF Registers, xferVars
<1>6. Fresh'
  BY <1>1 DEF Fresh, Registers, xferVars
<1>7. Loop'
  BY <1>1, <1>3 DEF Loop, Quiet, Reading, Executed
<1> QED BY <1>3, <1>4, <1>5, <1>6, <1>7

\* configure_esdhc and the block attributes of a call.
LEMMA SetupKeeps ==
  ASSUME Provided, BootInv, configure_esdhc \/ esdhc_set_block_attr
  PROVE  BootInv'
<1> USE DEF BootInv
<1>1. /\ UNCHANGED <<cardVars, hc_state, ibuffer, host_rca, returned, mem, seen>>
      /\ irqstat' \subseteq Events /\ irqstaten' \subseteq Events
      /\ pc = "none" /\ ~CDIHB' /\ ~DLA'
      /\ \/ stage = "reset" /\ stage' = "mmcboot" /\ pc' = "none"
         \/ stage = "mmcboot" /\ stage' = "cmd0" /\ pc' = "clear"
         \/ /\ stage = "attr" /\ stage' = "cmd16" /\ pc' = "clear" /\ RD_WML' = RD_WML
            /\ BLKCNT' = Call.n /\ BLKCNT_BKP' = Call.n
  <2> ~Reading /\ irqstat \subseteq Events /\ irqstaten \subseteq Events /\ pc = "none" /\ ~CDIHB /\ ~DLA
    <3>1. pc = "none"
      BY DEF configure_esdhc, esdhc_set_block_attr, Places
    <3>2. ~Reading
      BY <3>1 DEF Reading, Executed
    <3> QED BY <3>1, <3>2 DEF Quiet, Registers
  <2>1. CASE configure_esdhc
    BY <2>1 DEF configure_esdhc, esdhc_write_SYSCTL, esdhc_write_BLKATTR, goto, irqVars
  <2>2. CASE esdhc_set_block_attr
    BY <2>2 DEF esdhc_set_block_attr, esdhc_write_BLKATTR, goto, irqVars
  <2> QED BY <2>1, <2>2
<1>2. ~Executed /\ ~Executed' /\ ~Reading /\ ~Reading'
  BY <1>1 DEF Reading, Executed
<1>3. Call' = Call
  BY <1>1 DEF Call
<1>4. Places'
  BY <1>1 DEF Places
<1>5. Registers'
  BY <1>1, <1>2, <1>3 DEF Registers
<1>6. CardReady'
  BY <1>1, <1>2 DEF CardReady, BeforeReads, cardVars
<1>7. Quiet'
  BY <1>1, <1>2 DEF Quiet, cardVars
<1>8. Fresh' /\ Transfer' /\ Words' /\ Loop'
  BY <1>1, <1>2 DEF Fresh, Transfer, Words, Loop
<1> QED BY <1>4, <1>5, <1>6, <1>7, <1>8

\* What the command of each stage does to the card: it is known in the card's
\* state and mode, and answered as the driver expects.
LEMMA CommandEffect ==
  ASSUME Provided, BootInv, send_xfertyp
  PROVE  /\ pc = "xfertyp" /\ pc' = "sigen" /\ ~exited' /\ ~data_line_busy'
         /\ stage \in {"cmd0", "cmd8", "cmd55", "acmd41", "cmd2", "cmd3", "cmd7", "cmd16", "read"}
         /\ application_specific_p' <=> stage = "cmd55"
         /\ stage \in {"cmd0", "cmd8", "cmd55"} => sd_state' = "IDLE"
         /\ stage = "acmd41" => sd_state' = "READY" /\ cmdrsp' = "OCR"
         /\ stage = "cmd8" => cmdrsp' = "IF_COND"
         /\ stage = "cmd2" => sd_state' = "IDENT"
         /\ stage = "cmd3" => sd_state' = "STBY" /\ rca' = RCA /\ cmdrsp' = "RCA"
         /\ stage = "cmd7" => sd_state' = "TRAN" /\ rca' = rca
         /\ stage = "cmd16" => sd_state' = "TRAN" /\ blocklen' = BlockWords
         /\ stage = "read" => /\ sd_state' = "DATA" /\ blocklen' = blocklen
                              /\ current_block' = Call.start /\ single_block_p' = (Call.n = 1)
<1> USE DEF BootInv
<1>1. pc = "xfertyp" /\ pc' = "sigen" /\ ~Executed /\ ~Reading /\ ~data_line_busy
  BY DEF send_xfertyp, at, step, Executed, Reading, Quiet
<1>2. exec_cmd(Command[1], Command[2]) /\ cmdrsp' = Answer(Command[1])
  BY DEF send_xfertyp, esdhc_write_XFERTYP
<1>3. stage \in {"cmd0", "cmd8", "cmd55", "acmd41", "cmd2", "cmd3", "cmd7", "cmd16", "read"}
  BY <1>1 DEF Places
<1>4. application_specific_p <=> stage = "acmd41"
  BY <1>1 DEF CardReady
<1>5. CASE stage = "cmd0"
  <2>1. Command[1] = 0 /\ Command[2] = 0 /\ sd_state = "IDLE"
    BY <1>1, <1>5 DEF Command, CardReady, BeforeReads
  <2>2. exec_cmd(0, 0) /\ cmdrsp' = Answer(0)
    BY <1>2, <2>1
  <2>3. ~Refused(0, 0)
    BY <2>1, <1>4, <1>5 DEF Refused
  <2>4. cmd0_handler /\ ~exited' /\ (application_specific_p' <=> stage = "cmd55")
    BY <2>1, <2>2, <2>3, <1>4, <1>5 DEF exec_cmd
  <2> QED BY <1>1, <1>5, <2>1, <2>4 DEF cmd0_handler
<1>6. CASE stage = "cmd8"
  <2>1. Command[1] = 8 /\ Command[2] = 0 /\ sd_state = "IDLE"
    BY <1>1, <1>6 DEF Command, CardReady, BeforeReads
  <2>2. exec_cmd(8, 0) /\ cmdrsp' = Answer(8)
    BY <1>2, <2>1
  <2>3. ~Refused(8, 0)
    BY <2>1, <1>4, <1>6 DEF Refused
  <2>4. noEffect /\ ~exited' /\ (application_specific_p' <=> stage = "cmd55")
    BY <2>1, <2>2, <2>3, <1>4, <1>6 DEF exec_cmd
  <2>5. cmdrsp' = "IF_COND"
    BY <2>1, <2>2, <1>4, <1>6 DEF Answer
  <2> QED BY <1>1, <1>6, <2>1, <2>4, <2>5 DEF noEffect, toState
<1>7. CASE stage = "cmd55"
  <2>1. Command[1] = 55 /\ Command[2] = 0 /\ sd_state = "IDLE"
    BY <1>1, <1>7 DEF Command, CardReady, BeforeReads
  <2>2. exec_cmd(55, 0) /\ cmdrsp' = Answer(55)
    BY <1>2, <2>1
  <2>3. ~Refused(55, 0)
    BY <2>1, <1>4, <1>7 DEF Refused
  <2>4. noEffect /\ ~exited' /\ (application_specific_p' <=> stage = "cmd55")
    BY <2>1, <2>2, <2>3, <1>4, <1>7 DEF exec_cmd
  <2> QED BY <1>1, <1>7, <2>1, <2>4 DEF noEffect, toState
<1>8. CASE stage = "acmd41"
  <2>1. Command[1] = 41 /\ Command[2] = 0 /\ sd_state = "IDLE"
    BY <1>1, <1>8 DEF Command, CardReady, BeforeReads
  <2>2. exec_cmd(41, 0) /\ cmdrsp' = Answer(41)
    BY <1>2, <2>1
  <2>3. ~Refused(41, 0)
    BY <2>1, <1>4, <1>8 DEF Refused
  <2>4. acmd41_handler /\ ~exited' /\ (application_specific_p' <=> stage = "cmd55")
    BY <2>1, <2>2, <2>3, <1>4, <1>8 DEF exec_cmd
  <2>5. cmdrsp' = "OCR"
    BY <2>1, <2>2, <1>4, <1>8 DEF Answer
  <2> QED BY <1>1, <1>8, <2>1, <2>4, <2>5 DEF acmd41_handler, toState
<1>9. CASE stage = "cmd2"
  <2>1. Command[1] = 2 /\ Command[2] = 0 /\ sd_state = "READY"
    BY <1>1, <1>9 DEF Command, CardReady, BeforeReads
  <2>2. exec_cmd(2, 0) /\ cmdrsp' = Answer(2)
    BY <1>2, <2>1
  <2>3. ~Refused(2, 0)
    BY <2>1, <1>4, <1>9 DEF Refused
  <2>4. cmd2_handler /\ ~exited' /\ (application_specific_p' <=> stage = "cmd55")
    BY <2>1, <2>2, <2>3, <1>4, <1>9 DEF exec_cmd
  <2> QED BY <1>1, <1>9, <2>1, <2>4 DEF cmd2_handler, toState
<1>10. CASE stage = "cmd3"
  <2>1. Command[1] = 3 /\ Command[2] = 0 /\ sd_state = "IDENT"
    BY <1>1, <1>10 DEF Command, CardReady, BeforeReads
  <2>2. exec_cmd(3, 0) /\ cmdrsp' = Answer(3)
    BY <1>2, <2>1
  <2>3. ~Refused(3, 0)
    BY <2>1, <1>4, <1>10 DEF Refused
  <2>4. cmd3_handler /\ ~exited' /\ (application_specific_p' <=> stage = "cmd55")
    BY <2>1, <2>2, <2>3, <1>4, <1>10 DEF exec_cmd
  <2>5. cmdrsp' = "RCA"
    BY <2>1, <2>2, <1>4, <1>10 DEF Answer
  <2> QED BY <1>1, <1>10, <2>1, <2>4, <2>5 DEF cmd3_handler
<1>11. CASE stage = "cmd7"
  <2>1. Command[1] = 7 /\ Command[2] = RCA /\ sd_state = "STBY"
    BY <1>1, <1>11 DEF Command, CardReady, BeforeReads
  <2>2. exec_cmd(7, RCA) /\ cmdrsp' = Answer(7)
    BY <1>2, <2>1
  <2>3. ~Refused(7, RCA)
    BY <2>1, <1>4, <1>11 DEF Refused
  <2>4. cmd7_handler(RCA) /\ ~exited' /\ (application_specific_p' <=> stage = "cmd55")
    BY <2>1, <2>2, <2>3, <1>4, <1>11 DEF exec_cmd
  <2>5. rca = RCA
    BY <1>11 DEF CardReady
  <2> QED BY <1>1, <1>11, <2>1, <2>4, <2>5 DEF cmd7_handler, toState, RCA
<1>12. CASE stage = "cmd16"
  <2>1. Command[1] = 16 /\ Command[2] = BlockWords /\ sd_state = "TRAN"
    BY <1>1, <1>12 DEF Command, CardReady, BeforeReads
  <2>2. exec_cmd(16, BlockWords) /\ cmdrsp' = Answer(16)
    BY <1>2, <2>1
  <2>3. ~Refused(16, BlockWords)
    BY <2>1, <1>4, <1>12, Sizes DEF Refused
  <2>4. cmd16_handler(BlockWords) /\ ~exited' /\ (application_specific_p' <=> stage = "cmd55")
    BY <2>1, <2>2, <2>3, <1>4, <1>12 DEF exec_cmd
  <2> QED BY <1>1, <1>12, <2>1, <2>4, Sizes DEF cmd16_handler
<1>13. CASE stage = "read"
  <2>1. sd_state = "TRAN" /\ Command[1] = (IF Call.n # 1 THEN 18 ELSE 17) /\ Command[2] = Call.start
    BY <1>1, <1>13 DEF Command, CardReady, BeforeReads, Multi
  <2>2. CASE Call.n = 1
    <3>1. exec_cmd(17, Call.start)
      BY <1>2, <2>1, <2>2
    <3>2. ~Refused(17, Call.start)
      BY <1>4, <1>13 DEF Refused
    <3>3. cmd17_handler(Call.start) /\ ~exited' /\ ~application_specific_p'
      BY <3>1, <3>2, <1>4, <1>13 DEF exec_cmd
    <3> QED BY <1>1, <1>13, <2>1, <2>2, <3>3 DEF cmd17_handler, startRead
  <2>3. CASE Call.n # 1
    <3>1. exec_cmd(18, Call.start)
      BY <1>2, <2>1, <2>3
    <3>2. ~Refused(18, Call.start)
      BY <1>4, <1>13 DEF Refused
    <3>3. cmd18_handler(Call.start) /\ ~exited' /\ ~application_specific_p'
      BY <3>1, <3>2, <1>4, <1>13 DEF exec_cmd
    <3> QED BY <1>1, <1>13, <2>1, <2>3, <3>3 DEF cmd18_handler, startRead
  <2> QED BY <2>2, <2>3
<1> QED BY <1>3, <1>5, <1>6, <1>7, <1>8, <1>9, <1>10, <1>11, <1>12, <1>13

\* The write of XFERTYP: the command is executed, and a read begins with no
\* word anywhere.
LEMMA XferKeeps ==
  ASSUME Provided, BootInv, send_xfertyp
  PROVE  BootInv'
<1> USE DEF BootInv
<1>1. /\ pc = "xfertyp" /\ pc' = "sigen" /\ ~exited' /\ ~data_line_busy'
      /\ stage \in {"cmd0", "cmd8", "cmd55", "acmd41", "cmd2", "cmd3", "cmd7", "cmd16", "read"}
  BY CommandEffect
<1>2. /\ UNCHANGED <<stage, host_rca, returned, blk, cnt, wrd, seen, mem, ibuffer, BLKCNT,
                     BLKCNT_BKP, RD_WML, irqstaten>>
      /\ irqstat' \subseteq irqstat \cup {"CC"}
      /\ stage # "read" => UNCHANGED <<hc_state, CDIHB, DLA>>
      /\ stage = "read" => hc_state' = "HOST_READ_TRANSFER"
      /\ stage = "read" => MSBSEL' = (BLKCNT # 1) /\ BCEN' = (BLKCNT # 1)
  BY DEF send_xfertyp, step, DataStage, esdhc_write_XFERTYP, generate_signal, beginTransfer
<1>3. ~Executed /\ Executed' /\ ~Reading /\ (Reading' <=> stage = "read") /\ Call' = Call
  BY <1>1, <1>2 DEF Executed, Reading, Call
<1>4. ibuffer = <<>> /\ mem = <<>> /\ (stage = "read" => BLKCNT = Call.n)
  BY <1>3 DEF Quiet, Registers
<1>5. Places'
  BY <1>1, <1>2 DEF Places
<1>6. Registers'
  BY <1>1, <1>2, <1>3 DEF Registers, HostStates, Events
<1>7. CardReady'
  BY <1>1, <1>2, <1>3, CommandEffect DEF CardReady, BeforeReads
<1>8. Quiet'
  BY <1>1, <1>2, <1>3 DEF Quiet
<1>9. Fresh'
  BY <1>1, <1>2 DEF Fresh
<1>10. stage = "read" => /\ current_block' = Call.start /\ single_block_p' = (Call.n = 1)
                         /\ sd_state' = "DATA" /\ Taken' = 0
                         /\ Call.start \in Nat /\ Call.n \in Nat /\ Call.n > 0
  BY <1>1, <1>3, CommandEffect, CallTypes DEF Taken
<1>11. Transfer'
  BY <1>1, <1>2, <1>3, <1>4, <1>10 DEF Transfer
<1>12. Words'
  BY <1>1, <1>2, <1>3, <1>4, <1>10, Sizes DEF Words
<1>13. Loop'
  BY <1>1, <1>2, <1>4 DEF Loop
<1> QED BY <1>5, <1>6, <1>7, <1>8, <1>9, <1>11, <1>12, <1>13

\* The loop bound is read while BLKATTR still holds the count of the call; BRR
\* is waited for, read and acknowledged.
LEMMA FetchKeeps ==
  ASSUME Provided, BootInv, fetch_count \/ fetch_wait_brr \/ fetch_read_irqstat \/ fetch_ack
  PROVE  BootInv'
<1> USE DEF BootInv
<1>1. /\ UNCHANGED <<cardVars, xferVars, cmdrsp, host_rca, stage, returned, mem, RD_WML, irqstaten>>
      /\ irqstat' \subseteq irqstat
      /\ \/ pc = "blkcnt" /\ pc' = "brr" /\ blk' = 0 /\ cnt' = BLKCNT /\ seen' = seen
         \/ pc = "brr" /\ pc' = "finish" /\ blk >= cnt /\ UNCHANGED <<blk, cnt, seen>>
         \/ /\ pc = "brr" /\ pc' = "word" /\ blk < cnt /\ "BRR" \in irqstat
            /\ wrd' = 0 /\ UNCHANGED <<blk, cnt, seen>>
         \/ /\ pc = "irqstat" /\ pc' = "ack" /\ seen' = irqstat \cup {"BRR"}
            /\ UNCHANGED <<blk, cnt, irqstat>>
         \/ /\ pc = "ack" /\ pc' = "brr" /\ blk' = blk + 1 /\ irqstat' = irqstat \ seen
            /\ UNCHANGED <<cnt, seen>>
  BY DEF fetch_count, fetch_wait_brr, fetch_read_irqstat, fetch_ack, at, step,
         esdhc_write_IRQSTAT, esdhcVars, irqVars
<1>2. Executed /\ Executed' /\ stage = "read" /\ Reading
  BY <1>1 DEF Executed, Reading, Places
<1>3. /\ CardReady' /\ Quiet' /\ Transfer' /\ Words' /\ Call' = Call /\ Taken' = Taken
      /\ (Reading' <=> Reading)
  BY <1>1, <1>2, DriverFrame
<1>4. /\ Call.n \in Nat /\ Call.n > 0 /\ Taken \in 0..Call.n /\ Len(mem) \in Nat
      /\ Len(ibuffer) \in Nat /\ Len(mem) + Len(ibuffer) = Taken * BlockWords
      /\ ibuffer # <<>> => Len(ibuffer) > 0
  BY <1>2, CallTypes DEF Transfer, Words
<1>5. Places'
  BY <1>1, <1>2 DEF Places
<1>6. Registers'
  BY <1>1, <1>2, <1>3 DEF Registers, xferVars, Events
<1>7. Fresh'
  BY <1>1, <1>2 DEF Fresh, Registers, xferVars
<1>8. Loop'
  <2>1. CASE pc = "blkcnt"
    <3>1. BLKCNT = Call.n /\ mem = <<>>
      BY <1>2, <1>4, <2>1 DEF Transfer, Loop
    <3> QED BY <1>1, <1>2, <1>3, <1>4, <2>1, <3>1, Sizes DEF Loop
  <2>2. CASE pc = "brr" /\ pc' = "finish"
    <3>1. blk = Call.n /\ Len(mem) = blk * BlockWords
      BY <1>1, <1>4, <2>2 DEF Loop
    <3> QED BY <1>1, <1>3, <2>2, <3>1 DEF Loop
  <2>3. CASE pc = "brr" /\ pc' = "word"
    <3>1. blk < Call.n /\ blk \in Nat /\ Len(mem) = blk * BlockWords /\ ibuffer # <<>>
      BY <1>1, <1>2, <1>4, <2>3 DEF Loop, Fresh
    <3>2. blk * BlockWords < Taken * BlockWords /\ Taken \in Nat
      BY <1>4, <3>1, Sizes, BlocksAndWords
    <3>3. blk < Taken
      BY <3>1, <3>2, Sizes, BlocksAndWords
    <3> QED BY <1>1, <1>3, <1>4, <2>3, <3>1, <3>3, Sizes DEF Loop
  <2>4. CASE pc = "irqstat"
    BY <1>1, <1>3, <2>4 DEF Loop
  <2>5. CASE pc = "ack"
    BY <1>1, <1>3, <1>4, <2>5 DEF Loop
  <2> QED BY <1>1, <2>1, <2>2, <2>3, <2>4, <2>5
<1> QED BY <1>3, <1>5, <1>6, <1>7, <1>8

\* The word fetched is there, and it is the next of the call.
LEMMA WordFetched ==
  ASSUME Provided, BootInv, pc = "word"
  PROVE  /\ Reading /\ ibuffer # <<>> /\ ibuffer \in Seq(Int) /\ mem \in Seq(Int)
         /\ Head(ibuffer) = Call.start * BlockWords + Len(mem)
         /\ Len(mem) < Call.n * BlockWords
         /\ Len(mem) + 1 <= (blk + 1) * BlockWords
         /\ returned < Len(Reads)
<1> USE DEF BootInv
<1>1. stage = "read" /\ Reading /\ returned < Len(Reads)
  BY DEF Places, Reading, Executed
<1>2. /\ Call.n \in Nat /\ Call.start \in Nat /\ Taken \in 0..Call.n
      /\ mem \in Seq(Int) /\ ibuffer \in Seq(Int)
      /\ Len(mem) \in Nat /\ Len(ibuffer) \in Nat /\ Len(mem) + Len(ibuffer) = Taken * BlockWords
  BY <1>1, CallTypes DEF Transfer, Words
<1>3. /\ Len(mem) = blk * BlockWords + wrd /\ wrd \in 0..(BlockWords - 1) /\ blk < Taken
      /\ blk \in Nat /\ Taken \in Nat /\ blk < Call.n
  BY <1>2 DEF Loop
<1>4. /\ blk * BlockWords \in Nat /\ Taken * BlockWords \in Nat /\ Call.n * BlockWords \in Nat
      /\ (blk + 1) * BlockWords = blk * BlockWords + BlockWords
      /\ blk * BlockWords + BlockWords <= Taken * BlockWords
      /\ blk * BlockWords + BlockWords <= Call.n * BlockWords
  BY <1>2, <1>3, Sizes, BlocksAndWords, ZenonT(30)
<1>5. Len(mem) < Taken * BlockWords /\ Len(mem) < Call.n * BlockWords
      /\ Len(mem) + 1 <= (blk + 1) * BlockWords
  BY <1>3, <1>4, Sizes
<1>6. Len(ibuffer) > 0
  BY <1>2, <1>4, <1>5
<1>7. ibuffer # <<>> /\ Head(ibuffer) = ibuffer[1]
  BY <1>2, <1>6
<1>8. ibuffer[1] = Call.start * BlockWords + Len(mem) + 1 - 1
  BY <1>1, <1>2, <1>6, SMTT(30) DEF Words
<1>9. Call.start * BlockWords \in Nat
  BY <1>2, Sizes
<1>10. ibuffer[1] = Call.start * BlockWords + Len(mem)
  BY <1>2, <1>8, <1>9
<1> QED BY <1>1, <1>2, <1>5, <1>7, <1>10

\* One word goes from the buffer to the memory.
LEMMA WordKeeps ==
  ASSUME Provided, BootInv, fetch_word
  PROVE  BootInv'
<1> USE DEF BootInv
<1>1. pc = "word"
  BY DEF fetch_word, at
<1>2. /\ Reading /\ ibuffer # <<>> /\ ibuffer \in Seq(Int) /\ mem \in Seq(Int) /\ stage = "read"
      /\ Head(ibuffer) = Call.start * BlockWords + Len(mem)
  BY <1>1, WordFetched DEF Reading
<1>3. /\ UNCHANGED <<cardVars, hc_state, BLKCNT, BLKCNT_BKP, MSBSEL, BCEN, CDIHB, DLA, RD_WML,
                     irqVars, cmdrsp, stage, host_rca, returned, blk, cnt, seen>>
      /\ ibuffer' = Tail(ibuffer) /\ mem' = Append(mem, Head(ibuffer)) /\ wrd' = wrd + 1
      /\ pc' = IF wrd + 1 < BlockWords THEN "word" ELSE "irqstat"
  BY <1>2 DEF fetch_word, esdhc_read_DATPORT, DATPORT, step
<1>4. Call' = Call /\ Executed' /\ Executed /\ Reading'
  BY <1>1, <1>2, <1>3 DEF Call, Executed, Reading
<1>5. Taken' = Taken
  BY <1>3, <1>4 DEF Taken, cardVars
<1>6. Places'
  BY <1>1, <1>2, <1>3 DEF Places
<1>7. Registers'
  BY <1>1, <1>2, <1>3, <1>4 DEF Registers, irqVars
<1>8. CardReady'
  BY <1>2, <1>3, <1>4 DEF CardReady, BeforeReads, cardVars
<1>9. Quiet' /\ Fresh'
  BY <1>3, <1>4 DEF Quiet, Fresh
<1>10. Transfer'
  BY <1>1, <1>2, <1>3, <1>4, <1>5 DEF Transfer, cardVars
<1>11. /\ ibuffer' \in Seq(Int) /\ Len(ibuffer') = Len(ibuffer) - 1 /\ Len(ibuffer) \in Nat
       /\ \A i \in 1..Len(ibuffer') : ibuffer'[i] = ibuffer[i + 1]
       /\ Head(ibuffer) \in Int
  BY <1>2, <1>3, HeadTailProperties
<1>12. mem' \in Seq(Int) /\ Len(mem') = Len(mem) + 1 /\ Len(mem) \in Nat
  BY <1>2, <1>3, <1>11, AppendProperties
<1>13. Words'
  <2>1. Len(mem') + Len(ibuffer') = Taken' * BlockWords
    BY <1>2, <1>5, <1>11, <1>12 DEF Words
  <2>2. ASSUME NEW i \in 1..Len(ibuffer')
        PROVE  ibuffer'[i] = Call.start * BlockWords + Len(mem') + i - 1
    <3>1. i + 1 \in 1..Len(ibuffer) /\ ibuffer'[i] = ibuffer[i + 1]
      BY <1>11
    <3>2. ibuffer[i + 1] = Call.start * BlockWords + Len(mem) + (i + 1) - 1
      BY <1>2, <3>1 DEF Words
    <3>3. Call.start * BlockWords \in Nat
      BY <1>2, CallTypes, Sizes, SMTT(30)
    <3> QED BY <1>11, <1>12, <3>1, <3>2, <3>3, SMTT(30)
  <2> QED BY <1>2, <1>3, <1>4, <1>5, <1>11, <1>12, <2>1, <2>2 DEF Words, cardVars
<1>14. Loop'
  <2>1. /\ Len(mem) = blk * BlockWords + wrd /\ wrd \in 0..(BlockWords - 1) /\ blk < Taken
        /\ blk \in 0..Call.n /\ cnt = Call.n /\ Call.n \in Nat /\ Taken \in 0..Call.n
        /\ blk * BlockWords \in Nat
    <3>1. /\ Len(mem) = blk * BlockWords + wrd /\ wrd \in 0..(BlockWords - 1) /\ blk < Taken
          /\ blk \in 0..Call.n /\ cnt = Call.n
      BY <1>1 DEF Loop
    <3>2. Call.n \in Nat /\ Taken \in 0..Call.n
      BY <1>2, CallTypes DEF Transfer
    <3>3. blk * BlockWords \in Nat
      BY <3>1, <3>2, Sizes, BlocksAndWords
    <3> QED BY <3>1, <3>2, <3>3
  <2>2. (blk + 1) * BlockWords = blk * BlockWords + BlockWords
    BY <2>1, Sizes, BlocksAndWords
  <2>3. CASE wrd + 1 < BlockWords
    BY <1>3, <1>4, <1>5, <1>12, <2>1, <2>3, Sizes DEF Loop
  <2>4. CASE ~(wrd + 1 < BlockWords)
    <3>1. Len(mem') = (blk + 1) * BlockWords /\ blk < Call.n
      BY <1>12, <2>1, <2>2, <2>4, Sizes
    <3> QED BY <1>3, <1>4, <2>1, <2>4, <3>1 DEF Loop
  <2> QED BY <2>3, <2>4
<1> QED BY <1>6, <1>7, <1>8, <1>9, <1>10, <1>13, <1>14

\* When the driver leaves a read it has every word, and card and controller
\* are done with it.
LEMMA ReadFinished ==
  ASSUME Provided, BootInv, stage = "read", pc = "finish"
  PROVE  /\ Taken = Call.n /\ ibuffer = <<>> /\ Len(mem) = Call.n * BlockWords
         /\ ~data_line_busy /\ ~CDIHB /\ ~DLA /\ hc_state # "HOST_READ_TRANSFER"
         /\ sd_state = "TRAN"
<1> USE DEF BootInv
<1>1. Reading
  BY DEF Reading, Executed
<1>2. /\ Call.n \in Nat /\ Taken \in 0..Call.n /\ ibuffer \in Seq(Int) /\ mem \in Seq(Int)
      /\ Len(mem) + Len(ibuffer) = Taken * BlockWords /\ Len(mem) = Call.n * BlockWords
  BY <1>1, CallTypes DEF Transfer, Words, Loop
<1>3. Len(ibuffer) \in Nat /\ Len(mem) \in Nat /\ Taken \in Nat
  BY <1>2
<1>4. Taken = Call.n
  <2>1. Call.n * BlockWords <= Taken * BlockWords
    BY <1>2, <1>3
  <2>2. Taken < Call.n => Taken * BlockWords + BlockWords <= Call.n * BlockWords
    BY <1>2, <1>3, Sizes, BlocksAndWords
  <2>3. Taken * BlockWords \in Nat
    BY <1>3, Sizes
  <2> QED BY <1>2, <1>3, <2>1, <2>2, <2>3, Sizes
<1>5. Len(ibuffer) = 0
  BY <1>2, <1>3, <1>4
<1>6. ibuffer = <<>>
  BY <1>2, <1>5
<1> QED BY <1>1, <1>2, <1>4, <1>6 DEF Transfer

\* The end of esdhc_send_command and what its callers do with the answer.
LEMMA FinishKeeps ==
  ASSUME Provided, BootInv, send_finish
  PROVE  BootInv'
<1> USE DEF BootInv
<1>1. /\ pc = "finish" /\ Executed /\ irqstat' = irqstat \ Events
      /\ UNCHANGED <<cardVars, xferVars, RD_WML, irqstaten, irqsigen, sdhc_line, cmdrsp,
                     blk, cnt, wrd, seen>>
  BY DEF send_finish, at, esdhc_write_IRQSTAT, Executed
<1>2. stage \in {"cmd0", "cmd8", "cmd55", "acmd41", "cmd2", "cmd3", "cmd7", "cmd16", "read"}
  BY <1>1 DEF Places
<1>3. stage' \in NextStages
  BY DEF send_finish, AfterCommand
<1>4. pc' = IF stage' \in {"attr", "booted", "hang"} THEN "none" ELSE "clear"
  BY DEF send_finish, AfterCommand
<1>5. /\ host_rca' = IF stage # "cmd3" THEN host_rca ELSE IF cmdrsp = "RCA" THEN RCA ELSE 0
      /\ stage = "read" => returned' = returned + 1 /\ mem' = <<>>
      /\ stage # "read" => returned' = returned /\ mem' = mem
  BY DEF send_finish, AfterCommand
<1>6. /\ stage = "cmd0" => stage' = "cmd8"
      /\ stage = "cmd8" => stage' = "cmd55"
      /\ stage = "cmd55" => stage' = "acmd41"
      /\ stage = "acmd41" => stage' = "cmd2"
      /\ stage = "cmd2" => stage' = "cmd3"
      /\ stage = "cmd3" => stage' = "cmd7"
      /\ stage = "cmd16" => stage' = "read"
      /\ stage \in {"cmd7", "read"} => stage' \in {"attr", "booted"}
      /\ stage' = "attr" => returned' < Len(Reads)
  <2>1. stage = "cmd8" => cmdrsp = "IF_COND"
    BY <1>1 DEF CardReady
  <2>2. stage = "acmd41" => cmdrsp = "OCR"
    BY <1>1 DEF CardReady
  <2> QED BY <1>2, <1>3, <1>5, <2>1, <2>2 DEF NextStages, Tested, NextRead
<1>7. ~Executed' /\ ~Reading'
  BY <1>4 DEF Executed, Reading
<1>8. /\ ibuffer' = <<>> /\ mem' = <<>> /\ ~data_line_busy' /\ ~CDIHB' /\ ~DLA'
      /\ hc_state' # "HOST_READ_TRANSFER"
  <2>1. CASE stage = "read"
    BY <1>1, <1>5, <2>1, ReadFinished DEF cardVars, xferVars
  <2>2. CASE stage # "read"
    BY <1>1, <1>5, <2>2 DEF cardVars, xferVars, Quiet, Reading
  <2> QED BY <2>1, <2>2
<1>9. stage' \in {"attr", "cmd16", "read", "booted"} => sd_state' = "TRAN"
  <2>1. CASE stage = "read"
    BY <1>1, <2>1, ReadFinished DEF cardVars
  <2>2. CASE stage = "cmd7"
    BY <1>1, <2>2 DEF cardVars, CardReady
  <2>3. CASE stage = "cmd16"
    BY <1>1, <2>3 DEF cardVars, CardReady, BeforeReads, Reading
  <2> QED BY <1>2, <1>6, <2>1, <2>2, <2>3
<1>10. returned' \in 0..Len(Reads)
  BY <1>5, Sizes DEF Places
<1>11. Places'
  BY <1>2, <1>4, <1>5, <1>6, <1>10 DEF Places
<1>12. Registers'
  <2>1. stage' \in {"cmd16", "read"} => stage = "cmd16" /\ Call' = Call
    BY <1>2, <1>5, <1>6 DEF Call
  <2> QED BY <1>1, <1>2, <1>4, <1>6, <1>7, <2>1 DEF Registers, xferVars, Reading
<1>13. CardReady'
  BY <1>1, <1>2, <1>5, <1>6, <1>7, <1>9 DEF CardReady, BeforeReads, cardVars
<1>14. Quiet'
  BY <1>8 DEF Quiet
<1>15. Fresh' /\ Transfer' /\ Words' /\ Loop'
  BY <1>4, <1>7 DEF Fresh, Transfer, Words, Loop
<1> QED BY <1>11, <1>12, <1>13, <1>14, <1>15

-----------------------------------------------------------------------------
(* The steps of the card and of the controller.                            *)

\* While devices run, the driver is not between a multiple block command and
\* its read of BLKATTR.
LEMMA DevicesApart ==
  ASSUME Provided, DevicesRun, stage = "read", Call.n # 1
  PROVE  pc \notin {"sigen", "complete", "blkcnt"}
BY DEF Provided, DevicesRun, Counting, DataStage, Multi

\* The card sends the next block of the call, and only while one is missing.
LEMMA CardKeeps ==
  ASSUME Provided, BootInv, card
  PROVE  BootInv'
<1> USE DEF BootInv
<1>1. /\ exec_state_data /\ DevicesRun /\ sd_state = "DATA" /\ ~data_line_busy /\ data_line_busy'
      /\ UNCHANGED <<esdhcVars, drvVars>>
  BY DEF card, exec_state_data, mayFillLine
<1>2. Reading /\ stage = "read"
  <2>1. stage = "read"
    BY <1>1 DEF CardReady, BeforeReads, Places, Reading
  <2> QED BY <1>1, <2>1 DEF CardReady, BeforeReads, Reading
<1>3. /\ Call.n \in Nat /\ Call.start \in Nat /\ Call.n > 0 /\ Taken \in 0..Call.n
      /\ current_block \in Nat /\ blocklen = BlockWords
      /\ Taken = current_block - Call.start /\ Taken < Call.n
      /\ hc_state = "HOST_READ_TRANSFER" /\ BLKCNT = Call.n - (IF Call.n = 1 THEN 0 ELSE Taken)
      /\ single_block_p = (Call.n = 1)
  BY <1>1, <1>2, CallTypes DEF Transfer, Taken, CardReady
<1>4. /\ current_block' = current_block + 1 /\ rca' = rca
      /\ sd_state' = IF Call.n = 1 THEN "TRAN" ELSE "DATA"
      /\ UNCHANGED <<single_block_p, application_specific_p, blocklen, exited>>
  <2>1. ~(blocklen > LineSize)
    BY <1>3, Sizes
  <2>2. sd_state' = (IF single_block_p THEN "TRAN" ELSE "DATA") /\ current_block' = current_block + 1
    BY <1>1 DEF exec_state_data, nextBlock
  <2>3. rca' = rca /\ UNCHANGED <<single_block_p, application_specific_p, blocklen, exited>>
    BY <1>1, <2>1 DEF exec_state_data
  <2> QED BY <1>3, <2>2, <2>3
<1>5. Call' = Call /\ Reading' /\ (Executed' <=> Executed) /\ UNCHANGED <<stage, pc, host_rca, returned, mem, blk, cnt, wrd, seen>>
  BY <1>1, <1>2 DEF drvVars, Call, Reading, Executed
<1>6. Taken' = Taken
  BY <1>1, <1>3, <1>4, <1>5 DEF Taken
<1>7. Places'
  BY <1>5 DEF Places
<1>8. Registers' /\ Fresh' /\ Quiet'
  BY <1>1, <1>2, <1>5 DEF Registers, Fresh, Quiet, esdhcVars, xferVars, irqVars
<1>9. CardReady'
  BY <1>1, <1>2, <1>4, <1>5 DEF CardReady, BeforeReads
<1>10. Transfer'
  BY <1>1, <1>2, <1>3, <1>4, <1>5, <1>6, DevicesApart DEF Transfer, esdhcVars, xferVars
<1>11. Words'
  <2>1. ASSUME NEW i \in 1..BlockWords
        PROVE  data_line'[i] = (Call.start + Taken) * BlockWords + i - 1
    <3>1. i \in 1..LineSize /\ i <= blocklen
      BY <1>3, Sizes
    <3>2. data_line'[i] = current_block * blocklen + (i - 1)
      BY <1>1, <3>1 DEF exec_state_data, Fill, blockWord
    <3>3. current_block = Call.start + Taken
      BY <1>3
    <3>4. current_block * BlockWords \in Nat
      BY <1>3, Sizes
    <3> QED BY <1>3, <3>2, <3>3, <3>4, Sizes
  <2> QED BY <1>1, <1>2, <1>5, <1>6, <2>1 DEF Words, esdhcVars, xferVars
<1>12. Loop'
  BY <1>5, <1>6 DEF Loop
<1> QED BY <1>7, <1>8, <1>9, <1>10, <1>11, <1>12

\* What a cycle of the controller leaves to the driver.
LEMMA HostFrame ==
  ASSUME BootInv, host
  PROVE  /\ prc_ESDHCV2 /\ DevicesRun /\ hc_state # "IDLE" /\ ibuffer' = Buffer
         /\ UNCHANGED <<stage, pc, host_rca, returned, mem, blk, cnt, wrd, seen, irqstaten,
                        BLKCNT_BKP, MSBSEL, BCEN, RD_WML, cmdrsp, single_block_p, blocklen,
                        current_block, data_line, rca>>
         /\ Call' = Call /\ (Reading' <=> Reading) /\ (Executed' <=> Executed)
         /\ irqstat' \subseteq Events /\ ("BRR" \in irqstat' => "BRR" \in irqstat \/ Len(Buffer) >= RD_WML)
         /\ RD_WML = DriverWml
<1> USE DEF BootInv
<1>1. prc_ESDHCV2 /\ DevicesRun /\ UNCHANGED drvVars
  BY DEF host
<1>2. /\ hc_state # "IDLE" /\ ibuffer' = Buffer
      /\ UNCHANGED <<irqstaten, BLKCNT_BKP, MSBSEL, BCEN, RD_WML, cmdrsp>>
      /\ irqstat' \subseteq irqstat \cup irqstaten
      /\ "BRR" \in irqstat' => "BRR" \in irqstat \/ Len(Buffer) >= RD_WML
  BY <1>1 DEF prc_ESDHCV2, generate_signal
<1>3. UNCHANGED <<single_block_p, blocklen, current_block, data_line, rca>>
  BY <1>1 DEF prc_ESDHCV2, cardVars
<1>4. UNCHANGED <<stage, pc, host_rca, returned, mem, blk, cnt, wrd, seen>>
  BY <1>1 DEF drvVars
<1>5. Call' = Call /\ (Reading' <=> Reading) /\ (Executed' <=> Executed)
  BY <1>4 DEF Call, Reading, Executed
<1>6. irqstat' \subseteq Events /\ RD_WML = DriverWml
  BY <1>2 DEF Registers
<1> QED BY <1>1, <1>2, <1>3, <1>4, <1>5, <1>6

\* The controller with no block on the line: at most it becomes idle, when the
\* driver has fetched every word.
LEMMA HostWaits ==
  ASSUME Provided, BootInv, host, ~Takes
  PROVE  BootInv'
<1> USE DEF BootInv
<1>1. Buffer = ibuffer /\ ~LastBlock
  BY DEF Buffer, LastBlock
<1>2. /\ UNCHANGED <<stage, pc, host_rca, returned, mem, blk, cnt, wrd, seen, irqstaten,
                     BLKCNT_BKP, MSBSEL, BCEN, RD_WML, cmdrsp>>
      /\ Call' = Call /\ (Reading' <=> Reading) /\ (Executed' <=> Executed)
      /\ irqstat' \subseteq Events /\ ibuffer' = ibuffer /\ hc_state # "IDLE" /\ RD_WML = DriverWml
      /\ "BRR" \in irqstat' => "BRR" \in irqstat \/ Len(ibuffer) >= RD_WML
  BY <1>1, HostFrame
<1>3. /\ UNCHANGED <<cardVars, BLKCNT>>
      /\ CDIHB' = (CDIHB /\ TRUE) /\ DLA' = (DLA /\ TRUE)
      /\ \/ hc_state' = hc_state
         \/ hc_state = "HOST_READ_DONE" /\ hc_state' = "IDLE"
  BY <1>1 DEF host, prc_ESDHCV2, Completes
<1>4. Taken' = Taken
  BY <1>2, <1>3 DEF Taken, cardVars
<1>5. Places'
  BY <1>2 DEF Places
<1>6. Registers'
  BY <1>2, <1>3 DEF Registers, HostStates
<1>7. CardReady'
  BY <1>2, <1>3 DEF CardReady, BeforeReads, cardVars
<1>8. Quiet'
  BY <1>2, <1>3 DEF Quiet, cardVars
<1>9. Fresh'
  <2>1. ibuffer = <<>> => ~(Len(ibuffer) >= RD_WML)
    BY <1>2, Sizes
  <2> QED BY <1>2, <2>1 DEF Fresh
<1>10. Transfer'
  BY <1>2, <1>3, <1>4 DEF Transfer, cardVars
<1>11. Words' /\ Loop'
  BY <1>2, <1>3, <1>4 DEF Words, Loop, cardVars
<1> QED BY <1>5, <1>6, <1>7, <1>8, <1>9, <1>10, <1>11

\* The controller takes a block: its words go to the end of the buffer, and
\* the last one ends the transfer and stops the card before it can send more.
LEMMA HostTakes ==
  ASSUME Provided, BootInv, host, Takes
  PROVE  BootInv'
<1> USE DEF BootInv
<1>1. hc_state = "HOST_READ_TRANSFER" /\ data_line_busy
  BY DEF Takes
<1>2. Reading /\ stage = "read"
  BY <1>1 DEF Quiet, Reading
<1>3. /\ Call.n \in Nat /\ Call.start \in Nat /\ Call.n > 0 /\ Call.n < CntMod
      /\ Taken \in 0..Call.n /\ current_block \in Nat /\ blocklen = BlockWords
      /\ MSBSEL = (Call.n # 1) /\ BCEN = (Call.n # 1) /\ single_block_p = (Call.n = 1)
      /\ Taken = current_block - Call.start - 1 /\ Taken < Call.n
      /\ BLKCNT = Call.n - (IF Call.n = 1 THEN 0 ELSE Taken) /\ BLKCNT_BKP = Call.n
      /\ sd_state = IF Call.n = 1 THEN "TRAN" ELSE "DATA"
      /\ ~application_specific_p /\ ~exited
  BY <1>1, <1>2, CallTypes DEF Transfer, Taken, CardReady, Registers
<1>4. /\ UNCHANGED <<stage, pc, host_rca, returned, mem, blk, cnt, wrd, seen, irqstaten,
                     BLKCNT_BKP, MSBSEL, BCEN, RD_WML, cmdrsp, single_block_p, blocklen,
                     current_block, data_line, rca>>
      /\ Call' = Call /\ Reading' /\ (Executed' <=> Executed)
      /\ irqstat' \subseteq Events /\ ibuffer' = Buffer /\ RD_WML = DriverWml
  BY <1>2, HostFrame
<1>5. ~data_line_busy' /\ Taken' = Taken + 1
  <2>1. ~data_line_busy'
    BY DEF host, prc_ESDHCV2
  <2> QED BY <1>1, <1>3, <1>4, <2>1 DEF Taken
<1>n. /\ Call.n \in Nat /\ Call.start \in Nat /\ Taken \in Nat
      /\ Call.n > 0 /\ Call.n < CntMod /\ Taken < Call.n
  BY <1>3
<1>b. Call.n = 1 => ~MSBSEL /\ ~Counted /\ Taken + 1 = Call.n /\ BLKCNT = Call.n
  <2> SUFFICES ASSUME Call.n = 1 PROVE ~MSBSEL /\ ~Counted /\ Taken + 1 = Call.n /\ BLKCNT = Call.n
    OBVIOUS
  <2>1. MSBSEL = (Call.n # 1) /\ BLKCNT = Call.n - 0 /\ Call.n \in Nat
    BY <1>3
  <2>2. ~MSBSEL
    BY <2>1, Zenon
  <2> QED BY <1>n, <2>1, <2>2 DEF Counted
<1>c. Call.n # 1 => MSBSEL /\ Counted /\ NextCount = Call.n - (Taken + 1)
  <2> SUFFICES ASSUME Call.n # 1 PROVE MSBSEL /\ Counted /\ NextCount = Call.n - (Taken + 1)
    OBVIOUS
  <2>1. MSBSEL = (Call.n # 1) /\ BCEN = (Call.n # 1) /\ BLKCNT = Call.n - Taken
    BY <1>3
  <2>2. MSBSEL /\ BCEN
    BY <2>1, Zenon
  <2>3. \A x \in 0..(CntMod - 1) : x % CntMod = x
    BY Sizes
  <2>4. Call.n - Taken - 1 \in 0..(CntMod - 1)
    BY <1>n, Sizes
  <2>5. NextCount = (Call.n - Taken - 1) % CntMod
    BY <2>1 DEF NextCount
  <2>6. (Call.n - Taken - 1) % CntMod = Call.n - Taken - 1
    BY <2>3, <2>4
  <2> QED BY <1>n, <2>2, <2>5, <2>6 DEF Counted
<1>6. LastBlock <=> Taken + 1 = Call.n
  <2>1. CASE Call.n = 1
    BY <1>b, <2>1 DEF LastBlock
  <2>2. CASE Call.n # 1
    BY <1>c, <1>n, <2>2 DEF LastBlock
  <2> QED BY <2>1, <2>2
<1>7. /\ ibuffer \in Seq(Int) /\ LineWords \in Seq(Int) /\ Len(LineWords) = BlockWords
      /\ Len(ibuffer) \in Nat /\ mem \in Seq(Int) /\ Len(mem) \in Nat
      /\ \A i \in 1..BlockWords : LineWords[i] = (Call.start + Taken) * BlockWords + i - 1
  <2>1. LineWords = SubSeq(data_line, 1, BlockWords)
    <3>1. (IF blocklen < LineSize THEN blocklen ELSE LineSize) = BlockWords
      <4>1. blocklen = BlockWords
        BY <1>3
      <4> QED BY <4>1, Sizes
    <3> QED BY <3>1 DEF LineWords
  <2>2. (Call.start + Taken) * BlockWords \in Nat
    <3>1. Call.start + Taken \in Nat
      BY <1>n
    <3> QED BY <3>1, Sizes, BlocksAndWords
  <2>3. \A i \in 1..BlockWords : data_line[i] = (Call.start + Taken) * BlockWords + i - 1
    BY <1>1, <1>2 DEF Words
  <2>4. \A i \in 1..BlockWords : data_line[i] \in Int
    BY <2>2, <2>3, Sizes
  <2>5. /\ SubSeq(data_line, 1, BlockWords) \in Seq(Int)
        /\ Len(SubSeq(data_line, 1, BlockWords)) = BlockWords
        /\ \A i \in 1..BlockWords : SubSeq(data_line, 1, BlockWords)[i] = data_line[i]
    BY <2>4, Sizes, SubSeqProperties
  <2>6. ibuffer \in Seq(Int) /\ mem \in Seq(Int) /\ Len(ibuffer) \in Nat /\ Len(mem) \in Nat
    BY <1>2 DEF Words
  <2> QED BY <2>1, <2>3, <2>5, <2>6
<1>8. /\ ibuffer' = ibuffer \o LineWords /\ ibuffer' \in Seq(Int)
      /\ Len(ibuffer') = Len(ibuffer) + BlockWords
      /\ \A i \in 1..(Len(ibuffer) + BlockWords) :
           ibuffer'[i] = IF i <= Len(ibuffer) THEN ibuffer[i] ELSE LineWords[i - Len(ibuffer)]
  <2>1. ibuffer' = ibuffer \o LineWords
    BY <1>4 DEF Buffer
  <2> QED BY <1>7, <2>1, ConcatProperties
<1>9. ibuffer' # <<>> /\ Buffer # <<>>
  BY <1>4, <1>7, <1>8, Sizes
<1>10. ~Completes
  BY <1>9 DEF Completes
<1>11. /\ hc_state' = IF LastBlock THEN "HOST_READ_DONE" ELSE hc_state
       /\ CDIHB' = (CDIHB /\ ~LastBlock) /\ DLA' = (DLA /\ ~LastBlock)
  BY <1>10 DEF host, prc_ESDHCV2
<1>12. BLKCNT' = IF LastBlock THEN Call.n ELSE Call.n - (Taken + 1)
  <2>1. CASE Call.n = 1
    <3>1. LastBlock /\ ~Counted /\ BLKCNT = Call.n
      BY <1>b, <1>6, <2>1
    <3> QED BY <3>1 DEF host, prc_ESDHCV2
  <2>2. CASE Call.n # 1
    <3>1. NextCount = Call.n - (Taken + 1) /\ Counted /\ BLKCNT_BKP = Call.n
      BY <1>3, <1>c, <2>2
    <3>2. BLKCNT' = IF LastBlock THEN BLKCNT_BKP ELSE NextCount
      BY <3>1 DEF host, prc_ESDHCV2
    <3> QED BY <3>1, <3>2
  <2> QED BY <2>1, <2>2
<1>13. /\ sd_state' = IF LastBlock THEN "TRAN" ELSE "DATA"
       /\ ~exited' /\ ~application_specific_p'
  <2>1. /\ sd_state' = IF StopsCard /\ sd_state = "DATA" THEN "TRAN" ELSE sd_state
        /\ exited' = (exited \/ (StopsCard /\ application_specific_p))
        /\ application_specific_p' = (application_specific_p /\ ~StopsCard)
    BY DEF host, prc_ESDHCV2
  <2>2. ~application_specific_p /\ ~exited /\ sd_state = IF Call.n = 1 THEN "TRAN" ELSE "DATA"
    BY <1>3
  <2>3. CASE Call.n = 1
    BY <1>b, <1>6, <2>1, <2>2, <2>3 DEF StopsCard
  <2>4. CASE Call.n # 1
    BY <1>c, <2>1, <2>2, <2>4 DEF StopsCard
  <2> QED BY <2>3, <2>4
<1>14. Places'
  BY <1>4 DEF Places
<1>15. Registers'
  BY <1>1, <1>2, <1>4, <1>11 DEF Registers, HostStates
<1>16. CardReady'
  BY <1>2, <1>4, <1>13 DEF CardReady, BeforeReads
<1>17. Quiet' /\ Fresh'
  BY <1>4, <1>9 DEF Quiet, Fresh
<1>18. Transfer'
  <2>1. Taken' \in 0..Call.n
    BY <1>3, <1>5
  <2>2. Call.n # 1 => pc \notin {"sigen", "complete", "blkcnt"}
    BY <1>2, DevicesApart, HostFrame
  <2>3. CASE Taken + 1 = Call.n
    <3>1. /\ LastBlock /\ BLKCNT' = Call.n /\ sd_state' = "TRAN"
          /\ hc_state' = "HOST_READ_DONE" /\ ~CDIHB' /\ ~DLA'
      BY <1>6, <1>11, <1>12, <1>13, <2>3
    <3>2. /\ Taken' = Call'.n /\ current_block' \in Nat /\ Taken' \in 0..Call'.n
          /\ ~(Taken' < Call'.n) /\ ~data_line_busy' /\ BLKCNT' = Call'.n /\ pc' = pc
          /\ Call'.n # 1 => pc' \notin {"sigen", "complete", "blkcnt"}
      BY <1>3, <1>4, <1>5, <2>1, <2>2, <2>3, <3>1
    <3>3. /\ MSBSEL' = (Call'.n # 1) /\ BCEN' = (Call'.n # 1)
          /\ single_block_p' = (Call'.n = 1)
      BY <1>3, <1>4
    <3> QED BY <3>1, <3>2, <3>3 DEF Transfer
  <2>4. CASE Taken + 1 < Call.n
    <3>1. ~LastBlock /\ Call.n # 1 /\ BLKCNT' = Call.n - Taken' /\ sd_state' = "DATA"
          /\ hc_state' = "HOST_READ_TRANSFER" /\ Taken' < Call.n
      BY <1>1, <1>3, <1>5, <1>6, <1>11, <1>12, <1>13, <2>4
    <3>2. /\ Taken' # Call'.n /\ current_block' \in Nat /\ Taken' \in 0..Call'.n
          /\ ~data_line_busy' /\ Call'.n # 1 /\ BLKCNT' = Call'.n - Taken' /\ pc' = pc
          /\ pc' \notin {"sigen", "complete", "blkcnt"}
      BY <1>3, <1>4, <1>5, <2>1, <2>2, <3>1
    <3>3. /\ MSBSEL' = (Call'.n # 1) /\ BCEN' = (Call'.n # 1)
          /\ single_block_p' = (Call'.n = 1)
      BY <1>3, <1>4
    <3> QED BY <3>1, <3>2, <3>3 DEF Transfer
  <2> QED BY <1>3, <2>3, <2>4
<1>19. Words'
  <2>1. /\ Taken \in Nat /\ Taken * BlockWords \in Nat /\ Call.start * BlockWords \in Nat
        /\ (Taken + 1) * BlockWords = Taken * BlockWords + BlockWords
        /\ (Call.start + Taken) * BlockWords = Call.start * BlockWords + Taken * BlockWords
        /\ Len(mem) + Len(ibuffer) = Taken * BlockWords
    <3>1. Len(mem) + Len(ibuffer) = Taken * BlockWords
      BY <1>2 DEF Words
    <3> QED BY <1>n, <3>1, Sizes, BlocksAndWords
  <2>2. Len(mem') + Len(ibuffer') = Taken' * BlockWords
    <3>1. mem' = mem /\ Len(ibuffer') = Len(ibuffer) + BlockWords /\ Len(mem) \in Nat /\ Len(ibuffer) \in Nat
      BY <1>4, <1>7, <1>8
    <3>2. Taken' * BlockWords = Taken * BlockWords + BlockWords
      BY <1>5, <2>1
    <3> DEFINE W == Taken * BlockWords
    <3>3. Len(mem) + Len(ibuffer) = W /\ Taken' * BlockWords = W + BlockWords
      BY <2>1, <3>2
    <3> HIDE DEF W
    <3> QED BY <3>1, <3>3, Sizes
  <2>3. ASSUME NEW i \in 1..Len(ibuffer')
        PROVE  ibuffer'[i] = Call.start * BlockWords + Len(mem) + i - 1
    <3>1. CASE i <= Len(ibuffer)
      <4>1. i \in 1..Len(ibuffer) /\ ibuffer'[i] = ibuffer[i]
        BY <1>7, <1>8, <3>1, Sizes
      <4> QED BY <1>2, <4>1 DEF Words
    <3>2. CASE ~(i <= Len(ibuffer))
      <4>1. i - Len(ibuffer) \in 1..BlockWords /\ ibuffer'[i] = LineWords[i - Len(ibuffer)]
        BY <1>7, <1>8, <3>2, Sizes
      <4>2. ibuffer'[i] = (Call.start + Taken) * BlockWords + (i - Len(ibuffer)) - 1
        BY <1>7, <4>1
      <4> DEFINE S == Call.start * BlockWords
                 W == Taken * BlockWords
      <4>3. S \in Nat /\ W \in Nat /\ Len(mem) + Len(ibuffer) = W
        BY <2>1
      <4>4. ibuffer'[i] = (S + W) + (i - Len(ibuffer)) - 1
        BY <2>1, <4>2
      <4>5. Len(mem) \in Nat /\ Len(ibuffer) \in Nat /\ i \in Int
        BY <1>7, <1>8, Sizes
      <4> HIDE DEF S, W
      <4>6. ibuffer'[i] = S + Len(mem) + i - 1
        BY <4>3, <4>4, <4>5
      <4> QED BY <4>6 DEF S
    <3> QED BY <3>1, <3>2
  <2> QED BY <1>4, <1>5, <1>7, <1>8, <2>2, <2>3 DEF Words
<1>20. Loop'
  BY <1>3, <1>4, <1>5 DEF Loop
<1> QED BY <1>14, <1>15, <1>16, <1>17, <1>18, <1>19, <1>20

-----------------------------------------------------------------------------
(* The boot code as a whole.                                               *)

\* Every step of the core, the card and the controller keeps the invariant.
LEMMA BootStepKeeps ==
  ASSUME Provided, BootInv, [BootNext]_bootVars
  PROVE  BootInv'
<1>1. CASE cpu
  <2>1. CASE configure_esdhc \/ esdhc_set_block_attr
    BY <2>1, SetupKeeps
  <2>2. CASE \/ send_clear \/ send_enable \/ send_wait_idle \/ send_wml
             \/ send_mask_irqs \/ send_wait_complete
    BY <2>2, SendKeeps
  <2>3. CASE send_xfertyp
    BY <2>3, XferKeeps
  <2>4. CASE fetch_count \/ fetch_wait_brr \/ fetch_read_irqstat \/ fetch_ack
    BY <2>4, FetchKeeps
  <2>5. CASE fetch_word
    BY <2>5, WordKeeps
  <2>6. CASE send_finish
    BY <2>6, FinishKeeps
  <2> QED BY <1>1, <2>1, <2>2, <2>3, <2>4, <2>5, <2>6 DEF cpu
<1>2. CASE card
  BY <1>2, CardKeeps
<1>3. CASE host
  BY <1>3, HostWaits, HostTakes
<1>4. CASE over \/ UNCHANGED bootVars
  <2> USE <1>4 DEF over, bootVars, cardVars, esdhcVars, xferVars, irqVars, drvVars
  <2>1. Call' = Call /\ (Executed' <=> Executed) /\ (Reading' <=> Reading)
    BY DEF Call, Executed, Reading
  <2>2. Taken' = Taken
    BY <2>1 DEF Taken
  <2>3. Places' /\ Registers'
    BY <2>1 DEF BootInv, Places, Registers
  <2>4. CardReady' /\ Quiet' /\ Fresh'
    BY <2>1 DEF BootInv, CardReady, BeforeReads, Quiet, Fresh
  <2>5. Transfer'
    BY <2>1, <2>2 DEF BootInv, Transfer
  <2>6. Words'
    BY <2>1, <2>2 DEF BootInv, Words
  <2>7. Loop'
    BY <2>1, <2>2 DEF BootInv, Loop
  <2> QED BY <2>3, <2>4, <2>5, <2>6, <2>7 DEF BootInv
<1> QED BY <1>1, <1>2, <1>3, <1>4 DEF BootNext

\* The invariant holds throughout the boot.
LEMMA BootInvariant ==
  Provided /\ BootSpec => []BootInv
<1> SUFFICES ASSUME Provided PROVE BootSpec => []BootInv
  OBVIOUS
<1>1. BootInit => BootInv
  BY BootInitHolds
<1>2. BootInv /\ [BootNext]_bootVars => BootInv'
  BY BootStepKeeps
<1> QED BY <1>1, <1>2, PTL DEF BootSpec

\* No command of the boot code reaches the card in a state or mode that does
\* not know it: the card (sd.cpp:245, 265) does not end the simulation,
\* whatever calls of sd_read follow one another.
THEOREM BootNeverExits ==
  Provided /\ BootSpec => []NoExit
<1>1. BootInv => NoExit
  BY DEF BootInv, CardReady, NoExit
<1> QED BY <1>1, BootInvariant, PTL

\* esdhc.s fetches a word only from a buffer that has one: the BRR that the
\* driver saw before the first word of a block stands for the whole block.
THEOREM WordsAreThere ==
  Provided /\ BootSpec => []WordAvailable
<1> SUFFICES ASSUME Provided PROVE BootSpec => []WordAvailable
  OBVIOUS
<1>1. BootInv => WordAvailable
  BY WordFetched DEF WordAvailable
<1> QED BY <1>1, BootInvariant, PTL

\* Each call of sd_read starts from an empty buffer, a free data line and a
\* card in the transfer state: the call before it left nothing behind.
THEOREM CallsStartClean ==
  Provided /\ BootSpec => []CleanStart
<1>1. BootInv => CleanStart
  BY DEF BootInv, CleanStart, Quiet, CardReady, BeforeReads, Reading
<1> QED BY <1>1, BootInvariant, PTL

\* A step of the boot code is a step of the abstract read, or none: only
\* fetch_word writes the destination, with the word that is due, and only the
\* end of a read command returns, when every word has been delivered.
LEMMA StepsOfRead ==
  ASSUME Provided, BootInv, [BootNext]_bootVars
  PROVE  [BR!Deliver \/ BR!Return]_<<returned, mem>>
<1>1. CASE fetch_word
  <2>1. pc = "word" /\ mem' = Append(mem, DATPORT) /\ returned' = returned
    BY <1>1 DEF fetch_word, at, step
  <2>2. /\ ibuffer # <<>> /\ Head(ibuffer) = Call.start * BlockWords + Len(mem)
        /\ Len(mem) < Call.n * BlockWords /\ returned < Len(Reads)
    BY <2>1, WordFetched
  <2>3. DATPORT = Call.start * BlockWords + Len(mem)
    BY <2>2 DEF DATPORT
  <2>4. BR!Deliver
    BY <2>1, <2>2, <2>3 DEF BR!Deliver, BR!Call, Call
  <2> QED BY <2>4
<1>2. CASE send_finish
  <2>1. pc = "finish" /\ AfterCommand
    BY <1>2 DEF send_finish, at
  <2>2. CASE stage = "read"
    <3>1. returned' = returned + 1 /\ mem' = <<>>
      BY <2>1, <2>2 DEF AfterCommand
    <3>2. Len(mem) = Call.n * BlockWords
      BY <2>1, <2>2, ReadFinished
    <3>3. returned < Len(Reads)
      BY <2>2 DEF BootInv, Places
    <3>4. BR!Return
      BY <3>1, <3>2, <3>3 DEF BR!Return, BR!Call, Call
    <3> QED BY <3>4
  <2>3. CASE stage # "read"
    BY <2>1, <2>3 DEF AfterCommand
  <2> QED BY <2>2, <2>3
<1>3. CASE configure_esdhc \/ esdhc_set_block_attr
  BY <1>3 DEF configure_esdhc, esdhc_set_block_attr
<1>4. CASE \/ send_clear \/ send_enable \/ send_wait_idle \/ send_wml \/ send_xfertyp
           \/ send_mask_irqs \/ send_wait_complete
           \/ fetch_count \/ fetch_wait_brr \/ fetch_read_irqstat \/ fetch_ack
  BY <1>4 DEF send_clear, send_enable, send_wait_idle, send_wml, send_xfertyp, send_mask_irqs,
              send_wait_complete, fetch_count, fetch_wait_brr, fetch_read_irqstat, fetch_ack, step
<1>5. CASE card \/ host \/ over \/ UNCHANGED bootVars
  BY <1>5 DEF card, host, over, bootVars, drvVars
<1> QED BY <1>1, <1>2, <1>3, <1>4, <1>5 DEF BootNext, cpu

\* sd_read delivers the blocks it is asked for (dumboot sd.s): the driver, the
\* controller and the card implement the safety part of BlockRead.  Whatever
\* the interleaving of the three, each word that reaches the destination is
\* the next one of the card's blocks, and no call returns before its last word.
THEOREM ReadsAsAsked ==
  Provided /\ BootSpec => BR!Init /\ [][BR!Deliver \/ BR!Return]_<<returned, mem>>
<1> SUFFICES ASSUME Provided
             PROVE  BootSpec => BR!Init /\ [][BR!Deliver \/ BR!Return]_<<returned, mem>>
  OBVIOUS
<1>1. BootInit => BR!Init
  BY DEF BootInit, BR!Init
<1>2. BootInv /\ [BootNext]_bootVars => [BR!Deliver \/ BR!Return]_<<returned, mem>>
  BY StepsOfRead
<1> QED BY <1>1, <1>2, BootInvariant, PTL DEF BootSpec
=============================================================================
