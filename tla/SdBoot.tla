-------------------------------- MODULE SdBoot --------------------------------
(***************************************************************************)
(* The boot code's SD driver (dumboot/sd.s, dumboot/esdhc.s) on the core,  *)
(* the host controller and the card, each a thread of its own.             *)
(*                                                                         *)
(* stage is the routine of sd.s being executed, pc the place inside        *)
(* esdhc_send_command; between two places the device threads may run.      *)
(***************************************************************************)
EXTENDS Esdhc

CONSTANTS
  Reads,        \* the calls of sd_read: a sequence of records [start, n]
  BlockWords,   \* READ_BLOCK_LEN, 512 bytes
  DriverWml,    \* min(BLKSIZE >> 2, 0x80), compared with bytes by the model
  Racy          \* a batch may end between a multiple block command and the
                \* read of BLKATTR

ASSUME BootAssumption ==
  /\ BlockWords \in 1..LineSize /\ BlockWords <= BlockLenMax
  /\ DriverWml \in 1..BlockWords
  /\ Racy \in BOOLEAN
  /\ Reads \in Seq([start : Nat, n : 0..(CntMod - 1)])

VARIABLES
  stage, pc,
  host_rca,     \* SD_RCA
  blk, cnt,     \* r5 and r6: block index and block count of the fetch loop
  wrd,          \* r7: word index in the block
  seen,         \* r0: the value of IRQSTAT read before it is acknowledged
  returned,     \* calls of sd_read that returned
  mem           \* the destination of the current call

drvVars == <<stage, pc, host_rca, blk, cnt, wrd, seen, returned, mem>>
bootVars == <<cardVars, esdhcVars, drvVars>>

Call == Reads[returned + 1]

BootInit ==
  /\ CardInit /\ EsdhcInit
  /\ stage = "reset" /\ pc = "none"
  /\ host_rca = 0 /\ blk = 0 /\ cnt = 0 /\ wrd = 0 /\ seen = {}
  /\ returned = 0 /\ mem = <<>>

-----------------------------------------------------------------------------
(* configure_esdhc and sd_read outside esdhc_send_command.                 *)

goto(s, p) == stage' = s /\ pc' = p

configure_esdhc ==
  \/ /\ stage = "reset" /\ goto("mmcboot", "none")
     /\ esdhc_write_SYSCTL(TRUE, FALSE)
     /\ UNCHANGED <<host_rca, blk, cnt, wrd, seen, returned, mem>>
  \/ /\ stage = "mmcboot" /\ goto("cmd0", "clear")
     /\ esdhc_write_BLKATTR(0)
     /\ UNCHANGED <<host_rca, blk, cnt, wrd, seen, returned, mem>>

esdhc_set_block_attr ==
  /\ stage = "attr"
  /\ esdhc_write_BLKATTR(Call.n)
  /\ goto("cmd16", "clear")
  /\ UNCHANGED <<host_rca, blk, cnt, wrd, seen, returned, mem>>

-----------------------------------------------------------------------------
(* esdhc_send_command, one action per access to the controller.            *)

DataStage == stage = "read"
Multi == Call.n # 1

\* index and argument of the command of each stage
Command ==
  CASE stage = "cmd0" -> <<0, 0>>
    [] stage = "cmd8" -> <<8, 0>>
    [] stage = "cmd55" -> <<55, 0>>
    [] stage = "acmd41" -> <<41, 0>>
    [] stage = "cmd2" -> <<2, 0>>
    [] stage = "cmd3" -> <<3, 0>>
    [] stage = "cmd7" -> <<7, host_rca>>
    [] stage = "cmd16" -> <<16, BlockWords>>
    [] stage = "read" -> <<IF Multi THEN 18 ELSE 17, Call.start>>

at(p) == pc = p
step(p) == /\ pc' = p
           /\ UNCHANGED <<stage, host_rca, returned>>

send_clear ==
  /\ at("clear") /\ step("enable")
  /\ esdhc_write_IRQSTAT(Events)
  /\ UNCHANGED <<blk, cnt, wrd, seen, mem>>

send_enable ==
  /\ at("enable") /\ step("idle")
  /\ esdhc_write_IRQSTATEN(irqstaten \cup Events)
  /\ UNCHANGED <<blk, cnt, wrd, seen, mem>>

\* Poll of PRSSTAT: CDIHB and DLA (CIHB is never seen up).
send_wait_idle ==
  /\ at("idle") /\ ~CDIHB /\ ~DLA
  /\ step(IF DataStage THEN "wml" ELSE "xfertyp")
  /\ UNCHANGED <<cardVars, esdhcVars, blk, cnt, wrd, seen, mem>>

send_wml ==
  /\ at("wml") /\ step("xfertyp")
  /\ esdhc_write_WML(DriverWml)
  /\ UNCHANGED <<blk, cnt, wrd, seen, mem>>

send_xfertyp ==
  /\ at("xfertyp") /\ step("sigen")
  /\ esdhc_write_XFERTYP(Command[1], Command[2], DataStage,
                         DataStage /\ BLKCNT # 1, DataStage /\ BLKCNT # 1)
  /\ UNCHANGED <<blk, cnt, wrd, seen, mem>>

send_mask_irqs ==
  /\ at("sigen") /\ step("complete")
  /\ esdhc_write_IRQSIGEN({})
  /\ UNCHANGED <<blk, cnt, wrd, seen, mem>>

send_wait_complete ==
  /\ at("complete") /\ "CC" \in irqstat
  /\ step(IF DataStage THEN "blkcnt" ELSE "finish")
  /\ UNCHANGED <<cardVars, esdhcVars, blk, cnt, wrd, seen, mem>>

\* The loop bound comes from BLKATTR, which counts down during the transfer.
fetch_count ==
  /\ at("blkcnt") /\ step("brr")
  /\ blk' = 0 /\ cnt' = BLKCNT
  /\ UNCHANGED <<cardVars, esdhcVars, wrd, seen, mem>>

\* Mutant: the driver does not wait for BRR.
fetch_wait_brr_not ==
  /\ at("brr")
  /\ \/ blk >= cnt /\ step("finish") /\ UNCHANGED wrd
     \/ blk < cnt /\ step("word") /\ wrd' = 0
  /\ UNCHANGED <<cardVars, esdhcVars, blk, cnt, seen, mem>>

fetch_wait_brr ==
  /\ at("brr")
  /\ \/ /\ blk >= cnt /\ step("finish") /\ UNCHANGED wrd
     \/ /\ blk < cnt /\ "BRR" \in irqstat /\ step("word") /\ wrd' = 0
  /\ UNCHANGED <<cardVars, esdhcVars, blk, cnt, seen, mem>>

fetch_word ==
  /\ at("word")
  /\ esdhc_read_DATPORT
  /\ mem' = Append(mem, DATPORT)
  /\ wrd' = wrd + 1
  /\ step(IF wrd + 1 < BlockWords THEN "word" ELSE "irqstat")
  /\ UNCHANGED <<blk, cnt, seen>>

fetch_read_irqstat ==
  /\ at("irqstat") /\ step("ack")
  /\ seen' = irqstat \cup {"BRR"}
  /\ UNCHANGED <<cardVars, esdhcVars, blk, cnt, wrd, mem>>

fetch_ack ==
  /\ at("ack") /\ step("brr")
  /\ esdhc_write_IRQSTAT(seen)
  /\ blk' = blk + 1
  /\ UNCHANGED <<cnt, wrd, seen, mem>>

\* What the callers in sd.s do with the response; an answer the card leaves
\* uninitialised passes or fails their tests.
Tested(good, onGood, onBad) ==
  CASE cmdrsp = good -> {onGood}
    [] cmdrsp = "ANY" -> {onGood, onBad}
    [] OTHER -> {onBad}
NextRead(done) == IF done < Len(Reads) THEN {"attr"} ELSE {"booted"}
NextStages ==
  CASE stage = "cmd0" -> {"cmd8"}
    [] stage = "cmd8" -> Tested("IF_COND", "cmd55", "hang")
    [] stage = "cmd55" -> {"acmd41"}
    [] stage = "acmd41" -> Tested("OCR", "cmd2", "cmd55")
    [] stage = "cmd2" -> {"cmd3"}
    [] stage = "cmd3" -> {"cmd7"}
    [] stage = "cmd7" -> NextRead(returned)
    [] stage = "cmd16" -> {"read"}
    [] stage = "read" -> NextRead(returned + 1)

AfterCommand ==
  /\ stage' \in NextStages
  /\ pc' = IF stage' \in {"attr", "booted", "hang"} THEN "none" ELSE "clear"
  /\ host_rca' = IF stage # "cmd3" THEN host_rca
                 ELSE IF cmdrsp = "RCA" THEN RCA ELSE 0
  /\ IF stage = "read" THEN returned' = returned + 1 /\ mem' = <<>>
                       ELSE UNCHANGED <<returned, mem>>

send_finish ==
  /\ at("finish")
  /\ esdhc_write_IRQSTAT(Events)
  /\ AfterCommand
  /\ UNCHANGED <<blk, cnt, wrd, seen>>

cpu ==
  /\ ~exited
  /\ \/ configure_esdhc \/ esdhc_set_block_attr
     \/ send_clear \/ send_enable \/ send_wait_idle \/ send_wml \/ send_xfertyp
     \/ send_mask_irqs \/ send_wait_complete
     \/ fetch_count \/ fetch_wait_brr \/ fetch_word \/ fetch_read_irqstat \/ fetch_ack
     \/ send_finish

-----------------------------------------------------------------------------
\* Unless Racy, the batch does not end between a command for several blocks
\* and the read of BLKATTR.
Counting == DataStage /\ Multi /\ pc \in {"sigen", "complete", "blkcnt"}
DevicesRun == ~exited /\ (Racy \/ ~Counting)

card == DevicesRun /\ exec_state_data /\ UNCHANGED <<esdhcVars, drvVars>>
host == DevicesRun /\ prc_ESDHCV2 /\ UNCHANGED drvVars

\* The core in its final loop, or a simulation that exited.  A poll that
\* nothing can end shows as a deadlock.
Over == stage \in {"booted", "hang"} \/ exited
over == Over /\ UNCHANGED bootVars

BootNext == cpu \/ card \/ host \/ over

BootSpec == BootInit /\ [][BootNext]_bootVars

\* The core and both threads are resumed again and again.
BootFairSpec ==
  BootSpec /\ WF_bootVars(cpu) /\ WF_bootVars(card) /\ WF_bootVars(host)

-----------------------------------------------------------------------------
\* Types of card, controller and driver: BLKCNT stays a 16-bit count.
BootTypeOK ==
  /\ CardTypeOK /\ EsdhcTypeOK
  /\ host_rca \in RCAs
  /\ blk \in Nat /\ cnt \in 0..(CntMod - 1) /\ wrd \in 0..BlockWords
  /\ seen \subseteq Events
  /\ returned \in 0..Len(Reads)
  /\ mem \in Seq(Int)

\* The boot code never drives the card model into one of its exits: every
\* command reaches the card in a state and mode that know it.
NoExit == ~exited

\* A word is fetched only from a buffer that has one: BRR, read before a
\* whole block is fetched and reset by its acknowledgement, is never stale.
WordAvailable == pc = "word" => ibuffer # <<>>

\* No word is left for the next call: when sd_read sets up a transfer the
\* buffer is empty and the card is back in the transfer state.
CleanStart == stage = "attr" => ibuffer = <<>> /\ ~data_line_busy /\ sd_state = "TRAN"

BR == INSTANCE BlockRead WITH
        Reads <- Reads, BlockWords <- BlockWords, returned <- returned, mem <- mem

\* sd.s: sd_read copies "Number of blocks" blocks from "SD Start block" to the
\* destination: the driver, the controller and the card implement BlockRead.
ImplementsBlockRead == BR!Spec
===============================================================================
