-------------------------------- MODULE Esdhc --------------------------------
(***************************************************************************)
(* The SD host controller (armv7/src/esdhcv2.h, armv7/src/esdhcv2.cpp)     *)
(* connected to one card.                                                  *)
(*                                                                         *)
(* ibuffer counts in words, as the data port does.  irqstat, irqstaten and *)
(* irqsigen are sets of the three events the model generates.  DLA and RTA *)
(* are always assigned together; BREN is written and never read; the clock *)
(* and power fields of PROCTL and SYSCTL have no effect.                   *)
(***************************************************************************)
EXTENDS SdCard

CONSTANTS
  CntMod,     \* 2^16, BLKCNT is a uint16_t
  ResetWml    \* the reset value of RD_WML, 16 bytes

ASSUME HostAssumption == CntMod \in Nat \ {0} /\ ResetWml \in Nat

VARIABLES
  hc_state,          \* current_state of the controller
  ibuffer,           \* words taken from the card and not read by software
  BLKCNT, BLKCNT_BKP,
  MSBSEL, BCEN,      \* multiple block, block count enable
  CDIHB, DLA,        \* data inhibit, data line active
  RD_WML,
  irqstat, irqstaten, irqsigen,
  cmdrsp,            \* what the CMDRSP registers hold
  sdhc_line          \* level last passed to tzic.interrupt(ESDHCV2_1_IRQ, ...)

xferVars == <<hc_state, ibuffer, BLKCNT, BLKCNT_BKP, MSBSEL, BCEN, CDIHB, DLA>>
irqVars == <<irqstat, irqstaten, irqsigen, sdhc_line>>
esdhcVars == <<xferVars, RD_WML, irqVars, cmdrsp>>

Events == {"CC", "TC", "BRR"}
HostStates == {"IDLE", "HOST_READ_TRANSFER", "HOST_READ_DONE"}

\* The constructor leaves the block counts uninitialised; CIHB is only ever
\* up inside execute_xfertyp_command.
EsdhcInit ==
  /\ hc_state = "IDLE" /\ ibuffer = <<>>
  /\ BLKCNT \in 0..(CntMod - 1) /\ BLKCNT_BKP = BLKCNT
  /\ MSBSEL = FALSE /\ BCEN = FALSE /\ CDIHB = FALSE /\ DLA = FALSE
  /\ RD_WML = ResetWml
  /\ irqstat = {} /\ irqstaten = Events /\ irqsigen = {}
  /\ cmdrsp = "ANY"
  /\ sdhc_line = FALSE

-----------------------------------------------------------------------------
\* generate_signal for the events E: IRQSTATEN lets them into IRQSTAT; for
\* those of IRQSIGEN the code calls tzic.interrupt with deassert = true.
generate_signal(E) ==
  /\ irqstat' = irqstat \cup (E \cap irqstaten)
  /\ sdhc_line' = (sdhc_line /\ E \cap irqsigen = {})
  /\ UNCHANGED <<irqstaten, irqsigen>>

\* One cycle of prc_ESDHCV2: sd_protocol takes a block from the line and, in
\* a counted transfer, ends it with CMD12 at the last one; host_protocol then
\* reports what is in the buffer.
Takes == hc_state = "HOST_READ_TRANSFER" /\ data_line_busy
NextCount == (BLKCNT - 1) % CntMod
Counted == MSBSEL /\ BCEN
LastBlock == Takes /\ (~MSBSEL \/ (Counted /\ NextCount = 0))
Buffer == IF Takes THEN ibuffer \o LineWords ELSE ibuffer
\* Mutant: the words not yet read are forgotten.
Completes_undrained == hc_state = "HOST_READ_DONE" \/ LastBlock

Completes == Buffer = <<>> /\ (hc_state = "HOST_READ_DONE" \/ LastBlock)

\* Mutant: the card is not told to stop.
StopsCard_never == FALSE

StopsCard == Counted /\ LastBlock

prc_ESDHCV2 ==
  /\ hc_state # "IDLE"
  /\ ibuffer' = Buffer
  /\ BLKCNT' = CASE Takes /\ Counted /\ LastBlock -> BLKCNT_BKP
                 [] Takes /\ Counted /\ ~LastBlock -> NextCount
                 [] OTHER -> BLKCNT
  /\ hc_state' = CASE Completes -> "IDLE"
                   [] LastBlock /\ ~Completes -> "HOST_READ_DONE"
                   [] OTHER -> hc_state
  /\ CDIHB' = (CDIHB /\ ~LastBlock) /\ DLA' = (DLA /\ ~LastBlock)
  /\ generate_signal((IF Len(Buffer) >= RD_WML THEN {"BRR"} ELSE {})
                     \cup (IF Completes THEN {"TC"} ELSE {}))
  /\ IF Takes
       THEN /\ data_line_busy' = FALSE
            /\ sd_state' = IF StopsCard /\ sd_state = "DATA"
                             THEN "TRAN" ELSE sd_state
            /\ exited' = (exited \/ (StopsCard /\ application_specific_p))
            /\ application_specific_p' = (application_specific_p /\ ~StopsCard)
            /\ UNCHANGED <<single_block_p, blocklen, current_block, data_line, rca>>
       ELSE UNCHANGED cardVars
  /\ UNCHANGED <<BLKCNT_BKP, MSBSEL, BCEN, RD_WML, cmdrsp>>

prc_ESDHCV2_idle == hc_state = "IDLE" /\ UNCHANGED <<esdhcVars, cardVars>>

-----------------------------------------------------------------------------
(* The bus side.                                                           *)

\* Mutant: the state of the controller is not updated.
beginTransfer_noState == CDIHB' = TRUE /\ DLA' = TRUE /\ UNCHANGED hc_state

beginTransfer == hc_state' = "HOST_READ_TRANSFER" /\ CDIHB' = TRUE /\ DLA' = TRUE

\* XFERTYP executes the command in CMDARG at once.  data: DPSEL and DTDSEL set (a write
\* transfer exits and is left out).
esdhc_write_XFERTYP(cmd, arg, data, multi, count) ==
  /\ MSBSEL' = multi /\ BCEN' = count
  /\ exec_cmd(cmd, arg)
  /\ cmdrsp' = Answer(cmd)
  /\ IF data THEN beginTransfer ELSE UNCHANGED <<hc_state, CDIHB, DLA>>
  /\ generate_signal({"CC"})
  /\ UNCHANGED <<ibuffer, BLKCNT, BLKCNT_BKP, RD_WML>>

\* Mutant: the count keeps a bit of the block size.
esdhc_write_BLKATTR_unmasked(n) ==
  /\ BLKCNT' = n + CntMod /\ BLKCNT_BKP' = n
  /\ UNCHANGED <<hc_state, ibuffer, MSBSEL, BCEN, CDIHB, DLA, RD_WML, irqVars,
                 cmdrsp, cardVars>>

\* BLKATTR; a write to MMCBOOT falls through to it.
esdhc_write_BLKATTR(n) ==
  /\ BLKCNT' = n /\ BLKCNT_BKP' = n
  /\ UNCHANGED <<hc_state, ibuffer, MSBSEL, BCEN, CDIHB, DLA, RD_WML, irqVars,
                 cmdrsp, cardVars>>

esdhc_write_IRQSTAT(E) ==
  /\ irqstat' = irqstat \ E
  /\ UNCHANGED <<xferVars, RD_WML, irqstaten, irqsigen, sdhc_line, cmdrsp, cardVars>>

esdhc_write_IRQSTATEN(E) ==
  /\ irqstaten' = E
  /\ UNCHANGED <<xferVars, RD_WML, irqstat, irqsigen, sdhc_line, cmdrsp, cardVars>>

\* Bit 0, CC, is not in the mask of writable bits.
esdhc_write_IRQSIGEN(E) ==
  /\ irqsigen' = E \ {"CC"}
  /\ UNCHANGED <<xferVars, RD_WML, irqstat, irqstaten, sdhc_line, cmdrsp, cardVars>>

esdhc_write_WML(n) ==
  /\ RD_WML' = n
  /\ UNCHANGED <<xferVars, irqVars, cmdrsp, cardVars>>

\* Force event: IRQSTAT is replaced.
esdhc_write_FEVT(E) ==
  /\ irqstat' = irqstaten \cap E
  /\ UNCHANGED <<xferVars, RD_WML, irqstaten, irqsigen, sdhc_line, cmdrsp, cardVars>>

\* SYSCTL: RSTA runs do_reset, which leaves the controller state, the buffer
\* and the block counts alone; RSTD is stored and nothing more.
esdhc_write_SYSCTL(rsta, rstd) ==
  /\ IF rsta
       THEN /\ MSBSEL' = FALSE /\ BCEN' = FALSE /\ CDIHB' = FALSE /\ DLA' = FALSE
            /\ RD_WML' = ResetWml
            /\ irqstat' = {} /\ irqstaten' = Events /\ irqsigen' = {}
            /\ cmdrsp' = "NONE"
       ELSE UNCHANGED <<MSBSEL, BCEN, CDIHB, DLA, RD_WML, irqstat, irqstaten,
                        irqsigen, cmdrsp>>
  /\ UNCHANGED <<hc_state, ibuffer, BLKCNT, BLKCNT_BKP, sdhc_line, cardVars>>

\* A read of DATPORT returns and removes a word, zero when there is none.
DATPORT == IF ibuffer = <<>> THEN ZERO ELSE Head(ibuffer)
esdhc_read_DATPORT ==
  /\ ibuffer' = IF ibuffer = <<>> THEN ibuffer ELSE Tail(ibuffer)
  /\ UNCHANGED <<hc_state, BLKCNT, BLKCNT_BKP, MSBSEL, BCEN, CDIHB, DLA, RD_WML,
                 irqVars, cmdrsp, cardVars>>

-----------------------------------------------------------------------------
EsdhcTypeOK ==
  /\ hc_state \in HostStates
  /\ ibuffer \in Seq(Int)
  /\ BLKCNT \in 0..(CntMod - 1) /\ BLKCNT_BKP \in 0..(CntMod - 1)
  /\ MSBSEL \in BOOLEAN /\ BCEN \in BOOLEAN /\ CDIHB \in BOOLEAN /\ DLA \in BOOLEAN
  /\ RD_WML \in Nat
  /\ irqstat \subseteq Events /\ irqstaten \subseteq Events /\ irqsigen \subseteq Events
  /\ cmdrsp \in Answers
  /\ sdhc_line \in BOOLEAN
==============================================================================
