-------------------------------- MODULE SdCard --------------------------------
(***************************************************************************)
(* The SD card (armv7/src/sd.h, armv7/src/sd.cpp).                         *)
(*                                                                         *)
(* Lengths count the 32-bit words of the host's data port.  A word of the  *)
(* image is its address; SCR, ZERO and JUNK are the words of the SCR       *)
(* register, of a SWITCH status and of a line never filled.  card_selected *)
(* and bus_width are written and never read: they are left out.            *)
(***************************************************************************)
EXTENDS Integers, Sequences

CONSTANTS
  LineSize,     \* 4096 bytes, the size of data_line
  BlockLenMax,  \* 4098 bytes, the largest length CMD16 accepts
  SwitchLen,    \* 64 bytes, the answer of CMD6
  ScrLen,       \* SCR_SIZE, 8 bytes
  MaxBlock      \* bound: the block number where reading ahead stops

ASSUME LengthAssumption == /\ LineSize \in Nat \ {0} /\ BlockLenMax \in Nat
                           /\ SwitchLen \in 1..LineSize /\ ScrLen \in 1..LineSize
                           /\ MaxBlock \in Nat

VARIABLES
  sd_state,                \* current_state
  single_block_p,
  application_specific_p,  \* the next command is application specific
  blocklen, current_block,
  data_line,               \* the LineSize words of the line buffer
  data_line_busy,          \* it holds a block nobody has read
  rca,
  exited                   \* a handler called exit(1)

cardVars == <<sd_state, single_block_p, application_specific_p, blocklen,
              current_block, data_line, data_line_busy, rca, exited>>

SdStates == {"IDLE", "READY", "IDENT", "STBY", "TRAN", "DATA", "RCV", "PRG", "DIS", "INA"}
RCA == 1           \* the address CMD3 publishes
RCAs == 0..2       \* 2: any other value
SCR == -1
ZERO == -2
JUNK == -3

\* blocklen, current_block and single_block_p are not initialised; every path
\* to SD_DATA assigns the last two.
CardInit ==
  /\ sd_state = "IDLE"
  /\ single_block_p = FALSE /\ application_specific_p = FALSE
  /\ blocklen \in 0..BlockLenMax
  /\ current_block = 0
  /\ data_line = [i \in 1..LineSize |-> JUNK]
  /\ data_line_busy = FALSE
  /\ rca = 0
  /\ exited = FALSE

-----------------------------------------------------------------------------
\* memcpy of len words f(0), f(1), ... to the line.
Fill(len, f(_)) == [i \in 1..LineSize |-> IF i <= len THEN f(i - 1) ELSE data_line[i]]

\* prc_sdcard: in state DATA, send the next block to a free line.  A block
\* longer than the line runs over rca, the next member of the object.
mayFillLine == sd_state = "DATA" /\ ~data_line_busy /\ current_block < MaxBlock
blockWord(i) == current_block * blocklen + i

\* Mutant: the same block is sent again.
nextBlock_same == current_block

nextBlock == current_block + 1

exec_state_data ==
  /\ mayFillLine
  /\ data_line' = Fill(blocklen, blockWord)
  /\ IF blocklen > LineSize THEN rca' \in RCAs ELSE rca' = rca
  /\ current_block' = nextBlock
  /\ data_line_busy' = TRUE
  /\ sd_state' = IF single_block_p THEN "TRAN" ELSE "DATA"
  /\ UNCHANGED <<single_block_p, application_specific_p, blocklen, exited>>

prc_sdcard_idle == ~mayFillLine /\ UNCHANGED cardVars

\* read_dataline: what the host takes, blocklen words whatever it asked for.
LineWords == SubSeq(data_line, 1, IF blocklen < LineSize THEN blocklen ELSE LineSize)

-----------------------------------------------------------------------------
(* The command handlers.  Each says what becomes of every variable but     *)
(* application_specific_p and exited.                                      *)

toState(s) == /\ sd_state' = s
              /\ UNCHANGED <<single_block_p, blocklen, current_block, data_line,
                             data_line_busy, rca>>
noEffect == toState(sd_state)

cmd0_handler ==
  /\ sd_state' = "IDLE" /\ data_line_busy' = FALSE
  /\ UNCHANGED <<single_block_p, blocklen, current_block, data_line, rca>>

cmd2_handler == toState(IF sd_state = "READY" THEN "IDENT" ELSE sd_state)

cmd3_handler ==
  IF sd_state \in {"IDENT", "STBY"}
    THEN /\ sd_state' = "STBY" /\ rca' = RCA
         /\ UNCHANGED <<single_block_p, blocklen, current_block, data_line, data_line_busy>>
    ELSE noEffect

sendLine(len, word) ==
  /\ blocklen' = len
  /\ data_line' = Fill(len, LAMBDA i : word)
  /\ data_line_busy' = TRUE
  /\ UNCHANGED <<sd_state, single_block_p, current_block, rca>>

cmd7_handler(arg) ==
  toState(CASE arg = rca /\ arg # 0 /\ sd_state = "STBY" -> "TRAN"
            [] arg = rca /\ arg # 0 /\ sd_state = "DIS" -> "PRG"
            [] ~(arg = rca /\ arg # 0) /\ sd_state \in {"TRAN", "DATA"} -> "STBY"
            [] OTHER -> sd_state)

cmd12_handler == toState(CASE sd_state = "DATA" -> "TRAN"
                           [] sd_state = "RCV" -> "PRG"
                           [] OTHER -> sd_state)

cmd16_handler(arg) ==
  /\ blocklen' = IF sd_state = "TRAN" /\ arg <= BlockLenMax THEN arg ELSE blocklen
  /\ UNCHANGED <<sd_state, single_block_p, current_block, data_line, data_line_busy, rca>>

\* CMD17 forgets an unread block, CMD18 does not.
startRead(arg, single, busy) ==
  /\ current_block' = arg /\ single_block_p' = single
  /\ data_line_busy' = busy
  /\ sd_state' = "DATA"
  /\ UNCHANGED <<blocklen, data_line, rca>>
cmd17_handler(arg) == IF sd_state = "TRAN" THEN startRead(arg, TRUE, FALSE) ELSE noEffect
cmd18_handler(arg) ==
  IF sd_state = "TRAN" THEN startRead(arg, FALSE, data_line_busy) ELSE noEffect

acmd41_handler == toState(IF sd_state = "IDLE" THEN "READY" ELSE sd_state)

\* CMD6 in mode 1, CMD16 beyond the limit and unknown commands exit(1).
SwitchMode1 == 1
\* Mutant: CMD18 has no handler.
Refused_no18(cmd, arg) ==
  \/ ~application_specific_p /\ cmd \notin {0, 2, 3, 6, 7, 8, 9, 12, 16, 17, 43, 55}
  \/ application_specific_p /\ cmd \notin {6, 41, 51}

Refused(cmd, arg) ==
  IF application_specific_p
    THEN cmd \notin {6, 41, 51}
    ELSE \/ cmd \notin {0, 2, 3, 6, 7, 8, 9, 12, 16, 17, 18, 43, 55}
         \/ cmd = 6 /\ arg = SwitchMode1
         \/ cmd = 16 /\ sd_state = "TRAN" /\ arg > BlockLenMax

exec_cmd(cmd, arg) ==
  /\ exited' = Refused(cmd, arg)
  /\ application_specific_p' = (/\ ~application_specific_p
                                /\ cmd = 55
                                /\ sd_state \notin {"READY", "INA", "IDENT"})
  /\ CASE Refused(cmd, arg) -> noEffect
       [] application_specific_p /\ cmd = 41 -> acmd41_handler
       [] application_specific_p /\ cmd = 51 -> sendLine(ScrLen, SCR)
       [] application_specific_p /\ cmd = 6 -> noEffect
       [] ~application_specific_p /\ cmd = 0 -> cmd0_handler
       [] ~application_specific_p /\ cmd = 2 -> cmd2_handler
       [] ~application_specific_p /\ cmd = 3 -> cmd3_handler
       [] ~application_specific_p /\ cmd = 6 -> sendLine(SwitchLen, ZERO)
       [] ~application_specific_p /\ cmd = 7 -> cmd7_handler(arg)
       [] ~application_specific_p /\ cmd = 12 -> cmd12_handler
       [] ~application_specific_p /\ cmd = 16 -> cmd16_handler(arg)
       [] ~application_specific_p /\ cmd = 17 -> cmd17_handler(arg)
       [] ~application_specific_p /\ cmd = 18 -> cmd18_handler(arg)
       [] OTHER -> noEffect

\* What the answer tells the host; "ANY" where the handler leaves it
\* uninitialised or the model has no use for it.
Answers == {"IF_COND", "OCR", "CID", "RCA", "NONE", "ANY"}
Answer(cmd) ==
  CASE application_specific_p /\ cmd = 41 -> IF sd_state = "IDLE" THEN "OCR" ELSE "ANY"
    [] ~application_specific_p /\ cmd = 2 -> IF sd_state = "READY" THEN "CID" ELSE "NONE"
    [] ~application_specific_p /\ cmd = 3 -> IF sd_state \in {"IDENT", "STBY"} THEN "RCA" ELSE "NONE"
    [] ~application_specific_p /\ cmd = 8 -> IF sd_state = "IDLE" THEN "IF_COND" ELSE "ANY"
    [] OTHER -> "ANY"

-----------------------------------------------------------------------------
CardTypeOK ==
  /\ sd_state \in SdStates
  /\ single_block_p \in BOOLEAN /\ application_specific_p \in BOOLEAN
  /\ blocklen \in 0..BlockLenMax \cup {SwitchLen, ScrLen}
  /\ current_block \in Nat
  /\ data_line \in [1..LineSize -> Int]
  /\ data_line_busy \in BOOLEAN /\ exited \in BOOLEAN
  /\ rca \in RCAs
===============================================================================
