-------------------------------- MODULE SdHost --------------------------------
(***************************************************************************)
(* The controller and its card under software that issues any command with *)
(* any transfer type at any time.                                          *)
(***************************************************************************)
EXTENDS Esdhc

CONSTANTS
  Cmds,      \* the command indices software uses
  Args,      \* their arguments
  EventWords,\* the words software writes to the interrupt registers
  MaxBuffer  \* bound: the words ibuffer, an unbounded queue, may hold

ASSUME SoftwareAssumption ==
  Cmds \subseteq 0..63 /\ Args \subseteq Nat /\ MaxBuffer \in Nat
  /\ EventWords \subseteq SUBSET Events

hostVars == <<cardVars, esdhcVars>>

HostInit == CardInit /\ EsdhcInit

software ==
  \/ \E c \in Cmds, a \in Args, data, multi, count \in BOOLEAN :
       esdhc_write_XFERTYP(c, a, data, multi, count)
  \/ \E n \in 0..(CntMod - 1) : esdhc_write_BLKATTR(n)
  \/ \E E \in EventWords : \/ esdhc_write_IRQSTAT(E) \/ esdhc_write_IRQSTATEN(E)
                              \/ esdhc_write_IRQSIGEN(E) \/ esdhc_write_FEVT(E)
  \/ \E n \in 0..ResetWml : esdhc_write_WML(n)
  \/ \E rsta, rstd \in BOOLEAN : esdhc_write_SYSCTL(rsta, rstd)
  \/ esdhc_read_DATPORT

HostNext ==
  \/ ~exited /\ software
  \/ ~exited /\ exec_state_data /\ UNCHANGED esdhcVars
  \/ ~exited /\ Len(Buffer) <= MaxBuffer /\ prc_ESDHCV2
  \/ exited /\ UNCHANGED hostVars

HostSpec == HostInit /\ [][HostNext]_hostVars

-----------------------------------------------------------------------------
\* Types of card and controller under any software: BLKCNT, decremented before
\* it is compared with zero, wraps within its 16 bits.
HostTypeOK == CardTypeOK /\ EsdhcTypeOK

\* A driver that polls PRSSTAT sees the data line busy only while the
\* controller takes blocks, whatever commands and resets overlap.
PresentState == CDIHB = DLA /\ (DLA => hc_state = "HOST_READ_TRANSFER")

\* The controller is idle only with a drained buffer: no word of an earlier
\* transfer is in front of the next one, whatever software does in between.
IdleDrained == hc_state = "IDLE" => ibuffer = <<>>
===============================================================================
