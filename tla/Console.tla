------------------------------ MODULE Console ------------------------------
(***************************************************************************)
(* The UART driven by the read and write routines of dummyos/uart.s or of  *)
(* dumboot/uart.s.  The core executes a batch of instructions between two  *)
(* cycles of the device threads (main.cpp, option -b): Batch is how many   *)
(* characters the loop of each driver can send in one batch.               *)
(***************************************************************************)
EXTENDS Uart

CONSTANTS
  Drivers,     \* the programs considered, of "dummyos" and "dumboot"
  Batch,       \* for each, the writes of UTXD that fit between two device cycles
  MaxWritten   \* bound: the characters written in one behaviour

ASSUME DriverAssumption == Drivers \subseteq {"dummyos", "dumboot"}
ASSUME BatchAssumption == Batch \in [Drivers -> Nat \ {0}] /\ MaxWritten \in Nat
\* The FIFO holds what TRDY lets in at the trigger level of both drivers, 2,
\* and, for dumboot, which does not wait for TRDY, what one batch can send.
ASSUME CapacityAssumption ==
  /\ 2 <= Depth
  /\ "dumboot" \in Drivers => Batch["dumboot"] <= Depth

VARIABLES
  driver,    \* the program the core executes
  pc,        \* where the core is in the driver
  left,      \* characters still to transfer in the current call
  since,     \* writes of UTXD since the last device cycle
  written,   \* history: characters given to write
  received   \* history: characters returned by read

drvVars == <<driver, pc, left, since, written, received>>
consoleVars == <<uartVars, drvVars>>

NewLine == 10

ConsoleInit ==
  /\ UartInit
  /\ driver \in Drivers
  /\ pc = "configure" /\ left = 0 /\ since = 0
  /\ written = <<>> /\ received = <<>>

-----------------------------------------------------------------------------
(* configure_uart.  dummyos: UCR2 = 0x4027, then UCR1 = 0x2201.  dumboot:  *)
(* UCR1 = 1, UCR2 = 0x2127, UCR4 = 0x7C00, UFCR = 0x089E.                  *)

configure_dummyos ==
  /\ driver = "dummyos"
  /\ \/ /\ pc = "configure" /\ pc' = "configure2"
        /\ uart_write_UCR2(TRUE, TRUE, TRUE, 8)
     \/ /\ pc = "configure2" /\ pc' = "main"
        /\ uart_write_UCR1(TRUE, {"TRDY", "RRDY"})
  /\ UNCHANGED <<driver, left, since, written, received>>

configure_dumboot ==
  /\ driver = "dumboot"
  /\ \/ /\ pc = "configure" /\ pc' = "configure2"
        /\ uart_write_UCR1(TRUE, {})
     \/ /\ pc = "configure2" /\ pc' = "configure3"
        /\ uart_write_UCR2(TRUE, TRUE, TRUE, 8)
     \/ /\ pc = "configure3" /\ pc' = "configure4"
        /\ uart_write_UCR4({})
     \/ /\ pc = "configure4" /\ pc' = "main"
        /\ uart_write_UFCR(2, 30)
  /\ UNCHANGED <<driver, left, since, written, received>>

-----------------------------------------------------------------------------
call(n, routine) ==
  /\ ~spinning
  /\ pc = "main"
  /\ left' = n
  /\ pc' = IF n = 0 THEN "main" ELSE routine
  /\ UNCHANGED <<uartVars, driver, since, written, received>>

\* Mutant: both drivers test bit 12.
MaySend_bit12 == TRUE

\* dummyos loops until bit 13 of USR1, TRDY, is set.  dumboot loops while bit
\* 12, RTSD, is set, which no code of the UART sets.
MaySend == driver = "dummyos" => "TRDY" \in usr

write_poll ==
  /\ ~spinning
  /\ pc = "write_poll"
  /\ pc' = IF MaySend THEN "write_char" ELSE "write_poll"
  /\ UNCHANGED <<uartVars, driver, left, since, written, received>>

write_char(c) ==
  /\ pc = "write_char"
  /\ since < Batch[driver]
  /\ uart_write_UTXD(c)
  /\ written' = Append(written, c)
  /\ left' = left - 1
  /\ since' = since + 1
  /\ pc' = IF left = 1 THEN "main" ELSE "write_poll"
  /\ UNCHANGED <<driver, received>>

read_poll ==
  /\ ~spinning
  /\ pc = "read_poll"
  /\ pc' = IF "RDR" \in usr THEN "read_char" ELSE "read_poll"
  /\ UNCHANGED <<uartVars, driver, left, since, written, received>>

\* The low byte of URXD is taken whether or not CHARRDY is set; dumboot also
\* stops at a new line.
URXD == IF uart_enabled /\ rxd_enabled /\ rxd_fifo # <<>> THEN Head(rxd_fifo) ELSE 0
read_char ==
  /\ pc = "read_char"
  /\ uart_read_URXD
  /\ received' = Append(received, URXD)
  /\ left' = left - 1
  /\ pc' = IF left = 1 \/ (driver = "dumboot" /\ URXD = NewLine)
             THEN "main" ELSE "read_poll"
  /\ UNCHANGED <<driver, since, written>>

cpu ==
  \/ configure_dummyos \/ configure_dumboot
  \/ write_poll \/ (\E c \in Char : write_char(c))
  \/ read_poll \/ read_char

calls ==
  \/ \E n \in 0..(MaxWritten - Len(written)) : call(n, "write_poll")
  \/ \E n \in 1..(MaxTyped - Len(received)) : call(n, "read_poll")

device ==
  /\ prc_uart
  /\ since' = 0
  /\ UNCHANGED <<driver, pc, left, written, received>>

ConsoleNext ==
  \/ cpu
  \/ calls
  \/ device
  \/ prc_uart_spins /\ UNCHANGED drvVars
  \/ ((\E c \in Char : type(c)) \/ close) /\ UNCHANGED drvVars

ConsoleSpec == ConsoleInit /\ [][ConsoleNext]_consoleVars

\* The core and the device thread both run again and again.
ConsoleFairSpec == ConsoleSpec /\ WF_consoleVars(cpu) /\ WF_consoleVars(device)

-----------------------------------------------------------------------------
\* Types of the UART and of the driver, the driver's count of characters left
\* never below zero (the read loop ends on equality at dumboot/uart.s:99).
ConsoleTypeOK ==
  /\ UartTypeOK
  /\ pc \in {"configure", "configure2", "configure3", "configure4", "main",
             "write_poll", "write_char", "read_poll", "read_char"}
  /\ left \in Nat /\ driver \in Drivers /\ since \in 0..Batch[driver]
  /\ written \in CharSeq /\ received \in CharSeq

\* uart.cpp:296 "Should not send data when trdy is not high since it can send
\* corrupted data": the dummyos driver writes UTXD only with TRDY up at that
\* instant, although it read USR1 several instructions earlier.  (The loop of
\* dumboot meant for TRDY tests another bit.)
SendsWhenReady ==
  [][\A c \in Char : driver = "dummyos" /\ write_char(c) => "TRDY" \in usr]_consoleVars

\* No character is stored past the end of txd_fifo (the check at uart.cpp:300,
\* commented "Overrun").
FifoInBounds == Len(txd_fifo) <= Depth

\* What the terminal shows, followed by what waits in the transmit FIFO, is
\* what was written: nothing is lost, repeated, reordered or altered.
OutputFaithful == stdout \o txd_fifo = written

\* What the reader got, followed by the receive FIFO and the characters the
\* host still holds, is what was typed: the FIFO never drops one when full.
InputFaithful == received \o rxd_fifo \o stdin = typed

\* A call of write comes to its end: the poll of TRDY does not wait for ever.
\* (At the end of the input the thread of the UART spins and nothing else runs.)
WriteCompletes == (pc \in {"write_poll", "write_char"}) ~> (pc = "main" \/ eof)
============================================================================
