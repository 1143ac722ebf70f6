-------------------------------- MODULE Uart --------------------------------
(***************************************************************************)
(* The UART (armv7/src/uart.h, armv7/src/uart.cpp) between the bus and the *)
(* terminal of the host.                                                   *)
(*                                                                         *)
(* The pair of an array and its pointer (rxd_fifo and rxd_pointer, ...) is *)
(* a sequence.  Characters are numbers.  usr holds the status flags that   *)
(* USR1 and USR2 show and the code ever changes (TXDC always equals TXFE), *)
(* ien the interrupt enables of UCR1 and UCR4 that have an effect.         *)
(***************************************************************************)
EXTENDS Integers, Sequences

CONSTANTS
  Depth,     \* 32, the elements of rxd_fifo and of txd_fifo
  Char,      \* the characters considered
  MaxTyped,  \* bound: the characters typed in one behaviour
  MayClose   \* TRUE when the host may close the standard input

ASSUME DepthAssumption == Depth \in Nat \ {0}
ASSUME CharAssumption == Char \subseteq 0..255
ASSUME TypedAssumption == MaxTyped \in Nat /\ MayClose \in BOOLEAN

VARIABLES
  rxd_fifo, txd_fifo,
  uart_enabled, rxd_enabled, txd_enabled,
  ws,          \* word size, 7 or 8 bits
  ien,         \* enabled interrupt causes
  txtl, rxtl,  \* trigger levels
  usr,         \* status flags
  uart_line,   \* level last passed to tzic.interrupt(UART_IRQNUM, ...)
  stdin,       \* typed and not yet read by the module
  typed,       \* everything typed
  eof,         \* the host has closed the standard input
  stdout,      \* everything the module printed
  spinning     \* prc_uart is inside its receive loop for good

ctrlVars == <<uart_enabled, rxd_enabled, txd_enabled, ws, ien, txtl, rxtl>>
hostVars == <<stdin, typed, eof, stdout>>
uartVars == <<rxd_fifo, txd_fifo, ctrlVars, usr, uart_line, hostVars, spinning>>

-----------------------------------------------------------------------------
UCR1Causes == {"TRDY", "RRDY", "TXMPTY"}
UCR4Causes == {"TC", "DR"}

\* Mutant: the transmit trigger level is compared like an inclusive bound.
update_flags_inclusive(rx, tx) ==
  (IF rx > 0 THEN {"RDR"} ELSE {}) \cup (IF rx > rxtl THEN {"RRDY"} ELSE {})
  \cup (IF tx = 0 THEN {"TXFE"} ELSE {}) \cup (IF tx <= txtl THEN {"TRDY"} ELSE {})
\* Mutant: it is compared the way the receiver's is.
update_flags_mirrored(rx, tx) ==
  (IF rx > 0 THEN {"RDR"} ELSE {}) \cup (IF rx > rxtl THEN {"RRDY"} ELSE {})
  \cup (IF tx = 0 THEN {"TXFE"} ELSE {}) \cup (IF tx > txtl THEN {"TRDY"} ELSE {})

\* update_flags, from the two pointers and the trigger levels.
update_flags(rx, tx) ==
  (IF rx > 0 THEN {"RDR"} ELSE {}) \cup (IF rx > rxtl THEN {"RRDY"} ELSE {})
  \cup (IF tx = 0 THEN {"TXFE"} ELSE {}) \cup (IF tx < txtl THEN {"TRDY"} ELSE {})

\* The flag behind each interrupt cause.
Cause == [TRDY |-> "TRDY", RRDY |-> "RRDY", TXMPTY |-> "TXFE", TC |-> "TXFE", DR |-> "RDR"]
Interrupting(flags) == \E e \in ien : Cause[e] \in flags

\* c & 0x7F in the 7-bit mode
Cut(c) == IF ws = 7 THEN c % 128 ELSE c
CutAll(s) == [k \in DOMAIN s |-> Cut(s[k])]

UartInit ==
  /\ rxd_fifo = <<>> /\ txd_fifo = <<>>
  /\ uart_enabled = FALSE /\ rxd_enabled = FALSE /\ txd_enabled = FALSE
  /\ ws = 7
  /\ ien = {}
  /\ txtl = 2 /\ rxtl = 1
  /\ usr = {"TRDY", "TXFE"}
  /\ uart_line = FALSE
  /\ stdin = <<>> /\ typed = <<>> /\ eof = FALSE /\ stdout = <<>>
  /\ spinning = FALSE

-----------------------------------------------------------------------------
\* The host: one more character is typed.
type(c) ==
  /\ ~spinning /\ ~eof
  /\ Len(typed) < MaxTyped
  /\ stdin' = Append(stdin, c)
  /\ typed' = Append(typed, c)
  /\ UNCHANGED <<rxd_fifo, txd_fifo, ctrlVars, usr, uart_line, eof, stdout, spinning>>

\* The host: end of file, the end of a pipe or of a file given as input.
close ==
  /\ MayClose /\ ~spinning /\ ~eof
  /\ eof' = TRUE
  /\ UNCHANGED <<rxd_fifo, txd_fifo, ctrlVars, usr, uart_line, stdin, typed, stdout, spinning>>

\* One cycle of prc_uart: receive while there is input and room, transmit the
\* whole FIFO, recompute the flags, drive the line.  The element at index Depth
\* of txd_fifo is the low byte of rxd_pointer: what is sent for it is unknown.
Min2(a, b) == IF a < b THEN a ELSE b
Received == IF rxd_enabled THEN Min2(Len(stdin), Depth - Len(rxd_fifo)) ELSE 0
RunsDry == eof /\ rxd_enabled /\ Len(rxd_fifo) + Len(stdin) < Depth
\* Mutant: one character is sent and the FIFO forgotten.
Sent_first == {CutAll(SubSeq(txd_fifo, 1, Min2(1, Len(txd_fifo))))}

Sent == IF Len(txd_fifo) <= Depth THEN {CutAll(txd_fifo)}
        ELSE {Append(CutAll(SubSeq(txd_fifo, 1, Depth)), c) : c \in Char}

TxdAfter == IF txd_enabled THEN <<>> ELSE txd_fifo

prc_uart_cycle ==
  /\ ~spinning /\ uart_enabled /\ ~RunsDry
  /\ rxd_fifo' = rxd_fifo \o CutAll(SubSeq(stdin, 1, Received))
  /\ stdin' = SubSeq(stdin, Received + 1, Len(stdin))
  /\ txd_fifo' = TxdAfter
  /\ IF txd_enabled THEN \E s \in Sent : stdout' = stdout \o s
                    ELSE UNCHANGED stdout
  /\ usr' = update_flags(Len(rxd_fifo'), Len(txd_fifo'))
  /\ uart_line' = Interrupting(usr')
  /\ UNCHANGED <<ctrlVars, typed, eof, spinning>>

\* At end of file select() reports input and read() returns 0: the loop
\* continues for ever once the typed characters are used up.
prc_uart_eof ==
  /\ ~spinning /\ uart_enabled /\ RunsDry
  /\ rxd_fifo' = rxd_fifo \o CutAll(stdin)
  /\ stdin' = <<>>
  /\ spinning' = TRUE
  /\ UNCHANGED <<txd_fifo, ctrlVars, usr, uart_line, typed, eof, stdout>>

prc_uart_disabled == ~spinning /\ ~uart_enabled /\ UNCHANGED uartVars
prc_uart_spins == spinning /\ UNCHANGED uartVars

prc_uart == prc_uart_cycle \/ prc_uart_eof \/ prc_uart_disabled

-----------------------------------------------------------------------------
(* The bus side.  No register access happens while a thread spins.         *)

\* Mutant: the character is read and not removed.
uart_read_URXD_peeks == ~spinning /\ UNCHANGED uartVars

\* A read of URXD pops a character; it returns no character (CHARRDY clear)
\* when the receiver is off or the FIFO empty.
uart_read_URXD ==
  /\ ~spinning
  /\ IF uart_enabled /\ rxd_enabled /\ rxd_fifo # <<>>
       THEN /\ rxd_fifo' = Tail(rxd_fifo)
            /\ usr' = update_flags(Len(rxd_fifo'), Len(txd_fifo))
       ELSE UNCHANGED <<rxd_fifo, usr>>
  /\ UNCHANGED <<txd_fifo, ctrlVars, uart_line, hostVars, spinning>>

\* A write of UTXD: the overrun check lets a character in at index Depth,
\* which lands in the low byte of rxd_pointer: the receive FIFO then seems to
\* hold something else (a pointer past the array is not modelled).
uart_write_UTXD(c) ==
  /\ ~spinning
  /\ IF uart_enabled /\ txd_enabled /\ Len(txd_fifo) # Depth + 1
       THEN /\ txd_fifo' = Append(txd_fifo, Cut(c))
            /\ IF Len(txd_fifo) = Depth
                 THEN rxd_fifo' \in UNION {[1..n -> Char] : n \in 0..Depth}
                 ELSE rxd_fifo' = rxd_fifo
            /\ usr' = update_flags(Len(rxd_fifo'), Len(txd_fifo'))
       ELSE UNCHANGED <<rxd_fifo, txd_fifo, usr>>
  /\ UNCHANGED <<ctrlVars, uart_line, hostVars, spinning>>

uart_write_UCR1(en, causes) ==
  /\ ~spinning
  /\ uart_enabled' = en
  /\ ien' = (ien \ UCR1Causes) \cup causes
  /\ UNCHANGED <<rxd_fifo, txd_fifo, rxd_enabled, txd_enabled, ws, txtl, rxtl,
                 usr, uart_line, hostVars, spinning>>

\* UCR2: writing 1 to SRST resets everything but the three enables, of which
\* two are then assigned with the word size.
uart_write_UCR2(srst, rxen, txen, wordsize) ==
  /\ ~spinning
  /\ IF srst
       THEN /\ rxd_fifo' = <<>> /\ txd_fifo' = <<>>
            /\ ien' = {} /\ txtl' = 2 /\ rxtl' = 1
            /\ usr' = {"TRDY", "TXFE"}
       ELSE UNCHANGED <<rxd_fifo, txd_fifo, ien, txtl, rxtl, usr>>
  /\ rxd_enabled' = rxen /\ txd_enabled' = txen /\ ws' = wordsize
  /\ UNCHANGED <<uart_enabled, uart_line, hostVars, spinning>>

uart_write_UCR4(causes) ==
  /\ ~spinning
  /\ ien' = (ien \ UCR4Causes) \cup causes
  /\ UNCHANGED <<rxd_fifo, txd_fifo, uart_enabled, rxd_enabled, txd_enabled, ws,
                 txtl, rxtl, usr, uart_line, hostVars, spinning>>

uart_write_UFCR(tl, rl) ==
  /\ ~spinning
  /\ txtl' = tl /\ rxtl' = rl
  /\ UNCHANGED <<rxd_fifo, txd_fifo, uart_enabled, rxd_enabled, txd_enabled, ws,
                 ien, usr, uart_line, hostVars, spinning>>

\* The other registers, and the write-one-to-clear bits of USR1 and USR2, hold
\* no state that anything reads.
-----------------------------------------------------------------------------
CharSeq == Seq(0..255)
UartTypeOK ==
  /\ rxd_fifo \in CharSeq /\ txd_fifo \in CharSeq
  /\ uart_enabled \in BOOLEAN /\ rxd_enabled \in BOOLEAN /\ txd_enabled \in BOOLEAN
  /\ ws \in {7, 8}
  /\ ien \subseteq UCR1Causes \cup UCR4Causes
  /\ txtl \in 0..31 /\ rxtl \in 0..31
  /\ usr \subseteq {"RDR", "RRDY", "TXFE", "TRDY"}
  /\ uart_line \in BOOLEAN /\ spinning \in BOOLEAN /\ eof \in BOOLEAN
  /\ stdin \in CharSeq /\ typed \in CharSeq /\ stdout \in CharSeq
=============================================================================
