---------------------------- MODULE Console_proofs ----------------------------
(***************************************************************************)
(* Both drivers transfer characters without loss, for every depth of the   *)
(* FIFOs that holds a batch and for every input and output.                *)
(***************************************************************************)
EXTENDS Console, SequenceTheorems, TLAPS

USE DEF CharSeq

Configuring == pc \in {"configure", "configure2", "configure3", "configure4"}
\* before the write of UCR2, which resets the UART and turns both channels on
BeforeReset == pc = "configure" \/ (driver = "dumboot" /\ pc = "configure2")
Sending == pc \in {"write_poll", "write_char"}
Receiving == pc \in {"read_poll", "read_char"}

\* Where the driver is tells how the UART is configured.  Before the reset the
\* FIFOs are empty, so the reset loses nothing.
Phase ==
  /\ BeforeReset => ~rxd_enabled /\ ~txd_enabled /\ rxd_fifo = <<>>
  /\ ~BeforeReset => rxd_enabled /\ txd_enabled /\ ws = 8
  /\ Configuring => txd_fifo = <<>> /\ written = <<>> /\ received = <<>> /\ stdout = <<>>
  /\ ~Configuring \/ (driver = "dumboot" /\ pc # "configure") => uart_enabled
  /\ Sending \/ Receiving => left > 0

\* The flags the drivers poll are true of the FIFOs, also a few instructions
\* after they were read.
FlagsMean ==
  /\ txtl = 2
  /\ "TRDY" \in usr <=> Len(txd_fifo) < 2
  /\ "RDR" \in usr => rxd_fifo # <<>>
  /\ pc = "write_char" /\ driver = "dummyos" => "TRDY" \in usr
  /\ pc = "read_char" => rxd_fifo # <<>>

\* UartTypeOK, by kind of variable.
Queues == /\ rxd_fifo \in CharSeq /\ txd_fifo \in CharSeq
          /\ stdin \in CharSeq /\ typed \in CharSeq /\ stdout \in CharSeq
Switches == /\ uart_enabled \in BOOLEAN /\ rxd_enabled \in BOOLEAN /\ txd_enabled \in BOOLEAN
            /\ uart_line \in BOOLEAN /\ spinning \in BOOLEAN /\ eof \in BOOLEAN
Levels == ws \in {7, 8} /\ txtl \in 0..31 /\ rxtl \in 0..31
Flags == ien \subseteq UCR1Causes \cup UCR4Causes /\ usr \subseteq {"RDR", "RRDY", "TXFE", "TRDY"}

\* How many characters can wait: dummyos is held back by TRDY, dumboot only by
\* the end of its batch, at which the thread empties the FIFO.
Room ==
  /\ Len(rxd_fifo) <= Depth
  /\ driver = "dummyos" => Len(txd_fifo) <= 2
  /\ driver = "dumboot" => Len(txd_fifo) <= Depth /\ (~spinning => Len(txd_fifo) <= since)

ConsoleInv == ConsoleTypeOK /\ Phase /\ FlagsMean /\ Room /\ OutputFaithful /\ InputFaithful

-----------------------------------------------------------------------------
(* Sequences.                                                              *)

\* In the 8-bit mode a character passes unaltered (uart.cpp:164, 303).
LEMMA CutIsIdentity ==
  ASSUME ws = 8, NEW s \in CharSeq
  PROVE  CutAll(s) = s
BY DEF CutAll, Cut

\* A queue cut at any place and put together again.
LEMMA CutAndJoin ==
  ASSUME NEW S, NEW s \in Seq(S), NEW n \in 0..Len(s)
  PROVE  /\ SubSeq(s, 1, n) \in Seq(S) /\ SubSeq(s, n + 1, Len(s)) \in Seq(S)
         /\ Len(SubSeq(s, 1, n)) = n
         /\ SubSeq(s, 1, n) \o SubSeq(s, n + 1, Len(s)) = s
<1>1. Len(s) \in Nat /\ \A i \in 1..Len(s) : s[i] \in S
  BY ElementOfSeq, LenProperties
<1>2. SubSeq(s, 1, n) \in Seq(S) /\ Len(SubSeq(s, 1, n)) = n
  BY <1>1, SubSeqProperties
<1>3. SubSeq(s, n + 1, Len(s)) \in Seq(S) /\ Len(SubSeq(s, n + 1, Len(s))) = Len(s) - n
  BY <1>1, SubSeqProperties
<1>4. SubSeq(s, 1, n) \o SubSeq(s, n + 1, Len(s)) = SubSeq(s, 1, Len(s))
  <2>1. 1 \in 1..(Len(s) + 1) /\ n \in (1 - 1)..Len(s) /\ Len(s) \in n..Len(s)
    BY <1>1
  <2> QED BY <2>1, ConcatAdjacentSubSeq
<1>5. SubSeq(s, 1, Len(s)) = s
  BY SubSeqFull
<1> QED BY <1>2, <1>3, <1>4, <1>5

\* One more element at the end of the second of two queues.
LEMMA AppendToSecond ==
  ASSUME NEW S, NEW s \in Seq(S), NEW t \in Seq(S), NEW c \in S
  PROVE  s \o Append(t, c) = Append(s \o t, c)
OBVIOUS

\* The head of the second of two queues moves to the end of the first.
LEMMA MoveHead ==
  ASSUME NEW S, NEW s \in Seq(S), NEW t \in Seq(S), t # <<>>
  PROVE  Append(s, Head(t)) \o Tail(t) = s \o t
OBVIOUS

-----------------------------------------------------------------------------
(* The actions, one lemma for each.                                        *)

\* What update_flags (uart.cpp:193) says of the two FIFOs at trigger level 2.
LEMMA FlagsTell ==
  ASSUME txtl = 2, NEW rx \in Nat, NEW tx \in Nat
  PROVE  /\ update_flags(rx, tx) \subseteq {"RDR", "RRDY", "TXFE", "TRDY"}
         /\ "TRDY" \in update_flags(rx, tx) <=> tx < 2
         /\ "RDR" \in update_flags(rx, tx) <=> rx > 0
BY DEF update_flags

\* The types of the UART, kind by kind.
LEMMA TypeByKind ==
  /\ UartTypeOK <=> Queues /\ Switches /\ Levels /\ Flags
  /\ UartTypeOK' <=> Queues' /\ Switches' /\ Levels' /\ Flags'
BY DEF UartTypeOK, Queues, Switches, Levels, Flags

\* Power on: nothing is configured, every queue is empty.
LEMMA InitHolds ==
  ConsoleInit => ConsoleInv
<1> SUFFICES ASSUME ConsoleInit PROVE ConsoleInv
  OBVIOUS
<1> USE DEF ConsoleInit, UartInit
<1>1. UartTypeOK
  <2>1. Queues
    BY DEF Queues
  <2>2. Switches
    BY DEF Switches
  <2>3. Levels /\ Flags
    BY DEF Levels, Flags
  <2> QED BY <2>1, <2>2, <2>3, TypeByKind
<1>a. Batch[driver] \in Nat \ {0}
  BY BatchAssumption
<1>b. ConsoleTypeOK
  BY <1>1, <1>a DEF ConsoleTypeOK
<1>2. Phase
  BY DEF Phase, BeforeReset, Configuring, Sending, Receiving
<1>3. FlagsMean
  BY DEF FlagsMean
<1>4. Room
  BY DepthAssumption DEF Room
<1>5. OutputFaithful /\ InputFaithful
  BY DEF OutputFaithful, InputFaithful
<1> QED BY <1>b, <1>2, <1>3, <1>4, <1>5 DEF ConsoleInv

\* The writes of configure_uart: UCR2 resets FIFOs that are still empty, and
\* the characters typed meanwhile wait at the host.
LEMMA ConfigureKeeps ==
  ASSUME ConsoleInv, configure_dummyos \/ configure_dumboot
  PROVE  ConsoleInv'
<1> USE DEF ConsoleInv, ctrlVars, hostVars,
            uart_write_UCR1, uart_write_UCR2, uart_write_UCR4, uart_write_UFCR
<1>1. Phase'
  <2> USE DEF Phase, BeforeReset, Configuring, Sending, Receiving
  <2>1. CASE configure_dummyos
    BY <2>1 DEF configure_dummyos
  <2>2. CASE configure_dumboot
    <3> USE <2>2 DEF configure_dumboot
    <3>1. CASE pc = "configure"
      BY <3>1
    <3>2. CASE pc = "configure2"
      BY <3>2
    <3>3. CASE pc \in {"configure3", "configure4"}
      BY <3>3
    <3> QED BY <3>1, <3>2, <3>3
  <2> QED BY <2>1, <2>2
<1>2. /\ rxd_fifo' = rxd_fifo /\ txd_fifo' = txd_fifo
      /\ UNCHANGED <<driver, left, since, written, received, uart_line, hostVars, spinning>>
  BY DEF configure_dummyos, configure_dumboot, Phase, BeforeReset, Configuring
<1>3. UartTypeOK'
  <2> Queues /\ Switches /\ Levels /\ Flags
    BY TypeByKind DEF ConsoleTypeOK
  <2>1. Queues'
    BY <1>2 DEF Queues
  <2>2. Switches'
    BY DEF configure_dummyos, configure_dumboot, Switches
  <2>3. Levels'
    <3>1. ws' = ws \/ ws' = 8
      BY DEF configure_dummyos, configure_dumboot
    <3>2. txtl' = txtl \/ txtl' = 2
      BY DEF configure_dummyos, configure_dumboot
    <3>3. rxtl' = rxtl \/ rxtl' = 1 \/ rxtl' = 30
      BY DEF configure_dummyos, configure_dumboot
    <3> QED BY <3>1, <3>2, <3>3 DEF Levels
  <2>4. Flags'
    BY DEF configure_dummyos, configure_dumboot, Flags, UCR1Causes, UCR4Causes
  <2> QED BY <2>1, <2>2, <2>3, <2>4, TypeByKind
<1>4. ConsoleTypeOK'
  BY <1>2, <1>3 DEF ConsoleTypeOK, configure_dummyos, configure_dumboot
<1>5. FlagsMean'
  BY DEF FlagsMean, configure_dummyos, configure_dumboot
<1>6. Room'
  BY <1>2 DEF Room
<1>7. OutputFaithful' /\ InputFaithful'
  BY <1>2 DEF OutputFaithful, InputFaithful
<1> QED BY <1>1, <1>4, <1>5, <1>6, <1>7

\* A call of read or of write, and the two polls: TRDY and RDR stay true from
\* the poll to the transfer, and no character moves.
LEMMA PollKeeps ==
  ASSUME ConsoleInv, calls \/ write_poll \/ read_poll
  PROVE  ConsoleInv'
<1> USE DEF ConsoleInv
<1>1. /\ UNCHANGED <<uartVars, driver, since, written, received>>
      /\ ~spinning /\ left' \in Nat
      /\ \/ pc = "main" /\ pc' = "main"
         \/ pc = "main" /\ pc' \in {"write_poll", "read_poll"} /\ left' > 0
         \/ pc = "write_poll" /\ pc' = "write_poll" /\ left' = left
         \/ pc = "write_poll" /\ pc' = "write_char" /\ left' = left /\ MaySend
         \/ pc = "read_poll" /\ pc' = "read_poll" /\ left' = left
         \/ pc = "read_poll" /\ pc' = "read_char" /\ left' = left /\ "RDR" \in usr
  <2>1. CASE calls
    BY <2>1, BatchAssumption, TypedAssumption DEF calls, call, ConsoleTypeOK
  <2>2. CASE write_poll
    BY <2>2 DEF write_poll, ConsoleTypeOK
  <2>3. CASE read_poll
    BY <2>3 DEF read_poll, ConsoleTypeOK
  <2> QED BY <2>1, <2>2, <2>3
<1> USE <1>1 DEF uartVars, ctrlVars, hostVars
<1>2. ConsoleTypeOK'
  BY DEF ConsoleTypeOK, UartTypeOK
<1>3. Phase'
  BY DEF Phase, BeforeReset, Configuring, Sending, Receiving
<1>4. FlagsMean'
  BY DEF FlagsMean, MaySend
<1>5. Room'
  BY DEF Room
<1>6. OutputFaithful' /\ InputFaithful'
  BY DEF OutputFaithful, InputFaithful
<1> QED BY <1>2, <1>3, <1>4, <1>5, <1>6

\* A write of UTXD: there is room, so the character goes to the end of the
\* transmit FIFO and nothing else moves.
LEMMA WriteKeeps ==
  ASSUME ConsoleInv, NEW c \in Char, write_char(c)
  PROVE  ConsoleInv'
<1> USE DEF ConsoleInv
<1>1. c \in 0..255 /\ Cut(c) = c
  BY CharAssumption DEF write_char, Phase, Cut, BeforeReset
<1>2. /\ Len(txd_fifo) < Depth /\ Len(txd_fifo) \in Nat
      /\ driver = "dummyos" => Len(txd_fifo) < 2
      /\ driver = "dumboot" => Len(txd_fifo) <= since
      /\ since < Batch[driver] /\ Batch[driver] \in Nat /\ since \in Nat
  <2>1. Len(txd_fifo) \in Nat /\ driver \in Drivers /\ since \in Nat /\ ~spinning
    BY DEF ConsoleTypeOK, UartTypeOK, write_char, uart_write_UTXD
  <2>2. Batch[driver] \in Nat /\ since < Batch[driver]
    BY <2>1, BatchAssumption DEF write_char
  <2>3. CASE driver = "dummyos"
    BY <2>1, <2>2, <2>3, CapacityAssumption, DepthAssumption DEF FlagsMean, write_char
  <2>4. CASE driver = "dumboot"
    BY <2>1, <2>2, <2>4, CapacityAssumption, DepthAssumption DEF Room, write_char
  <2> QED BY <2>1, <2>2, <2>3, <2>4, DriverAssumption
<1>3. /\ txd_fifo' = Append(txd_fifo, c) /\ rxd_fifo' = rxd_fifo
      /\ usr' = update_flags(Len(rxd_fifo), Len(txd_fifo) + 1)
      /\ UNCHANGED <<ctrlVars, uart_line, hostVars, spinning>>
  <2>1. uart_enabled /\ txd_enabled /\ Len(txd_fifo) # Depth + 1 /\ Len(txd_fifo) # Depth
    BY <1>2, DepthAssumption DEF write_char, Phase, Configuring, BeforeReset
  <2>2. /\ txd_fifo' = Append(txd_fifo, c) /\ rxd_fifo' = rxd_fifo
        /\ usr' = update_flags(Len(rxd_fifo'), Len(txd_fifo'))
        /\ UNCHANGED <<ctrlVars, uart_line, hostVars, spinning>>
    BY <2>1, <1>1 DEF write_char, uart_write_UTXD
  <2>3. Len(Append(txd_fifo, c)) = Len(txd_fifo) + 1
    BY <1>1 DEF ConsoleTypeOK, UartTypeOK
  <2> QED BY <2>2, <2>3
<1>4. /\ pc = "write_char" /\ written' = Append(written, c) /\ left' = left - 1
      /\ since' = since + 1 /\ UNCHANGED <<driver, received>> /\ left > 0
      /\ pc' = "main" \/ (pc' = "write_poll" /\ left > 1)
  BY DEF write_char, Phase, Sending, ConsoleTypeOK
<1>5. /\ usr' \subseteq {"RDR", "RRDY", "TXFE", "TRDY"}
      /\ "TRDY" \in usr' <=> Len(txd_fifo) + 1 < 2
      /\ "RDR" \in usr' <=> Len(rxd_fifo) > 0
  BY <1>2, <1>3, FlagsTell DEF FlagsMean, ConsoleTypeOK, UartTypeOK
<1>6. Len(txd_fifo') = Len(txd_fifo) + 1 /\ txd_fifo' \in CharSeq /\ written' \in CharSeq
  BY <1>1, <1>3, <1>4 DEF ConsoleTypeOK, UartTypeOK
<1>7. ConsoleTypeOK'
  <2>1. Queues' /\ Switches' /\ Levels' /\ Flags'
    <3>0. Queues /\ Switches /\ Levels /\ Flags
      BY TypeByKind DEF ConsoleTypeOK
    <3>1. Queues'
      BY <3>0, <1>3, <1>5, <1>6 DEF Queues, hostVars
    <3>2. Switches' /\ Levels' /\ Flags'
      BY <3>0, <1>3, <1>5, <1>6 DEF Switches, Levels, Flags, ctrlVars, hostVars
    <3> QED BY <3>1, <3>2
  <2> QED BY <2>1, <1>2, <1>4, <1>6, TypeByKind DEF ConsoleTypeOK
<1>8. Phase'
  BY <1>3, <1>4 DEF Phase, BeforeReset, Configuring, Sending, Receiving, ctrlVars, hostVars, ConsoleTypeOK
<1>9. FlagsMean'
  <2>1. "RDR" \in usr' => rxd_fifo' # <<>>
    BY <1>3, <1>5
  <2> QED BY <2>1, <1>3, <1>4, <1>5, <1>6 DEF FlagsMean, ctrlVars
<1>10. Room'
  BY <1>2, <1>3, <1>4, <1>6, CapacityAssumption, DepthAssumption, DriverAssumption DEF Room, ConsoleTypeOK
<1>11. OutputFaithful'
  <2>1. stdout \o Append(txd_fifo, c) = Append(stdout \o txd_fifo, c)
    BY <1>1, AppendToSecond, SMTT(30) DEF ConsoleTypeOK, UartTypeOK
  <2> QED BY <2>1, <1>3, <1>4 DEF OutputFaithful, hostVars
<1>12. InputFaithful'
  BY <1>3, <1>4 DEF InputFaithful, hostVars
<1> QED BY <1>7, <1>8, <1>9, <1>10, <1>11, <1>12

\* A read of URXD: there is a character, and it is the oldest.
LEMMA ReadKeeps ==
  ASSUME ConsoleInv, read_char
  PROVE  ConsoleInv'
<1> USE DEF ConsoleInv
<1>1. /\ rxd_fifo # <<>> /\ rxd_fifo \in Seq(0..255) /\ Len(txd_fifo) \in Nat
      /\ Len(rxd_fifo) \in Nat /\ Depth \in Nat
  BY DepthAssumption DEF read_char, FlagsMean, ConsoleTypeOK, UartTypeOK
<1>2. URXD = Head(rxd_fifo) /\ rxd_fifo' = Tail(rxd_fifo)
      /\ usr' = update_flags(Len(rxd_fifo'), Len(txd_fifo))
      /\ UNCHANGED <<txd_fifo, ctrlVars, uart_line, hostVars, spinning>>
  BY <1>1 DEF read_char, uart_read_URXD, URXD, Phase, Configuring, BeforeReset
<1>3. /\ pc = "read_char" /\ received' = Append(received, Head(rxd_fifo))
      /\ left' = left - 1 /\ left > 0 /\ UNCHANGED <<driver, since, written>>
      /\ pc' = "main" \/ (pc' = "read_poll" /\ left > 1)
  BY <1>2 DEF read_char, Phase, Receiving, ConsoleTypeOK
<1>4. /\ Head(rxd_fifo) \in 0..255 /\ rxd_fifo' \in Seq(0..255)
      /\ Len(rxd_fifo') = Len(rxd_fifo) - 1 /\ Len(rxd_fifo') \in Nat
  BY <1>1, <1>2, HeadTailProperties
<1>5. /\ usr' \subseteq {"RDR", "RRDY", "TXFE", "TRDY"}
      /\ "TRDY" \in usr' <=> Len(txd_fifo) < 2
      /\ "RDR" \in usr' <=> Len(rxd_fifo') > 0
  BY <1>1, <1>2, <1>4, FlagsTell DEF FlagsMean
<1>6. ConsoleTypeOK'
  <2>1. Queues' /\ Switches' /\ Levels' /\ Flags'
    BY <1>2, <1>4, <1>5, TypeByKind, SMTT(30) DEF ConsoleTypeOK, Queues, Switches, Levels, Flags, ctrlVars, hostVars
  <2>2. received' \in Seq(0..255)
    BY <1>3, <1>4 DEF ConsoleTypeOK
  <2> QED BY <2>1, <2>2, <1>3, TypeByKind DEF ConsoleTypeOK
<1>7. Phase'
  BY <1>2, <1>3 DEF Phase, BeforeReset, Configuring, Sending, Receiving, ctrlVars, hostVars, ConsoleTypeOK
<1>8. FlagsMean'
  BY <1>1, <1>2, <1>3, <1>4, <1>5, SMTT(30) DEF FlagsMean, ctrlVars
<1>9. Room'
  BY <1>1, <1>2, <1>3, <1>4 DEF Room
<1>10. OutputFaithful'
  BY <1>2, <1>3 DEF OutputFaithful, hostVars
<1>11. InputFaithful'
  <2>1. Append(received, Head(rxd_fifo)) \o Tail(rxd_fifo) = received \o rxd_fifo
    BY <1>1, MoveHead DEF ConsoleTypeOK
  <2> QED BY <2>1, <1>2, <1>3 DEF InputFaithful, hostVars
<1> QED BY <1>6, <1>7, <1>8, <1>9, <1>10, <1>11

\* One cycle of prc_uart: what is received goes from the head of the input to
\* the end of the receive FIFO, which has room; what is sent leaves whole.
LEMMA CycleKeeps ==
  ASSUME ConsoleInv, device, prc_uart_cycle
  PROVE  ConsoleInv'
<1> USE DEF ConsoleInv
<1> DEFINE got == SubSeq(stdin, 1, Received)
           rest == SubSeq(stdin, Received + 1, Len(stdin))
<1>1. /\ since' = 0 /\ UNCHANGED <<driver, pc, left, written, received>>
      /\ UNCHANGED <<ctrlVars, typed, eof, spinning>> /\ ~spinning /\ uart_enabled
  BY DEF device, prc_uart_cycle
<1>2. /\ rxd_fifo \in Seq(0..255) /\ txd_fifo \in Seq(0..255) /\ stdin \in Seq(0..255)
      /\ stdout \in Seq(0..255) /\ received \in Seq(0..255)
      /\ Len(rxd_fifo) \in Nat /\ Len(stdin) \in Nat /\ Len(txd_fifo) \in Nat
      /\ Len(rxd_fifo) <= Depth /\ Len(txd_fifo) <= Depth /\ Depth \in Nat
  BY DepthAssumption, CapacityAssumption, DriverAssumption DEF ConsoleTypeOK, UartTypeOK, Room
<1>3. Received \in 0..Len(stdin) /\ Len(rxd_fifo) + Received <= Depth
  BY <1>2 DEF Received, Min2
<1>4. /\ got \in Seq(0..255) /\ rest \in Seq(0..255) /\ Len(got) = Received /\ got \o rest = stdin
  BY <1>2, <1>3, CutAndJoin, ZenonT(30)
<1>5. CutAll(got) = got
  <2>1. CASE BeforeReset
    BY <2>1, <1>2, <1>4 DEF Phase, Received, CutAll
  <2>2. CASE ~BeforeReset
    BY <2>2, <1>4, CutIsIdentity DEF Phase
  <2> QED BY <2>1, <2>2
<1>6. rxd_fifo' = rxd_fifo \o got /\ stdin' = rest
  BY <1>5 DEF prc_uart_cycle
<1> HIDE DEF got, rest
<1>7. rxd_fifo' \in Seq(0..255) /\ Len(rxd_fifo') = Len(rxd_fifo) + Received /\ Len(rxd_fifo') \in Nat
  <2>1. rxd_fifo \in Seq(0..255) /\ got \in Seq(0..255) /\ Len(rxd_fifo) \in Nat /\ Len(got) \in Nat
    BY <1>2, <1>3, <1>4
  <2>2. rxd_fifo \o got \in Seq(0..255) /\ Len(rxd_fifo \o got) = Len(rxd_fifo) + Len(got)
    BY <2>1, ConcatProperties
  <2> QED BY <2>1, <2>2, <1>4, <1>6
<1>8. txd_fifo' = <<>> /\ stdout' = stdout \o txd_fifo
  <2>1. CASE BeforeReset
    BY <2>1, <1>2 DEF prc_uart_cycle, Phase, TxdAfter, Configuring, BeforeReset
  <2>2. CASE ~BeforeReset
    <3>1. Sent = {txd_fifo}
      BY <2>2, <1>2, CutIsIdentity DEF Phase, Sent
    <3> QED BY <2>2, <3>1 DEF prc_uart_cycle, Phase, TxdAfter
  <2> QED BY <2>1, <2>2
<1>9. /\ usr' \subseteq {"RDR", "RRDY", "TXFE", "TRDY"}
      /\ "TRDY" \in usr'
      /\ "RDR" \in usr' <=> Len(rxd_fifo') > 0
      /\ uart_line' \in BOOLEAN
  <2>1. usr' = update_flags(Len(rxd_fifo'), 0)
    BY <1>8 DEF prc_uart_cycle
  <2>2. uart_line' \in BOOLEAN
    BY DEF prc_uart_cycle, Interrupting
  <2> QED BY <2>1, <2>2, <1>7, FlagsTell DEF FlagsMean
<1>10. ConsoleTypeOK'
  <2>1. Queues' /\ Switches' /\ Levels' /\ Flags'
    <3>1. Queues'
      BY <1>1, <1>2, <1>4, <1>6, <1>7, <1>8, TypeByKind DEF ConsoleTypeOK, Queues
    <3>2. Switches' /\ Levels' /\ Flags'
      BY <1>1, <1>9, TypeByKind DEF ConsoleTypeOK, Switches, Levels, Flags, ctrlVars
    <3> QED BY <3>1, <3>2
  <2>2. Batch[driver] \in Nat
    BY BatchAssumption DEF ConsoleTypeOK
  <2> QED BY <2>1, <2>2, <1>1, TypeByKind DEF ConsoleTypeOK
<1>11. BeforeReset => got = <<>>
  BY <1>4 DEF Phase, Received
<1>12. Phase'
  BY <1>1, <1>2, <1>6, <1>8, <1>11 DEF Phase, BeforeReset, Configuring, Sending, Receiving, ctrlVars
<1>13. FlagsMean'
  <2>1. Len(txd_fifo') = 0
    BY <1>8
  <2>2. "RDR" \in usr' => rxd_fifo' # <<>>
    BY <1>9
  <2>3. rxd_fifo # <<>> => rxd_fifo' # <<>>
    BY <1>2, <1>3, <1>7
  <2> QED BY <1>1, <1>9, <2>1, <2>2, <2>3 DEF FlagsMean, ctrlVars
<1>14. Room'
  BY <1>1, <1>2, <1>3, <1>7, <1>8 DEF Room
<1>15. OutputFaithful'
  BY <1>1, <1>2, <1>8 DEF OutputFaithful
<1>16. InputFaithful'
  <2>a. /\ received \in Seq(0..255) /\ rxd_fifo \in Seq(0..255)
        /\ got \in Seq(0..255) /\ rest \in Seq(0..255)
    BY <1>2, <1>4
  <2>1. (received \o (rxd_fifo \o got)) \o rest = (received \o rxd_fifo) \o (got \o rest)
    <3>1. received \o rxd_fifo \in Seq(0..255)
      BY <2>a, ConcatProperties
    <3>2. received \o (rxd_fifo \o got) = (received \o rxd_fifo) \o got
      BY <2>a, SMTT(30)
    <3>3. ((received \o rxd_fifo) \o got) \o rest = (received \o rxd_fifo) \o (got \o rest)
      BY <2>a, <3>1, SMTT(30)
    <3> QED BY <3>2, <3>3
  <2> QED BY <2>1, <1>1, <1>4, <1>6 DEF InputFaithful
<1> QED BY <1>10, <1>12, <1>13, <1>14, <1>15, <1>16

\* The end of the input: the last characters arrive and the thread spins.
LEMMA EofKeeps ==
  ASSUME ConsoleInv, device, prc_uart_eof
  PROVE  ConsoleInv'
<1> USE DEF ConsoleInv
<1>1. /\ since' = 0 /\ UNCHANGED <<driver, pc, left, written, received>>
      /\ UNCHANGED <<txd_fifo, ctrlVars, usr, uart_line, typed, eof, stdout>>
      /\ spinning' = TRUE /\ stdin' = <<>>
  BY DEF device, prc_uart_eof
<1>2. /\ rxd_fifo \in Seq(0..255) /\ stdin \in Seq(0..255) /\ received \in Seq(0..255)
      /\ Len(rxd_fifo) \in Nat /\ Len(stdin) \in Nat /\ Depth \in Nat
      /\ rxd_enabled /\ Len(rxd_fifo) + Len(stdin) < Depth
  BY DepthAssumption DEF ConsoleTypeOK, UartTypeOK, prc_uart_eof, RunsDry
<1>3. ~BeforeReset /\ ws = 8
  BY <1>2 DEF Phase
<1>4. rxd_fifo' = rxd_fifo \o stdin
  BY <1>2, <1>3, CutIsIdentity DEF prc_uart_eof
<1>5. rxd_fifo' \in Seq(0..255) /\ Len(rxd_fifo') = Len(rxd_fifo) + Len(stdin)
  BY <1>2, <1>4
<1>6. ConsoleTypeOK'
  <2>1. Queues' /\ Switches' /\ Levels' /\ Flags'
    BY <1>1, <1>2, <1>5, TypeByKind
       DEF ConsoleTypeOK, Queues, Switches, Levels, Flags, ctrlVars
  <2>2. Batch[driver] \in Nat
    BY BatchAssumption DEF ConsoleTypeOK
  <2> QED BY <2>1, <2>2, <1>1, TypeByKind DEF ConsoleTypeOK
<1>7. Phase'
  BY <1>1, <1>3 DEF Phase, BeforeReset, Configuring, Sending, Receiving, ctrlVars
<1>8. FlagsMean'
  <2>1. rxd_fifo # <<>> => rxd_fifo' # <<>>
    BY <1>2, <1>5
  <2> QED BY <1>1, <2>1 DEF FlagsMean, ctrlVars
<1>9. Room'
  BY <1>1, <1>2, <1>5 DEF Room
<1>10. OutputFaithful'
  BY <1>1 DEF OutputFaithful
<1>11. InputFaithful'
  <2>1. (received \o (rxd_fifo \o stdin)) \o <<>> = received \o rxd_fifo \o stdin
    BY <1>2, SMTT(30)
  <2> QED BY <2>1, <1>1, <1>4 DEF InputFaithful
<1> QED BY <1>6, <1>7, <1>8, <1>9, <1>10, <1>11

\* A cycle of a UART that is off: the batch ends, but a FIFO is only filled
\* when the UART is on.
LEMMA DisabledKeeps ==
  ASSUME ConsoleInv, device, prc_uart_disabled
  PROVE  ConsoleInv'
<1> USE DEF ConsoleInv
<1>1. /\ since' = 0 /\ UNCHANGED <<driver, pc, left, written, received>>
      /\ UNCHANGED uartVars /\ ~uart_enabled
  BY DEF device, prc_uart_disabled
<1>2. Batch[driver] \in Nat
  BY BatchAssumption DEF ConsoleTypeOK
<1>3. ConsoleTypeOK'
  BY <1>1, <1>2 DEF ConsoleTypeOK, UartTypeOK, uartVars, ctrlVars, hostVars
<1>4. Phase'
  BY <1>1 DEF Phase, BeforeReset, Configuring, Sending, Receiving, uartVars, ctrlVars, hostVars
<1>5. FlagsMean' /\ OutputFaithful' /\ InputFaithful'
  BY <1>1 DEF FlagsMean, OutputFaithful, InputFaithful, uartVars, ctrlVars, hostVars
<1>6. Len(txd_fifo) = 0
  BY <1>1 DEF Phase
<1>7. Room'
  BY <1>1, <1>6 DEF Room, uartVars
<1> QED BY <1>3, <1>4, <1>5, <1>7

\* A character typed at the host goes to the end of what the UART has not read.
LEMMA HostKeeps ==
  ASSUME ConsoleInv, UNCHANGED drvVars, (\E c \in Char : type(c)) \/ close
  PROVE  ConsoleInv'
<1> USE DEF ConsoleInv, drvVars
<1>1. CASE close
  <2> USE <1>1 DEF close, ctrlVars
  <2>1. Queues' /\ Switches' /\ Levels' /\ Flags'
    BY TypeByKind DEF ConsoleTypeOK, Queues, Switches, Levels, Flags
  <2>2. ConsoleTypeOK'
    BY <2>1, TypeByKind DEF ConsoleTypeOK
  <2>3. Phase' /\ FlagsMean' /\ Room'
    BY DEF Phase, BeforeReset, Configuring, Sending, Receiving, FlagsMean, Room
  <2>4. OutputFaithful' /\ InputFaithful'
    BY DEF OutputFaithful, InputFaithful
  <2> QED BY <2>2, <2>3, <2>4
<1>2. ASSUME NEW c \in Char, type(c) PROVE ConsoleInv'
  <2> USE <1>2 DEF type, ctrlVars
  <2>1. c \in 0..255
    BY CharAssumption
  <2>2. Queues'
    BY <2>1, TypeByKind DEF ConsoleTypeOK, Queues
  <2>3. Switches' /\ Levels' /\ Flags'
    BY TypeByKind DEF ConsoleTypeOK, Switches, Levels, Flags
  <2>4. ConsoleTypeOK'
    BY <2>2, <2>3, TypeByKind DEF ConsoleTypeOK
  <2>5. Phase' /\ FlagsMean' /\ Room'
    BY DEF Phase, BeforeReset, Configuring, Sending, Receiving, FlagsMean, Room
  <2>6. OutputFaithful'
    BY DEF OutputFaithful
  <2>7. InputFaithful'
    <3>1. received \o rxd_fifo \in Seq(0..255) /\ stdin \in Seq(0..255)
      BY DEF ConsoleTypeOK, UartTypeOK
    <3>2. (received \o rxd_fifo) \o Append(stdin, c) = Append((received \o rxd_fifo) \o stdin, c)
      <4> HIDE <1>2
      <4> QED BY <2>1, <3>1, AppendToSecond, SMTT(30)
    <3> QED BY <3>2 DEF InputFaithful
  <2> QED BY <2>4, <2>5, <2>6, <2>7
<1> QED BY <1>1, <1>2

-----------------------------------------------------------------------------
(* The theorems.                                                           *)

\* Every step of the core, of the UART's thread and of the host keeps the
\* invariant.
LEMMA ConsoleInvInductive ==
  ConsoleInv /\ [ConsoleNext]_consoleVars => ConsoleInv'
<1> SUFFICES ASSUME ConsoleInv, [ConsoleNext]_consoleVars PROVE ConsoleInv'
  OBVIOUS
<1>1. CASE cpu
  BY <1>1, ConfigureKeeps, PollKeeps, WriteKeeps, ReadKeeps DEF cpu
<1>2. CASE calls
  BY <1>2, PollKeeps
<1>3. CASE device
  BY <1>3, CycleKeeps, EofKeeps, DisabledKeeps DEF device, prc_uart
<1>4. CASE ((\E c \in Char : type(c)) \/ close) /\ UNCHANGED drvVars
  BY <1>4, HostKeeps
<1>5. CASE UNCHANGED consoleVars \/ (prc_uart_spins /\ UNCHANGED drvVars)
  <2> UNCHANGED <<rxd_fifo, txd_fifo, uart_enabled, rxd_enabled, txd_enabled, ws, ien, txtl,
                  rxtl, usr, uart_line, stdin, typed, eof, stdout, spinning,
                  driver, pc, left, since, written, received>>
    BY <1>5 DEF prc_uart_spins, consoleVars, drvVars, uartVars, ctrlVars, hostVars
  <2>1. ConsoleTypeOK'
    BY DEF ConsoleInv, ConsoleTypeOK, UartTypeOK
  <2>2. Phase' /\ FlagsMean' /\ Room'
    BY DEF ConsoleInv, Phase, BeforeReset, Configuring, Sending, Receiving, FlagsMean, Room
  <2>3. OutputFaithful' /\ InputFaithful'
    BY DEF ConsoleInv, OutputFaithful, InputFaithful
  <2> QED BY <2>1, <2>2, <2>3 DEF ConsoleInv
<1> QED BY <1>1, <1>2, <1>3, <1>4, <1>5 DEF ConsoleNext

\* The invariant holds in every reachable state.
LEMMA ConsoleInvHolds ==
  ConsoleSpec => []ConsoleInv
BY InitHolds, ConsoleInvInductive, PTL DEF ConsoleSpec

\* Every variable of the UART and of its drivers keeps its type; in particular
\* the count of characters left (dumboot/uart.s:99) never passes below zero.
THEOREM ConsoleTypeCorrect ==
  ConsoleSpec => []ConsoleTypeOK
<1>1. ConsoleInv => ConsoleTypeOK
  BY DEF ConsoleInv
<1> QED BY <1>1, ConsoleInvHolds, PTL

\* The character past the end of txd_fifo that the test at uart.cpp:300 lets in
\* is never written by the two drivers, whatever the depth of the FIFO.
THEOREM FifoNeverOverruns ==
  ConsoleSpec => []FifoInBounds
<1>1. ConsoleInv => FifoInBounds
  BY CapacityAssumption, DepthAssumption, DriverAssumption
     DEF ConsoleInv, FifoInBounds, Room, ConsoleTypeOK, UartTypeOK
<1> QED BY <1>1, ConsoleInvHolds, PTL

\* The terminal shows what the drivers wrote, whole and in order (uart.cpp:171).
THEOREM NothingLostGoingOut ==
  ConsoleSpec => []OutputFaithful
<1>1. ConsoleInv => OutputFaithful
  BY DEF ConsoleInv
<1> QED BY <1>1, ConsoleInvHolds, PTL

\* read returns what was typed, whole and in order (uart.cpp:155).
THEOREM NothingLostComingIn ==
  ConsoleSpec => []InputFaithful
<1>1. ConsoleInv => InputFaithful
  BY DEF ConsoleInv
<1> QED BY <1>1, ConsoleInvHolds, PTL

\* The dummyos driver writes UTXD only while TRDY is up, although it read the
\* flag several instructions before (dummyos/uart.s, uart.cpp:296).
THEOREM NeverSendsUnready ==
  ConsoleSpec => SendsWhenReady
<1>1. ConsoleInv => [\A c \in Char : driver = "dummyos" /\ write_char(c) => "TRDY" \in usr]_consoleVars
  BY DEF ConsoleInv, FlagsMean, write_char
<1> QED BY <1>1, ConsoleInvHolds, PTL DEF SendsWhenReady
==============================================================================
