---------------------------- MODULE MCIrqSystem ----------------------------
(* Lines 31, the UART, and 39, the timer, each the last byte of a PRIORITY *)
(* register, and the lines 28 and 36 that are the first byte of the two.   *)
EXTENDS IrqSystem

\* What configure_tzic writes.
MCImage == {[i \in IRQ |-> IF i \in {31, 39} THEN 1 ELSE 0]}

\* And one in which the byte loaded is not always zero: that of 36 is its own
\* priority, that of 39 less than its own.
MCConfigurations ==
  MCImage \cup {[i \in IRQ |-> CASE i = 28 -> 0 [] i = 31 -> 1 [] i = 36 -> 2 [] i = 39 -> 3]}
============================================================================
