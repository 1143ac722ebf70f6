------------------------------- MODULE MCGpt -------------------------------
(* Small instances of the timer.                                           *)
EXTENDS Gpt

\* One word of CR; the fields that vary between the words are the arguments.
CRWord(fo, om1, im2, mode, clk, enm, en, swr) ==
  [fo |-> fo, om |-> [c \in Channels |-> IF c = 1 THEN om1 ELSE "OC_DISCONNECTED"],
   im |-> [j \in 1..2 |-> IF j = 2 THEN im2 ELSE "IC_DISABLED"],
   mode |-> mode, clk |-> clk, en_mode |-> enm, en |-> en, swr |-> swr]

MCMixedWords ==
  {CRWord({}, "OC_TOGGLE", "IC_DISABLED", "M_RESTART", "PERIPHERAL_CLK", FALSE, TRUE, FALSE),
   CRWord({1}, "OC_TOGGLE", "IC_RISINGEDGE", "M_FREERUN", "PERIPHERAL_CLK", FALSE, TRUE, FALSE),
   CRWord({}, "OC_DISCONNECTED", "IC_DISABLED", "M_RESTART", "CLK_OFF", TRUE, FALSE, TRUE)}

MCIRWords == {{}, {0}}
MCSRWords == {{0}, {1}, Flags}
============================================================================
