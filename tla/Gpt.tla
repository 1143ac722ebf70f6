--------------------------------- MODULE Gpt ---------------------------------
(***************************************************************************)
(* The general purpose timer (armv7/src/gpt.h, armv7/src/gpt.cpp).         *)
(*                                                                         *)
(* The status and interrupt registers SR and IR are sets of bit numbers:   *)
(* 0..2 output compare 1..3, 3..4 input capture 1..2, 5 rollover.  A write *)
(* to the control register CR is a record of its fields.  gpt_line is the  *)
(* level last passed to tzic.interrupt(GPT_IRQNUM, ...).                   *)
(***************************************************************************)
EXTENDS Integers

CONSTANTS
  MaxCount,      \* 0xFFFFFFFF, the last value of the counter
  PrescalerMax,  \* 4096, where prescaler_counter restarts on its own
  CRWords,       \* the words software writes to CR
  PRWords,       \* ... to PR
  OCRWords,      \* ... to OCR1, OCR2 and OCR3
  IRWords,       \* ... to IR
  SRWords        \* ... to SR

Channels == 1..3
Flags == 0..5
ClockSources == {"CLK_OFF", "PERIPHERAL_CLK", "HI_FREQ", "EXTERNAL_CLK", "LOW_FREQ"}
OutputModes == {"OC_DISCONNECTED", "OC_TOGGLE", "OC_CLEAR", "OC_SET", "OC_LOWPULSE"}
CaptureModes == {"IC_DISABLED", "IC_RISINGEDGE", "IC_FALLINGEDGE", "IC_BOTH"}
CounterModes == {"M_RESTART", "M_FREERUN"}

\* fo: the forced compare channels, swr: software reset.
CRType == [fo : SUBSET Channels, om : [Channels -> OutputModes],
           im : [1..2 -> CaptureModes], mode : CounterModes,
           clk : ClockSources, en_mode : BOOLEAN, en : BOOLEAN, swr : BOOLEAN]

ASSUME CountAssumption == MaxCount \in Nat /\ PrescalerMax \in Nat
ASSUME WordsAssumption == /\ CRWords \subseteq CRType
                          /\ PRWords \subseteq Nat
                          /\ OCRWords \subseteq 0..MaxCount
                          /\ IRWords \subseteq SUBSET Flags
                          /\ SRWords \subseteq SUBSET Flags

VARIABLES
  counter, prescaler, prescaler_counter,
  clock_src, om, im, counter_mode, en_mode, gpt_enabled,
  sr, ir, ocr, icr,
  cmpout,     \* do_cmpout1..3
  gpt_line,
  freerun     \* history: free run mode since the counter was last 0

countVars == <<counter, prescaler, prescaler_counter>>
controlVars == <<clock_src, om, im, counter_mode, en_mode, gpt_enabled>>
registers == <<countVars, controlVars, sr, ir, ocr, icr, cmpout, gpt_line>>
gptVars == <<registers, freerun>>

-----------------------------------------------------------------------------
\* do_reset: im1 is assigned twice and im2 never, so im2 holds whatever the
\* memory of the module held.
GptInit ==
  /\ counter = 0 /\ prescaler = 0 /\ prescaler_counter = 0
  /\ clock_src = "CLK_OFF"
  /\ om = [c \in Channels |-> "OC_DISCONNECTED"]
  /\ im \in {[j \in 1..2 |-> IF j = 1 THEN "IC_DISABLED" ELSE x] : x \in CaptureModes}
  /\ counter_mode = "M_RESTART"
  /\ en_mode = FALSE /\ gpt_enabled = FALSE
  /\ sr = {} /\ ir = {}
  /\ ocr = [c \in Channels |-> MaxCount]
  /\ icr = [j \in 1..2 |-> 0]
  /\ cmpout = [c \in Channels |-> FALSE]
  /\ gpt_line = FALSE /\ freerun = FALSE

set_output_pin(output, mode) ==
  CASE mode = "OC_TOGGLE" -> ~output
    [] mode \in {"OC_CLEAR", "OC_LOWPULSE"} -> FALSE
    [] mode = "OC_SET" -> TRUE
    [] OTHER -> output

-----------------------------------------------------------------------------
(* One cycle of prc_gpt.                                                   *)

Running == gpt_enabled /\ clock_src \notin {"CLK_OFF", "EXTERNAL_CLK"}
PrescalerTicks == Running /\ prescaler_counter = prescaler

\* The comparisons are chained with else: the first channel that matches.
Matching == {c \in Channels : counter = ocr[c]}
CompareEvent == {c \in Matching : \A d \in Matching : c <= d}

\* Mutant: the counter stays at its last value.
NextCounter_saturates ==
  CASE counter_mode = "M_RESTART" /\ counter = ocr[1] -> 0
    [] counter = MaxCount -> counter
    [] OTHER -> counter + 1

NextCounter == IF \/ counter_mode = "M_RESTART" /\ counter = ocr[1]
                  \/ counter = MaxCount
                 THEN 0 ELSE counter + 1

\* Mutant: the thread raises the line and never lowers it.
LineLevel_onlyRises(flags) == gpt_line \/ ir \cap flags # {}

LineLevel(flags) == ir \cap flags # {}

prc_gpt_halted == ~Running /\ UNCHANGED registers

prc_gpt_prescale ==
  /\ Running /\ ~PrescalerTicks
  /\ prescaler_counter' = IF prescaler_counter >= PrescalerMax
                            THEN 0 ELSE prescaler_counter + 1
  /\ UNCHANGED <<counter, prescaler, controlVars, sr, ir, ocr, icr, cmpout, gpt_line>>

prc_gpt_tick ==
  /\ PrescalerTicks
  /\ prescaler_counter' = 0
  /\ sr' = sr \cup {c - 1 : c \in CompareEvent}
              \cup (IF counter = MaxCount THEN {5} ELSE {})
  /\ cmpout' = [c \in Channels |-> IF c \in CompareEvent
                                     THEN set_output_pin(cmpout[c], om[c])
                                     ELSE cmpout[c]]
  /\ counter' = NextCounter
  /\ gpt_line' = LineLevel(sr')
  /\ UNCHANGED <<prescaler, controlVars, ir, ocr, icr>>

prc_gpt == prc_gpt_halted \/ prc_gpt_prescale \/ prc_gpt_tick

-----------------------------------------------------------------------------
(* fast_write, one action per register with an effect.                     *)

\* Forced channels use the modes in force before the write; software reset
\* comes last and leaves en_mode and enabled as just written.
gpt_write_CR(d) ==
  LET Restarts == ~gpt_enabled /\ d.en /\ d.en_mode
  IN /\ en_mode' = d.en_mode
     /\ gpt_enabled' = d.en
     /\ im' = [j \in 1..2 |-> IF d.swr /\ j = 1 THEN "IC_DISABLED" ELSE d.im[j]]
     /\ IF d.swr
          THEN /\ counter' = 0 /\ prescaler' = 0 /\ prescaler_counter' = 0
               /\ clock_src' = "CLK_OFF"
               /\ om' = [c \in Channels |-> "OC_DISCONNECTED"]
               /\ counter_mode' = "M_RESTART"
               /\ sr' = {} /\ ir' = {}
               /\ ocr' = [c \in Channels |-> MaxCount]
               /\ icr' = [j \in 1..2 |-> 0]
               /\ cmpout' = [c \in Channels |-> FALSE]
          ELSE /\ counter' = IF Restarts THEN 0 ELSE counter
               /\ prescaler_counter' = IF Restarts THEN 0 ELSE prescaler_counter
               /\ clock_src' = d.clk
               /\ om' = d.om
               /\ counter_mode' = d.mode
               /\ cmpout' = [c \in Channels |-> IF c \in d.fo
                                                  THEN set_output_pin(cmpout[c], om[c])
                                                  ELSE cmpout[c]]
               /\ UNCHANGED <<prescaler, sr, ir, ocr, icr>>
     /\ UNCHANGED gpt_line

gpt_write_SR(D) ==
  /\ sr' = sr \ D
  /\ UNCHANGED <<countVars, controlVars, ir, ocr, icr, cmpout, gpt_line>>

gpt_write_IR(D) ==
  /\ ir' = D
  /\ UNCHANGED <<countVars, controlVars, sr, ocr, icr, cmpout, gpt_line>>

\* Mutant: a new OCR1 does not restart the counter.
gpt_write_OCR_keepsCounter(c, v) ==
  /\ ocr' = [ocr EXCEPT ![c] = v]
  /\ UNCHANGED <<countVars, controlVars, sr, ir, icr, cmpout, gpt_line>>

gpt_write_OCR(c, v) ==
  /\ ocr' = [ocr EXCEPT ![c] = v]
  /\ counter' = IF c = 1 /\ counter_mode = "M_RESTART" THEN 0 ELSE counter
  /\ UNCHANGED <<prescaler, prescaler_counter, controlVars, sr, ir, icr, cmpout, gpt_line>>

gpt_write_PR(v) ==
  /\ prescaler' = v
  /\ prescaler_counter' = 0
  /\ UNCHANGED <<counter, controlVars, sr, ir, ocr, icr, cmpout, gpt_line>>

gpt_write ==
  \/ \E d \in CRWords : gpt_write_CR(d)
  \/ \E D \in SRWords : gpt_write_SR(D)
  \/ \E D \in IRWords : gpt_write_IR(D)
  \/ \E c \in Channels, v \in OCRWords : gpt_write_OCR(c, v)
  \/ \E v \in PRWords : gpt_write_PR(v)

\* Mutant: the captured value is one ahead of the counter.
ind_capin_late(j, deassert) ==
  /\ im[j] \in {"IC_BOTH", IF deassert THEN "IC_FALLINGEDGE" ELSE "IC_RISINGEDGE"}
  /\ icr' = [icr EXCEPT ![j] = counter + 1]
  /\ sr' = sr \cup {j + 2}
  /\ UNCHANGED <<countVars, controlVars, ir, ocr, cmpout, gpt_line>>

\* ind_capin1, ind_capin2: an edge on an input capture pin.
ind_capin(j, deassert) ==
  /\ im[j] \in {"IC_BOTH", IF deassert THEN "IC_FALLINGEDGE" ELSE "IC_RISINGEDGE"}
  /\ icr' = [icr EXCEPT ![j] = counter]
  /\ sr' = sr \cup {j + 2}
  /\ UNCHANGED <<countVars, controlVars, ir, ocr, cmpout, gpt_line>>

-----------------------------------------------------------------------------
GptNext ==
  /\ \/ prc_gpt
     \/ gpt_write
     \/ \E j \in 1..2, deassert \in BOOLEAN : ind_capin(j, deassert)
  /\ freerun' = (counter_mode' = "M_FREERUN" \/ (freerun /\ counter' # 0))

GptSpec == GptInit /\ [][GptNext]_gptVars

\* The thread is resumed every simulated nanosecond.
GptFairSpec == GptSpec /\ WF_registers(prc_gpt)

-----------------------------------------------------------------------------
\* Types of the timer's registers: the counters stay in range through wraps,
\* restarts and resets, and a captured value is one the counter had.
GptTypeOK ==
  /\ counter \in 0..MaxCount
  /\ prescaler \in Nat /\ prescaler_counter \in 0..PrescalerMax
  /\ clock_src \in ClockSources /\ counter_mode \in CounterModes
  /\ om \in [Channels -> OutputModes] /\ im \in [1..2 -> CaptureModes]
  /\ en_mode \in BOOLEAN /\ gpt_enabled \in BOOLEAN /\ gpt_line \in BOOLEAN
  /\ sr \subseteq Flags /\ ir \subseteq Flags
  /\ ocr \in [Channels -> 0..MaxCount] /\ icr \in [1..2 -> 0..MaxCount]
  /\ cmpout \in [Channels -> BOOLEAN] /\ freerun \in BOOLEAN

\* A timer in restart mode since its counter was last 0 never counts past
\* OCR1: lowering OCR1 under a running counter restarts it, so no period is
\* lost to a wrap around the 32 bits.
RestartBound == ~freerun => counter <= ocr[1]

\* From some time on only the thread acts, and the timer runs.
LeftRunning == <>[][prc_gpt]_registers /\ <>[]Running

\* A timer left running is periodic: the counter meets OCR1 again and again.
\* The prescaler, the restart and the wrap around each have to come back.
TimerFires == LeftRunning => []<><<prc_gpt_tick /\ counter = ocr[1]>>_registers

\* A timer left running ends with its line at the level of its flags: what a
\* write to SR or IR left stale is repaired by a tick, for both levels.
LineSettles == LeftRunning => <>[](gpt_line = (ir \cap sr # {}))
==============================================================================
