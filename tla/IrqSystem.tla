------------------------------ MODULE IrqSystem ------------------------------
(***************************************************************************)
(* Interrupts from a device to its handler: the threads of the devices,    *)
(* the controller, the core (armv7/src/arm_interrupts.cpp) and irq_handler *)
(* of dummyos/irq.s, which lets interrupts above PRIOMASK nest.            *)
(*                                                                         *)
(* pc is the place of the core in irq_handler.  frames is the stack of IRQ *)
(* mode, one frame per activation: at is the place interrupted, num the    *)
(* line it found, mask the PRIOMASK it saved.  Between two places the      *)
(* batch of instructions may end and the other threads run.                *)
(***************************************************************************)
EXTENDS Tzic, Sequences

CONSTANTS
  Configurations, \* what configure_tzic may store in the PRIORITY bytes
  Acknowledged,   \* the lines whose handler removes the cause: 39, the timer
  MaxCauses,      \* bound: the causes that arise in one behaviour
  MaxCalls,       \* bound: the supervisor calls of the application
  MaxDepth        \* bound: activations the stack of IRQ mode has room for

\* With a line, the first line of its PRIORITY register is considered too.
ASSUME ConfigAssumption == /\ Configurations \subseteq [IRQ -> Prio]
                           /\ \A i \in IRQ : 4 * (i \div 4) \in IRQ
                           /\ Acknowledged \subseteq IRQ
                           /\ MaxCauses \in Nat /\ MaxCalls \in Nat /\ MaxDepth \in Nat \ {0}

VARIABLES
  req,      \* lines whose device has a cause to interrupt
  arisen,   \* causes so far
  calls,    \* supervisor calls so far
  masked,   \* the I bit of CPSR
  pc,
  loaded,   \* r5-r8: the HIPND words loaded
  w,        \* the next word to load
  frames

coreVars == <<masked, pc, loaded, w, frames>>
sysVars == <<tzicVars, req, arisen, calls, coreVars>>

NoLine == 128
Top == frames[Len(frames)]
Places == {"app", "svc", "hipnd", "find", "priomask", "service", "served",
           "restore", "return", "lost", "overflow"}

\* The state after configure_tzic, which enables the lines it gives a priority:
\* the devices are configured after it.
IrqInit ==
  /\ priority \in Configurations /\ priomask = 0
  /\ enset = {i \in IRQ : priority[i] # 0} /\ srcset = {} /\ int_in = {}
  /\ pnd = {} /\ hipnd = {} /\ wakeup = {}
  /\ dsmint = FALSE /\ enabled = TRUE /\ changed = TRUE
  /\ wakeup_signal = FALSE /\ irq = FALSE
  /\ req = {} /\ arisen = 0 /\ calls = 0
  /\ masked = FALSE /\ pc = "app" /\ loaded = {} /\ w = 0 /\ frames = <<>>

-----------------------------------------------------------------------------
(* The devices on the lines enabled.                                       *)

\* A timer event, a character, room in a FIFO.
cause(i) ==
  /\ i \in enset \ req /\ arisen < MaxCauses
  /\ req' = req \cup {i}
  /\ arisen' = arisen + 1
  /\ UNCHANGED <<tzicVars, calls, coreVars>>

\* Mutant: the device calls the controller on a change of level only.
signal_edge(i) ==
  /\ i \in enset /\ (i \in req) # (i \in int_in)
  /\ interrupt(i, i \notin req)
  /\ UNCHANGED <<req, arisen, calls, coreVars>>

\* prc_gpt, prc_uart: the level is passed on whether or not it changed.
signal(i) ==
  /\ i \in enset
  /\ interrupt(i, i \notin req)
  /\ UNCHANGED <<req, arisen, calls, coreVars>>

-----------------------------------------------------------------------------
(* The controller and the core.                                            *)

\* irq_handler pushes its frame.  Past the room of the stack it overwrites what
\* lies below: the model ends there.
activate ==
  IF Len(frames) = MaxDepth
    THEN pc' = "overflow" /\ UNCHANGED <<loaded, w, frames>>
    ELSE /\ pc' = "hipnd" /\ loaded' = {} /\ w' = 0
         /\ frames' = Append(frames, [at |-> pc, num |-> NoLine, mask |-> 0])

\* Mutant: the exception leaves interrupts enabled.
service_interrupt_unmasked ==
  IF masked THEN UNCHANGED coreVars ELSE UNCHANGED masked /\ activate

\* service_interrupt(EXCEPTION_IRQ), called inside the controller's cycle:
\* dropped when interrupts are disabled.
service_interrupt ==
  IF masked THEN UNCHANGED coreVars ELSE masked' = TRUE /\ activate

controller ==
  /\ prc_tzic
  /\ IF irq' THEN service_interrupt ELSE UNCHANGED coreVars
  /\ UNCHANGED <<req, arisen, calls>>

\* svc_handler: interrupts are disabled by the exception and by the last
\* instructions of the handler.
svc_enter ==
  /\ pc = "app" /\ calls < MaxCalls
  /\ pc' = "svc" /\ masked' = TRUE /\ calls' = calls + 1
  /\ UNCHANGED <<tzicVars, req, arisen, loaded, w, frames>>
svc_leave ==
  /\ pc = "svc"
  /\ pc' = "app" /\ masked' = FALSE
  /\ UNCHANGED <<tzicVars, req, arisen, calls, loaded, w, frames>>

-----------------------------------------------------------------------------
(* irq_handler.                                                            *)

step(from, to) == pc = from /\ pc' = to /\ UNCHANGED <<req, arisen, calls>>

load_hipnd ==
  /\ step("hipnd", IF w = 3 THEN "find" ELSE "hipnd")
  /\ loaded' = loaded \cup fast_read_HIPND(w)
  /\ w' = IF w = 3 THEN 0 ELSE w + 1
  /\ UNCHANGED <<tzicVars, masked, frames>>

\* The first word that is not zero, and in it the last bit: the loop shifts
\* until the word equals 1.
found == CHOOSE i \in loaded : \A j \in loaded : \/ Word(i) < Word(j)
                                                 \/ Word(i) = Word(j) /\ i >= j

find ==
  /\ loaded # {}
  /\ step("find", "priomask")
  /\ frames' = [frames EXCEPT ![Len(frames)].num = found]
  /\ UNCHANGED <<tzicVars, masked, loaded, w>>

\* _irq_quit pops the frame with r9 still on the stack: the word taken for PC
\* is the saved SPSR.
quit ==
  /\ loaded = {}
  /\ step("find", "lost")
  /\ UNCHANGED <<tzicVars, masked, loaded, w, frames>>

\* Mutant: PRIOMASK is left alone.
set_priomask_not ==
  /\ step("priomask", "service")
  /\ frames' = [frames EXCEPT ![Len(frames)].mask = priomask]
  /\ masked' = FALSE
  /\ UNCHANGED <<tzicVars, loaded, w>>

\* ldrb of byte n of the PRIORITY registers: the bus passes the address on as it
\* is, fast_read answers with the whole register, and the port keeps its lowest
\* byte, the priority of the first line of the register.
PriorityByte(n) == priority[4 * (n \div 4)]

\* PRIOMASK becomes the byte loaded for the line; then System mode, interrupts
\* enabled, and the handler of the line.
set_priomask ==
  /\ step("priomask", "service")
  /\ frames' = [frames EXCEPT ![Len(frames)].mask = priomask]
  /\ fast_write_PRIOMASK(PriorityByte(Top.num))
  /\ masked' = FALSE
  /\ UNCHANGED <<loaded, w>>

\* int39 clears the timer's status register, int31 returns.
service ==
  /\ pc = "service" /\ Top.num \in enset
  /\ pc' = "served"
  /\ req' = IF Top.num \in Acknowledged THEN req \ {Top.num} ELSE req
  /\ UNCHANGED <<tzicVars, arisen, calls, masked, loaded, w, frames>>

\* A line that was not enabled has no handler: its entry of interrupt_vector
\* branches to address 0, and the model ends.
no_handler ==
  /\ step("service", "lost")
  /\ Top.num \notin enset
  /\ masked' = TRUE
  /\ UNCHANGED <<tzicVars, loaded, w, frames>>

\* Back to IRQ mode, interrupts disabled.
leave_service ==
  /\ step("served", "restore")
  /\ masked' = TRUE
  /\ UNCHANGED <<tzicVars, loaded, w, frames>>

\* Mutant: PRIOMASK keeps the byte loaded for the line served.
restore_priomask_not ==
  /\ step("restore", "return")
  /\ UNCHANGED <<tzicVars, masked, loaded, w, frames>>

restore_priomask ==
  /\ step("restore", "return")
  /\ fast_write_PRIOMASK(Top.mask)
  /\ UNCHANGED <<masked, loaded, w, frames>>

return ==
  /\ step("return", Top.at)
  /\ masked' = FALSE
  /\ frames' = SubSeq(frames, 1, Len(frames) - 1)
  /\ UNCHANGED <<tzicVars, loaded, w>>

core ==
  \/ svc_leave
  \/ load_hipnd \/ find \/ quit \/ set_priomask
  \/ service \/ no_handler \/ leave_service \/ restore_priomask \/ return

-----------------------------------------------------------------------------
IrqNext ==
  \/ \E i \in IRQ : cause(i) \/ signal(i)
  \/ controller
  \/ svc_enter
  \/ core

IrqSpec == IrqInit /\ [][IrqNext]_sysVars

\* Every thread and the core are resumed again and again; a device with
\* nothing to report repeats its level.
IrqFairSpec ==
  /\ IrqSpec
  /\ WF_sysVars(controller) /\ WF_sysVars(core)
  /\ \A i \in IRQ : WF_sysVars(signal(i))

-----------------------------------------------------------------------------
Frame == [at : {"app", "service", "served"}, num : IRQ \cup {NoLine}, mask : Prio]

\* Types of the system.  An activation interrupts the application or a handler
\* in service, never the entry or the exit of irq_handler, where LR and SPSR
\* are still in use.
IrqTypeOK ==
  /\ TzicTypeOK
  /\ req \subseteq IRQ /\ arisen \in 0..MaxCauses /\ calls \in 0..MaxCalls
  /\ masked \in BOOLEAN /\ pc \in Places
  /\ loaded \subseteq IRQ /\ w \in Words
  /\ frames \in Seq(Frame)

InService == {k \in DOMAIN frames : frames[k].num # NoLine}

\* PRIOMASK when activation k began: the byte loaded by the one it interrupted.
Below(k) == IF k = 1 THEN 0 ELSE PriorityByte(frames[k - 1].num)

\* What holds of nesting.  dummyos/irq.s:68 claims more, "no other interrupt with
\* equal or lower priority will occur while we are servicing the current
\* interrupt"; but the byte load (irq.s:120) yields the priority of another line.
\* Although HIPND is read in four loads after the interrupt and the lines may
\* change in between, every line in service is above
\* the byte loaded by the activation it interrupts; or, above a mask that is not
\* zero, it is a line without priority: HIPND shows these when the lines that
\* are up do not pass PRIOMASK (tzic.cpp:77, the shift that is not masked, and
\* highest_pri zero).  From the application only enabled lines are served.
NestingAboveMask ==
  \A k \in InService :
    \/ priority[frames[k].num] > Below(k)
    \/ priority[frames[k].num] = 0 /\ Below(k) > 0

\* PRIOMASK follows the stack: outside a handler it is what configure_tzic
\* wrote, inside one the byte loaded for the innermost line, and on the way out
\* of irq_handler what it was before, whatever nested meanwhile.
MaskFollowsStack ==
  /\ pc \in {"app", "svc"} => priomask = 0 /\ frames = <<>>
  /\ pc \in {"service", "served", "restore"} => priomask = PriorityByte(Top.num)
  /\ pc = "return" => priomask = Below(Len(frames))

Highest(i) == \A j \in IRQ \ {i} : priority[j] < priority[i]

\* A cause whose handler removes it, and whose priority is above that of all
\* other lines, is served, unless the core was lost (_irq_quit, a line without
\* handler) or the line, still up, nested into its own handler until the stack
\* was full: nothing but the end of a batch limits that.  The core drops an
\* interrupt raised while it is masked and the controller forgets it: only the
\* repeated call of the device brings it back.
CauseServed ==
  \A i \in Acknowledged :
    (Highest(i) /\ i \in req) ~> (i \notin req \/ pc \in {"lost", "overflow"})
==============================================================================
