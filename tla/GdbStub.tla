------------------------------- MODULE GdbStub -------------------------------
(***************************************************************************)
(* The debugger interface: breakpoints (archc ac_gdb/breakpoints.cpp) and  *)
(* the stub that talks the remote protocol (ac_gdb/ac_gdb.H), with the     *)
(* processor specific part (armv7/src/arm_gdb_funcs.cpp).                  *)
(*                                                                         *)
(* The debugger at the other end sends a packet, waits for its             *)
(* acknowledgement and then for the answer.  Packets of both directions    *)
(* may be damaged; the checksum shows it.                                  *)
(***************************************************************************)
EXTENDS Integers, Sequences, FiniteSets, SequencesExt

CONSTANTS
  Addresses,
  QuantMax,         \* BREAKPOINTS: 200
  MaxInserted,      \* bound: breakpoints the debugger sets
  MaxFaults         \* bound: packets damaged in one behaviour

ASSUME GdbAssumption == /\ Addresses \subseteq Nat
                        /\ {QuantMax, MaxInserted, MaxFaults} \subseteq Nat

VARIABLES
  bps,              \* the breakpoints, in crescent order
  first_time, step,
  stub,             \* run; put: a packet waits for its +; get: waits for a packet
  reply,            \* the packet being put
  resume,           \* process_bp returns after it
  rx, tx,           \* characters to the stub and to the debugger
  dbg,              \* debugger: idle, sent, reply, running or gone
  cmd,              \* debugger: its last command
  inserted,         \* debugger: the breakpoints it was told are set
  faults,
  mem, ac_pc,       \* the processor
  decode_pc,        \* the instruction the core is at
  patched           \* history: the debugger changed it after the fetch

processorVars == <<mem, ac_pc, decode_pc, patched>>
protocolVars == <<stub, reply, resume, rx, tx>>
debuggerVars == <<dbg, cmd, inserted>>
gdbVars == <<bps, first_time, step, protocolVars, debuggerVars, faults, processorVars>>

-----------------------------------------------------------------------------
(* Breakpoints.  A full list answers as if it did not exist.               *)

Usable == Len(bps) < QuantMax

\* Mutant: the new breakpoint goes to the end.
add_unsorted(a) == IF Usable THEN Append(bps, a) ELSE bps

add(a) ==
  IF Usable
    THEN LET k == Cardinality({i \in DOMAIN bps : bps[i] <= a})
         IN InsertAt(bps, k + 1, a)
    ELSE bps

Found(a) == {i \in DOMAIN bps : bps[i] = a}

remove(a) ==
  IF Usable /\ Found(a) # {}
    THEN RemoveAt(bps, CHOOSE i \in Found(a) : \A j \in Found(a) : i <= j)
    ELSE bps

\* the search stops at the first one that is greater
exists(a) ==
  Usable /\ \E i \in Found(a) : \A j \in 1..(i - 1) : bps[j] <= a

stop(pc) == first_time \/ step \/ exists(pc)

-----------------------------------------------------------------------------
(* Packets.                                                                *)

Plus == [kind |-> "+"]
Minus == [kind |-> "-"]
Packet(body, good) == [kind |-> "packet", body |-> body, good |-> good]

\* a packet arrives whole or damaged
Transmitted(good) == /\ good \/ faults < MaxFaults
                     /\ faults' = IF good THEN faults ELSE faults + 1

\* comm_putpacket, behind what is in the channel; returns: process_bp ends
\* when it is acknowledged
putpacket(channel, body, returns) ==
  /\ \E good \in BOOLEAN : /\ Transmitted(good)
                           /\ tx' = Append(channel, Packet(body, good))
  /\ reply' = body /\ resume' = returns /\ stub' = "put"

\* process_bp, at the instruction that stop chose
process_bp ==
  /\ putpacket(tx, "S05", FALSE)
  /\ first_time' = FALSE
  /\ UNCHANGED <<bps, step, rx, debuggerVars>>

\* comm_putpacket: + ends it, and the model forgets the packet
put_acknowledged ==
  /\ stub = "put" /\ rx # <<>> /\ Head(rx) = Plus
  /\ stub' = IF resume THEN "run" ELSE "get"
  /\ rx' = Tail(rx)
  /\ reply' = "S05" /\ resume' = FALSE
  /\ UNCHANGED <<bps, first_time, step, tx, debuggerVars, faults, processorVars>>

\* Mutant: one transmission must do.
put_again_never ==
  /\ stub = "put" /\ rx # <<>> /\ Head(rx) # Plus
  /\ stub' = IF resume THEN "run" ELSE "get"
  /\ rx' = Tail(rx)
  /\ UNCHANGED <<bps, first_time, step, reply, resume, tx, debuggerVars, faults, processorVars>>

\* comm_putpacket: anything else sends the packet again
put_again ==
  /\ stub = "put" /\ rx # <<>> /\ Head(rx) # Plus
  /\ putpacket(tx, reply, resume)
  /\ rx' = Tail(rx)
  /\ UNCHANGED <<bps, first_time, step, debuggerVars, processorVars>>

\* comm_getpacket: the checksum does not match
get_damaged ==
  /\ stub = "get" /\ rx # <<>> /\ Head(rx).kind = "packet" /\ ~Head(rx).good
  /\ rx' = Tail(rx)
  /\ tx' = Append(tx, Minus)
  /\ UNCHANGED <<bps, first_time, step, stub, reply, resume, debuggerVars, faults, processorVars>>

-----------------------------------------------------------------------------
(* Commands: a good packet is acknowledged and its first letter decides.   *)

Got(op) == /\ stub = "get" /\ rx # <<>>
           /\ Head(rx).kind = "packet" /\ Head(rx).good /\ Head(rx).body.op = op
           /\ rx' = Tail(rx)
Addr == Head(rx).body.addr

\* the acknowledgement, then the answer
Answers(body, returns) == putpacket(Append(tx, Plus), body, returns)
\* the acknowledgement and no answer: process_bp returns
ReturnsAtOnce == /\ tx' = Append(tx, Plus) /\ stub' = "run"
                 /\ UNCHANGED <<reply, resume, faults>>

\* ?, g, m: the answer is all there is
get_query ==
  /\ Got("m") /\ Answers("data", FALSE)
  /\ UNCHANGED <<bps, first_time, step, debuggerVars, processorVars>>

break_insert ==
  /\ Got("Z") /\ Answers(IF Usable THEN "OK" ELSE "E00", FALSE)
  /\ bps' = add(Addr)
  /\ UNCHANGED <<first_time, step, debuggerVars, processorVars>>

break_remove ==
  /\ Got("z") /\ Answers(IF Usable /\ Found(Addr) # {} THEN "OK" ELSE "E00", FALSE)
  /\ bps' = remove(Addr)
  /\ UNCHANGED <<first_time, step, debuggerVars, processorVars>>

mem_write ==
  /\ Got("M") /\ Answers("OK", FALSE)
  /\ mem' = [mem EXCEPT ![Addr] = Head(rx).body.word]
  /\ patched' = (patched \/ Addr = decode_pc)
  /\ UNCHANGED <<bps, first_time, step, debuggerVars, ac_pc, decode_pc>>

\* of the registers, PC; it has no effect, see Simulator
reg_write ==
  /\ Got("G") /\ Answers("OK", FALSE)
  /\ ac_pc' = Addr
  /\ UNCHANGED <<bps, first_time, step, debuggerVars, mem, decode_pc, patched>>

\* c and s, each with an address or without
continue_execution ==
  /\ Got("c") /\ ReturnsAtOnce
  /\ ac_pc' \in {ac_pc, Addr}
  /\ step' = FALSE
  /\ UNCHANGED <<bps, first_time, debuggerVars, mem, decode_pc, patched>>

stepmode ==
  /\ Got("s") /\ ReturnsAtOnce
  /\ ac_pc' \in {ac_pc, Addr}
  /\ step' = TRUE
  /\ UNCHANGED <<bps, first_time, debuggerVars, mem, decode_pc, patched>>

\* Control-C as a packet
cc ==
  /\ Got("^C") /\ Answers("S02", TRUE)
  /\ step' = TRUE
  /\ UNCHANGED <<bps, first_time, debuggerVars, processorVars>>

\* ac_stop leaves behavior for good
kill ==
  /\ Got("k")
  /\ stub' = "ended"
  /\ tx' = Append(tx, Plus)
  /\ UNCHANGED <<bps, first_time, step, reply, resume, faults, debuggerVars, processorVars>>

stub_step ==
  \/ put_acknowledged \/ put_again \/ get_damaged
  \/ get_query \/ break_insert \/ break_remove \/ mem_write \/ reg_write
  \/ continue_execution \/ stepmode \/ cc \/ kill

-----------------------------------------------------------------------------
(* The debugger.                                                           *)

stubVars == <<bps, first_time, step, stub, reply, resume>>

dbg_sends(c) ==
  \E good \in BOOLEAN : /\ Transmitted(good)
                        /\ rx' = Append(rx, Packet(c, good))

\* It sets a breakpoint where it has none.
dbg_command(c) ==
  /\ dbg = "idle"
  /\ c.op = "Z" => c.addr \notin inserted /\ Cardinality(inserted) < MaxInserted
  /\ dbg_sends(c)
  /\ dbg' = "sent" /\ cmd' = c
  /\ UNCHANGED <<stubVars, tx, inserted, processorVars>>

dbg_minus ==
  /\ dbg = "sent" /\ tx # <<>> /\ Head(tx) = Minus
  /\ tx' = Tail(tx)
  /\ dbg_sends(cmd)
  /\ UNCHANGED <<stubVars, debuggerVars, processorVars>>

dbg_plus ==
  /\ dbg = "sent" /\ tx # <<>> /\ Head(tx) = Plus
  /\ tx' = Tail(tx)
  /\ dbg' = CASE cmd.op \in {"c", "s"} -> "running"
              [] cmd.op = "k" -> "gone"
              [] OTHER -> "reply"
  /\ UNCHANGED <<stubVars, rx, cmd, inserted, faults, processorVars>>

\* After Control-C the core has been stopped twice: a second packet follows.
dbg_packet ==
  /\ dbg \in {"reply", "running"} /\ tx # <<>> /\ Head(tx).kind = "packet"
  /\ tx' = Tail(tx)
  /\ IF Head(tx).good
       THEN /\ rx' = Append(rx, Plus)
            /\ dbg' = IF Head(tx).body = "S02" THEN "running" ELSE "idle"
            /\ inserted' = CASE dbg = "running" \/ Head(tx).body # "OK" -> inserted
                             [] cmd.op = "Z" -> inserted \cup {cmd.addr}
                             [] cmd.op = "z" -> inserted \ {cmd.addr}
                             [] OTHER -> inserted
       ELSE rx' = Append(rx, Minus) /\ UNCHANGED <<dbg, inserted>>
  /\ UNCHANGED <<stubVars, cmd, faults, processorVars>>

dbg_receives == dbg_minus \/ dbg_plus \/ dbg_packet
==============================================================================
