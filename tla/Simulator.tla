------------------------------ MODULE Simulator ------------------------------
(***************************************************************************)
(* The loop of the core (armv7/src/arm.cpp, behavior): fetch, decode       *)
(* through the cache of decoded instructions (arm_decode_unit.cpp,         *)
(* ac_decoder/ac_decoded_cache.H), stop for the debugger, execute.         *)
(*                                                                         *)
(* What an instruction does is left open: it may branch anywhere and store *)
(* any word, into the program too.                                         *)
(***************************************************************************)
EXTENDS GdbStub, Decoder

CONSTANTS
  Fields,           \* the fields of a word
  Machines,         \* instructions, memories, with a debugger or without
  Commands,         \* what the debugger may send
  Magnitude,        \* 21: the cache has 2^Magnitude lines
  MaxStores         \* bound: stores of the program

ASSUME SimAssumption == {Magnitude, MaxStores} \subseteq Nat

VARIABLES
  machine,          \* which table, whether gdb is enabled, words to store
  decoder,          \* the tree made of the table
  fields,           \* the static result of Decode
  dec_cache,
  instr,            \* the decoded instruction
  core,             \* fetch, execute or crashed
  reported,         \* history: the debugger was told of this instruction
  stores

simVars == <<gdbVars, machine, decoder, fields, dec_cache, instr, core, reported, stores>>
decodeVars == <<machine, decoder, fields, dec_cache>>

table == machine.table
enabled == machine.enabled

Index(a) == a % 2^Magnitude
Empty == [valid |-> FALSE]
NoInstr == [id |-> 0]

\* the fields that decode copies for the format of the instruction
Copied(found, values) ==
  [id |-> found, ops |-> [f \in ToSet(table[found].format) |-> values[f]]]

SimInit ==
  /\ machine \in Machines
  /\ mem \in machine.memories
  /\ decoder = CreateDecoder(table)
  /\ fields = [f \in Fields |-> 0]
  /\ dec_cache = [k \in 0..(2^Magnitude - 1) |-> Empty]
  /\ instr = NoInstr /\ core = "fetch" /\ ac_pc = 0 /\ decode_pc = 0
  /\ bps = <<>> /\ first_time = TRUE /\ step = FALSE
  /\ stub = "run" /\ reply = "S05" /\ resume = FALSE /\ rx = <<>> /\ tx = <<>>
  /\ dbg = "running" /\ cmd = [op |-> "c", addr |-> 0] /\ inserted = {}
  /\ faults = 0 /\ stores = 0 /\ reported = FALSE /\ patched = FALSE

\* Mutant: a valid line is a hit.
fetch_item_blind(a, word) == dec_cache[Index(a)].valid

fetch_item(a, word) == LET cell == dec_cache[Index(a)] IN cell.valid /\ cell.bits = word

insert_item(a, word, dec) ==
  [dec_cache EXCEPT ![Index(a)] = [valid |-> TRUE, bits |-> word, dec |-> dec]]

\* Decode returns NULL for a word without instruction, and decode reads through
\* it: the simulator ends there.
decode ==
  LET word == mem[ac_pc]
      d == Decode(decoder, word, fields)
  IN IF fetch_item(ac_pc, word)
       THEN /\ instr' = dec_cache[Index(ac_pc)].dec /\ core' = "execute"
            /\ UNCHANGED <<fields, dec_cache>>
     ELSE IF d.found # 0
       THEN /\ instr' = Copied(d.found, d.fields) /\ core' = "execute"
            /\ fields' = d.fields
            /\ dec_cache' = insert_item(ac_pc, word, instr')
     ELSE core' = "crashed" /\ instr' = NoInstr /\ UNCHANGED <<fields, dec_cache>>

fetch ==
  /\ core = "fetch" /\ stub = "run"
  /\ decode_pc' = ac_pc /\ patched' = FALSE
  /\ decode
  /\ IF core' = "execute" /\ enabled /\ stop(ac_pc)
       THEN process_bp /\ reported' = TRUE
       ELSE UNCHANGED <<bps, first_time, step, protocolVars, debuggerVars, faults>> /\ reported' = FALSE
  /\ UNCHANGED <<machine, decoder, mem, ac_pc, stores>>

\* ac_pc becomes decode_pc again, then the instruction runs; the model forgets
\* it.
execute ==
  /\ core = "execute" /\ stub = "run"
  /\ core' = "fetch" /\ instr' = NoInstr /\ decode_pc' = 0
  /\ reported' = FALSE /\ patched' = FALSE
  /\ ac_pc' \in Addresses
  /\ \/ UNCHANGED <<mem, stores>>
     \/ /\ stores < MaxStores /\ stores' = stores + 1
        /\ \E a \in Addresses, w \in machine.words : mem' = [mem EXCEPT ![a] = w]
  /\ UNCHANGED <<bps, first_time, step, protocolVars, debuggerVars, faults,
                 decodeVars>>

simulated == <<decodeVars, instr, core, reported, stores>>

SimNext ==
  \/ fetch \/ execute
  \/ (stub_step \/ dbg_receives \/ \E c \in Commands : dbg_command(c)) /\ UNCHANGED simulated

\* The stub loops on its socket; the debugger reads what arrives.
SimSpec == /\ SimInit /\ [][SimNext]_simVars
           /\ WF_simVars(fetch \/ execute)
           /\ WF_simVars(stub_step /\ UNCHANGED simulated)
           /\ WF_simVars(dbg_receives /\ UNCHANGED simulated)

-----------------------------------------------------------------------------
Matching(word) ==
  {n \in DOMAIN table : \A k \in DOMAIN table[n].list :
                          word[table[n].list[k].id] = table[n].list[k].value}

\* An instruction that is executed is one whose decode list the word in memory
\* satisfies, with the operands of that word, although the program rewrites
\* itself, lines of the cache are shared and the decoder keeps old values; a
\* word is unknown only if no instruction has it.  A word that the debugger
\* writes where it is stopped counts from the next time on.
ExecutesMemory ==
  LET word == mem[decode_pc] IN
    /\ (core = "execute" /\ ~patched) =>
         /\ instr.id \in Matching(word)
         /\ \A f \in DOMAIN instr.ops : instr.ops[f] = word[f]
    /\ core = "crashed" => Matching(word) = {}

\* The debugger is told of an instruction exactly when it has a breakpoint
\* there, or steps, or has just connected, and before the instruction runs;
\* what damaged packets do to its commands changes nothing.  With as many
\* breakpoints as the list holds none of them is found, nor removed.
StopsExactly ==
  [][(fetch /\ core' = "execute" /\ enabled) =>
       (reported' <=> (first_time \/ step \/ decode_pc' \in inserted))]_simVars

\* Every command of the debugger is answered, however packets are damaged.
CommandsComplete == dbg \in {"sent", "reply"} ~> dbg \in {"idle", "running", "gone"}
==============================================================================
