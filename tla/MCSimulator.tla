----------------------------- MODULE MCSimulator -----------------------------
(* Tables of three instructions over fields of one bit, and a debugger on  *)
(* one of them, with a program that changes itself.                        *)
EXTENDS Simulator

Word == [Fields -> 0..1]
Check(f, v) == [id |-> f, value |-> v]
Checks == {Check(f, v) : f \in Fields, v \in 0..1}
Short == {<<c>> : c \in Checks} \cup {<<c, d>> : c, d \in Checks}
Lists == {l \in Short : \A j, k \in DOMAIN l : l[j].id = l[k].id => j = k}
Instruction(l) == [list |-> l, format |-> <<1, 2, 3>>]

\* lists that share a prefix, or check the same fields in another order
Tables == {<<Instruction(<<Check(1, 0), Check(2, 0)>>), Instruction(k), Instruction(l)>> :
             k \in Lists, l \in {m \in Lists : Head(m) \in {Check(1, 0), Check(3, 1)}}}

W(a, b, c) == [f \in Fields |-> IF f = 1 THEN a ELSE IF f = 2 THEN b ELSE c]
MCWords == {W(1, 1, 0)}
DebugTable == <<Instruction(<<Check(1, 0), Check(3, 1)>>), Instruction(<<Check(2, 1)>>)>>

\* the second line of the cache has one address, the first has two
Program(w) == [a \in Addresses |-> IF a = 0 THEN w ELSE [f \in Fields |-> 1 - w[f]]]

MCMachines ==
  {[table |-> t, enabled |-> FALSE, words |-> {}, memories |-> {Program(w) : w \in Word}] :
     t \in Tables}
  \cup {[table |-> DebugTable, enabled |-> TRUE, words |-> MCWords,
         memories |-> {Program(W(0, 0, 1))}]}

Cmd(op, a) == [op |-> op, addr |-> a]
MCCommands ==
  {Cmd(op, a) : op \in {"Z", "z"}, a \in Addresses}
  \cup {Cmd(op, 0) : op \in {"m", "c", "s", "k", "^C", "G"}}
  \cup {[op |-> "M", addr |-> 1, word |-> W(1, 1, 0)]}
==============================================================================
