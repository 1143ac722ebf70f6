------------------------------- MODULE Decoder -------------------------------
(***************************************************************************)
(* The runtime decoder of ArchC (aclib/ac_decoder/ac_decoder_rt.cpp).      *)
(*                                                                         *)
(* An instruction of the description has a decode list, the fields to      *)
(* check in this order, and a format, the fields to extract.  A word is a  *)
(* function from fields to values.  The decoder is a tree of nodes in a    *)
(* sequence; 0 is the null pointer.                                        *)
(***************************************************************************)
EXTENDS Integers, Sequences, SequencesExt

Node(c) == [check |-> c, found |-> 0, subcheck |-> 0, next |-> 0]
Place(t, d) == [tree |-> t, at |-> d]

\* the child of d, a new one if there is none
Follow(t, d, way, c) ==
  IF t[d][way] # 0 THEN Place(t, t[d][way])
  ELSE Place(Append([t EXCEPT ![d][way] = Len(t) + 1], Node(c)), Len(t) + 1)

RECURSIVE Insert(_, _, _, _)
Insert(t, d, list, n) ==
  IF t[d].check # Head(list)
    THEN LET f == Follow(t, d, "next", Head(list)) IN Insert(f.tree, f.at, list, n)
  ELSE IF Len(list) > 1
    THEN LET f == Follow(t, d, "subcheck", list[2]) IN Insert(f.tree, f.at, Tail(list), n)
  ELSE Place([t EXCEPT ![d].found = n, ![d].subcheck = 0], d)

Checked(list) == {list[k].id : k \in DOMAIN list}

\* insert the list, then a chain of the other fields of the format
AddToDecoder(t, table, n) ==
  LET list == table[n].list
      operand(p, f) ==
        IF f \in Checked(list) THEN p
        ELSE Follow(p.tree, p.at, "subcheck", [id |-> f, value |-> -1])
  IN FoldLeft(operand, Insert(IF t = <<>> THEN <<Node(list[1])>> ELSE t, 1, list, n),
              table[n].format).tree

CreateDecoder(table) ==
  FoldLeft(LAMBDA t, n : AddToDecoder(t, table, n), <<>>, [n \in DOMAIN table |-> n])

-----------------------------------------------------------------------------
\* while there is no node: the next one of the level above
RECURSIVE Backtrack(_, _, _)
Backtrack(t, d, path) ==
  IF d # 0 \/ Len(path) = 1 THEN [d |-> d, path |-> path]
  ELSE LET up == Front(path)
           next == t[Last(up)].next
       IN Backtrack(t, next, [up EXCEPT ![Len(up)] = next])

\* the chain of operands of the instruction found
RECURSIVE Operands(_, _, _, _)
Operands(t, d, word, fields) ==
  IF d = 0 THEN fields
  ELSE Operands(t, t[d].subcheck, word,
                [fields EXCEPT ![t[d].check.id] = word[t[d].check.id]])

Unknown(fields) == [found |-> 0, fields |-> fields]

\* the search: node d, the field whose value is at hand (0: none), the nodes
\* chosen on every level
RECURSIVE Search(_, _, _, _, _, _)
Search(t, word, d, held, path, fields) ==
  LET node == t[d]
      field == IF held = 0 THEN node.check.id ELSE held
      kept == [fields EXCEPT ![node.check.id] = word[field]]
      beside == Backtrack(t, node.next, [path EXCEPT ![Len(path)] = node.next])
  IN IF word[field] = node.check.value
       THEN IF node.found # 0
              THEN [found |-> node.found, fields |-> Operands(t, node.subcheck, word, kept)]
              ELSE Search(t, word, node.subcheck, 0, Append(path, node.subcheck), kept)
     ELSE IF beside.d = 0 THEN Unknown(fields)
     ELSE Search(t, word, beside.d,
                 IF t[beside.d].check.id = field THEN field ELSE 0, beside.path, fields)

\* fields is static: it keeps the values of earlier words
Decode(t, word, fields) == Search(t, word, 1, 0, <<1>>, fields)
==============================================================================
