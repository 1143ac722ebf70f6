------------------------------ MODULE BlockRead ------------------------------
(***************************************************************************)
(* What the boot code expects of sd_read: the calls are served one after   *)
(* the other, and each delivers the words of its n blocks, in order, before*)
(* it returns.                                                             *)
(***************************************************************************)
EXTENDS Integers, Sequences

CONSTANTS
  Reads,        \* the calls: a sequence of records [start, n]
  BlockWords    \* READ_BLOCK_LEN, the words of a block

VARIABLES
  returned,     \* calls that have returned
  mem           \* the destination of the current call

Call == Reads[returned + 1]

Init == returned = 0 /\ mem = <<>>

Deliver ==
  /\ returned < Len(Reads)
  /\ Len(mem) < Call.n * BlockWords
  /\ mem' = Append(mem, Call.start * BlockWords + Len(mem))
  /\ UNCHANGED returned

Return ==
  /\ returned < Len(Reads)
  /\ Len(mem) = Call.n * BlockWords
  /\ returned' = returned + 1
  /\ mem' = <<>>

Spec == /\ Init
        /\ [][Deliver \/ Return]_<<returned, mem>>
        /\ WF_<<returned, mem>>(Deliver \/ Return)
==============================================================================
