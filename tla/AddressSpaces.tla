---------------------------- MODULE AddressSpaces ----------------------------
(***************************************************************************)
(* What translation promises to programs: every process has a memory of    *)
(* its own, which its own stores change and nothing else.                  *)
(***************************************************************************)
CONSTANTS Procs, UserVA, Values

VARIABLES content,   \* what each process reads at each of its addresses
          written,   \* what it stored there last
          current    \* the process that runs

AInit == /\ content \in [Procs -> [UserVA -> Values]]
         /\ written = content
         /\ current \in Procs

astore(va, v) ==
  /\ written' = [written EXCEPT ![current][va] = v]
  /\ content' = written'
  /\ UNCHANGED current

aswitch(p) == current' = p /\ UNCHANGED <<content, written>>

ANext == \/ \E va \in UserVA, v \in Values : astore(va, v)
         \/ \E p \in Procs : aswitch(p)

ASpec == AInit /\ [][ANext]_<<content, written, current>>
==============================================================================
