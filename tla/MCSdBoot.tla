------------------------------ MODULE MCSdBoot ------------------------------
(* The boot reads: one block, several, more of them from another start, and *)
(* one again.                                                               *)
EXTENDS SdBoot

MCReads == <<[start |-> 1, n |-> 1], [start |-> 0, n |-> 2],
             [start |-> 1, n |-> 4], [start |-> 2, n |-> 1]>>
=============================================================================
