----------------------------- MODULE MCConsole -----------------------------
(* Batches against a FIFO of Depth characters.                             *)
EXTENDS Console

\* dummyos could send twice the FIFO in a batch, dumboot exactly the FIFO.
MCBatch == [d \in Drivers |-> IF d = "dummyos" THEN 2 * Depth ELSE Depth]
============================================================================
