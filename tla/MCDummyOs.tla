------------------------------ MODULE MCDummyOs ------------------------------
EXTENDS DummyOs

\* The UART, the last line of its PRIORITY register: as in the image the byte
\* loaded for it is zero, and any line nests into its handler.  And the first
\* line of a register, for which the byte is its own priority: only the UART
\* nests, and finds a PRIOMASK to put back.
MCPriorityOf == [l \in {31, 36} |-> IF l = 31 THEN 2 ELSE 1]
==============================================================================
