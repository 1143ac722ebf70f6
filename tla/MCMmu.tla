-------------------------------- MODULE MCMmu --------------------------------
EXTENDS Mmu

\* Two memories and the boot ROM, in the order of main.cpp.
MCDevices == << [type |-> "ram", start |-> 32, end |-> 127],
                [type |-> "ram", start |-> 128, end |-> 255],
                [type |-> "rom", start |-> 0, end |-> 15] >>
==============================================================================
