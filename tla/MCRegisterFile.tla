--------------------------- MODULE MCRegisterFile ---------------------------
(* RegisterFileClient on 3-bit words and two registers: pc + 4 and every target    *)
(* difference wrap, and half of the setters' indices exceed the array.       *)
EXTENDS RegisterFileClient
CONSTANTS raw0, raw1
MCRawInstr == {raw0, raw1}

=============================================================================
