------------------------------- MODULE MCCodec -------------------------------
(* Codec with every enumerator, every opcode and the registers, bytes and     *)
(* immediates at the ends of their fields.                                    *)
EXTENDS Codec

\* None, the ends of a 16-bit field, bits of the wider immediates, all.
MCImmediates == {{}, {0, 15}, {2, 16, 19, 20}, 0 .. 31}

\* Every opcode with every choice of the bits that tell types apart.
MCRawWords ==
    {At(General.op, Bits(op)) \cup low : op \in 0 .. 63,
                                         low \in SUBSET {2, 5, 16, 19, 20, 24}}
=============================================================================
