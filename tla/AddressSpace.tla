---------------------------- MODULE AddressSpace ----------------------------
(***************************************************************************)
(* What a guest and its host may rely on of a Memory: one cell per address *)
(* from OFFSET on, loads that return the last bytes stored at the          *)
(* addresses they name whatever the sizes of the accesses, stores that     *)
(* change those cells and no others, and errors that change nothing.       *)
(*                                                                         *)
(* An access inside the cells is never refused, with one exception this    *)
(* module has to make for the code: the cell of the highest address (see   *)
(* Memory!WholeBufferReachable).                                           *)
(***************************************************************************)
EXTENDS MachineWord

CONSTANTS OFFSET,    \* the guest address of the first byte
          SIZE,      \* the number of bytes
          BYTE_BITS  \* 8

VARIABLES cell,
          reply  \* the last call: how it ended, where, and what it moved

vars == <<cell, reply>>

BYTE     == 2 ^ BYTE_BITS
Byte     == 0 .. BYTE - 1
Address  == OFFSET .. OFFSET + SIZE - 1
Sizes    == {1, 2, 4}  \* sizeof the types an access may have

\* What byte number k of a value counts for, the least significant first, and
\* that byte.
Weight(k)   == 2 ^ (BYTE_BITS * k)
Digit(v, k) == (v \div Weight(k)) % BYTE

Value(n) == 0 .. Weight(n) - 1

Span(a, n) == a .. a + n - 1

Reply(status, address, size, value) ==
    [status |-> status, address |-> address, size |-> size, value |-> value]

Init ==
    /\ cell \in [Address -> Byte]
    /\ reply = Reply("none", 0, 0, 0)

Load(a, n, v) ==
    /\ reply' = Reply("loaded", a, n, v)
    /\ n \in Sizes /\ v \in Value(n)
    /\ Span(a, n) \subseteq Address
    /\ \A k \in 0 .. n - 1 : cell[a + k] = Digit(v, k)
    /\ UNCHANGED cell

Store(a, n, v) ==
    /\ reply' = Reply("stored", a, n, v)
    /\ n \in Sizes /\ v \in Value(n)
    /\ Span(a, n) \subseteq Address
    /\ cell' = [b \in Address |->
                  IF b \in Span(a, n) THEN Digit(v, b - a) ELSE cell[b]]

\* An error: the access is not inside the cells below the last, or unaligned.
Refuse(a, n) ==
    /\ n \in Sizes
    /\ \/ /\ reply' = Reply("out_of_bounds_access", a, n, 0)
          /\ ~ (Span(a, n) \subseteq Address \ {OFFSET + SIZE - 1})
       \/ /\ reply' = Reply("unaligned_access", a, n, 0)
          /\ a % n # 0
    /\ UNCHANGED cell

\* The access went to a device.
Device ==
    /\ reply' = Reply("mmio", 0, 0, 0)
    /\ UNCHANGED cell

\* The host looks up the cell of an address.
Locate(a, position) ==
    /\ reply' = Reply("located", a, 1, position)
    /\ a \in Address
    /\ position = a - OFFSET
    /\ UNCHANGED cell

\* The host changes a cell behind the guest's back.
HostWrite(a, b) ==
    /\ UNCHANGED reply
    /\ cell' = [cell EXCEPT ![a] = b]

\* The reply tells the arguments of the call.
Next ==
    \/ Load(reply'.address, reply'.size, reply'.value)
    \/ Store(reply'.address, reply'.size, reply'.value)
    \/ Refuse(reply'.address, reply'.size)
    \/ Device
    \/ Locate(reply'.address, reply'.value)
    \/ \E a \in Address, b \in Byte : HostWrite(a, b)

Spec == Init /\ [][Next]_vars
=============================================================================
