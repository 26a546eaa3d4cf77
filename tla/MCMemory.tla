------------------------------ MODULE MCMemory ------------------------------
(* Memory with 1-bit bytes: 16 guest addresses, of which the buffer has five  *)
(* in the middle, so that every size straddles both of its ends and addresses *)
(* below the offset wrap.  Both values of the last template parameter in one  *)
(* run: `aligned` says which class the object is of.                          *)
EXTENDS Memory

VARIABLE aligned

\* The class with aligned_access; Memory itself is the one without.
Aligned == INSTANCE Memory WITH ALIGNED_ACCESS <- TRUE

\* A handler that may answer at every address.
MCDevices == Word

MCInit == Init /\ aligned \in BOOLEAN

MCNext ==
    /\ \/ ~aligned /\ Next
       \/ aligned /\ Aligned!Next
    /\ UNCHANGED aligned

MCSpec == MCInit /\ [][MCNext]_<<vars, aligned>>
=============================================================================
