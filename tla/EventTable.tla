----------------------------- MODULE EventTable -----------------------------
(***************************************************************************)
(* What events.c promises to its callers: a table that gives out a handle   *)
(* nobody holds for every descriptor added, keeps the descriptor under this *)
(* handle, and frees the handle when the event is removed.  proxying.c      *)
(* relies on exactly this (variable `registered` of module Proxying).       *)
(***************************************************************************)
CONSTANTS Handle, Fd, None

VARIABLE reg    \* handle -> descriptor, None for a handle nobody holds

Init == reg = [h \in Handle |-> None]

Add(h, f) ==
    /\ reg[h] = None
    /\ \A g \in Handle : reg[g] # f
    /\ reg' = [reg EXCEPT ![h] = f]

Remove(h) ==
    /\ reg[h] # None
    /\ reg' = [reg EXCEPT ![h] = None]

Next == \E h \in Handle : Remove(h) \/ \E f \in Fd : Add(h, f)

Spec == Init /\ [][Next]_reg
=============================================================================
