--------------------------- MODULE MigrationMutex ---------------------------
(***************************************************************************)
(* What the advisory lock promises the service: of all the callers, at     *)
(* most one at a time is between a successful AcquireLock and its          *)
(* ReleaseLock.                                                            *)
(***************************************************************************)
CONSTANT Callers

VARIABLE inside

Init == inside = {}

Enter(c) == inside = {} /\ inside' = {c}
Leave(c) == c \in inside /\ inside' = inside \ {c}

Next == \E c \in Callers : Enter(c) \/ Leave(c)

Spec == Init /\ [][Next]_inside
=============================================================================
