------------------------------- MODULE OnceCell -------------------------------
(***************************************************************************)
(* What the bindings' embedded() promises: a call returns the one parsed   *)
(* catalog of the process, or, if the embedded file does not parse, fails. *)
(* Each call is a single step.                                             *)
(***************************************************************************)
CONSTANTS Thread, NIL, FAILED, Catalog

VARIABLES
    parses,     \* whether the embedded catalog.json parses
    cell,       \* the process's catalog, NIL before the first call
    outcome     \* per thread, what its last call gave: NIL before

vars == <<parses, cell, outcome>>

Init ==
    /\ parses \in BOOLEAN
    /\ cell = NIL
    /\ outcome = [t \in Thread |-> NIL]

Return(t) ==
    /\ cell' \in IF cell = NIL THEN Catalog ELSE {cell}
    /\ parses
    /\ outcome' = [outcome EXCEPT ![t] = cell']
    /\ UNCHANGED parses

Fail(t) ==
    /\ ~parses
    /\ outcome' = [outcome EXCEPT ![t] = FAILED]
    /\ UNCHANGED <<parses, cell>>

Next == \E t \in Thread : Return(t) \/ Fail(t)

Spec == Init /\ [][Next]_vars

=============================================================================
