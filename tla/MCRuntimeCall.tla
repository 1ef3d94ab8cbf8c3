---------------------------- MODULE MCRuntimeCall ----------------------------
(* Instances of RuntimeCall for TLC. *)
EXTENDS RuntimeCall, TLC

CONSTANTS a, b   \* calls

Plan(data, n, kinds) ==
    [data |-> data, faults |-> n, kinds |-> kinds]

(* An answer of two parts with any fault, and two calls for one place. *)
OneOrTwo == {
    Plan(a :> 2, 1, FaultKinds),
    Plan(a :> 0 @@ b :> 0, 0, {})}
==============================================================================
