---------------------------- MODULE MCOutbox ------------------------------
(* Instances of Outbox for TLC. *)
EXTENDS Outbox

CONSTANTS g1, g2   \* gateways

(* Two messages of one task. *)
Pair == [t \in Item |-> "task"]

Plan(p, r, d, s) ==
    [protocol |-> p, retries |-> r, disruptions |-> d, stalls |-> s]

(* The confirmed protocol with two failures, or with one and an            *)
(* administrator who sends again, the same with a consumer that stalls     *)
(* while it sends or while it records a failure, and the protocol that     *)
(* sends inside its claim, with a failure or with an administrator.        *)
Protocols == {
    Plan("confirmed", 0, 2, {}),
    Plan("confirmed", 1, 1, {}),
    Plan("confirmed", 0, 0, {"begun", "answered"}),
    Plan("confirmed", 0, 0, {"failing"}),
    Plan("inClaim", 0, 1, {}),
    Plan("inClaim", 1, 0, {})}
============================================================================
