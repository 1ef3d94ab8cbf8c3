--------------------------- MODULE OutboxContract ---------------------------
(***************************************************************************)
(* What the outbox promises the code that adds messages to it: a message   *)
(* goes out a bounded number of times, never before an earlier message of  *)
(* its delivery group has settled, counts as delivered only when it went   *)
(* out, and once settled stays settled until an administrator sends a      *)
(* failed one again.                                                       *)
(***************************************************************************)
EXTENDS Naturals

CONSTANTS Item,      \* ids of the messages, a set of naturals
          Group,     \* [Item -> delivery group or NoGroup]
          NoGroup,   \* the message belongs to no group
          MaxSends   \* how often one message may go out

VARIABLES phase,     \* [Item -> {"absent", "waiting", "delivered", "failed", "skipped"}]
          sends,     \* [Item -> Nat]: since the message was added or sent again
          reopened   \* [Item -> BOOLEAN]: an administrator sent it again

contractVars == <<phase, sends, reopened>>

(* The messages that go out before t. *)
Ahead(t) == {u \in Item : u < t /\ Group[u] = Group[t] /\ Group[t] # NoGroup}

ContractInit ==
    /\ phase = [t \in Item |-> "absent"]
    /\ sends = [t \in Item |-> 0]
    /\ reopened = [t \in Item |-> FALSE]

Submit(t) ==
    /\ phase[t] = "absent"
    /\ \A u \in Ahead(t) : phase[u] # "absent"
    /\ phase' = [phase EXCEPT ![t] = "waiting"]
    /\ UNCHANGED <<sends, reopened>>

(* An earlier message that was sent again may have been overtaken. *)
GoOut(t) ==
    /\ phase[t] = "waiting" /\ sends[t] < MaxSends
    /\ \A u \in Ahead(t) : phase[u] = "waiting" => reopened[u]
    /\ sends' = [sends EXCEPT ![t] = @ + 1]
    /\ UNCHANGED <<phase, reopened>>

Deliver(t) ==
    /\ phase[t] = "waiting" /\ sends[t] > 0
    /\ phase' = [phase EXCEPT ![t] = "delivered"]
    /\ UNCHANGED <<sends, reopened>>

GiveUp(t) ==
    /\ phase[t] = "waiting"
    /\ \E p \in {"failed", "skipped"} : phase' = [phase EXCEPT ![t] = p]
    /\ UNCHANGED <<sends, reopened>>

Reopen(t) ==
    /\ phase[t] = "failed"
    /\ phase' = [phase EXCEPT ![t] = "waiting"]
    /\ sends' = [sends EXCEPT ![t] = 0]
    /\ reopened' = [reopened EXCEPT ![t] = TRUE]

ContractNext ==
    \E t \in Item : Submit(t) \/ GoOut(t) \/ Deliver(t) \/ GiveUp(t) \/ Reopen(t)

ContractSpec == ContractInit /\ [][ContractNext]_contractVars
==============================================================================
