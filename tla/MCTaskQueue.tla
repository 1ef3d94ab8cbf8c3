----------------------------- MODULE MCTaskQueue -----------------------------
(* Instances of TaskQueue for TLC. *)
EXTENDS TaskQueue, TLC

CONSTANTS w1, w2   \* worker processes
(* The workers are interchangeable. *)
Workers == Permutations(Worker)

(* Two messages of a person, and a remark the bot makes unasked. *)
TwoAndRemark == [t \in Task |-> IF t = 2 THEN "observe" ELSE "human"]

(* A message, an API task and another message. *)
MessagesAndApi == [t \in Task |-> IF t = 2 THEN "api" ELSE "human"]

(* A message, a submitted choice card, a message. *)
MessagesAndChoice == [t \in Task |-> IF t = 2 THEN "choice" ELSE "human"]

(* Every stage but those whose next step writes the row by id alone, on the *)
(* strength of what was true when the stage was entered.                   *)
GuardedStages == Stages \ ({"idle"} \cup UnguardedStages)
==============================================================================
