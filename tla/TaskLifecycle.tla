---------------------------- MODULE TaskLifecycle ----------------------------
(***************************************************************************)
(* What the task table promises to the rest of CoreMan, and nothing else:  *)
(* a task is submitted once, is held by at most one worker at a time, may  *)
(* be put back a bounded number of times, and once ended stays ended.      *)
(* TaskQueue, which models core/bus/tasks.py and the processes around it,  *)
(* is checked to implement this module.                                    *)
(***************************************************************************)
EXTENDS Naturals

CONSTANTS Task,       \* ids of the rows of the tasks table
          MaxTakes    \* how often one task may be taken up

VARIABLES phase,      \* [Task -> {"absent", "queued", "held", "ended"}]
          takes       \* [Task -> Nat]: how often the task was taken up

lifecycleVars == <<phase, takes>>

LifecycleInit ==
    /\ phase = [t \in Task |-> "absent"]
    /\ takes = [t \in Task |-> 0]

Submit(t) ==
    /\ phase[t] = "absent"
    /\ phase' = [phase EXCEPT ![t] = "queued"]
    /\ UNCHANGED takes

Take(t) ==
    /\ phase[t] = "queued"
    /\ takes[t] < MaxTakes
    /\ phase' = [phase EXCEPT ![t] = "held"]
    /\ takes' = [takes EXCEPT ![t] = @ + 1]

PutBack(t) ==
    /\ phase[t] = "held"
    /\ takes[t] < MaxTakes
    /\ phase' = [phase EXCEPT ![t] = "queued"]
    /\ UNCHANGED takes

End(t) ==
    /\ phase[t] = "held"
    /\ phase' = [phase EXCEPT ![t] = "ended"]
    /\ UNCHANGED takes

LifecycleNext == \E t \in Task : Submit(t) \/ Take(t) \/ PutBack(t) \/ End(t)

LifecycleSpec == LifecycleInit /\ [][LifecycleNext]_lifecycleVars
==============================================================================
