---------------------------- MODULE MCScheduledJob ----------------------------
(* Instances of ScheduledJob for TLC. *)
EXTENDS ScheduledJob

Plan(m, k, d, a, n, ds) ==
    [mode |-> m, kind |-> k, dues |-> d, asks |-> a, count |-> n, kinds |-> ds]

(* Every mode and kind of job, with one disturbance more where the job     *)
(* comes due only once.                                                    *)
All == {
    Plan("ai", "recurring", 2, 1, 1, Disturbances),
    Plan("ai", "once", 1, 1, 2, Disturbances),
    Plan("personal_ai", "recurring", 1, 1, 2, Disturbances),
    Plan("self_reminder", "once", 1, 0, 2, Disturbances)}

(* More of everything, for the invariants alone. *)
Larger == {
    Plan("ai", "recurring", 2, 2, 2, Disturbances),
    Plan("ai", "once", 2, 2, 2, Disturbances)}

(* A job that runs once is given another time. *)
Rearmed == {Plan("ai", "once", 1, 1, 1, {"rearm"})}
===============================================================================
