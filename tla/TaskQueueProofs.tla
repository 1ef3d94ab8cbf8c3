--------------------------- MODULE TaskQueueProofs ---------------------------
(***************************************************************************)
(* Proofs about TaskQueue, for any number of tasks, workers and slots.     *)
(*                                                                         *)
(* The inductive invariant is TypeOK with three facts about who may write  *)
(* a row (ClaimsExclusive, RunsHaveRows, AttemptsLeft).  What concerns the *)
(* writes by id alone needs one assumption more: a run is not taken for    *)
(* lost between the transaction that looked at its row and the unguarded   *)
(* write that relies on it.                                                *)
(***************************************************************************)
EXTENDS TaskQueue, TLAPS

(* No unguarded stage lasts as long as the reaper's timeout. *)
PromptWrites == StallStages \cap UnguardedStages = {}

OwnInv == TypeOK /\ ClaimsExclusive /\ RunsHaveRows /\ AttemptsLeft

------------------------------------------------------------------------------
(* The rows start out absent and nothing runs. *)
LEMMA InitOwn == Init => OwnInv
  BY TaskAssumption
     DEF Init, OwnInv, TypeOK, ClaimsExclusive, RunsHaveRows, AttemptsLeft, Stages

(* What a step of the run of t does to the rows, the runs and the claims:  *)
(* it writes its own row only, and a row it puts back is left by its run.  *)
RunEffect(t) ==
    /\ stage[t] # "idle"
    /\ UNCHANGED <<attempts, claiming>>
    /\ \A u \in Task \ {t} : status'[u] = status[u] /\ stage'[u] = stage[u]
    /\ \/ status'[t] \in Active \cup Terminal
       \/ /\ status'[t] = "queued" /\ stage'[t] = "idle"
          /\ attempts[t] < MaxAttempts

(* A run that writes a final status, with the guard or without, and ends.  *)
LEMMA EndsRun ==
    ASSUME NEW t \in Task, NEW s \in Terminal, TypeOK, RunsHaveRows,
           stage[t] # "idle", FinishAny(t, s) \/ FinishOwned(t, s), Leave(t),
           UNCHANGED <<cancel, serial, due, attempts, procVars>>
    PROVE  TypeOK' /\ RunEffect(t)
  BY TaskAssumption
     DEF TypeOK, RunsHaveRows, RunEffect, FinishAny, FinishOwned, Leave, procVars,
         Active, Open, Terminal, Stages

(* A run that ends and leaves its row as it is. *)
LEMMA LeavesRow ==
    ASSUME NEW t \in Task, TypeOK, RunsHaveRows, stage[t] # "idle", Leave(t),
           UNCHANGED <<rowVars, procVars>>
    PROVE  TypeOK' /\ RunEffect(t)
  BY DEF TypeOK, RunsHaveRows, RunEffect, Leave, rowVars, procVars, Stages

(* A run that moves on and leaves its row as it is. *)
LEMMA MovesOn ==
    ASSUME NEW t \in Task, NEW g \in Stages, TypeOK, RunsHaveRows, stage[t] # "idle",
           Goto(t, g), UNCHANGED <<rowVars, procVars>>
    PROVE  TypeOK' /\ RunEffect(t)
  BY DEF TypeOK, RunsHaveRows, RunEffect, Goto, rowVars, procVars

(* Every operation of a run keeps the types and has the effect RunEffect.  *)
LEMMA HandlerEffect ==
    ASSUME NEW t \in Task, TypeOK, RunsHaveRows, HandlerStep(t)
    PROVE  TypeOK' /\ RunEffect(t)
PROOF
<1>0. Terminal = {"finished", "cancelled", "lost"}
  BY DEF Terminal
<1>1. CASE Start(t)
  BY <1>1 DEF Start, Goto, procVars, TypeOK, RunsHaveRows, RunEffect, Stages, Active, Open
<1>2. CASE Prepare(t)
  <2>1. ASSUME NEW s \in {"finished", "cancelled"}, FinishAny(t, s), Leave(t)
        PROVE  TypeOK' /\ RunEffect(t)
    BY <1>0, <1>2, <2>1, EndsRun DEF Prepare
  <2>2. CASE Goto(t, "checked") /\ UNCHANGED status
    BY <1>2, <2>2, MovesOn DEF Prepare, rowVars, Stages
  <2>3. QED
    BY <1>2, <2>1, <2>2 DEF Prepare
<1>3. CASE CheckOutdated(t)
  <2>1. CASE FinishOwned(t, "cancelled") /\ Leave(t)
    BY <1>0, <1>3, <2>1, EndsRun DEF CheckOutdated
  <2>2. CASE Goto(t, "yielding") /\ UNCHANGED status
    BY <1>3, <2>2, MovesOn DEF CheckOutdated, rowVars, Stages
  <2>3. CASE Goto(t, "supersede") /\ UNCHANGED status
    BY <1>3, <2>3, MovesOn DEF CheckOutdated, rowVars, Stages
  <2>4. QED
    BY <1>3, <2>1, <2>2, <2>3 DEF CheckOutdated
<1>4. CASE ObserveYields(t)
  <2>1. CASE FinishOwned(t, "cancelled") /\ Leave(t)
    BY <1>0, <1>4, <2>1, EndsRun DEF ObserveYields
  <2>2. CASE Goto(t, "supersede") /\ UNCHANGED status
    BY <1>4, <2>2, MovesOn DEF ObserveYields, rowVars, Stages
  <2>3. QED
    BY <1>4, <2>1, <2>2 DEF ObserveYields
<1>5. CASE Supersede(t)
  BY <1>5 DEF Supersede, CancelAll, Goto, procVars, TypeOK, RunsHaveRows, RunEffect, Stages
<1>6. CASE WaitSuperseded(t)
  BY <1>6, MovesOn DEF WaitSuperseded, Stages
<1>7. CASE Defer(t)
  <2>1. CASE Deferrable(t)
    <3>1. /\ stage[t] = "busy" /\ attempts[t] < MaxAttempts
          /\ status' = [status EXCEPT ![t] = "queued"]
          /\ due' = [due EXCEPT ![t] = FALSE]
          /\ Leave(t)
          /\ UNCHANGED <<cancel, serial, attempts, procVars>>
      BY <1>7, <2>1 DEF Defer, DeferUncapped
    <3>2. QED
      BY <3>1 DEF Leave, procVars, TypeOK, RunEffect, Stages, Open
  <2>2. CASE ~Deferrable(t)
    BY <1>7, <2>2, MovesOn DEF Defer, DeferUncapped, rowVars, Stages
  <2>3. QED
    BY <2>1, <2>2
<1>8. CASE GiveUp(t)
  BY <1>0, <1>8, EndsRun DEF GiveUp
<1>9. CASE Withdraw(t)
  BY <1>0, <1>9, EndsRun DEF Withdraw
<1>10. CASE Finalize(t)
  BY <1>0, <1>10, EndsRun DEF Finalize, Outcomes
<1>11. CASE FailRead(t)
  <2>1. CASE Goto(t, "failWrite")
    BY <1>11, <2>1, MovesOn DEF FailRead, Stages
  <2>2. CASE Leave(t)
    BY <1>11, <2>2, LeavesRow DEF FailRead
  <2>3. QED
    BY <1>11, <2>1, <2>2 DEF FailRead
<1>12. CASE FailWrite(t)
  BY <1>0, <1>12, EndsRun DEF FailWrite
<1>13. QED
  BY <1>1, <1>2, <1>3, <1>4, <1>5, <1>6, <1>7, <1>8, <1>9, <1>10, <1>11, <1>12
     DEF HandlerStep

(* RunEffect keeps the claims, the runs and the attempts in order. *)
LEMMA EffectOwn ==
    ASSUME NEW t \in Task, OwnInv, TypeOK', RunEffect(t)
    PROVE  OwnInv'
PROOF
<1>1. ClaimsExclusive'
  <2> SUFFICES ASSUME NEW w \in Worker, claiming[w] # None
               PROVE  /\ status'[claiming[w]] = "queued"
                      /\ \A v \in Worker : claiming[v] = claiming[w] => v = w
    BY DEF ClaimsExclusive, RunEffect
  <2>1. claiming[w] \in Task /\ status[claiming[w]] = "queued"
    BY DEF OwnInv, TypeOK, ClaimsExclusive
  <2>2. claiming[w] # t
    BY <2>1 DEF OwnInv, RunsHaveRows, RunEffect, Active, Terminal
  <2>3. QED
    BY <2>1, <2>2 DEF OwnInv, ClaimsExclusive, RunEffect
<1>2. RunsHaveRows'
  BY DEF OwnInv, TypeOK, RunsHaveRows, RunEffect
<1>3. AttemptsLeft'
  BY DEF OwnInv, TypeOK, AttemptsLeft, RunEffect, Active, Terminal
<1>4. QED
  BY <1>1, <1>2, <1>3 DEF OwnInv

(* The steps on one task by those who do not run it, and the steps of a    *)
(* run that fails.                                                         *)
LEMMA TaskOwn ==
    ASSUME NEW t \in Task, OwnInv, TaskStep(t)
    PROVE  OwnInv'
PROOF
<1>1. CASE Enqueue(t)
  BY <1>1, TaskAssumption
     DEF Enqueue, OwnInv, TypeOK, ClaimsExclusive, RunsHaveRows, AttemptsLeft,
         runVars, procVars, Active, Open, Terminal, QueuesBehind
<1>2. CASE FallDue(t)
  BY <1>2 DEF FallDue, OwnInv, TypeOK, ClaimsExclusive, RunsHaveRows, AttemptsLeft,
              runVars, procVars
<1>3. CASE HandlerStep(t)
  BY <1>3, HandlerEffect, EffectOwn DEF OwnInv
<1>4. CASE Raise(t)
  BY <1>4, TaskAssumption
     DEF Raise, Goto, OwnInv, TypeOK, ClaimsExclusive, RunsHaveRows, AttemptsLeft,
         rowVars, Stages
<1>5. CASE FailUnrecorded(t)
  BY <1>5, LeavesRow, EffectOwn DEF FailUnrecorded, OwnInv
<1>6. CASE Heartbeat(t)
  BY <1>6 DEF Heartbeat, OwnInv, TypeOK, ClaimsExclusive, RunsHaveRows, AttemptsLeft,
              rowVars, procVars
<1>7. CASE Reap(t)
  BY <1>7, TaskAssumption
     DEF Reap, Reapable, FinishAny, OwnInv, TypeOK, ClaimsExclusive, RunsHaveRows,
         AttemptsLeft, runVars, procVars, Active, Open, Terminal
<1>8. CASE BusyStop(t)
  BY <1>8 DEF BusyStop, CancelAll, OwnInv, TypeOK, ClaimsExclusive, RunsHaveRows,
              AttemptsLeft, runVars, procVars
<1>9. QED
  BY <1>1, <1>2, <1>3, <1>4, <1>5, <1>6, <1>7, <1>8 DEF TaskStep

(* The steps of a worker process. *)
LEMMA WorkerOwn ==
    ASSUME NEW w \in Worker, OwnInv, WorkerStep(w)
    PROVE  OwnInv'
PROOF
<1>1. CASE ClaimBegin(w)
  BY <1>1, TaskAssumption
     DEF ClaimBegin, Claimable, Locked, OwnInv, TypeOK, ClaimsExclusive, RunsHaveRows,
         AttemptsLeft, rowVars, runVars
<1>2. CASE ClaimCommit(w)
  <2> DEFINE t == claiming[w]
  <2>1. t \in Task /\ status[t] = "queued" /\ attempts[t] < MaxAttempts
    BY <1>2 DEF ClaimCommit, OwnInv, TypeOK, ClaimsExclusive, AttemptsLeft
  <2>2. TypeOK'
    <3>1. /\ attempts \in [Task -> 0..MaxAttempts]
          /\ attempts' = [attempts EXCEPT ![t] = attempts[t] + 1]
      BY <1>2 DEF ClaimCommit, OwnInv, TypeOK
    <3>2. attempts' \in [Task -> 0..MaxAttempts]
      <4>1. attempts[t] \in 0..MaxAttempts
        BY <2>1, <3>1
      <4>2. attempts[t] + 1 \in 0..MaxAttempts
        BY <2>1, <4>1, TaskAssumption
      <4>3. QED
        BY <2>1, <3>1, <4>2
    <3>3. status' \in [Task -> Open \cup Terminal \cup {"absent"}]
      BY <1>2, <2>1 DEF ClaimCommit, OwnInv, TypeOK, Active, Open
    <3>4. /\ stage' \in [Task -> Stages]
          /\ runner' \in [Task -> Worker \cup {None}]
          /\ notified' \in [Task -> BOOLEAN]
          /\ claiming' \in [Worker -> Task \cup {None}]
      BY <1>2, <2>1 DEF ClaimCommit, OwnInv, TypeOK, Stages
    <3>5. QED
      BY <1>2, <3>2, <3>3, <3>4 DEF ClaimCommit, OwnInv, TypeOK
  <2>3. ClaimsExclusive'
    BY <1>2, <2>1, TaskAssumption DEF ClaimCommit, OwnInv, TypeOK, ClaimsExclusive
  <2>4. RunsHaveRows' /\ AttemptsLeft'
    BY <1>2, <2>1 DEF ClaimCommit, OwnInv, TypeOK, RunsHaveRows, AttemptsLeft, Active
  <2>5. QED
    BY <2>2, <2>3, <2>4 DEF OwnInv
<1>3. CASE Drain(w)
  BY <1>3, TaskAssumption
     DEF Drain, OwnInv, TypeOK, ClaimsExclusive, RunsHaveRows, AttemptsLeft,
         rowVars, runVars
<1>4. CASE Exit(w)
  BY <1>4 DEF Exit, AbortRuns, OwnInv, TypeOK, ClaimsExclusive, RunsHaveRows,
              AttemptsLeft, rowVars, Stages
<1>5. CASE Crash(w)
  BY <1>5, TaskAssumption
     DEF Crash, AbortRuns, OwnInv, TypeOK, ClaimsExclusive, RunsHaveRows,
         AttemptsLeft, rowVars, Stages
<1>6. CASE Restart(w)
  BY <1>6 DEF Restart, OwnInv, TypeOK, ClaimsExclusive, RunsHaveRows, AttemptsLeft,
              rowVars, runVars
<1>7. QED
  BY <1>1, <1>2, <1>3, <1>4, <1>5, <1>6 DEF WorkerStep

(* OwnInv is inductive. *)
LEMMA NextOwn == OwnInv /\ [Next]_vars => OwnInv'
PROOF
<1> SUFFICES ASSUME OwnInv, [Next]_vars
             PROVE  OwnInv'
  OBVIOUS
<1>1. CASE \E t \in Task : TaskStep(t)
  BY <1>1, TaskOwn
<1>2. CASE \E w \in Worker : WorkerStep(w)
  BY <1>2, WorkerOwn
<1>3. CASE UserStop
  BY <1>3 DEF UserStop, CancelAll, OwnInv, TypeOK, ClaimsExclusive, RunsHaveRows,
              AttemptsLeft, runVars, procVars
<1>4. CASE UNCHANGED vars
  BY <1>4 DEF vars, OwnInv, TypeOK, ClaimsExclusive, RunsHaveRows, AttemptsLeft,
              rowVars, runVars, procVars
<1>5. QED
  BY <1>1, <1>2, <1>3, <1>4 DEF Next

(* Every reachable state is well typed: in particular no task is ever      *)
(* claimed more than SUPERSEDE_MAX_ATTEMPTS times, however many workers    *)
(* race for it, defer it, crash or restart.                                *)
THEOREM TypeCorrect == Spec => []TypeOK
PROOF
<1>1. Spec => []OwnInv
  BY InitOwn, NextOwn, PTL DEF Spec
<1>2. OwnInv => TypeOK
  BY DEF OwnInv
<1>3. QED
  BY <1>1, <1>2, PTL

------------------------------------------------------------------------------
(* The unguarded writes *)

(* UnguardedOwned is inductive relative to OwnInv when no run is taken for *)
(* lost in an unguarded stage.                                             *)
LEMMA NextUnguarded ==
    ASSUME PromptWrites, OwnInv, UnguardedOwned, [Next]_vars
    PROVE  UnguardedOwned'
PROOF
<1> USE DEF UnguardedOwned, UnguardedStages
<1>1. ASSUME NEW t \in Task, HandlerStep(t)
      PROVE  UnguardedOwned'
  <2>1. RunEffect(t)
    BY <1>1, HandlerEffect DEF OwnInv
  <2>2. SUFFICES stage'[t] \in UnguardedStages => status'[t] \in Active
    BY <2>1 DEF RunEffect
  <2>3. CASE Start(t)
    BY <2>3 DEF Start, OwnInv, TypeOK, Active
  <2>4. CASE FailRead(t)
    BY <2>4 DEF FailRead, Goto, Leave, OwnInv, TypeOK, rowVars
  <2>5. CASE Prepare(t) \/ CheckOutdated(t) \/ ObserveYields(t) \/ Supersede(t)
    BY <2>5 DEF Prepare, CheckOutdated, ObserveYields, Supersede, Goto, Leave,
                OwnInv, TypeOK
  <2>6. CASE WaitSuperseded(t) \/ Defer(t) \/ GiveUp(t) \/ Withdraw(t)
             \/ Finalize(t) \/ FailWrite(t)
    BY <2>6 DEF WaitSuperseded, Defer, DeferUncapped, GiveUp, Withdraw, Finalize,
                FailWrite, Goto, Leave, OwnInv, TypeOK
  <2>7. QED
    BY <1>1, <2>3, <2>4, <2>5, <2>6 DEF HandlerStep
<1>2. ASSUME NEW t \in Task, TaskStep(t), ~HandlerStep(t)
      PROVE  UnguardedOwned'
  <2>1. CASE Enqueue(t) \/ FallDue(t) \/ Heartbeat(t) \/ BusyStop(t)
    BY <2>1 DEF Enqueue, FallDue, Heartbeat, BusyStop, OwnInv, TypeOK, RunsHaveRows,
                Active, Terminal, rowVars, runVars
  <2>2. CASE Raise(t)
    BY <2>2 DEF Raise, Goto, OwnInv, TypeOK, rowVars
  <2>3. CASE FailUnrecorded(t)
    BY <2>3 DEF FailUnrecorded, Leave, OwnInv, TypeOK, rowVars
  <2>4. CASE Reap(t)
    BY <2>4 DEF Reap, Reapable, FinishAny, PromptWrites, OwnInv, TypeOK, runVars
  <2>5. QED
    BY <1>2, <2>1, <2>2, <2>3, <2>4 DEF TaskStep
<1>3. ASSUME NEW w \in Worker, WorkerStep(w)
      PROVE  UnguardedOwned'
  <2>1. CASE ClaimCommit(w)
    BY <2>1, TaskAssumption DEF ClaimCommit, OwnInv, TypeOK, Active
  <2>2. CASE ClaimBegin(w) \/ Drain(w) \/ Restart(w)
    BY <2>2 DEF ClaimBegin, Drain, Restart, rowVars, runVars
  <2>3. CASE Exit(w) \/ Crash(w)
    BY <2>3 DEF Exit, Crash, AbortRuns, rowVars
  <2>4. QED
    BY <1>3, <2>1, <2>2, <2>3 DEF WorkerStep
<1>4. CASE UserStop
  BY <1>4 DEF UserStop, runVars
<1>5. CASE UNCHANGED vars
  BY <1>5 DEF vars, rowVars, runVars
<1>6. QED
  BY <1>1, <1>2, <1>3, <1>4, <1>5 DEF Next

(* How one row may change in a step. *)
RowStep(t) ==
    /\ \A u \in Task \ {t} : status'[u] = status[u] /\ attempts'[u] = attempts[u]
    /\ \/ /\ status[t] = "absent" /\ status'[t] = "queued"
          /\ attempts'[t] = attempts[t]
       \/ /\ status[t] = "queued" /\ status'[t] = "claimed"
          /\ attempts[t] < MaxAttempts /\ attempts'[t] = attempts[t] + 1
       \/ /\ status[t] \in Active /\ attempts'[t] = attempts[t]
          /\ \/ status'[t] \in Active \cup Terminal
             \/ status'[t] = "queued" /\ attempts[t] < MaxAttempts
       \/ status'[t] = status[t] /\ attempts'[t] = attempts[t]

(* A step of a run changes its own row as RowStep says: what is written by *)
(* id alone is still owned, the rest is guarded.                           *)
LEMMA HandlerRow ==
    ASSUME NEW t \in Task, OwnInv, UnguardedOwned, HandlerStep(t)
    PROVE  RowStep(t)
PROOF
<1>1. RunEffect(t)
  BY HandlerEffect DEF OwnInv
<1>2. SUFFICES \/ status'[t] = status[t]
               \/ status[t] \in Active
  BY <1>1 DEF RunEffect, RowStep
<1>3. CASE Start(t) \/ Prepare(t) \/ FailWrite(t)
  BY <1>3 DEF Start, Prepare, FailWrite, UnguardedOwned, UnguardedStages
<1>4. CASE CheckOutdated(t) \/ ObserveYields(t) \/ GiveUp(t) \/ Withdraw(t) \/ Finalize(t)
  BY <1>4 DEF CheckOutdated, ObserveYields, GiveUp, Withdraw, Finalize, FinishOwned,
              OwnInv, TypeOK
<1>5. CASE Supersede(t) \/ WaitSuperseded(t) \/ FailRead(t)
  BY <1>5 DEF Supersede, WaitSuperseded, FailRead, rowVars
<1>6. CASE Defer(t)
  BY <1>6 DEF Defer, DeferUncapped, Deferrable
<1>7. QED
  BY <1>3, <1>4, <1>5, <1>6 DEF HandlerStep

(* Every step changes at most one row, and that as RowStep says. *)
LEMMA NextRow ==
    ASSUME OwnInv, UnguardedOwned, [Next]_vars
    PROVE  UNCHANGED <<status, attempts>> \/ \E t \in Task : RowStep(t)
PROOF
<1>1. ASSUME NEW t \in Task, TaskStep(t)
      PROVE  UNCHANGED <<status, attempts>> \/ RowStep(t)
  <2>1. CASE HandlerStep(t)
    BY <2>1, HandlerRow
  <2>2. CASE Enqueue(t)
    BY <2>2 DEF Enqueue, RowStep, OwnInv, TypeOK
  <2>3. CASE Reap(t)
    BY <2>3 DEF Reap, Reapable, FinishAny, RowStep, OwnInv, TypeOK, Active, Terminal
  <2>4. CASE FallDue(t) \/ Raise(t) \/ FailUnrecorded(t) \/ Heartbeat(t) \/ BusyStop(t)
    BY <2>4 DEF FallDue, Raise, FailUnrecorded, Heartbeat, BusyStop, rowVars
  <2>5. QED
    BY <1>1, <2>1, <2>2, <2>3, <2>4 DEF TaskStep
<1>2. ASSUME NEW w \in Worker, ClaimCommit(w)
      PROVE  RowStep(claiming[w]) /\ claiming[w] \in Task
  <2>1. /\ claiming[w] \in Task /\ status[claiming[w]] = "queued"
        /\ attempts[claiming[w]] < MaxAttempts
    BY <1>2 DEF ClaimCommit, OwnInv, TypeOK, ClaimsExclusive, AttemptsLeft
  <2>2. QED
    BY <1>2, <2>1 DEF ClaimCommit, RowStep, OwnInv, TypeOK
<1>3. ASSUME NEW w \in Worker, WorkerStep(w), ~ClaimCommit(w)
      PROVE  UNCHANGED <<status, attempts>>
  BY <1>3 DEF WorkerStep, ClaimBegin, Drain, Exit, Crash, Restart, rowVars
<1>4. CASE UserStop \/ UNCHANGED vars
  BY <1>4 DEF UserStop, vars, rowVars
<1>5. QED
  BY <1>1, <1>2, <1>3, <1>4 DEF Next

(* Both parts of the invariant together, for runs that write promptly. *)
LEMMA OwnedAlways ==
    ASSUME PromptWrites
    PROVE  Spec => [](OwnInv /\ UnguardedOwned)
PROOF
<1>1. Init => UnguardedOwned
  BY DEF Init, UnguardedOwned, UnguardedStages
<1>2. QED
  BY <1>1, InitOwn, NextOwn, NextUnguarded, PTL DEF Spec

(* Whoever is late (the reaper against a worker that stalled in a long     *)
(* stage, a worker against the reaper, two workers against each other), a  *)
(* row that has ended keeps the status it ended with, provided no run      *)
(* stalls for the reaper's timeout inside an unguarded stage.              *)
THEOREM TerminalStays ==
    ASSUME PromptWrites
    PROVE  Spec => TerminalIsFinal
PROOF
<1> DEFINE Kept == \A t \in Task : status[t] \in Terminal => status'[t] = status[t]
<1>1. OwnInv /\ UnguardedOwned /\ [Next]_vars => [Kept]_vars
  <2> SUFFICES ASSUME OwnInv, UnguardedOwned, [Next]_vars PROVE Kept
    OBVIOUS
  <2>1. CASE UNCHANGED <<status, attempts>>
    BY <2>1
  <2>2. ASSUME NEW t \in Task, RowStep(t) PROVE Kept
    BY <2>2 DEF RowStep, Terminal, Active
  <2>3. QED
    BY <2>1, <2>2, NextRow
<1>2. QED
  BY <1>1, OwnedAlways, PTL DEF Spec, TerminalIsFinal

(* The claims and the runs own what they write, the property RowsOwned of  *)
(* the runs of the model checker, for every instance.                      *)
THEOREM RowsAlwaysOwned ==
    ASSUME PromptWrites
    PROVE  Spec => []RowsOwned
PROOF
<1>1. OwnInv /\ UnguardedOwned => RowsOwned
  BY DEF OwnInv, RowsOwned
<1>2. QED
  BY <1>1, OwnedAlways, PTL

------------------------------------------------------------------------------
(* The refinement *)

(* The phases of the abstract lifecycle. *)
LEMMA Phases ==
    /\ PhaseOf("absent") = "absent"
    /\ PhaseOf("queued") = "queued"
    /\ \A s \in Active : PhaseOf(s) = "held"
    /\ \A s \in Terminal : PhaseOf(s) = "ended"
  BY DEF PhaseOf, Active, Terminal

(* A change of one row is a step of the lifecycle, or none. *)
LEMMA RowRefines ==
    ASSUME NEW t \in Task, OwnInv, TypeOK', RowStep(t)
    PROVE  [Lifecycle!LifecycleNext]_(Lifecycle!lifecycleVars)
PROOF
<1> DEFINE phase == [u \in Task |-> PhaseOf(status[u])]
<1>1. \A u \in Task \ {t} : phase'[u] = phase[u]
  BY DEF RowStep
<1>2. attempts' = [attempts EXCEPT ![t] = attempts'[t]]
  BY DEF RowStep, OwnInv, TypeOK
<1>3. phase' = [phase EXCEPT ![t] = PhaseOf(status'[t])]
  BY <1>1
<1>4. attempts'[t] = attempts[t] => attempts' = attempts
  BY <1>2 DEF OwnInv, TypeOK
<1>5. CASE status[t] = "absent" /\ status'[t] = "queued" /\ attempts'[t] = attempts[t]
  <2>1. Lifecycle!Submit(t)
    BY <1>4, <1>3, <1>5, Phases DEF Lifecycle!Submit
  <2>2. QED
    BY <2>1 DEF Lifecycle!LifecycleNext
<1>6. CASE /\ status[t] = "queued" /\ status'[t] = "claimed"
           /\ attempts[t] < MaxAttempts /\ attempts'[t] = attempts[t] + 1
  <2>1. Lifecycle!Take(t)
    BY <1>2, <1>3, <1>6, Phases DEF Lifecycle!Take, Active
  <2>2. QED
    BY <2>1 DEF Lifecycle!LifecycleNext
<1>7. CASE /\ status[t] \in Active /\ attempts'[t] = attempts[t]
           /\ status'[t] = "queued" /\ attempts[t] < MaxAttempts
  <2>1. Lifecycle!PutBack(t)
    BY <1>4, <1>3, <1>7, Phases DEF Lifecycle!PutBack
  <2>2. QED
    BY <2>1 DEF Lifecycle!LifecycleNext
<1>8. CASE /\ status[t] \in Active /\ attempts'[t] = attempts[t]
           /\ status'[t] \in Terminal
  <2>1. Lifecycle!End(t)
    BY <1>4, <1>3, <1>8, Phases DEF Lifecycle!End
  <2>2. QED
    BY <2>1 DEF Lifecycle!LifecycleNext
<1>9. CASE /\ attempts'[t] = attempts[t]
           /\ \/ status'[t] = status[t]
              \/ status[t] \in Active /\ status'[t] \in Active
  <2>1. PhaseOf(status'[t]) = PhaseOf(status[t])
    BY <1>9, Phases
  <2>2. phase' = phase
    BY <1>3, <2>1
  <2>3. attempts' = attempts
    BY <1>4, <1>9
  <2>4. QED
    BY <2>2, <2>3 DEF Lifecycle!lifecycleVars
<1>10. QED
  BY <1>5, <1>6, <1>7, <1>8, <1>9 DEF RowStep

(* The table, with every process around it, implements the lifecycle it    *)
(* promises: one holder, bounded attempts, no second end.                  *)
THEOREM QueueImplementsLifecycle ==
    ASSUME PromptWrites
    PROVE  Spec => ImplementsLifecycle
PROOF
<1>1. Init => Lifecycle!LifecycleInit
  BY Phases DEF Init, Lifecycle!LifecycleInit
<1>2. OwnInv /\ UnguardedOwned /\ OwnInv' /\ [Next]_vars
        => [Lifecycle!LifecycleNext]_(Lifecycle!lifecycleVars)
  <2> SUFFICES ASSUME OwnInv, UnguardedOwned, OwnInv', [Next]_vars
               PROVE  [Lifecycle!LifecycleNext]_(Lifecycle!lifecycleVars)
    OBVIOUS
  <2>1. CASE UNCHANGED <<status, attempts>>
    BY <2>1 DEF Lifecycle!lifecycleVars
  <2>2. ASSUME NEW t \in Task, RowStep(t)
        PROVE  [Lifecycle!LifecycleNext]_(Lifecycle!lifecycleVars)
    BY <2>2, RowRefines DEF OwnInv
  <2>3. QED
    BY <2>1, <2>2, NextRow
<1>3. QED
  BY <1>1, <1>2, OwnedAlways, PTL DEF Spec, ImplementsLifecycle, Lifecycle!LifecycleSpec
==============================================================================
