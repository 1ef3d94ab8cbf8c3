------------------------------ MODULE TaskQueue ------------------------------
(***************************************************************************)
(* The task queue of CoreMan: the tasks table (core/bus/tasks.py), the     *)
(* worker processes that claim and run its rows (runtime/worker/service.py *)
(* and the chat handler's preparation), the commands that cancel them and  *)
(* the scheduler's reaper (runtime/scheduler/reaper.py).                   *)
(*                                                                         *)
(* The rows modelled belong to ONE chat session of one bot: every rule     *)
(* that relates two rows (serialisation, superseding, waiting) compares    *)
(* rows of the same bot and session_key.  A task id is a natural number,   *)
(* because the rules compare ids.                                          *)
(*                                                                         *)
(* PostgreSQL runs at READ COMMITTED.  A statement that reads and updates  *)
(* under one snapshot is one action; the claim, whose snapshot is taken    *)
(* before its row lock is given up at COMMIT, is two.                      *)
(***************************************************************************)
EXTENDS Naturals, FiniteSets

CONSTANTS Task,           \* ids of the rows, a set of naturals
          Worker,         \* worker processes
          Origin,         \* [Task -> Origins]: where each task comes from
          None,           \* no task
          MaxAttempts,    \* SUPERSEDE_MAX_ATTEMPTS: claims a task may use up
          Slots,          \* tasks one worker runs at once
          MaxDisruptions, \* bound: drains, crashes and exceptions in a behaviour
          StallStages     \* stages of a run that may last so long without a
                          \* heartbeat that a live run is taken for lost

Origins == {"human", "choice", "observe", "api"}

(* The stages of a run of a task inside a worker process. *)
Stages == {"idle", "claimed", "prepare", "checked", "yielding", "supersede",
           "waiting", "busy", "withdraw", "turn", "failing", "failWrite"}

(* The stages whose next step writes the status of the row by id alone.    *)
UnguardedStages == {"claimed", "prepare", "failWrite"}

ASSUME TaskAssumption ==
    /\ Task \subseteq Nat
    /\ None \notin Task \cup Worker
    /\ Origin \in [Task -> Origins]
    /\ MaxAttempts \in Nat \ {0}
    /\ Slots \in Nat \ {0}
    /\ MaxDisruptions \in Nat
    /\ StallStages \subseteq Stages

VARIABLES
    status,       \* tasks.status, "absent" before the row exists
    cancel,       \* tasks.cancel_reason, "none" while cancel_requested_at is null
    serial,       \* payload.serialize_session
    due,          \* run_after <= now()
    attempts,     \* tasks.attempts
    stage,        \* where the coroutine that runs the task stands, "idle" if none
    runner,       \* the process that coroutine lives in
    notified,     \* ctx.cancel_event is set
    claiming,     \* the row each worker's claim statement has locked
    mode,         \* "up", "draining" or "down", per worker
    disruptions   \* drains, crashes and exceptions so far

rowVars == <<status, cancel, serial, due, attempts>>
runVars == <<stage, runner, notified>>
procVars == <<claiming, mode, disruptions>>
vars == <<rowVars, runVars, procVars>>

Active == {"claimed", "running"}
Open == Active \cup {"queued"}

(* The terminal statuses, told apart as far as the rules do: "lost" is     *)
(* failed with error_code worker_lost, "finished" every other end a        *)
(* handler writes (succeeded, failed, timed_out).                          *)
Terminal == {"finished", "cancelled", "lost"}

(* Chat messages carry kind "chat"; a submitted card is "choice_submit". *)
Kind(t) == IF Origin[t] = "choice" THEN "choice_submit" ELSE "chat"

ActiveTasks == {t \in Task : status[t] \in Active}
OpenTasks == {t \in Task : status[t] \in Open}
Running(w) == {t \in Task : stage[t] # "idle" /\ runner[t] = w}
Locked(t) == \E w \in Worker : claiming[w] = t

------------------------------------------------------------------------------
(* Writes of one row.  The callers fix the other variables.                *)

(* finish(only_active=True): the guard and the update are one statement. *)
FinishOwned(t, s) ==
    status' = [status EXCEPT ![t] = IF @ \in Active THEN s ELSE @]

(* finish() without the guard. *)
FinishAny(t, s) == status' = [status EXCEPT ![t] = s]

(* request_cancel on each row of S: open rows nobody has cancelled yet. *)
CancelAll(S, why) ==
    cancel' = [t \in Task |->
        IF t \in S /\ status[t] \in Open /\ cancel[t] = "none"
        THEN why ELSE cancel[t]]

(* The coroutine of t reaches the stage s. *)
Goto(t, s) ==
    /\ stage' = [stage EXCEPT ![t] = s]
    /\ UNCHANGED <<runner, notified>>

(* The coroutine of t returns, and its TaskContext is gone. *)
Leave(t) ==
    /\ stage' = [stage EXCEPT ![t] = "idle"]
    /\ runner' = [runner EXCEPT ![t] = None]
    /\ notified' = [notified EXCEPT ![t] = FALSE]

------------------------------------------------------------------------------
(* Enqueueing *)

(* A message is queued behind the session's unfinished messages; what the  *)
(* bot says unasked is not a message one waits for.  Cards submitted by    *)
(* the user and remarks of the bot never queue; API tasks always do.       *)
QueuesBehind(t) ==
    \/ Origin[t] = "api"
    \/ /\ Origin[t] = "human"
       /\ \E o \in OpenTasks :
            /\ Kind(o) = "chat" /\ Origin[o] # "observe" /\ cancel[o] = "none"

Enqueue(t) ==
    /\ status[t] = "absent"
    /\ \A u \in Task : u < t => status[u] # "absent"
    /\ status' = [status EXCEPT ![t] = "queued"]
    /\ serial' = [serial EXCEPT ![t] = QueuesBehind(t)]
    /\ UNCHANGED <<cancel, due, attempts, runVars, procVars>>

(* The 30 seconds of a deferred row are over. *)
FallDue(t) ==
    /\ status[t] = "queued" /\ ~due[t]
    /\ due' = [due EXCEPT ![t] = TRUE]
    /\ UNCHANGED <<status, cancel, serial, attempts, runVars, procVars>>

------------------------------------------------------------------------------
(* Claiming *)

(* The rows that hold back a serialised candidate. *)
HoldsBackActive(prior, t) == prior # t /\ status[prior] \in Active

HoldsBack(prior, t) ==
    /\ prior # t
    /\ \/ status[prior] \in Active
       \/ status[prior] = "queued" /\ prior < t /\ cancel[prior] = "none"

ClaimableLocked(t) ==
    /\ status[t] = "queued" /\ due[t]
    /\ serial[t] => ~\E prior \in Task : HoldsBack(prior, t)

Claimable(t) ==
    /\ status[t] = "queued" /\ due[t] /\ ~Locked(t)
    /\ serial[t] => ~\E prior \in Task : HoldsBack(prior, t)

(* The claim statement's snapshot and its row lock. *)
ClaimBegin(w) ==
    /\ mode[w] = "up" /\ claiming[w] = None
    /\ Cardinality(Running(w)) < Slots
    /\ \E t \in Task :
         /\ Claimable(t)
         /\ \A u \in Task : Claimable(u) => t <= u
         /\ claiming' = [claiming EXCEPT ![w] = t]
    /\ UNCHANGED <<rowVars, runVars, mode, disruptions>>

(* COMMIT of the claim, then _spawn of the run. *)
ClaimCommit(w) ==
    /\ claiming[w] # None
    /\ LET t == claiming[w] IN
         /\ status' = [status EXCEPT ![t] = "claimed"]
         /\ attempts' = [attempts EXCEPT ![t] = @ + 1]
         /\ stage' = [stage EXCEPT ![t] = "claimed"]
         /\ runner' = [runner EXCEPT ![t] = w]
         /\ notified' = [notified EXCEPT ![t] = FALSE]
    /\ claiming' = [claiming EXCEPT ![w] = None]
    /\ UNCHANGED <<cancel, serial, due, mode, disruptions>>

------------------------------------------------------------------------------
(* A run: start, then the chat handler *)

(* start() sets "running" by id alone. *)
Start(t) ==
    /\ stage[t] = "claimed"
    /\ status' = [status EXCEPT ![t] = "running"]
    /\ Goto(t, "prepare")
    /\ UNCHANGED <<cancel, serial, due, attempts, procVars>>

(* First transaction of _prepare.  A task already cancelled is finished,   *)
(* and so is one that _resolve answers itself (an announcement, a refusal, *)
(* a built-in command, a missing relay): both without the guard.  A card   *)
(* that was put back finds its answers already taken and always ends here. *)
Prepare(t) ==
    /\ stage[t] = "prepare"
    /\ \/ cancel[t] # "none" /\ FinishAny(t, "cancelled") /\ Leave(t)
       \/ /\ cancel[t] = "none"
          /\ \E s \in {"finished", "cancelled"} : FinishAny(t, s)
          /\ Leave(t)
       \/ /\ cancel[t] = "none"
          /\ ~(Kind(t) = "choice_submit" /\ attempts[t] > 1)
          /\ Goto(t, "checked") /\ UNCHANGED status
    /\ UNCHANGED <<cancel, serial, due, attempts, procVars>>

(* A later task of the same kind that supersedes t, whatever its status. *)
HasNewer(t) ==
    \E u \in Task : /\ u > t /\ status[u] # "absent"
                    /\ Kind(u) = Kind(t) /\ ~serial[u]

(* _outdated: only a task that was put back once looks for newer ones. *)
CheckOutdated(t) ==
    /\ stage[t] = "checked"
    /\ IF attempts[t] > 1 /\ HasNewer(t)
       THEN FinishOwned(t, "cancelled") /\ Leave(t)
       ELSE /\ Goto(t, IF Origin[t] = "observe" THEN "yielding" ELSE "supersede")
            /\ UNCHANGED status
    /\ UNCHANGED <<cancel, serial, due, attempts, procVars>>

(* _observe_yields: a remark gives way to any other open turn. *)
ObserveYields(t) ==
    /\ stage[t] = "yielding"
    /\ IF \E o \in OpenTasks \ {t} : Kind(o) = "chat"
       THEN FinishOwned(t, "cancelled") /\ Leave(t)
       ELSE Goto(t, "supersede") /\ UNCHANGED status
    /\ UNCHANGED <<cancel, serial, due, attempts, procVars>>

(* supersede() and its commit: every other active row of the session. *)
Supersede(t) ==
    /\ stage[t] = "supersede"
    /\ CancelAll(ActiveTasks \ {t}, "superseded")
    /\ Goto(t, "waiting")
    /\ UNCHANGED <<status, serial, due, attempts, procVars>>

(* One poll of _wait_superseded: the task proceeds once no older task is   *)
(* active, withdraws when told to, and gives up after 90 seconds.          *)
OlderNotCancelled(t) == \A u \in ActiveTasks : cancel[u] = "none" => u >= t
OlderGone(t) == \A u \in ActiveTasks : u >= t

WaitSuperseded(t) ==
    /\ stage[t] = "waiting"
    /\ \/ OlderGone(t) /\ Goto(t, "turn")
       \/ ~OlderGone(t) /\ notified[t] /\ Goto(t, "withdraw")
       \/ ~OlderGone(t) /\ ~notified[t] /\ Goto(t, "busy")
    /\ UNCHANGED <<rowVars, procVars>>

(* defer(): back to the queue unless somebody asked the task to stop. *)
DeferAnyRow(t) == cancel[t] = "none"
Deferrable(t) == status[t] \in Active /\ cancel[t] = "none"

(* _session_busy has attempts left. *)
DeferUncapped(t) ==
    /\ stage[t] = "busy"
    /\ IF Deferrable(t)
       THEN /\ status' = [status EXCEPT ![t] = "queued"]
            /\ due' = [due EXCEPT ![t] = FALSE]
            /\ Leave(t)
       ELSE Goto(t, "withdraw") /\ UNCHANGED <<status, due>>
    /\ UNCHANGED <<cancel, serial, attempts, procVars>>

Defer(t) == attempts[t] < MaxAttempts /\ DeferUncapped(t)

(* _session_busy after the last attempt: tell the user and fail. *)
GiveUp(t) ==
    /\ stage[t] = "busy" /\ attempts[t] >= MaxAttempts
    /\ FinishOwned(t, "finished") /\ Leave(t)
    /\ UNCHANGED <<cancel, serial, due, attempts, procVars>>

(* _cancelled_before_open *)
Withdraw(t) ==
    /\ stage[t] = "withdraw"
    /\ FinishOwned(t, "cancelled") /\ Leave(t)
    /\ UNCHANGED <<cancel, serial, due, attempts, procVars>>

(* The turn ends and _finalize takes the final status in one transaction:  *)
(* a cancellation that arrived meanwhile wins, a row no longer active is   *)
(* left alone.                                                             *)
Outcomes(t) ==
    IF cancel[t] # "none" \/ notified[t] THEN {"cancelled"} ELSE {"finished"}

FinalizeUnguarded(t) ==
    /\ stage[t] = "turn"
    /\ \E s \in Outcomes(t) : FinishAny(t, s)
    /\ Leave(t)
    /\ UNCHANGED <<cancel, serial, due, attempts, procVars>>

Finalize(t) ==
    /\ stage[t] = "turn"
    /\ \E s \in Outcomes(t) : FinishOwned(t, s)
    /\ Leave(t)
    /\ UNCHANGED <<cancel, serial, due, attempts, procVars>>

(* An exception anywhere in the run lands in _fail ... *)
Raise(t) ==
    /\ stage[t] \notin {"idle", "failing", "failWrite"}
    /\ disruptions < MaxDisruptions
    /\ disruptions' = disruptions + 1
    /\ Goto(t, "failing")
    /\ UNCHANGED <<rowVars, claiming, mode>>

(* ... which reads the row's status and writes it afterwards by id alone.  *)
FailRead(t) ==
    /\ stage[t] = "failing"
    /\ IF status[t] \in Active THEN Goto(t, "failWrite") ELSE Leave(t)
    /\ UNCHANGED <<rowVars, procVars>>

FailWrite(t) ==
    /\ stage[t] = "failWrite"
    /\ FinishAny(t, "finished") /\ Leave(t)
    /\ UNCHANGED <<cancel, serial, due, attempts, procVars>>

(* The failure itself could not be recorded: the run is gone, its row is   *)
(* still active and no longer beaten.                                      *)
FailUnrecorded(t) ==
    /\ stage[t] \in {"failing", "failWrite"}
    /\ Leave(t)
    /\ UNCHANGED <<rowVars, procVars>>

------------------------------------------------------------------------------
(* Heartbeats, the reaper and the commands that cancel *)

(* TaskContext.heartbeat learns that the task was cancelled, or that its   *)
(* row is no longer active (Heartbeat.LOST).  That the beat keeps the row  *)
(* from being reaped is in the guard of Reap.                              *)
Heartbeat(t) ==
    /\ stage[t] # "idle" /\ ~notified[t]
    /\ status[t] \notin Active \/ cancel[t] # "none"
    /\ notified' = [notified EXCEPT ![t] = TRUE]
    /\ UNCHANGED <<rowVars, stage, runner, procVars>>

(* reap_lost_tasks: an active row without a heartbeat for a minute.        *)
(* Nobody runs the task any more, or the process that does could not reach *)
(* the database while the run stood in one of the StallStages.             *)
ReapableRunning(t) ==
    status[t] = "running" /\ stage[t] \in StallStages \cup {"idle"}
Reapable(t) ==
    status[t] \in Active /\ stage[t] \in StallStages \cup {"idle"}

Reap(t) ==
    /\ Reapable(t)
    /\ FinishAny(t, "lost")
    /\ UNCHANGED <<cancel, serial, due, attempts, runVars, procVars>>

(* The stop command: every active task of the session. *)
UserStop ==
    /\ \E t \in ActiveTasks : cancel[t] = "none"
    /\ CancelAll(ActiveTasks, "user_stop")
    /\ UNCHANGED <<status, serial, due, attempts, runVars, procVars>>

(* "Stop the previous one" on the card offered with a queued message: the  *)
(* sender's earlier messages that are still open.  An update waits for a   *)
(* row that a claim has locked.                                            *)
BusyStop(t) ==
    LET ahead == {u \in OpenTasks : u < t /\ Origin[u] = "human"} IN
    /\ Origin[t] = "human" /\ status[t] = "queued" /\ cancel[t] = "none"
    /\ serial[t]
    /\ \E u \in ahead : cancel[u] = "none"
    /\ \A u \in ahead : ~Locked(u)
    /\ CancelAll(ahead, "user_stop")
    /\ UNCHANGED <<status, serial, due, attempts, runVars, procVars>>

------------------------------------------------------------------------------
(* Processes *)

(* The runs of w vanish; their rows stay as they are. *)
AbortRuns(w) ==
    LET lost == {t \in Task : runner[t] = w} IN
    /\ stage' = [t \in Task |-> IF t \in lost THEN "idle" ELSE stage[t]]
    /\ runner' = [t \in Task |-> IF t \in lost THEN None ELSE runner[t]]
    /\ notified' = [t \in Task |-> notified[t] /\ t \notin lost]

(* SIGTERM or the drain flag: no further claims. *)
Drain(w) ==
    /\ mode[w] = "up" /\ disruptions < MaxDisruptions
    /\ mode' = [mode EXCEPT ![w] = "draining"]
    /\ disruptions' = disruptions + 1
    /\ UNCHANGED <<rowVars, runVars, claiming>>

(* The end of on_shutdown: the remaining runs are cancelled, and a         *)
(* cancelled run writes nothing.                                           *)
Exit(w) ==
    /\ mode[w] = "draining" /\ claiming[w] = None
    /\ mode' = [mode EXCEPT ![w] = "down"]
    /\ AbortRuns(w)
    /\ UNCHANGED <<rowVars, claiming, disruptions>>

(* The process dies; an uncommitted claim is rolled back. *)
Crash(w) ==
    /\ mode[w] # "down" /\ disruptions < MaxDisruptions
    /\ mode' = [mode EXCEPT ![w] = "down"]
    /\ disruptions' = disruptions + 1
    /\ claiming' = [claiming EXCEPT ![w] = None]
    /\ AbortRuns(w)
    /\ UNCHANGED rowVars

Restart(w) ==
    /\ mode[w] = "down"
    /\ mode' = [mode EXCEPT ![w] = "up"]
    /\ UNCHANGED <<rowVars, runVars, claiming, disruptions>>

------------------------------------------------------------------------------
Init ==
    /\ status = [t \in Task |-> "absent"]
    /\ cancel = [t \in Task |-> "none"]
    /\ serial = [t \in Task |-> FALSE]
    /\ due = [t \in Task |-> TRUE]
    /\ attempts = [t \in Task |-> 0]
    /\ stage = [t \in Task |-> "idle"]
    /\ runner = [t \in Task |-> None]
    /\ notified = [t \in Task |-> FALSE]
    /\ claiming = [w \in Worker |-> None]
    /\ mode = [w \in Worker |-> "up"]
    /\ disruptions = 0

HandlerStep(t) ==
    \/ Start(t) \/ Prepare(t) \/ CheckOutdated(t) \/ ObserveYields(t)
    \/ Supersede(t) \/ WaitSuperseded(t) \/ Defer(t) \/ GiveUp(t)
    \/ Withdraw(t) \/ Finalize(t) \/ FailRead(t) \/ FailWrite(t)

TaskStep(t) ==
    \/ Enqueue(t) \/ FallDue(t) \/ HandlerStep(t) \/ Raise(t)
    \/ FailUnrecorded(t) \/ Heartbeat(t) \/ Reap(t) \/ BusyStop(t)

WorkerStep(w) ==
    \/ ClaimBegin(w) \/ ClaimCommit(w)
    \/ Drain(w) \/ Exit(w) \/ Crash(w) \/ Restart(w)

Next ==
    \/ \E t \in Task : TaskStep(t)
    \/ \E w \in Worker : WorkerStep(w)
    \/ UserStop

Spec == Init /\ [][Next]_vars

(* Every loop of a process that is up keeps running, the reaper ticks and  *)
(* clocks advance.  Nothing makes a user write, stop or a process fail.    *)
Fairness ==
    /\ \A t \in Task :
         /\ WF_vars(HandlerStep(t))
         /\ WF_vars(FallDue(t))
         /\ WF_vars(stage[t] = "idle" /\ Reap(t))
    /\ \A w \in Worker :
         /\ WF_vars(ClaimBegin(w))
         /\ WF_vars(ClaimCommit(w))
         /\ WF_vars(Exit(w))
         /\ WF_vars(Restart(w))

FairSpec == Spec /\ Fairness

------------------------------------------------------------------------------
(* Properties *)

(* Every variable stays in its type; in particular no task is claimed more *)
(* often than SUPERSEDE_MAX_ATTEMPTS, whatever defers it.                  *)
TypeOK ==
    /\ status \in [Task -> Open \cup Terminal \cup {"absent"}]
    /\ cancel \in [Task -> {"none", "superseded", "user_stop"}]
    /\ serial \in [Task -> BOOLEAN]
    /\ due \in [Task -> BOOLEAN]
    /\ attempts \in [Task -> 0..MaxAttempts]
    /\ stage \in [Task -> Stages]
    /\ runner \in [Task -> Worker \cup {None}]
    /\ notified \in [Task -> BOOLEAN]
    /\ claiming \in [Worker -> Task \cup {None}]
    /\ mode \in [Worker -> {"up", "draining", "down"}]
    /\ disruptions \in 0..MaxDisruptions

(* A claim in progress holds a row nobody else is claiming, and the row is *)
(* still queued when the claim commits.                                    *)
ClaimsExclusive ==
    \A w \in Worker : claiming[w] # None =>
        /\ status[claiming[w]] = "queued"
        /\ \A v \in Worker : claiming[v] = claiming[w] => v = w

(* No run outlives the return of its row to the queue: a row is never      *)
(* claimed while an earlier run of it is still going on.                   *)
RunsHaveRows == \A t \in Task : stage[t] # "idle" => status[t] \in Active \cup Terminal

(* A row that may still be claimed has a claim left. *)
AttemptsLeft ==
    \A t \in Task : status[t] \in {"absent", "queued"} => attempts[t] < MaxAttempts

(* A run about to write its row by id alone still owns the row. *)
UnguardedOwned ==
    \A t \in Task : stage[t] \in UnguardedStages => status[t] \in Active

(* Ownership of the rows by the claims and the runs, which the other       *)
(* guarantees rest on: the claim is one SKIP LOCKED statement, defer and   *)
(* finish end the run that calls them.                                     *)
RowsOwned == ClaimsExclusive /\ RunsHaveRows /\ AttemptsLeft /\ UnguardedOwned

(* A turn whose row its worker still owns. *)
OwnedTurn(t) == stage[t] = "turn" /\ status[t] \in Active

(* Two turns of one session never talk to the relay session at once while  *)
(* both own their rows (opening.py: two rounds must not write to the same  *)
(* relay session).                                                         *)
TurnsExclusive == \A t, u \in Task : OwnedTurn(t) /\ OwnedTurn(u) => t = u

(* A message queued behind others only gets its turn when every earlier    *)
(* task of the session has ended or was asked to stop.                     *)
QueuedInOrder ==
    \A t, u \in Task :
        OwnedTurn(t) /\ serial[t] /\ u < t /\ status[u] \in Open
            => cancel[u] # "none"

(* A run never ends a task twice: once terminal, a row keeps its status,   *)
(* whoever is late (reaper against a stalled worker, finish, defer).       *)
TerminalIsFinal ==
    [][\A t \in Task : status[t] \in Terminal => status'[t] = status[t]]_vars

(* Every task put into the queue ends: it is never left claimed by a dead  *)
(* process, blocked behind a row that does not move, or put back for ever. *)
EveryTaskEnds == \A t \in Task : status[t] = "queued" ~> status[t] \in Terminal

(* The table implements the lifecycle it promises. *)
PhaseOf(s) ==
    CASE s = "absent" -> "absent"
      [] s = "queued" -> "queued"
      [] s \in Active -> "held"
      [] s \in Terminal -> "ended"

Lifecycle == INSTANCE TaskLifecycle
    WITH MaxTakes <- MaxAttempts,
         phase <- [t \in Task |-> PhaseOf(status[t])],
         takes <- attempts

ImplementsLifecycle == Lifecycle!LifecycleSpec
==============================================================================
