----------------------------- MODULE ScheduledJob -----------------------------
(***************************************************************************)
(* One scheduled job, the executions it starts, and the help an execution  *)
(* may ask of a colleague.                                                 *)
(*                                                                         *)
(* The scheduler starts due and forced executions and completes those      *)
(* whose worker died (scheduler/cron.py); the worker runs them             *)
(* (worker/cron_handler.py, worker/reminder_handler.py); an execution that *)
(* asked a colleague is continued when the answer comes, as another        *)
(* execution of the job (core/chat/human_collaboration.py); the owner and  *)
(* the administrator change the job meanwhile (api/routers/cron_jobs.py,   *)
(* api/routers/personal_schedules.py).                                     *)
(*                                                                         *)
(* A transaction that keeps its row locks to the commit is one step.       *)
(***************************************************************************)
EXTENDS Naturals, FiniteSets

CONSTANTS MaxRuns,   \* bound: executions of the job
          Plans      \* what a behaviour is made of, one record of PlanType

Disturbances == {"force", "disable", "enable", "rearm", "cancel", "delete",
                 "unusable", "stall", "crash", "abort", "gateway"}

(* A plan says what kind of job this is and bounds its due times, the      *)
(* questions asked and the disturbances, which are of the kinds listed.    *)
PlanType == [mode : {"ai", "personal_ai", "self_reminder"},
             kind : {"once", "recurring"}, dues : Nat, asks : Nat,
             count : Nat, kinds : SUBSET Disturbances]

ASSUME JobAssumption ==
    /\ MaxRuns \in Nat \ {0}
    /\ Plans \subseteq PlanType

Runs == 1 .. MaxRuns

VARIABLES
    plan,        \* the plan of this behaviour, never changed
    disturbed,   \* disturbances so far
    dues,        \* due times so far
    present,     \* the row in cron_jobs exists
    enabled,     \* cron_jobs.enabled
    consumed,    \* cron_jobs.consumed_at is set
    next,        \* cron_jobs.next_run_at: "none", "later", "due" or "missed"
    force,       \* cron_jobs.force_run_at is set
    running,     \* cron_jobs.running_task_id, 0 for none
    usable,      \* the bot and the actor are enabled
    task,        \* tasks.status of each execution
    cancelled,   \* executions with cancel_requested_at
    run,         \* cron_runs.status
    continues,   \* the execution whose answered question it continues, or 0
    pc,          \* where the worker stands
    outcome,     \* how _run ended
    saw,         \* the question _finish has found and locked, or 0
    ask,         \* human_collaborations.status of the question of a run
    resume,      \* human_collaborations.resume_task_id, or 0
    question,    \* the question in the outbox
    known,       \* questions whose message id is recorded
    recording,   \* questions sent whose record_delivery is to come
    unrecorded,  \* ... or never comes
    verdict,     \* what the originator was sent about each execution
    heard,       \* questions about whose end the originator was told
    told,        \* questions whose colleague was told that they are over
    replied,     \* questions the colleague has answered
    aborted,     \* executions a stopping worker ended
    arms         \* how often a job that runs once was given a time

planVars == <<plan, dues>>
jobVars == <<present, enabled, consumed, next, force, running, usable, arms>>
runVars == <<task, run, continues, verdict>>
workVars == <<pc, outcome, saw, aborted>>
askVars == <<ask, resume, question, known, told, heard, replied>>
sendVars == <<recording, unrecorded>>
vars == <<planVars, disturbed, jobVars, runVars, cancelled, workVars, askVars, sendVars>>

Active == {"claimed"}
Open == {"queued", "claimed"}
AskActive == {"pending", "waiting", "answered", "resuming"}
AskEnded == {"completed", "failed", "cancelled", "timed_out"}

Once == plan.kind = "once"

(* _finish holds the row of the question it has found. *)
AskLocked(s) == \E t \in Runs : pc[t] = "looked" /\ saw[t] = s

(* The execution that is enqueued next, as long as the bound leaves one. *)
Fresh == CHOOSE t \in Runs : task[t] = "absent"
RoomLeft == \E t \in Runs : task[t] = "absent"

Disturb(kind) ==
    /\ kind \in plan.kinds /\ disturbed < plan.count
    /\ disturbed' = disturbed + 1
    /\ UNCHANGED planVars
Undisturbed == UNCHANGED <<planVars, disturbed>>

------------------------------------------------------------------------------
(* Questions to a colleague *)

(* tasks.request_cancel() *)
CancelTask(t) == cancelled' = IF t # 0 /\ task[t] \in Open THEN cancelled \cup {t} ELSE cancelled

(* sync_message_ids() *)
Synced(s) == known \cup {u \in {s} : question[u] = "sent"}

(* close(): the rest of the row's life, told to those who are waiting.     *)
(* SKIP LOCKED: a question that is being sent is not skipped.              *)
CloseTo(s, status, notify, originator) ==
    /\ ask' = [ask EXCEPT ![s] = status]
    /\ CancelTask(resume[s])
    /\ question' = [question EXCEPT ![s] = IF @ = "pending" THEN "skipped" ELSE @]
    /\ known' = Synced(s)
    /\ told' = told \cup {u \in {s} : notify /\ ask[u] = "waiting" /\ u \in Synced(u)}
    /\ heard' = heard \cup {u \in {s} : notify /\ originator}
    /\ UNCHANGED <<resume, replied>>

(* send_ask() *)
SendAsk(s) ==
    /\ ask' = [ask EXCEPT ![s] = "waiting"]
    /\ question' = [question EXCEPT ![s] = "pending"]
    /\ UNCHANGED <<resume, known, told, heard, replied, cancelled>>

(* A task, its run and the job's slot in one transaction. *)
Enqueue(source) ==
    /\ RoomLeft
    /\ task' = [task EXCEPT ![Fresh] = "queued"]
    /\ run' = [run EXCEPT ![Fresh] = "running"]
    /\ continues' = [continues EXCEPT ![Fresh] = source]
    /\ running' = Fresh
    /\ UNCHANGED verdict

(* start_resume(), of a row that is or becomes answered: without the job   *)
(* it fails, and while the job runs it waits.                              *)
StartResume(s) ==
    \/ /\ ~present
       /\ CloseTo(s, "failed", TRUE, TRUE)
       /\ UNCHANGED <<runVars, running>>
    \/ /\ present /\ running # 0
       /\ ask' = [ask EXCEPT ![s] = "answered"]
       /\ UNCHANGED <<runVars, running, cancelled, resume, question, known, told, heard>>
    \/ /\ present /\ running = 0
       /\ Enqueue(s)
       /\ ask' = [ask EXCEPT ![s] = "resuming"]
       /\ resume' = [resume EXCEPT ![s] = Fresh]
       /\ UNCHANGED <<cancelled, question, known, told, heard>>

------------------------------------------------------------------------------
(* The scheduler: cron.py *)

ComesDue ==
    /\ present /\ next = "later" /\ dues < plan.dues
    /\ next' = "due" /\ dues' = dues + 1
    /\ UNCHANGED <<plan, disturbed, present, enabled, consumed, force, running, usable, arms,
                   runVars, cancelled, workVars, askVars, sendVars>>

(* The due time is more than MISFIRE_SECONDS ago. *)
Misses ==
    /\ next = "due" /\ next' = "missed"
    /\ UNCHANGED <<planVars, disturbed, present, enabled, consumed, force, running, usable, arms,
                   runVars, cancelled, workVars, askVars, sendVars>>

(* The rows run_tick() selects. *)
Selected ==
    /\ present /\ enabled
    /\ Once => ~consumed
    /\ next \in {"due", "missed"} \/ force

(* The bot or the actor is gone: once only is over, a forced run forgotten. *)
TickInvalid ==
    /\ Selected /\ ~usable
    /\ enabled' = (force /\ ~Once)
    /\ force' = FALSE
    /\ consumed' = (consumed \/ Once)
    /\ next' = IF Once THEN "none" ELSE next
    /\ UNCHANGED <<present, running, usable, arms, runVars, cancelled, workVars, askVars, sendVars>>
    /\ Undisturbed

(* The former execution is under way: the clock moves on, a forced run     *)
(* stays asked for.  A job that runs once has no cron expression to move   *)
(* on by: next_run() raises, and the tick is rolled back.                  *)
TickBusy ==
    /\ Selected /\ usable /\ running # 0 /\ task[running] \in Open
    /\ ~Once
    /\ next \in {"due", "missed"} /\ next' = "later"
    /\ UNCHANGED <<present, enabled, consumed, force, running, usable, arms,
                   runVars, cancelled, workVars, askVars, sendVars>>
    /\ Undisturbed

AdvanceUnlessForced ==
    /\ next' = IF force THEN next ELSE IF Once THEN "none" ELSE "later"
    /\ consumed' = (consumed \/ (Once /\ ~force))
    /\ force' = FALSE

(* The clock after a start. *)
Advance ==
    /\ next' = IF Once THEN "none" ELSE "later"
    /\ consumed' = (consumed \/ Once)
    /\ force' = FALSE

TickMisfire ==
    /\ Selected /\ usable /\ running = 0
    /\ ~force /\ next = "missed"
    /\ Advance
    /\ enabled' = ~Once
    /\ UNCHANGED <<present, running, usable, arms, runVars, cancelled, workVars, askVars, sendVars>>
    /\ Undisturbed

TickStart ==
    /\ Selected /\ usable /\ running = 0
    /\ force \/ next = "due"
    /\ Advance
    /\ Enqueue(0)
    /\ UNCHANGED <<present, enabled, usable, arms, cancelled, workVars, askVars, sendVars>>
    /\ Undisturbed

LeftBehindUnclaimed == running # 0 /\ task[running] \notin Active

LeftBehindEnabled == enabled /\ running # 0 /\ task[running] \notin Open

(* The job's execution has ended without freeing the job. *)
LeftBehind == running # 0 /\ task[running] \notin Open

(* recover_runs() *)
Recover ==
    /\ present /\ LeftBehind
    /\ running' = 0
    /\ enabled' = (enabled /\ ~Once)
    /\ IF run[running] = "running"
       THEN /\ run' = [run EXCEPT ![running] = "failed"]
            /\ verdict' = IF task[running] = "cancelled" \/ plan.mode = "self_reminder"
                          THEN verdict
                          ELSE [verdict EXCEPT ![running] = @ \cup {"failure"}]
       ELSE UNCHANGED <<run, verdict>>
    /\ UNCHANGED <<present, consumed, next, force, usable, arms, task, continues,
                   cancelled, workVars, askVars, sendVars>>
    /\ Undisturbed

(* reap_lost_tasks(): the worker is dead, or cut off for long. *)
Reap(t) ==
    /\ task[t] \in Active
    /\ \/ pc[t] = "lost" /\ Undisturbed
       \/ pc[t] \notin {"lost", "done"} /\ Disturb("stall")
    /\ task' = [task EXCEPT ![t] = "failed"]
    /\ UNCHANGED <<jobVars, run, continues, verdict, cancelled, workVars, askVars, sendVars>>

------------------------------------------------------------------------------
(* The worker: cron_handler.py and reminder_handler.py *)

Goto(t, place) == pc' = [pc EXCEPT ![t] = place]

EndAs(t, o) ==
    /\ Goto(t, "ended")
    /\ outcome' = [outcome EXCEPT ![t] = o]
    /\ UNCHANGED <<saw, aborted>>

Claim(t) ==
    /\ task[t] = "queued"
    /\ task' = [task EXCEPT ![t] = "claimed"]
    /\ Goto(t, "started")
    /\ UNCHANGED <<outcome, saw, aborted, jobVars, run, continues, verdict, cancelled, askVars, sendVars>>
    /\ Undisturbed

(* The checks of _run before the model is called. *)
MayRun(t) ==
    /\ present /\ usable /\ running = t /\ run[t] = "running"
    /\ IF continues[t] = 0 THEN enabled
       ELSE ask[continues[t]] = "resuming" /\ resume[continues[t]] = t

Check(t) ==
    /\ pc[t] = "started" /\ plan.mode # "self_reminder"
    /\ IF MayRun(t)
       THEN \/ Goto(t, "streaming") /\ UNCHANGED <<outcome, saw, aborted>>
            \/ continues[t] = 0 /\ EndAs(t, "skipped")
       ELSE EndAs(t, "refused")
    /\ UNCHANGED <<jobVars, runVars, cancelled, askVars, sendVars>>
    /\ Undisturbed

(* The model asks for help: collaboration_tools.py and request_help().     *)
RequestHelp(t) ==
    /\ pc[t] \in {"streaming", "ended", "looked"}
    /\ outcome[t] \notin {"skipped", "refused"}
    /\ task[t] \in Active /\ t \notin cancelled /\ usable
    /\ continues[t] = 0 /\ ask[t] = "absent"
    /\ \A s \in Runs : ask[s] \notin AskActive
    /\ Cardinality({s \in Runs : ask[s] # "absent"}) < plan.asks
    /\ ask' = [ask EXCEPT ![t] = "pending"]
    /\ UNCHANGED <<resume, question, known, told, heard, replied,
                   jobVars, runVars, cancelled, workVars, sendVars>>
    /\ Undisturbed

(* The answer is complete or failed, or the worker hears of the cancel.    *)
EndStream(t) ==
    /\ pc[t] = "streaming"
    /\ \/ \E o \in {"success", "failed"} : EndAs(t, o)
       \/ t \in cancelled /\ EndAs(t, "cancelled")
    /\ UNCHANGED <<jobVars, runVars, cancelled, askVars, sendVars>>
    /\ Undisturbed

(* The worker stops and cancels what still runs after the grace period. *)
Abort(t) ==
    /\ pc[t] \in {"started", "streaming"} /\ plan.mode # "self_reminder"
    /\ Disturb("abort")
    /\ Goto(t, "ended")
    /\ outcome' = [outcome EXCEPT ![t] = "cancelled"]
    /\ aborted' = aborted \cup {t}
    /\ UNCHANGED <<saw, jobVars, runVars, cancelled, askVars, sendVars>>

Crash(t) ==
    /\ pc[t] \in {"started", "streaming", "ended", "looked"}
    /\ Disturb("crash")
    /\ Goto(t, "lost")
    /\ saw' = [saw EXCEPT ![t] = 0]
    /\ UNCHANGED <<outcome, aborted, jobVars, runVars, cancelled, askVars, sendVars>>

(* _finish() looks for the question first: the one it continues, or the    *)
(* one it has asked so far.                                                *)
FinishLook(t) ==
    /\ pc[t] = "ended"
    /\ LET s == IF continues[t] # 0 THEN continues[t]
                ELSE IF ask[t] # "absent" THEN t ELSE 0
       IN saw' = [saw EXCEPT ![t] = s]
    /\ Goto(t, "looked")
    /\ UNCHANGED <<outcome, aborted, jobVars, runVars, cancelled, askVars, sendVars>>
    /\ Undisturbed

OwnsAnyway(t) == TRUE

(* The task is active and its run has not been completed by others. *)
Owns(t) == task[t] \in Active /\ run[t] = "running"

(* Cancellation wins over what the turn came to. *)
EndOf(t) ==
    IF t \in cancelled THEN "cancelled" ELSE IF outcome[t] = "refused" THEN "failed" ELSE outcome[t]

(* What becomes of the question with the end st of its execution. *)
SettleAsk(t, st) ==
    IF saw[t] = t /\ ask[t] = "pending"
    THEN IF st = "success" THEN SendAsk(t) ELSE CloseTo(t, "cancelled", FALSE, FALSE)
    ELSE /\ ask' = IF saw[t] # 0 /\ saw[t] # t /\ ask[saw[t]] = "resuming"
                   THEN [ask EXCEPT ![saw[t]] = IF st = "success" THEN "completed" ELSE "failed"]
                   ELSE ask
         /\ UNCHANGED <<resume, question, known, told, heard, replied, cancelled>>

TaskEndAsRun(st) == st

TaskEnd(st) ==
    CASE st \in {"success", "skipped"} -> "succeeded"
      [] st = "cancelled" -> "cancelled"
      [] st = "failed" -> "failed"

(* The message about the end of an execution. *)
Said(t, st) ==
    CASE st = "success" -> {IF saw[t] = t /\ ask[t] = "pending" THEN "handoff" ELSE "result"}
      [] st = "failed" -> {"failure"}
      [] OTHER -> {}

FreeJob(t) ==
    /\ running' = IF running = t THEN 0 ELSE running
    /\ enabled' = (enabled /\ ~(running = t /\ Once))

(* _finish(): question, job, task, run and message in one transaction. *)
FinishWrite(t) ==
    /\ pc[t] = "looked"
    /\ Goto(t, "done")
    /\ saw' = [saw EXCEPT ![t] = 0]
    /\ LET st == EndOf(t) IN
       IF Owns(t)
       THEN /\ SettleAsk(t, st)
            /\ run' = [run EXCEPT ![t] = IF st = "cancelled" THEN "failed" ELSE st]
            /\ FreeJob(t)
            /\ task' = [task EXCEPT ![t] = TaskEnd(st)]
            /\ verdict' = [verdict EXCEPT ![t] = @ \cup Said(t, st)]
       ELSE UNCHANGED <<askVars, cancelled, run, running, enabled, task, verdict>>
    /\ UNCHANGED <<outcome, aborted, continues, present, consumed, next, force, usable, arms, sendVars>>
    /\ Undisturbed

(* run_fixed(): a reminder is checked, sent and completed at once. *)
Remind(t) ==
    /\ pc[t] = "started" /\ plan.mode = "self_reminder"
    /\ Goto(t, "done")
    /\ IF Owns(t)
       THEN /\ LET ok == present /\ usable /\ enabled /\ t \notin cancelled /\ running = t IN
               /\ run' = [run EXCEPT ![t] = IF ok THEN "success" ELSE "skipped"]
               /\ verdict' = IF ok THEN [verdict EXCEPT ![t] = @ \cup {"result"}] ELSE verdict
               /\ task' = [task EXCEPT ![t] = IF ok THEN "succeeded" ELSE "cancelled"]
            /\ running' = IF running = t THEN 0 ELSE running
            /\ enabled' = (enabled /\ running # t)
       ELSE UNCHANGED <<run, verdict, task, running, enabled>>
    /\ UNCHANGED <<outcome, saw, aborted, continues, present, consumed, next, force, usable, arms,
                   cancelled, askVars, sendVars>>
    /\ Undisturbed

------------------------------------------------------------------------------
(* The colleague and the gateway: gateway_feishu/transport.py *)

(* consume_one() claims the question; one that is over is skipped. *)
TakeQuestion(s) ==
    /\ question[s] = "pending"
    /\ question' = [question EXCEPT ![s] = IF ask[s] = "waiting" THEN "sending" ELSE "skipped"]
    /\ UNCHANGED <<ask, resume, known, told, heard, replied,
                   jobVars, runVars, cancelled, workVars, sendVars>>
    /\ Undisturbed

Sent(s) ==
    /\ question[s] = "sending"
    /\ question' = [question EXCEPT ![s] = "sent"]
    /\ recording' = recording \cup {s}
    /\ UNCHANGED <<ask, resume, known, told, heard, replied, unrecorded, jobVars, runVars, cancelled, workVars>>
    /\ Undisturbed

(* The platform refuses the message for good. *)
Refused(s) ==
    /\ question[s] = "sending"
    /\ question' = [question EXCEPT ![s] = "failed"]
    /\ UNCHANGED <<ask, resume, known, told, heard, replied,
                   jobVars, runVars, cancelled, workVars, sendVars>>
    /\ Undisturbed

(* The claim rolls back, or the delivery is never recorded. *)
GatewayCrash(s) ==
    /\ question[s] = "sending" \/ s \in recording
    /\ Disturb("gateway")
    /\ question' = [question EXCEPT ![s] = IF @ = "sending" THEN "pending" ELSE @]
    /\ recording' = recording \ {s}
    /\ unrecorded' = unrecorded \cup ({s} \cap recording)
    /\ UNCHANGED <<ask, resume, known, told, heard, replied, jobVars, runVars, cancelled, workVars>>

RecordSilently(s) ==
    /\ s \in recording /\ ~AskLocked(s)
    /\ recording' = recording \ {s}
    /\ known' = known \cup {s}
    /\ UNCHANGED <<told, ask, resume, question, heard, replied, unrecorded, jobVars, runVars, cancelled, workVars>>
    /\ Undisturbed

(* record_delivery(): a question that ended while it was sent. *)
RecordDelivery(s) ==
    /\ s \in recording /\ ~AskLocked(s)
    /\ recording' = recording \ {s}
    /\ known' = known \cup {s}
    /\ told' = told \cup {u \in {s} : ask[u] \in AskEnded}
    /\ UNCHANGED <<ask, resume, question, heard, replied, unrecorded, jobVars, runVars, cancelled, workVars>>
    /\ Undisturbed

(* consume_reply() and record_reply() *)
Reply(s) ==
    /\ s \in known /\ ask[s] = "waiting" /\ ~AskLocked(s)
    /\ replied' = replied \cup {s}
    /\ StartResume(s)
    /\ UNCHANGED <<present, enabled, consumed, next, force, usable, arms, workVars, sendVars>>
    /\ Undisturbed

------------------------------------------------------------------------------
(* tick() of human_collaboration.py, on one row that nobody holds *)

TickCase(s) == ask[s] \in AskActive /\ ~AskLocked(s)

(* What a tick leaves alone. *)
TickRest ==
    /\ UNCHANGED <<present, enabled, consumed, next, force, usable, arms, workVars, sendVars>>
    /\ Undisturbed

(* authorized() *)
TickRevoked(s) ==
    /\ TickCase(s) /\ ~usable
    /\ CloseTo(s, "cancelled", TRUE, TRUE)
    /\ UNCHANGED <<running, runVars>> /\ TickRest

TickDeleted(s) ==
    /\ TickCase(s) /\ usable /\ ~present /\ ask[s] \in {"pending", "waiting"}
    /\ CloseTo(s, "cancelled", TRUE, FALSE)
    /\ UNCHANGED <<running, runVars>> /\ TickRest

(* The execution that asked has ended well. *)
Sendable(s) == task[s] = "succeeded"

TickPending(s) ==
    /\ TickCase(s) /\ usable /\ present /\ ask[s] = "pending"
    /\ \/ task[s] \in {"failed", "cancelled"} /\ CloseTo(s, "cancelled", FALSE, FALSE)
       \/ Sendable(s) /\ SendAsk(s)
    /\ UNCHANGED <<running, runVars>> /\ TickRest

TickTimedOut(s) ==
    /\ TickCase(s) /\ usable /\ present /\ ask[s] = "waiting"
    /\ CloseTo(s, "timed_out", TRUE, TRUE)
    /\ UNCHANGED <<running, runVars>> /\ TickRest

TickAnswered(s) ==
    /\ TickCase(s) /\ usable /\ ask[s] = "answered"
    /\ StartResume(s)
    /\ UNCHANGED replied /\ TickRest

ResumeDropped(s) ==
    /\ ask' = [ask EXCEPT ![s] = "failed"]
    /\ UNCHANGED heard

(* resume_failed() hands the answer over. *)
ResumeFailed(s) ==
    /\ ask' = [ask EXCEPT ![s] = "failed"]
    /\ heard' = heard \cup {s}

TickResuming(s) ==
    /\ TickCase(s) /\ usable /\ ask[s] = "resuming"
    /\ \/ task[resume[s]] \in {"failed", "cancelled"} /\ ResumeFailed(s)
       \/ /\ task[resume[s]] = "succeeded"
          /\ ask' = [ask EXCEPT ![s] = "completed"] /\ UNCHANGED heard
    /\ known' = Synced(s)
    /\ UNCHANGED <<resume, question, told, replied, cancelled, running, runVars>> /\ TickRest

TickUndelivered(s) ==
    /\ TickCase(s) /\ usable /\ present /\ ask[s] = "waiting"
    /\ question[s] \in {"failed", "skipped"}
    /\ CloseTo(s, "failed", TRUE, TRUE)
    /\ UNCHANGED <<running, runVars>> /\ TickRest

(* Nothing else to do: the message id is filled in from the outbox. *)
TickSync(s) ==
    /\ TickCase(s) /\ usable /\ ask[s] = "waiting" /\ question[s] = "sent"
    /\ known' = known \cup {s}
    /\ UNCHANGED <<ask, resume, question, told, heard, replied, cancelled, running, runVars>> /\ TickRest

------------------------------------------------------------------------------
(* The owner and the administrator *)

Elsewhere == UNCHANGED <<runVars, workVars, sendVars>>

ForceRun ==
    /\ present /\ enabled /\ running = 0 /\ ~force /\ plan.mode # "self_reminder"
    /\ Once => ~consumed
    /\ Disturb("force")
    /\ force' = TRUE
    /\ UNCHANGED <<present, enabled, consumed, next, running, usable, arms, cancelled, askVars>>
    /\ Elsewhere

Disable ==
    /\ present /\ enabled
    /\ Disturb("disable")
    /\ enabled' = FALSE /\ force' = FALSE
    /\ UNCHANGED <<present, consumed, next, running, usable, arms, cancelled, askVars>>
    /\ Elsewhere

(* update_job(): a recurring job switched on gets its next time anew. *)
Enable ==
    /\ present /\ ~enabled /\ ~force
    /\ Disturb("enable")
    /\ enabled' = TRUE
    /\ next' = IF Once THEN next ELSE "later"
    /\ consumed' = (consumed /\ Once)
    /\ UNCHANGED <<present, force, running, usable, arms, cancelled, askVars>>
    /\ Elsewhere

(* update_job() with another time of a job that runs once. *)
Rearm ==
    /\ present /\ Once /\ ~force /\ running = 0 /\ plan.mode # "self_reminder"
    /\ Disturb("rearm")
    /\ enabled' = TRUE /\ consumed' = FALSE /\ next' = "later"
    /\ arms' = arms + 1
    /\ UNCHANGED <<present, force, running, usable, cancelled, askVars>>
    /\ Elsewhere

CancelRun ==
    /\ present /\ plan.mode = "ai"
    /\ running # 0 \/ force
    /\ Disturb("cancel")
    /\ CancelTask(running)
    /\ force' = FALSE
    /\ UNCHANGED <<present, enabled, consumed, next, running, usable, arms, askVars>>
    /\ Elsewhere

(* The questions cancel_for_job() finds: at most one is active. *)
Withdrawn == {s \in Runs : ask[s] \in AskActive /\ ~AskLocked(s)}

(* Its question is closed without a word to the originator. *)
Withdraw(s) ==
    /\ ask' = [ask EXCEPT ![s] = "cancelled"]
    /\ cancelled' = cancelled \cup {t \in Runs : t \in {running, resume[s]} /\ task[t] \in Open}
    /\ question' = [question EXCEPT ![s] = IF @ = "pending" THEN "skipped" ELSE @]
    /\ known' = Synced(s)
    /\ told' = told \cup {u \in {s} : ask[u] = "waiting" /\ u \in Synced(u)}
    /\ UNCHANGED <<resume, heard, replied>>

(* The administrator deletes a job that does not run; a member's own job   *)
(* may run, and its task is asked to stop.                                 *)
Delete ==
    /\ present
    /\ plan.mode = "ai" => running = 0
    /\ Disturb("delete")
    /\ present' = FALSE
    /\ IF Withdrawn # {}
       THEN Withdraw(CHOOSE s \in Withdrawn : TRUE)
       ELSE CancelTask(running) /\ UNCHANGED askVars
    /\ UNCHANGED <<enabled, consumed, next, force, running, usable, arms>>
    /\ Elsewhere

(* The bot is switched off, or the actor's account is closed. *)
SwitchOff ==
    /\ usable /\ Disturb("unusable")
    /\ usable' = FALSE
    /\ UNCHANGED <<present, enabled, consumed, next, force, running, arms, cancelled, askVars>>
    /\ Elsewhere

------------------------------------------------------------------------------
Init ==
    /\ plan \in Plans
    /\ disturbed = 0 /\ dues = 0
    /\ present = TRUE /\ enabled = TRUE /\ consumed = FALSE
    /\ next = "later" /\ force = FALSE /\ running = 0 /\ usable = TRUE /\ arms = 1
    /\ task = [t \in Runs |-> "absent"]
    /\ cancelled = {}
    /\ run = [t \in Runs |-> "none"]
    /\ continues = [t \in Runs |-> 0]
    /\ pc = [t \in Runs |-> "idle"]
    /\ outcome = [t \in Runs |-> "none"]
    /\ saw = [t \in Runs |-> 0]
    /\ ask = [t \in Runs |-> "absent"]
    /\ resume = [t \in Runs |-> 0]
    /\ question = [t \in Runs |-> "none"]
    /\ known = {} /\ recording = {} /\ unrecorded = {}
    /\ verdict = [t \in Runs |-> {}]
    /\ heard = {} /\ told = {} /\ replied = {} /\ aborted = {}

CronTick == TickInvalid \/ TickBusy \/ TickMisfire \/ TickStart

Work(t) == Claim(t) \/ Check(t) \/ EndStream(t) \/ FinishLook(t) \/ FinishWrite(t) \/ Remind(t)

Deliver(s) == TakeQuestion(s) \/ Sent(s) \/ Refused(s)

HumanTick(s) ==
    \/ TickRevoked(s) \/ TickDeleted(s) \/ TickPending(s) \/ TickTimedOut(s)
    \/ TickAnswered(s) \/ TickResuming(s) \/ TickUndelivered(s) \/ TickSync(s)

Owner == ForceRun \/ Disable \/ Enable \/ Rearm \/ CancelRun \/ Delete \/ SwitchOff

RunStep(t) == Work(t) \/ RequestHelp(t) \/ Abort(t) \/ Crash(t) \/ Reap(t)

AskStep(s) == Deliver(s) \/ GatewayCrash(s) \/ RecordDelivery(s) \/ Reply(s) \/ HumanTick(s)

Next ==
    \/ ComesDue \/ Misses \/ CronTick \/ Recover \/ Owner
    \/ \E t \in Runs : RunStep(t) \/ AskStep(t)

Spec == Init /\ [][Next]_vars

(* The scheduler's loops, the workers and the gateway keep running; a turn *)
(* ends (its relay has a total timeout) and an unanswered question expires. *)
(* Nothing makes the owner, the colleague or a failure act.                *)
Fairness ==
    /\ WF_vars(Recover) /\ WF_vars(CronTick)
    /\ \A t \in Runs :
         /\ WF_vars(Work(t)) /\ WF_vars(pc[t] = "lost" /\ Reap(t))
         /\ WF_vars(Deliver(t)) /\ WF_vars(RecordDelivery(t))
         /\ WF_vars(HumanTick(t))

FairSpec == Spec /\ Fairness
------------------------------------------------------------------------------
(* Properties *)

(* Every variable stays in its type. *)
TypeOK ==
    /\ plan \in Plans
    /\ disturbed \in 0 .. plan.count /\ dues \in 0 .. plan.dues
    /\ {present, enabled, consumed, force, usable} \subseteq BOOLEAN
    /\ next \in {"none", "later", "due", "missed"}
    /\ running \in Runs \cup {0} /\ arms \in Nat
    /\ task \in [Runs -> Open \cup {"absent", "succeeded", "failed", "cancelled"}]
    /\ run \in [Runs -> {"none", "running", "success", "failed", "skipped"}]
    /\ continues \in [Runs -> Runs \cup {0}]
    /\ pc \in [Runs -> {"idle", "started", "streaming", "ended", "looked", "done", "lost"}]
    /\ outcome \in [Runs -> {"none", "success", "failed", "refused", "skipped", "cancelled"}]
    /\ saw \in [Runs -> Runs \cup {0}]
    /\ ask \in [Runs -> AskActive \cup AskEnded \cup {"absent"}]
    /\ resume \in [Runs -> Runs \cup {0}]
    /\ question \in [Runs -> {"none", "pending", "sending", "sent", "failed", "skipped"}]
    /\ verdict \in [Runs -> SUBSET {"result", "handoff", "failure"}]
    /\ \A S \in {cancelled, known, recording, heard, told, replied, aborted, unrecorded} : S \subseteq Runs

(* Executions of one job never overlap: an execution that may still be     *)
(* claimed or runs holds the job, whether the clock, a person or a         *)
(* colleague's answer started it, and whatever is recovered meanwhile.     *)
OneExecution ==
    \A t, u \in Runs : task[t] \in Open /\ task[u] \in Open => t = u

(* An execution has one end: the originator never hears both a result and  *)
(* a failure of it, though its worker and the recovery may both report.    *)
OneVerdict == \A t \in Runs : Cardinality(verdict[t]) <= 1

(* A job that runs once starts once for each time it was given, forced or  *)
(* not; only a colleague's answer continues it.                            *)
OnceRunsOnce ==
    Once => Cardinality({t \in Runs : task[t] # "absent" /\ continues[t] = 0}) <= arms

(* No colleague is disturbed for an execution that did not end well.       *)
AskAfterHandoff ==
    \A s \in Runs : question[s] # "none" => task[s] = "succeeded"

(* A colleague who was asked hears that the question is over when it ends  *)
(* without the answer, though it may be closed while it is being sent.     *)
(* A gateway that dies between sending and recording is the exception.     *)
ColleagueHears ==
    \A s \in Runs :
        question[s] = "sent" /\ ask[s] \in AskEnded /\ s \notin replied
            => s \in told \cup recording \cup unrecorded

(* Whoever waits for an answered question hears how it ended, unless the   *)
(* continuation was cancelled, the job deleted or the worker stopped.      *)
AnswerHeard ==
    \A s \in replied :
        ask[s] \in AskEnded /\ present /\ resume[s] \notin cancelled \cup aborted
            => s \in heard \/ (resume[s] # 0 /\ verdict[resume[s]] # {})

(* Every execution is completed, its worker dead or not, and the job is    *)
(* free again; of a job that was deleted nobody looks for lost runs.       *)
RunsEnd == \A t \in Runs : run[t] = "running" ~> run[t] # "running" \/ ~present

(* Every question ends. *)
AsksEnd == \A s \in Runs : ask[s] = "pending" ~> ask[s] \in AskEnded

(* Nothing that was started is left hanging: executions end, and so do the *)
(* questions they ask.                                                     *)
RunsAndAsksEnd == RunsEnd /\ AsksEnd

(* A time that was set stays set until it is used: only the owner, or the  *)
(* loss of the bot or the actor, switches a waiting job off.               *)
ArmedStaysEnabled ==
    [][Once /\ ~consumed /\ ~consumed' /\ enabled /\ usable /\ disturbed' = disturbed
         => enabled']_vars
==============================================================================
