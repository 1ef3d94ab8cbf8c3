-------------------------- MODULE ScheduledJobProofs --------------------------
(***************************************************************************)
(* Proofs about ScheduledJob, for any number of executions and any plan.   *)
(*                                                                         *)
(* The argument is that an execution that is still open holds the job's    *)
(* slot (running_task_id), that its end is written while its run is        *)
(* running, and that a question goes out for a task that has succeeded.    *)
(* On it rest the links between a question and the executions that ask it  *)
(* and continue it, and the count of the starts.                           *)
(***************************************************************************)
EXTENDS ScheduledJob, FiniteSetTheorems, TLAPS

(* An execution that may still run holds the job. *)
SlotHeld == \A t \in Runs : task[t] \in Open => running = t

(* An execution that is not enqueued has no run, and nothing is said of an *)
(* execution before its run has ended.                                     *)
Unsaid ==
    /\ \A t \in Runs : task[t] = "absent" => run[t] = "none"
    /\ \A t \in Runs : run[t] \in {"none", "running"} => verdict[t] = {}

(* One message at most. *)
SaidOnce == \A t \in Runs : verdict[t] \in {{}, {"result"}, {"handoff"}, {"failure"}}

SlotInv == SlotHeld /\ Unsaid /\ SaidOnce

(* A turn that has ended has an outcome. *)
OutcomeKnown == \A t \in Runs : pc[t] \in {"ended", "looked"} => outcome[t] # "none"

(* The parts of TypeOK. *)
PlanTypes ==
    /\ plan \in Plans /\ plan.count \in Nat /\ plan.dues \in Nat
    /\ disturbed \in 0 .. plan.count /\ dues \in 0 .. plan.dues

JobTypes ==
    /\ present \in BOOLEAN /\ enabled \in BOOLEAN /\ consumed \in BOOLEAN
    /\ force \in BOOLEAN /\ usable \in BOOLEAN
    /\ next \in {"none", "later", "due", "missed"}
    /\ running \in Runs \cup {0} /\ arms \in Nat

RunTypes ==
    /\ task \in [Runs -> Open \cup {"absent", "succeeded", "failed", "cancelled"}]
    /\ run \in [Runs -> {"none", "running", "success", "failed", "skipped"}]
    /\ continues \in [Runs -> Runs \cup {0}]
    /\ verdict \in [Runs -> SUBSET {"result", "handoff", "failure"}]

WorkTypes ==
    /\ pc \in [Runs -> {"idle", "started", "streaming", "ended", "looked", "done", "lost"}]
    /\ outcome \in [Runs -> {"none", "success", "failed", "refused", "skipped", "cancelled"}]
    /\ saw \in [Runs -> Runs \cup {0}]
    /\ aborted \subseteq Runs

AskTypes ==
    /\ ask \in [Runs -> AskActive \cup AskEnded \cup {"absent"}]
    /\ resume \in [Runs -> Runs \cup {0}]
    /\ question \in [Runs -> {"none", "pending", "sending", "sent", "failed", "skipped"}]
    /\ known \subseteq Runs /\ heard \subseteq Runs /\ told \subseteq Runs
    /\ replied \subseteq Runs /\ cancelled \subseteq Runs

SendTypes == recording \subseteq Runs /\ unrecorded \subseteq Runs

JobInv ==
    /\ PlanTypes /\ JobTypes /\ RunTypes /\ WorkTypes /\ AskTypes /\ SendTypes
    /\ SlotInv /\ OutcomeKnown /\ AskAfterHandoff

------------------------------------------------------------------------------
LEMMA InitJob == Init => JobInv
PROOF
<1> SUFFICES ASSUME Init PROVE JobInv
  OBVIOUS
<1>1. PlanTypes
  BY JobAssumption DEF Init, PlanType, PlanTypes
<1>2. JobTypes /\ SendTypes
  BY DEF Init, JobTypes, SendTypes
<1>3. RunTypes /\ WorkTypes
  BY DEF Init, RunTypes, WorkTypes
<1>4. AskTypes
  BY DEF Init, AskTypes
<1>5. SlotInv /\ OutcomeKnown /\ AskAfterHandoff
  BY DEF Init, SlotInv, SlotHeld, Unsaid, SaidOnce, OutcomeKnown, AskAfterHandoff, Open
<1>6. QED
  BY <1>1, <1>2, <1>3, <1>4, <1>5 DEF JobInv

LEMMA InvTypes == JobInv => TypeOK
PROOF
<1> SUFFICES ASSUME JobInv PROVE TypeOK
  OBVIOUS
<1> USE DEF JobInv
<1>1. {present, enabled, consumed, force, usable} \subseteq BOOLEAN
  BY DEF JobTypes
<1>2. \A S \in {cancelled, known, recording, heard, told, replied, aborted, unrecorded} : S \subseteq Runs
  BY DEF AskTypes, SendTypes, WorkTypes
<1>3. QED
  BY <1>1, <1>2 DEF TypeOK, PlanTypes, JobTypes, RunTypes, WorkTypes, AskTypes

(* A step that leaves the executions and the slot alone. *)
LEMMA SlotStays ==
    ASSUME SlotInv, UNCHANGED <<task, run, running, verdict>>
    PROVE  SlotInv'
PROOF
BY DEF SlotInv, SlotHeld, Unsaid, SaidOnce

(* No question goes out, and no task loses its success. *)
LEMMA QuestionsStay ==
    ASSUME AskAfterHandoff,
           \A s \in Runs : question'[s] # "none" => question[s] # "none" \/ task'[s] = "succeeded",
           \A s \in Runs : task[s] = "succeeded" => task'[s] = "succeeded"
    PROVE  AskAfterHandoff'
PROOF
BY DEF AskAfterHandoff

(* A new execution takes the slot that nobody holds. *)
LEMMA EnqueueKeeps ==
    ASSUME RunTypes, SlotInv, running = 0, NEW source \in Runs \cup {0}, Enqueue(source)
    PROVE  /\ RunTypes' /\ running' \in Runs /\ SlotInv'
           /\ Fresh \in Runs
           /\ \A s \in Runs : task[s] = "succeeded" => task'[s] = "succeeded"
PROOF
<1>1. Fresh \in Runs /\ task[Fresh] = "absent"
  BY DEF Enqueue, RoomLeft, Fresh
<1> DEFINE t == Fresh
<1>2. /\ task' = [task EXCEPT ![t] = "queued"] /\ run' = [run EXCEPT ![t] = "running"]
      /\ continues' = [continues EXCEPT ![t] = source] /\ running' = t /\ verdict' = verdict
  BY DEF Enqueue
<1> HIDE DEF t
<1>3. t \in Runs /\ task[t] = "absent"
  BY <1>1 DEF t
<1>4. RunTypes'
  BY <1>2, <1>3 DEF RunTypes, Open
<1>5. SlotHeld'
  <2>1. \A u \in Runs : task[u] \notin Open
    BY DEF SlotInv, SlotHeld, Runs
  <2>2. QED
    BY <1>2, <1>3, <2>1 DEF SlotHeld, RunTypes
<1>6. Unsaid'
  BY <1>2, <1>3 DEF SlotInv, Unsaid, RunTypes
<1>7. SaidOnce'
  BY <1>2 DEF SlotInv, SaidOnce
<1>8. QED
  BY <1>1, <1>2, <1>3, <1>4, <1>5, <1>6, <1>7 DEF SlotInv, RunTypes, t

(* Closing a question sends none. *)
LEMMA CloseKeeps ==
    ASSUME AskTypes, NEW s \in Runs, NEW status \in AskEnded, NEW notify, NEW originator,
           CloseTo(s, status, notify, originator)
    PROVE  AskTypes' /\ \A u \in Runs : question'[u] # "none" => question[u] # "none"
PROOF
<1>1. cancelled' \subseteq Runs
  BY DEF CloseTo, CancelTask, AskTypes
<1>2. known' \subseteq Runs /\ told' \subseteq Runs /\ heard' \subseteq Runs
  BY DEF CloseTo, Synced, AskTypes
<1>3. /\ question' \in [Runs -> {"none", "pending", "sending", "sent", "failed", "skipped"}]
      /\ \A u \in Runs : question'[u] # "none" => question[u] # "none"
  BY DEF CloseTo, AskTypes
<1>4. ask' \in [Runs -> AskActive \cup AskEnded \cup {"absent"}]
  BY DEF CloseTo, AskTypes
<1>5. resume' = resume /\ replied' = replied
  BY DEF CloseTo
<1>6. QED
  BY <1>1, <1>2, <1>3, <1>4, <1>5 DEF AskTypes

LEMMA WithdrawKeeps ==
    ASSUME AskTypes, NEW s \in Runs, Withdraw(s)
    PROVE  AskTypes' /\ \A u \in Runs : question'[u] # "none" => question[u] # "none"
PROOF
<1>1. cancelled' \subseteq Runs
  BY DEF Withdraw, AskTypes
<1>2. known' \subseteq Runs /\ told' \subseteq Runs
  BY DEF Withdraw, Synced, AskTypes
<1>3. /\ question' \in [Runs -> {"none", "pending", "sending", "sent", "failed", "skipped"}]
      /\ \A u \in Runs : question'[u] # "none" => question[u] # "none"
  BY DEF Withdraw, AskTypes
<1>4. ask' \in [Runs -> AskActive \cup AskEnded \cup {"absent"}]
  BY DEF Withdraw, AskTypes, AskEnded
<1>5. UNCHANGED <<resume, heard, replied>>
  BY DEF Withdraw
<1>6. QED
  BY <1>1, <1>2, <1>3, <1>4, <1>5 DEF AskTypes

(* The end of an execution is written with its run, and frees the job. *)
LEMMA EndKeeps ==
    ASSUME RunTypes, SlotInv, NEW t \in Runs, task[t] \in Open, run[t] = "running",
           NEW r \in {"success", "failed", "skipped"},
           NEW e \in {"succeeded", "failed", "cancelled"},
           NEW V \in {{}, {"result"}, {"handoff"}, {"failure"}},
           run' = [run EXCEPT ![t] = r], task' = [task EXCEPT ![t] = e],
           verdict' = [verdict EXCEPT ![t] = @ \cup V],
           running' = IF running = t THEN 0 ELSE running, continues' = continues
    PROVE  /\ RunTypes' /\ SlotInv'
           /\ \A s \in Runs : task[s] = "succeeded" => task'[s] = "succeeded"
PROOF
<1>1. verdict[t] = {}
  BY DEF SlotInv, Unsaid
<1>2. verdict' = [verdict EXCEPT ![t] = V]
  BY <1>1
<1>3. RunTypes'
  BY <1>2 DEF RunTypes
<1>4. SlotHeld'
  BY DEF SlotInv, SlotHeld, RunTypes, Open
<1>5. Unsaid'
  BY <1>2 DEF SlotInv, Unsaid, RunTypes
<1>6. SaidOnce'
  BY <1>2 DEF SlotInv, SaidOnce, RunTypes
<1>7. \A s \in Runs : task[s] = "succeeded" => task'[s] = "succeeded"
  BY DEF Open, RunTypes
<1>8. QED
  BY <1>3, <1>4, <1>5, <1>6, <1>7 DEF SlotInv

(* The answer is taken up, now or later. *)
LEMMA ResumeKeeps ==
    ASSUME RunTypes, JobTypes, AskTypes, SlotInv, AskAfterHandoff, NEW s \in Runs, StartResume(s),
           replied' \subseteq Runs
    PROVE  RunTypes' /\ running' \in Runs \cup {0} /\ AskTypes' /\ SlotInv' /\ AskAfterHandoff'
PROOF
<1>1. CASE ~present
  <2>1. CloseTo(s, "failed", TRUE, TRUE) /\ UNCHANGED <<runVars, running>>
    BY <1>1 DEF StartResume
  <2>2. AskTypes' /\ \A u \in Runs : question'[u] # "none" => question[u] # "none"
    BY <2>1, CloseKeeps DEF AskEnded
  <2>3. RunTypes' /\ running' \in Runs \cup {0}
    BY <2>1 DEF RunTypes, JobTypes, runVars
  <2>4. SlotInv' /\ AskAfterHandoff'
    BY <2>1, <2>2, SlotStays, QuestionsStay DEF runVars
  <2>5. QED
    BY <2>2, <2>3, <2>4
<1>2. CASE present /\ running # 0
  <2>1. /\ ask' = [ask EXCEPT ![s] = "answered"]
        /\ UNCHANGED <<runVars, running, cancelled, resume, question, known, told, heard>>
    BY <1>2 DEF StartResume
  <2>2. AskTypes'
    BY <2>1 DEF AskTypes, AskActive
  <2>3. RunTypes' /\ running' \in Runs \cup {0}
    BY <2>1 DEF RunTypes, JobTypes, runVars
  <2>4. SlotInv' /\ AskAfterHandoff'
    BY <2>1, SlotStays, QuestionsStay DEF runVars
  <2>5. QED
    BY <2>2, <2>3, <2>4
<1>3. CASE present /\ running = 0
  <2>1. /\ Enqueue(s) /\ ask' = [ask EXCEPT ![s] = "resuming"] /\ resume' = [resume EXCEPT ![s] = Fresh]
        /\ UNCHANGED <<cancelled, question, known, told, heard>>
    BY <1>3 DEF StartResume
  <2>2. /\ RunTypes' /\ running' \in Runs /\ SlotInv' /\ Fresh \in Runs
        /\ \A u \in Runs : task[u] = "succeeded" => task'[u] = "succeeded"
    BY <1>3, <2>1, EnqueueKeeps
  <2>3. AskTypes'
    BY <2>1, <2>2 DEF AskTypes, AskActive
  <2>4. AskAfterHandoff'
    BY <2>1, <2>2, QuestionsStay
  <2>5. QED
    BY <2>2, <2>3, <2>4
<1>4. QED
  BY <1>1, <1>2, <1>3 DEF StartResume

(* The scheduler's loop. *)
LEMMA ClockKeeps ==
    ASSUME JobInv, ComesDue \/ Misses \/ CronTick \/ Recover
    PROVE  JobInv'
PROOF
<1> USE DEF JobInv, planVars, jobVars, runVars, workVars, askVars, sendVars, Disturb, Undisturbed
<1>1. CASE ComesDue
  <2>1. PlanTypes'
    BY <1>1 DEF ComesDue, PlanTypes
  <2>2. JobTypes'
    BY <1>1 DEF ComesDue, JobTypes, Once
  <2>3. RunTypes' /\ WorkTypes' /\ OutcomeKnown'
    BY <1>1 DEF ComesDue, RunTypes, WorkTypes, OutcomeKnown, Open, Active
  <2>4. AskTypes' /\ SendTypes'
    BY <1>1 DEF ComesDue, AskTypes, SendTypes, AskActive, AskEnded
  <2>5. SlotInv'
    BY <1>1, SlotStays DEF ComesDue
  <2>6. AskAfterHandoff'
    BY <1>1, QuestionsStay DEF ComesDue, AskTypes, RunTypes, Active
  <2>7. QED
    BY <2>1, <2>2, <2>3, <2>4, <2>5, <2>6
<1>2. CASE Misses
  <2>1. PlanTypes'
    BY <1>2 DEF Misses, PlanTypes
  <2>2. JobTypes'
    BY <1>2 DEF Misses, JobTypes, Once
  <2>3. RunTypes' /\ WorkTypes' /\ OutcomeKnown'
    BY <1>2 DEF Misses, RunTypes, WorkTypes, OutcomeKnown, Open, Active
  <2>4. AskTypes' /\ SendTypes'
    BY <1>2 DEF Misses, AskTypes, SendTypes, AskActive, AskEnded
  <2>5. SlotInv'
    BY <1>2, SlotStays DEF Misses
  <2>6. AskAfterHandoff'
    BY <1>2, QuestionsStay DEF Misses, AskTypes, RunTypes, Active
  <2>7. QED
    BY <2>1, <2>2, <2>3, <2>4, <2>5, <2>6
<1>3. CASE TickInvalid
  <2>1. PlanTypes'
    BY <1>3 DEF TickInvalid, PlanTypes
  <2>2. JobTypes'
    BY <1>3 DEF TickInvalid, Selected, JobTypes, Once
  <2>3. RunTypes' /\ WorkTypes' /\ OutcomeKnown'
    BY <1>3 DEF TickInvalid, Selected, RunTypes, WorkTypes, OutcomeKnown, Open, Active
  <2>4. AskTypes' /\ SendTypes'
    BY <1>3 DEF TickInvalid, Selected, AskTypes, SendTypes, AskActive, AskEnded
  <2>5. SlotInv'
    BY <1>3, SlotStays DEF TickInvalid, Selected
  <2>6. AskAfterHandoff'
    BY <1>3, QuestionsStay DEF TickInvalid, Selected, AskTypes, RunTypes, Active
  <2>7. QED
    BY <2>1, <2>2, <2>3, <2>4, <2>5, <2>6
<1>4. CASE TickBusy
  <2>1. PlanTypes'
    BY <1>4 DEF TickBusy, PlanTypes
  <2>2. JobTypes'
    BY <1>4 DEF TickBusy, Selected, JobTypes, Once
  <2>3. RunTypes' /\ WorkTypes' /\ OutcomeKnown'
    BY <1>4 DEF TickBusy, Selected, RunTypes, WorkTypes, OutcomeKnown, Open, Active
  <2>4. AskTypes' /\ SendTypes'
    BY <1>4 DEF TickBusy, Selected, AskTypes, SendTypes, AskActive, AskEnded
  <2>5. SlotInv'
    BY <1>4, SlotStays DEF TickBusy, Selected
  <2>6. AskAfterHandoff'
    BY <1>4, QuestionsStay DEF TickBusy, Selected, AskTypes, RunTypes, Active
  <2>7. QED
    BY <2>1, <2>2, <2>3, <2>4, <2>5, <2>6
<1>5. CASE TickMisfire
  <2>1. PlanTypes'
    BY <1>5 DEF TickMisfire, PlanTypes
  <2>2. JobTypes'
    BY <1>5 DEF TickMisfire, Selected, Advance, JobTypes, Once
  <2>3. RunTypes' /\ WorkTypes' /\ OutcomeKnown'
    BY <1>5 DEF TickMisfire, Selected, Advance, RunTypes, WorkTypes, OutcomeKnown, Open, Active
  <2>4. AskTypes' /\ SendTypes'
    BY <1>5 DEF TickMisfire, Selected, Advance, AskTypes, SendTypes, AskActive, AskEnded
  <2>5. SlotInv'
    BY <1>5, SlotStays DEF TickMisfire, Selected, Advance
  <2>6. AskAfterHandoff'
    BY <1>5, QuestionsStay DEF TickMisfire, Selected, Advance, AskTypes, RunTypes, Active
  <2>7. QED
    BY <2>1, <2>2, <2>3, <2>4, <2>5, <2>6
<1>6. CASE TickStart
  <2>1. Enqueue(0) /\ running = 0 /\ Advance
    BY <1>6 DEF TickStart
  <2>2. /\ RunTypes' /\ running' \in Runs /\ SlotInv'
        /\ \A u \in Runs : task[u] = "succeeded" => task'[u] = "succeeded"
    BY <2>1, EnqueueKeeps
  <2>3. PlanTypes' /\ WorkTypes' /\ OutcomeKnown' /\ SendTypes' /\ AskTypes'
    BY <1>6 DEF TickStart, PlanTypes, WorkTypes, OutcomeKnown, SendTypes, AskTypes
  <2>4. JobTypes'
    BY <1>6, <2>1, <2>2 DEF TickStart, Advance, Once, JobTypes
  <2>5. AskAfterHandoff'
    BY <1>6, <2>2, QuestionsStay DEF TickStart
  <2>6. QED
    BY <2>2, <2>3, <2>4, <2>5
<1>7. CASE Recover
  <2>1. PlanTypes'
    BY <1>7 DEF Recover, PlanTypes
  <2>2. JobTypes'
    BY <1>7 DEF Recover, LeftBehind, Once, JobTypes
  <2>3. RunTypes' /\ WorkTypes' /\ OutcomeKnown'
    BY <1>7 DEF Recover, LeftBehind, Once, RunTypes, WorkTypes, OutcomeKnown, Open, Active
  <2>4. AskTypes' /\ SendTypes'
    BY <1>7 DEF Recover, LeftBehind, Once, AskTypes, SendTypes, AskActive, AskEnded
  <2>5. SlotInv'
    BY <1>7 DEF Recover, LeftBehind, Once, SlotInv, SlotHeld, Unsaid, SaidOnce, RunTypes, JobTypes, Open, Active
  <2>6. AskAfterHandoff'
    BY <1>7, QuestionsStay DEF Recover, LeftBehind, Once, AskTypes, RunTypes, Active
  <2>7. QED
    BY <2>1, <2>2, <2>3, <2>4, <2>5, <2>6
<1>8. QED
  BY <1>1, <1>2, <1>3, <1>4, <1>5, <1>6, <1>7 DEF CronTick

(* The owner and the administrator. *)
LEMMA OwnerKeeps ==
    ASSUME JobInv, Owner
    PROVE  JobInv'
PROOF
<1> USE DEF JobInv, planVars, jobVars, runVars, workVars, askVars, sendVars, Disturb, Undisturbed
<1>1. CASE ForceRun
  <2>1. PlanTypes'
    BY <1>1 DEF ForceRun, PlanTypes
  <2>2. JobTypes'
    BY <1>1 DEF ForceRun, Elsewhere, JobTypes, Once
  <2>3. RunTypes' /\ WorkTypes' /\ OutcomeKnown'
    BY <1>1 DEF ForceRun, Elsewhere, RunTypes, WorkTypes, OutcomeKnown, Open, Active
  <2>4. AskTypes' /\ SendTypes'
    BY <1>1 DEF ForceRun, Elsewhere, AskTypes, SendTypes, AskActive, AskEnded
  <2>5. SlotInv'
    BY <1>1, SlotStays DEF ForceRun, Elsewhere
  <2>6. AskAfterHandoff'
    BY <1>1, QuestionsStay DEF ForceRun, Elsewhere, AskTypes, RunTypes, Active
  <2>7. QED
    BY <2>1, <2>2, <2>3, <2>4, <2>5, <2>6
<1>2. CASE Disable
  <2>1. PlanTypes'
    BY <1>2 DEF Disable, PlanTypes
  <2>2. JobTypes'
    BY <1>2 DEF Disable, Elsewhere, JobTypes, Once
  <2>3. RunTypes' /\ WorkTypes' /\ OutcomeKnown'
    BY <1>2 DEF Disable, Elsewhere, RunTypes, WorkTypes, OutcomeKnown, Open, Active
  <2>4. AskTypes' /\ SendTypes'
    BY <1>2 DEF Disable, Elsewhere, AskTypes, SendTypes, AskActive, AskEnded
  <2>5. SlotInv'
    BY <1>2, SlotStays DEF Disable, Elsewhere
  <2>6. AskAfterHandoff'
    BY <1>2, QuestionsStay DEF Disable, Elsewhere, AskTypes, RunTypes, Active
  <2>7. QED
    BY <2>1, <2>2, <2>3, <2>4, <2>5, <2>6
<1>3. CASE Enable
  <2>1. PlanTypes'
    BY <1>3 DEF Enable, PlanTypes
  <2>2. JobTypes'
    BY <1>3 DEF Enable, Elsewhere, JobTypes, Once
  <2>3. RunTypes' /\ WorkTypes' /\ OutcomeKnown'
    BY <1>3 DEF Enable, Elsewhere, RunTypes, WorkTypes, OutcomeKnown, Open, Active
  <2>4. AskTypes' /\ SendTypes'
    BY <1>3 DEF Enable, Elsewhere, AskTypes, SendTypes, AskActive, AskEnded
  <2>5. SlotInv'
    BY <1>3, SlotStays DEF Enable, Elsewhere
  <2>6. AskAfterHandoff'
    BY <1>3, QuestionsStay DEF Enable, Elsewhere, AskTypes, RunTypes, Active
  <2>7. QED
    BY <2>1, <2>2, <2>3, <2>4, <2>5, <2>6
<1>4. CASE Rearm
  <2>1. PlanTypes'
    BY <1>4 DEF Rearm, PlanTypes
  <2>2. JobTypes'
    <3>1. arms \in Nat /\ arms' = arms + 1
      BY <1>4 DEF Rearm, JobTypes
    <3>2. /\ enabled' = TRUE /\ consumed' = FALSE /\ next' = "later"
          /\ UNCHANGED <<present, force, running, usable>>
      BY <1>4 DEF Rearm
    <3>3. arms' \in Nat
      BY <3>1
    <3>4. QED
      BY <3>2, <3>3 DEF JobTypes
  <2>3. RunTypes' /\ WorkTypes' /\ OutcomeKnown'
    BY <1>4 DEF Rearm, Elsewhere, RunTypes, WorkTypes, OutcomeKnown, Open, Active
  <2>4. AskTypes' /\ SendTypes'
    BY <1>4 DEF Rearm, Elsewhere, AskTypes, SendTypes, AskActive, AskEnded
  <2>5. SlotInv'
    BY <1>4, SlotStays DEF Rearm, Elsewhere
  <2>6. AskAfterHandoff'
    BY <1>4, QuestionsStay DEF Rearm, Elsewhere, AskTypes, RunTypes, Active
  <2>7. QED
    BY <2>1, <2>2, <2>3, <2>4, <2>5, <2>6
<1>5. CASE CancelRun
  <2>1. PlanTypes'
    BY <1>5 DEF CancelRun, PlanTypes
  <2>2. JobTypes'
    BY <1>5 DEF CancelRun, Elsewhere, CancelTask, JobTypes, Once
  <2>3. RunTypes' /\ WorkTypes' /\ OutcomeKnown'
    BY <1>5 DEF CancelRun, Elsewhere, CancelTask, RunTypes, WorkTypes, OutcomeKnown, Open, Active
  <2>4. AskTypes' /\ SendTypes'
    BY <1>5 DEF CancelRun, Elsewhere, CancelTask, AskTypes, SendTypes, AskActive, AskEnded, JobTypes
  <2>5. SlotInv'
    BY <1>5, SlotStays DEF CancelRun, Elsewhere, CancelTask
  <2>6. AskAfterHandoff'
    BY <1>5, QuestionsStay DEF CancelRun, Elsewhere, CancelTask, AskTypes, RunTypes, Active
  <2>7. QED
    BY <2>1, <2>2, <2>3, <2>4, <2>5, <2>6
<1>6. CASE Delete
  <2>1. PlanTypes'
    BY <1>6 DEF Delete, PlanTypes
  <2>2. JobTypes'
    BY <1>6 DEF Delete, JobTypes
  <2>3. RunTypes' /\ WorkTypes' /\ OutcomeKnown' /\ SendTypes'
    BY <1>6 DEF Delete, Elsewhere, RunTypes, WorkTypes, OutcomeKnown, SendTypes
  <2>4. AskTypes' /\ \A u \in Runs : question'[u] # "none" => question[u] # "none"
    <3>1. CASE Withdrawn # {}
      <4>1. PICK w \in Runs : Withdraw(w)
        BY <1>6, <3>1 DEF Delete, Withdrawn
      <4>2. AskTypes' /\ \A u \in Runs : question'[u] # "none" => question[u] # "none"
        BY <4>1, WithdrawKeeps
      <4>3. QED
        BY <4>2
    <3>2. CASE Withdrawn = {}
      <4>1. CancelTask(running) /\ UNCHANGED askVars
        BY <1>6, <3>2 DEF Delete
      <4>2. cancelled' \subseteq Runs
        BY <4>1 DEF CancelTask, AskTypes, JobTypes
      <4>3. QED
        BY <4>1, <4>2 DEF AskTypes
    <3>3. QED
      BY <3>1, <3>2
  <2>5. SlotInv' /\ AskAfterHandoff'
    BY <1>6, <2>4, SlotStays, QuestionsStay DEF Delete, Elsewhere
  <2>6. QED
    BY <2>1, <2>2, <2>3, <2>4, <2>5
<1>7. CASE SwitchOff
  <2>1. PlanTypes'
    BY <1>7 DEF SwitchOff, PlanTypes
  <2>2. JobTypes'
    BY <1>7 DEF SwitchOff, Elsewhere, JobTypes, Once
  <2>3. RunTypes' /\ WorkTypes' /\ OutcomeKnown'
    BY <1>7 DEF SwitchOff, Elsewhere, RunTypes, WorkTypes, OutcomeKnown, Open, Active
  <2>4. AskTypes' /\ SendTypes'
    BY <1>7 DEF SwitchOff, Elsewhere, AskTypes, SendTypes, AskActive, AskEnded
  <2>5. SlotInv'
    BY <1>7, SlotStays DEF SwitchOff, Elsewhere
  <2>6. AskAfterHandoff'
    BY <1>7, QuestionsStay DEF SwitchOff, Elsewhere, AskTypes, RunTypes, Active
  <2>7. QED
    BY <2>1, <2>2, <2>3, <2>4, <2>5, <2>6
<1>8. QED
  BY <1>1, <1>2, <1>3, <1>4, <1>5, <1>6, <1>7 DEF Owner

(* The worker, and what becomes of it. *)
LEMMA RunKeeps ==
    ASSUME NEW t \in Runs, JobInv, RunStep(t)
    PROVE  JobInv'
PROOF
<1> USE DEF JobInv, planVars, jobVars, runVars, workVars, askVars, sendVars, Disturb, Undisturbed
<1>1. CASE Claim(t)
  <2>1. PlanTypes'
    BY <1>1 DEF Claim, PlanTypes
  <2>2. JobTypes'
    BY <1>1 DEF Claim, Goto, JobTypes, Once
  <2>3. RunTypes' /\ WorkTypes' /\ OutcomeKnown'
    BY <1>1 DEF Claim, Goto, RunTypes, WorkTypes, OutcomeKnown, Open, Active
  <2>4. AskTypes' /\ SendTypes'
    BY <1>1 DEF Claim, Goto, AskTypes, SendTypes, AskActive, AskEnded
  <2>5. SlotInv'
    BY <1>1 DEF Claim, Goto, SlotInv, SlotHeld, Unsaid, SaidOnce, RunTypes, JobTypes, Open, Active
  <2>6. AskAfterHandoff'
    BY <1>1, QuestionsStay DEF Claim, Goto, AskTypes, RunTypes, Active
  <2>7. QED
    BY <2>1, <2>2, <2>3, <2>4, <2>5, <2>6
<1>2. CASE Check(t)
  <2>1. PlanTypes'
    BY <1>2 DEF Check, PlanTypes
  <2>2. JobTypes'
    BY <1>2 DEF Check, Goto, EndAs, JobTypes, Once
  <2>3. RunTypes' /\ WorkTypes' /\ OutcomeKnown'
    BY <1>2 DEF Check, Goto, EndAs, RunTypes, WorkTypes, OutcomeKnown, Open, Active
  <2>4. AskTypes' /\ SendTypes'
    BY <1>2 DEF Check, Goto, EndAs, AskTypes, SendTypes, AskActive, AskEnded
  <2>5. SlotInv'
    BY <1>2, SlotStays DEF Check, Goto, EndAs
  <2>6. AskAfterHandoff'
    BY <1>2, QuestionsStay DEF Check, Goto, EndAs, AskTypes, RunTypes, Active
  <2>7. QED
    BY <2>1, <2>2, <2>3, <2>4, <2>5, <2>6
<1>3. CASE EndStream(t)
  <2>1. PlanTypes'
    BY <1>3 DEF EndStream, PlanTypes
  <2>2. JobTypes'
    BY <1>3 DEF EndStream, Goto, EndAs, JobTypes, Once
  <2>3. RunTypes' /\ WorkTypes' /\ OutcomeKnown'
    BY <1>3 DEF EndStream, Goto, EndAs, RunTypes, WorkTypes, OutcomeKnown, Open, Active
  <2>4. AskTypes' /\ SendTypes'
    BY <1>3 DEF EndStream, Goto, EndAs, AskTypes, SendTypes, AskActive, AskEnded
  <2>5. SlotInv'
    BY <1>3, SlotStays DEF EndStream, Goto, EndAs
  <2>6. AskAfterHandoff'
    BY <1>3, QuestionsStay DEF EndStream, Goto, EndAs, AskTypes, RunTypes, Active
  <2>7. QED
    BY <2>1, <2>2, <2>3, <2>4, <2>5, <2>6
<1>4. CASE FinishLook(t)
  <2>1. PlanTypes'
    BY <1>4 DEF FinishLook, PlanTypes
  <2>2. JobTypes'
    BY <1>4 DEF FinishLook, Goto, JobTypes, Once
  <2>3. RunTypes' /\ WorkTypes' /\ OutcomeKnown'
    BY <1>4 DEF FinishLook, Goto, RunTypes, WorkTypes, OutcomeKnown, Open, Active
  <2>4. AskTypes' /\ SendTypes'
    BY <1>4 DEF FinishLook, Goto, AskTypes, SendTypes, AskActive, AskEnded
  <2>5. SlotInv'
    BY <1>4, SlotStays DEF FinishLook, Goto
  <2>6. AskAfterHandoff'
    BY <1>4, QuestionsStay DEF FinishLook, Goto, AskTypes, RunTypes, Active
  <2>7. QED
    BY <2>1, <2>2, <2>3, <2>4, <2>5, <2>6
<1>5. CASE FinishWrite(t)
  <2>1. PlanTypes' /\ WorkTypes' /\ OutcomeKnown' /\ SendTypes'
    BY <1>5 DEF FinishWrite, Goto, PlanTypes, WorkTypes, OutcomeKnown, SendTypes
  <2>2. CASE ~Owns(t)
    <3>1. UNCHANGED <<askVars, cancelled, runVars, running, enabled>>
      BY <1>5, <2>2 DEF FinishWrite
    <3>2. JobTypes' /\ RunTypes' /\ AskTypes'
      BY <1>5, <3>1 DEF FinishWrite, JobTypes, RunTypes, AskTypes
    <3>3. SlotInv' /\ AskAfterHandoff'
      BY <3>1, SlotStays, QuestionsStay
    <3>4. QED
      BY <2>1, <3>2, <3>3
  <2>3. CASE Owns(t)
    <3> DEFINE st == EndOf(t)
    <3>1. SettleAsk(t, st) /\ FreeJob(t)
      BY <1>5, <2>3 DEF FinishWrite
    <3>2. /\ run' = [run EXCEPT ![t] = IF st = "cancelled" THEN "failed" ELSE st]
          /\ task' = [task EXCEPT ![t] = TaskEnd(st)]
          /\ verdict' = [verdict EXCEPT ![t] = @ \cup Said(t, st)]
      BY <1>5, <2>3 DEF FinishWrite
    <3>3. UNCHANGED <<continues, present, consumed, next, force, usable, arms>>
      BY <1>5 DEF FinishWrite
    <3>4. st \in {"success", "failed", "skipped", "cancelled"}
      BY <1>5 DEF FinishWrite, EndOf, OutcomeKnown, WorkTypes
    <3>5. task[t] \in Open /\ run[t] = "running"
      BY <2>3 DEF Owns, Active, Open
    <3>6. Said(t, st) \in {{}, {"result"}, {"handoff"}, {"failure"}}
      BY <3>4 DEF Said
    <3>7. TaskEnd(st) \in {"succeeded", "failed", "cancelled"} /\ (st = "success" => TaskEnd(st) = "succeeded")
      BY <3>4 DEF TaskEnd
    <3> HIDE DEF st
    <3>8. JobTypes'
      BY <3>1, <3>3 DEF JobTypes, FreeJob, Once
    <3>9. /\ RunTypes' /\ SlotInv'
          /\ \A u \in Runs : task[u] = "succeeded" => task'[u] = "succeeded"
      BY <3>1, <3>2, <3>3, <3>4, <3>5, <3>6, <3>7, EndKeeps DEF FreeJob
    <3>10. AskTypes' /\ \A u \in Runs : question'[u] # "none" => question[u] # "none" \/ (u = t /\ st = "success")
      <4>1. CASE saw[t] = t /\ ask[t] = "pending" /\ st = "success"
        <5>1. SendAsk(t)
          BY <3>1, <4>1 DEF SettleAsk
        <5>2. QED
          BY <4>1, <5>1 DEF SendAsk, AskTypes, AskActive
      <4>2. CASE saw[t] = t /\ ask[t] = "pending" /\ st # "success"
        <5>1. CloseTo(t, "cancelled", FALSE, FALSE)
          BY <3>1, <4>2 DEF SettleAsk
        <5>2. QED
          BY <5>1, CloseKeeps DEF AskEnded
      <4>3. CASE ~(saw[t] = t /\ ask[t] = "pending")
        <5>1. /\ ask' \in {ask, [ask EXCEPT ![saw[t]] = "completed"], [ask EXCEPT ![saw[t]] = "failed"]}
              /\ UNCHANGED <<resume, question, known, told, heard, replied, cancelled>>
          BY <3>1, <4>3 DEF SettleAsk
        <5>2. QED
          BY <5>1 DEF AskTypes, AskEnded
      <4>4. QED
        BY <4>1, <4>2, <4>3
    <3>11. AskAfterHandoff'
      BY <3>2, <3>7, <3>9, <3>10, QuestionsStay DEF RunTypes
    <3>12. QED
      BY <2>1, <3>8, <3>9, <3>10, <3>11
  <2>4. QED
    BY <2>2, <2>3
<1>6. CASE Remind(t)
  <2>1. PlanTypes' /\ WorkTypes' /\ OutcomeKnown' /\ SendTypes' /\ AskTypes'
    BY <1>6 DEF Remind, Goto, PlanTypes, WorkTypes, OutcomeKnown, SendTypes, AskTypes
  <2>2. JobTypes'
    BY <1>6 DEF Remind, JobTypes
  <2>3. CASE ~Owns(t)
    <3>1. UNCHANGED <<runVars, running, question>>
      BY <1>6, <2>3 DEF Remind
    <3>2. QED
      BY <2>1, <2>2, <3>1, SlotStays, QuestionsStay DEF RunTypes
  <2>4. CASE Owns(t)
    <3> DEFINE ok == present /\ usable /\ enabled /\ t \notin cancelled /\ running = t
    <3>1. /\ run' = [run EXCEPT ![t] = IF ok THEN "success" ELSE "skipped"]
          /\ verdict' = IF ok THEN [verdict EXCEPT ![t] = @ \cup {"result"}] ELSE verdict
          /\ task' = [task EXCEPT ![t] = IF ok THEN "succeeded" ELSE "cancelled"]
      BY <1>6, <2>4 DEF Remind
    <3>2. running' = (IF running = t THEN 0 ELSE running) /\ UNCHANGED <<continues, question>>
      BY <1>6, <2>4 DEF Remind
    <3>3. task[t] \in Open /\ run[t] = "running"
      BY <2>4 DEF Owns, Active, Open
    <3> HIDE DEF ok
    <3>4. verdict' = [verdict EXCEPT ![t] = @ \cup (IF ok THEN {"result"} ELSE {})]
      BY <3>1 DEF RunTypes
    <3>5. /\ RunTypes' /\ SlotInv'
          /\ \A u \in Runs : task[u] = "succeeded" => task'[u] = "succeeded"
      BY <3>1, <3>2, <3>3, <3>4, EndKeeps
    <3>6. AskAfterHandoff'
      BY <3>2, <3>5, QuestionsStay
    <3>7. QED
      BY <2>1, <2>2, <3>5, <3>6
  <2>5. QED
    BY <2>3, <2>4
<1>7. CASE RequestHelp(t)
  <2>1. PlanTypes'
    BY <1>7 DEF RequestHelp, PlanTypes
  <2>2. JobTypes'
    BY <1>7 DEF RequestHelp, JobTypes, Once
  <2>3. RunTypes' /\ WorkTypes' /\ OutcomeKnown'
    BY <1>7 DEF RequestHelp, RunTypes, WorkTypes, OutcomeKnown, Open, Active
  <2>4. AskTypes' /\ SendTypes'
    BY <1>7 DEF RequestHelp, AskTypes, SendTypes, AskActive, AskEnded
  <2>5. SlotInv'
    BY <1>7, SlotStays DEF RequestHelp
  <2>6. AskAfterHandoff'
    BY <1>7, QuestionsStay DEF RequestHelp, AskTypes, RunTypes, Active
  <2>7. QED
    BY <2>1, <2>2, <2>3, <2>4, <2>5, <2>6
<1>8. CASE Abort(t)
  <2>1. PlanTypes'
    BY <1>8 DEF Abort, PlanTypes
  <2>2. JobTypes'
    BY <1>8 DEF Abort, Goto, JobTypes, Once
  <2>3. RunTypes' /\ WorkTypes' /\ OutcomeKnown'
    BY <1>8 DEF Abort, Goto, RunTypes, WorkTypes, OutcomeKnown, Open, Active
  <2>4. AskTypes' /\ SendTypes'
    BY <1>8 DEF Abort, Goto, AskTypes, SendTypes, AskActive, AskEnded
  <2>5. SlotInv'
    BY <1>8, SlotStays DEF Abort, Goto
  <2>6. AskAfterHandoff'
    BY <1>8, QuestionsStay DEF Abort, Goto, AskTypes, RunTypes, Active
  <2>7. QED
    BY <2>1, <2>2, <2>3, <2>4, <2>5, <2>6
<1>9. CASE Crash(t)
  <2>1. PlanTypes'
    BY <1>9 DEF Crash, PlanTypes
  <2>2. JobTypes'
    BY <1>9 DEF Crash, Goto, JobTypes, Once
  <2>3. RunTypes' /\ WorkTypes' /\ OutcomeKnown'
    BY <1>9 DEF Crash, Goto, RunTypes, WorkTypes, OutcomeKnown, Open, Active
  <2>4. AskTypes' /\ SendTypes'
    BY <1>9 DEF Crash, Goto, AskTypes, SendTypes, AskActive, AskEnded
  <2>5. SlotInv'
    BY <1>9, SlotStays DEF Crash, Goto
  <2>6. AskAfterHandoff'
    BY <1>9, QuestionsStay DEF Crash, Goto, AskTypes, RunTypes, Active
  <2>7. QED
    BY <2>1, <2>2, <2>3, <2>4, <2>5, <2>6
<1>10. CASE Reap(t)
  <2>1. PlanTypes'
    BY <1>10 DEF Reap, PlanTypes
  <2>2. JobTypes'
    BY <1>10 DEF Reap, JobTypes, Once
  <2>3. RunTypes' /\ WorkTypes' /\ OutcomeKnown'
    BY <1>10 DEF Reap, RunTypes, WorkTypes, OutcomeKnown, Open, Active
  <2>4. AskTypes' /\ SendTypes'
    BY <1>10 DEF Reap, AskTypes, SendTypes, AskActive, AskEnded
  <2>5. SlotInv'
    BY <1>10 DEF Reap, SlotInv, SlotHeld, Unsaid, SaidOnce, RunTypes, JobTypes, Open, Active
  <2>6. AskAfterHandoff'
    BY <1>10, QuestionsStay DEF Reap, AskTypes, RunTypes, Active
  <2>7. QED
    BY <2>1, <2>2, <2>3, <2>4, <2>5, <2>6
<1>11. QED
  BY <1>1, <1>2, <1>3, <1>4, <1>5, <1>6, <1>7, <1>8, <1>9, <1>10 DEF RunStep, Work

(* The question on its way, and the answer. *)
LEMMA QuestionKeeps ==
    ASSUME NEW s \in Runs, JobInv, Deliver(s) \/ GatewayCrash(s) \/ RecordDelivery(s) \/ Reply(s)
    PROVE  JobInv'
PROOF
<1> USE DEF JobInv, planVars, jobVars, runVars, workVars, askVars, sendVars, Disturb, Undisturbed
<1>1. CASE TakeQuestion(s)
  <2>1. PlanTypes'
    BY <1>1 DEF TakeQuestion, PlanTypes
  <2>2. JobTypes'
    BY <1>1 DEF TakeQuestion, JobTypes, Once
  <2>3. RunTypes' /\ WorkTypes' /\ OutcomeKnown'
    BY <1>1 DEF TakeQuestion, RunTypes, WorkTypes, OutcomeKnown, Open, Active
  <2>4. AskTypes' /\ SendTypes'
    BY <1>1 DEF TakeQuestion, AskTypes, SendTypes, AskActive, AskEnded
  <2>5. SlotInv'
    BY <1>1, SlotStays DEF TakeQuestion
  <2>6. AskAfterHandoff'
    BY <1>1, QuestionsStay DEF TakeQuestion, AskTypes, RunTypes, Active
  <2>7. QED
    BY <2>1, <2>2, <2>3, <2>4, <2>5, <2>6
<1>2. CASE Sent(s)
  <2>1. PlanTypes'
    BY <1>2 DEF Sent, PlanTypes
  <2>2. JobTypes'
    BY <1>2 DEF Sent, JobTypes, Once
  <2>3. RunTypes' /\ WorkTypes' /\ OutcomeKnown'
    BY <1>2 DEF Sent, RunTypes, WorkTypes, OutcomeKnown, Open, Active
  <2>4. AskTypes' /\ SendTypes'
    BY <1>2 DEF Sent, AskTypes, SendTypes, AskActive, AskEnded
  <2>5. SlotInv'
    BY <1>2, SlotStays DEF Sent
  <2>6. AskAfterHandoff'
    BY <1>2, QuestionsStay DEF Sent, AskTypes, RunTypes, Active
  <2>7. QED
    BY <2>1, <2>2, <2>3, <2>4, <2>5, <2>6
<1>3. CASE Refused(s)
  <2>1. PlanTypes'
    BY <1>3 DEF Refused, PlanTypes
  <2>2. JobTypes'
    BY <1>3 DEF Refused, JobTypes, Once
  <2>3. RunTypes' /\ WorkTypes' /\ OutcomeKnown'
    BY <1>3 DEF Refused, RunTypes, WorkTypes, OutcomeKnown, Open, Active
  <2>4. AskTypes' /\ SendTypes'
    BY <1>3 DEF Refused, AskTypes, SendTypes, AskActive, AskEnded
  <2>5. SlotInv'
    BY <1>3, SlotStays DEF Refused
  <2>6. AskAfterHandoff'
    BY <1>3, QuestionsStay DEF Refused, AskTypes, RunTypes, Active
  <2>7. QED
    BY <2>1, <2>2, <2>3, <2>4, <2>5, <2>6
<1>4. CASE GatewayCrash(s)
  <2>1. PlanTypes'
    BY <1>4 DEF GatewayCrash, PlanTypes
  <2>2. JobTypes'
    BY <1>4 DEF GatewayCrash, JobTypes, Once
  <2>3. RunTypes' /\ WorkTypes' /\ OutcomeKnown'
    BY <1>4 DEF GatewayCrash, RunTypes, WorkTypes, OutcomeKnown, Open, Active
  <2>4. AskTypes' /\ SendTypes'
    BY <1>4 DEF GatewayCrash, AskTypes, SendTypes, AskActive, AskEnded
  <2>5. SlotInv'
    BY <1>4, SlotStays DEF GatewayCrash
  <2>6. AskAfterHandoff'
    BY <1>4, QuestionsStay DEF GatewayCrash, AskTypes, RunTypes, Active
  <2>7. QED
    BY <2>1, <2>2, <2>3, <2>4, <2>5, <2>6
<1>5. CASE RecordDelivery(s)
  <2>1. PlanTypes'
    BY <1>5 DEF RecordDelivery, PlanTypes
  <2>2. JobTypes'
    BY <1>5 DEF RecordDelivery, JobTypes, Once
  <2>3. RunTypes' /\ WorkTypes' /\ OutcomeKnown'
    BY <1>5 DEF RecordDelivery, RunTypes, WorkTypes, OutcomeKnown, Open, Active
  <2>4. AskTypes' /\ SendTypes'
    BY <1>5 DEF RecordDelivery, AskTypes, SendTypes, AskActive, AskEnded
  <2>5. SlotInv'
    BY <1>5, SlotStays DEF RecordDelivery
  <2>6. AskAfterHandoff'
    BY <1>5, QuestionsStay DEF RecordDelivery, AskTypes, RunTypes, Active
  <2>7. QED
    BY <2>1, <2>2, <2>3, <2>4, <2>5, <2>6
<1>6. CASE Reply(s)
  <2>1. PlanTypes' /\ WorkTypes' /\ OutcomeKnown' /\ SendTypes'
    BY <1>6 DEF Reply, PlanTypes, WorkTypes, OutcomeKnown, SendTypes
  <2>2. StartResume(s) /\ replied' \subseteq Runs
    BY <1>6 DEF Reply, AskTypes
  <2>3. RunTypes' /\ running' \in Runs \cup {0} /\ AskTypes' /\ SlotInv' /\ AskAfterHandoff'
    BY <2>2, ResumeKeeps
  <2>4. JobTypes'
    BY <1>6, <2>3 DEF Reply, JobTypes
  <2>5. QED
    BY <2>1, <2>3, <2>4
<1>7. QED
  BY <1>1, <1>2, <1>3, <1>4, <1>5, <1>6 DEF Deliver

(* The ledger of questions. *)
LEMMA TickKeeps ==
    ASSUME NEW s \in Runs, JobInv, HumanTick(s)
    PROVE  JobInv'
PROOF
<1> USE DEF JobInv, planVars, jobVars, runVars, workVars, askVars, sendVars, Disturb, Undisturbed
<1>1. CASE TickRevoked(s)
  <2>1. PlanTypes' /\ JobTypes' /\ RunTypes' /\ WorkTypes' /\ OutcomeKnown' /\ SendTypes'
    BY <1>1 DEF TickRevoked, TickRest, PlanTypes, JobTypes, RunTypes, WorkTypes, OutcomeKnown, SendTypes
  <2>2. AskTypes' /\ \A u \in Runs : question'[u] # "none" => question[u] # "none"
    BY <1>1, CloseKeeps DEF TickRevoked, AskEnded
  <2>3. SlotInv' /\ AskAfterHandoff'
    BY <1>1, <2>2, SlotStays, QuestionsStay DEF TickRevoked
  <2>4. QED
    BY <2>1, <2>2, <2>3
<1>2. CASE TickDeleted(s)
  <2>1. PlanTypes' /\ JobTypes' /\ RunTypes' /\ WorkTypes' /\ OutcomeKnown' /\ SendTypes'
    BY <1>2 DEF TickDeleted, TickRest, PlanTypes, JobTypes, RunTypes, WorkTypes, OutcomeKnown, SendTypes
  <2>2. AskTypes' /\ \A u \in Runs : question'[u] # "none" => question[u] # "none"
    BY <1>2, CloseKeeps DEF TickDeleted, AskEnded
  <2>3. SlotInv' /\ AskAfterHandoff'
    BY <1>2, <2>2, SlotStays, QuestionsStay DEF TickDeleted
  <2>4. QED
    BY <2>1, <2>2, <2>3
<1>3. CASE TickPending(s)
  <2>1. PlanTypes' /\ JobTypes' /\ RunTypes' /\ WorkTypes' /\ OutcomeKnown' /\ SendTypes'
    BY <1>3 DEF TickPending, TickRest, PlanTypes, JobTypes, RunTypes, WorkTypes, OutcomeKnown, SendTypes
  <2>2. CASE CloseTo(s, "cancelled", FALSE, FALSE)
    <3>1. AskTypes' /\ \A u \in Runs : question'[u] # "none" => question[u] # "none"
      BY <2>2, CloseKeeps DEF AskEnded
    <3>2. SlotInv' /\ AskAfterHandoff'
      BY <1>3, <3>1, SlotStays, QuestionsStay DEF TickPending
    <3>3. QED
      BY <2>1, <3>1, <3>2
  <2>3. CASE Sendable(s) /\ SendAsk(s)
    <3>1. AskTypes'
      BY <2>3 DEF SendAsk, AskTypes, AskActive
    <3>2. SlotInv' /\ AskAfterHandoff'
      BY <1>3, <2>3, SlotStays, QuestionsStay DEF TickPending, SendAsk, Sendable, AskTypes
    <3>3. QED
      BY <2>1, <3>1, <3>2
  <2>4. QED
    BY <1>3, <2>2, <2>3 DEF TickPending
<1>4. CASE TickTimedOut(s)
  <2>1. PlanTypes' /\ JobTypes' /\ RunTypes' /\ WorkTypes' /\ OutcomeKnown' /\ SendTypes'
    BY <1>4 DEF TickTimedOut, TickRest, PlanTypes, JobTypes, RunTypes, WorkTypes, OutcomeKnown, SendTypes
  <2>2. AskTypes' /\ \A u \in Runs : question'[u] # "none" => question[u] # "none"
    BY <1>4, CloseKeeps DEF TickTimedOut, AskEnded
  <2>3. SlotInv' /\ AskAfterHandoff'
    BY <1>4, <2>2, SlotStays, QuestionsStay DEF TickTimedOut
  <2>4. QED
    BY <2>1, <2>2, <2>3
<1>5. CASE TickAnswered(s)
  <2>1. PlanTypes' /\ WorkTypes' /\ OutcomeKnown' /\ SendTypes'
    BY <1>5 DEF TickAnswered, TickRest, PlanTypes, WorkTypes, OutcomeKnown, SendTypes
  <2>2. StartResume(s) /\ replied' \subseteq Runs
    BY <1>5 DEF TickAnswered, AskTypes
  <2>3. RunTypes' /\ running' \in Runs \cup {0} /\ AskTypes' /\ SlotInv' /\ AskAfterHandoff'
    BY <2>2, ResumeKeeps
  <2>4. JobTypes'
    BY <1>5, <2>3 DEF TickAnswered, TickRest, JobTypes
  <2>5. QED
    BY <2>1, <2>3, <2>4
<1>6. CASE TickResuming(s)
  <2>1. PlanTypes'
    BY <1>6 DEF TickResuming, TickRest, PlanTypes
  <2>2. JobTypes'
    BY <1>6 DEF TickResuming, ResumeFailed, Synced, TickRest, JobTypes, Once
  <2>3. RunTypes' /\ WorkTypes' /\ OutcomeKnown'
    BY <1>6 DEF TickResuming, ResumeFailed, Synced, TickRest, RunTypes, WorkTypes, OutcomeKnown, Open, Active
  <2>4. AskTypes' /\ SendTypes'
    BY <1>6 DEF TickResuming, ResumeFailed, Synced, TickRest, AskTypes, SendTypes, AskActive, AskEnded
  <2>5. SlotInv'
    BY <1>6, SlotStays DEF TickResuming, ResumeFailed, Synced, TickRest
  <2>6. AskAfterHandoff'
    BY <1>6, QuestionsStay DEF TickResuming, ResumeFailed, Synced, TickRest, AskTypes, RunTypes, Active
  <2>7. QED
    BY <2>1, <2>2, <2>3, <2>4, <2>5, <2>6
<1>7. CASE TickUndelivered(s)
  <2>1. PlanTypes' /\ JobTypes' /\ RunTypes' /\ WorkTypes' /\ OutcomeKnown' /\ SendTypes'
    BY <1>7 DEF TickUndelivered, TickRest, PlanTypes, JobTypes, RunTypes, WorkTypes, OutcomeKnown, SendTypes
  <2>2. AskTypes' /\ \A u \in Runs : question'[u] # "none" => question[u] # "none"
    BY <1>7, CloseKeeps DEF TickUndelivered, AskEnded
  <2>3. SlotInv' /\ AskAfterHandoff'
    BY <1>7, <2>2, SlotStays, QuestionsStay DEF TickUndelivered
  <2>4. QED
    BY <2>1, <2>2, <2>3
<1>8. CASE TickSync(s)
  <2>1. PlanTypes'
    BY <1>8 DEF TickSync, TickRest, PlanTypes
  <2>2. JobTypes'
    BY <1>8 DEF TickSync, TickRest, JobTypes, Once
  <2>3. RunTypes' /\ WorkTypes' /\ OutcomeKnown'
    BY <1>8 DEF TickSync, TickRest, RunTypes, WorkTypes, OutcomeKnown, Open, Active
  <2>4. AskTypes' /\ SendTypes'
    BY <1>8 DEF TickSync, TickRest, AskTypes, SendTypes, AskActive, AskEnded
  <2>5. SlotInv'
    BY <1>8, SlotStays DEF TickSync, TickRest
  <2>6. AskAfterHandoff'
    BY <1>8, QuestionsStay DEF TickSync, TickRest, AskTypes, RunTypes, Active
  <2>7. QED
    BY <2>1, <2>2, <2>3, <2>4, <2>5, <2>6
<1>9. QED
  BY <1>1, <1>2, <1>3, <1>4, <1>5, <1>6, <1>7, <1>8 DEF HumanTick

LEMMA StepJob == JobInv /\ [Next]_vars => JobInv'
PROOF
<1>1. ASSUME JobInv, UNCHANGED vars PROVE JobInv'
  <2> USE <1>1 DEF JobInv, vars, planVars, jobVars, runVars, workVars, askVars, sendVars
  <2>1. PlanTypes' /\ JobTypes' /\ RunTypes' /\ WorkTypes'
    BY DEF PlanTypes, JobTypes, RunTypes, WorkTypes
  <2>2. AskTypes' /\ SendTypes' /\ OutcomeKnown'
    BY DEF AskTypes, SendTypes, OutcomeKnown
  <2>3. SlotInv' /\ AskAfterHandoff'
    BY SlotStays, QuestionsStay
  <2>4. QED
    BY <2>1, <2>2, <2>3
<1>2. ASSUME JobInv, Next PROVE JobInv'
  BY <1>2, ClockKeeps, OwnerKeeps, RunKeeps, QuestionKeeps, TickKeeps DEF Next, AskStep
<1>3. QED
  BY <1>1, <1>2

LEMMA JobInvariant == Spec => []JobInv
PROOF
BY InitJob, StepJob, PTL DEF Spec

(* Every variable of a scheduled job stays in its type, for every plan. *)
THEOREM JobTypesHold == Spec => []TypeOK
PROOF
BY InvTypes, JobInvariant, PTL

(* Executions of a job never overlap, whoever starts them and however many *)
(* workers die or are cut off.                                             *)
THEOREM ExecutionsNeverOverlap == Spec => []OneExecution
PROOF
<1>1. JobInv => OneExecution
  BY DEF JobInv, SlotInv, SlotHeld, OneExecution
<1>2. QED
  BY <1>1, JobInvariant, PTL

(* The originator hears at most one thing of an execution. *)
THEOREM VerdictsAreSingle == Spec => []OneVerdict
PROOF
<1>1. JobInv => OneVerdict
  <2> SUFFICES ASSUME JobInv, NEW t \in Runs PROVE Cardinality(verdict[t]) <= 1
    BY DEF OneVerdict
  <2>1. verdict[t] = {} \/ \E v : verdict[t] = {v}
    BY DEF JobInv, SlotInv, SaidOnce
  <2>2. Cardinality(verdict[t]) = 0 \/ Cardinality(verdict[t]) = 1
    BY <2>1, FS_EmptySet, FS_Singleton
  <2>3. QED
    BY <2>2
<1>2. QED
  BY <1>1, JobInvariant, PTL

(* No colleague is disturbed for an execution that did not end well. *)
THEOREM AsksFollowHandoffs == Spec => []AskAfterHandoff
PROOF
<1>1. JobInv => AskAfterHandoff
  BY DEF JobInv
<1>2. QED
  BY <1>1, JobInvariant, PTL

------------------------------------------------------------------------------
(* The question and the execution that continues it. *)

(* What is true of an execution before it is enqueued. *)
Untouched ==
    \A t \in Runs : task[t] = "absent" =>
        pc[t] = "idle" /\ outcome[t] = "none" /\ saw[t] = 0 /\ continues[t] = 0

(* A question goes out when it waits, is resumed when it is answered. *)
AskOrder ==
    \A s \in Runs :
        /\ ask[s] \in {"absent", "pending"} => question[s] = "none"
        /\ ask[s] \in {"answered", "resuming"} => s \in replied
        /\ s \in replied => ask[s] \notin {"absent", "pending", "waiting"}
        /\ ask[s] \in {"absent", "pending", "waiting", "answered"} => resume[s] = 0
        /\ ask[s] = "resuming" => resume[s] # 0

(* A question and the execution that continues it name each other. *)
Linked ==
    /\ \A t \in Runs : continues[t] # 0 => resume[continues[t]] = t
    /\ \A s \in Runs : resume[s] # 0 => continues[resume[s]] = s
    /\ \A t \in Runs : saw[t] \notin {0, t} => saw[t] = continues[t]

(* A continuation is never skipped, says something when it ends well, and  *)
(* is cancelled for a reason.                                              *)
Ends ==
    \A t \in Runs :
        /\ outcome[t] = "skipped" => continues[t] = 0
        /\ outcome[t] = "cancelled" => t \in cancelled \cup aborted
        /\ task[t] = "succeeded" /\ continues[t] # 0 => verdict[t] # {}

LinkInv == Untouched /\ AskOrder /\ Linked /\ Ends /\ ColleagueHears /\ AnswerHeard

------------------------------------------------------------------------------
LEMMA InitLinks == Init => LinkInv
PROOF
BY DEF Init, LinkInv, Untouched, AskOrder, Linked, Ends, ColleagueHears, AnswerHeard, AskEnded

(* What the links are about. *)
linkVars == <<present, task, continues, verdict, cancelled, workVars, askVars, sendVars>>

LEMMA LinksStay ==
    ASSUME LinkInv, UNCHANGED linkVars
    PROVE  LinkInv'
PROOF
<1> USE DEF LinkInv, linkVars, workVars, askVars, sendVars
<1>1. Untouched' /\ Linked' /\ Ends'
  BY DEF Untouched, Linked, Ends
<1>2. AskOrder' /\ ColleagueHears' /\ AnswerHeard'
  BY DEF AskOrder, ColleagueHears, AnswerHeard, AskEnded
<1>3. QED
  BY <1>1, <1>2

(* A question that ends is told to its colleague when it was waiting, and  *)
(* to its originator when it was answered.                                 *)
LEMMA CloseLinks ==
    ASSUME JobInv, LinkInv, NEW s \in Runs, NEW status \in AskEnded,
           NEW notify \in BOOLEAN, NEW originator \in BOOLEAN,
           CloseTo(s, status, notify, originator), ask[s] \in AskActive,
           notify \/ ask[s] = "pending",
           (notify /\ originator) \/ s \notin replied \/ ~present,
           present' => present,
           UNCHANGED <<runVars, workVars, sendVars>>
    PROVE  LinkInv'
PROOF
<1> USE DEF JobInv, LinkInv, planVars, jobVars, runVars, workVars, askVars, sendVars,
           Disturb, Undisturbed, Open, Active, AskActive, AskEnded,
           RunTypes, WorkTypes, AskTypes, SendTypes, JobTypes
<1>1. Untouched' /\ Linked'
  BY DEF CloseTo, Untouched, Linked
<1>2. cancelled \subseteq cancelled'
  BY DEF CloseTo, CancelTask
<1>3. Ends'
  BY <1>2 DEF Ends
<1>4. AskOrder'
  BY DEF CloseTo, AskOrder
<1>5. ColleagueHears'
  BY DEF CloseTo, Synced, AskOrder, ColleagueHears
<1>6. AnswerHeard'
  BY <1>2 DEF CloseTo, AnswerHeard
<1>7. QED
  BY <1>1, <1>3, <1>4, <1>5, <1>6

(* A new execution, and the answered question it continues. *)
LEMMA EnqueueLinks ==
    ASSUME JobInv, LinkInv, NEW source \in Runs \cup {0}, Enqueue(source),
           UNCHANGED <<present, workVars, cancelled, question, known, told, heard, sendVars>>,
           replied \subseteq replied',
           \/ source = 0 /\ UNCHANGED <<ask, resume, replied>>
           \/ /\ source # 0 /\ ask[source] \in {"waiting", "answered"}
              /\ replied' = replied \cup {source}
              /\ ask' = [ask EXCEPT ![source] = "resuming"]
              /\ resume' = [resume EXCEPT ![source] = Fresh]
    PROVE  LinkInv'
PROOF
<1>1. Fresh \in Runs /\ task[Fresh] = "absent"
  BY DEF Enqueue, RoomLeft, Fresh
<1> DEFINE t == Fresh
<1>2. /\ task' = [task EXCEPT ![t] = "queued"] /\ continues' = [continues EXCEPT ![t] = source]
      /\ verdict' = verdict
  BY DEF Enqueue
<1>3. t \in Runs /\ task[t] = "absent" /\ t # 0
  BY <1>1 DEF Runs
<1>4. \/ source = 0 /\ UNCHANGED <<ask, resume, replied>>
      \/ /\ source # 0 /\ ask[source] \in {"waiting", "answered"}
         /\ replied' = replied \cup {source}
         /\ ask' = [ask EXCEPT ![source] = "resuming"]
         /\ resume' = [resume EXCEPT ![source] = t]
  OBVIOUS
<1> HIDE DEF t
<1> USE DEF JobInv, LinkInv, planVars, jobVars, runVars, workVars, askVars, sendVars,
           Disturb, Undisturbed, Open, Active, AskActive, AskEnded,
           RunTypes, WorkTypes, AskTypes, SendTypes, JobTypes
<1>5. Untouched'
  BY <1>2, <1>3 DEF Untouched
<1>6. source # 0 => resume[source] = 0
  BY <1>4 DEF AskOrder
<1>7. \A s \in Runs : resume[s] # t
  BY <1>3 DEF Untouched, Linked, Runs
<1>8. Linked'
  <2>1. 0 \notin Runs
    BY DEF Runs
  <2>2. \A u \in Runs : continues'[u] # 0 => resume'[continues'[u]] = u
    <3>1. CASE source = 0
      BY <1>2, <1>3, <1>4, <2>1, <3>1 DEF Linked
    <3>2. CASE source # 0
      <4>1. resume'[source] = t /\ continues'[t] = source
        BY <1>2, <1>3, <1>4, <3>2
      <4>2. \A u \in Runs \ {t} : continues'[u] = continues[u]
        BY <1>2
      <4>3. \A s \in Runs \ {source} : resume'[s] = resume[s]
        BY <1>4, <3>2
      <4>4. QED
        BY <1>6, <2>1, <3>2, <4>1, <4>2, <4>3 DEF Linked
    <3>3. QED
      BY <3>1, <3>2
  <2>3. \A s \in Runs : resume'[s] # 0 => continues'[resume'[s]] = s
    <3>1. \A s \in Runs : resume'[s] = resume[s] \/ (s = source /\ resume'[s] = t)
      BY <1>4
    <3>2. \A s \in Runs : resume[s] # 0 => continues'[resume[s]] = s
      BY <1>2, <1>7 DEF Linked
    <3>3. continues'[t] = source
      BY <1>2, <1>3
    <3>4. QED
      BY <3>1, <3>2, <3>3
  <2>4. \A u \in Runs : saw'[u] \notin {0, u} => saw'[u] = continues'[u]
    BY <1>2, <1>3 DEF Linked, Untouched
  <2>5. QED
    BY <2>2, <2>3, <2>4 DEF Linked
<1>9. Ends'
  BY <1>2, <1>3 DEF Ends, Untouched
<1>10. AskOrder'
  BY <1>3, <1>4 DEF AskOrder
<1>11. ColleagueHears' /\ AnswerHeard'
  BY <1>2, <1>4 DEF ColleagueHears, AnswerHeard
<1>12. QED
  BY <1>5, <1>8, <1>9, <1>10, <1>11

LEMMA ResumeLinks ==
    ASSUME JobInv, LinkInv, NEW s \in Runs, StartResume(s), ask[s] \in {"waiting", "answered"},
           replied' = replied \cup {s} \/ (ask[s] = "answered" /\ replied' = replied),
           UNCHANGED <<present, workVars, sendVars>>
    PROVE  LinkInv'
PROOF
<1> USE DEF JobInv, LinkInv, planVars, jobVars, runVars, workVars, askVars, sendVars,
           Disturb, Undisturbed, Open, Active, AskActive, AskEnded,
           RunTypes, WorkTypes, AskTypes, SendTypes, JobTypes
<1>1. ask[s] = "answered" => s \in replied
  BY DEF AskOrder
<1>2. replied' = replied \cup {s}
  BY <1>1
<1>3. CASE ~present
  <2>1. CloseTo(s, "failed", TRUE, TRUE) /\ UNCHANGED runVars
    BY <1>3 DEF StartResume
  <2>2. replied' = replied
    BY <2>1 DEF CloseTo
  <2>3. QED
    BY <1>3, <2>1, CloseLinks
<1>4. CASE present /\ running # 0
  <2>1. /\ ask' = [ask EXCEPT ![s] = "answered"]
        /\ UNCHANGED <<runVars, cancelled, resume, question, known, told, heard>>
    BY <1>4 DEF StartResume
  <2>2. Untouched' /\ Linked' /\ Ends'
    BY <2>1 DEF Untouched, Linked, Ends
  <2>3. AskOrder' /\ ColleagueHears' /\ AnswerHeard'
    BY <1>2, <2>1 DEF AskOrder, ColleagueHears, AnswerHeard
  <2>4. QED
    BY <2>2, <2>3
<1>5. CASE present /\ running = 0
  <2>1. /\ Enqueue(s) /\ ask' = [ask EXCEPT ![s] = "resuming"] /\ resume' = [resume EXCEPT ![s] = Fresh]
        /\ UNCHANGED <<cancelled, question, known, told, heard>>
    BY <1>5 DEF StartResume
  <2>2. s # 0
    BY DEF Runs
  <2>3. QED
    BY <1>2, <2>1, <2>2, EnqueueLinks
<1>6. QED
  BY <1>3, <1>4, <1>5 DEF StartResume

(* The scheduler's loop. *)
LEMMA ClockLinks ==
    ASSUME JobInv, LinkInv, ComesDue \/ Misses \/ CronTick \/ Recover
    PROVE  LinkInv'
PROOF
<1> USE DEF JobInv, LinkInv, planVars, jobVars, runVars, workVars, askVars, sendVars,
           Disturb, Undisturbed, Open, Active, AskActive, AskEnded,
           RunTypes, WorkTypes, AskTypes, SendTypes, JobTypes
<1>1. CASE ComesDue \/ Misses
  BY <1>1, LinksStay DEF linkVars, ComesDue, Misses
<1>2. CASE TickInvalid \/ TickBusy \/ TickMisfire
  BY <1>2, LinksStay DEF linkVars, TickInvalid, TickBusy, TickMisfire, Advance
<1>3. CASE TickStart
  <2>1. Enqueue(0) /\ UNCHANGED <<present, cancelled, workVars, askVars, sendVars>>
    BY <1>3 DEF TickStart
  <2>2. QED
    BY <2>1, EnqueueLinks
<1>4. CASE Recover
  <2>1. Untouched' /\ Linked' /\ Ends'
    BY <1>4 DEF Untouched, Linked, Ends, Recover, LeftBehind
  <2>2. AskOrder' /\ ColleagueHears' /\ AnswerHeard'
    BY <1>4 DEF AskOrder, ColleagueHears, AnswerHeard, Recover, LeftBehind
  <2>3. QED
    BY <2>1, <2>2 DEF LinkInv
<1>5. QED
  BY <1>1, <1>2, <1>3, <1>4 DEF CronTick

(* The owner and the administrator. *)
LEMMA OwnerLinks ==
    ASSUME JobInv, LinkInv, Owner
    PROVE  LinkInv'
PROOF
<1> USE DEF JobInv, LinkInv, planVars, jobVars, runVars, workVars, askVars, sendVars,
           Disturb, Undisturbed, Open, Active, AskActive, AskEnded,
           RunTypes, WorkTypes, AskTypes, SendTypes, JobTypes
<1>1. CASE ForceRun \/ Disable \/ Enable \/ Rearm \/ SwitchOff
  BY <1>1, LinksStay DEF linkVars, ForceRun, Disable, Enable, Rearm, SwitchOff, Elsewhere
<1>2. CASE CancelRun
  <2>1. Untouched' /\ Linked' /\ Ends'
    BY <1>2 DEF Untouched, Linked, Ends, CancelRun, CancelTask, Elsewhere
  <2>2. AskOrder' /\ ColleagueHears' /\ AnswerHeard'
    BY <1>2 DEF AskOrder, ColleagueHears, AnswerHeard, CancelRun, CancelTask,
        Elsewhere
  <2>3. QED
    BY <2>1, <2>2 DEF LinkInv
<1>3. CASE Delete
  <2>1. present' = FALSE /\ UNCHANGED <<runVars, workVars, sendVars>>
    BY <1>3 DEF Delete, Elsewhere
  <2>2. CASE Withdrawn = {}
    <3>1. CancelTask(running) /\ UNCHANGED askVars
      BY <1>3, <2>2 DEF Delete
    <3>2. cancelled \subseteq cancelled'
      BY <3>1 DEF CancelTask
    <3>3. Untouched' /\ Linked' /\ Ends'
      BY <2>1, <3>1, <3>2 DEF Untouched, Linked, Ends
    <3>4. AskOrder' /\ ColleagueHears' /\ AnswerHeard'
      BY <2>1, <3>1 DEF AskOrder, ColleagueHears, AnswerHeard
    <3>5. QED
      BY <3>3, <3>4
  <2>3. CASE Withdrawn # {}
    <3> DEFINE s == CHOOSE s \in Withdrawn : TRUE
    <3>1. Withdraw(s) /\ s \in Withdrawn
      BY <1>3, <2>3 DEF Delete
    <3> HIDE DEF s
    <3>2. s \in Runs /\ ask[s] \in AskActive
      BY <3>1 DEF Withdrawn
    <3>3. cancelled \subseteq cancelled'
      BY <3>1 DEF Withdraw
    <3>4. Untouched' /\ Linked' /\ Ends'
      BY <2>1, <3>1, <3>3 DEF Withdraw, Untouched, Linked, Ends
    <3>5. AskOrder' /\ AnswerHeard'
      BY <2>1, <3>1, <3>2 DEF Withdraw, AskOrder, AnswerHeard
    <3>6. ColleagueHears'
      BY <2>1, <3>1, <3>2 DEF Withdraw, Synced, AskOrder, ColleagueHears
    <3>7. QED
      BY <3>4, <3>5, <3>6
  <2>4. QED
    BY <2>2, <2>3
<1>4. QED
  BY <1>1, <1>2, <1>3 DEF Owner

(* The worker. *)
LEMMA RunLinks ==
    ASSUME NEW t \in Runs, JobInv, LinkInv, RunStep(t)
    PROVE  LinkInv'
PROOF
<1> USE DEF JobInv, LinkInv, planVars, jobVars, runVars, workVars, askVars, sendVars,
           Disturb, Undisturbed, Open, Active, AskActive, AskEnded,
           RunTypes, WorkTypes, AskTypes, SendTypes, JobTypes
<1>1. CASE Claim(t)
  <2>1. Untouched' /\ Linked' /\ Ends'
    BY <1>1 DEF Untouched, Linked, Ends, Claim, Goto
  <2>2. AskOrder' /\ ColleagueHears' /\ AnswerHeard'
    BY <1>1 DEF AskOrder, ColleagueHears, AnswerHeard, Claim, Goto
  <2>3. QED
    BY <2>1, <2>2 DEF LinkInv
<1>2. CASE Check(t)
  <2>1. Untouched' /\ Linked' /\ Ends'
    BY <1>2 DEF Untouched, Linked, Ends, Check, Goto, EndAs, MayRun
  <2>2. AskOrder' /\ ColleagueHears' /\ AnswerHeard'
    BY <1>2 DEF AskOrder, ColleagueHears, AnswerHeard, Check, Goto, EndAs,
        MayRun
  <2>3. QED
    BY <2>1, <2>2 DEF LinkInv
<1>3. CASE EndStream(t)
  <2>1. Untouched' /\ Linked' /\ Ends'
    BY <1>3 DEF Untouched, Linked, Ends, EndStream, Goto, EndAs
  <2>2. AskOrder' /\ ColleagueHears' /\ AnswerHeard'
    BY <1>3 DEF AskOrder, ColleagueHears, AnswerHeard, EndStream, Goto, EndAs
  <2>3. QED
    BY <2>1, <2>2 DEF LinkInv
<1>4. CASE FinishLook(t)
  <2>1. Untouched' /\ Linked' /\ Ends'
    BY <1>4 DEF Untouched, Linked, Ends, FinishLook, Goto
  <2>2. AskOrder' /\ ColleagueHears' /\ AnswerHeard'
    BY <1>4 DEF AskOrder, ColleagueHears, AnswerHeard, FinishLook, Goto
  <2>3. QED
    BY <2>1, <2>2 DEF LinkInv
<1>5. CASE FinishWrite(t)
  <2>1. /\ pc' = [pc EXCEPT ![t] = "done"] /\ saw' = [saw EXCEPT ![t] = 0]
        /\ pc[t] = "looked" /\ UNCHANGED <<outcome, aborted, continues, present, sendVars>>
    BY <1>5 DEF FinishWrite, Goto
  <2>2. CASE ~Owns(t)
    <3>1. UNCHANGED <<askVars, cancelled, task, verdict>>
      BY <1>5, <2>2 DEF FinishWrite
    <3>2. Untouched' /\ Linked' /\ Ends'
      BY <2>1, <3>1 DEF Untouched, Linked, Ends
    <3>3. AskOrder' /\ ColleagueHears' /\ AnswerHeard'
      BY <2>1, <3>1 DEF AskOrder, ColleagueHears, AnswerHeard
    <3>4. QED
      BY <3>2, <3>3
  <2>3. CASE Owns(t)
    <3> DEFINE st == EndOf(t)
    <3>1. /\ SettleAsk(t, st)
          /\ task' = [task EXCEPT ![t] = TaskEnd(st)]
          /\ verdict' = [verdict EXCEPT ![t] = @ \cup Said(t, st)]
      BY <1>5, <2>3 DEF FinishWrite
    <3>2. st \in {"success", "failed", "skipped", "cancelled"}
      BY <2>1 DEF EndOf, OutcomeKnown
    <3>3. st = "cancelled" => t \in cancelled \cup aborted
      BY DEF EndOf, Ends
    <3>4. st = "skipped" => continues[t] = 0
      BY DEF EndOf, Ends
    <3>5. TaskEnd(st) \in {"succeeded", "failed", "cancelled"}
      BY <3>2 DEF TaskEnd
    <3>6. TaskEnd(st) = "succeeded" => st \in {"success", "skipped"}
      BY <3>2 DEF TaskEnd
    <3>7. st \in {"success", "failed"} => Said(t, st) # {}
      BY DEF Said
    <3> HIDE DEF st
    <3>8. cancelled \subseteq cancelled' /\ UNCHANGED <<resume, replied>>
      BY <3>1 DEF SettleAsk, SendAsk, CloseTo, CancelTask
    <3>9. Untouched' /\ Linked'
      BY <2>1, <2>3, <3>1, <3>5, <3>8 DEF Untouched, Linked, Owns
    <3>10. Ends'
      BY <2>1, <3>1, <3>4, <3>6, <3>7, <3>8 DEF Ends
    <3>11. \A u \in Runs : verdict[u] # {} => verdict'[u] # {}
      BY <3>1
    <3>12. CASE saw[t] = t /\ ask[t] = "pending"
      <4>1. SendAsk(t) \/ CloseTo(t, "cancelled", FALSE, FALSE)
        BY <3>1, <3>12 DEF SettleAsk
      <4>2. t \notin replied
        BY <3>12 DEF AskOrder
      <4>3. AskOrder'
        BY <3>12, <4>1, <4>2 DEF AskOrder, SendAsk, CloseTo
      <4>4. ColleagueHears'
        BY <2>1, <3>12, <4>1 DEF AskOrder, ColleagueHears, SendAsk, CloseTo
      <4>5. AnswerHeard'
        <5>1. /\ heard \subseteq heard'
              /\ \A u \in Runs \ {t} : ask'[u] = ask[u]
          BY <4>1 DEF SendAsk, CloseTo
        <5>2. QED
          <6>1. \A u \in replied :
                   ask[u] \in AskEnded /\ present /\ resume[u] \notin cancelled \cup aborted
                       => u \in heard \/ (resume[u] # 0 /\ verdict'[resume[u]] # {})
            BY <3>11 DEF AnswerHeard
          <6>2. replied' = replied /\ resume' = resume /\ aborted' = aborted /\ present' = present
            BY <2>1, <3>8
          <6>3. QED
            BY <3>8, <4>2, <5>1, <6>1, <6>2 DEF AnswerHeard
      <4>6. QED
        BY <3>9, <3>10, <4>3, <4>4, <4>5
    <3>13. CASE ~(saw[t] = t /\ ask[t] = "pending")
      <4> DEFINE s == saw[t]
      <4>1. /\ UNCHANGED <<resume, question, known, told, heard, replied, cancelled>>
            /\ \/ ask' = ask
               \/ /\ s # 0 /\ s # t /\ ask[s] = "resuming"
                  /\ ask' = [ask EXCEPT ![s] = IF st = "success" THEN "completed" ELSE "failed"]
        BY <3>1, <3>13 DEF SettleAsk
      <4>2. AskOrder'
        BY <4>1 DEF AskOrder
      <4>3. ColleagueHears'
        BY <2>1, <4>1 DEF AskOrder, ColleagueHears
      <4>4. CASE ask' = ask
        BY <2>1, <3>9, <3>10, <3>11, <4>1, <4>2, <4>3, <4>4 DEF AnswerHeard
      <4>5. CASE s # 0 /\ s # t /\ ask[s] = "resuming"
        <5>1. s \in Runs /\ s = continues[t] /\ resume[s] = t
          BY <4>5 DEF Linked
        <5>2. t \in cancelled \cup aborted \/ verdict'[t] # {}
          BY <3>1, <3>2, <3>3, <3>4, <3>7, <4>5, <5>1
        <5>3. AnswerHeard'
          <6>1. \A u \in Runs \ {s} : ask'[u] = ask[u]
            BY <4>1
          <6>2. s \in replied => t \in cancelled \cup aborted \/ (resume[s] # 0 /\ verdict'[resume[s]] # {})
            BY <5>1, <5>2 DEF Runs
          <6>3. \A u \in replied \ {s} :
                   ask[u] \in AskEnded /\ present /\ resume[u] \notin cancelled \cup aborted
                       => u \in heard \/ (resume[u] # 0 /\ verdict'[resume[u]] # {})
            BY <3>11 DEF AnswerHeard
          <6>4. QED
            <7>1. UNCHANGED <<replied, resume, aborted, present, heard, cancelled>>
              BY <2>1, <4>1
            <7>2. QED
              BY <5>1, <6>1, <6>2, <6>3, <7>1 DEF AnswerHeard
        <5>4. QED
          BY <3>9, <3>10, <4>2, <4>3, <5>3
      <4>6. QED
        BY <4>1, <4>4, <4>5
    <3>14. QED
      BY <3>12, <3>13
  <2>4. QED
    BY <2>2, <2>3
<1>6. CASE Remind(t)
  <2>1. /\ pc' = [pc EXCEPT ![t] = "done"] /\ pc[t] = "started"
        /\ UNCHANGED <<outcome, saw, aborted, continues, present, cancelled, askVars, sendVars>>
    BY <1>6 DEF Remind, Goto
  <2>2. \/ UNCHANGED <<task, verdict>>
        \/ /\ task' = [task EXCEPT ![t] = "succeeded"]
           /\ verdict' = [verdict EXCEPT ![t] = @ \cup {"result"}]
        \/ task' = [task EXCEPT ![t] = "cancelled"] /\ verdict' = verdict
    BY <1>6 DEF Remind
  <2>3. Untouched' /\ Linked' /\ Ends'
    <3>1. Untouched' /\ Linked'
      BY <2>1, <2>2 DEF Untouched, Linked
    <3>2. Ends'
      <4>1. \A u \in Runs : task'[u] = "succeeded" => task[u] = "succeeded" \/ "result" \in verdict'[u]
        BY <2>2
      <4>2. \A u \in Runs : verdict[u] \subseteq verdict'[u]
        BY <2>2
      <4>3. QED
        BY <2>1, <4>1, <4>2 DEF Ends
    <3>3. QED
      BY <3>1, <3>2
  <2>4. AskOrder' /\ ColleagueHears' /\ AnswerHeard'
    BY <2>1, <2>2 DEF AskOrder, ColleagueHears, AnswerHeard
  <2>5. QED
    BY <2>3, <2>4
<1>7. CASE RequestHelp(t)
  <2>1. Untouched' /\ Linked' /\ Ends'
    BY <1>7 DEF Untouched, Linked, Ends, RequestHelp
  <2>2. AskOrder' /\ ColleagueHears' /\ AnswerHeard'
    BY <1>7 DEF AskOrder, ColleagueHears, AnswerHeard, RequestHelp
  <2>3. QED
    BY <2>1, <2>2 DEF LinkInv
<1>8. CASE Abort(t)
  <2>1. Untouched' /\ Linked' /\ Ends'
    BY <1>8 DEF Untouched, Linked, Ends, Abort, Goto
  <2>2. AskOrder' /\ ColleagueHears' /\ AnswerHeard'
    BY <1>8 DEF AskOrder, ColleagueHears, AnswerHeard, Abort, Goto
  <2>3. QED
    BY <2>1, <2>2 DEF LinkInv
<1>9. CASE Crash(t)
  <2>1. Untouched' /\ Linked' /\ Ends'
    BY <1>9 DEF Untouched, Linked, Ends, Crash, Goto
  <2>2. AskOrder' /\ ColleagueHears' /\ AnswerHeard'
    BY <1>9 DEF AskOrder, ColleagueHears, AnswerHeard, Crash, Goto
  <2>3. QED
    BY <2>1, <2>2 DEF LinkInv
<1>10. CASE Reap(t)
  <2>1. Untouched' /\ Linked' /\ Ends'
    BY <1>10 DEF Untouched, Linked, Ends, Reap
  <2>2. AskOrder' /\ ColleagueHears' /\ AnswerHeard'
    BY <1>10 DEF AskOrder, ColleagueHears, AnswerHeard, Reap
  <2>3. QED
    BY <2>1, <2>2 DEF LinkInv
<1>11. QED
  BY <1>1, <1>2, <1>3, <1>4, <1>5, <1>6, <1>7, <1>8, <1>9, <1>10 DEF RunStep, Work

(* The question on its way, and the answer. *)
LEMMA QuestionLinks ==
    ASSUME NEW s \in Runs, JobInv, LinkInv, Deliver(s) \/ GatewayCrash(s) \/ RecordDelivery(s) \/ Reply(s)
    PROVE  LinkInv'
PROOF
<1> USE DEF JobInv, LinkInv, planVars, jobVars, runVars, workVars, askVars, sendVars,
           Disturb, Undisturbed, Open, Active, AskActive, AskEnded,
           RunTypes, WorkTypes, AskTypes, SendTypes, JobTypes
<1>1. CASE TakeQuestion(s)
  <2>1. Untouched' /\ Linked' /\ Ends'
    BY <1>1 DEF Untouched, Linked, Ends, TakeQuestion
  <2>2. AskOrder' /\ ColleagueHears' /\ AnswerHeard'
    BY <1>1 DEF AskOrder, ColleagueHears, AnswerHeard, TakeQuestion
  <2>3. QED
    BY <2>1, <2>2 DEF LinkInv
<1>2. CASE Sent(s)
  <2>1. Untouched' /\ Linked' /\ Ends'
    BY <1>2 DEF Untouched, Linked, Ends, Sent
  <2>2. AskOrder' /\ ColleagueHears' /\ AnswerHeard'
    BY <1>2 DEF AskOrder, ColleagueHears, AnswerHeard, Sent
  <2>3. QED
    BY <2>1, <2>2 DEF LinkInv
<1>3. CASE Refused(s)
  <2>1. Untouched' /\ Linked' /\ Ends'
    BY <1>3 DEF Untouched, Linked, Ends, Refused
  <2>2. AskOrder' /\ ColleagueHears' /\ AnswerHeard'
    BY <1>3 DEF AskOrder, ColleagueHears, AnswerHeard, Refused
  <2>3. QED
    BY <2>1, <2>2 DEF LinkInv
<1>4. CASE GatewayCrash(s)
  <2>1. Untouched' /\ Linked' /\ Ends'
    BY <1>4 DEF Untouched, Linked, Ends, GatewayCrash
  <2>2. AskOrder' /\ ColleagueHears' /\ AnswerHeard'
    BY <1>4 DEF AskOrder, ColleagueHears, AnswerHeard, GatewayCrash
  <2>3. QED
    BY <2>1, <2>2 DEF LinkInv
<1>5. CASE RecordDelivery(s)
  <2>1. Untouched' /\ Linked' /\ Ends'
    BY <1>5 DEF Untouched, Linked, Ends, RecordDelivery
  <2>2. AskOrder' /\ ColleagueHears' /\ AnswerHeard'
    BY <1>5 DEF AskOrder, ColleagueHears, AnswerHeard, RecordDelivery
  <2>3. QED
    BY <2>1, <2>2 DEF LinkInv
<1>6. CASE Reply(s)
  <2>1. /\ StartResume(s) /\ ask[s] = "waiting" /\ replied' = replied \cup {s}
        /\ UNCHANGED <<present, workVars, sendVars>>
    BY <1>6 DEF Reply
  <2>2. QED
    BY <2>1, ResumeLinks
<1>7. QED
  BY <1>1, <1>2, <1>3, <1>4, <1>5, <1>6 DEF Deliver

(* The ledger of questions. *)
LEMMA TickLinks ==
    ASSUME NEW s \in Runs, JobInv, LinkInv, HumanTick(s)
    PROVE  LinkInv'
PROOF
<1> USE DEF JobInv, LinkInv, planVars, jobVars, runVars, workVars, askVars, sendVars,
           Disturb, Undisturbed, Open, Active, AskActive, AskEnded,
           RunTypes, WorkTypes, AskTypes, SendTypes, JobTypes
<1>1. CASE TickRevoked(s)
  <2>1. /\ CloseTo(s, "cancelled", TRUE, TRUE) /\ ask[s] \in AskActive
        /\ UNCHANGED <<present, runVars, workVars, sendVars>>
    BY <1>1 DEF TickRevoked, TickCase, TickRest
  <2>2. QED
    BY <2>1, CloseLinks
<1>2. CASE TickDeleted(s)
  <2>1. /\ CloseTo(s, "cancelled", TRUE, FALSE) /\ ask[s] \in AskActive
        /\ UNCHANGED <<present, runVars, workVars, sendVars>>
    BY <1>2 DEF TickDeleted, TickCase, TickRest
  <2>2. ~present
    BY <1>2 DEF TickDeleted
  <2>3. QED
    BY <2>1, <2>2, CloseLinks
<1>3. CASE TickPending(s)
  <2>1. UNCHANGED <<present, runVars, workVars, sendVars>> /\ ask[s] = "pending"
    BY <1>3 DEF TickPending, TickRest
  <2>2. s \notin replied
    BY <2>1 DEF AskOrder
  <2>3. CASE CloseTo(s, "cancelled", FALSE, FALSE)
    BY <2>1, <2>2, <2>3, CloseLinks
  <2>4. CASE SendAsk(s)
    <3>1. Untouched' /\ Linked' /\ Ends'
      BY <2>1, <2>4 DEF SendAsk, Untouched, Linked, Ends
    <3>2. AskOrder' /\ ColleagueHears' /\ AnswerHeard'
      BY <2>1, <2>2, <2>4 DEF SendAsk, AskOrder, ColleagueHears, AnswerHeard
    <3>3. QED
      BY <3>1, <3>2
  <2>5. QED
    BY <1>3, <2>3, <2>4 DEF TickPending
<1>4. CASE TickTimedOut(s)
  <2>1. /\ CloseTo(s, "timed_out", TRUE, TRUE) /\ ask[s] \in AskActive
        /\ UNCHANGED <<present, runVars, workVars, sendVars>>
    BY <1>4 DEF TickTimedOut, TickCase, TickRest
  <2>2. QED
    BY <2>1, CloseLinks
<1>5. CASE TickAnswered(s)
  <2>1. /\ StartResume(s) /\ ask[s] = "answered" /\ replied' = replied
        /\ UNCHANGED <<present, workVars, sendVars>>
    BY <1>5 DEF TickAnswered, TickRest
  <2>2. QED
    BY <2>1, ResumeLinks
<1>6. CASE TickResuming(s)
  <2>1. /\ ask[s] = "resuming" /\ s \in replied /\ resume[s] \in Runs /\ continues[resume[s]] = s
        /\ UNCHANGED <<present, runVars, workVars, sendVars, resume, question, told, replied, cancelled>>
    BY <1>6 DEF TickResuming, TickRest, AskOrder, Linked
  <2>2. \/ ask' = [ask EXCEPT ![s] = "failed"] /\ heard' = heard \cup {s}
        \/ /\ ask' = [ask EXCEPT ![s] = "completed"] /\ heard' = heard
           /\ task[resume[s]] = "succeeded"
    BY <1>6 DEF TickResuming, ResumeFailed
  <2>3. s # 0 /\ resume[s] # 0
    BY <2>1 DEF Runs
  <2>4. Untouched' /\ Linked' /\ Ends'
    BY <2>1 DEF Untouched, Linked, Ends
  <2>5. AskOrder' /\ ColleagueHears'
    BY <2>1, <2>2 DEF AskOrder, ColleagueHears
  <2>6. AnswerHeard'
    BY <2>1, <2>2, <2>3 DEF Ends, AnswerHeard
  <2>7. QED
    BY <2>4, <2>5, <2>6
<1>7. CASE TickUndelivered(s)
  <2>1. /\ CloseTo(s, "failed", TRUE, TRUE) /\ ask[s] \in AskActive
        /\ UNCHANGED <<present, runVars, workVars, sendVars>>
    BY <1>7 DEF TickUndelivered, TickCase, TickRest
  <2>2. QED
    BY <2>1, CloseLinks
<1>8. CASE TickSync(s)
  <2>1. Untouched' /\ Linked' /\ Ends'
    BY <1>8 DEF Untouched, Linked, Ends, TickSync, TickCase, TickRest
  <2>2. AskOrder' /\ ColleagueHears' /\ AnswerHeard'
    BY <1>8 DEF AskOrder, ColleagueHears, AnswerHeard, TickSync, TickCase,
        TickRest
  <2>3. QED
    BY <2>1, <2>2 DEF LinkInv
<1>9. QED
  BY <1>1, <1>2, <1>3, <1>4, <1>5, <1>6, <1>7, <1>8 DEF HumanTick

LEMMA StepLinks == JobInv /\ LinkInv /\ [Next]_vars => LinkInv'
PROOF
<1>1. ASSUME LinkInv, UNCHANGED vars PROVE LinkInv'
  BY <1>1, LinksStay DEF vars, linkVars, jobVars, runVars
<1>2. ASSUME JobInv, LinkInv, Next PROVE LinkInv'
  BY <1>2, ClockLinks, OwnerLinks, RunLinks, QuestionLinks, TickLinks DEF Next, AskStep
<1>3. QED
  BY <1>1, <1>2

LEMMA LinkInvariant == Spec => []LinkInv
PROOF
BY InitLinks, StepLinks, JobInvariant, PTL DEF Spec

(* A colleague who was asked hears that the question is over, in whatever  *)
(* order it is closed, sent and recorded; a gateway that dies between      *)
(* sending and recording is the exception.                                 *)
THEOREM ColleaguesHear == Spec => []ColleagueHears
PROOF
<1>1. LinkInv => ColleagueHears
  BY DEF LinkInv
<1>2. QED
  BY <1>1, LinkInvariant, PTL

(* Whoever waits for an answered question hears how it ended, whatever     *)
(* becomes of the execution that continues it.                             *)
THEOREM AnswersAreHeard == Spec => []AnswerHeard
PROOF
<1>1. LinkInv => AnswerHeard
  BY DEF LinkInv
<1>2. QED
  BY <1>1, LinkInvariant, PTL

------------------------------------------------------------------------------
(* The executions that no answer started. *)
Starts == {t \in Runs : task[t] # "absent" /\ continues[t] = 0}

(* While the time is not used up there is one start less than times given. *)
StartsCounted == Once => Cardinality(Starts) + (IF consumed THEN 0 ELSE 1) <= arms

LEMMA StartsFinite == IsFiniteSet(Starts) /\ Cardinality(Starts) \in Nat
PROOF
<1>1. IsFiniteSet(Runs)
  BY JobAssumption, FS_Interval DEF Runs
<1>2. IsFiniteSet(Starts)
  BY <1>1, FS_Subset DEF Starts
<1>3. QED
  BY <1>2, FS_CardinalityType

(* No start, and the time that was used stays used up unless another one   *)
(* is given.                                                               *)
NoStart ==
    /\ Starts' = Starts
    /\ \/ arms' = arms /\ (Once /\ consumed => consumed')
       \/ arms' = arms + 1

(* A start uses the time up. *)
OneStart ==
    /\ \E t \in Runs : Starts' = Starts \cup {t}
    /\ arms' = arms
    /\ Once => ~consumed /\ consumed'

(* An answer starts no execution anew. *)
LEMMA ContinuationsDoNotStart ==
    ASSUME JobInv, LinkInv, NEW s \in Runs, StartResume(s)
    PROVE  Starts' = Starts
PROOF
<1>1. CASE UNCHANGED runVars
  BY <1>1 DEF runVars, Starts
<1>2. CASE Enqueue(s)
  <2>1. Fresh \in Runs /\ task[Fresh] = "absent"
    BY <1>2 DEF Enqueue, RoomLeft, Fresh
  <2>2. /\ task' = [task EXCEPT ![Fresh] = "queued"] /\ continues' = [continues EXCEPT ![Fresh] = s]
    BY <1>2 DEF Enqueue
  <2>3. s # 0
    BY DEF Runs
  <2>4. QED
    BY <2>1, <2>2, <2>3 DEF Starts, JobInv, RunTypes
<1>3. QED
  BY <1>1, <1>2 DEF StartResume

LEMMA StartMoves ==
    ASSUME JobInv, LinkInv, Next
    PROVE  plan' = plan /\ (NoStart \/ OneStart)
PROOF
<1> USE DEF planVars, jobVars, runVars, Undisturbed, Disturb
<1>1. CASE ComesDue \/ Misses \/ TickBusy \/ TickInvalid \/ TickMisfire \/ Recover
  <2>1. UNCHANGED <<plan, task, continues, arms>>
    BY <1>1 DEF ComesDue, Misses, TickInvalid, TickBusy, TickMisfire, Recover, Advance
  <2>2. Once /\ consumed => consumed'
    BY <1>1 DEF ComesDue, Misses, TickInvalid, TickBusy, TickMisfire, Recover, Advance
  <2>3. QED
    BY <2>1, <2>2 DEF NoStart, Starts
<1>2. CASE TickStart
  <2>1. Enqueue(0) /\ Advance /\ Selected /\ arms' = arms /\ plan' = plan
    BY <1>2 DEF TickStart
  <2>2. Fresh \in Runs
    BY <2>1 DEF Enqueue, RoomLeft, Fresh
  <2>3. task' = [task EXCEPT ![Fresh] = "queued"] /\ continues' = [continues EXCEPT ![Fresh] = 0]
    BY <2>1 DEF Enqueue
  <2>4. Starts' = Starts \cup {Fresh}
    BY <2>2, <2>3 DEF Starts, JobInv, RunTypes
  <2>5. Once => ~consumed /\ consumed'
    BY <2>1 DEF Advance, Selected
  <2>6. QED
    BY <2>1, <2>2, <2>4, <2>5 DEF OneStart
<1>3. CASE Owner
  <2>1. UNCHANGED <<plan, task, continues>>
    BY <1>3 DEF Owner, ForceRun, Disable, Enable, Rearm, CancelRun, Delete, SwitchOff, Elsewhere
  <2>2. (arms' = arms /\ (Once /\ consumed => consumed')) \/ arms' = arms + 1
    BY <1>3 DEF Owner, ForceRun, Disable, Enable, Rearm, CancelRun, Delete, SwitchOff
  <2>3. QED
    BY <2>1, <2>2 DEF NoStart, Starts
<1>4. CASE \E t \in Runs : RunStep(t)
  <2>1. PICK t \in Runs : RunStep(t)
    BY <1>4
  <2>2. UNCHANGED <<plan, arms, consumed, continues>>
    BY <2>1 DEF RunStep, Work, Claim, Check, EndStream, FinishLook, FinishWrite, Remind,
                RequestHelp, Abort, Crash, Reap
  <2>3. \/ task' = task
        \/ \E e \in {"claimed", "succeeded", "failed", "cancelled"} :
              task[t] # "absent" /\ task' = [task EXCEPT ![t] = e]
    <3>1. CASE FinishWrite(t)
      <4>1. CASE Owns(t)
        <5>1. task' = [task EXCEPT ![t] = TaskEnd(EndOf(t))] /\ pc[t] = "looked"
          BY <3>1, <4>1 DEF FinishWrite
        <5>2. EndOf(t) \in {"success", "failed", "skipped", "cancelled"}
          BY <5>1 DEF EndOf, JobInv, OutcomeKnown, WorkTypes
        <5>3. TaskEnd(EndOf(t)) \in {"succeeded", "failed", "cancelled"}
          BY <5>2 DEF TaskEnd
        <5>4. QED
          BY <4>1, <5>1, <5>3 DEF Owns, Active
      <4>2. QED
        BY <3>1, <4>1 DEF FinishWrite
    <3>2. CASE ~FinishWrite(t)
      BY <2>1, <3>2 DEF RunStep, Work, Claim, Check, EndStream, FinishLook, Remind, Owns, Active,
                RequestHelp, Abort, Crash, Reap
    <3>3. QED
      BY <3>1, <3>2
  <2>4. Starts' = Starts
    BY <2>2, <2>3 DEF Starts, JobInv, RunTypes
  <2>5. QED
    BY <2>2, <2>4 DEF NoStart
<1>5. CASE \E s \in Runs : AskStep(s)
  <2>1. PICK s \in Runs : AskStep(s)
    BY <1>5
  <2>2. UNCHANGED <<plan, arms, consumed>>
    BY <2>1 DEF AskStep, Deliver, TakeQuestion, Sent, Refused, GatewayCrash, RecordDelivery, Reply,
                HumanTick, TickRest, TickRevoked, TickDeleted, TickPending, TickTimedOut, TickAnswered,
                TickResuming, TickUndelivered, TickSync
  <2>3. StartResume(s) \/ UNCHANGED runVars
    BY <2>1 DEF AskStep, Deliver, TakeQuestion, Sent, Refused, GatewayCrash, RecordDelivery, Reply,
                HumanTick, TickRevoked, TickDeleted, TickPending, TickTimedOut, TickAnswered,
                TickResuming, TickUndelivered, TickSync
  <2>4. Starts' = Starts
    BY <2>3, ContinuationsDoNotStart DEF Starts
  <2>5. QED
    BY <2>2, <2>4 DEF NoStart
<1>6. QED
  BY <1>1, <1>2, <1>3, <1>4, <1>5 DEF Next, CronTick

LEMMA StepStarts == JobInv /\ LinkInv /\ StartsCounted /\ [Next]_vars => StartsCounted'
PROOF
<1>1. ASSUME StartsCounted, UNCHANGED vars PROVE StartsCounted'
  BY <1>1 DEF StartsCounted, Starts, Once, vars, planVars, jobVars, runVars
<1>2. ASSUME JobInv, LinkInv, StartsCounted, Next PROVE StartsCounted'
  <2>1. plan' = plan /\ (NoStart \/ OneStart)
    BY <1>2, StartMoves
  <2>2. Once' = Once
    BY <2>1 DEF Once
  <2>3. arms \in Nat /\ consumed \in BOOLEAN
    BY <1>2 DEF JobInv, JobTypes
  <2>4. CASE NoStart
    BY <1>2, <2>2, <2>3, <2>4, StartsFinite DEF NoStart, StartsCounted
  <2>5. CASE OneStart
    <3>1. PICK t \in Runs : Starts' = Starts \cup {t}
      BY <2>5 DEF OneStart
    <3>2. Cardinality(Starts \cup {t}) \in {Cardinality(Starts), Cardinality(Starts) + 1}
      BY StartsFinite, FS_AddElement
    <3>3. Cardinality(Starts') \in {Cardinality(Starts), Cardinality(Starts) + 1}
      BY <3>1, <3>2
    <3>4. CASE Once
      <4>1. ~consumed /\ consumed' /\ arms' = arms
        BY <2>5, <3>4 DEF OneStart
      <4>2. Cardinality(Starts) + 1 <= arms
        BY <1>2, <3>4, <4>1 DEF StartsCounted
      <4>3. QED
        BY <2>3, <3>3, <4>1, <4>2, StartsFinite DEF StartsCounted
    <3>5. CASE ~Once
      BY <2>2, <3>5 DEF StartsCounted
    <3>6. QED
      BY <3>4, <3>5
  <2>6. QED
    BY <2>1, <2>4, <2>5
<1>3. QED
  BY <1>1, <1>2

LEMMA InitStarts == Init => StartsCounted
PROOF
<1> SUFFICES ASSUME Init PROVE StartsCounted
  OBVIOUS
<1>1. Starts = {}
  BY DEF Init, Starts
<1>2. QED
  BY <1>1, FS_EmptySet DEF Init, StartsCounted

(* A job that runs once starts at most once for each time it was given,    *)
(* whoever forces, cancels, disables or rearms it.                         *)
THEOREM StartsOncePerTime == Spec => []OnceRunsOnce
PROOF
<1>1. JobInv /\ StartsCounted => OnceRunsOnce
  <2> SUFFICES ASSUME JobInv, StartsCounted, Once PROVE Cardinality(Starts) <= arms
    BY DEF OnceRunsOnce, Starts
  <2>1. QED
    BY StartsFinite DEF StartsCounted, JobInv, JobTypes
<1>2. QED
  BY <1>1, InitStarts, StepStarts, JobInvariant, LinkInvariant, PTL DEF Spec
==============================================================================
