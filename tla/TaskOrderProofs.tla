--------------------------- MODULE TaskOrderProofs ---------------------------
(***************************************************************************)
(* Proofs about the order of the turns of one session: a queued message    *)
(* waits for the earlier ones, and two turns exclude each other.  The      *)
(* second is proved for sessions without submitted choice cards, because   *)
(* it is false with them.                                                  *)
(*                                                                         *)
(* A turn waits for older active rows only.  So one has to know of every   *)
(* older row that is not active, but may be later, that it will not get as *)
(* far as a turn; why it will not depends on where the younger row comes   *)
(* from, and is one part of the invariant each.                            *)
(***************************************************************************)
EXTENDS TaskQueueProofs

(* No card is submitted in the session. *)
NoChoice == \A t \in Task : Origin[t] # "choice"

(* The row has ended, or will when its run looks at it next. *)
Over(t) == status[t] \in Terminal \/ cancel[t] # "none"

(* Rows appear in the order of their ids, unclaimed; API tasks are         *)
(* serialised and remarks are not; a run has been claimed.                 *)
RowsInOrder ==
    /\ \A t, u \in Task : t < u /\ status[u] # "absent" => status[t] # "absent"
    /\ \A t \in Task :
         /\ status[t] = "absent" => attempts[t] = 0
         /\ status[t] # "absent" /\ Origin[t] = "api" => serial[t]
         /\ Origin[t] = "observe" => ~serial[t]
         /\ stage[t] # "idle" => attempts[t] > 0

(* A message that queues behind nobody has only remarks to fear. *)
MessageAhead ==
    \A t, u \in Task :
        t < u /\ status[u] # "absent" /\ Origin[u] = "human" /\ ~serial[u]
            => Over(t) \/ Origin[t] = "observe"

(* A serialised row is not claimed before the older ones are over. *)
SerialLast ==
    \A t, u \in Task :
        t < u /\ serial[u] /\ (attempts[u] > 0 \/ Locked(u)) => Over(t)

(* A remark that has looked around has found no older row open. *)
RemarkLast ==
    \A t, u \in Task :
        t < u /\ Origin[u] = "observe" /\ stage[u] \in {"supersede", "waiting", "turn"}
            => status[t] \in Terminal

(* The stages on the way to a turn that a row older than one may be in. *)
BeforeTurn(t) ==
    \/ stage[t] \in {"idle", "claimed", "prepare", "failing", "failWrite"}
    \/ stage[t] \in {"checked", "yielding"} /\ Origin[t] = "observe"

TurnLast ==
    \A t, u \in Task :
        t < u /\ OwnedTurn(u) /\ status[t] \in Active => BeforeTurn(t)

OrderInv == RowsInOrder /\ MessageAhead /\ SerialLast /\ RemarkLast /\ TurnLast

------------------------------------------------------------------------------
(* What any step may do to one row *)

(* Ends last, rows do not disappear, claims are counted. *)
LEMMA RowKept ==
    ASSUME OwnInv, UnguardedOwned, [Next]_vars, NEW t \in Task
    PROVE  /\ status[t] \in Terminal => status'[t] = status[t]
           /\ status[t] # "absent" => status'[t] # "absent"
           /\ attempts[t] > 0 => attempts'[t] > 0
           /\ status'[t] \in Active => status[t] \in Active \cup {"queued"}
           /\ status[t] = "absent" => attempts'[t] = attempts[t]
PROOF
<1>1. attempts[t] \in Nat
  BY TaskAssumption DEF OwnInv, TypeOK
<1>2. CASE UNCHANGED <<status, attempts>>
  BY <1>2
<1>3. ASSUME NEW u \in Task, RowStep(u)
      PROVE  /\ status[t] \in Terminal => status'[t] = status[t]
             /\ status[t] # "absent" => status'[t] # "absent"
             /\ attempts[t] > 0 => attempts'[t] > 0
             /\ status'[t] \in Active => status[t] \in Active \cup {"queued"}
             /\ status[t] = "absent" => attempts'[t] = attempts[t]
  BY <1>1, <1>3 DEF RowStep, Active, Terminal
<1>4. QED
  BY <1>2, <1>3, NextRow

(* Nobody takes a cancellation back. *)
LEMMA CancelKept ==
    ASSUME OwnInv, [Next]_vars, NEW t \in Task, cancel[t] # "none"
    PROVE  cancel'[t] # "none"
PROOF
<1>1. ASSUME NEW S, NEW why, CancelAll(S, why) PROVE cancel'[t] = cancel[t]
  BY <1>1 DEF CancelAll
<1>2. ASSUME NEW u \in Task, HandlerStep(u) PROVE cancel'[t] = cancel[t]
  BY <1>1, <1>2
     DEF HandlerStep, Start, Prepare, CheckOutdated, ObserveYields, Supersede,
         WaitSuperseded, Defer, DeferUncapped, GiveUp, Withdraw, Finalize, FailRead,
         FailWrite, rowVars
<1>3. ASSUME NEW u \in Task, TaskStep(u), ~HandlerStep(u) PROVE cancel'[t] = cancel[t]
  BY <1>1, <1>3
     DEF TaskStep, Enqueue, FallDue, Raise, FailUnrecorded, Heartbeat, Reap, BusyStop,
         rowVars
<1>4. ASSUME NEW w \in Worker, WorkerStep(w) PROVE cancel'[t] = cancel[t]
  BY <1>4 DEF WorkerStep, ClaimBegin, ClaimCommit, Drain, Exit, Crash, Restart, rowVars
<1>5. CASE UserStop \/ UNCHANGED vars
  BY <1>1, <1>5 DEF UserStop, vars, rowVars
<1>6. QED
  BY <1>2, <1>3, <1>4, <1>5 DEF Next

(* What is over stays over. *)
LEMMA OverKept ==
    ASSUME OwnInv, UnguardedOwned, [Next]_vars, NEW t \in Task, Over(t)
    PROVE  Over(t)'
  BY RowKept, CancelKept DEF Over

(* Only an enqueue makes a row appear or decides whether it is serialised. *)
LEMMA Arrival ==
    ASSUME OwnInv, [Next]_vars, NEW t \in Task,
           (status[t] = "absent" /\ status'[t] # "absent") \/ serial'[t] # serial[t]
    PROVE  Enqueue(t)
PROOF
<1>1. ASSUME NEW u \in Task, HandlerStep(u) PROVE FALSE
  <2>1. status[u] # "absent" /\ \A x \in Task \ {u} : status'[x] = status[x]
    BY <1>1, HandlerEffect DEF OwnInv, RunsHaveRows, RunEffect, Active, Terminal
  <2>2. serial' = serial
    BY <1>1 DEF HandlerStep, Start, Prepare, CheckOutdated, ObserveYields, Supersede,
         WaitSuperseded, Defer, DeferUncapped, GiveUp, Withdraw, Finalize, FailRead,
         FailWrite, rowVars
  <2>3. QED
    BY <2>1, <2>2
<1>2. ASSUME NEW u \in Task, TaskStep(u), ~HandlerStep(u), ~Enqueue(u) PROVE FALSE
  <2>1. serial' = serial
    BY <1>2 DEF TaskStep, FallDue, Raise, FailUnrecorded, Heartbeat, Reap, BusyStop, rowVars
  <2>2. status' = status \/ Reap(u)
    BY <1>2 DEF TaskStep, FallDue, Raise, FailUnrecorded, Heartbeat, BusyStop, rowVars
  <2>3. QED
    BY <2>1, <2>2 DEF Reap, Reapable, FinishAny, Active, OwnInv, TypeOK
<1>3. ASSUME NEW u \in Task, Enqueue(u) PROVE u = t
  BY <1>3 DEF Enqueue, OwnInv, TypeOK
<1>4. ASSUME NEW w \in Worker, WorkerStep(w) PROVE FALSE
  <2>1. CASE ClaimCommit(w)
    BY <2>1 DEF ClaimCommit, OwnInv, TypeOK, ClaimsExclusive
  <2>2. CASE ~ClaimCommit(w)
    BY <1>4, <2>2 DEF WorkerStep, ClaimBegin, Drain, Exit, Crash, Restart, rowVars
  <2>3. QED
    BY <2>1, <2>2
<1>5. CASE UserStop \/ UNCHANGED vars
  BY <1>5 DEF UserStop, vars, rowVars
<1>6. QED
  BY <1>1, <1>2, <1>3, <1>4, <1>5 DEF Next

(* How the run of t may have come to where it stands. *)
LEMMA Moves ==
    ASSUME OwnInv, [Next]_vars, NEW t \in Task
    PROVE  \/ stage'[t] \in {stage[t], "idle"}
           \/ stage[t] # "idle" /\ stage'[t] = "failing"
           \/ HandlerStep(t)
           \/ stage'[t] = "claimed" /\ attempts'[t] = attempts[t] + 1 /\ Locked(t)
PROOF
<1>1. ASSUME NEW u \in Task, HandlerStep(u), u # t PROVE stage'[t] = stage[t]
  BY <1>1, HandlerEffect DEF OwnInv, RunEffect
<1>2. ASSUME NEW u \in Task, TaskStep(u), ~HandlerStep(u)
      PROVE  \/ stage'[t] \in {stage[t], "idle"}
             \/ stage[t] # "idle" /\ stage'[t] = "failing"
  BY <1>2 DEF TaskStep, Enqueue, FallDue, Raise, FailUnrecorded, Heartbeat, Reap,
              BusyStop, Goto, Leave, runVars, OwnInv, TypeOK
<1>3. ASSUME NEW w \in Worker, ClaimCommit(w)
      PROVE  \/ stage'[t] = stage[t]
             \/ stage'[t] = "claimed" /\ attempts'[t] = attempts[t] + 1 /\ Locked(t)
  <2>1. CASE claiming[w] = t
    BY <1>3, <2>1 DEF ClaimCommit, Locked, OwnInv, TypeOK
  <2>2. CASE claiming[w] # t
    BY <1>3, <2>2 DEF ClaimCommit, OwnInv, TypeOK
  <2>3. QED
    BY <2>1, <2>2
<1>4. ASSUME NEW w \in Worker, WorkerStep(w), ~ClaimCommit(w)
      PROVE  stage'[t] \in {stage[t], "idle"}
  BY <1>4 DEF WorkerStep, ClaimBegin, Drain, Exit, Crash, Restart, AbortRuns, runVars
<1>5. CASE UserStop \/ UNCHANGED vars
  BY <1>5 DEF UserStop, vars, runVars
<1>6. QED
  BY <1>1, <1>2, <1>3, <1>4, <1>5 DEF Next

(* A row is counted as claimed when its claim commits, and locked when a   *)
(* claim found it claimable.                                               *)
LEMMA Counted ==
    ASSUME OwnInv, [Next]_vars, NEW t \in Task
    PROVE  /\ attempts'[t] # attempts[t] => Locked(t)
           /\ Locked(t)' => Locked(t) \/ (Claimable(t) /\ UNCHANGED rowVars)
PROOF
<1>1. ASSUME NEW u \in Task, TaskStep(u) PROVE UNCHANGED <<attempts, claiming>>
  <2>1. CASE HandlerStep(u)
    BY <2>1, HandlerEffect DEF OwnInv, RunEffect
  <2>2. CASE ~HandlerStep(u)
    BY <1>1, <2>2
       DEF TaskStep, Enqueue, FallDue, Raise, FailUnrecorded, Heartbeat, Reap, BusyStop,
           rowVars, procVars
  <2>3. QED
    BY <2>1, <2>2
<1>2. ASSUME NEW w \in Worker, ClaimBegin(w)
      PROVE  attempts' = attempts /\ (Locked(t)' => Locked(t) \/ (Claimable(t) /\ UNCHANGED rowVars))
  <2>1. PICK u \in Task : Claimable(u) /\ claiming' = [claiming EXCEPT ![w] = u]
    BY <1>2 DEF ClaimBegin
  <2>2. QED
    BY <1>2, <2>1 DEF ClaimBegin, Locked, OwnInv, TypeOK, rowVars
<1>3. ASSUME NEW w \in Worker, ClaimCommit(w)
      PROVE  (attempts'[t] # attempts[t] => Locked(t)) /\ (Locked(t)' => Locked(t))
  BY <1>3, TaskAssumption DEF ClaimCommit, Locked, OwnInv, TypeOK
<1>4. ASSUME NEW w \in Worker, Drain(w) \/ Exit(w) \/ Crash(w) \/ Restart(w)
      PROVE  attempts' = attempts /\ (Locked(t)' => Locked(t))
  BY <1>4, TaskAssumption DEF Drain, Exit, Crash, Restart, Locked, OwnInv, TypeOK, rowVars
<1>5. CASE UserStop \/ UNCHANGED vars
  BY <1>5 DEF UserStop, vars, rowVars, procVars, Locked
<1>6. QED
  BY <1>1, <1>2, <1>3, <1>4, <1>5 DEF Next, WorkerStep, Locked

(* The stages a run enters on its way, and what it saw when it entered.    *)
LEMMA RunMoves ==
    ASSUME OwnInv, NEW t \in Task, HandlerStep(t)
    PROVE  \/ stage'[t] \in {"idle", "prepare", "failWrite"}
           \/ stage[t] = "prepare" /\ stage'[t] = "checked" /\ cancel[t] = "none"
           \/ stage[t] = "checked" /\ stage'[t] = "yielding" /\ Origin[t] = "observe"
           \/ stage[t] = "checked" /\ stage'[t] = "supersede" /\ Origin[t] # "observe"
           \/ /\ stage[t] = "yielding" /\ stage'[t] = "supersede"
              /\ ~\E o \in OpenTasks \ {t} : Kind(o) = "chat"
           \/ stage[t] = "supersede" /\ stage'[t] = "waiting"
           \/ /\ stage[t] = "waiting" /\ stage'[t] = "turn"
              /\ OlderGone(t) /\ UNCHANGED status
           \/ stage[t] \in {"waiting", "busy"} /\ stage'[t] \in {"busy", "withdraw"}
PROOF
<1>1. \A g \in Stages : Goto(t, g) => stage'[t] = g
  BY DEF Goto, OwnInv, TypeOK
<1>2. Leave(t) => stage'[t] = "idle"
  BY DEF Leave, OwnInv, TypeOK
<1>3. CASE Start(t) \/ Prepare(t)
  BY <1>1, <1>2, <1>3 DEF Start, Prepare, Stages
<1>4. CASE CheckOutdated(t)
  BY <1>1, <1>2, <1>4 DEF CheckOutdated, Stages
<1>5. CASE ObserveYields(t)
  BY <1>1, <1>2, <1>5 DEF ObserveYields, Stages
<1>6. CASE Supersede(t) \/ WaitSuperseded(t)
  BY <1>1, <1>6 DEF Supersede, WaitSuperseded, rowVars, Stages
<1>7. CASE Defer(t) \/ GiveUp(t) \/ Withdraw(t) \/ Finalize(t)
  BY <1>1, <1>2, <1>7 DEF Defer, DeferUncapped, GiveUp, Withdraw, Finalize, Stages
<1>8. CASE FailRead(t) \/ FailWrite(t)
  BY <1>1, <1>2, <1>8 DEF FailRead, FailWrite, Stages
<1>9. QED
  BY <1>3, <1>4, <1>5, <1>6, <1>7, <1>8 DEF HandlerStep

------------------------------------------------------------------------------
(* The parts of the invariant, one by one *)

LEMMA InitOrder == Init => OrderInv
  BY TaskAssumption
     DEF Init, OrderInv, RowsInOrder, MessageAhead, SerialLast, RemarkLast, TurnLast,
         OwnedTurn, Over, Terminal, Active

(* Ids are drawn from a sequence, and claims count. *)
LEMMA KeepsRows ==
    ASSUME OwnInv, UnguardedOwned, [Next]_vars, RowsInOrder
    PROVE  RowsInOrder'
PROOF
<1>1. ASSUME NEW t \in Task, NEW u \in Task, t < u, status'[u] # "absent"
      PROVE  status'[t] # "absent"
  <2>1. status[t] # "absent"
    <3>1. CASE status[u] # "absent"
      BY <1>1, <3>1 DEF RowsInOrder
    <3>2. CASE status[u] = "absent"
      BY <1>1, <3>2, Arrival DEF Enqueue
    <3>3. QED
      BY <3>1, <3>2
  <2>2. QED
    BY <2>1, RowKept
<1>2. ASSUME NEW t \in Task
      PROVE  /\ status'[t] = "absent" => attempts'[t] = 0
             /\ status'[t] # "absent" /\ Origin[t] = "api" => serial'[t]
             /\ Origin[t] = "observe" => ~serial'[t]
             /\ stage'[t] # "idle" => attempts'[t] > 0
  <2>1. status'[t] = "absent" => attempts'[t] = 0
    BY RowKept DEF RowsInOrder
  <2>2. /\ status'[t] # "absent" /\ Origin[t] = "api" => serial'[t]
        /\ Origin[t] = "observe" => ~serial'[t]
    <3>1. CASE Enqueue(t)
      BY <3>1 DEF Enqueue, QueuesBehind, OwnInv, TypeOK
    <3>2. CASE ~Enqueue(t)
      BY <3>2, Arrival DEF RowsInOrder
    <3>3. QED
      BY <3>1, <3>2
  <2>3. ASSUME stage'[t] # "idle" PROVE attempts'[t] > 0
    <3>1. CASE stage[t] # "idle"
      BY <3>1, RowKept DEF RowsInOrder
    <3>2. CASE stage[t] = "idle"
      <4>1. ~HandlerStep(t)
        BY <3>2, HandlerEffect DEF OwnInv, RunEffect
      <4>2. attempts'[t] = attempts[t] + 1 /\ attempts[t] \in Nat
        BY <2>3, <3>2, <4>1, Moves, TaskAssumption DEF OwnInv, TypeOK
      <4>3. QED
        BY <4>2
    <3>3. QED
      BY <3>1, <3>2
  <2>4. QED
    BY <2>1, <2>2, <2>3
<1>3. QED
  BY <1>1, <1>2 DEF RowsInOrder

(* What queues behind nobody was enqueued when only remarks were open. *)
LEMMA KeepsMessage ==
    ASSUME OwnInv, UnguardedOwned, [Next]_vars, NoChoice, MessageAhead
    PROVE  MessageAhead'
PROOF
<1> SUFFICES ASSUME NEW t \in Task, NEW u \in Task, t < u, status'[u] # "absent",
                    Origin[u] = "human", ~serial'[u]
             PROVE  Over(t)' \/ Origin[t] = "observe"
  BY DEF MessageAhead
<1>1. CASE Enqueue(u)
  <2>1. status[t] # "absent" /\ t # u /\ status'[t] = status[t] /\ cancel' = cancel
    BY <1>1 DEF Enqueue, OwnInv, TypeOK
  <2>2. ~QueuesBehind(u)
    BY <1>1 DEF Enqueue, OwnInv, TypeOK
  <2>3. Kind(t) = "chat"
    BY DEF Kind, NoChoice
  <2>4. status[t] \in Open \cup Terminal
    BY <2>1 DEF OwnInv, TypeOK
  <2>5. QED
    BY <2>1, <2>2, <2>3, <2>4 DEF QueuesBehind, OpenTasks, Over
<1>2. CASE ~Enqueue(u)
  <2>1. status[u] # "absent" /\ ~serial[u]
    BY <1>2, Arrival
  <2>2. QED
    BY <2>1, OverKept DEF MessageAhead
<1>3. QED
  BY <1>1, <1>2

(* The claim of a serialised row looks at every older one. *)
LEMMA KeepsSerial ==
    ASSUME OwnInv, UnguardedOwned, [Next]_vars, RowsInOrder, SerialLast
    PROVE  SerialLast'
PROOF
<1> SUFFICES ASSUME NEW t \in Task, NEW u \in Task, t < u, serial'[u],
                    attempts'[u] > 0 \/ Locked(u)'
             PROVE  Over(t)'
  BY DEF SerialLast
<1>1. ~Enqueue(u)
  <2> SUFFICES ASSUME Enqueue(u) PROVE FALSE
    OBVIOUS
  <2>1. attempts'[u] = 0 /\ claiming' = claiming /\ status[u] = "absent"
    BY DEF Enqueue, procVars, RowsInOrder
  <2>2. ~Locked(u)
    BY <2>1, TaskAssumption DEF Locked, OwnInv, ClaimsExclusive
  <2>3. QED
    BY <2>1, <2>2 DEF Locked
<1>2. serial[u]
  BY <1>1, Arrival
<1>3. CASE attempts[u] > 0 \/ Locked(u)
  BY <1>2, <1>3, OverKept DEF SerialLast
<1>4. CASE ~(attempts[u] > 0 \/ Locked(u))
  <2>1. Claimable(u)
    BY <1>4, Counted
  <2>2. ~HoldsBack(t, u) /\ status[u] = "queued"
    BY <1>2, <2>1 DEF Claimable
  <2>3. t # u /\ status[t] # "absent"
    BY <2>2, TaskAssumption DEF RowsInOrder
  <2>4. Over(t)
    BY <2>2, <2>3 DEF HoldsBack, Over, OwnInv, TypeOK, Open
  <2>5. QED
    BY <2>4, OverKept
<1>5. QED
  BY <1>3, <1>4

(* A remark looks around before it goes on. *)
LEMMA KeepsRemark ==
    ASSUME OwnInv, UnguardedOwned, [Next]_vars, NoChoice, RowsInOrder, RemarkLast
    PROVE  RemarkLast'
PROOF
<1> SUFFICES ASSUME NEW t \in Task, NEW u \in Task, t < u, Origin[u] = "observe",
                    stage'[u] \in {"supersede", "waiting", "turn"}
             PROVE  status'[t] \in Terminal
  BY DEF RemarkLast
<1>1. CASE stage[u] \in {"supersede", "waiting", "turn"}
  BY <1>1, RowKept DEF RemarkLast
<1>2. CASE stage[u] \notin {"supersede", "waiting", "turn"}
  <2>1. HandlerStep(u)
    BY <1>2, Moves
  <2>2. stage[u] = "yielding" /\ ~\E o \in OpenTasks \ {u} : Kind(o) = "chat"
    BY <1>2, <2>1, RunMoves
  <2>3. Kind(t) = "chat" /\ t # u
    BY TaskAssumption DEF Kind, NoChoice
  <2>4. status[t] # "absent"
    BY <2>2 DEF RowsInOrder, OwnInv, RunsHaveRows, Active, Terminal
  <2>5. status[t] \in Terminal
    BY <2>2, <2>3, <2>4 DEF OpenTasks, OwnInv, TypeOK
  <2>6. QED
    BY <2>5, RowKept
<1>3. QED
  BY <1>1, <1>2

(* An active row older than one with a turn has been cancelled or is that  *)
(* of a remark: neither gets past the checks before its turn.              *)
LEMMA KeepsTurn ==
    ASSUME OwnInv, UnguardedOwned, [Next]_vars, NoChoice, OrderInv
    PROVE  TurnLast'
PROOF
<1> SUFFICES ASSUME NEW t \in Task, NEW u \in Task, t < u, OwnedTurn(u)',
                    status'[t] \in Active
             PROVE  BeforeTurn(t)'
  BY DEF TurnLast
<1> USE DEF OrderInv
<1>0. t # u
  BY TaskAssumption
<1>1. CASE ~OwnedTurn(u)
  <2>1. stage[u] # "turn"
    BY <1>1, RowKept DEF OwnedTurn, OwnInv, RunsHaveRows, Active, Terminal
  <2>2. HandlerStep(u)
    BY <2>1, Moves DEF OwnedTurn
  <2>3. OlderGone(u) /\ status' = status
    BY <2>1, <2>2, RunMoves DEF OwnedTurn
  <2>4. QED
    BY <2>3, TaskAssumption DEF OlderGone, ActiveTasks
<1>2. CASE OwnedTurn(u) /\ status[t] \notin Active
  <2>1. stage[t] = "idle"
    BY <1>2, RowKept DEF OwnInv, RunsHaveRows, Active, Terminal
  <2>2. ~HandlerStep(t)
    BY <2>1, HandlerEffect DEF OwnInv, RunEffect
  <2>3. QED
    BY <2>1, <2>2, Moves DEF BeforeTurn
<1>3. CASE OwnedTurn(u) /\ status[t] \in Active
  <2>1. BeforeTurn(t)
    BY <1>3 DEF TurnLast
  <2>2. cancel[t] = "none" => Origin[t] = "observe"
    <3> SUFFICES ASSUME cancel[t] = "none" PROVE Origin[t] = "observe"
      OBVIOUS
    <3>1. ~Over(t) /\ status[t] \notin Terminal
      BY <1>3 DEF Over, Active, Terminal
    <3>2. attempts[u] > 0 /\ status[u] # "absent"
      BY <1>3 DEF OwnedTurn, RowsInOrder, Active
    <3>3. ~serial[u]
      BY <3>1, <3>2 DEF SerialLast
    <3>4. Origin[u] # "api"
      BY <3>2, <3>3 DEF RowsInOrder
    <3>5. Origin[u] # "observe"
      BY <1>3, <3>1 DEF RemarkLast, OwnedTurn
    <3>6. Origin[u] = "human"
      BY <3>4, <3>5, TaskAssumption DEF NoChoice, Origins
    <3>7. QED
      BY <3>1, <3>2, <3>3, <3>6 DEF MessageAhead
  <2>3. CASE HandlerStep(t)
    <3>1. Kind(u) = "chat" /\ u \in OpenTasks \ {t}
      BY <1>0, <1>3 DEF Kind, NoChoice, OpenTasks, OwnedTurn, Open
    <3>2. QED
      BY <2>1, <2>2, <2>3, <3>1, RunMoves DEF BeforeTurn
  <2>4. CASE ~HandlerStep(t)
    BY <2>1, <2>4, Moves DEF BeforeTurn
  <2>5. QED
    BY <2>3, <2>4
<1>4. QED
  BY <1>1, <1>2, <1>3

------------------------------------------------------------------------------
(* The theorems *)

LEMMA OrderAlways ==
    ASSUME PromptWrites, NoChoice
    PROVE  Spec => [](OwnInv /\ UnguardedOwned /\ OrderInv)
PROOF
<1>1. OwnInv /\ UnguardedOwned /\ OrderInv /\ [Next]_vars => OrderInv'
  <2> SUFFICES ASSUME OwnInv, UnguardedOwned, OrderInv, [Next]_vars PROVE OrderInv'
    OBVIOUS
  <2>1. TurnLast'
    BY KeepsTurn
  <2>2. QED
    BY <2>1, KeepsRows, KeepsMessage, KeepsSerial, KeepsRemark DEF OrderInv
<1>2. QED
  BY <1>1, InitOrder, OwnedAlways, PTL DEF Spec

(* Without choice cards, two turns of one session never talk to the relay  *)
(* session at once while both own their rows: whatever the mix of          *)
(* messages, remarks and API tasks, of workers, crashes, cancellations and *)
(* put-back tasks.                                                         *)
THEOREM TurnsAlwaysExclusive ==
    ASSUME PromptWrites, NoChoice
    PROVE  Spec => []TurnsExclusive
PROOF
<1>1. OrderInv => TurnsExclusive
  <2> SUFFICES ASSUME OrderInv, NEW t \in Task, NEW u \in Task,
                      OwnedTurn(t), OwnedTurn(u), t < u
               PROVE  FALSE
    BY TaskAssumption DEF TurnsExclusive
  <2>1. QED
    BY DEF OrderInv, TurnLast, OwnedTurn, BeforeTurn
<1>2. QED
  BY <1>1, OrderAlways, PTL

(* A message that queues gets its turn only when every earlier task of the *)
(* session has ended or was asked to stop, with choice cards or without.   *)
THEOREM QueuedAlwaysInOrder ==
    ASSUME PromptWrites
    PROVE  Spec => []QueuedInOrder
PROOF
<1>1. Init => RowsInOrder /\ SerialLast
  BY InitOrder DEF OrderInv
<1>2. OwnInv /\ UnguardedOwned /\ RowsInOrder /\ SerialLast /\ [Next]_vars
        => RowsInOrder' /\ SerialLast'
  BY KeepsRows, KeepsSerial
<1>3. RowsInOrder /\ SerialLast => QueuedInOrder
  <2> SUFFICES ASSUME RowsInOrder, SerialLast, NEW t \in Task, NEW u \in Task,
                      OwnedTurn(t), serial[t], u < t, status[u] \in Open
               PROVE  cancel[u] # "none"
    BY DEF QueuedInOrder
  <2>1. Over(u)
    BY DEF RowsInOrder, SerialLast, OwnedTurn
  <2>2. QED
    BY <2>1 DEF Over, Open, Active, Terminal
<1>4. QED
  BY <1>1, <1>2, <1>3, OwnedAlways, PTL DEF Spec
==============================================================================
