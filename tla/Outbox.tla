-------------------------------- MODULE Outbox --------------------------------
(***************************************************************************)
(* The outbox of one bot: the outbox table (core/bus/outbox.py), the       *)
(* processes that send its rows, the scheduler that recovers abandoned     *)
(* attempts and the administrator who sends a failed message again.        *)
(*                                                                         *)
(* Two protocols send rows.  The WeCom gateway (outbox_consumer.py) commits *)
(* the attempt before it writes the frame and then waits for the platform's *)
(* acknowledgement ("confirmed").  The Feishu gateway (consume_one) and the *)
(* notification job (deliver_one) send inside the transaction that claimed  *)
(* the row ("inClaim").                                                    *)
(*                                                                         *)
(* Two gateways may consume for one bot: the holder of an expired lease    *)
(* goes on until its next lease round.                                     *)
(***************************************************************************)
EXTENDS Naturals

CONSTANTS Item,           \* ids of the rows, a set of naturals
          Gateway,        \* consumers of the bot's outbox
          Group,          \* [Item -> delivery group, or None]
          None,           \* no group, no row
          MaxAttempts,    \* MAX_ATTEMPTS
          Plans           \* what a behaviour is made of, one record of
                          \* PlanType chosen at the start

Steps == {"idle", "claimed", "begun", "answered", "failing"}

(* A plan names the protocol of the bot's platform, bounds how often the   *)
(* administrator sends a failed message again and how many drains,         *)
(* crashes, exceptions and lost connections there are, and says in which   *)
(* steps a live consumer may stand longer than ATTEMPT_LEASE_SECONDS.      *)
PlanType == [protocol : {"confirmed", "inClaim"}, retries : Nat,
             disruptions : Nat, stalls : SUBSET Steps]

ASSUME OutboxAssumption ==
    /\ Item \subseteq Nat
    /\ None \notin Item
    /\ DOMAIN Group = Item
    /\ MaxAttempts \in Nat \ {0}
    /\ Plans \subseteq PlanType

VARIABLES
    plan,         \* the plan of this behaviour, never changed
    status,       \* outbox.status, "absent" before the row exists
    attempts,     \* outbox.attempts
    due,          \* not_before <= now()
    step,         \* where the consumer stands with the row in its hands
    working,      \* that row
    answer,       \* what the consumer knows of the platform's answer
    seen,         \* the attempts _retry_or_fail has read
    online,       \* the connection is subscribed
    throttled,    \* the chat must be left alone for a while (in memory)
    mode,         \* "up", "paused" or "down"
    closing,      \* rows a closing collaboration has read as pending
    written,      \* how often the row went out since it was added or retried
    shown,        \* how often the platform took it: 0, 1 or 2 for more
    reopened,     \* the administrator sent the row again
    retries,      \* how often the administrator did
    disruptions   \* drains, crashes, exceptions and lost connections so far

rowVars == <<status, attempts, due>>
handVars == <<step, working, answer, seen>>
linkVars == <<online, throttled, mode>>
wireVars == <<written, shown>>
countVars == <<reopened, retries, disruptions, plan>>
vars == <<rowVars, handVars, linkVars, closing, wireVars, countVars>>

Protocol == plan.protocol

Unsettled == {"pending", "sending"}
Settled == {"sent", "failed", "skipped"}
Answers == {"none", "acked", "rejected", "limited", "refused", "notsent", "unknown"}

(* The transaction that claimed t is still open. *)
Locked(t) ==
    \E g \in Gateway :
        working[g] = t /\ (step[g] = "claimed" \/ Protocol = "inClaim")

(* Another consumer has claimed the row of g: an update of g waits. *)
LockedOut(g) ==
    \E h \in Gateway \ {g} : working[h] = working[g] /\ step[h] = "claimed"

InHand(t) == \E g \in Gateway : working[g] = t

(* The consumer is done with its row. *)
LetGo(g) ==
    /\ step' = [step EXCEPT ![g] = "idle"]
    /\ working' = [working EXCEPT ![g] = None]
    /\ answer' = [answer EXCEPT ![g] = "none"]
    /\ seen' = [seen EXCEPT ![g] = 0]

Goto(g, s) ==
    /\ step' = [step EXCEPT ![g] = s]
    /\ UNCHANGED <<working, answer, seen>>

(* One write of a row; the update applies only to the statuses in From. *)
SetStatus(t, From, s) ==
    status' = [status EXCEPT ![t] = IF @ \in From THEN s ELSE @]

------------------------------------------------------------------------------
(* The queue *)

(* The rows of the delivery group of t that go out before it. *)
Ahead(t) == {u \in Item : u < t /\ Group[u] = Group[t] /\ Group[t] # None}

(* add(): the rows of one group are committed in the order of their ids.   *)
Add(t) ==
    /\ status[t] = "absent"
    /\ \A u \in Ahead(t) : status[u] # "absent"
    /\ status' = [status EXCEPT ![t] = "pending"]
    /\ UNCHANGED <<attempts, due, handVars, linkVars, closing, wireVars, countVars>>

FallDue(t) ==
    /\ status[t] = "pending" /\ ~due[t]
    /\ due' = [due EXCEPT ![t] = TRUE]
    /\ UNCHANGED <<status, attempts, handVars, linkVars, closing, wireVars, countVars>>

ClaimablePastBackoff(t) ==
    /\ status[t] = "pending" /\ due[t] /\ ~Locked(t)
    /\ \A u \in Ahead(t) : ~(status[u] \in Unsettled /\ due[u])

ClaimableBehindSettled(t) ==
    /\ status[t] = "pending" /\ due[t] /\ ~Locked(t)
    /\ \A u \in Ahead(t) : status[u] = "sent"

Claimable(t) ==
    /\ status[t] = "pending" /\ due[t] /\ ~Locked(t)
    /\ \A u \in Ahead(t) : status[u] \notin Unsettled

(* claim_next(): the row is locked; the others still see it pending. *)
Claim(g) ==
    /\ mode[g] = "up" /\ step[g] = "idle"
    /\ Protocol = "confirmed" => online[g]
    /\ \E t \in Item :
         /\ Claimable(t)
         /\ \A u \in Item : Claimable(u) => t <= u
         /\ working' = [working EXCEPT ![g] = t]
    /\ step' = [step EXCEPT ![g] = "claimed"]
    /\ UNCHANGED <<answer, seen, rowVars, linkVars, closing, wireVars, countVars>>

(* The receiver is gone, the kind unsupported, the collaboration inactive. *)
Skip(g) ==
    /\ step[g] = "claimed"
    /\ status' = [status EXCEPT ![working[g]] = "skipped"]
    /\ LetGo(g)
    /\ UNCHANGED <<attempts, due, linkVars, closing, wireVars, countVars>>

(* defer(): back to the queue, no attempt counted.  The delay is that of   *)
(* the rate limit, or none when the connection went away.                  *)
Defer(g) ==
    /\ step[g] = "claimed" /\ Protocol = "confirmed"
    /\ throttled[g] \/ ~online[g]
    /\ status' = [status EXCEPT ![working[g]] = "pending"]
    /\ due' = [due EXCEPT ![working[g]] = ~throttled[g]]
    /\ LetGo(g)
    /\ UNCHANGED <<attempts, linkVars, closing, wireVars, countVars>>

(* begin_attempt() commits the claim before anything is sent. *)
Begin(g) ==
    /\ step[g] = "claimed" /\ Protocol = "confirmed"
    /\ online[g] /\ ~throttled[g]
    /\ status' = [status EXCEPT ![working[g]] = "sending"]
    /\ Goto(g, "begun")
    /\ UNCHANGED <<attempts, due, linkVars, closing, wireVars, countVars>>

------------------------------------------------------------------------------
(* The wire *)

(* The platform takes the message or does not, and its answer arrives, is  *)
(* lost, or never existed: the frame was not written at all.               *)
Outcomes(g) ==
    IF Protocol = "inClaim"
    THEN {<<TRUE, "acked">>, <<TRUE, "rejected">>, <<FALSE, "rejected">>, <<FALSE, "refused">>}
    ELSE IF online[g]
    THEN {<<TRUE, "acked">>, <<TRUE, "unknown">>, <<FALSE, "unknown">>,
          <<FALSE, "rejected">>, <<FALSE, "limited">>, <<FALSE, "notsent">>}
    ELSE {<<FALSE, "notsent">>}

Transmit(g) ==
    /\ step[g] = IF Protocol = "confirmed" THEN "begun" ELSE "claimed"
    /\ LET t == working[g] IN
       \E o \in Outcomes(g) :
         /\ answer' = [answer EXCEPT ![g] = o[2]]
         /\ written' = [written EXCEPT ![t] = @ + (IF o[2] = "notsent" THEN 0 ELSE 1)]
         /\ shown' = [shown EXCEPT ![t] = IF o[1] /\ @ < 2 THEN @ + 1 ELSE @]
    /\ step' = [step EXCEPT ![g] = "answered"]
    /\ UNCHANGED <<working, seen, rowVars, linkVars, closing, countVars>>

------------------------------------------------------------------------------
(* Recording the answer *)

RecordSentUnconfirmed(g) ==
    /\ step[g] = "answered" /\ answer[g] \in {"acked", "unknown"} /\ ~LockedOut(g)
    /\ SetStatus(working[g], Unsettled, "sent")
    /\ throttled' = [throttled EXCEPT ![g] = Protocol = "confirmed"]
    /\ LetGo(g)
    /\ UNCHANGED <<attempts, due, online, mode, closing, wireVars, countVars>>

(* mark_sent() only changes a row that has not settled. *)
RecordSent(g) ==
    /\ step[g] = "answered" /\ answer[g] = "acked" /\ ~LockedOut(g)
    /\ SetStatus(working[g], Unsettled, "sent")
    /\ throttled' = [throttled EXCEPT ![g] = Protocol = "confirmed"]
    /\ LetGo(g)
    /\ UNCHANGED <<attempts, due, online, mode, closing, wireVars, countVars>>

(* fail(): an error code that no retry can mend. *)
RecordRefused(g) ==
    /\ step[g] = "answered" /\ answer[g] = "refused"
    /\ status[working[g]] \in Unsettled
    /\ status' = [status EXCEPT ![working[g]] = "failed"]
    /\ attempts' = [attempts EXCEPT ![working[g]] = @ + 1]
    /\ LetGo(g)
    /\ UNCHANGED <<due, linkVars, closing, wireVars, countVars>>

(* _retry_or_fail() reads the row; for an unknown outcome it stops unless  *)
(* the row is still sending.                                               *)
ReadAttempts(g) ==
    /\ step[g] = "answered"
    /\ answer[g] \in {"rejected", "limited", "notsent", "unknown"}
    /\ IF answer[g] = "unknown" /\ status[working[g]] # "sending"
       THEN LetGo(g)
       ELSE /\ seen' = [seen EXCEPT ![g] = attempts[working[g]]]
            /\ step' = [step EXCEPT ![g] = "failing"]
            /\ UNCHANGED <<working, answer>>
    /\ throttled' = [throttled EXCEPT ![g] = @ \/ answer[g] = "limited"]
    /\ UNCHANGED <<rowVars, online, mode, closing, wireVars, countVars>>

RetryOrFailLate(t, n) ==
    /\ status' = [status EXCEPT ![t] = IF n <= MaxAttempts THEN "pending" ELSE "failed"]
    /\ attempts' = [attempts EXCEPT ![t] = n]
    /\ due' = [due EXCEPT ![t] = @ /\ n > MaxAttempts]

(* The row after n attempts: back to the queue after a pause, or failed. *)
RetryOrFail(t, n) ==
    /\ status' = [status EXCEPT ![t] = IF n < MaxAttempts THEN "pending" ELSE "failed"]
    /\ attempts' = [attempts EXCEPT ![t] = n]
    /\ due' = [due EXCEPT ![t] = @ /\ n >= MaxAttempts]

(* ... and writes it: mark_failed() whatever the row has become since,     *)
(* unknown_attempt() only a row still sending.                             *)
WriteAttempts(g) ==
    /\ step[g] = "failing" /\ ~LockedOut(g)
    /\ IF answer[g] = "unknown" /\ status[working[g]] # "sending"
       THEN UNCHANGED rowVars
       ELSE RetryOrFail(working[g], seen[g] + 1)
    /\ LetGo(g)
    /\ UNCHANGED <<linkVars, closing, wireVars, countVars>>

------------------------------------------------------------------------------
(* The scheduler and the administrator *)

(* recover_abandoned(): still sending after the attempt's lease. *)
Recover(t) ==
    /\ status[t] = "sending"
    /\ \A g \in Gateway : working[g] = t => step[g] \in plan.stalls
    /\ RetryOrFail(t, attempts[t] + 1)
    /\ UNCHANGED <<handVars, linkVars, closing, wireVars, countVars>>

(* retry(): only a failed row. *)
Retry(t) ==
    /\ status[t] = "failed" /\ retries < plan.retries
    /\ status' = [status EXCEPT ![t] = "pending"]
    /\ attempts' = [attempts EXCEPT ![t] = 0]
    /\ due' = [due EXCEPT ![t] = TRUE]
    /\ written' = [written EXCEPT ![t] = 0]
    /\ reopened' = [reopened EXCEPT ![t] = TRUE]
    /\ retries' = retries + 1
    /\ UNCHANGED <<handVars, linkVars, closing, shown, disruptions, plan>>

(* A bot collaboration that is closed reads its messages ... *)
CloseRead(t) ==
    /\ Protocol = "inClaim" /\ status[t] = "pending"
    /\ closing' = closing \cup {t}
    /\ UNCHANGED <<rowVars, handVars, linkVars, wireVars, countVars>>

(* ... and skips those it found pending; the update waits for the row. *)
CloseWrite(t) ==
    /\ t \in closing /\ ~Locked(t)
    /\ status' = [status EXCEPT ![t] = "skipped"]
    /\ closing' = closing \ {t}
    /\ UNCHANGED <<attempts, due, handVars, linkVars, wireVars, countVars>>

------------------------------------------------------------------------------
(* Connections and processes *)

Connect(g) ==
    /\ mode[g] = "up" /\ ~online[g]
    /\ online' = [online EXCEPT ![g] = TRUE]
    /\ UNCHANGED <<throttled, mode, rowVars, handVars, closing, wireVars, countVars>>

Disrupt ==
    /\ disruptions < plan.disruptions
    /\ disruptions' = disruptions + 1
    /\ UNCHANGED plan

Disconnect(g) ==
    /\ online[g] /\ Disrupt
    /\ online' = [online EXCEPT ![g] = FALSE]
    /\ UNCHANGED <<throttled, mode, rowVars, handVars, closing, wireVars, reopened, retries>>

(* The chat's interval or back-off is over. *)
Cool(g) ==
    /\ throttled[g]
    /\ throttled' = [throttled EXCEPT ![g] = FALSE]
    /\ UNCHANGED <<online, mode, rowVars, handVars, closing, wireVars, countVars>>

(* The row in hand is let go as it is; an open transaction rolls back. *)
Raise(g) ==
    /\ step[g] # "idle" /\ Disrupt
    /\ LetGo(g)
    /\ UNCHANGED <<rowVars, linkVars, closing, wireVars, reopened, retries>>

(* drain(): no further claim; the row in hand is finished first. *)
Drain(g) ==
    /\ mode[g] = "up" /\ Disrupt
    /\ mode' = [mode EXCEPT ![g] = "paused"]
    /\ UNCHANGED <<online, throttled, rowVars, handVars, closing, wireVars, reopened, retries>>

Down(g) ==
    /\ mode' = [mode EXCEPT ![g] = "down"]
    /\ online' = [online EXCEPT ![g] = FALSE]
    /\ throttled' = [throttled EXCEPT ![g] = FALSE]

Stop(g) ==
    /\ mode[g] = "paused" /\ step[g] = "idle"
    /\ Down(g)
    /\ UNCHANGED <<rowVars, handVars, closing, wireVars, countVars>>

Crash(g) ==
    /\ mode[g] # "down" /\ Disrupt
    /\ Down(g) /\ LetGo(g)
    /\ UNCHANGED <<rowVars, closing, wireVars, reopened, retries>>

(* The bot's connection is taken up again, here or by another instance. *)
Restart(g) ==
    /\ mode[g] = "down"
    /\ mode' = [mode EXCEPT ![g] = "up"]
    /\ UNCHANGED <<online, throttled, rowVars, handVars, closing, wireVars, countVars>>

------------------------------------------------------------------------------
Init ==
    /\ plan \in Plans
    /\ status = [t \in Item |-> "absent"]
    /\ attempts = [t \in Item |-> 0]
    /\ due = [t \in Item |-> TRUE]
    /\ step = [g \in Gateway |-> "idle"]
    /\ working = [g \in Gateway |-> None]
    /\ answer = [g \in Gateway |-> "none"]
    /\ seen = [g \in Gateway |-> 0]
    /\ online = [g \in Gateway |-> FALSE]
    /\ throttled = [g \in Gateway |-> FALSE]
    /\ mode = [g \in Gateway |-> "up"]
    /\ closing = {}
    /\ written = [t \in Item |-> 0]
    /\ shown = [t \in Item |-> 0]
    /\ reopened = [t \in Item |-> FALSE]
    /\ retries = 0
    /\ disruptions = 0

ConsumerStep(g) ==
    \/ Skip(g) \/ Defer(g) \/ Begin(g) \/ Transmit(g)
    \/ RecordSent(g) \/ RecordRefused(g) \/ ReadAttempts(g) \/ WriteAttempts(g)

GatewayStep(g) ==
    \/ Claim(g) \/ ConsumerStep(g)
    \/ Connect(g) \/ Disconnect(g) \/ Cool(g) \/ Raise(g)
    \/ Drain(g) \/ Stop(g) \/ Crash(g) \/ Restart(g)

ItemStep(t) ==
    \/ Add(t) \/ FallDue(t) \/ Recover(t) \/ Retry(t)
    \/ CloseRead(t) \/ CloseWrite(t)

Next ==
    \/ \E g \in Gateway : GatewayStep(g)
    \/ \E t \in Item : ItemStep(t)

Spec == Init /\ [][Next]_vars

(* Consumers and the scheduler keep running, lost connections come back    *)
(* and delays end.  Nothing makes the administrator or a failure act.      *)
Fairness ==
    /\ \A g \in Gateway :
         /\ WF_vars(Claim(g)) /\ WF_vars(ConsumerStep(g))
         /\ WF_vars(Connect(g)) /\ WF_vars(Cool(g))
         /\ WF_vars(Stop(g)) /\ WF_vars(Restart(g))
    /\ \A t \in Item :
         WF_vars(FallDue(t)) /\ WF_vars(~InHand(t) /\ Recover(t))

FairSpec == Spec /\ Fairness

------------------------------------------------------------------------------
(* Properties *)

(* Every variable stays in its type; in particular no row counts more than *)
(* MAX_ATTEMPTS attempts, unless a stalled consumer counts its attempt     *)
(* after the recovery has.                                                 *)
TypeOK ==
    /\ plan \in Plans
    /\ status \in [Item -> Unsettled \cup Settled \cup {"absent"}]
    /\ attempts \in [Item -> Nat]
    /\ plan.stalls = {} => \A t \in Item : attempts[t] <= MaxAttempts
    /\ due \in [Item -> BOOLEAN]
    /\ step \in [Gateway -> Steps]
    /\ working \in [Gateway -> Item \cup {None}]
    /\ answer \in [Gateway -> Answers]
    /\ seen \in [Gateway -> Nat]
    /\ online \in [Gateway -> BOOLEAN]
    /\ throttled \in [Gateway -> BOOLEAN]
    /\ mode \in [Gateway -> {"up", "paused", "down"}]
    /\ closing \subseteq Item
    /\ written \in [Item -> Nat]
    /\ shown \in [Item -> 0..2]
    /\ reopened \in [Item -> BOOLEAN]
    /\ retries \in 0..plan.retries
    /\ disruptions \in 0..plan.disruptions

(* A row is sent only when the platform took the message (send_confirmed). *)
SentWasShown == \A t \in Item : status[t] = "sent" => shown[t] > 0

(* The attempt is committed before the send and its outcome is recorded    *)
(* before the attempt's lease ends.                                        *)
Exact == Protocol = "confirmed" /\ plan.stalls = {}

(* Every time a message went out is counted as an attempt, or is the one   *)
(* attempt under way or acknowledged: a crash, a lost answer or a drain    *)
(* between the frame and its record cannot make the retries unbounded.     *)
(* A consumer that sends inside its claim does not count a crash, and one  *)
(* that stalls writes a count it read before the recovery.                 *)
SendsAreCounted ==
    Exact => \A t \in Item :
        written[t] <= attempts[t] + (IF status[t] \in {"sending", "sent"} THEN 1 ELSE 0)

(* No message leaves while an earlier one of its group still waits, unless *)
(* the administrator put that one back after it had failed.  With a stalled *)
(* consumer a late refusal reopens a row behind which others have gone.    *)
GroupOrder ==
    [][plan.stalls = {} =>
         \A t \in Item : written'[t] > written[t] =>
            \A u \in Ahead(t) : status[u] \in Unsettled => reopened[u]]_vars

(* A late acknowledgement never makes a failed or skipped row sent. *)
LateAckIgnored ==
    [][\A t \in Item : status[t] \in {"failed", "skipped"} => status'[t] # "sent"]_vars

(* Every message added is sent, or fails or is skipped for good: none      *)
(* stays in the queue behind a dead consumer, a rate limit or its group.   *)
EveryItemSettles == \A t \in Item : status[t] = "pending" ~> status[t] \in Settled

(* The table implements what it promises: its first state is one of the    *)
(* contract's, and every step is one of the contract's or changes nothing. *)
PhaseOf(s) ==
    CASE s = "absent" -> "absent"
      [] s \in Unsettled -> "waiting"
      [] s = "sent" -> "delivered"
      [] s = "failed" -> "failed"
      [] s = "skipped" -> "skipped"

Contract == INSTANCE OutboxContract
    WITH NoGroup <- None, MaxSends <- MaxAttempts, sends <- written,
         phase <- [t \in Item |-> PhaseOf(status[t])]

ImplementsContract ==
    /\ Exact => Contract!ContractInit
    /\ [][Exact => [Contract!ContractNext]_(Contract!contractVars)]_vars
==============================================================================
