----------------------------- MODULE RuntimeCall -----------------------------
(* A call that a worker or an API process makes to a runtime node.  The node *)
(* cannot be reached from outside: the caller writes a row, the node fetches *)
(* it with its next long poll, runs it, and posts the answer as numbered     *)
(* frames; the caller reads them out of the database and deletes them as it  *)
(* reads (core/runtime_nodes/transport.py, api/routers/runtime_protocol.py,  *)
(* runtime_daemon/daemon.py).                                                *)
(*                                                                           *)
(* Requests and answers between node and platform may be lost, answered      *)
(* without the answer arriving, or handled twice; callers and the node may   *)
(* die; a plan bounds how often.  A caller may give up at any time.          *)
EXTENDS Naturals, FiniteSets, Sequences

CONSTANTS
    Calls,          \* calls made to one node
    Plans,          \* what a behaviour may contain, see plan
    MaxConcurrent,  \* max_concurrent of the node
    MaxPending,     \* calls that may wait or run at a node (128)
    MaxBuffered,    \* MAX_BUFFERED_CHUNKS
    ReadLimit       \* chunks the caller reads at once (32)

FaultKinds == {"caller", "wire", "poll", "node", "admin"}

(* A plan: the calls that are made, with the data frames their executions    *)
(* produce at most, and how many faults of which kinds happen.               *)
ASSUME PlansOK ==
    \A p \in Plans :
        /\ DOMAIN p.data \subseteq Calls
        /\ \A c \in DOMAIN p.data : p.data[c] \in Nat
        /\ p.faults \in Nat /\ p.kinds \subseteq FaultKinds

ASSUME CallLimits ==
    {MaxConcurrent, MaxPending, MaxBuffered, ReadLimit} \subseteq Nat \ {0}

VARIABLES
    plan,      \* chosen once
    row,       \* row[c]: the RuntimeCall
    chunks,    \* chunks[c]: numbers of the RuntimeChunks of c
    caller,    \* caller[c]: where ReverseTransport and ReverseStream are
    seen,      \* seen[c]: the status that read_batch has read
    got,       \* got[c]: numbers of the chunks handed to the reader
    verdict,   \* verdict[c]: what the caller was told
    service,   \* the node's row: on, draining, or off (is_active false)
    node,      \* the daemon: up, stopping or down
    job,       \* job[c]: where Daemon.execute is
    frames,    \* frames[c]: kinds of the frames FrameBatcher has numbered
    acked,     \* acked[c]: how many of them were accepted
    posting,   \* calls whose flush awaits an answer
    wire,      \* wire[c]: posts of frames on their way
    tracked,   \* Daemon.tasks
    asked,     \* Daemon.cancel_requested
    abandoned, \* Daemon.abandoned
    poll,      \* the long poll
    ghost,     \* a poll was given up that may still claim
    starts,    \* starts[c]: how often c was executed (history)
    faults     \* how many have happened

rowVars == <<row, chunks>>
callerVars == <<caller, seen, got, verdict>>
jobVars == <<job, frames, acked, posting, wire>>
daemonVars == <<node, tracked, asked, abandoned, starts>>
pollVars == <<poll, ghost>>
vars == <<rowVars, callerVars, jobVars, daemonVars, pollVars, service,
          faults, plan>>

Terminal == {"done", "failed", "cancelled"}
Statuses == {"none", "queued", "running", "deleted"} \cup Terminal
Stages == {"new", "checked", "queued", "accepted", "reading", "batch",
           "mark", "sweep", "closed", "dead"}
Jobs == {"none", "run", "finish", "done", "fail", "failed", "stop", "over"}
Kinds == {"head", "data", "done", "error"}

NoRow == [status |-> "none", next |-> 0, head |-> FALSE,
          fresh |-> FALSE, overdue |-> FALSE]
NoPoll == [stage |-> "idle", running |-> {}, abandoned |-> {}, slots |-> 0,
           commands |-> {}, cancelled |-> {}]

Init ==
    /\ plan \in Plans
    /\ row = [c \in Calls |-> NoRow]
    /\ chunks = [c \in Calls |-> {}]
    /\ caller = [c \in Calls |-> "new"]
    /\ seen = [c \in Calls |-> "none"]
    /\ got = [c \in Calls |-> <<>>]
    /\ verdict = [c \in Calls |-> "none"]
    /\ service = "on" /\ node = "up"
    /\ job = [c \in Calls |-> "none"]
    /\ frames = [c \in Calls |-> <<>>]
    /\ acked = [c \in Calls |-> 0]
    /\ posting = {} /\ wire = [c \in Calls |-> {}]
    /\ tracked = {} /\ asked = {} /\ abandoned = {}
    /\ poll = NoPoll /\ ghost = FALSE
    /\ starts = [c \in Calls |-> 0]
    /\ faults = 0

-----------------------------------------------------------------------------
(* Rows *)

Live(c) == row[c].status \in {"queued", "running"}
Exists(c) == row[c].status \notin {"none", "deleted"}

(* aclose holds the row it has cancelled until it commits. *)
Locked(c) == caller[c] = "sweep"

(* The caller has not renewed its lease, or the deadline has passed. *)
Stale(c) == Exists(c) /\ (~row[c].fresh \/ row[c].overdue)

(* Seeded fault: an ended call takes the new status, too. *)
EndedAlways(S, s) ==
    [c \in Calls |-> IF c \in S /\ Exists(c)
                       THEN [row[c] EXCEPT !.status = s] ELSE row[c]]

(* The rows after the calls in S, those not ended yet, took status s. *)
Ended(S, s) ==
    [c \in Calls |-> IF c \in S /\ Live(c) THEN [row[c] EXCEPT !.status = s]
                                           ELSE row[c]]

Fault(kind) ==
    /\ kind \in plan.kinds /\ faults < plan.faults
    /\ faults' = faults + 1 /\ UNCHANGED plan
NoFault == UNCHANGED <<faults, plan>>

-----------------------------------------------------------------------------
(* The caller: handle_async_request *)

(* The first half of its transaction: node and waiting calls are looked at. *)
Check(c) ==
    /\ caller[c] = "new" /\ c \in DOMAIN plan.data
    /\ IF service = "on" /\ Cardinality({d \in Calls : Live(d)}) < MaxPending
         THEN caller' = [caller EXCEPT ![c] = "checked"] /\ UNCHANGED verdict
         ELSE /\ caller' = [caller EXCEPT ![c] = "closed"]
              /\ verdict' = [verdict EXCEPT ![c] = "broken"]
    /\ UNCHANGED <<rowVars, jobVars, daemonVars, pollVars, service, seen, got>>
    /\ NoFault

Insert(c) ==
    /\ caller[c] = "checked"
    /\ caller' = [caller EXCEPT ![c] = "queued"]
    /\ row' = [row EXCEPT ![c] =
                [NoRow EXCEPT !.status = "queued", !.fresh = TRUE]]
    /\ UNCHANGED <<chunks, jobVars, daemonVars, pollVars, service>>
    /\ UNCHANGED <<seen, got, verdict>> /\ NoFault

(* The caller stops: its verdict stands, and aclose follows. *)
Leave(c, v) ==
    /\ caller' = [caller EXCEPT ![c] = "mark"]
    /\ verdict' = [verdict EXCEPT ![c] = v]

Gone(c) == ~Exists(c) \/ row[c].overdue

(* One turn of the loop that waits for the response head. *)
Await(c) ==
    /\ caller[c] \in {"queued", "accepted"}
    /\ \/ Gone(c) /\ Leave(c, "broken") /\ UNCHANGED row
       \/ /\ ~Gone(c)
          /\ row' = [row EXCEPT ![c].fresh = TRUE]
          /\ \/ /\ row[c].head
                /\ caller' = [caller EXCEPT ![c] = "reading"]
                /\ UNCHANGED verdict
             \/ /\ ~row[c].head /\ ~Live(c)
                /\ Leave(c, "broken")
             \/ /\ ~row[c].head /\ row[c].status = "running"
                /\ caller[c] = "queued"
                /\ caller' = [caller EXCEPT ![c] = "accepted"]
                /\ UNCHANGED verdict
             \/ /\ ~row[c].head /\ Live(c) /\ ~row[c].fresh
                /\ UNCHANGED <<caller, verdict>>
    /\ UNCHANGED <<chunks, jobVars, daemonVars, pollVars, service, seen, got>>
    /\ NoFault

(* It has waited long enough, for a place or for the head; or, while it was  *)
(* not accepted, the node is draining or gone.                               *)
GiveUp(c) ==
    /\ \/ caller[c] = "queued" /\ Leave(c, "busy")
       \/ caller[c] \in {"accepted", "reading"} /\ Leave(c, "broken")
       \/ caller[c] = "queued" /\ service # "on" /\ Leave(c, "broken")
    /\ UNCHANGED <<rowVars, jobVars, daemonVars, pollVars, service, seen, got>>
    /\ NoFault

-----------------------------------------------------------------------------
(* The caller: ReverseStream *)

(* read_batch reads the row first and the chunks after it. *)
ReadRow(c) ==
    /\ caller[c] = "reading"
    /\ IF Gone(c)
         THEN Leave(c, "broken") /\ UNCHANGED <<row, seen>>
         ELSE /\ seen' = [seen EXCEPT ![c] = row[c].status]
              /\ row' = [row EXCEPT ![c].fresh = TRUE]
              /\ caller' = [caller EXCEPT ![c] = "batch"]
              /\ UNCHANGED verdict
    /\ UNCHANGED <<chunks, jobVars, daemonVars, pollVars, service, got>>
    /\ NoFault

(* The chunks with the smallest numbers, at most ReadLimit of them. *)
Batch(c) ==
    {i \in chunks[c] : Cardinality({j \in chunks[c] : j < i}) < ReadLimit}

InOrder(S) ==
    LET at(k) == CHOOSE i \in S : Cardinality({j \in S : j < i}) = k - 1
    IN  [k \in 1 .. Cardinality(S) |-> at(k)]

(* The answer is complete: done was read before an empty batch. *)
Complete(c, batch) == seen[c] = "done" /\ batch = {}

ReadChunks(c) ==
    LET batch == Batch(c)
    IN  /\ caller[c] = "batch"
        /\ chunks' = [chunks EXCEPT ![c] = @ \ batch]
        /\ got' = [got EXCEPT ![c] = @ \o InOrder(batch)]
        /\ CASE Complete(c, batch) -> Leave(c, "whole")
             [] seen[c] \in {"failed", "cancelled"} -> Leave(c, "broken")
             [] OTHER -> /\ caller' = [caller EXCEPT ![c] = "reading"]
                         /\ UNCHANGED verdict
        /\ seen' = [seen EXCEPT ![c] = "none"]
    /\ UNCHANGED <<row, jobVars, daemonVars, pollVars, service>> /\ NoFault

(* aclose: cancel the call unless it has ended, delete its chunks, commit. *)
CloseMark(c) ==
    /\ caller[c] = "mark"
    /\ caller' = [caller EXCEPT ![c] = "sweep"]
    /\ UNCHANGED <<rowVars, jobVars, daemonVars, pollVars, service>>
    /\ UNCHANGED <<seen, got, verdict>> /\ NoFault

(* Seeded fault: chunks are deleted only with a call that was still going on. *)
CloseSweepIfLive(c) ==
    /\ caller[c] = "sweep"
    /\ caller' = [caller EXCEPT ![c] = "closed"]
    /\ row' = Ended({c}, "cancelled")
    /\ chunks' = [chunks EXCEPT ![c] = IF Live(c) THEN {} ELSE @]
    /\ UNCHANGED <<jobVars, daemonVars, pollVars, service>>
    /\ UNCHANGED <<seen, got, verdict>> /\ NoFault

CloseSweep(c) ==
    /\ caller[c] = "sweep"
    /\ caller' = [caller EXCEPT ![c] = "closed"]
    /\ row' = Ended({c}, "cancelled")
    /\ chunks' = [chunks EXCEPT ![c] = {}]
    /\ UNCHANGED <<jobVars, daemonVars, pollVars, service>>
    /\ UNCHANGED <<seen, got, verdict>> /\ NoFault

Active(c) == caller[c] \notin {"new", "closed", "dead"}

(* The caller's process dies; its open transaction is rolled back. *)
CallerDies(c) ==
    /\ Active(c) /\ Fault("caller")
    /\ caller' = [caller EXCEPT ![c] = "dead"]
    /\ UNCHANGED <<rowVars, jobVars, daemonVars, pollVars, service>>
    /\ UNCHANGED <<seen, got, verdict>>

(* LEASE_SECONDS pass without a reading: the caller is dead, or it is held   *)
(* up by what it does with the data.                                         *)
LeaseLapses(c) ==
    /\ Exists(c) /\ row[c].fresh
    /\ \/ caller[c] = "dead" /\ NoFault
       \/ Active(c) /\ Fault("caller")
    /\ row' = [row EXCEPT ![c].fresh = FALSE]
    /\ UNCHANGED <<chunks, callerVars, jobVars, daemonVars, pollVars, service>>

(* The deadline of the row passes; never inside a reading: it lies minutes   *)
(* behind the last frame and behind the caller's own limit, and a reader     *)
(* that was held up renews its lease first, which holds the row.             *)
DeadlinePasses(c) ==
    /\ Exists(c) /\ ~row[c].overdue
    /\ Active(c) /\ caller[c] # "batch" /\ Fault("caller")
    /\ row' = [row EXCEPT ![c].overdue = TRUE]
    /\ UNCHANGED <<chunks, callerVars, jobVars, daemonVars, pollVars, service>>

-----------------------------------------------------------------------------
(* The platform: poll, frames and heartbeat of the node *)

(* Seeded fault: a call whose command may have been lost is handed out again. *)
ClaimableAgain(c) ==
    row[c].status \in {"queued", "running"} /\ ~Stale(c) /\ ~Locked(c)

(* A waiting call may be handed to the node. *)
Claimable(c) == row[c].status = "queued" /\ ~Stale(c) /\ ~Locked(c)

Claim(S) ==
    [c \in Calls |-> IF c \in S THEN [row[c] EXCEPT !.status = "running"]
                                ELSE row[c]]

(* Seeded fault: a row that expired and was deleted is not noticed. *)
OverIfCancelled(S) ==
    {c \in S : service = "off" \/ row[c].status = "cancelled"}

(* What the node reports as running and the platform knows to have ended. *)
Over(S) == {c \in S : service = "off" \/ ~Live(c)}

(* One look of the long poll.  It answers when there is something to say,    *)
(* and with nothing when the wait is over.                                   *)
Collect ==
    LET waiting == {c \in Calls : Claimable(c)}
        room == IF service = "on" THEN poll.slots ELSE 0
    IN  /\ poll.stage = "waiting"
        /\ \E S \in SUBSET waiting :
              /\ Cardinality(S) <= room
              /\ S = waiting \/ Cardinality(S) = room
              /\ row' = Claim(S)
              /\ poll' = [poll EXCEPT !.stage = "answered", !.commands = S,
                                      !.cancelled = Over(poll.running)]
    /\ UNCHANGED <<chunks, callerVars, jobVars, daemonVars, ghost, service>>
    /\ NoFault

(* A poll the node no longer waits for goes on at the platform, and what it  *)
(* claims reaches nobody.                                                    *)
GhostClaims(c) ==
    /\ ghost /\ service = "on" /\ Claimable(c)
    /\ row' = Claim({c})
    /\ ghost' = FALSE
    /\ UNCHANGED <<chunks, callerVars, jobVars, daemonVars, poll, service>>
    /\ NoFault

(* Seeded fault: every frame of a repeated post counts as new. *)
FreshAll(c, p) == 1 .. Len(p.items)

(* What the frames endpoint stores of a post, and what it answers. *)
Fresh(c, p) == {i \in 1 .. Len(p.items) : p.from + i > row[c].next}
Last(c, p) == p.from + Len(p.items)
DataIn(c, p) == {p.from + i : i \in {i \in Fresh(c, p) : p.items[i] = "data"}}

Refused(c, p) ==
    \/ ~Exists(c) \/ row[c].status = "cancelled" \/ row[c].overdue
    \/ /\ Fresh(c, p) # {}
       /\ \/ row[c].status # "running" \/ p.from > row[c].next
          \/ \E i \in Fresh(c, p) :
                i < Len(p.items) /\ p.items[i] \in {"done", "error"}

(* Seeded fault: only what waits already is counted. *)
BufferFullBefore(c, p) ==
    DataIn(c, p) # {} /\ Cardinality(chunks[c]) > MaxBuffered

BufferFull(c, p) ==
    /\ DataIn(c, p) # {}
    /\ Cardinality(chunks[c] \cup DataIn(c, p)) > MaxBuffered

Answer(c, p) ==
    CASE Refused(c, p) -> "refused"
      [] ~Refused(c, p) /\ BufferFull(c, p) -> "later"
      [] OTHER -> "stored"

Store(c, p) ==
    LET last == p.items[Len(p.items)]
        status == CASE last = "done" -> "done"
                    [] last = "error" -> "failed"
                    [] OTHER -> row[c].status
    IN  IF Answer(c, p) = "stored" /\ Fresh(c, p) # {}
          THEN /\ row' = [row EXCEPT
                    ![c].next = Last(c, p),
                    ![c].head = @ \/ (p.from = 0 /\ p.items[1] = "head"),
                    ![c].status = status]
               /\ chunks' = [chunks EXCEPT ![c] = @ \cup DataIn(c, p)]
          ELSE UNCHANGED rowVars

(* Heartbeat of the node: what no caller waits for is cancelled, and expired *)
(* rows are deleted with their chunks.                                       *)
Heartbeat ==
    LET expired == {c \in Calls : Exists(c) /\ row[c].overdue}
        stale == {c \in Calls : Live(c) /\ Stale(c)}
    IN  /\ node # "down" /\ service # "off"
        /\ expired \cup stale # {}
        /\ \A c \in expired \cup stale : ~Locked(c)
        /\ row' = [c \in Calls |->
                IF c \in expired THEN [NoRow EXCEPT !.status = "deleted"]
                                 ELSE Ended(stale, "cancelled")[c]]
        /\ chunks' = [c \in Calls |-> IF c \in expired THEN {} ELSE chunks[c]]
    /\ UNCHANGED <<callerVars, jobVars, daemonVars, pollVars, service>>
    /\ NoFault

(* An administrator drains the node, disables it or takes that back. *)
SetService(s) ==
    /\ s # service /\ Fault("admin")
    /\ service' = s
    /\ UNCHANGED <<rowVars, callerVars, jobVars, daemonVars, pollVars>>

-----------------------------------------------------------------------------
(* The daemon: one execution and its frames *)

(* The post a call waits for: every frame not accepted yet. *)
Unsent(c) == [from |-> acked[c],
              items |-> SubSeq(frames[c], acked[c] + 1, Len(frames[c]))]

(* FrameBatcher.flush numbers the frames ks and posts what is not sent. *)
Flush(c, ks, next) ==
    /\ c \notin posting
    /\ frames' = [frames EXCEPT ![c] = @ \o ks]
    /\ posting' = posting \cup {c}
    /\ wire' = [wire EXCEPT ![c] = @ \cup
                  {[from |-> acked[c], items |-> Unsent(c).items \o ks]}]
    /\ job' = [job EXCEPT ![c] = next]
    /\ UNCHANGED <<rowVars, callerVars, daemonVars, pollVars, service, acked>>
    /\ NoFault

DataMade(c) == Cardinality({i \in 1 .. Len(frames[c]) : frames[c][i] = "data"})

(* What the buffer may hold at a flush: the head if it is the first, data. *)
Buffered(c) ==
    LET head == IF frames[c] = <<>> THEN <<"head">> ELSE <<>>
        data == IF DataMade(c) < plan.data[c] THEN {<<>>, <<"data">>}
                                              ELSE {<<>>}
    IN  {head \o d : d \in data}

(* execute: the answer bit by bit, its end, or the end of a failed one. *)
Produce(c) ==
    \/ /\ job[c] = "run"
       /\ \E ks \in Buffered(c) \ {<<>>} : Flush(c, ks, "run")
    \/ /\ job[c] \in {"run", "finish"}
       /\ \E ks \in Buffered(c) : Flush(c, ks \o <<"done">>, "done")
    \/ /\ job[c] \in {"run", "fail"}
       /\ Flush(c, <<"error">>, "failed")

(* The flush fails.  Inside the execution the next add() raises, or finish() *)
(* tries once more; the failure of a last flush is the end.                  *)
FlushFails(c) ==
    /\ posting' = posting \ {c}
    /\ \E next \in CASE job[c] = "run" -> {"fail", "finish"}
                     [] job[c] = "done" -> {"fail"}
                     [] OTHER -> {"over"} :
          job' = [job EXCEPT ![c] = next]
    /\ UNCHANGED acked

FlushSucceeds(c) ==
    /\ posting' = posting \ {c}
    /\ acked' = [acked EXCEPT ![c] = Len(frames[c])]
    /\ job' = [job EXCEPT ![c] = IF @ \in {"done", "failed"} THEN "over"
                                                            ELSE @]

(* The platform handles a post.  The daemon hears the answer if it still     *)
(* waits for this post and the answer is not lost; the post may have been    *)
(* doubled on its way.                                                       *)
HandleFrames(c) ==
    \E p \in wire[c] :
        /\ ~Locked(c) /\ service # "off"
        /\ Store(c, p)
        /\ \/ /\ c \in posting /\ p = Unsent(c)
              /\ \/ Answer(c, p) = "stored" /\ FlushSucceeds(c)
                 \/ Answer(c, p) = "refused" /\ FlushFails(c)
                 \/ Answer(c, p) = "later" /\ UNCHANGED <<posting, acked, job>>
              /\ wire' = [wire EXCEPT ![c] = @ \ {p}] /\ NoFault
           \/ /\ c \in posting /\ p = Unsent(c)
              /\ UNCHANGED <<posting, acked, job>>
              /\ wire' = [wire EXCEPT ![c] = @ \ {p}] /\ Fault("wire")
           \/ /\ c \notin posting \/ p # Unsent(c)
              /\ UNCHANGED <<posting, acked, job>>
              /\ wire' = [wire EXCEPT ![c] = @ \ {p}] /\ NoFault
           \/ /\ UNCHANGED <<posting, acked, job, wire>> /\ Fault("wire")
        /\ UNCHANGED <<callerVars, daemonVars, pollVars, service, frames>>

(* A post is lost on its way. *)
LosePost(c) ==
    \E p \in wire[c] :
        /\ Fault("wire")
        /\ wire' = [wire EXCEPT ![c] = @ \ {p}]
        /\ UNCHANGED <<rowVars, callerVars, daemonVars, pollVars, service>>
        /\ UNCHANGED <<job, frames, acked, posting>>

(* api(retry=True): after a lost answer or 429, the same post again. *)
Resend(c) ==
    /\ c \in posting /\ Unsent(c) \notin wire[c] /\ node # "down"
    /\ wire' = [wire EXCEPT ![c] = @ \cup {Unsent(c)}]
    /\ UNCHANGED <<rowVars, callerVars, daemonVars, pollVars, service>>
    /\ UNCHANGED <<job, frames, acked, posting>> /\ NoFault

(* FRAME_RETRY_SECONDS have passed, or the node was refused. *)
RetryEnds(c) ==
    /\ c \in posting
    /\ FlushFails(c)
    /\ IF service = "off" \/ Cardinality(chunks[c]) = MaxBuffered
         THEN NoFault ELSE Fault("wire")
    /\ UNCHANGED <<rowVars, callerVars, daemonVars, pollVars, service>>
    /\ UNCHANGED <<frames, wire>>

(* A cancelled task has ended. *)
JobStops(c) ==
    /\ job[c] = "stop"
    /\ job' = [job EXCEPT ![c] = "over"]
    /\ UNCHANGED <<rowVars, callerVars, daemonVars, pollVars, service>>
    /\ UNCHANGED <<frames, acked, posting, wire>> /\ NoFault

-----------------------------------------------------------------------------
(* The daemon: its poll, its control lease, its end *)

Working(c) == job[c] \notin {"none", "over"}

(* The tasks that have not finished, and the places they leave free. *)
Tracked == {c \in tracked : Working(c)}

(* Seeded fault: a task that was asked to stop takes no place any more. *)
FreeEarly == MaxConcurrent - Cardinality(Tracked \ asked)

Free == MaxConcurrent - Cardinality(Tracked)

(* poll_once: finished tasks are forgotten and free places are counted.  The *)
(* platform ends what the node reports as given up, and what it still runs   *)
(* for a caller that has left.  A poll that does not arrive changes nothing; *)
(* a node that is off is refused.                                            *)
PollSend ==
    LET running == Tracked \ asked
        stale == {c \in running : Stale(c)} \ abandoned
        failed == Ended(abandoned, "failed")
    IN  /\ node = "up" /\ poll.stage = "idle" /\ service # "off"
        /\ \A c \in abandoned \cup stale : ~Locked(c)
        /\ row' = [c \in Calls |-> IF c \in stale
                                    THEN Ended(stale, "cancelled")[c]
                                    ELSE failed[c]]
        /\ tracked' = Tracked
        /\ asked' = asked \cap Tracked
        /\ poll' = [NoPoll EXCEPT
                        !.stage = "waiting", !.running = running,
                        !.abandoned = abandoned,
                        !.slots = Free]
    /\ UNCHANGED <<chunks, callerVars, jobVars, service, ghost>>
    /\ UNCHANGED <<node, abandoned, starts>> /\ NoFault

(* The jobs after the tasks in S were cancelled; nothing more is posted. *)
Cancelled(S) == [c \in Calls |-> IF c \in S /\ Working(c) THEN "stop"
                                                          ELSE job[c]]

(* The answer: cancel what has ended, start what was claimed; while stopping *)
(* the claimed calls are handed back.                                        *)
Receive ==
    LET stopped == poll.cancelled \cap tracked
        new == IF node = "up" THEN poll.commands ELSE {}
    IN  /\ poll.stage = "answered" /\ node # "down"
        /\ poll' = NoPoll
        /\ asked' = asked \cup stopped
        /\ abandoned' = (abandoned \ poll.abandoned)
                          \cup (poll.commands \ new)
        /\ job' = [c \in Calls |-> IF c \in new THEN "run"
                                                ELSE Cancelled(stopped)[c]]
        /\ posting' = posting \ stopped
        /\ tracked' = tracked \cup new
        /\ starts' = [c \in Calls |-> starts[c] + (IF c \in new THEN 1 ELSE 0)]
    /\ UNCHANGED <<rowVars, callerVars, service, ghost, node>>
    /\ UNCHANGED <<frames, acked, wire>> /\ NoFault

(* The poll or its answer is lost; the platform may still work on it. *)
LosePoll ==
    /\ poll.stage # "idle" /\ node # "down" /\ Fault("poll")
    /\ ghost' = (ghost \/ (poll.stage = "waiting" /\ poll.slots > 0))
    /\ poll' = NoPoll
    /\ UNCHANGED <<rowVars, callerVars, jobVars, daemonVars, service>>

(* Without a free place the wait is dropped when one becomes free. *)
DropPoll ==
    /\ poll.stage = "waiting" /\ poll.slots = 0
    /\ node = "stopping" \/ \E c \in tracked : ~Working(c)
    /\ poll' = NoPoll
    /\ UNCHANGED <<rowVars, callerVars, jobVars, daemonVars, service, ghost>>
    /\ NoFault

(* watch_control_lease: no poll was answered for CONTROL_LEASE_SECONDS. *)
LoseControl ==
    /\ node # "down" /\ tracked # {}
    /\ IF service = "off" THEN NoFault ELSE Fault("poll")
    /\ abandoned' = abandoned \cup tracked
    /\ job' = Cancelled(tracked)
    /\ posting' = posting \ tracked
    /\ tracked' = {}
    /\ UNCHANGED <<rowVars, callerVars, pollVars, service>>
    /\ UNCHANGED <<frames, acked, wire, node, asked, starts>>

StopNode ==
    /\ node = "up" /\ Fault("node")
    /\ node' = "stopping"
    /\ UNCHANGED <<rowVars, callerVars, jobVars, pollVars, service>>
    /\ UNCHANGED <<tracked, asked, abandoned, starts>>

(* The stopping daemon hands back what it has not started. *)
HandBack ==
    /\ node = "stopping" /\ poll.stage = "idle" /\ abandoned # {}
    /\ service # "off" /\ \A c \in abandoned : ~Locked(c)
    /\ row' = Ended(abandoned, "failed")
    /\ abandoned' = {}
    /\ UNCHANGED <<chunks, callerVars, jobVars, pollVars, service>>
    /\ UNCHANGED <<node, tracked, asked, starts>> /\ NoFault

(* The process is gone, its executions with it. *)
Die ==
    /\ node' = "down"
    /\ job' = [c \in Calls |-> IF Working(c) THEN "over" ELSE job[c]]
    /\ posting' = {} /\ tracked' = {} /\ asked' = {} /\ abandoned' = {}
    /\ poll' = NoPoll
    /\ ghost' = (ghost \/ (poll.stage = "waiting" /\ poll.slots > 0))
    /\ UNCHANGED <<rowVars, callerVars, service, frames, acked, wire, starts>>

Exit == node = "stopping" /\ poll.stage = "idle" /\ Die /\ NoFault
Crash == node # "down" /\ Die /\ Fault("node")

Restart ==
    /\ node = "down" /\ node' = "up"
    /\ UNCHANGED <<rowVars, callerVars, jobVars, pollVars, service>>
    /\ UNCHANGED <<tracked, asked, abandoned, starts>> /\ NoFault

-----------------------------------------------------------------------------
CallerStep(c) ==
    \/ Check(c) \/ Insert(c) \/ Await(c) \/ GiveUp(c)
    \/ ReadRow(c) \/ ReadChunks(c) \/ CloseMark(c) \/ CloseSweep(c)

ClockStep(c) == LeaseLapses(c) \/ DeadlinePasses(c)

JobStep(c) ==
    \/ Produce(c) \/ HandleFrames(c) \/ Resend(c) \/ RetryEnds(c)
    \/ JobStops(c)

DaemonStep ==
    \/ PollSend \/ Receive \/ DropPoll \/ LoseControl
    \/ HandBack \/ Exit \/ Restart

FaultStep ==
    \/ \E c \in Calls : CallerDies(c) \/ LosePost(c)
    \/ \E s \in {"on", "draining", "off"} : SetService(s)
    \/ LosePoll \/ StopNode \/ Crash

Next ==
    \/ \E c \in Calls :
          CallerStep(c) \/ ClockStep(c) \/ JobStep(c) \/ GhostClaims(c)
    \/ Collect \/ Heartbeat
    \/ DaemonStep
    \/ FaultStep

Spec == Init /\ [][Next]_vars

(* The loops of the daemon and the platform run on, the clock too; a caller  *)
(* that closes a call gets its transaction through.  Nothing is assumed of   *)
(* an execution: it may hang.                                                *)
FairSpec ==
    /\ Spec
    /\ \A c \in Calls :
          /\ WF_vars(CloseMark(c)) /\ WF_vars(CloseSweep(c))
          /\ WF_vars(LeaseLapses(c) /\ caller[c] = "dead")
          /\ WF_vars(JobStops(c))
    /\ WF_vars(PollSend) /\ WF_vars(Collect)
    /\ WF_vars(Receive) /\ WF_vars(DropPoll)
    /\ WF_vars(LoseControl /\ service = "off")
    /\ WF_vars(Exit) /\ WF_vars(Restart)

-----------------------------------------------------------------------------
(* Properties *)

(* The variables stay in their types, the platform knows no frame that was   *)
(* not produced, and no more chunks of a call wait than the frames endpoint  *)
(* lets in.                                                                  *)
TypeOK ==
    /\ plan \in Plans
    /\ row \in [Calls -> [status : Statuses, next : Nat, head : BOOLEAN,
                          fresh : BOOLEAN, overdue : BOOLEAN]]
    /\ frames \in [Calls -> Seq(Kinds)]
    /\ acked \in [Calls -> Nat]
    /\ \A c \in Calls :
          /\ {row[c].next, acked[c]} \subseteq 0 .. Len(frames[c])
          /\ chunks[c] \subseteq 1 .. Len(frames[c])
          /\ Cardinality(chunks[c]) <= MaxBuffered
    /\ caller \in [Calls -> Stages] /\ seen \in [Calls -> Statuses]
    /\ got \in [Calls -> Seq(Nat)]
    /\ verdict \in [Calls -> {"none", "whole", "broken", "busy"}]
    /\ service \in {"on", "draining", "off"}
    /\ node \in {"up", "stopping", "down"}
    /\ job \in [Calls -> Jobs]
    /\ UNION {posting, tracked, asked, abandoned} \subseteq Calls
    /\ poll.stage \in {"idle", "waiting", "answered"}
    /\ poll.slots \in 0 .. MaxConcurrent
    /\ ghost \in BOOLEAN
    /\ starts \in [Calls -> Nat] /\ faults \in 0 .. plan.faults

(* The numbers of the data frames of an execution, up to its end. *)
Data(c) ==
    {i \in 1 .. Len(frames[c]) :
        frames[c][i] = "data" /\ \A j \in 1 .. i : frames[c][j] # "done"}

(* A reader sees the data in the order of its production, without a gap, and *)
(* is told that the answer is complete only when it has seen all of it and   *)
(* the execution came to its proper end (transport.py:445, ReverseStream).   *)
ReadInOrder ==
    \A c \in Calls :
        LET all == InOrder(Data(c))
        IN  /\ Len(got[c]) <= Len(all)
            /\ \A i \in DOMAIN got[c] : got[c][i] = all[i]
            /\ verdict[c] = "whole" =>
                  /\ Len(got[c]) = Len(all)
                  /\ \E i \in 1 .. Len(frames[c]) : frames[c][i] = "done"

(* No call is executed twice, whatever answers are lost: transport.py:5, "a  *)
(* lost caller must not repeat side effects".                                *)
StartedOnce == \A c \in Calls : starts[c] <= 1

(* The node runs no more calls at once than its limit, those that are being  *)
(* stopped included, apart from calls it has dropped with its control lease. *)
WithinLimit ==
    Cardinality({c \in tracked : Working(c)}) <= MaxConcurrent

(* When a caller has closed its call, no part of the answer is left in the   *)
(* database, and none comes later (aclose against the frames endpoint).      *)
NothingLeft == \A c \in Calls : caller[c] = "closed" => chunks[c] = {}

(* An ended call never changes its status again; it is only deleted. *)
EndIsFinal ==
    [][\A c \in Calls :
          row[c].status \in Terminal =>
              row'[c].status \in {row[c].status, "deleted"}]_vars

(* A node does not work for ever for a caller that has gone. *)
OrphansStop ==
    \A c \in Calls :
        (caller[c] \in {"closed", "dead"} /\ Working(c)) ~> ~Working(c)

==============================================================================
