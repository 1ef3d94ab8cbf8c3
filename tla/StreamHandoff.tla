---------------------------- MODULE StreamHandoff ----------------------------
(***************************************************************************)
(* One answer on its way to a WeCom user: the row of task_streams between   *)
(* the worker that writes the text, the gateways that show it in the        *)
(* platform's bubble, and the outbox that carries what the bubble cannot    *)
(* (core/bus/streams.py, gateway_wecom/pusher.py, runner.py,                *)
(* worker/background.py, stream_writer.py, chat/finalize.py, reaper.py).    *)
(*                                                                         *)
(* The text is the segments 1..len; Mark is the verdict that ends it (the   *)
(* done mark, or the notice of a failure).  Gateway 1 received the message; *)
(* gateway 2 is the holder of the bot's next lease.                         *)
(***************************************************************************)
EXTENDS Naturals

CONSTANTS MaxText,   \* bound: segments of the answer
          MaxFaults  \* bound: crashes, lost answers, refused frames

ASSUME StreamAssumption == MaxText \in Nat /\ MaxFaults \in Nat

Mark == MaxText + 1
Gateway == {1, 2}
Opener == 1
Keys == {"final", "gap", "lost", "recovery", "progress"}
Stages == {"run", "switching", "ended", "told", "owing", "done", "dead"}
Verdicts == {"active", "success", "failure", "lost"}

VARIABLES
    row,         \* the row of task_streams, see Rows
    news,        \* version > pushed_version
    fresh,       \* gateways that have read the current version
    task,        \* "active" or how the task ended
    incremental, \* the employee's verbosity asks for progress messages
    stage,       \* where the worker stands
    text,        \* length of the worker's text in memory
    heard,       \* the delivery state its last flush returned
    switched,    \* the worker pushes proactively ...
    offset,      \* ... from here, or the offset its completion returned
    up,          \* [Gateway -> BOOLEAN]
    pc,          \* what the gateway does under its lock
    copy,        \* the row as it read it
    late,        \* an error that comes late is being handled
    lateCopy,    \* the row as that handler read it
    acked,       \* longest text of a frame the platform really took
    known,       \* an acknowledged frame makes late errors traceable
    blocked,     \* the stream is known to be dead
    confirmed,   \* the length frozen when it was blocked
    bubble,      \* what the bubble shows
    live,        \* the platform still takes frames of this stream
    reply,       \* the reply of a frame whose wait has timed out
    slow,        \* there has been one
    mail,        \* [Keys -> set of segments queued in the outbox]
    faults,      \* faults so far
    misjudged,   \* a gateway gave up, as one it still shows itself, a stream
                 \* that was proactive already
    abandoned    \* the worker left a final text that nobody else knows of

rowVars == <<row, news, fresh>>
workerVars == <<incremental, stage, text, heard, switched, offset>>
pushVars == <<up, pc, copy>>
lateVars == <<late, lateCopy>>
ackVars == <<acked, known, blocked, confirmed>>
platformVars == <<bubble, live, reply, slow>>
gatewayVars == <<pushVars, lateVars, ackVars, platformVars>>
flagVars == <<misjudged, abandoned>>
otherVars == <<incremental, gatewayVars, faults, flagVars>>
vars == <<rowVars, task, workerVars, gatewayVars, mail, faults, flagVars>>

Segments == 1..Mark
Rows == [proactive : BOOLEAN, off : 0..MaxText, written : 0..MaxText,
         complete : BOOLEAN, final : SUBSET Segments, finish : BOOLEAN]

(* The text up to n, with the verdict or without. *)
Ending(n, verdict) == {s \in Segments : s <= n \/ (s = Mark /\ verdict)}

Fault == faults < MaxFaults /\ faults' = faults + 1

(* Text that a user has, in the bubble or in a message of the outbox. *)
Seen == bubble \cup UNION {mail[k] : k \in Keys}

(* outbox.add(): a key is used once; blank text is not queued. *)
Queue(k, segs) == mail' = [mail EXCEPT ![k] = IF @ = {} THEN segs ELSE @]

(* Every write of the worker, the reaper or the recovery raises the version. *)
Write(r) == row' = r /\ news' = TRUE /\ fresh' = {}

(* mark_pushed() of the version in hand. *)
Acknowledge(g) == news' = (news /\ g \notin fresh) /\ UNCHANGED fresh

------------------------------------------------------------------------------
(* The worker *)

Produce ==
    /\ stage = "run" /\ text < MaxText
    /\ text' = text + 1
    /\ UNCHANGED <<rowVars, task, stage, heard, switched, offset, mail,
                   otherVars>>

(* flush(): the delivery state comes back with the update. *)
Flushed ==
    /\ Write([row EXCEPT !.written = text])
    /\ heard' = [proactive |-> row.proactive, off |-> row.off]

Flush ==
    /\ stage = "run"
    /\ row.written # text \/ heard.proactive # row.proactive
    /\ Flushed
    /\ UNCHANGED <<task, stage, text, switched, offset, mail, otherVars>>

(* tick(): a gateway made the stream proactive. *)
Adopt ==
    /\ stage = "run" /\ ~switched /\ heard.proactive
    /\ switched' = TRUE
    /\ offset' = heard.off
    /\ UNCHANGED <<rowVars, task, stage, text, heard, mail, otherVars>>

(* _switch(): the time of the bubble is over; first what is in memory ... *)
SwitchFlush ==
    /\ stage = "run" /\ ~switched
    /\ switched' = TRUE /\ stage' = "switching"
    /\ Flushed
    /\ UNCHANGED <<task, text, offset, mail, otherVars>>

SwitchBlindly ==
    /\ stage = "switching"
    /\ Write([row EXCEPT !.proactive = TRUE, !.off = text])
    /\ offset' = text /\ stage' = "run"
    /\ UNCHANGED <<task, text, heard, switched, mail, otherVars>>

(* ... then, under the row's lock, the mode; a gateway's offset is kept. *)
SwitchWrite ==
    /\ stage = "switching"
    /\ LET off == IF row.proactive THEN row.off ELSE text IN
         /\ Write([row EXCEPT !.proactive = TRUE, !.off = off])
         /\ offset' = off
    /\ stage' = "run"
    /\ UNCHANGED <<task, incremental, text, heard, switched, gatewayVars, mail,
                   faults>>
    /\ abandoned' = (abandoned \/ row.complete)
    /\ UNCHANGED misjudged

PushProgressAhead ==
    /\ stage = "run" /\ switched /\ incremental
    /\ \E e \in (offset + 1)..text :
         /\ mail' = [mail EXCEPT !["progress"] = @ \cup ((offset + 1)..e)]
         /\ offset' = e + 1
    /\ UNCHANGED <<rowVars, task, stage, text, heard, switched, otherVars>>

(* on_progress(): the next part of the text, under a key of its own. *)
PushProgress ==
    /\ stage = "run" /\ switched /\ incremental
    /\ \E e \in (offset + 1)..text :
         /\ mail' = [mail EXCEPT !["progress"] = @ \cup ((offset + 1)..e)]
         /\ offset' = e
    /\ UNCHANGED <<rowVars, task, stage, text, heard, switched, otherVars>>

(* _finalize(): a task that has been ended meanwhile is left alone. *)
EndTask ==
    /\ stage = "run"
    /\ IF task = "active"
       THEN /\ task' \in {"success", "failure"}
            /\ stage' = "ended"
       ELSE stage' = "done" /\ UNCHANGED task
    /\ UNCHANGED <<rowVars, text, heard, switched, offset, mail, otherVars>>

Answer == IF task = "success" THEN 1..text \cup {Mark} ELSE {Mark}

(* A success is sent from the offset on, a failure always whole. *)
Rest(whole) ==
    {s \in Answer : task = "success" /\ ~whole => s > offset}

(* on_finish() *)
Tell ==
    /\ stage = "ended" /\ switched
    /\ Queue("final", Rest(~incremental))
    /\ stage' = "told"
    /\ UNCHANGED <<rowVars, task, text, heard, switched, offset, otherVars>>

(* complete() returns the mode and the offset that the row then has. *)
Complete ==
    /\ IF switched THEN stage = "told" ELSE stage = "ended"
    /\ Write([row EXCEPT !.complete = TRUE, !.final = Answer, !.written = text])
    /\ IF ~switched /\ row.proactive
       THEN stage' = "owing" /\ offset' = row.off
       ELSE stage' = "done" /\ UNCHANGED offset
    /\ UNCHANGED <<task, text, heard, switched, mail, otherVars>>

(* _push_if_proactive(): a gateway gave the stream up before. *)
PushFinal ==
    /\ stage = "owing"
    /\ Queue("final", Rest(FALSE))
    /\ stage' = "done"
    /\ UNCHANGED <<rowVars, task, text, heard, switched, offset, otherVars>>

WorkerDies ==
    /\ stage \notin {"done", "dead"} /\ Fault
    /\ stage' = "dead"
    /\ abandoned' = (abandoned \/ stage = "owing")
    /\ UNCHANGED <<rowVars, task, incremental, text, heard, switched, offset,
                   gatewayVars, mail, misjudged>>

------------------------------------------------------------------------------
(* The scheduler *)

(* reap_lost_tasks() and _tell_user(); a worker cut off from the database  *)
(* is taken for dead, which counts as a fault.                             *)
ReapLost ==
    /\ task = "active" /\ stage \in {"run", "switching", "dead"}
    /\ IF stage = "dead" THEN UNCHANGED faults ELSE Fault
    /\ task' = "lost"
    /\ LET pushable == ~row.proactive /\ ~row.finish IN
         /\ Write([row EXCEPT !.complete = TRUE,
                     !.final = Ending(IF pushable THEN row.written ELSE 0, TRUE)])
         /\ IF pushable THEN UNCHANGED mail ELSE Queue("lost", {Mark})
    /\ UNCHANGED <<workerVars, gatewayVars, flagVars>>

(* recover_terminal_streams(): a minute after the end of the task, which a *)
(* worker that lives needs less than to complete its stream.               *)
Recover ==
    /\ stage = "dead" /\ task \in {"success", "failure"} /\ ~row.complete
    /\ LET final == Ending(row.written, task = "failure") IN
         /\ Write([row EXCEPT !.complete = TRUE, !.final = final])
         /\ IF row.proactive \/ row.finish
            THEN Queue("recovery", final)
            ELSE UNCHANGED mail
    /\ UNCHANGED <<task, workerVars, gatewayVars, faults, flagVars>>

------------------------------------------------------------------------------
(* The gateways *)

(* The final text from the offset c on, or whole if the task failed. *)
DeliverFinal(c) ==
    /\ Queue("final", {s \in row.final : task = "success" => s > c})
    /\ row' = [row EXCEPT !.finish = TRUE]
    /\ news' = FALSE
    /\ misjudged' = (misjudged \/ row.proactive)
    /\ UNCHANGED fresh

(* switch_to_proactive() changes no row that is complete: then the final   *)
(* text is the gateway's to deliver.                                       *)
ToProactiveOnly(c) ==
    IF row.complete
    THEN UNCHANGED <<rowVars, mail, misjudged>>
    ELSE /\ row' = [row EXCEPT !.proactive = TRUE, !.off = c, !.finish = TRUE]
         /\ news' = FALSE /\ fresh' = {}
         /\ misjudged' = (misjudged \/ row.proactive)
         /\ UNCHANGED mail

ToProactive(c) ==
    IF row.complete
    THEN DeliverFinal(c)
    ELSE /\ row' = [row EXCEPT !.proactive = TRUE, !.off = c, !.finish = TRUE]
         /\ news' = FALSE /\ fresh' = {}
         /\ misjudged' = (misjudged \/ row.proactive)
         /\ UNCHANGED mail

(* The part of the text that a refused last frame should have shown. *)
Gap(r, c) == {s \in 1..r.written : c < s /\ s <= r.off}

(* hand_off() of the row as it was read, c of it delivered. *)
HandOff(g, r, c) ==
    IF r.proactive
    THEN /\ Queue("gap", Gap(r, c))
         /\ row' = [row EXCEPT !.finish = TRUE]
         /\ Acknowledge(g)
         /\ UNCHANGED misjudged
    ELSE IF r.complete THEN DeliverFinal(c) ELSE ToProactive(c)

(* delivered_len(): frames younger than ERRCODE_DELAY_BUDGET do not count, *)
(* and once the stream is blocked the length stays.                        *)
Delivered == IF blocked THEN {confirmed} ELSE 0..acked

Block(c) == blocked' = TRUE /\ confirmed' = c

Blank == [proactive |-> FALSE, off |-> 0, written |-> 0,
          complete |-> FALSE, final |-> {}, finish |-> FALSE]

Return(g, to) ==
    /\ pc' = [pc EXCEPT ![g] = to]
    /\ copy' = [copy EXCEPT ![g] = Blank]
    /\ UNCHANGED up

(* What may become of a frame: whether the bubble shows it, what the gateway *)
(* learns in time, the reply that is still to come, whether it is a fault.  *)
(* Replies are matched by the request alone, so a late reply to an earlier  *)
(* frame answers the next one.                                              *)
Fates ==
    CASE reply = "none" /\ live ->
           {<<TRUE, "sent", "none", FALSE>>, <<TRUE, "offline", "ok", FALSE>>,
            <<FALSE, "retry", "none", TRUE>>, <<FALSE, "dead", "none", TRUE>>,
            <<FALSE, "offline", "none", TRUE>>, <<FALSE, "offline", "dead", TRUE>>}
      [] reply = "none" /\ ~live ->
           {<<FALSE, "dead", "none", FALSE>>,
            <<FALSE, "offline", "none", TRUE>>, <<FALSE, "offline", "dead", TRUE>>}
      [] reply = "ok" /\ live ->
           {<<TRUE, "sent", "ok", FALSE>>, <<FALSE, "sent", "dead", TRUE>>}
      [] reply = "ok" /\ ~live -> {<<FALSE, "sent", "dead", FALSE>>}
      [] reply = "dead" -> {<<FALSE, "dead", "dead", FALSE>>}

(* One frame with these segments, carrying len of the text. *)
Transmit(fate, segs, len, finish) ==
    /\ IF fate[4] THEN Fault ELSE UNCHANGED faults
    /\ bubble' = IF fate[1] THEN segs ELSE bubble
    /\ live' = (live /\ "dead" \notin {fate[2], fate[3]} /\ ~(fate[1] /\ finish))
    /\ reply' = fate[3]
    /\ slow' = (slow \/ fate[3] # "none")
    /\ acked' = IF fate[1] /\ fate[2] = "sent" THEN len ELSE acked
    /\ known' = (known \/ fate[2] = "sent")

(* push_pending() reads the row while something is to be shown. *)
ReadRow(g) ==
    /\ up[g] /\ pc[g] = "idle"
    /\ news \/ (row.complete /\ ~row.finish)
    /\ pc' = [pc EXCEPT ![g] = "push"]
    /\ copy' = [copy EXCEPT ![g] = row]
    /\ fresh' = fresh \cup {g}
    /\ UNCHANGED <<row, news, task, workerVars, up, lateVars, ackVars,
                   platformVars, mail, faults, flagVars>>

(* Nothing may follow a finish. *)
Quiet(g) ==
    /\ pc[g] = "push" /\ copy[g].finish
    /\ Acknowledge(g)
    /\ Return(g, "idle")
    /\ UNCHANGED <<row, task, workerVars, lateVars, ackVars, platformVars,
                   mail, faults, flagVars>>

(* The platform has declared the stream dead. *)
PassOn(g) ==
    /\ pc[g] = "push" /\ ~copy[g].finish /\ g = Opener /\ blocked
    /\ HandOff(g, copy[g], confirmed)
    /\ Return(g, "idle")
    /\ UNCHANGED <<task, workerVars, lateVars, ackVars, platformVars, faults,
                   abandoned>>

(* _takeover(): the bubble belongs to a connection of the former holder. *)
Takeover(g) ==
    /\ pc[g] = "push" /\ ~copy[g].finish /\ g # Opener
    /\ ToProactive(0)
    /\ Return(g, "idle")
    /\ UNCHANGED <<task, workerVars, lateVars, ackVars, platformVars, faults,
                   abandoned>>

UpToOffsetAndOn(r) == 1..r.written

(* _view_up_to(): what comes after the offset is the worker's to send. *)
UpToOffset(r) == (1..r.off) \cap (1..r.written)

(* The branches that send: the last frame of a stream given up or complete, *)
(* or the text so far.                                                      *)
Push(g) ==
    /\ pc[g] = "push" /\ ~copy[g].finish /\ g = Opener /\ ~blocked
    /\ LET r == copy[g]
           finish == r.proactive \/ r.complete
           segs == CASE r.proactive -> UpToOffset(r)
                     [] ~r.proactive /\ r.complete -> r.final
                     [] OTHER -> 1..r.written
       IN \E fate \in Fates :
            /\ Transmit(fate, segs, r.written, finish)
            /\ CASE fate[2] = "sent" ->
                      /\ row' = [row EXCEPT !.finish = @ \/ finish]
                      /\ Acknowledge(g)
                      /\ UNCHANGED <<mail, blocked, confirmed, misjudged>>
                 [] fate[2] = "dead" ->
                      \E c \in Delivered : Block(c) /\ HandOff(g, r, c)
                 [] OTHER ->
                      UNCHANGED <<rowVars, mail, blocked, confirmed, misjudged>>
    /\ Return(g, "idle")
    /\ UNCHANGED <<task, workerVars, lateVars, abandoned>>

(* drain(): the last frame of every stream that has none, then the mode. *)
DrainRead ==
    /\ up[Opener] /\ pc[Opener] = "idle"
    /\ pc' = [pc EXCEPT ![Opener] = IF row.finish THEN "drained" ELSE "drain"]
    /\ copy' = [copy EXCEPT ![Opener] = IF row.finish THEN Blank ELSE row]
    /\ fresh' = fresh \cup {Opener}
    /\ UNCHANGED <<row, news, task, workerVars, up, lateVars, ackVars,
                   platformVars, mail, faults, flagVars>>

DrainSend ==
    /\ pc[Opener] = "drain"
    /\ LET r == copy[Opener] IN
       \E fate \in Fates : \E c \in Delivered :
         /\ Transmit(fate, IF r.complete THEN r.final ELSE 1..r.written,
                     r.written, TRUE)
         /\ IF fate[2] = "dead"
            THEN Block(c)
            ELSE UNCHANGED <<blocked, confirmed>>
         /\ CASE r.complete /\ fate[2] = "sent" ->
                   /\ row' = [row EXCEPT !.finish = TRUE]
                   /\ Acknowledge(Opener)
                   /\ UNCHANGED <<mail, misjudged>>
              [] r.complete /\ fate[2] # "sent" -> DeliverFinal(c)
              [] OTHER -> ToProactive(IF fate[2] = "sent" THEN r.written ELSE c)
         /\ abandoned' = (abandoned \/ (/\ fate[2] = "sent" /\ ~fate[1]
                                        /\ row.complete /\ ~r.complete))
    /\ Return(Opener, "drained")
    /\ UNCHANGED <<task, workerVars, lateVars>>

(* The connection of a drained bot stays open while an error may come. *)
Stop ==
    /\ pc[Opener] = "drained" /\ reply # "dead" /\ ~late /\ up[Opener]
    /\ up' = [up EXCEPT ![Opener] = FALSE]
    /\ reply' = "none"
    /\ UNCHANGED <<pc, copy, rowVars, task, workerVars, lateVars, ackVars,
                   bubble, live, slow, mail, faults, flagVars>>

(* The gateway dies, or closes the connection because its lease is lost. *)
GatewayDies ==
    /\ up[Opener] /\ Fault
    /\ up' = [up EXCEPT ![Opener] = FALSE]
    /\ pc' = [pc EXCEPT ![Opener] = "drained"]
    /\ copy' = [copy EXCEPT ![Opener] = Blank]
    /\ late' = FALSE /\ lateCopy' = Blank /\ reply' = "none"
    /\ abandoned' = (abandoned \/ late \/ (reply = "dead" /\ known))
    /\ UNCHANGED <<rowVars, task, workerVars, ackVars, bubble, live, slow,
                   mail, misjudged>>

(* The next lease: its gateway meets the streams of the former one. *)
Succeed ==
    /\ ~up[2]
    /\ up' = [up EXCEPT ![2] = TRUE]
    /\ UNCHANGED <<pc, copy, rowVars, task, workerVars, lateVars, ackVars,
                   platformVars, mail, faults, flagVars>>

(* A reply nobody waits for any more; an error is traced to the stream if   *)
(* one of its frames was acknowledged: note_stream_dead(), outside the lock. *)
LateReply ==
    /\ up[Opener] /\ reply # "none" /\ ~late
    /\ reply' = "none"
    /\ IF reply = "dead" /\ known
       THEN /\ late' = TRUE /\ lateCopy' = row
            /\ \E c \in Delivered : Block(c)
       ELSE UNCHANGED <<lateVars, blocked, confirmed>>
    /\ UNCHANGED <<rowVars, task, workerVars, pushVars, acked, known, bubble,
                   live, slow, mail, faults, flagVars>>

NoteStreamDead ==
    /\ late
    /\ late' = FALSE /\ lateCopy' = Blank
    /\ IF lateCopy.proactive
       THEN /\ Queue("gap", Gap(lateCopy, confirmed))
            /\ UNCHANGED <<rowVars, misjudged>>
       ELSE HandOff(Opener, lateCopy, confirmed)
    /\ UNCHANGED <<task, workerVars, pushVars, ackVars, platformVars, faults,
                   abandoned>>

------------------------------------------------------------------------------
Init ==
    /\ row = Blank /\ news = FALSE /\ fresh = {}
    /\ task = "active"
    /\ incremental \in BOOLEAN
    /\ stage = "run" /\ text = 0
    /\ heard = [proactive |-> FALSE, off |-> 0]
    /\ switched = FALSE /\ offset = 0
    /\ up = [g \in Gateway |-> g = Opener]
    /\ pc = [g \in Gateway |-> "idle"]
    /\ copy = [g \in Gateway |-> Blank]
    /\ late = FALSE /\ lateCopy = Blank
    /\ acked = 0 /\ known = FALSE /\ blocked = FALSE /\ confirmed = 0
    /\ bubble = {} /\ live = TRUE /\ reply = "none" /\ slow = FALSE
    /\ mail = [k \in Keys |-> {}]
    /\ faults = 0 /\ misjudged = FALSE /\ abandoned = FALSE

WorkerStep ==
    \/ Produce \/ Flush \/ Adopt \/ SwitchFlush \/ SwitchWrite \/ PushProgress
    \/ EndTask \/ Tell \/ Complete \/ PushFinal

Act(g) == Quiet(g) \/ PassOn(g) \/ Takeover(g) \/ Push(g)

GatewayStep ==
    \/ \E g \in Gateway : ReadRow(g) \/ Act(g)
    \/ DrainRead \/ DrainSend \/ Stop \/ Succeed \/ LateReply \/ NoteStreamDead

Next ==
    \/ WorkerStep \/ GatewayStep
    \/ ReapLost \/ Recover \/ WorkerDies \/ GatewayDies

Spec == Init /\ [][Next]_vars

(* The worker gets to the end of its turn, processes take their steps, and  *)
(* a bot whose gateway is gone finds another.                               *)
Fairness ==
    /\ WF_vars(SwitchWrite \/ EndTask \/ Tell \/ Complete \/ PushFinal)
    /\ WF_vars((stage = "dead" /\ ReapLost) \/ Recover)
    /\ \A g \in Gateway :
         WF_vars(ReadRow(g) \/ Act(g) \/ (g = Opener /\ (DrainSend \/ Stop)))
    /\ WF_vars(LateReply \/ NoteStreamDead)
    /\ WF_vars(~up[Opener] /\ Succeed)

FairSpec == Spec /\ Fairness

------------------------------------------------------------------------------
(* Properties *)

(* Every variable stays in its type. *)
TypeOK ==
    /\ row \in Rows /\ news \in BOOLEAN /\ fresh \subseteq Gateway
    /\ task \in Verdicts
    /\ incremental \in BOOLEAN /\ stage \in Stages /\ text \in 0..MaxText
    /\ heard \in [proactive : BOOLEAN, off : 0..MaxText]
    /\ switched \in BOOLEAN /\ offset \in 0..MaxText
    /\ up \in [Gateway -> BOOLEAN]
    /\ pc \in [Gateway -> {"idle", "push", "drain", "drained"}]
    /\ copy \in [Gateway -> Rows]
    /\ late \in BOOLEAN /\ lateCopy \in Rows
    /\ acked \in 0..MaxText /\ known \in BOOLEAN
    /\ blocked \in BOOLEAN /\ confirmed \in 0..MaxText
    /\ bubble \subseteq Segments /\ live \in BOOLEAN
    /\ reply \in {"none", "ok", "dead"} /\ slow \in BOOLEAN
    /\ mail \in [Keys -> SUBSET Segments]
    /\ faults \in 0..MaxFaults
    /\ misjudged \in BOOLEAN /\ abandoned \in BOOLEAN

(* Nobody has anything left to do for this answer. *)
Settled ==
    /\ row.complete /\ row.finish
    /\ stage \in {"done", "dead"} /\ ~late
    /\ \A g \in Gateway : pc[g] \in {"idle", "drained"}
    /\ ~(reply = "dead" /\ known /\ up[Opener])

Lost == row.final \ Seen

(* When the worker, the gateways and the scheduler are done, every part of  *)
(* the final text is in the bubble or in a message of the outbox.           *)
AnswerArrives ==
    Settled /\ ~abandoned /\ ~(misjudged /\ incremental) => Lost = {}

(* The same also when a gateway hands off a stream that the worker has made *)
(* proactive already.                                                       *)
HandOffKeepsAnswer == Settled /\ ~abandoned => Lost = {}

(* Without faults and without a second gateway no part is queued twice, and  *)
(* what the bubble shows is not queued: the offset at which the gateway and *)
(* the worker part company is the same for both.  (A drain that finds the   *)
(* answer complete shows it whole.)                                         *)
NothingTwice ==
    faults = 0 /\ ~slow /\ incremental /\ ~misjudged /\ ~up[2] =>
        /\ \A k, l \in Keys : k # l => mail[k] \cap mail[l] = {}
        /\ \/ \A k \in Keys : bubble \cap mail[k] = {}
           \/ pc[Opener] = "drained" /\ bubble = row.final

(* Every answer is settled in the end. *)
AnswerSettles == <>Settled
==============================================================================
