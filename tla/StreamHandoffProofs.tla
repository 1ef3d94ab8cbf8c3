-------------------------- MODULE StreamHandoffProofs --------------------------
(***************************************************************************)
(* Proofs about StreamHandoff, for a text of any length and any number of  *)
(* faults.                                                                 *)
(*                                                                         *)
(* The argument is in three layers.  BaseInv says how far the worker, the  *)
(* row, the gateways' copies of it, the platform's errors and the bubble   *)
(* may be apart: a copy is an earlier state of the row, and while the      *)
(* bubble takes frames it shows a part of the text.  OffsetInv follows the *)
(* worker's messages: they leave no hole between the row's offset and the  *)
(* worker's own.  PartsInv says where each part of the answer is: what     *)
(* comes before the offset is in the bubble, or an error is on its way     *)
(* whose handler will queue it, and what comes after it is in a message.   *)
(* CalmInv adds what is true while nothing goes wrong: the bubble ends     *)
(* where the messages begin.                                               *)
(*                                                                         *)
(* The steps are taken in groups.  Worker and scheduler write the row and  *)
(* leave the gateways alone (ScribeStep); a gateway's step leaves the row, *)
(* ends its stream, or hands it over (Shape), and the lemmas say once what *)
(* each of these three does.                                               *)
(***************************************************************************)
EXTENDS StreamHandoff, TLAPS

------------------------------------------------------------------------------
(* Types. *)

LEMMA BlankRow == Blank \in Rows
PROOF
BY StreamAssumption DEF Blank, Rows

LEMMA InitTypes == Init => TypeOK
PROOF
<1> SUFFICES ASSUME Init PROVE TypeOK
  OBVIOUS
<1>1. Blank \in Rows /\ 0 \in 0 .. MaxText /\ 0 \in 0 .. MaxFaults
  BY BlankRow, StreamAssumption
<1>2. /\ row \in Rows /\ news \in BOOLEAN /\ fresh \subseteq Gateway /\ task \in Verdicts
      /\ incremental \in BOOLEAN /\ stage \in Stages /\ text \in 0 .. MaxText
      /\ heard \in [proactive : BOOLEAN, off : 0 .. MaxText]
      /\ switched \in BOOLEAN /\ offset \in 0 .. MaxText
  BY <1>1 DEF Init, Verdicts, Stages
<1>3. /\ up \in [Gateway -> BOOLEAN] /\ pc \in [Gateway -> {"idle", "push", "drain", "drained"}]
      /\ copy \in [Gateway -> Rows] /\ late \in BOOLEAN /\ lateCopy \in Rows
  BY <1>1 DEF Init, Gateway, Opener
<1>4. /\ acked \in 0 .. MaxText /\ known \in BOOLEAN /\ blocked \in BOOLEAN
      /\ confirmed \in 0 .. MaxText /\ bubble \subseteq Segments /\ live \in BOOLEAN
      /\ reply \in {"none", "ok", "dead"} /\ slow \in BOOLEAN
      /\ mail \in [Keys -> SUBSET Segments] /\ faults \in 0 .. MaxFaults
      /\ misjudged \in BOOLEAN /\ abandoned \in BOOLEAN
  BY <1>1 DEF Init
<1>5. QED
  BY <1>2, <1>3, <1>4 DEF TypeOK

(* What may be written of a row. *)
LEMMA RowTypes ==
    ASSUME NEW r \in Rows
    PROVE  /\ \A n \in 0 .. MaxText : [r EXCEPT !.written = n] \in Rows
           /\ \A n \in 0 .. MaxText : [r EXCEPT !.proactive = TRUE, !.off = n] \in Rows
           /\ \A n \in 0 .. MaxText :
                  [r EXCEPT !.proactive = TRUE, !.off = n, !.finish = TRUE] \in Rows
           /\ \A f \in SUBSET Segments : [r EXCEPT !.complete = TRUE, !.final = f] \in Rows
           /\ \A f \in SUBSET Segments, n \in 0 .. MaxText :
                  [r EXCEPT !.complete = TRUE, !.final = f, !.written = n] \in Rows
           /\ \A b \in BOOLEAN : [r EXCEPT !.finish = @ \/ b] \in Rows
           /\ [r EXCEPT !.finish = TRUE] \in Rows
PROOF
BY DEF Rows

LEMMA SegmentTypes ==
    /\ Mark \in Segments /\ \A s \in Segments : s \in Nat
    /\ \A n \in 0 .. MaxText : 1 .. n \subseteq Segments
    /\ \A n, b : Ending(n, b) \subseteq Segments
PROOF
BY StreamAssumption DEF Mark, Segments, Ending

LEMMA QueueTypes ==
    ASSUME TypeOK, NEW k \in Keys, NEW S, S \subseteq Segments, Queue(k, S)
    PROVE  mail' \in [Keys -> SUBSET Segments]
PROOF
BY DEF Queue, TypeOK

LEMMA AnswerTypes == TypeOK => Answer \subseteq Segments
PROOF
BY SegmentTypes DEF TypeOK, Answer

LEMMA RowPartTypes ==
    ASSUME NEW r \in Rows
    PROVE  /\ r.proactive \in BOOLEAN /\ r.off \in 0 .. MaxText /\ r.written \in 0 .. MaxText
           /\ r.complete \in BOOLEAN /\ r.final \subseteq Segments /\ r.finish \in BOOLEAN
PROOF
BY DEF Rows

(* What the gateway's handovers write. *)
LEMMA HandOffTypes ==
    ASSUME TypeOK, NEW g \in Gateway, NEW r \in Rows, NEW c \in 0 .. MaxText,
           HandOff(g, r, c) \/ ToProactive(c) \/ DeliverFinal(c)
    PROVE  /\ row' \in Rows /\ mail' \in [Keys -> SUBSET Segments] /\ news' \in BOOLEAN
           /\ fresh' \subseteq Gateway /\ misjudged' \in BOOLEAN
PROOF
<1>1. /\ row \in Rows /\ row.final \subseteq Segments /\ row.proactive \in BOOLEAN
      /\ r.written \in 0 .. MaxText /\ news \in BOOLEAN /\ fresh \subseteq Gateway
      /\ misjudged \in BOOLEAN
  BY RowPartTypes DEF TypeOK
<1>2. ASSUME DeliverFinal(c)
      PROVE  /\ row' \in Rows /\ mail' \in [Keys -> SUBSET Segments] /\ news' \in BOOLEAN
             /\ fresh' \subseteq Gateway /\ misjudged' \in BOOLEAN
  <2>1. /\ Queue("final", {s \in row.final : task = "success" => s > c})
        /\ row' = [row EXCEPT !.finish = TRUE] /\ news' = FALSE /\ fresh' = fresh
        /\ misjudged' = (misjudged \/ row.proactive)
    BY <1>2 DEF DeliverFinal
  <2>2. mail' \in [Keys -> SUBSET Segments]
    BY <1>1, <2>1, QueueTypes DEF Keys
  <2>3. QED
    BY <1>1, <2>1, <2>2, RowTypes
<1>3. ASSUME ToProactive(c)
      PROVE  /\ row' \in Rows /\ mail' \in [Keys -> SUBSET Segments] /\ news' \in BOOLEAN
             /\ fresh' \subseteq Gateway /\ misjudged' \in BOOLEAN
  <2>1. CASE row.complete
    BY <1>2, <1>3, <2>1 DEF ToProactive
  <2>2. CASE ~row.complete
    <3>1. /\ row' = [row EXCEPT !.proactive = TRUE, !.off = c, !.finish = TRUE]
          /\ news' = FALSE /\ fresh' = {} /\ misjudged' = (misjudged \/ row.proactive) /\ mail' = mail
      BY <1>3, <2>2 DEF ToProactive
    <3>2. QED
      BY <1>1, <3>1, RowTypes DEF TypeOK
  <2>3. QED
    BY <2>1, <2>2
<1>4. ASSUME HandOff(g, r, c), r.proactive
      PROVE  /\ row' \in Rows /\ mail' \in [Keys -> SUBSET Segments] /\ news' \in BOOLEAN
             /\ fresh' \subseteq Gateway /\ misjudged' \in BOOLEAN
  <2>1. /\ Queue("gap", Gap(r, c)) /\ row' = [row EXCEPT !.finish = TRUE]
        /\ news' = (news /\ g \notin fresh) /\ fresh' = fresh /\ misjudged' = misjudged
    BY <1>4 DEF HandOff, Acknowledge
  <2>2. Gap(r, c) \subseteq Segments
    BY <1>1, SegmentTypes DEF Gap
  <2>3. mail' \in [Keys -> SUBSET Segments]
    BY <2>1, <2>2, QueueTypes DEF Keys
  <2>4. QED
    BY <1>1, <2>1, <2>3, RowTypes
<1>5. QED
  BY <1>2, <1>3, <1>4 DEF HandOff

(* What may become of a frame. *)
LEMMA FateFacts ==
    ASSUME TypeOK, NEW fate \in Fates
    PROVE  /\ fate[1] \in BOOLEAN /\ fate[2] \in {"sent", "offline", "retry", "dead"}
           /\ fate[3] \in {"none", "ok", "dead"} /\ fate[4] \in BOOLEAN
           /\ fate[1] => live /\ fate[2] \in {"sent", "offline"}
           /\ fate[3] = "ok" => fate[1]
           /\ (fate[2] = "sent" /\ ~fate[1]) => reply = "ok" /\ fate[3] = "dead"
           /\ (fate[2] = "sent" /\ ~live) => reply = "ok"
           /\ (fate[2] = "offline" /\ fate[1]) => reply = "none"
           /\ reply = "dead" => fate[2] = "dead" /\ fate[3] = "dead"
PROOF
<1>1. reply \in {"none", "ok", "dead"} /\ live \in BOOLEAN
  BY DEF TypeOK
<1>2. CASE reply = "none" /\ live
  <2>1. \/ fate = <<TRUE, "sent", "none", FALSE>> \/ fate = <<TRUE, "offline", "ok", FALSE>>
        \/ fate = <<FALSE, "retry", "none", TRUE>> \/ fate = <<FALSE, "dead", "none", TRUE>>
        \/ fate = <<FALSE, "offline", "none", TRUE>> \/ fate = <<FALSE, "offline", "dead", TRUE>>
    BY <1>2 DEF Fates
  <2>2. CASE fate = <<TRUE, "sent", "none", FALSE>>
    BY <1>2, <2>2
  <2>3. CASE fate = <<TRUE, "offline", "ok", FALSE>>
    BY <1>2, <2>3
  <2>4. CASE fate = <<FALSE, "retry", "none", TRUE>>
    BY <1>2, <2>4
  <2>5. CASE fate = <<FALSE, "dead", "none", TRUE>>
    BY <1>2, <2>5
  <2>6. CASE fate = <<FALSE, "offline", "none", TRUE>>
    BY <1>2, <2>6
  <2>7. CASE fate = <<FALSE, "offline", "dead", TRUE>>
    BY <1>2, <2>7
  <2>8. QED
    BY <2>1, <2>2, <2>3, <2>4, <2>5, <2>6, <2>7
<1>3. CASE reply = "none" /\ ~live
  <2>1. \/ fate = <<FALSE, "dead", "none", FALSE>> \/ fate = <<FALSE, "offline", "none", TRUE>>
        \/ fate = <<FALSE, "offline", "dead", TRUE>>
    BY <1>3 DEF Fates
  <2>2. CASE fate = <<FALSE, "dead", "none", FALSE>>
    BY <1>3, <2>2
  <2>3. CASE fate = <<FALSE, "offline", "none", TRUE>>
    BY <1>3, <2>3
  <2>4. CASE fate = <<FALSE, "offline", "dead", TRUE>>
    BY <1>3, <2>4
  <2>5. QED
    BY <2>1, <2>2, <2>3, <2>4
<1>4. CASE reply = "ok" /\ live
  <2>1. fate = <<TRUE, "sent", "ok", FALSE>> \/ fate = <<FALSE, "sent", "dead", TRUE>>
    BY <1>4 DEF Fates
  <2>2. CASE fate = <<TRUE, "sent", "ok", FALSE>>
    BY <1>4, <2>2
  <2>3. CASE fate = <<FALSE, "sent", "dead", TRUE>>
    BY <1>4, <2>3
  <2>4. QED
    BY <2>1, <2>2, <2>3
<1>5. CASE reply = "ok" /\ ~live
  <2>1. fate = <<FALSE, "sent", "dead", FALSE>>
    BY <1>5 DEF Fates
  <2>2. QED
    BY <1>5, <2>1
<1>6. CASE reply = "dead"
  <2>1. fate = <<FALSE, "dead", "dead", FALSE>>
    BY <1>6 DEF Fates
  <2>2. QED
    BY <1>6, <2>1
<1>7. QED
  BY <1>1, <1>2, <1>3, <1>4, <1>5, <1>6

LEMMA TransmitTypes ==
    ASSUME TypeOK, NEW fate \in Fates, NEW segs \in SUBSET Segments, NEW len \in 0 .. MaxText,
           NEW finish \in BOOLEAN, Transmit(fate, segs, len, finish)
    PROVE  /\ faults' \in 0 .. MaxFaults /\ bubble' \subseteq Segments /\ live' \in BOOLEAN
           /\ reply' \in {"none", "ok", "dead"} /\ slow' \in BOOLEAN
           /\ acked' \in 0 .. MaxText /\ known' \in BOOLEAN
PROOF
<1>1. /\ fate[1] \in BOOLEAN /\ fate[3] \in {"none", "ok", "dead"}
  BY FateFacts
<1>2. faults' \in 0 .. MaxFaults
  BY StreamAssumption DEF Transmit, Fault, TypeOK
<1>3. bubble' \subseteq Segments /\ reply' \in {"none", "ok", "dead"} /\ acked' \in 0 .. MaxText
  BY <1>1 DEF Transmit, TypeOK
<1>4. live' \in BOOLEAN /\ slow' \in BOOLEAN /\ known' \in BOOLEAN
  BY DEF Transmit, TypeOK
<1>5. QED
  BY <1>2, <1>3, <1>4

LEMMA DeliveredTypes ==
    ASSUME TypeOK, NEW c \in Delivered
    PROVE  c \in 0 .. MaxText
PROOF
BY StreamAssumption DEF Delivered, TypeOK

(* The worker's and the scheduler's steps. *)
LEMMA WorkerTypes ==
    ASSUME TypeOK, WorkerStep \/ ReapLost \/ Recover \/ WorkerDies
    PROVE  TypeOK'
PROOF
<1> USE StreamAssumption
<1>1. /\ row \in Rows /\ row.off \in 0 .. MaxText /\ row.written \in 0 .. MaxText
      /\ row.proactive \in BOOLEAN /\ text \in 0 .. MaxText
  BY RowPartTypes DEF TypeOK
<1>2. ASSUME UNCHANGED gatewayVars,
             row' \in Rows, news' \in BOOLEAN, fresh' \subseteq Gateway, task' \in Verdicts,
             incremental' = incremental, stage' \in Stages, text' \in 0 .. MaxText,
             heard' \in [proactive : BOOLEAN, off : 0 .. MaxText],
             switched' \in BOOLEAN, offset' \in 0 .. MaxText,
             mail' \in [Keys -> SUBSET Segments], faults' \in 0 .. MaxFaults,
             misjudged' \in BOOLEAN, abandoned' \in BOOLEAN
      PROVE  TypeOK'
  BY <1>2 DEF TypeOK, gatewayVars, pushVars, lateVars, ackVars, platformVars
<1> USE DEF rowVars, workerVars, flagVars, otherVars
<1>3. CASE Produce \/ Adopt \/ EndTask
  <2>1. CASE Produce
    BY <1>1, <1>2, <2>1 DEF Produce, TypeOK
  <2>2. CASE Adopt
    BY <1>1, <1>2, <2>2 DEF Adopt, TypeOK
  <2>3. CASE EndTask
    BY <1>1, <1>2, <2>3 DEF EndTask, TypeOK, Stages, Verdicts
  <2>4. QED
    BY <1>3, <2>1, <2>2, <2>3
<1>4. ASSUME Flushed PROVE row' \in Rows /\ news' \in BOOLEAN /\ fresh' \subseteq Gateway
                           /\ heard' \in [proactive : BOOLEAN, off : 0 .. MaxText]
  BY <1>1, <1>4, RowTypes DEF Flushed, Write
<1>5. CASE Flush \/ SwitchFlush
  BY <1>1, <1>2, <1>4, <1>5 DEF Flush, SwitchFlush, TypeOK, Stages
<1>6. CASE SwitchWrite
  <2> DEFINE off == IF row.proactive THEN row.off ELSE text
  <2>1. row' = [row EXCEPT !.proactive = TRUE, !.off = off] /\ news' = TRUE /\ fresh' = {} /\ offset' = off
        /\ stage' = "run" /\ abandoned' = (abandoned \/ row.complete)
    BY <1>6 DEF SwitchWrite, Write
  <2>2. off \in 0 .. MaxText
    BY <1>1
  <2> HIDE DEF off
  <2>3. row' \in Rows
    BY <1>1, <2>1, <2>2, RowTypes
  <2>4. QED
    BY <1>2, <1>6, <2>1, <2>2, <2>3 DEF SwitchWrite, TypeOK, Stages
<1>7. CASE PushProgress
  <2>1. PICK e \in (offset + 1) .. text :
            mail' = [mail EXCEPT !["progress"] = @ \cup ((offset + 1) .. e)] /\ offset' = e
    BY <1>7 DEF PushProgress
  <2>2. e \in 0 .. MaxText /\ (offset + 1) .. e \subseteq Segments
    BY <1>1 DEF TypeOK, Segments, Mark
  <2>3. mail' \in [Keys -> SUBSET Segments]
    BY <2>1, <2>2 DEF TypeOK, Keys
  <2>4. QED
    BY <1>2, <1>7, <2>1, <2>2, <2>3 DEF PushProgress, TypeOK
<1>8. CASE Tell \/ PushFinal
  <2>1. \A b : Rest(b) \subseteq Segments
    BY AnswerTypes DEF Rest
  <2>2. mail' \in [Keys -> SUBSET Segments]
    BY <1>8, <2>1, QueueTypes DEF Tell, PushFinal, Keys
  <2>3. stage' \in Stages
    BY <1>8 DEF Tell, PushFinal, Stages
  <2>4. QED
    BY <1>2, <1>8, <2>2, <2>3 DEF Tell, PushFinal, TypeOK
<1>9. CASE Complete
  <2>1. row' = [row EXCEPT !.complete = TRUE, !.final = Answer, !.written = text]
        /\ news' = TRUE /\ fresh' = {}
    BY <1>9 DEF Complete, Write
  <2>2. row' \in Rows
    BY <1>1, <2>1, AnswerTypes, RowTypes
  <2>3. stage' \in Stages /\ offset' \in 0 .. MaxText
    BY <1>1, <1>9 DEF Complete, Stages, TypeOK
  <2>4. QED
    BY <1>2, <1>9, <2>1, <2>2, <2>3 DEF Complete, TypeOK
<1>10. CASE ReapLost
  <2> DEFINE pushable == ~row.proactive /\ ~row.finish
             f == Ending(IF pushable THEN row.written ELSE 0, TRUE)
  <2>1. row' = [row EXCEPT !.complete = TRUE, !.final = f] /\ news' = TRUE /\ fresh' = {}
    BY <1>10 DEF ReapLost, Write
  <2>2. row' \in Rows
    BY <1>1, <2>1, SegmentTypes, RowTypes
  <2>3. mail' \in [Keys -> SUBSET Segments]
    <3>1. mail' = mail \/ Queue("lost", {Mark})
      BY <1>10 DEF ReapLost
    <3>2. {Mark} \subseteq Segments
      BY SegmentTypes
    <3>3. QED
      BY <3>1, <3>2, QueueTypes DEF Keys, TypeOK
  <2>4. faults' \in 0 .. MaxFaults
    BY <1>10 DEF ReapLost, Fault, TypeOK
  <2>5. task' \in Verdicts /\ UNCHANGED <<workerVars, gatewayVars, flagVars>>
    BY <1>10 DEF ReapLost, Verdicts
  <2>6. QED
    BY <1>2, <2>1, <2>2, <2>3, <2>4, <2>5 DEF TypeOK
<1>11. CASE Recover
  <2> DEFINE f == Ending(row.written, task = "failure")
  <2>1. row' = [row EXCEPT !.complete = TRUE, !.final = f] /\ news' = TRUE /\ fresh' = {}
    BY <1>11 DEF Recover, Write
  <2>2. row' \in Rows
    BY <1>1, <2>1, SegmentTypes, RowTypes
  <2>3. mail' \in [Keys -> SUBSET Segments]
    <3>1. mail' = mail \/ Queue("recovery", f)
      BY <1>11 DEF Recover
    <3>2. QED
      BY <3>1, SegmentTypes, QueueTypes DEF Keys, TypeOK
  <2>4. UNCHANGED <<task, workerVars, gatewayVars, faults, flagVars>>
    BY <1>11 DEF Recover
  <2>5. QED
    BY <1>2, <2>1, <2>2, <2>3, <2>4 DEF TypeOK
<1>12. CASE WorkerDies
  <2>1. faults' \in 0 .. MaxFaults
    BY <1>12 DEF WorkerDies, Fault, TypeOK
  <2>2. QED
    BY <1>2, <1>12, <2>1 DEF WorkerDies, TypeOK, Stages
<1>13. QED
  BY <1>3, <1>5, <1>6, <1>7, <1>8, <1>9, <1>10, <1>11, <1>12 DEF WorkerStep

(* The gateways' steps. *)
LEMMA GatewayTypes ==
    ASSUME TypeOK, GatewayStep \/ GatewayDies
    PROVE  TypeOK'
PROOF
<1> DEFINE Row == /\ row' \in Rows /\ mail' \in [Keys -> SUBSET Segments] /\ news' \in BOOLEAN
                  /\ fresh' \subseteq Gateway /\ misjudged' \in BOOLEAN
           Frame == /\ faults' \in 0 .. MaxFaults /\ bubble' \subseteq Segments /\ live' \in BOOLEAN
                   /\ reply' \in {"none", "ok", "dead"} /\ slow' \in BOOLEAN
                   /\ acked' \in 0 .. MaxText /\ known' \in BOOLEAN
           Locks == /\ up' \in [Gateway -> BOOLEAN]
                    /\ pc' \in [Gateway -> {"idle", "push", "drain", "drained"}]
                    /\ copy' \in [Gateway -> Rows] /\ late' \in BOOLEAN /\ lateCopy' \in Rows
                    /\ blocked' \in BOOLEAN /\ confirmed' \in 0 .. MaxText
<1>1. ASSUME Row, Frame, Locks, UNCHANGED <<task, workerVars>>, abandoned' \in BOOLEAN
      PROVE  TypeOK'
  BY <1>1 DEF TypeOK, workerVars
<1>2. ASSUME UNCHANGED <<rowVars, mail, misjudged>> PROVE Row
  BY <1>2 DEF rowVars, TypeOK
<1>3. ASSUME UNCHANGED <<platformVars, acked, known, faults>> PROVE Frame
  BY <1>3 DEF platformVars, TypeOK
<1>4. ASSUME NEW g \in Gateway, NEW to \in {"idle", "drained"}, Return(g, to)
      PROVE  /\ up' \in [Gateway -> BOOLEAN] /\ copy' \in [Gateway -> Rows]
             /\ pc' \in [Gateway -> {"idle", "push", "drain", "drained"}]
  BY <1>4, BlankRow DEF Return, TypeOK
<1>5. ASSUME UNCHANGED <<lateVars, blocked, confirmed>>,
             up' \in [Gateway -> BOOLEAN], copy' \in [Gateway -> Rows],
             pc' \in [Gateway -> {"idle", "push", "drain", "drained"}]
      PROVE  Locks
  BY <1>5 DEF lateVars, TypeOK
<1>6. row \in Rows /\ Blank \in Rows /\ Opener \in Gateway /\ 0 \in 0 .. MaxText
      /\ \A g \in Gateway : copy[g] \in Rows
  BY BlankRow, StreamAssumption DEF TypeOK, Opener, Gateway
<1> HIDE DEF Row, Frame, Locks
<1>7. ASSUME NEW g \in Gateway, ReadRow(g) \/ DrainRead PROVE TypeOK'
  <2>1. Row
    <3>1. row' = row /\ news' = news /\ fresh' \subseteq Gateway /\ mail' = mail /\ misjudged' = misjudged
      BY <1>6, <1>7 DEF ReadRow, DrainRead, flagVars, TypeOK
    <3>2. QED
      BY <3>1 DEF TypeOK, Row
  <2>2. Frame
    BY <1>3, <1>7 DEF ReadRow, DrainRead, ackVars
  <2>3. Locks
    BY <1>5, <1>6, <1>7 DEF ReadRow, DrainRead, ackVars, TypeOK
  <2>4. QED
    BY <1>1, <1>7, <2>1, <2>2, <2>3 DEF ReadRow, DrainRead, flagVars, TypeOK
<1>8. ASSUME NEW g \in Gateway, Quiet(g) PROVE TypeOK'
  <2>1. Row
    <3>1. row' = row /\ news' = (news /\ g \notin fresh) /\ fresh' = fresh /\ mail' = mail
          /\ misjudged' = misjudged
      BY <1>8 DEF Quiet, Acknowledge, flagVars
    <3>2. QED
      BY <3>1 DEF TypeOK, Row
  <2>2. Frame
    BY <1>3, <1>8 DEF Quiet, ackVars
  <2>3. Locks
    BY <1>4, <1>5, <1>8 DEF Quiet, ackVars
  <2>4. QED
    BY <1>1, <1>8, <2>1, <2>2, <2>3 DEF Quiet, flagVars, TypeOK
<1>9. ASSUME NEW g \in Gateway, PassOn(g) \/ Takeover(g) PROVE TypeOK'
  <2>1. Row
    BY <1>6, <1>9, HandOffTypes DEF PassOn, Takeover, Row, TypeOK
  <2>2. Frame
    BY <1>3, <1>9 DEF PassOn, Takeover, ackVars
  <2>3. Locks
    BY <1>4, <1>5, <1>9 DEF PassOn, Takeover, ackVars
  <2>4. QED
    BY <1>1, <1>9, <2>1, <2>2, <2>3 DEF PassOn, Takeover, TypeOK
<1>10. ASSUME NEW g \in Gateway, Push(g) PROVE TypeOK'
  <2> DEFINE r == copy[g]
             finish == r.proactive \/ r.complete
             segs == CASE r.proactive -> UpToOffset(r)
                       [] ~r.proactive /\ r.complete -> r.final
                       [] OTHER -> 1 .. r.written
  <2>1. r \in Rows /\ finish \in BOOLEAN /\ segs \in SUBSET Segments /\ r.written \in 0 .. MaxText
    BY <1>6, RowPartTypes, SegmentTypes DEF UpToOffset
  <2>2. PICK fate \in Fates :
            /\ Transmit(fate, segs, r.written, finish)
            /\ CASE fate[2] = "sent" ->
                      /\ row' = [row EXCEPT !.finish = @ \/ finish]
                      /\ Acknowledge(g)
                      /\ UNCHANGED <<mail, blocked, confirmed, misjudged>>
                 [] fate[2] = "dead" ->
                      \E c \in Delivered : Block(c) /\ HandOff(g, r, c)
                 [] OTHER ->
                      UNCHANGED <<rowVars, mail, blocked, confirmed, misjudged>>
    BY <1>10 DEF Push
  <2> HIDE DEF r, segs
  <2>3. Frame
    BY <2>1, <2>2, TransmitTypes DEF Frame
  <2>4. Row /\ blocked' \in BOOLEAN /\ confirmed' \in 0 .. MaxText
    <3>1. CASE fate[2] = "sent"
      <4>1. /\ row' = [row EXCEPT !.finish = @ \/ finish] /\ news' = (news /\ g \notin fresh)
            /\ fresh' = fresh /\ UNCHANGED <<mail, blocked, confirmed, misjudged>>
        BY <2>2, <3>1 DEF Acknowledge
      <4>2. row' \in Rows
        BY <1>6, <2>1, <4>1, RowTypes
      <4>3. QED
        BY <4>1, <4>2 DEF TypeOK, Row
    <3>2. CASE fate[2] = "dead"
      <4>1. PICK c \in Delivered : Block(c) /\ HandOff(g, r, c)
        BY <2>2, <3>2
      <4>2. c \in 0 .. MaxText
        BY DeliveredTypes
      <4>3. QED
        BY <2>1, <4>1, <4>2, HandOffTypes DEF Block, Row
    <3>3. CASE fate[2] \notin {"sent", "dead"}
      <4>1. UNCHANGED <<rowVars, mail, blocked, confirmed, misjudged>>
        BY <2>2, <3>3
      <4>2. QED
        BY <1>2, <4>1 DEF TypeOK
    <3>4. QED
      BY <3>1, <3>2, <3>3
  <2>5. Locks
    <3>1. Return(g, "idle") /\ UNCHANGED lateVars
      BY <1>10 DEF Push
    <3>2. QED
      BY <1>4, <2>4, <3>1 DEF Locks, lateVars, TypeOK
  <2>6. QED
    BY <1>1, <1>10, <2>3, <2>4, <2>5 DEF Push, TypeOK
<1>11. CASE DrainSend
  <2> DEFINE r == copy[Opener]
             segs == IF r.complete THEN r.final ELSE 1 .. r.written
  <2>1. r \in Rows /\ segs \in SUBSET Segments /\ r.written \in 0 .. MaxText
    BY <1>6, RowPartTypes, SegmentTypes
  <2>2. PICK fate \in Fates, c \in Delivered :
         /\ Transmit(fate, segs, r.written, TRUE)
         /\ IF fate[2] = "dead" THEN Block(c) ELSE UNCHANGED <<blocked, confirmed>>
         /\ CASE r.complete /\ fate[2] = "sent" ->
                   /\ row' = [row EXCEPT !.finish = TRUE]
                   /\ Acknowledge(Opener)
                   /\ UNCHANGED <<mail, misjudged>>
              [] r.complete /\ fate[2] # "sent" -> DeliverFinal(c)
              [] OTHER -> ToProactive(IF fate[2] = "sent" THEN r.written ELSE c)
         /\ abandoned' = (abandoned \/ (/\ fate[2] = "sent" /\ ~fate[1]
                                        /\ row.complete /\ ~r.complete))
    BY <1>11 DEF DrainSend
  <2> HIDE DEF r, segs
  <2>3. Frame
    BY <2>1, <2>2, TransmitTypes DEF Frame
  <2>4. c \in 0 .. MaxText
    BY DeliveredTypes
  <2>5. blocked' \in BOOLEAN /\ confirmed' \in 0 .. MaxText
    BY <2>2, <2>4 DEF Block, TypeOK
  <2>6. Row
    <3>1. CASE r.complete /\ fate[2] = "sent"
      <4>1. /\ row' = [row EXCEPT !.finish = TRUE] /\ news' = (news /\ Opener \notin fresh)
            /\ fresh' = fresh /\ UNCHANGED <<mail, misjudged>>
        BY <2>2, <3>1 DEF Acknowledge
      <4>2. row' \in Rows
        BY <1>6, <4>1, RowTypes
      <4>3. QED
        BY <4>1, <4>2 DEF TypeOK, Row
    <3>2. CASE r.complete /\ fate[2] # "sent"
      <4>1. DeliverFinal(c)
        BY <2>2, <3>2
      <4>2. QED
        BY <1>6, <2>4, <4>1, HandOffTypes DEF Row
    <3>3. CASE ~r.complete
      <4>1. ToProactive(IF fate[2] = "sent" THEN r.written ELSE c)
        BY <2>2, <3>3
      <4>2. QED
        BY <1>6, <2>1, <2>4, <4>1, HandOffTypes DEF Row
    <3>4. QED
      BY <3>1, <3>2, <3>3
  <2>7. Locks
    <3>1. Return(Opener, "drained") /\ UNCHANGED lateVars
      BY <1>11 DEF DrainSend
    <3>2. QED
      BY <1>4, <1>6, <2>5, <3>1 DEF Locks, lateVars, TypeOK
  <2>8. QED
    BY <1>1, <1>11, <2>2, <2>3, <2>6, <2>7 DEF DrainSend, TypeOK
<1>12. CASE Stop \/ Succeed \/ GatewayDies
  <2>1. Row
    BY <1>2, <1>12 DEF Stop, Succeed, GatewayDies, flagVars
  <2>2. Frame
    BY <1>12, StreamAssumption DEF Stop, Succeed, GatewayDies, Fault, Frame, TypeOK, ackVars, platformVars
  <2>3. Locks
    BY <1>6, <1>12 DEF Stop, Succeed, GatewayDies, Locks, TypeOK, ackVars, lateVars
  <2>4. QED
    BY <1>1, <1>12, <2>1, <2>2, <2>3 DEF Stop, Succeed, GatewayDies, TypeOK, flagVars
<1>13. CASE LateReply
  <2>1. Row
    BY <1>2, <1>13 DEF LateReply, flagVars
  <2>2. Frame
    BY <1>13 DEF LateReply, Frame, TypeOK
  <2>3. Locks
    <3>1. /\ UNCHANGED pushVars /\ late' \in BOOLEAN /\ lateCopy' \in Rows
      BY <1>6, <1>13 DEF LateReply, lateVars, TypeOK
    <3>2. blocked' \in BOOLEAN /\ confirmed' \in 0 .. MaxText
      BY <1>13, DeliveredTypes DEF LateReply, Block, TypeOK
    <3>3. QED
      BY <3>1, <3>2 DEF Locks, pushVars, TypeOK
  <2>4. QED
    BY <1>1, <1>13, <2>1, <2>2, <2>3 DEF LateReply, TypeOK, flagVars
<1>14. CASE NoteStreamDead
  <2>1. Row
    <3>1. CASE lateCopy.proactive
      <4>1. Queue("gap", Gap(lateCopy, confirmed)) /\ UNCHANGED <<rowVars, misjudged>>
        BY <1>14, <3>1 DEF NoteStreamDead
      <4>2. Gap(lateCopy, confirmed) \subseteq Segments
        BY RowPartTypes, SegmentTypes DEF Gap, TypeOK
      <4>3. QED
        BY <4>1, <4>2, QueueTypes DEF Row, rowVars, TypeOK, Keys
    <3>2. CASE ~lateCopy.proactive
      BY <1>6, <1>14, <3>2, HandOffTypes DEF NoteStreamDead, Row, TypeOK
    <3>3. QED
      BY <3>1, <3>2
  <2>2. Frame
    BY <1>3, <1>14 DEF NoteStreamDead, ackVars
  <2>3. Locks
    BY <1>6, <1>14 DEF NoteStreamDead, Locks, pushVars, ackVars, TypeOK
  <2>4. QED
    BY <1>1, <1>14, <2>1, <2>2, <2>3 DEF NoteStreamDead, TypeOK
<1>15. ASSUME NEW g \in Gateway, ReadRow(g) \/ Act(g) PROVE TypeOK'
  BY <1>7, <1>8, <1>9, <1>10, <1>15 DEF Act
<1>16. DrainRead => TypeOK'
  BY <1>6, <1>7
<1>17. QED
  BY <1>11, <1>12, <1>13, <1>14, <1>15, <1>16 DEF GatewayStep

LEMMA StepTypes == TypeOK /\ [Next]_vars => TypeOK'
PROOF
<1>1. ASSUME TypeOK, UNCHANGED vars PROVE TypeOK'
  BY <1>1 DEF TypeOK, vars, rowVars, workerVars, gatewayVars, pushVars, lateVars, ackVars,
              platformVars, flagVars
<1>2. QED
  BY <1>1, WorkerTypes, GatewayTypes DEF Next

(* Every variable of an answer on its way stays in its type. *)
THEOREM StreamTypes == Spec => []TypeOK
PROOF
BY InitTypes, StepTypes, PTL DEF Spec

------------------------------------------------------------------------------
(* Who is where. *)

Busy(g) == pc[g] \in {"push", "drain"}

(* The worker, its task and the row: the answer is complete when the task  *)
(* has ended and not before, and until then no message of an end waits.    *)
WorkerInv ==
    /\ row.written <= text
    /\ stage \in {"ended", "told"} => task \in {"success", "failure"} /\ ~row.complete
    /\ stage \in {"run", "switching"} => task \in {"active", "lost"}
    /\ task = "active" => ~row.complete /\ stage \in {"run", "switching", "dead"}
    /\ task = "lost" => row.complete
    /\ stage \in {"owing", "done"} => row.complete
    /\ stage = "owing" => task \in {"success", "failure"} /\ row.proactive /\ ~switched
    /\ (row.complete /\ stage \in {"run", "switching"}) => task = "lost"
    /\ ~row.complete => row.final = {} /\ mail["recovery"] = {} /\ mail["lost"] = {}
    /\ (~row.complete /\ stage \notin {"told", "dead"}) => mail["final"] = {}
    /\ (~row.complete /\ ~row.proactive) => mail["final"] = {}
    /\ (row.complete /\ task = "success") => 1..row.written \subseteq row.final

(* Who made the stream proactive, and from where on. *)
ModeInv ==
    /\ heard.proactive => row.proactive
    /\ (incremental /\ ~misjudged /\ heard.proactive) => heard.off = row.off
    /\ (switched /\ stage \notin {"switching", "dead"}) => row.proactive
    /\ stage = "switching" => switched /\ row.written = text
    /\ stage = "told" => switched
    /\ row.proactive => row.off <= row.written
    /\ (row.proactive /\ ~row.finish) => switched
    /\ row.finish => row.proactive \/ row.complete

(* A copy is an earlier state of the row. *)
CopyOf(r) ==
    /\ r.complete => row.complete /\ r.final = row.final
    /\ r.proactive => row.proactive /\ r.off <= r.written
    /\ r.written <= row.written
    /\ r.finish => row.finish
    /\ (r.proactive /\ ~r.finish) => switched
    /\ (r.complete /\ row.proactive /\ ~r.proactive) => abandoned
    /\ (r.proactive /\ incremental /\ ~misjudged) => r.off = row.off
    /\ (row.proactive /\ ~row.finish /\ ~r.proactive) => r.written <= row.off

CopyInv ==
    /\ \A g \in Gateway : Busy(g) => CopyOf(copy[g])
    /\ late => CopyOf(lateCopy)
    /\ pc[Opener] = "drain" => ~copy[Opener].finish
    /\ pc[2] \in {"idle", "push"}

(* The platform's errors, and what the gateway knows of its frames. *)
FrameInv ==
    /\ reply = "dead" => ~live
    /\ blocked => ~live /\ confirmed <= acked /\ reply # "ok"
    /\ late => blocked /\ up[Opener]
    /\ ~up[Opener] => reply = "none" /\ pc[Opener] = "drained"
    /\ mail["gap"] # {} => blocked /\ row.proactive
    /\ acked <= row.written
    /\ Busy(Opener) => acked <= copy[Opener].written

(* While the platform takes frames the bubble shows a part of the text that *)
(* the gateway's copy has too.                                             *)
LiveInv ==
    /\ live => \E n \in 0 .. row.written :
                  /\ bubble = 1 .. n
                  /\ Busy(Opener) => n <= copy[Opener].written
                  /\ (row.proactive /\ ~row.finish) => n <= row.off
    /\ (live /\ Busy(Opener) /\ copy[Opener].proactive /\ ~copy[Opener].finish
            /\ row.finish) => misjudged

BaseInv == TypeOK /\ WorkerInv /\ ModeInv /\ CopyInv /\ FrameInv /\ LiveInv

LEMMA InitBase == Init => BaseInv
PROOF
<1> SUFFICES ASSUME Init PROVE BaseInv
  OBVIOUS
<1>1. TypeOK
  BY InitTypes
<1>2. /\ row.written = 0 /\ ~row.complete /\ ~row.proactive /\ ~row.finish /\ row.final = {}
      /\ stage = "run" /\ task = "active" /\ text = 0 /\ switched = FALSE /\ ~heard.proactive
      /\ \A k \in Keys : mail[k] = {}
  BY DEF Init, Blank
<1>3. /\ \A g \in Gateway : pc[g] = "idle"
      /\ up[Opener] /\ late = FALSE /\ blocked = FALSE /\ reply = "none" /\ live = TRUE /\ acked = 0 /\ bubble = {}
  BY DEF Init, Opener, Gateway
<1>4. WorkerInv
  BY <1>2 DEF WorkerInv, Keys
<1>5. ModeInv
  BY <1>2 DEF ModeInv
<1>6. CopyInv /\ FrameInv
  BY <1>2, <1>3 DEF CopyInv, FrameInv, Busy, Opener, Gateway, Keys
<1>7. LiveInv
  <2>1. bubble = 1 .. 0 /\ 0 \in 0 .. row.written
    BY <1>2, <1>3
  <2>2. QED
    BY <1>2, <1>3, <2>1 DEF LiveInv, Busy, Opener, Gateway
<1>8. QED
  BY <1>1, <1>4, <1>5, <1>6, <1>7 DEF BaseInv

LEMMA Queued ==
    ASSUME TypeOK, NEW k \in Keys, NEW S, Queue(k, S)
    PROVE  /\ mail'[k] = IF mail[k] = {} THEN S ELSE mail[k]
           /\ \A l \in Keys \ {k} : mail'[l] = mail[l]
PROOF
BY DEF Queue, TypeOK

(* The fields of a row that was written. *)
LEMMA Fields ==
    ASSUME NEW r \in Rows
    PROVE  /\ \A n : LET w == [r EXCEPT !.written = n]
                     IN  /\ w.written = n /\ w.proactive = r.proactive /\ w.off = r.off
                         /\ w.complete = r.complete /\ w.final = r.final /\ w.finish = r.finish
           /\ \A n : LET w == [r EXCEPT !.proactive = TRUE, !.off = n]
                     IN  /\ w.written = r.written /\ w.proactive /\ w.off = n
                         /\ w.complete = r.complete /\ w.final = r.final /\ w.finish = r.finish
           /\ \A n : LET w == [r EXCEPT !.proactive = TRUE, !.off = n, !.finish = TRUE]
                     IN  /\ w.written = r.written /\ w.proactive /\ w.off = n
                         /\ w.complete = r.complete /\ w.final = r.final /\ w.finish
           /\ \A f : LET w == [r EXCEPT !.complete = TRUE, !.final = f]
                     IN  /\ w.written = r.written /\ w.proactive = r.proactive /\ w.off = r.off
                         /\ w.complete /\ w.final = f /\ w.finish = r.finish
           /\ \A f, n : LET w == [r EXCEPT !.complete = TRUE, !.final = f, !.written = n]
                        IN  /\ w.written = n /\ w.proactive = r.proactive /\ w.off = r.off
                            /\ w.complete /\ w.final = f /\ w.finish = r.finish
           /\ LET w == [r EXCEPT !.finish = TRUE]
              IN  /\ w.written = r.written /\ w.proactive = r.proactive /\ w.off = r.off
                  /\ w.complete = r.complete /\ w.final = r.final /\ w.finish
PROOF
BY DEF Rows

------------------------------------------------------------------------------
(* What every step keeps of the row and the outbox. *)

Grows ==
    /\ row.written <= row'.written
    /\ row.complete => row'.complete /\ row'.final = row.final
    /\ row.proactive => row'.proactive
    /\ row.finish => row'.finish
    /\ switched => switched'
    /\ abandoned => abandoned'
    /\ misjudged => misjudged'
    /\ incremental' = incremental
    /\ (row.proactive /\ incremental /\ ~misjudged') => row'.off = row.off
    /\ (row.proactive /\ ~row'.finish) => row'.off = row.off
    /\ (row'.proactive /\ ~row'.finish /\ ~row.proactive) => row.written <= row'.off
    /\ (row.complete /\ row'.proactive /\ ~row.proactive) => abandoned'
    /\ \A k \in Keys : mail[k] \subseteq mail'[k]

(* A copy stays one. *)
LEMMA Older ==
    ASSUME TypeOK, Grows, TypeOK', NEW r \in Rows, CopyOf(r)
    PROVE  CopyOf(r)'
PROOF
<1>1. /\ row.written \in 0 .. MaxText /\ row.off \in 0 .. MaxText /\ r.written \in 0 .. MaxText
      /\ row'.written \in 0 .. MaxText /\ row'.off \in 0 .. MaxText
  BY RowPartTypes DEF TypeOK
<1>2. QED
  BY <1>1 DEF CopyOf, Grows

(* The row is a copy of itself. *)
LEMMA Newest == BaseInv => CopyOf(row)
PROOF
BY RowPartTypes DEF BaseInv, ModeInv, CopyOf, TypeOK

(* The row that the worker or the scheduler writes. *)
LEMMA FlushedRow ==
    ASSUME TypeOK, Flushed
    PROVE  /\ row'.written = text /\ row'.proactive = row.proactive /\ row'.off = row.off
           /\ row'.complete = row.complete /\ row'.final = row.final /\ row'.finish = row.finish
           /\ heard'.proactive = row.proactive /\ heard'.off = row.off
PROOF
<1>1. row' = [row EXCEPT !.written = text]
      /\ heard' = [proactive |-> row.proactive, off |-> row.off]
  BY DEF Flushed, Write
<1>2. QED
  BY <1>1, Fields DEF TypeOK

LEMMA SwitchedRow ==
    ASSUME TypeOK, SwitchWrite
    PROVE  /\ row'.written = row.written /\ row'.proactive
           /\ row'.off = (IF row.proactive THEN row.off ELSE text)
           /\ row'.complete = row.complete /\ row'.final = row.final /\ row'.finish = row.finish
           /\ offset' = row'.off
PROOF
<1> DEFINE off == IF row.proactive THEN row.off ELSE text
<1>1. row' = [row EXCEPT !.proactive = TRUE, !.off = off] /\ offset' = off
  BY DEF SwitchWrite, Write
<1> HIDE DEF off
<1>2. row'.written = row.written /\ row'.proactive /\ row'.off = off
      /\ row'.complete = row.complete /\ row'.final = row.final /\ row'.finish = row.finish
  BY <1>1, Fields DEF TypeOK
<1>3. QED
  BY <1>1, <1>2 DEF off

LEMMA CompletedRow ==
    ASSUME TypeOK, Complete
    PROVE  /\ row'.written = text /\ row'.proactive = row.proactive /\ row'.off = row.off
           /\ row'.complete /\ row'.final = Answer /\ row'.finish = row.finish
PROOF
<1>1. row' = [row EXCEPT !.complete = TRUE, !.final = Answer, !.written = text]
  BY DEF Complete, Write
<1>2. QED
  BY <1>1, Fields DEF TypeOK

LEMMA ReapedRow ==
    ASSUME TypeOK, ReapLost
    PROVE  /\ row'.written = row.written /\ row'.proactive = row.proactive /\ row'.off = row.off
           /\ row'.complete /\ row'.finish = row.finish
           /\ IF ~row.proactive /\ ~row.finish
              THEN row'.final = Ending(row.written, TRUE) /\ mail' = mail
              ELSE row'.final = {Mark} /\ Queue("lost", {Mark})
PROOF
<1> DEFINE pushable == ~row.proactive /\ ~row.finish
           f == Ending(IF pushable THEN row.written ELSE 0, TRUE)
<1>1. row' = [row EXCEPT !.complete = TRUE, !.final = f]
      /\ IF pushable THEN mail' = mail ELSE Queue("lost", {Mark})
  BY DEF ReapLost, Write
<1>2. Ending(0, TRUE) = {Mark}
  BY StreamAssumption DEF Ending, Segments, Mark
<1> HIDE DEF f
<1>3. row'.written = row.written /\ row'.proactive = row.proactive /\ row'.off = row.off
      /\ row'.complete /\ row'.finish = row.finish /\ row'.final = f
  BY <1>1, Fields DEF TypeOK
<1>4. QED
  BY <1>1, <1>2, <1>3 DEF f

LEMMA RecoveredRow ==
    ASSUME TypeOK, Recover
    PROVE  /\ row'.written = row.written /\ row'.proactive = row.proactive /\ row'.off = row.off
           /\ row'.complete /\ row'.finish = row.finish
           /\ row'.final = Ending(row.written, task = "failure")
           /\ IF row.proactive \/ row.finish THEN Queue("recovery", row'.final) ELSE mail' = mail
PROOF
<1> DEFINE f == Ending(row.written, task = "failure")
<1>1. row' = [row EXCEPT !.complete = TRUE, !.final = f]
      /\ IF row.proactive \/ row.finish THEN Queue("recovery", f) ELSE mail' = mail
  BY DEF Recover, Write
<1> HIDE DEF f
<1>2. row'.written = row.written /\ row'.proactive = row.proactive /\ row'.off = row.off
      /\ row'.complete /\ row'.finish = row.finish /\ row'.final = f
  BY <1>1, Fields DEF TypeOK
<1>3. QED
  BY <1>1, <1>2 DEF f

(* The outbox keeps what it has. *)
LEMMA QueueGrows ==
    ASSUME TypeOK, NEW k \in Keys, NEW S, Queue(k, S)
    PROVE  \A l \in Keys : mail[l] \subseteq mail'[l]
PROOF
<1>1. mail'[k] = IF mail[k] = {} THEN S ELSE mail[k]
  BY Queued
<1>2. \A l \in Keys \ {k} : mail'[l] = mail[l]
  BY Queued
<1>3. QED
  BY <1>1, <1>2

LEMMA ProgressQueued ==
    ASSUME TypeOK, NEW S, mail' = [mail EXCEPT !["progress"] = @ \cup S]
    PROVE  /\ mail'["progress"] = mail["progress"] \cup S
           /\ \A l \in Keys \ {"progress"} : mail'[l] = mail[l]
           /\ \A l \in Keys : mail[l] \subseteq mail'[l]
PROOF
<1>1. mail'["progress"] = mail["progress"] \cup S /\ \A l \in Keys \ {"progress"} : mail'[l] = mail[l]
  BY DEF TypeOK, Keys
<1>2. QED
  BY <1>1

LEMMA WorkerGrows ==
    ASSUME BaseInv, WorkerStep \/ ReapLost \/ Recover \/ WorkerDies
    PROVE  Grows
PROOF
<1> USE DEF rowVars, workerVars, flagVars, otherVars
<1>1. /\ TypeOK /\ row \in Rows /\ text \in 0 .. MaxText
      /\ row.written \in 0 .. MaxText /\ row.off \in 0 .. MaxText /\ row.written <= text
      /\ (stage = "switching" => row.written = text)
      /\ (stage \in {"ended", "told"} => ~row.complete)
      /\ (task = "active" => ~row.complete)
  BY RowPartTypes DEF BaseInv, TypeOK, WorkerInv, ModeInv
<1>11. ASSUME row' = row, \A l \in Keys : mail[l] \subseteq mail'[l], switched => switched',
              abandoned => abandoned', misjudged' = misjudged, incremental' = incremental
       PROVE  Grows
  BY <1>1, <1>11 DEF Grows
<1>2. ASSUME Produce \/ Adopt \/ EndTask \/ WorkerDies PROVE Grows
  <2>1. ASSUME Produce \/ EndTask PROVE Grows
    <3>1. UNCHANGED <<row, mail, switched, abandoned, misjudged, incremental>>
      BY <2>1 DEF Produce, EndTask
    <3>2. QED
      BY <1>11, <3>1
  <2>2. ASSUME Adopt PROVE Grows
    <3>1. UNCHANGED <<row, mail, abandoned, misjudged, incremental>> /\ switched'
      BY <2>2 DEF Adopt
    <3>2. QED
      BY <1>11, <3>1
  <2>3. ASSUME WorkerDies PROVE Grows
    <3>1. UNCHANGED <<row, mail, switched, misjudged, incremental>>
          /\ abandoned' = (abandoned \/ stage = "owing")
      BY <2>3 DEF WorkerDies
    <3>2. QED
      BY <1>11, <3>1
  <2>4. QED
    BY <1>2, <2>1, <2>2, <2>3
<1>3. ASSUME Flush \/ SwitchFlush PROVE Grows
  BY <1>1, <1>3, FlushedRow DEF Flush, SwitchFlush, Grows
<1>4. ASSUME SwitchWrite PROVE Grows
  BY <1>1, <1>4, SwitchedRow DEF SwitchWrite, Grows
<1>5. ASSUME PushProgress PROVE Grows
  <2>1. \A l \in Keys : mail[l] \subseteq mail'[l]
    BY <1>1, <1>5, ProgressQueued DEF PushProgress
  <2>2. QED
    BY <1>1, <1>5, <2>1 DEF PushProgress, Grows
<1>6. ASSUME Tell \/ PushFinal PROVE Grows
  <2>1. \A l \in Keys : mail[l] \subseteq mail'[l]
    BY <1>1, <1>6, QueueGrows DEF Tell, PushFinal, Keys
  <2>2. QED
    <3>1. UNCHANGED <<row, switched, abandoned, misjudged, incremental>>
      BY <1>6 DEF Tell, PushFinal
    <3>2. QED
      BY <1>11, <2>1, <3>1
<1>7. ASSUME Complete PROVE Grows
  BY <1>1, <1>7, CompletedRow DEF Complete, Grows
<1>8. ASSUME ReapLost PROVE Grows
  <2>1. \A l \in Keys : mail[l] \subseteq mail'[l]
    BY <1>1, <1>8, QueueGrows DEF ReapLost, Keys
  <2>2. /\ row'.written = row.written /\ row'.proactive = row.proactive /\ row'.off = row.off
        /\ row'.complete /\ row'.finish = row.finish
    BY <1>1, <1>8, ReapedRow
  <2>3. UNCHANGED <<workerVars, flagVars>> /\ ~row.complete
    BY <1>1, <1>8 DEF ReapLost
  <2>4. QED
    BY <1>1, <2>1, <2>2, <2>3 DEF Grows
<1>9. ASSUME Recover PROVE Grows
  <2>1. \A l \in Keys : mail[l] \subseteq mail'[l]
    BY <1>1, <1>9, QueueGrows DEF Recover, Keys
  <2>2. QED
    BY <1>1, <1>9, <2>1, RecoveredRow DEF Recover, Grows
<1>10. QED
  BY <1>2, <1>3, <1>4, <1>5, <1>6, <1>7, <1>8, <1>9 DEF WorkerStep

------------------------------------------------------------------------------
(* The worker's and the scheduler's steps keep it. *)

ScribeStep == WorkerStep \/ ReapLost \/ Recover \/ WorkerDies

(* What none of them touches. *)
LEMMA ScribeFrame ==
    ASSUME BaseInv, ScribeStep
    PROVE  /\ UNCHANGED gatewayVars /\ misjudged' = misjudged
           /\ row'.finish = row.finish /\ mail'["gap"] = mail["gap"]
PROOF
<1> USE DEF rowVars, workerVars, flagVars, otherVars
<1>1. TypeOK
  BY DEF BaseInv
<1>2. UNCHANGED gatewayVars /\ misjudged' = misjudged
  <2>1. ASSUME Produce \/ Flush \/ Adopt \/ SwitchFlush \/ SwitchWrite PROVE UNCHANGED gatewayVars /\ misjudged' = misjudged
    BY <2>1 DEF Produce, Flush, Adopt, SwitchFlush, SwitchWrite
  <2>2. ASSUME PushProgress \/ EndTask \/ Tell \/ Complete \/ PushFinal PROVE UNCHANGED gatewayVars /\ misjudged' = misjudged
    BY <2>2 DEF PushProgress, EndTask, Tell, Complete, PushFinal
  <2>3. ASSUME ReapLost \/ Recover \/ WorkerDies PROVE UNCHANGED gatewayVars /\ misjudged' = misjudged
    BY <2>3 DEF ReapLost, Recover, WorkerDies
  <2>4. QED
    BY <2>1, <2>2, <2>3 DEF ScribeStep, WorkerStep
<1>3. row'.finish = row.finish
  <2>1. ASSUME Produce \/ Adopt \/ PushProgress \/ EndTask \/ Tell \/ PushFinal \/ WorkerDies PROVE row'.finish = row.finish
    BY <2>1 DEF Produce, Adopt, PushProgress, EndTask, Tell, PushFinal, WorkerDies
  <2>2. ASSUME Flush \/ SwitchFlush \/ SwitchWrite PROVE row'.finish = row.finish
    BY <1>1, <2>2, FlushedRow, SwitchedRow DEF Flush, SwitchFlush
  <2>3. ASSUME Complete \/ ReapLost \/ Recover PROVE row'.finish = row.finish
    BY <1>1, <2>3, CompletedRow, ReapedRow, RecoveredRow
  <2>4. QED
    BY <2>1, <2>2, <2>3 DEF ScribeStep, WorkerStep
<1>4. mail'["gap"] = mail["gap"]
  <2>1. ASSUME Produce \/ Flush \/ Adopt \/ SwitchFlush \/ SwitchWrite PROVE mail'["gap"] = mail["gap"]
    BY <2>1 DEF Produce, Flush, Adopt, SwitchFlush, SwitchWrite
  <2>2. ASSUME EndTask \/ Complete \/ WorkerDies PROVE mail'["gap"] = mail["gap"]
    BY <2>2 DEF EndTask, Complete, WorkerDies
  <2>3. ASSUME PushProgress PROVE mail'["gap"] = mail["gap"]
    BY <1>1, <2>3, ProgressQueued DEF PushProgress, Keys
  <2>4. ASSUME Tell \/ PushFinal PROVE mail'["gap"] = mail["gap"]
    BY <1>1, <2>4, Queued DEF Tell, PushFinal, Keys
  <2>5. ASSUME ReapLost PROVE mail'["gap"] = mail["gap"]
    BY <1>1, <2>5, Queued DEF ReapLost, Keys
  <2>6. ASSUME Recover PROVE mail'["gap"] = mail["gap"]
    BY <1>1, <2>6, Queued DEF Recover, Keys
  <2>7. QED
    BY <2>1, <2>2, <2>3, <2>4, <2>5, <2>6 DEF ScribeStep, WorkerStep
<1>5. QED
  BY <1>2, <1>3, <1>4

LEMMA ScribeCopies ==
    ASSUME BaseInv, ScribeStep
    PROVE  CopyInv' /\ FrameInv' /\ LiveInv'
PROOF
<1>1. TypeOK /\ TypeOK' /\ Grows /\ CopyInv /\ FrameInv /\ LiveInv
  BY WorkerTypes, WorkerGrows DEF BaseInv, ScribeStep
<1>2. /\ UNCHANGED <<up, pc, copy, late, lateCopy, acked, known, blocked, confirmed, bubble, live, reply>>
      /\ misjudged' = misjudged /\ row'.finish = row.finish /\ mail'["gap"] = mail["gap"]
  BY ScribeFrame DEF gatewayVars, pushVars, lateVars, ackVars, platformVars
<1>3. /\ row.written \in 0 .. MaxText /\ row.off \in 0 .. MaxText
      /\ row'.written \in 0 .. MaxText /\ row'.off \in 0 .. MaxText
      /\ row \in Rows /\ lateCopy \in Rows /\ \A g \in Gateway : copy[g] \in Rows
      /\ acked \in 0 .. MaxText
  BY <1>1, RowPartTypes DEF TypeOK
<1>4. CopyInv'
  <2>1. ASSUME NEW g \in Gateway, Busy(g)' PROVE CopyOf(copy[g])'
    <3>1. Busy(g) /\ copy[g]' = copy[g]
      BY <1>2, <2>1 DEF Busy
    <3>2. CopyOf(copy[g])
      BY <1>1, <3>1 DEF CopyInv
    <3>3. CopyOf(copy[g])'
      <4> DEFINE r == copy[g]
      <4>1. r \in Rows /\ r' = r
        BY <1>3, <3>1
      <4>2. PICK q \in Rows : q = r
        BY <4>1
      <4>3. CopyOf(q)'
        BY <1>1, <3>2, <4>2, Older
      <4>4. QED
        BY <4>1, <4>2, <4>3 DEF CopyOf
    <3>4. QED
      BY <3>3
  <2>2. ASSUME late' PROVE CopyOf(lateCopy)'
    <3>1. PICK q \in Rows : q = lateCopy
      BY <1>3
    <3>2. CopyOf(q)
      BY <1>1, <1>2, <2>2, <3>1 DEF CopyInv
    <3>3. CopyOf(q)'
      BY <1>1, <3>2, Older
    <3>4. QED
      BY <1>2, <3>1, <3>3 DEF CopyOf
  <2>3. QED
    BY <1>1, <1>2, <2>1, <2>2 DEF CopyInv
<1>5. FrameInv'
  BY <1>1, <1>2, <1>3 DEF FrameInv, Grows, Busy
<1>6. LiveInv'
  <2>1. ASSUME live'
        PROVE  \E n \in 0 .. row'.written :
                  /\ bubble' = 1 .. n
                  /\ Busy(Opener)' => n <= copy'[Opener].written
                  /\ (row'.proactive /\ ~row'.finish) => n <= row'.off
    <3>1. PICK n \in 0 .. row.written :
                  /\ bubble = 1 .. n
                  /\ Busy(Opener) => n <= copy[Opener].written
                  /\ (row.proactive /\ ~row.finish) => n <= row.off
      BY <1>1, <1>2, <2>1 DEF LiveInv
    <3>2. n \in 0 .. row'.written
      BY <1>1, <1>3, <3>1 DEF Grows
    <3>3. (row'.proactive /\ ~row'.finish) => n <= row'.off
      BY <1>1, <1>2, <1>3, <3>1 DEF Grows
    <3>4. QED
      BY <1>2, <3>1, <3>2, <3>3 DEF Busy
  <2>2. QED
    BY <1>1, <1>2, <2>1 DEF LiveInv, Busy
<1>7. QED
  BY <1>4, <1>5, <1>6

LEMMA ScribeBase ==
    ASSUME BaseInv, ScribeStep
    PROVE  BaseInv'
PROOF
<1> USE DEF rowVars, workerVars, flagVars, otherVars
<1>1. TypeOK /\ TypeOK' /\ WorkerInv /\ ModeInv /\ CopyInv' /\ FrameInv' /\ LiveInv'
  BY WorkerTypes, ScribeCopies DEF BaseInv, ScribeStep
<1>2. /\ row \in Rows /\ text \in 0 .. MaxText /\ row.written \in 0 .. MaxText
      /\ row.off \in 0 .. MaxText /\ text' \in 0 .. MaxText
      /\ task \in Verdicts /\ stage \in Stages
  BY <1>1, RowPartTypes DEF TypeOK
<1>3. "final" \in Keys /\ "lost" \in Keys /\ "recovery" \in Keys
  BY DEF Keys
<1>4. ASSUME Produce PROVE WorkerInv' /\ ModeInv'
  <2>1. stage = "run" /\ text' = text + 1
        /\ UNCHANGED <<row, task, stage, heard, switched, mail, incremental, misjudged>>
    BY <1>4 DEF Produce
  <2>2. QED
    BY <1>1, <1>2, <2>1 DEF WorkerInv, ModeInv
<1>5. ASSUME Flush \/ SwitchFlush PROVE WorkerInv' /\ ModeInv'
  <2>1. /\ row'.written = text /\ row'.proactive = row.proactive /\ row'.off = row.off
        /\ row'.complete = row.complete /\ row'.final = row.final /\ row'.finish = row.finish
        /\ heard'.proactive = row.proactive /\ heard'.off = row.off
    BY <1>1, <1>5, FlushedRow DEF Flush, SwitchFlush
  <2>2. /\ stage = "run" /\ UNCHANGED <<task, text, mail, incremental, misjudged>>
        /\ \/ stage' = stage /\ switched' = switched
           \/ stage' = "switching" /\ switched'
    BY <1>5 DEF Flush, SwitchFlush
  <2>3. row.complete => task = "lost"
    BY <1>1, <2>2 DEF WorkerInv
  <2>4. WorkerInv'
    BY <1>1, <1>2, <2>1, <2>2, <2>3 DEF WorkerInv
  <2>5. ModeInv'
    BY <1>1, <1>2, <2>1, <2>2 DEF ModeInv, WorkerInv
  <2>6. QED
    BY <2>4, <2>5
<1>6. ASSUME Adopt PROVE WorkerInv' /\ ModeInv'
  <2>1. stage = "run" /\ switched' /\ heard.proactive
        /\ UNCHANGED <<row, task, stage, text, heard, mail, incremental, misjudged>>
    BY <1>6 DEF Adopt
  <2>2. QED
    BY <1>1, <2>1 DEF WorkerInv, ModeInv
<1>7. ASSUME SwitchWrite PROVE WorkerInv' /\ ModeInv'
  <2>1. /\ row'.written = row.written /\ row'.proactive
        /\ row'.off = (IF row.proactive THEN row.off ELSE text)
        /\ row'.complete = row.complete /\ row'.final = row.final /\ row'.finish = row.finish
    BY <1>1, <1>7, SwitchedRow
  <2>2. stage = "switching" /\ stage' = "run"
        /\ UNCHANGED <<task, text, heard, switched, mail, incremental, misjudged>>
    BY <1>7 DEF SwitchWrite
  <2>3. switched /\ row.written = text /\ (row.complete => task = "lost")
    BY <1>1, <2>2 DEF ModeInv, WorkerInv
  <2>4. WorkerInv'
    BY <1>1, <1>2, <2>1, <2>2, <2>3 DEF WorkerInv
  <2>5. ModeInv'
    BY <1>1, <1>2, <2>1, <2>2, <2>3 DEF ModeInv
  <2>6. QED
    BY <2>4, <2>5
<1>8. ASSUME PushProgress PROVE WorkerInv' /\ ModeInv'
  <2>1. UNCHANGED <<row, task, stage, text, heard, switched, incremental, misjudged>>
    BY <1>8 DEF PushProgress
  <2>2. \A l \in {"final", "lost", "recovery"} : mail'[l] = mail[l]
    BY <1>1, <1>8, ProgressQueued DEF PushProgress, Keys
  <2>3. QED
    BY <1>1, <2>1, <2>2 DEF WorkerInv, ModeInv
<1>9. ASSUME EndTask PROVE WorkerInv' /\ ModeInv'
  <2>1. /\ stage = "run" /\ UNCHANGED <<row, text, heard, switched, mail, incremental, misjudged>>
        /\ \/ task = "active" /\ task' \in {"success", "failure"} /\ stage' = "ended"
           \/ task # "active" /\ stage' = "done" /\ task' = task
    BY <1>9 DEF EndTask
  <2>2. QED
    BY <1>1, <2>1 DEF WorkerInv, ModeInv
<1>10. ASSUME Tell PROVE WorkerInv' /\ ModeInv'
  <2>1. /\ stage = "ended" /\ switched /\ stage' = "told"
        /\ UNCHANGED <<row, task, text, heard, switched, incremental, misjudged>>
    BY <1>10 DEF Tell
  <2>2. \A l \in {"lost", "recovery"} : mail'[l] = mail[l]
    BY <1>1, <1>10, Queued DEF Tell, Keys
  <2>3. row.proactive
    BY <1>1, <2>1 DEF ModeInv
  <2>4. QED
    BY <1>1, <2>1, <2>2, <2>3 DEF WorkerInv, ModeInv
<1>11. ASSUME Complete PROVE WorkerInv' /\ ModeInv'
  <2>1. /\ row'.written = text /\ row'.proactive = row.proactive /\ row'.off = row.off
        /\ row'.complete /\ row'.final = Answer /\ row'.finish = row.finish
    BY <1>1, <1>11, CompletedRow
  <2>2. /\ IF switched THEN stage = "told" ELSE stage = "ended"
        /\ stage' \in {"owing", "done"} /\ (stage' = "owing" => ~switched /\ row.proactive)
        /\ UNCHANGED <<task, text, heard, switched, mail, incremental, misjudged>>
    BY <1>11 DEF Complete
  <2>3. task \in {"success", "failure"} /\ (task = "success" => 1 .. row'.written \subseteq row'.final)
    BY <1>1, <2>1, <2>2 DEF WorkerInv, Answer
  <2>4. WorkerInv'
    BY <1>1, <1>2, <2>1, <2>2, <2>3 DEF WorkerInv
  <2>5. ModeInv'
    BY <1>1, <1>2, <2>1, <2>2 DEF ModeInv, WorkerInv
  <2>6. QED
    BY <2>4, <2>5
<1>12. ASSUME PushFinal PROVE WorkerInv' /\ ModeInv'
  <2>1. /\ stage = "owing" /\ stage' = "done"
        /\ UNCHANGED <<row, task, text, heard, switched, incremental, misjudged>>
    BY <1>12 DEF PushFinal
  <2>2. \A l \in {"lost", "recovery"} : mail'[l] = mail[l]
    BY <1>1, <1>12, Queued DEF PushFinal, Keys
  <2>3. QED
    BY <1>1, <2>1, <2>2 DEF WorkerInv, ModeInv
<1>13. ASSUME ReapLost PROVE WorkerInv' /\ ModeInv'
  <2>1. /\ row'.written = row.written /\ row'.proactive = row.proactive /\ row'.off = row.off
        /\ row'.complete /\ row'.finish = row.finish
    BY <1>1, <1>13, ReapedRow
  <2>2. /\ stage \in {"run", "switching", "dead"} /\ task = "active" /\ task' = "lost"
        /\ UNCHANGED <<stage, text, heard, switched, incremental, misjudged>>
    BY <1>13 DEF ReapLost
  <2>3. WorkerInv'
    BY <1>1, <2>1, <2>2 DEF WorkerInv
  <2>4. ModeInv'
    BY <1>1, <2>1, <2>2 DEF ModeInv, WorkerInv
  <2>5. QED
    BY <2>3, <2>4
<1>14. ASSUME Recover PROVE WorkerInv' /\ ModeInv'
  <2>1. /\ row'.written = row.written /\ row'.proactive = row.proactive /\ row'.off = row.off
        /\ row'.complete /\ row'.finish = row.finish
        /\ row'.final = Ending(row.written, task = "failure")
    BY <1>1, <1>14, RecoveredRow
  <2>2. /\ stage = "dead" /\ task \in {"success", "failure"}
        /\ UNCHANGED <<task, stage, text, heard, switched, incremental, misjudged>>
    BY <1>14 DEF Recover
  <2>3. 1 .. row'.written \subseteq row'.final
    BY <1>2, <2>1, SegmentTypes DEF Ending
  <2>4. WorkerInv'
    BY <1>1, <2>1, <2>2, <2>3 DEF WorkerInv
  <2>5. ModeInv'
    BY <1>1, <2>1, <2>2 DEF ModeInv, WorkerInv
  <2>6. QED
    BY <2>4, <2>5
<1>15. ASSUME WorkerDies PROVE WorkerInv' /\ ModeInv'
  <2>1. /\ stage' = "dead" /\ stage \notin {"done", "dead"}
        /\ UNCHANGED <<row, task, text, heard, switched, mail, incremental, misjudged>>
    BY <1>15 DEF WorkerDies
  <2>2. WorkerInv'
    BY <1>1, <2>1 DEF WorkerInv
  <2>3. ModeInv'
    BY <1>1, <2>1 DEF ModeInv
  <2>4. QED
    BY <2>2, <2>3
<1>16. WorkerInv' /\ ModeInv'
  BY <1>4, <1>5, <1>6, <1>7, <1>8, <1>9, <1>10, <1>11, <1>12, <1>13, <1>14, <1>15
     DEF ScribeStep, WorkerStep
<1>17. QED
  BY <1>1, <1>16 DEF BaseInv

------------------------------------------------------------------------------
(* What a gateway's step does to the row and the outbox. *)

Finishes == row' = [row EXCEPT !.finish = TRUE]

(* Nothing, or the mark that the bubble has its last frame. *)
Leaves == row' = row /\ mail' = mail /\ misjudged' = misjudged
Ends ==
    /\ Finishes /\ mail' = mail /\ misjudged' = misjudged
    /\ row.proactive \/ row.complete

(* The part that the bubble lacks is queued. *)
FillsGap(r, c) ==
    /\ r.proactive /\ CopyOf(r) /\ Queue("gap", Gap(r, c))
    /\ row' = row \/ Finishes
    /\ misjudged' = misjudged

(* The final text is queued from c on. *)
Delivers(c) ==
    /\ row.complete /\ Finishes
    /\ Queue("final", {s \in row.final : task = "success" => s > c})
    /\ misjudged' = (misjudged \/ row.proactive)

(* The stream is left to the worker from c on. *)
Switches(c) ==
    /\ ~row.complete /\ c \in 0 .. MaxText /\ c <= row.written
    /\ row' = [row EXCEPT !.proactive = TRUE, !.off = c, !.finish = TRUE]
    /\ mail' = mail /\ misjudged' = (misjudged \/ row.proactive)

Hands(r, c) == FillsGap(r, c) \/ Delivers(c) \/ Switches(c)

LEMMA HandsOver ==
    ASSUME BaseInv, NEW g, NEW r \in Rows, CopyOf(r), NEW c \in 0 .. MaxText, c <= row.written,
           \/ HandOff(g, r, c)
           \/ ToProactive(c)
           \/ r.complete /\ DeliverFinal(c)
    PROVE  Hands(r, c)
PROOF
<1>1. ASSUME row.complete, DeliverFinal(c) PROVE Delivers(c)
  BY <1>1 DEF DeliverFinal, Delivers, Finishes
<1>2. ASSUME ToProactive(c) PROVE Delivers(c) \/ Switches(c)
  BY <1>1, <1>2 DEF ToProactive, Switches
<1>3. ASSUME HandOff(g, r, c), r.proactive PROVE FillsGap(r, c)
  BY <1>3 DEF HandOff, FillsGap, Finishes
<1>4. r.complete => row.complete
  BY DEF CopyOf
<1>5. ASSUME HandOff(g, r, c), ~r.proactive PROVE Delivers(c) \/ Switches(c)
  BY <1>1, <1>2, <1>4, <1>5 DEF HandOff
<1>6. QED
  BY <1>1, <1>2, <1>3, <1>4, <1>5 DEF Hands

(* What has been delivered is at most what was written. *)
LEMMA DeliveredWritten ==
    ASSUME BaseInv, NEW c \in Delivered
    PROVE  c \in 0 .. MaxText /\ c <= row.written /\ c <= acked
           /\ (Busy(Opener) => c <= copy[Opener].written) /\ (blocked => c = confirmed)
PROOF
<1>1. c \in 0 .. MaxText /\ row.written \in 0 .. MaxText /\ acked \in 0 .. MaxText
      /\ confirmed \in 0 .. MaxText /\ copy[Opener].written \in 0 .. MaxText
  BY DeliveredTypes, RowPartTypes DEF BaseInv, TypeOK, Opener, Gateway
<1>2. c <= acked /\ (blocked => c = confirmed)
  BY <1>1 DEF Delivered, BaseInv, FrameInv
<1>3. QED
  BY <1>1, <1>2 DEF BaseInv, FrameInv

(* What a gateway leaves alone of the worker. *)
Scribe == UNCHANGED <<task, workerVars>> /\ (abandoned => abandoned')

Shape == Leaves \/ Ends \/ \E r \in Rows, c \in 0 .. MaxText : Hands(r, c)

LEMMA ShapeKeeps ==
    ASSUME BaseInv, Scribe, Shape
    PROVE  Grows /\ WorkerInv' /\ ModeInv'
PROOF
<1>1. TypeOK /\ WorkerInv /\ ModeInv
  BY DEF BaseInv
<1>2. /\ UNCHANGED <<task, incremental, stage, text, heard, switched>> /\ (abandoned => abandoned')
  BY DEF Scribe, workerVars
<1>3. /\ row \in Rows /\ row.written \in 0 .. MaxText /\ row.off \in 0 .. MaxText
  BY <1>1, RowPartTypes DEF TypeOK
<1>4. "final" \in Keys /\ "lost" \in Keys /\ "recovery" \in Keys /\ "gap" \in Keys
  BY DEF Keys
<1>5. ASSUME Leaves PROVE Grows /\ WorkerInv' /\ ModeInv'
  <2>1. row' = row /\ mail' = mail /\ misjudged' = misjudged
    BY <1>5 DEF Leaves
  <2>2. QED
    BY <1>1, <1>2, <1>3, <2>1 DEF Grows, WorkerInv, ModeInv
<1>6. ASSUME Finishes
      PROVE  /\ row'.written = row.written /\ row'.proactive = row.proactive /\ row'.off = row.off
             /\ row'.complete = row.complete /\ row'.final = row.final /\ row'.finish
  BY <1>3, <1>6, Fields DEF Finishes
<1>7. ASSUME Ends PROVE Grows /\ WorkerInv' /\ ModeInv'
  <2>1. mail' = mail /\ misjudged' = misjudged /\ (row.proactive \/ row.complete)
    BY <1>7 DEF Ends
  <2>2. /\ row'.written = row.written /\ row'.proactive = row.proactive /\ row'.off = row.off
        /\ row'.complete = row.complete /\ row'.final = row.final /\ row'.finish
    BY <1>6, <1>7 DEF Ends
  <2>3. Grows
    BY <1>2, <1>3, <2>1, <2>2 DEF Grows
  <2>4. WorkerInv' /\ ModeInv'
    BY <1>1, <1>2, <1>3, <2>1, <2>2 DEF WorkerInv, ModeInv
  <2>5. QED
    BY <2>3, <2>4
<1>8. ASSUME NEW r \in Rows, NEW c \in 0 .. MaxText, FillsGap(r, c)
      PROVE  Grows /\ WorkerInv' /\ ModeInv'
  <2>1. misjudged' = misjudged /\ row.proactive
        /\ \A l \in {"final", "lost", "recovery"} : mail'[l] = mail[l]
    BY <1>1, <1>4, <1>8, Queued DEF FillsGap, CopyOf
  <2>2. \A l \in Keys : mail[l] \subseteq mail'[l]
    BY <1>1, <1>4, <1>8, QueueGrows DEF FillsGap
  <2>3. /\ row'.written = row.written /\ row'.proactive = row.proactive /\ row'.off = row.off
        /\ row'.complete = row.complete /\ row'.final = row.final /\ (row.finish => row'.finish)
    BY <1>6, <1>8 DEF FillsGap
  <2>4. Grows
    BY <1>2, <1>3, <2>1, <2>2, <2>3 DEF Grows
  <2>5. WorkerInv' /\ ModeInv'
    BY <1>1, <1>2, <1>3, <2>1, <2>3 DEF WorkerInv, ModeInv
  <2>6. QED
    BY <2>4, <2>5
<1>9. ASSUME NEW c \in 0 .. MaxText, Delivers(c)
      PROVE  Grows /\ WorkerInv' /\ ModeInv'
  <2>1. misjudged' = (misjudged \/ row.proactive) /\ row.complete
        /\ \A l \in {"lost", "recovery"} : mail'[l] = mail[l]
    BY <1>1, <1>4, <1>9, Queued DEF Delivers
  <2>2. \A l \in Keys : mail[l] \subseteq mail'[l]
    BY <1>1, <1>4, <1>9, QueueGrows DEF Delivers
  <2>3. /\ row'.written = row.written /\ row'.proactive = row.proactive /\ row'.off = row.off
        /\ row'.complete = row.complete /\ row'.final = row.final /\ row'.finish
    BY <1>6, <1>9 DEF Delivers
  <2>4. Grows
    <3>1. (misjudged => misjudged') /\ (row.proactive => misjudged')
      BY <2>1
    <3>2. QED
      BY <1>2, <1>3, <2>1, <2>2, <2>3, <3>1 DEF Grows
  <2>5. WorkerInv' /\ ModeInv'
    BY <1>1, <1>2, <1>3, <2>1, <2>3 DEF WorkerInv, ModeInv
  <2>6. QED
    BY <2>4, <2>5
<1>10. ASSUME NEW c \in 0 .. MaxText, Switches(c)
       PROVE  Grows /\ WorkerInv' /\ ModeInv'
  <2>1. /\ misjudged' = (misjudged \/ row.proactive) /\ ~row.complete /\ mail' = mail
        /\ c <= row.written
    BY <1>10 DEF Switches
  <2>2. /\ row'.written = row.written /\ row'.proactive /\ row'.off = c
        /\ row'.complete = row.complete /\ row'.final = row.final /\ row'.finish
    BY <1>3, <1>10, Fields DEF Switches
  <2>3. Grows
    <3>1. (misjudged => misjudged') /\ (row.proactive => misjudged')
      BY <2>1
    <3>2. \A l \in Keys : mail[l] \subseteq mail'[l]
      BY <2>1
    <3>3. QED
      BY <1>2, <1>3, <2>1, <2>2, <3>1, <3>2 DEF Grows
  <2>4. WorkerInv'
    BY <1>1, <1>2, <1>3, <2>1, <2>2 DEF WorkerInv
  <2>5. ModeInv'
    BY <1>1, <1>2, <1>3, <2>1, <2>2 DEF ModeInv
  <2>6. QED
    BY <2>3, <2>4, <2>5
<1>11. QED
  BY <1>5, <1>7, <1>8, <1>9, <1>10 DEF Shape, Hands

(* The copies that stay, and the new ones. *)
LEMMA CopiesKept ==
    ASSUME BaseInv, TypeOK', Grows,
           \A g \in Gateway : Busy(g)' =>
               \/ Busy(g) /\ copy'[g] = copy[g]
               \/ copy'[g] = row /\ row' = row,
           late' => \/ late /\ lateCopy' = lateCopy
                    \/ lateCopy' = row /\ row' = row
    PROVE  /\ \A g \in Gateway : Busy(g)' => CopyOf(copy[g])'
           /\ late' => CopyOf(lateCopy)'
PROOF
<1>1. TypeOK /\ CopyInv
  BY DEF BaseInv
<1>2. row \in Rows /\ lateCopy \in Rows /\ \A g \in Gateway : copy[g] \in Rows
  BY <1>1 DEF TypeOK
<1>3. \A q \in Rows : CopyOf(q) => CopyOf(q)'
  BY <1>1, Older
<1>4. CopyOf(row)
  BY Newest
<1>5. ASSUME NEW g \in Gateway, Busy(g)' PROVE CopyOf(copy[g])'
  <2>1. PICK q \in Rows : q = copy'[g] /\ CopyOf(q)
    BY <1>1, <1>2, <1>4, <1>5 DEF CopyInv
  <2>2. CopyOf(q)'
    BY <1>3, <2>1
  <2>3. QED
    BY <2>1, <2>2 DEF CopyOf
<1>6. ASSUME late' PROVE CopyOf(lateCopy)'
  <2>1. PICK q \in Rows : q = lateCopy' /\ CopyOf(q)
    BY <1>1, <1>2, <1>4, <1>6 DEF CopyInv
  <2>2. CopyOf(q)'
    BY <1>3, <2>1
  <2>3. QED
    BY <2>1, <2>2 DEF CopyOf
<1>7. QED
  BY <1>5, <1>6

------------------------------------------------------------------------------
(* What a frame does. *)

LEMMA FrameFacts ==
    ASSUME BaseInv, NEW fate \in Fates, NEW segs, NEW len \in 0 .. MaxText, acked <= len,
           NEW finish \in BOOLEAN, Transmit(fate, segs, len, finish)
    PROVE  /\ live' => live
           /\ fate[1] => live /\ bubble' = segs /\ fate[2] \in {"sent", "offline"}
           /\ (fate[1] /\ finish) => ~live'
           /\ ~fate[1] => bubble' = bubble /\ acked' = acked
           /\ (fate[1] /\ fate[2] = "sent") => acked' = len
           /\ acked <= acked' /\ acked' <= len
           /\ known => known'
           /\ fate[2] = "sent" => known'
           /\ reply' = "dead" => ~live'
           /\ blocked => reply' # "ok" /\ ~fate[1] /\ fate[2] # "sent" /\ ~live'
           /\ fate[2] = "dead" => ~live' /\ ~fate[1] /\ reply' # "ok"
           /\ (fate[2] = "sent" /\ ~fate[1]) => reply' = "dead"
           /\ reply = "dead" => fate[2] = "dead" /\ reply' = "dead"
PROOF
<1>1. /\ bubble' = (IF fate[1] THEN segs ELSE bubble)
      /\ live' = (live /\ "dead" \notin {fate[2], fate[3]} /\ ~(fate[1] /\ finish))
      /\ reply' = fate[3]
      /\ acked' = (IF fate[1] /\ fate[2] = "sent" THEN len ELSE acked)
      /\ known' = (known \/ fate[2] = "sent")
  BY DEF Transmit
<1>2. /\ fate[1] => live /\ fate[2] \in {"sent", "offline"}
      /\ fate[3] = "ok" => fate[1]
      /\ (fate[2] = "sent" /\ ~fate[1]) => reply = "ok" /\ fate[3] = "dead"
      /\ (fate[2] = "sent" /\ ~live) => reply = "ok"
      /\ reply = "dead" => fate[2] = "dead" /\ fate[3] = "dead"
  BY FateFacts DEF BaseInv
<1>3. acked \in 0 .. MaxText
  BY DEF BaseInv, TypeOK
<1>4. blocked => ~live /\ reply # "ok"
  BY DEF BaseInv, FrameInv
<1>5. /\ live' => live
      /\ fate[2] = "dead" => ~live'
      /\ fate[3] = "dead" => ~live'
      /\ (fate[1] /\ finish) => ~live'
  BY <1>1
<1>6. (known => known') /\ (fate[2] = "sent" => known')
  BY <1>1
<1>7. /\ fate[1] => live /\ bubble' = segs
      /\ ~fate[1] => bubble' = bubble /\ acked' = acked
      /\ (fate[1] /\ fate[2] = "sent") => acked' = len
      /\ acked <= acked' /\ acked' <= len
  BY <1>1, <1>2, <1>3
<1>8. QED
  BY <1>1, <1>2, <1>4, <1>5, <1>6, <1>7

(* The segments that a push or a drain puts into its frame. *)
PushSegs(r) ==
    CASE r.proactive -> UpToOffset(r)
      [] ~r.proactive /\ r.complete -> r.final
      [] OTHER -> 1 .. r.written

DrainSegs(r) == IF r.complete THEN r.final ELSE 1 .. r.written

Held == UNCHANGED <<blocked, confirmed>>

(* Push: the row is left, ended, or handed over at what is delivered. *)
Pushes(fate, r) ==
    /\ Transmit(fate, PushSegs(r), r.written, r.proactive \/ r.complete)
    /\ fate[2] = "sent" =>
          Held /\ IF r.proactive \/ r.complete THEN Ends ELSE Leaves
    /\ fate[2] = "dead" => \E c \in Delivered : Block(c) /\ Hands(r, c)
    /\ fate[2] \notin {"sent", "dead"} => Held /\ Leaves

(* DrainSend: a complete answer that was taken ends, any other is handed *)
(* over at the length that the gateway takes for delivered.              *)
Drains(fate, r, c) ==
    /\ Transmit(fate, DrainSegs(r), r.written, TRUE)
    /\ IF fate[2] = "dead" THEN Block(c) ELSE Held
    /\ (r.complete /\ fate[2] = "sent") => Ends
    /\ (r.complete /\ fate[2] # "sent") => Delivers(c)
    /\ ~r.complete =>
          LET d == IF fate[2] = "sent" THEN r.written ELSE c
          IN  Delivers(d) \/ Switches(d)
    /\ abandoned' = (abandoned \/ (fate[2] = "sent" /\ ~fate[1] /\ row.complete /\ ~r.complete))

LEMMA Proactively ==
    ASSUME NEW c \in 0 .. MaxText, c <= row.written, ToProactive(c) \/ (row.complete /\ DeliverFinal(c))
    PROVE  Delivers(c) \/ Switches(c)
PROOF
<1>1. ASSUME row.complete, DeliverFinal(c) PROVE Delivers(c)
  BY <1>1 DEF DeliverFinal, Delivers, Finishes
<1>2. ASSUME ~row.complete, ToProactive(c) PROVE Switches(c)
  BY <1>2 DEF ToProactive, Switches
<1>3. QED
  BY <1>1, <1>2 DEF ToProactive

LEMMA PushFacts ==
    ASSUME BaseInv, NEW g \in Gateway, Push(g)
    PROVE  /\ g = Opener /\ pc[Opener] = "push" /\ ~copy[Opener].finish /\ ~blocked
           /\ copy[Opener] \in Rows /\ CopyOf(copy[Opener]) /\ acked <= copy[Opener].written
           /\ Return(Opener, "idle") /\ UNCHANGED lateVars /\ Scribe /\ abandoned' = abandoned
           /\ \E fate \in Fates : Pushes(fate, copy[Opener])
PROOF
<1> DEFINE r == copy[Opener]
           fin == r.proactive \/ r.complete
<1>1. /\ pc[g] = "push" /\ ~copy[g].finish /\ g = Opener /\ ~blocked
      /\ Return(g, "idle") /\ UNCHANGED <<task, workerVars, lateVars, abandoned>>
  BY DEF Push
<1>2. PICK fate \in Fates :
            /\ Transmit(fate, PushSegs(r), r.written, fin)
            /\ CASE fate[2] = "sent" ->
                      /\ row' = [row EXCEPT !.finish = @ \/ fin]
                      /\ Acknowledge(g)
                      /\ UNCHANGED <<mail, blocked, confirmed, misjudged>>
                 [] fate[2] = "dead" ->
                      \E c \in Delivered : Block(c) /\ HandOff(g, r, c)
                 [] OTHER ->
                      UNCHANGED <<rowVars, mail, blocked, confirmed, misjudged>>
  BY <1>1 DEF Push, PushSegs
<1>3. /\ r \in Rows /\ CopyOf(r) /\ acked <= r.written /\ row \in Rows
      /\ r.proactive \in BOOLEAN /\ r.complete \in BOOLEAN
  BY <1>1, RowPartTypes DEF BaseInv, CopyInv, FrameInv, Busy, TypeOK, Opener, Gateway
<1> HIDE DEF r
<1>4. ASSUME fate[2] = "sent"
      PROVE  Held /\ IF fin THEN Ends ELSE Leaves
  <2>1. row' = [row EXCEPT !.finish = @ \/ fin] /\ UNCHANGED <<mail, blocked, confirmed, misjudged>>
    BY <1>2, <1>4
  <2>2. CASE fin
    <3>1. row.proactive \/ row.complete
      BY <1>3, <2>2 DEF CopyOf
    <3>2. row' = [row EXCEPT !.finish = TRUE]
      BY <1>3, <2>1, <2>2 DEF Rows
    <3>3. QED
      BY <2>1, <2>2, <3>1, <3>2 DEF Ends, Finishes, Held
  <2>3. CASE ~fin
    <3>1. row' = row
      BY <1>3, <2>1, <2>3 DEF Rows
    <3>2. QED
      BY <2>1, <2>3, <3>1 DEF Leaves, Held
  <2>4. QED
    BY <2>2, <2>3
<1>5. ASSUME fate[2] = "dead" PROVE \E c \in Delivered : Block(c) /\ Hands(r, c)
  <2>1. PICK c \in Delivered : Block(c) /\ HandOff(g, r, c)
    BY <1>2, <1>5
  <2>2. c \in 0 .. MaxText /\ c <= row.written
    BY DeliveredWritten
  <2>3. Hands(r, c)
    BY <1>3, <2>1, <2>2, HandsOver
  <2>4. QED
    BY <2>1, <2>3
<1>6. ASSUME fate[2] \notin {"sent", "dead"} PROVE Held /\ Leaves
  BY <1>2, <1>6 DEF Held, Leaves, rowVars
<1>7. Pushes(fate, r)
  BY <1>2, <1>4, <1>5, <1>6 DEF Pushes
<1>8. QED
  BY <1>1, <1>3, <1>7 DEF r, Scribe

LEMMA DrainFacts ==
    ASSUME BaseInv, DrainSend
    PROVE  /\ pc[Opener] = "drain" /\ ~copy[Opener].finish
           /\ copy[Opener] \in Rows /\ CopyOf(copy[Opener]) /\ acked <= copy[Opener].written
           /\ Return(Opener, "drained") /\ UNCHANGED lateVars /\ Scribe
           /\ \E fate \in Fates, c \in Delivered : Drains(fate, copy[Opener], c)
PROOF
<1> DEFINE r == copy[Opener]
<1>1. /\ pc[Opener] = "drain" /\ Return(Opener, "drained")
      /\ UNCHANGED <<task, workerVars, lateVars>>
  BY DEF DrainSend
<1>2. PICK fate \in Fates, c \in Delivered :
         /\ Transmit(fate, DrainSegs(r), r.written, TRUE)
         /\ IF fate[2] = "dead" THEN Block(c) ELSE UNCHANGED <<blocked, confirmed>>
         /\ CASE r.complete /\ fate[2] = "sent" ->
                   /\ row' = [row EXCEPT !.finish = TRUE]
                   /\ Acknowledge(Opener)
                   /\ UNCHANGED <<mail, misjudged>>
              [] r.complete /\ fate[2] # "sent" -> DeliverFinal(c)
              [] OTHER -> ToProactive(IF fate[2] = "sent" THEN r.written ELSE c)
         /\ abandoned' = (abandoned \/ (/\ fate[2] = "sent" /\ ~fate[1]
                                        /\ row.complete /\ ~r.complete))
  BY DEF DrainSend, DrainSegs
<1>3. /\ r \in Rows /\ CopyOf(r) /\ acked <= r.written /\ ~r.finish
      /\ r.proactive \in BOOLEAN /\ r.complete \in BOOLEAN /\ r.written \in 0 .. MaxText
  BY <1>1, RowPartTypes DEF BaseInv, CopyInv, FrameInv, Busy, TypeOK, Opener, Gateway
<1> HIDE DEF r
<1>4. c \in 0 .. MaxText /\ c <= row.written
  BY DeliveredWritten
<1>5. (r.complete /\ fate[2] = "sent") => Ends
  BY <1>2, <1>3 DEF Ends, Finishes, CopyOf
<1>6. (r.complete /\ fate[2] # "sent") => Delivers(c)
  <2>1. SUFFICES ASSUME r.complete, fate[2] # "sent" PROVE Delivers(c)
    OBVIOUS
  <2>2. DeliverFinal(c) /\ row.complete
    BY <1>2, <1>3, <2>1 DEF CopyOf
  <2>3. QED
    BY <1>4, <2>2, Proactively DEF Switches
<1>7. ~r.complete => LET d == IF fate[2] = "sent" THEN r.written ELSE c
                     IN  Delivers(d) \/ Switches(d)
  <2> DEFINE d == IF fate[2] = "sent" THEN r.written ELSE c
  <2>1. SUFFICES ASSUME ~r.complete PROVE Delivers(d) \/ Switches(d)
    OBVIOUS
  <2>2. ToProactive(d)
    BY <1>2, <2>1
  <2>3. d \in 0 .. MaxText /\ d <= row.written
    BY <1>3, <1>4 DEF CopyOf
  <2> HIDE DEF d
  <2>4. QED
    BY <2>2, <2>3, Proactively
<1>8. abandoned => abandoned'
  BY <1>2
<1>9. Drains(fate, r, c)
  BY <1>2, <1>5, <1>6, <1>7 DEF Drains, Held
<1>10. QED
  BY <1>1, <1>3, <1>8, <1>9 DEF r, Scribe

------------------------------------------------------------------------------
(* The steps that send no frame. *)

LEMMA PassOnFacts ==
    ASSUME BaseInv, NEW g \in Gateway, PassOn(g)
    PROVE  /\ g = Opener /\ pc[Opener] = "push" /\ ~copy[Opener].finish /\ blocked
           /\ copy[Opener] \in Rows /\ CopyOf(copy[Opener])
           /\ Hands(copy[Opener], confirmed) /\ confirmed \in Delivered
           /\ Return(Opener, "idle") /\ Scribe /\ abandoned' = abandoned
           /\ UNCHANGED <<lateVars, ackVars, platformVars>>
PROOF
<1>1. /\ pc[g] = "push" /\ ~copy[g].finish /\ g = Opener /\ blocked
      /\ HandOff(g, copy[g], confirmed) /\ Return(g, "idle")
      /\ UNCHANGED <<task, workerVars, lateVars, ackVars, platformVars, abandoned>>
  BY DEF PassOn
<1>2. copy[Opener] \in Rows /\ CopyOf(copy[Opener])
  BY <1>1 DEF BaseInv, CopyInv, Busy, TypeOK, Opener, Gateway
<1>3. confirmed \in Delivered
  BY <1>1 DEF Delivered
<1>4. confirmed \in 0 .. MaxText /\ confirmed <= row.written
  BY <1>3, DeliveredWritten
<1>5. Hands(copy[Opener], confirmed)
  BY <1>1, <1>2, <1>4, HandsOver
<1>6. QED
  BY <1>1, <1>2, <1>3, <1>5 DEF Scribe

LEMMA TakeoverFacts ==
    ASSUME BaseInv, NEW g \in Gateway, Takeover(g)
    PROVE  /\ g = 2 /\ pc[g] = "push" /\ 0 \in 0 .. MaxText
           /\ Delivers(0) \/ Switches(0)
           /\ Return(g, "idle") /\ Scribe /\ abandoned' = abandoned
           /\ UNCHANGED <<lateVars, ackVars, platformVars>>
PROOF
<1>1. /\ pc[g] = "push" /\ g # Opener /\ ToProactive(0) /\ Return(g, "idle")
      /\ UNCHANGED <<task, workerVars, lateVars, ackVars, platformVars, abandoned>>
  BY DEF Takeover
<1>2. 0 \in 0 .. MaxText /\ 0 <= row.written
  BY RowPartTypes, StreamAssumption DEF BaseInv, TypeOK
<1>3. Delivers(0) \/ Switches(0)
  BY <1>1, <1>2, Proactively
<1>4. QED
  BY <1>1, <1>2, <1>3 DEF Scribe, Gateway, Opener

LEMMA NoteFacts ==
    ASSUME BaseInv, NoteStreamDead
    PROVE  /\ late /\ ~late' /\ blocked /\ ~live /\ lateCopy \in Rows /\ CopyOf(lateCopy)
           /\ Hands(lateCopy, confirmed) /\ confirmed \in Delivered
           /\ lateCopy.proactive => FillsGap(lateCopy, confirmed)
           /\ Scribe /\ abandoned' = abandoned
           /\ UNCHANGED <<pushVars, ackVars, platformVars>>
PROOF
<1>1. /\ late /\ late' = FALSE
      /\ IF lateCopy.proactive
         THEN /\ Queue("gap", Gap(lateCopy, confirmed))
              /\ UNCHANGED <<rowVars, misjudged>>
         ELSE HandOff(Opener, lateCopy, confirmed)
      /\ UNCHANGED <<task, workerVars, pushVars, ackVars, platformVars, abandoned>>
  BY DEF NoteStreamDead
<1>2. lateCopy \in Rows /\ CopyOf(lateCopy) /\ blocked /\ ~live
  BY <1>1 DEF BaseInv, CopyInv, FrameInv, TypeOK
<1>3. confirmed \in Delivered
  BY <1>2 DEF Delivered
<1>4. confirmed \in 0 .. MaxText /\ confirmed <= row.written
  BY <1>3, DeliveredWritten
<1>5. lateCopy.proactive => FillsGap(lateCopy, confirmed)
  BY <1>1, <1>2 DEF FillsGap, rowVars
<1>6. ~lateCopy.proactive => Hands(lateCopy, confirmed)
  BY <1>1, <1>2, <1>4, HandsOver
<1>7. QED
  BY <1>1, <1>2, <1>3, <1>5, <1>6 DEF Scribe, Hands

LEMMA ReturnFacts ==
    ASSUME TypeOK, NEW g \in Gateway, NEW to, Return(g, to)
    PROVE  /\ pc'[g] = to /\ up' = up
           /\ \A h \in Gateway \ {g} : pc'[h] = pc[h] /\ copy'[h] = copy[h]
PROOF
BY DEF Return, TypeOK

(* Only the part that fills a gap goes under its key. *)
LEMMA GapMail ==
    ASSUME BaseInv, NEW r \in Rows, NEW c \in 0 .. MaxText, Hands(r, c)
    PROVE  FillsGap(r, c) \/ mail'["gap"] = mail["gap"]
PROOF
BY Queued DEF Hands, Delivers, Switches, BaseInv, Keys

(* What is left to show of a gateway's step. *)
LEMMA GatewayBase ==
    ASSUME BaseInv, TypeOK', Scribe, Shape,
           \A g \in Gateway : Busy(g)' =>
               \/ Busy(g) /\ copy'[g] = copy[g]
               \/ copy'[g] = row /\ row' = row,
           late' => \/ late /\ lateCopy' = lateCopy
                    \/ lateCopy' = row /\ row' = row,
           pc'[Opener] = "drain" => ~copy'[Opener].finish,
           pc'[2] \in {"idle", "push"},
           FrameInv', LiveInv'
    PROVE  BaseInv'
PROOF
<1>1. Grows /\ WorkerInv' /\ ModeInv'
  BY ShapeKeeps
<1>2. /\ \A g \in Gateway : Busy(g)' => CopyOf(copy[g])'
      /\ late' => CopyOf(lateCopy)'
  BY <1>1, CopiesKept
<1>3. CopyInv'
  BY <1>2 DEF CopyInv
<1>4. QED
  BY <1>1, <1>3 DEF BaseInv

(* A frame that is not sent leaves the bubble. *)
LEMMA QuietLive ==
    ASSUME BaseInv, TypeOK', Grows, bubble' = bubble, live' => live,
           Busy(Opener)' => \/ Busy(Opener) /\ copy'[Opener] = copy[Opener]
                            \/ copy'[Opener] = row /\ row' = row,
           (live' /\ row'.finish) => row.finish \/ (row.proactive /\ misjudged') \/ ~row.proactive,
           misjudged => misjudged'
    PROVE  LiveInv'
PROOF
<1>1. TypeOK /\ LiveInv /\ CopyInv
  BY DEF BaseInv
<1>2. /\ row.written \in 0 .. MaxText /\ row.off \in 0 .. MaxText
      /\ row'.written \in 0 .. MaxText /\ row'.off \in 0 .. MaxText
      /\ copy[Opener].written \in 0 .. MaxText
  BY <1>1, RowPartTypes DEF TypeOK, Opener, Gateway
<1>3. ASSUME live'
      PROVE  \E n \in 0 .. row'.written :
                  /\ bubble' = 1 .. n
                  /\ Busy(Opener)' => n <= copy'[Opener].written
                  /\ (row'.proactive /\ ~row'.finish) => n <= row'.off
  <2>1. PICK n \in 0 .. row.written :
                  /\ bubble = 1 .. n
                  /\ Busy(Opener) => n <= copy[Opener].written
                  /\ (row.proactive /\ ~row.finish) => n <= row.off
    BY <1>1, <1>3 DEF LiveInv
  <2>2. n \in 0 .. row'.written
    BY <1>2, <2>1 DEF Grows
  <2>3. (row'.proactive /\ ~row'.finish) => n <= row'.off
    BY <1>2, <2>1 DEF Grows
  <2>4. Busy(Opener)' => n <= copy'[Opener].written
    BY <1>2, <2>1
  <2>5. QED
    BY <2>1, <2>2, <2>3, <2>4
<1>4. ASSUME live', Busy(Opener)', copy'[Opener].proactive, ~copy'[Opener].finish, row'.finish
      PROVE  misjudged'
  <2>1. Busy(Opener) /\ copy'[Opener] = copy[Opener]
    BY <1>4
  <2>2. row.proactive
    BY <1>1, <1>4, <2>1 DEF CopyInv, CopyOf, Opener, Gateway
  <2>3. CASE row.finish
    BY <1>1, <1>4, <2>1, <2>3 DEF LiveInv
  <2>4. QED
    BY <1>4, <2>2, <2>3
<1>5. QED
  BY <1>3, <1>4 DEF LiveInv

LEMMA BaseParts ==
    BaseInv => /\ TypeOK /\ FrameInv /\ LiveInv /\ CopyInv
               /\ row.written \in 0 .. MaxText /\ acked \in 0 .. MaxText
               /\ confirmed \in 0 .. MaxText /\ row \in Rows /\ row.finish \in BOOLEAN
               /\ \A g \in Gateway : copy[g] \in Rows /\ copy[g].written \in 0 .. MaxText
PROOF
BY RowPartTypes DEF BaseInv, TypeOK

LEMMA HandsShape ==
    ASSUME NEW r \in Rows, NEW c \in 0 .. MaxText, Hands(r, c)
    PROVE  Shape
PROOF
BY DEF Shape

(* What the frame invariant needs of a step that sends none. *)
LEMMA QuietFrame ==
    ASSUME BaseInv, TypeOK', Grows, UNCHANGED <<live, reply, acked, blocked, confirmed>>,
           up'[Opener] = up[Opener], late' => late \/ (blocked /\ up[Opener]),
           ~up[Opener] => pc'[Opener] = "drained",
           mail'["gap"] # mail["gap"] => blocked /\ row'.proactive,
           Busy(Opener)' => \/ Busy(Opener) /\ copy'[Opener] = copy[Opener]
                            \/ copy'[Opener] = row
    PROVE  FrameInv'
PROOF
<1>1. /\ FrameInv /\ row.written \in 0 .. MaxText /\ row'.written \in 0 .. MaxText
      /\ acked \in 0 .. MaxText
  BY BaseParts, RowPartTypes DEF TypeOK
<1>2. acked' <= row'.written
  BY <1>1 DEF FrameInv, Grows
<1>3. Busy(Opener)' => acked' <= copy'[Opener].written
  BY <1>1 DEF FrameInv
<1>4. (mail["gap"] # {})' => blocked' /\ row'.proactive
  BY <1>1 DEF FrameInv, Grows
<1>5. QED
  BY <1>1, <1>2, <1>3, <1>4 DEF FrameInv

LEMMA ReadBase ==
    ASSUME BaseInv, NEW g \in Gateway, ReadRow(g) \/ Quiet(g) \/ DrainRead \/ Succeed
    PROVE  BaseInv'
PROOF
<1>1. TypeOK' /\ Opener \in Gateway /\ 2 \in Gateway /\ TypeOK /\ FrameInv
  BY GatewayTypes, BaseParts DEF GatewayStep, Act, BaseInv, Opener, Gateway
<1> DEFINE Untouched ==
               /\ UNCHANGED <<row, mail, misjudged, abandoned, task, workerVars, late, lateCopy>>
               /\ UNCHANGED <<bubble, live, reply, acked, known, blocked, confirmed>>
               /\ up'[Opener] = up[Opener]
           Places ==
               /\ \A h \in Gateway : Busy(h)' =>
                      \/ Busy(h) /\ copy'[h] = copy[h]
                      \/ copy'[h] = row
               /\ pc'[Opener] = "drain" => ~copy'[Opener].finish
               /\ pc'[2] \in {"idle", "push"}
               /\ ~up[Opener] => pc'[Opener] = "drained"
<1>2. Untouched
  <2>1. ASSUME ReadRow(g) PROVE Untouched
    BY <2>1 DEF ReadRow, lateVars, ackVars, platformVars, flagVars
  <2>2. ASSUME Quiet(g) PROVE Untouched
    BY <2>2 DEF Quiet, Return, lateVars, ackVars, platformVars, flagVars
  <2>3. ASSUME DrainRead PROVE Untouched
    BY <2>3 DEF DrainRead, lateVars, ackVars, platformVars, flagVars
  <2>4. ASSUME Succeed PROVE Untouched
    BY <1>1, <2>4 DEF Succeed, lateVars, ackVars, platformVars, flagVars, rowVars, TypeOK, Opener
  <2>5. QED
    BY <2>1, <2>2, <2>3, <2>4
<1>3. Scribe /\ Shape
  BY <1>2 DEF Scribe, Shape, Leaves
<1>4. Grows
  BY <1>3, ShapeKeeps
<1>5. Places
  <2>1. /\ pc[Opener] = "drain" => ~copy[Opener].finish
        /\ pc[2] \in {"idle", "push"} /\ (~up[Opener] => pc[Opener] = "drained")
    BY BaseParts DEF CopyInv, FrameInv
  <2>2. ASSUME ReadRow(g) PROVE Places
    <3>1. /\ pc[g] = "idle" /\ pc'[g] = "push" /\ copy'[g] = row /\ up[g]
          /\ \A h \in Gateway \ {g} : pc'[h] = pc[h] /\ copy'[h] = copy[h]
      BY <1>1, <2>2 DEF ReadRow, TypeOK
    <3>2. QED
      BY <1>1, <2>1, <3>1 DEF Busy
  <2>3. ASSUME Quiet(g) PROVE Places
    <3>1. /\ pc[g] = "push" /\ pc'[g] = "idle"
          /\ \A h \in Gateway \ {g} : pc'[h] = pc[h] /\ copy'[h] = copy[h]
      BY <1>1, <2>3, ReturnFacts DEF Quiet
    <3>2. QED
      BY <1>1, <2>1, <3>1 DEF Busy
  <2>4. ASSUME DrainRead PROVE Places
    <3>1. /\ pc'[Opener] = (IF row.finish THEN "drained" ELSE "drain") /\ up[Opener]
          /\ copy'[Opener] = (IF row.finish THEN Blank ELSE row)
          /\ \A h \in Gateway \ {Opener} : pc'[h] = pc[h] /\ copy'[h] = copy[h]
      BY <1>1, <2>4 DEF DrainRead, TypeOK
    <3>2. 2 # Opener
      BY DEF Opener
    <3>3. QED
      BY <1>1, <2>1, <3>1, <3>2 DEF Busy
  <2>5. ASSUME Succeed PROVE Places
    BY <2>1, <2>5 DEF Succeed, Busy
  <2>6. QED
    BY <2>2, <2>3, <2>4, <2>5
<1> HIDE DEF Untouched
<1>9. Busy(Opener)' => \/ Busy(Opener) /\ copy'[Opener] = copy[Opener]
                       \/ copy'[Opener] = row
  BY <1>1, <1>5
<1> HIDE DEF Places
<1>6. FrameInv'
  <2>1. UNCHANGED <<live, reply, acked, blocked, confirmed>>
    BY <1>2 DEF Untouched
  <2>2. up'[Opener] = up[Opener] /\ (late' => late \/ (blocked /\ up[Opener]))
        /\ (mail'["gap"] # mail["gap"] => blocked /\ row'.proactive)
    BY <1>2 DEF Untouched
  <2>3. ~up[Opener] => pc'[Opener] = "drained"
    BY <1>5 DEF Places
  <2>4. QED
    BY <1>1, <1>4, <1>9, <2>1, <2>2, <2>3, QuietFrame
<1>7. LiveInv'
  <2>1. bubble' = bubble /\ (live' => live) /\ (misjudged => misjudged')
        /\ ((live' /\ row'.finish) => row.finish \/ (row.proactive /\ misjudged') \/ ~row.proactive)
    BY <1>2 DEF Untouched
  <2>2. Busy(Opener)' => \/ Busy(Opener) /\ copy'[Opener] = copy[Opener]
                         \/ copy'[Opener] = row /\ row' = row
    BY <1>2, <1>9 DEF Untouched
  <2>3. QED
    BY <1>1, <1>4, <2>1, <2>2, QuietLive
<1> USE DEF Untouched, Places
<1>8. QED
  BY <1>1, <1>2, <1>3, <1>5, <1>6, <1>7, GatewayBase

LEMMA PassOnBase ==
    ASSUME BaseInv, NEW g \in Gateway, PassOn(g) \/ Takeover(g)
    PROVE  BaseInv'
PROOF
<1>1. TypeOK' /\ Opener \in Gateway /\ 2 \in Gateway /\ TypeOK /\ FrameInv /\ CopyInv /\ 2 # Opener
  BY GatewayTypes, BaseParts DEF GatewayStep, Act, BaseInv, Opener, Gateway
<1>2. PICK r \in Rows, c \in 0 .. MaxText :
         /\ Hands(r, c)
         /\ FillsGap(r, c) => blocked
  <2>1. ASSUME PassOn(g)
        PROVE  \E r \in Rows, c \in 0 .. MaxText : Hands(r, c) /\ (FillsGap(r, c) => blocked)
    BY <2>1, PassOnFacts, DeliveredTypes, BaseParts
  <2>2. ASSUME Takeover(g)
        PROVE  \E r \in Rows, c \in 0 .. MaxText : Hands(r, c) /\ (FillsGap(r, c) => blocked)
    <3>1. Delivers(0) \/ Switches(0)
      BY <2>2, TakeoverFacts
    <3>2. Blank \in Rows /\ 0 \in 0 .. MaxText /\ ~Blank.proactive
      BY BlankRow, StreamAssumption DEF Blank
    <3>3. ~FillsGap(Blank, 0) /\ Hands(Blank, 0)
      BY <3>1, <3>2 DEF Hands, FillsGap
    <3>4. QED
      BY <3>2, <3>3
  <2>3. QED
    BY <2>1, <2>2
<1>3. /\ Return(g, "idle") /\ Scribe /\ pc[g] = "push"
      /\ UNCHANGED <<late, lateCopy, acked, known, blocked, confirmed, bubble, live, reply>>
  BY <1>1, PassOnFacts, TakeoverFacts DEF lateVars, ackVars, platformVars
<1>4. Shape
  BY <1>2, HandsShape
<1>5. Grows
  BY <1>3, <1>4, ShapeKeeps
<1>6. /\ pc'[g] = "idle" /\ up' = up
      /\ \A h \in Gateway \ {g} : pc'[h] = pc[h] /\ copy'[h] = copy[h]
  BY <1>1, <1>3, ReturnFacts
<1>7. /\ \A h \in Gateway : Busy(h)' => Busy(h) /\ copy'[h] = copy[h]
      /\ pc'[Opener] = "drain" => ~copy'[Opener].finish
      /\ pc'[2] \in {"idle", "push"}
      /\ ~up[Opener] => pc'[Opener] = "drained"
  BY <1>1, <1>3, <1>6 DEF Busy, CopyInv, FrameInv
<1>8. mail'["gap"] # mail["gap"] => blocked /\ row'.proactive
  <2>1. FillsGap(r, c) => row'.proactive
    BY <1>5 DEF FillsGap, CopyOf, Grows
  <2>2. QED
    BY <1>2, <2>1, GapMail
<1>12. Busy(Opener)' => Busy(Opener) /\ copy'[Opener] = copy[Opener]
  BY <1>1, <1>7
<1>9. FrameInv'
  <2>1. UNCHANGED <<live, reply, acked, blocked, confirmed>>
    BY <1>3
  <2>2. up'[Opener] = up[Opener] /\ (late' => late \/ (blocked /\ up[Opener]))
    BY <1>3, <1>6
  <2>3. ~up[Opener] => pc'[Opener] = "drained"
    BY <1>7
  <2>4. QED
    BY <1>1, <1>5, <1>8, <1>12, <2>1, <2>2, <2>3, QuietFrame
<1>10. LiveInv'
  <2>1. (live' /\ row'.finish) => row.finish \/ (row.proactive /\ misjudged') \/ ~row.proactive
    <3>1. blocked => ~live'
      BY <1>1, <1>3 DEF FrameInv
    <3>2. CASE FillsGap(r, c)
      BY <1>2, <3>1, <3>2
    <3>3. CASE Delivers(c) \/ Switches(c)
      <4>1. misjudged' = (misjudged \/ row.proactive)
        BY <3>3 DEF Delivers, Switches
      <4>2. QED
        BY <4>1
    <3>4. QED
      BY <1>2, <3>2, <3>3 DEF Hands
  <2>2. misjudged => misjudged'
    BY <1>5 DEF Grows
  <2>3. QED
    <3>1. bubble' = bubble /\ (live' => live)
      BY <1>3
    <3>2. QED
      BY <1>1, <1>5, <1>12, <2>1, <2>2, <3>1, QuietLive
<1>11. QED
  BY <1>1, <1>3, <1>4, <1>7, <1>9, <1>10, GatewayBase

LEMMA PushShape ==
    ASSUME BaseInv, NEW fate \in Fates, NEW r \in Rows, Pushes(fate, r)
    PROVE  /\ Shape
           /\ fate[2] # "dead" => mail' = mail /\ blocked' = blocked /\ confirmed' = confirmed
           /\ fate[2] = "dead" => blocked' /\ confirmed' \in Delivered /\ Hands(r, confirmed')
PROOF
<1>1. fate[2] # "dead" => /\ mail' = mail /\ blocked' = blocked /\ confirmed' = confirmed
                          /\ Leaves \/ Ends
  BY DEF Pushes, Held, Leaves, Ends
<1>2. fate[2] = "dead" => blocked' /\ confirmed' \in Delivered /\ Hands(r, confirmed')
  BY DEF Pushes, Block
<1>3. Delivered \subseteq 0 .. MaxText
  BY DeliveredTypes DEF BaseInv
<1>4. QED
  BY <1>1, <1>2, <1>3 DEF Shape

LEMMA PushBase ==
    ASSUME BaseInv, NEW g \in Gateway, Push(g)
    PROVE  BaseInv'
PROOF
<1> DEFINE r == copy[Opener]
<1>1. TypeOK' /\ Opener \in Gateway /\ 2 \in Gateway /\ TypeOK /\ FrameInv /\ CopyInv /\ 2 # Opener
  BY GatewayTypes, BaseParts DEF GatewayStep, Act, BaseInv, Opener, Gateway
<1>2. /\ pc[Opener] = "push" /\ ~blocked /\ r \in Rows /\ CopyOf(r) /\ acked <= r.written
      /\ Return(Opener, "idle") /\ late' = late /\ lateCopy' = lateCopy /\ Scribe
  BY PushFacts DEF lateVars
<1>3. PICK fate \in Fates : Pushes(fate, r)
  BY PushFacts
<1> DEFINE segs == PushSegs(r)
           fin == r.proactive \/ r.complete
<1>4. /\ r.written \in 0 .. MaxText /\ fin \in BOOLEAN /\ Transmit(fate, segs, r.written, fin)
      /\ r.proactive \in BOOLEAN /\ r.complete \in BOOLEAN /\ r.written <= row.written
  BY <1>2, <1>3, RowPartTypes DEF Pushes, CopyOf
<1> HIDE DEF r
<1>5. /\ live' => live
      /\ fate[1] => live /\ bubble' = segs
      /\ (fate[1] /\ fin) => ~live'
      /\ ~fate[1] => bubble' = bubble
      /\ acked <= acked' /\ acked' <= r.written
      /\ reply' = "dead" => ~live'
      /\ fate[2] = "dead" => ~live' /\ ~fate[1] /\ reply' # "ok"
  BY <1>2, <1>4, FrameFacts
<1>6. /\ Shape
      /\ fate[2] # "dead" => mail' = mail /\ blocked' = blocked /\ confirmed' = confirmed
      /\ fate[2] = "dead" => blocked' /\ confirmed' \in Delivered /\ Hands(r, confirmed')
  BY <1>2, <1>3, PushShape
<1>7. Grows
  BY <1>2, <1>6, ShapeKeeps
<1>8. /\ pc'[Opener] = "idle" /\ up' = up /\ pc'[2] = pc[2] /\ copy'[2] = copy[2]
      /\ \A h \in Gateway \ {Opener} : pc'[h] = pc[h] /\ copy'[h] = copy[h]
  BY <1>1, <1>2, ReturnFacts
<1>9. /\ ~Busy(Opener)'
      /\ \A h \in Gateway : Busy(h)' => Busy(h) /\ copy'[h] = copy[h]
      /\ pc'[Opener] = "drain" => ~copy'[Opener].finish
      /\ pc'[2] \in {"idle", "push"}
  BY <1>1, <1>8 DEF Busy, CopyInv
<1>10. /\ row.written \in 0 .. MaxText /\ row'.written \in 0 .. MaxText /\ acked \in 0 .. MaxText
       /\ acked' \in 0 .. MaxText
       /\ row.written <= row'.written
  BY <1>1, <1>7, RowPartTypes DEF TypeOK, Grows
<1>11. FrameInv'
  <2>1. acked' <= row'.written
    BY <1>4, <1>5, <1>10
  <2>2. blocked' => ~live' /\ confirmed' <= acked' /\ reply' # "ok"
    <3>1. CASE fate[2] # "dead"
      BY <1>2, <1>6, <3>1
    <3>2. CASE fate[2] = "dead"
      <4>1. confirmed' \in 0 .. MaxText /\ confirmed' <= acked
        BY <1>6, <3>2, DeliveredWritten
      <4>2. QED
        BY <1>5, <1>10, <3>2, <4>1
    <3>3. QED
      BY <3>1, <3>2
  <2>3. ~late' /\ up'[Opener]
    BY <1>1, <1>2, <1>8 DEF FrameInv
  <2>4. mail'["gap"] # {} => blocked' /\ row'.proactive
    <3>1. CASE mail'["gap"] = mail["gap"]
      BY <1>1, <1>2, <3>1 DEF FrameInv
    <3>2. CASE mail'["gap"] # mail["gap"]
      <4>1. fate[2] = "dead"
        BY <1>6, <3>2
      <4>2. FillsGap(r, confirmed')
        BY <1>2, <1>6, <3>2, <4>1, GapMail, DeliveredTypes DEF BaseInv
      <4>3. row.proactive
        BY <4>2 DEF FillsGap, CopyOf
      <4>4. QED
        BY <1>6, <1>7, <4>1, <4>3 DEF Grows
    <3>3. QED
      BY <3>1, <3>2
  <2>5. QED
    BY <1>5, <1>9, <2>1, <2>2, <2>3, <2>4 DEF FrameInv
<1>12. LiveInv'
  <2>1. CASE ~fate[1]
    <3>1. (live' /\ row'.finish) => row.finish \/ (row.proactive /\ misjudged') \/ ~row.proactive
      <4>1. SUFFICES ASSUME live', row'.finish, ~row.finish PROVE FALSE
        OBVIOUS
      <4>2. fate[2] # "dead" /\ reply' # "dead"
        BY <1>5, <4>1
      <4>3. fate[2] # "sent"
        BY <1>2, <1>4, <2>1, <4>2, FrameFacts
      <4>4. Leaves
        BY <1>3, <4>2, <4>3 DEF Pushes
      <4>5. QED
        BY <4>1, <4>4 DEF Leaves
    <3>2. misjudged => misjudged'
      BY <1>7 DEF Grows
    <3>3. QED
      BY <1>1, <1>5, <1>7, <1>9, <2>1, <3>1, <3>2, QuietLive
  <2>2. CASE fate[1]
    <3>1. SUFFICES ASSUME live'
                   PROVE  \E n \in 0 .. row'.written :
                             /\ bubble' = 1 .. n
                             /\ (row'.proactive /\ ~row'.finish) => n <= row'.off
      BY <1>9 DEF LiveInv
    <3>2. ~r.proactive /\ ~r.complete
      BY <1>4, <1>5, <2>2, <3>1
    <3>3. bubble' = 1 .. r.written
      BY <1>5, <2>2, <3>2 DEF PushSegs
    <3>4. r.written \in 0 .. row'.written
      BY <1>4, <1>10
    <3>5. (row'.proactive /\ ~row'.finish) => r.written <= row'.off
      <4>1. PICK q \in Rows : q = r
        BY <1>2
      <4>2. CopyOf(q)'
        BY <1>1, <1>2, <1>7, <4>1, Older
      <4>3. (row'.proactive /\ ~row'.finish /\ ~q.proactive) => q.written <= row'.off
        BY <4>2 DEF CopyOf
      <4>4. QED
        BY <3>2, <4>1, <4>3
    <3>6. QED
      BY <3>3, <3>4, <3>5
  <2>3. QED
    BY <2>1, <2>2
<1>13. QED
  BY <1>1, <1>2, <1>6, <1>9, <1>11, <1>12, GatewayBase

LEMMA DrainShape ==
    ASSUME BaseInv, NEW fate \in Fates, NEW r \in Rows, NEW c \in Delivered, r.written \in 0 .. MaxText,
           Drains(fate, r, c)
    PROVE  Shape /\ mail'["gap"] = mail["gap"]
PROOF
<1> DEFINE d == IF fate[2] = "sent" THEN r.written ELSE c
<1>1. c \in 0 .. MaxText /\ d \in 0 .. MaxText
  BY DeliveredTypes DEF BaseInv
<1>2. Ends \/ Delivers(c) \/ Delivers(d) \/ Switches(d)
  BY DEF Drains
<1>3. mail' = mail \/ Delivers(c) \/ Delivers(d)
  BY <1>2 DEF Ends, Switches
<1>4. mail'["gap"] = mail["gap"]
  BY <1>3, Queued DEF Delivers, Keys, BaseInv
<1> HIDE DEF d
<1>5. Ends \/ Hands(r, c) \/ Hands(r, d)
  BY <1>2 DEF Hands
<1>6. QED
  BY <1>1, <1>4, <1>5 DEF Shape

LEMMA DrainBase ==
    ASSUME BaseInv, DrainSend
    PROVE  BaseInv'
PROOF
<1> DEFINE r == copy[Opener]
<1>1. TypeOK' /\ Opener \in Gateway /\ 2 \in Gateway /\ TypeOK /\ FrameInv /\ CopyInv /\ 2 # Opener
  BY GatewayTypes, BaseParts DEF GatewayStep, BaseInv, Opener, Gateway
<1>2. /\ pc[Opener] = "drain" /\ r \in Rows /\ CopyOf(r) /\ acked <= r.written
      /\ Return(Opener, "drained") /\ late' = late /\ lateCopy' = lateCopy /\ Scribe
  BY DrainFacts DEF lateVars
<1>3. PICK fate \in Fates, c \in Delivered : Drains(fate, r, c)
  BY DrainFacts
<1> DEFINE segs == DrainSegs(r)
<1>4. /\ r.written \in 0 .. MaxText /\ Transmit(fate, segs, r.written, TRUE) /\ r.written <= row.written
      /\ r.complete \in BOOLEAN
  BY <1>2, <1>3, RowPartTypes DEF Drains, CopyOf
<1> HIDE DEF r
<1>5. /\ live' => live
      /\ (fate[1] /\ TRUE) => ~live'
      /\ ~fate[1] => bubble' = bubble
      /\ acked <= acked' /\ acked' <= r.written
      /\ reply' = "dead" => ~live'
      /\ fate[2] = "dead" => ~live' /\ ~fate[1] /\ reply' # "ok"
      /\ blocked => reply' # "ok" /\ ~live'
  BY <1>2, <1>4, FrameFacts
<1>6. Shape /\ mail'["gap"] = mail["gap"]
  BY <1>2, <1>3, <1>4, DrainShape
<1>7. Grows
  BY <1>2, <1>6, ShapeKeeps
<1>8. /\ pc'[Opener] = "drained" /\ up' = up
      /\ \A h \in Gateway \ {Opener} : pc'[h] = pc[h] /\ copy'[h] = copy[h]
  BY <1>1, <1>2, ReturnFacts
<1>9. /\ ~Busy(Opener)'
      /\ \A h \in Gateway : Busy(h)' => Busy(h) /\ copy'[h] = copy[h]
      /\ pc'[Opener] = "drain" => ~copy'[Opener].finish
      /\ pc'[2] \in {"idle", "push"}
  BY <1>1, <1>8 DEF Busy, CopyInv
<1>10. /\ row.written \in 0 .. MaxText /\ row'.written \in 0 .. MaxText /\ acked \in 0 .. MaxText
       /\ acked' \in 0 .. MaxText /\ row.written <= row'.written /\ confirmed \in 0 .. MaxText
  BY <1>1, <1>7, RowPartTypes DEF TypeOK, Grows
<1>11. FrameInv'
  <2>1. acked' <= row'.written
    BY <1>4, <1>5, <1>10
  <2>2. blocked' => ~live' /\ confirmed' <= acked' /\ reply' # "ok"
    <3>1. CASE fate[2] # "dead"
      <4>1. blocked' = blocked /\ confirmed' = confirmed
        BY <1>3, <3>1 DEF Drains, Held
      <4>2. blocked => confirmed <= acked
        BY <1>1 DEF FrameInv
      <4>3. QED
        BY <1>5, <1>10, <4>1, <4>2
    <3>2. CASE fate[2] = "dead"
      <4>1. confirmed' = c
        BY <1>3, <3>2 DEF Drains, Block
      <4>2. c \in 0 .. MaxText /\ c <= acked
        BY DeliveredWritten
      <4>3. QED
        BY <1>5, <1>10, <3>2, <4>1, <4>2
    <3>3. QED
      BY <3>1, <3>2
  <2>3. blocked => blocked'
    BY <1>3 DEF Drains, Block, Held
  <2>4. late' => blocked' /\ up'[Opener]
    BY <1>1, <1>2, <1>8, <2>3 DEF FrameInv
  <2>5. ~up'[Opener] => reply' = "none" /\ pc'[Opener] = "drained"
    BY <1>1, <1>2, <1>8 DEF FrameInv
  <2>6. mail'["gap"] # {} => blocked' /\ row'.proactive
    BY <1>1, <1>6, <1>7, <2>3 DEF FrameInv, Grows
  <2>7. QED
    BY <1>5, <1>9, <2>1, <2>2, <2>4, <2>5, <2>6 DEF FrameInv
<1>12. LiveInv'
  <2>1. CASE fate[1]
    BY <1>5, <2>1 DEF LiveInv
  <2>2. CASE ~fate[1]
    <3>1. (live' /\ row'.finish) => row.finish \/ (row.proactive /\ misjudged') \/ ~row.proactive
      <4>1. SUFFICES ASSUME live' PROVE row.proactive => misjudged'
        OBVIOUS
      <4>2. fate[2] # "sent"
        BY <1>2, <1>4, <1>5, <2>2, <4>1, FrameFacts
      <4>3. Delivers(c) \/ Switches(c)
        BY <1>3, <1>4, <4>2 DEF Drains
      <4>4. misjudged' = (misjudged \/ row.proactive)
        BY <4>3 DEF Delivers, Switches
      <4>5. QED
        BY <4>4
    <3>2. misjudged => misjudged'
      BY <1>7 DEF Grows
    <3>3. QED
      BY <1>1, <1>5, <1>7, <1>9, <2>2, <3>1, <3>2, QuietLive
  <2>3. QED
    BY <2>1, <2>2
<1>13. QED
  BY <1>1, <1>2, <1>6, <1>9, <1>11, <1>12, GatewayBase

LEMMA LateBase ==
    ASSUME BaseInv, Stop \/ LateReply \/ GatewayDies
    PROVE  BaseInv'
PROOF
<1>1. TypeOK' /\ Opener \in Gateway /\ 2 \in Gateway /\ TypeOK /\ FrameInv /\ CopyInv /\ 2 # Opener
      /\ LiveInv
  BY GatewayTypes, BaseParts DEF GatewayStep, BaseInv, Opener, Gateway
<1>2. /\ UNCHANGED <<row, mail, misjudged, task, workerVars, acked, bubble, live>>
      /\ abandoned => abandoned'
  <2>1. ASSUME Stop \/ LateReply
        PROVE  UNCHANGED <<row, mail, misjudged, task, workerVars, acked, bubble, live, abandoned>>
    BY <2>1 DEF Stop, LateReply, rowVars, ackVars, flagVars
  <2>2. ASSUME GatewayDies
        PROVE  /\ UNCHANGED <<row, mail, misjudged, task, workerVars, acked, bubble, live>>
               /\ abandoned => abandoned'
    <3>1. UNCHANGED <<row, mail, misjudged, task, workerVars, acked, bubble, live>>
      BY <2>2 DEF GatewayDies, rowVars, ackVars
    <3>2. abandoned' = (abandoned \/ late \/ (reply = "dead" /\ known))
      BY <2>2 DEF GatewayDies
    <3>3. QED
      BY <3>1, <3>2
  <2>3. QED
    BY <2>1, <2>2
<1>3. Scribe /\ Shape
  BY <1>2 DEF Scribe, Shape, Leaves
<1>4. Grows
  BY <1>3, ShapeKeeps
<1>5. /\ \A h \in Gateway : Busy(h)' => Busy(h) /\ copy'[h] = copy[h]
      /\ pc'[Opener] = "drain" => ~copy'[Opener].finish
      /\ pc'[2] \in {"idle", "push"}
      /\ ~up'[Opener] => pc'[Opener] = "drained"
  <2>1. ASSUME Stop
        PROVE  /\ UNCHANGED <<pc, copy>> /\ (~up'[Opener] => pc'[Opener] = "drained")
    BY <2>1 DEF Stop
  <2>2. ASSUME LateReply
        PROVE  /\ UNCHANGED <<pc, copy>> /\ (~up'[Opener] => pc'[Opener] = "drained")
    BY <1>1, <2>2 DEF LateReply, pushVars, FrameInv
  <2>3. ASSUME GatewayDies
        PROVE  /\ pc'[Opener] = "drained"
               /\ \A h \in Gateway \ {Opener} : pc'[h] = pc[h] /\ copy'[h] = copy[h]
    BY <1>1, <2>3 DEF GatewayDies, TypeOK
  <2>4. QED
    BY <1>1, <2>1, <2>2, <2>3 DEF Busy, CopyInv
<1>6. /\ late' => \/ late /\ lateCopy' = lateCopy
                  \/ lateCopy' = row /\ row' = row
      /\ reply' \in {reply, "none"}
      /\ ~up'[Opener] => reply' = "none"
      /\ late' => blocked' /\ up'[Opener]
      /\ blocked' => (blocked /\ confirmed' = confirmed) \/ (reply = "dead" /\ confirmed' \in Delivered)
      /\ blocked => blocked'
  <2>1. ASSUME Stop
        PROVE  /\ ~late' /\ reply' = "none" /\ UNCHANGED <<blocked, confirmed>>
    BY <2>1 DEF Stop, lateVars, ackVars
  <2>2. ASSUME GatewayDies
        PROVE  /\ ~late' /\ reply' = "none" /\ UNCHANGED <<blocked, confirmed>>
    BY <2>2 DEF GatewayDies, ackVars
  <2>3. ASSUME LateReply
        PROVE  /\ up[Opener] /\ up' = up /\ reply' = "none"
               /\ \/ lateCopy' = row /\ row' = row /\ reply = "dead" /\ blocked' /\ confirmed' \in Delivered
                  \/ late' = late /\ lateCopy' = lateCopy /\ UNCHANGED <<blocked, confirmed>> /\ ~late
    BY <1>2, <2>3 DEF LateReply, Block, pushVars, lateVars
  <2>4. ASSUME Stop \/ GatewayDies PROVE blocked' = blocked /\ confirmed' = confirmed /\ ~late' /\ reply' = "none"
    BY <2>1, <2>2, <2>4
  <2>5. QED
    BY <2>3, <2>4
<1>7. FrameInv'
  <2>1. blocked' => ~live' /\ confirmed' <= acked' /\ reply' # "ok"
    <3>1. CASE blocked /\ confirmed' = confirmed
      BY <1>1, <1>2, <1>6, <3>1 DEF FrameInv
    <3>2. CASE reply = "dead" /\ confirmed' \in Delivered
      <4>1. confirmed' <= acked /\ ~live
        BY <1>1, <3>2, DeliveredWritten DEF FrameInv
      <4>2. QED
        BY <1>2, <1>6, <3>2, <4>1
    <3>3. QED
      BY <1>6, <3>1, <3>2
  <2>2. Busy(Opener)' => acked' <= copy'[Opener].written
    BY <1>1, <1>2, <1>5 DEF FrameInv
  <2>3. reply' = "dead" => ~live'
    BY <1>1, <1>2, <1>6 DEF FrameInv
  <2>4. mail'["gap"] # {} => blocked' /\ row'.proactive
    BY <1>1, <1>2, <1>6 DEF FrameInv
  <2>5. acked' <= row'.written
    BY <1>1, <1>2 DEF FrameInv
  <2>6. QED
    BY <1>5, <1>6, <2>1, <2>2, <2>3, <2>4, <2>5 DEF FrameInv
<1>8. LiveInv'
  <2>1. bubble' = bubble /\ (live' => live) /\ (misjudged => misjudged')
        /\ ((live' /\ row'.finish) => row.finish \/ (row.proactive /\ misjudged') \/ ~row.proactive)
    BY <1>2
  <2>2. Busy(Opener)' => Busy(Opener) /\ copy'[Opener] = copy[Opener]
    BY <1>1, <1>5
  <2>3. QED
    BY <1>1, <1>4, <2>1, <2>2, QuietLive
<1>9. QED
  BY <1>1, <1>3, <1>5, <1>6, <1>7, <1>8, GatewayBase

LEMMA NoteBase ==
    ASSUME BaseInv, NoteStreamDead
    PROVE  BaseInv'
PROOF
<1>1. TypeOK' /\ Opener \in Gateway /\ 2 \in Gateway /\ TypeOK /\ FrameInv /\ CopyInv /\ 2 # Opener
  BY GatewayTypes, BaseParts DEF GatewayStep, BaseInv, Opener, Gateway
<1>2. /\ late /\ ~late' /\ blocked /\ ~live /\ lateCopy \in Rows /\ CopyOf(lateCopy)
      /\ Hands(lateCopy, confirmed) /\ confirmed \in 0 .. MaxText /\ Scribe
      /\ UNCHANGED <<up, pc, copy, acked, known, blocked, confirmed, bubble, live, reply>>
  BY NoteFacts, BaseParts DEF pushVars, ackVars, platformVars
<1>3. Shape
  BY <1>2, HandsShape
<1>4. Grows
  BY <1>2, <1>3, ShapeKeeps
<1>5. /\ \A h \in Gateway : Busy(h)' => Busy(h) /\ copy'[h] = copy[h]
      /\ pc'[Opener] = "drain" => ~copy'[Opener].finish
      /\ pc'[2] \in {"idle", "push"}
      /\ ~up[Opener] => pc'[Opener] = "drained"
  BY <1>1, <1>2 DEF Busy, CopyInv, FrameInv
<1>6. mail'["gap"] # mail["gap"] => blocked /\ row'.proactive
  <2>1. FillsGap(lateCopy, confirmed) => row'.proactive
    BY <1>4 DEF FillsGap, CopyOf, Grows
  <2>2. QED
    BY <1>2, <2>1, GapMail
<1>7. Busy(Opener)' => Busy(Opener) /\ copy'[Opener] = copy[Opener]
  BY <1>1, <1>5
<1>8. FrameInv'
  <2>1. UNCHANGED <<live, reply, acked, blocked, confirmed>>
    BY <1>2
  <2>2. up'[Opener] = up[Opener] /\ (late' => late \/ (blocked /\ up[Opener]))
    BY <1>2
  <2>3. ~up[Opener] => pc'[Opener] = "drained"
    BY <1>5
  <2>4. QED
    BY <1>1, <1>4, <1>6, <1>7, <2>1, <2>2, <2>3, QuietFrame
<1>9. LiveInv'
  BY <1>2 DEF LiveInv
<1>10. QED
  BY <1>1, <1>2, <1>3, <1>5, <1>8, <1>9, GatewayBase

LEMMA BaseStutters == BaseInv /\ UNCHANGED vars => BaseInv'
PROOF
<1> USE DEF vars, rowVars, workerVars, gatewayVars, pushVars, lateVars, ackVars, platformVars, flagVars
<1>1. BaseInv /\ UNCHANGED vars => TypeOK'
  BY DEF BaseInv, TypeOK
<1>2. BaseInv /\ UNCHANGED vars => WorkerInv' /\ ModeInv'
  BY DEF BaseInv, WorkerInv, ModeInv
<1>3. BaseInv /\ UNCHANGED vars => CopyInv'
  BY DEF BaseInv, CopyInv, CopyOf, Busy
<1>4. BaseInv /\ UNCHANGED vars => FrameInv' /\ LiveInv'
  BY DEF BaseInv, FrameInv, LiveInv, Busy
<1>5. QED
  BY <1>1, <1>2, <1>3, <1>4 DEF BaseInv

LEMMA BaseSteps == BaseInv /\ [Next]_vars => BaseInv'
PROOF
<1>1. ASSUME BaseInv, NEW g \in Gateway, Act(g) PROVE BaseInv'
  BY <1>1, ReadBase, PassOnBase, PushBase DEF Act
<1>2. ASSUME BaseInv, GatewayStep PROVE BaseInv'
  <2>1. Opener \in Gateway
    BY DEF Opener, Gateway
  <2>2. QED
    BY <1>1, <1>2, <2>1, ReadBase, DrainBase, LateBase, NoteBase DEF GatewayStep
<1>3. QED
  BY <1>2, ScribeBase, LateBase, BaseStutters DEF Next, ScribeStep

------------------------------------------------------------------------------
(* Where the parts of the answer are. *)

Sent == UNION {mail[k] : k \in Keys}
Good == ~abandoned /\ ~(misjudged /\ incremental)

(* The bubble is still wanted for what comes before the offset: a worker that *)
(* pushes no progress sends the whole answer.                               *)
Need == incremental \/ ~switched

Shown(S) == {s \in S : row.complete => s \in row.final} \subseteq Seen

(* The worker's messages reach from the row's offset to its own. *)
OffsetInv ==
    /\ (incremental /\ ~misjudged /\ switched /\ stage \in {"run", "ended"}) =>
          row.off <= offset /\ (row.off + 1) .. offset \subseteq mail["progress"]
    /\ (stage = "told" /\ incremental /\ ~misjudged) =>
          Answer \subseteq mail["final"] \cup mail["progress"] \cup 1 .. row.off
    /\ (stage = "told" /\ ~incremental) => Answer \subseteq mail["final"]

(* A failure is told in full by a message, once nobody shows it. *)
FailInv ==
    (row.complete /\ row.proactive /\ Good) =>
       /\ task # "success" => row.final \cap 1 .. MaxText \subseteq Sent
       /\ task = "lost" => row.final \subseteq Sent

(* The bubble shows what the gateway counts as delivered. *)
CoverInv ==
    (Good /\ (row.complete => task = "success") /\ (row.proactive => Need)) =>
       {s \in 1 .. acked : row.proactive /\ switched => s <= row.off} \subseteq bubble

(* A frame that was taken for acknowledged, whose error is still to come; and *)
(* the handler of such an error, which will queue what the frame lacked.    *)
FalseAck == reply = "dead" /\ known /\ up[Opener]
Doubt == FalseAck /\ ~blocked /\ (Busy(Opener) => copy[Opener].finish)
Remembered == late /\ lateCopy.proactive /\ lateCopy.off = row.off

(* What comes before the offset has been shown, or will be repaired. *)
PrefixInv ==
    (row.proactive /\ Need /\ Good) =>
       /\ row.finish => Shown(1 .. row.off) \/ Doubt \/ Remembered
       /\ mail["gap"] # {} => Shown(1 .. row.off)

(* An answer that nobody has made proactive is in the bubble or was queued. *)
BubbleInv ==
    (row.complete /\ ~row.proactive /\ Good) =>
       /\ mail["final"] # {} => row.final \subseteq Seen
       /\ row.finish => row.final \subseteq Seen \/ FalseAck \/ late

(* Of a proactive stream the messages have what comes after the offset. *)
MessageInv ==
    (row.complete /\ row.proactive /\ Good) =>
       /\ stage = "owing" => /\ offset = row.off /\ row.final = Answer
                             /\ mail["final"] = {} \/ row.final \subseteq Seen
       /\ (stage # "owing" /\ Need) => row.final \subseteq Seen \cup 1 .. row.off
       /\ (stage # "owing" /\ ~Need) => row.final \subseteq Sent

PartsInv == FailInv /\ CoverInv /\ PrefixInv /\ BubbleInv /\ MessageInv
AnswerInv == BaseInv /\ OffsetInv /\ PartsInv

LEMMA InitAnswer == Init => AnswerInv
PROOF
<1> SUFFICES ASSUME Init PROVE AnswerInv
  OBVIOUS
<1>1. BaseInv
  BY InitBase
<1>2. /\ ~row.complete /\ ~row.proactive /\ switched = FALSE /\ stage = "run" /\ acked = 0
  BY DEF Init, Blank
<1>3. OffsetInv /\ FailInv /\ PrefixInv /\ BubbleInv /\ MessageInv
  BY <1>2 DEF OffsetInv, FailInv, PrefixInv, BubbleInv, MessageInv
<1>4. CoverInv
  BY <1>2 DEF CoverInv
<1>5. QED
  BY <1>1, <1>3, <1>4 DEF AnswerInv, PartsInv

LEMMA Partly ==
    ASSUME \A k \in Keys : mail[k] \subseteq mail'[k]
    PROVE  Sent \subseteq Sent' /\ (bubble \subseteq bubble' => Seen \subseteq Seen')
PROOF
BY DEF Sent, Seen

LEMMA MailSent == \A k \in Keys : mail[k] \subseteq Sent /\ Sent \subseteq Seen
PROOF
BY DEF Sent, Seen

------------------------------------------------------------------------------
(* The worker's and the scheduler's steps keep it. *)

LEMMA ScribeFacts ==
    ASSUME BaseInv, ScribeStep
    PROVE  /\ row.complete => task' = task
           /\ row.proactive => row'.off = row.off
           /\ ~row.proactive => mail'["final"] = mail["final"]
           /\ stage' = "owing" => ~row.complete /\ Complete
           /\ (row.complete /\ stage = "owing") => PushFinal \/ abandoned'
           /\ (row.complete /\ switched' # switched) => task = "lost" /\ stage = "run"
           /\ (row'.complete /\ ~row.complete) => Complete \/ ReapLost \/ Recover
PROOF
<1> USE DEF rowVars, workerVars, flagVars, otherVars
<1>1. /\ TypeOK /\ WorkerInv /\ ModeInv
  BY DEF BaseInv
<1>2. stage = "owing" => row.proactive /\ row.complete
  BY <1>1 DEF WorkerInv
<1>3. stage \in {"ended", "told"} => ~row.complete
  BY <1>1 DEF WorkerInv
<1>4. task = "active" => ~row.complete
  BY <1>1 DEF WorkerInv
<1>5. (row.complete /\ stage \in {"run", "switching"}) => task = "lost"
  BY <1>1 DEF WorkerInv
<1> DEFINE Claim ==
           /\ row.complete => task' = task
           /\ row.proactive => row'.off = row.off
           /\ ~row.proactive => mail'["final"] = mail["final"]
           /\ stage' = "owing" => ~row.complete /\ Complete
           /\ (row.complete /\ stage = "owing") => PushFinal \/ abandoned'
           /\ (row.complete /\ switched' # switched) => task = "lost" /\ stage = "run"
           /\ (row'.complete /\ ~row.complete) => Complete \/ ReapLost \/ Recover
<1>6. ASSUME Produce PROVE Claim
  BY <1>6 DEF Produce
<1>7. ASSUME Flush PROVE Claim
  BY <1>1, <1>7, FlushedRow DEF Flush
<1>8. ASSUME Adopt PROVE Claim
  BY <1>5, <1>8 DEF Adopt
<1>9. ASSUME SwitchFlush PROVE Claim
  BY <1>1, <1>5, <1>9, FlushedRow DEF SwitchFlush
<1>10. ASSUME SwitchWrite PROVE Claim
  BY <1>1, <1>10, SwitchedRow DEF SwitchWrite
<1>11. ASSUME PushProgress PROVE Claim
  <2>1. mail'["final"] = mail["final"]
    BY <1>1, <1>11, ProgressQueued DEF PushProgress, Keys
  <2>2. QED
    BY <1>11, <2>1 DEF PushProgress
<1>12. ASSUME EndTask PROVE Claim
  BY <1>4, <1>12 DEF EndTask
<1>13. ASSUME Tell PROVE Claim
  <2>1. row.proactive
    BY <1>1, <1>13 DEF Tell, ModeInv
  <2>2. QED
    BY <1>13, <2>1 DEF Tell
<1>14. ASSUME Complete PROVE Claim
  BY <1>1, <1>3, <1>14, CompletedRow DEF Complete
<1>15. ASSUME PushFinal PROVE Claim
  BY <1>2, <1>15 DEF PushFinal
<1>16. ASSUME ReapLost PROVE Claim
  <2>1. mail'["final"] = mail["final"]
    BY <1>1, <1>16, Queued DEF ReapLost, Keys
  <2>2. row'.off = row.off
    BY <1>1, <1>16, ReapedRow
  <2>3. QED
    BY <1>4, <1>16, <2>1, <2>2 DEF ReapLost
<1>17. ASSUME Recover PROVE Claim
  <2>1. mail'["final"] = mail["final"]
    BY <1>1, <1>17, Queued DEF Recover, Keys
  <2>2. row'.off = row.off
    BY <1>1, <1>17, RecoveredRow
  <2>3. QED
    BY <1>17, <2>1, <2>2 DEF Recover
<1>18. ASSUME WorkerDies PROVE Claim
  <2>1. abandoned' = (abandoned \/ stage = "owing")
    BY <1>18 DEF WorkerDies
  <2>2. QED
    BY <1>18, <2>1 DEF WorkerDies
<1>19. Claim
  BY <1>6, <1>7, <1>8, <1>9, <1>10, <1>11, <1>12, <1>13, <1>14, <1>15, <1>16, <1>17, <1>18
     DEF ScribeStep, WorkerStep
<1>20. QED
  BY <1>19

(* What has the same value, or more, after a step of the worker. *)
LEMMA ScribeParts ==
    ASSUME AnswerInv, ScribeStep
    PROVE  PartsInv'
PROOF
<1>1. /\ BaseInv /\ TypeOK /\ TypeOK' /\ WorkerInv /\ ModeInv /\ FrameInv /\ FailInv /\ CoverInv
      /\ PrefixInv /\ BubbleInv /\ MessageInv /\ OffsetInv
  BY WorkerTypes DEF AnswerInv, PartsInv, BaseInv, ScribeStep
<1>2. Grows
  BY <1>1, WorkerGrows DEF ScribeStep
<1>3. /\ row.complete => task' = task
      /\ row.proactive => row'.off = row.off
      /\ ~row.proactive => mail'["final"] = mail["final"]
      /\ stage' = "owing" => ~row.complete /\ Complete
      /\ (row.complete /\ stage = "owing") => PushFinal \/ abandoned'
      /\ (row.complete /\ switched' # switched) => task = "lost" /\ stage = "run"
      /\ (row'.complete /\ ~row.complete) => Complete \/ ReapLost \/ Recover
  BY <1>1, ScribeFacts
<1>4. /\ UNCHANGED <<up, pc, copy, late, lateCopy, acked, known, blocked, confirmed, bubble, live, reply>>
      /\ misjudged' = misjudged /\ row'.finish = row.finish /\ mail'["gap"] = mail["gap"]
  BY <1>1, ScribeFrame DEF gatewayVars, pushVars, lateVars, ackVars, platformVars
<1>5. Sent \subseteq Sent' /\ Seen \subseteq Seen'
  BY <1>2, <1>4, Partly DEF Grows
<1>6. (Good' => Good) /\ (Need' => Need)
  BY <1>2, <1>4 DEF Good, Need, Grows
<1>7. /\ row.written \in 0 .. MaxText /\ row.off \in 0 .. MaxText /\ row'.off \in 0 .. MaxText
      /\ acked \in 0 .. MaxText /\ text \in 0 .. MaxText
  BY <1>1, RowPartTypes DEF TypeOK
<1>8. FailInv'
  <2>1. SUFFICES ASSUME row'.complete, row'.proactive, Good'
                 PROVE  /\ task' # "success" => row'.final \cap 1 .. MaxText \subseteq Sent'
                        /\ task' = "lost" => row'.final \subseteq Sent'
    BY DEF FailInv
  <2>2. CASE row.complete
    <3>1. row.proactive
      BY <1>2, <2>1, <2>2 DEF Grows, Good
    <3>2. QED
      BY <1>1, <1>2, <1>3, <1>5, <1>6, <2>1, <2>2, <3>1 DEF FailInv, Grows
  <2>3. CASE Complete
    <3>1. row'.final = Answer /\ task \in {"success", "failure"} /\ task' = task
      BY <1>1, <2>3, CompletedRow DEF Complete, WorkerInv
    <3>2. task = "failure" => row'.final = {Mark}
      BY <3>1 DEF Answer
    <3>3. {Mark} \cap 1 .. MaxText = {}
      BY StreamAssumption DEF Mark
    <3>4. QED
      BY <3>1, <3>2, <3>3
  <2>4. CASE ReapLost
    <3>1. row.proactive /\ ~row.complete
      BY <1>1, <2>1, <2>4, ReapedRow DEF ReapLost, WorkerInv
    <3>2. row'.final = {Mark} /\ Queue("lost", {Mark})
      BY <1>1, <2>4, <3>1, ReapedRow
    <3>3. mail'["lost"] = {Mark} /\ "lost" \in Keys
      BY <1>1, <3>1, <3>2, Queued DEF WorkerInv, Keys
    <3>4. row'.final \subseteq Sent'
      BY <3>2, <3>3 DEF Sent
    <3>5. QED
      BY <3>4
  <2>5. CASE Recover
    <3>1. row.proactive /\ ~row.complete
      BY <1>1, <2>1, <2>5, RecoveredRow DEF Recover
    <3>2. Queue("recovery", row'.final)
      BY <1>1, <2>5, <3>1, RecoveredRow
    <3>3. mail'["recovery"] = row'.final /\ "recovery" \in Keys
      BY <1>1, <3>1, <3>2, Queued DEF WorkerInv, Keys
    <3>4. row'.final \subseteq Sent'
      BY <3>3 DEF Sent
    <3>5. QED
      BY <3>4
  <2>6. QED
    BY <1>3, <2>1, <2>2, <2>3, <2>4, <2>5
<1>9. CoverInv'
  <2>1. SUFFICES ASSUME Good', row'.complete => task' = "success", row'.proactive => Need'
                 PROVE  {s \in 1 .. acked' : row'.proactive /\ switched' => s <= row'.off} \subseteq bubble'
    BY DEF CoverInv
  <2>2. Good /\ (row.complete => task = "success") /\ (row.proactive => Need)
    BY <1>2, <1>3, <1>6, <2>1 DEF Grows
  <2>3. {s \in 1 .. acked : row.proactive /\ switched => s <= row.off} \subseteq bubble
    BY <1>1, <2>2 DEF CoverInv
  <2>4. ASSUME NEW s \in 1 .. acked, row'.proactive /\ switched' => s <= row'.off, row.proactive /\ switched
        PROVE  s <= row.off
    BY <1>2, <1>3, <2>4 DEF Grows
  <2>5. QED
    BY <1>4, <2>3, <2>4
<1>10. PrefixInv'
  <2>1. SUFFICES ASSUME row'.proactive, Need', Good'
                 PROVE  /\ row'.finish => Shown(1 .. row.off)' \/ Doubt' \/ Remembered'
                        /\ mail'["gap"] # {} => Shown(1 .. row.off)'
    BY DEF PrefixInv, Shown
  <2>2. CASE ~row.proactive
    BY <1>1, <1>2, <1>4, <2>1, <2>2 DEF ModeInv, FrameInv, Grows, Good
  <2>3. CASE row.proactive
    <3>1. Shown(1 .. row.off) => Shown(1 .. row.off)'
      <4>1. row'.off = row.off /\ (row.complete => row'.complete /\ row'.final = row.final)
        BY <1>2, <1>3, <2>3 DEF Grows
      <4>2. QED
        BY <1>5, <4>1 DEF Shown
    <3>2. (Doubt => Doubt') /\ (Remembered => Remembered')
      BY <1>3, <1>4, <2>3 DEF Doubt, FalseAck, Remembered, Busy
    <3>3. QED
      BY <1>1, <1>4, <1>6, <2>1, <2>3, <3>1, <3>2 DEF PrefixInv
  <2>4. QED
    BY <2>2, <2>3
<1>11. BubbleInv'
  <2>1. SUFFICES ASSUME row'.complete, ~row'.proactive, Good'
                 PROVE  /\ mail'["final"] # {} => row'.final \subseteq Seen'
                        /\ row'.finish => row'.final \subseteq Seen' \/ FalseAck' \/ late'
    BY DEF BubbleInv
  <2>2. ~row.proactive /\ mail'["final"] = mail["final"]
    BY <1>2, <1>3, <2>1 DEF Grows
  <2>3. CASE row.complete
    <3>1. row'.final = row.final
      BY <1>2, <2>3 DEF Grows
    <3>2. FalseAck' = FalseAck /\ late' = late
      BY <1>4 DEF FalseAck
    <3>3. QED
      BY <1>1, <1>4, <1>5, <1>6, <2>1, <2>2, <2>3, <3>1, <3>2 DEF BubbleInv
  <2>4. CASE ~row.complete
    BY <1>1, <1>4, <2>2, <2>4 DEF WorkerInv, ModeInv
  <2>5. QED
    BY <2>3, <2>4
<1>12. MessageInv'
  <2>1. SUFFICES ASSUME row'.complete, row'.proactive, Good'
                 PROVE  /\ stage' = "owing" => /\ offset' = row'.off /\ row'.final = Answer'
                                               /\ mail'["final"] = {} \/ row'.final \subseteq Seen'
                        /\ (stage' # "owing" /\ Need') => row'.final \subseteq Seen' \cup 1 .. row'.off
                        /\ (stage' # "owing" /\ ~Need') => row'.final \subseteq Sent'
    BY DEF MessageInv
  <2>2. CASE row.complete
    <3>1. row.proactive /\ row'.off = row.off /\ row'.final = row.final /\ stage' # "owing"
      BY <1>2, <1>3, <2>1, <2>2 DEF Grows, Good
    <3>2. CASE stage = "owing"
      <4>1. PushFinal
        BY <1>3, <2>1, <2>2, <3>2 DEF Good
      <4>2. Queue("final", Rest(FALSE)) /\ switched' = switched /\ incremental' = incremental
        BY <4>1 DEF PushFinal, otherVars
      <4>3. offset = row.off /\ row.final = Answer /\ (mail["final"] = {} \/ row.final \subseteq Seen)
        BY <1>1, <1>6, <2>1, <2>2, <3>1, <3>2 DEF MessageInv
      <4>4. Need'
        BY <1>1, <3>2, <4>2 DEF WorkerInv, Need
      <4>5. row.final \subseteq Seen' \cup 1 .. row.off
        <5>1. CASE row.final \subseteq Seen
          BY <1>5, <5>1
        <5>2. CASE mail["final"] = {}
          <6>1. mail'["final"] = Rest(FALSE) /\ "final" \in Keys
            BY <1>1, <4>2, <5>2, Queued DEF Keys
          <6>2. row.final \subseteq Rest(FALSE) \cup 1 .. row.off
            <7>1. \A s \in Answer : s \in Segments
              BY <1>1, AnswerTypes
            <7>2. \A s \in Answer : ~(s > offset) => s \in 1 .. row.off
              BY <1>7, <4>3, <7>1 DEF Segments
            <7>3. QED
              BY <4>3, <7>2 DEF Rest
          <6>3. QED
            BY <6>1, <6>2 DEF Seen
        <5>3. QED
          BY <4>3, <5>1, <5>2
      <4>6. QED
        BY <3>1, <4>4, <4>5
    <3>3. CASE stage # "owing"
      <4>1. /\ Need => row.final \subseteq Seen \cup 1 .. row.off
            /\ ~Need => row.final \subseteq Sent
        BY <1>1, <1>6, <2>1, <2>2, <3>1, <3>3 DEF MessageInv
      <4>2. (Need /\ ~Need') => row.final \subseteq Sent
        <5>1. SUFFICES ASSUME Need, ~Need' PROVE row.final \subseteq Sent
          OBVIOUS
        <5>2. switched' # switched
          BY <1>2, <5>1 DEF Need, Grows
        <5>3. task = "lost"
          BY <1>3, <2>2, <5>2
        <5>4. QED
          BY <1>1, <1>6, <2>1, <2>2, <3>1, <5>3 DEF FailInv
      <4>3. QED
        BY <1>5, <1>6, <3>1, <4>1, <4>2
    <3>4. QED
      BY <3>2, <3>3
  <2>3. CASE Complete /\ ~row.complete
    <3>1. row'.final = Answer /\ row'.off = row.off /\ row.proactive
      BY <1>1, <2>1, <2>3, CompletedRow
    <3>2. /\ IF switched THEN stage = "told" ELSE stage = "ended"
          /\ IF ~switched THEN stage' = "owing" /\ offset' = row.off ELSE stage' = "done" /\ offset' = offset
          /\ UNCHANGED <<task, text, switched, mail, incremental>>
      BY <2>3, <3>1 DEF Complete, otherVars
    <3>3. Answer' = Answer
      BY <3>2 DEF Answer
    <3>4. CASE ~switched
      <4>1. mail'["final"] = {}
        BY <1>1, <2>3, <3>2, <3>4 DEF WorkerInv
      <4>2. QED
        BY <3>1, <3>2, <3>3, <3>4, <4>1
    <3>5. CASE switched
      <4>1. incremental => Answer \subseteq mail["final"] \cup mail["progress"] \cup 1 .. row.off
        BY <1>1, <1>4, <2>1, <3>2, <3>5 DEF OffsetInv, Good
      <4>2. ~incremental => Answer \subseteq mail["final"]
        BY <1>1, <3>2, <3>5 DEF OffsetInv
      <4>3. "final" \in Keys /\ "progress" \in Keys
        BY DEF Keys
      <4>4. mail["final"] \subseteq Sent' /\ mail["progress"] \subseteq Sent' /\ Sent' \subseteq Seen'
        BY <3>2, <4>3 DEF Sent, Seen
      <4>5. stage' # "owing" /\ (Need' <=> incremental)
        BY <3>2, <3>5 DEF Need
      <4>6. QED
        BY <3>1, <4>1, <4>2, <4>4, <4>5
    <3>6. QED
      BY <3>4, <3>5
  <2>4. CASE (ReapLost \/ Recover) /\ ~row.complete
    <3>1. stage' # "owing"
      BY <2>4 DEF ReapLost, Recover, workerVars
    <3>2. row'.final \subseteq Sent'
      <4>1. CASE ReapLost
        <5>1. task' = "lost"
          BY <4>1 DEF ReapLost
        <5>2. QED
          BY <1>8, <2>1, <5>1 DEF FailInv
      <4>2. CASE Recover
        <5>1. row.proactive
          BY <1>1, <2>1, <4>2, RecoveredRow
        <5>2. Queue("recovery", row'.final)
          BY <1>1, <4>2, <5>1, RecoveredRow
        <5>3. mail'["recovery"] = row'.final /\ "recovery" \in Keys
          BY <1>1, <2>4, <5>2, Queued DEF WorkerInv, Keys
        <5>4. QED
          BY <5>3 DEF Sent
      <4>3. QED
        BY <2>4, <4>1, <4>2
    <3>3. Sent' \subseteq Seen'
      BY DEF Sent, Seen
    <3>4. QED
      BY <3>1, <3>2, <3>3
  <2>5. QED
    BY <1>3, <2>1, <2>2, <2>3, <2>4
<1>13. QED
  BY <1>8, <1>9, <1>10, <1>11, <1>12 DEF PartsInv

LEMMA ScribeOffsets ==
    ASSUME BaseInv, OffsetInv, ScribeStep
    PROVE  OffsetInv'
PROOF
<1> USE DEF rowVars, workerVars, flagVars, otherVars
<1>1. TypeOK /\ WorkerInv /\ ModeInv
  BY DEF BaseInv
<1>2. Grows
  BY WorkerGrows DEF ScribeStep
<1>3. /\ misjudged' = misjudged /\ incremental' = incremental
      /\ \A k \in Keys : mail[k] \subseteq mail'[k]
      /\ "progress" \in Keys /\ "final" \in Keys
  BY <1>2, ScribeFrame DEF Grows, Keys
<1>4. row.off \in 0 .. MaxText /\ offset \in 0 .. MaxText /\ text \in 0 .. MaxText
  BY <1>1, RowPartTypes DEF TypeOK
<1>5. (switched /\ stage \in {"run", "ended"}) => row.proactive
  BY <1>1 DEF ModeInv
<1>6. ASSUME stage' \notin {"run", "ended", "told"} PROVE OffsetInv'
  BY <1>6 DEF OffsetInv
<1>7. ASSUME row'.off = row.off, offset' = offset, switched' = switched,
             stage' = stage \/ (stage = "run" /\ stage' = "ended"), stage' # "told"
      PROVE  OffsetInv'
  BY <1>3, <1>7 DEF OffsetInv
<1>8. ASSUME stage' = stage, stage \notin {"run", "ended", "told"} PROVE OffsetInv'
  BY <1>6, <1>8
<1>9. CASE Produce \/ Flush
  BY <1>1, <1>7, <1>9, FlushedRow DEF Produce, Flush
<1>10. CASE Adopt
  <2>1. stage' = "run" /\ offset' = heard.off /\ heard.proactive /\ row' = row
    BY <1>10 DEF Adopt
  <2>2. (incremental /\ ~misjudged) => heard.off = row.off
    BY <1>1, <2>1 DEF ModeInv
  <2>3. QED
    BY <1>3, <1>4, <2>1, <2>2 DEF OffsetInv
<1>11. CASE SwitchFlush \/ WorkerDies
  BY <1>6, <1>11 DEF SwitchFlush, WorkerDies
<1>12. CASE SwitchWrite
  <2>1. stage' = "run" /\ offset' = row'.off /\ row'.off \in 0 .. MaxText
    BY <1>1, <1>4, <1>12, SwitchedRow DEF SwitchWrite
  <2>2. QED
    BY <2>1 DEF OffsetInv
<1>13. CASE PushProgress
  <2>1. PICK e \in (offset + 1) .. text :
            mail' = [mail EXCEPT !["progress"] = @ \cup ((offset + 1) .. e)] /\ offset' = e
    BY <1>13 DEF PushProgress
  <2>2. mail'["progress"] = mail["progress"] \cup ((offset + 1) .. e)
    BY <1>1, <2>1, ProgressQueued
  <2>3. stage = "run" /\ stage' = "run" /\ switched /\ row' = row
    BY <1>13 DEF PushProgress
  <2>4. (incremental /\ ~misjudged) => row.off <= offset /\ (row.off + 1) .. offset \subseteq mail["progress"]
    BY <2>3 DEF OffsetInv
  <2>5. (incremental /\ ~misjudged) => row.off <= e /\ (row.off + 1) .. e \subseteq mail'["progress"]
    BY <1>4, <2>1, <2>2, <2>4
  <2>6. QED
    BY <1>3, <2>1, <2>3, <2>5 DEF OffsetInv
<1>14. CASE EndTask
  <2>1. CASE stage' = "ended"
    BY <1>7, <1>14, <2>1 DEF EndTask
  <2>2. CASE stage' = "done"
    BY <1>6, <2>2
  <2>3. QED
    BY <1>14, <2>1, <2>2 DEF EndTask
<1>15. CASE Tell
  <2>1. /\ stage = "ended" /\ switched /\ Queue("final", Rest(~incremental)) /\ stage' = "told"
        /\ UNCHANGED <<row, task, text, switched, offset>>
    BY <1>15 DEF Tell
  <2>2. mail["final"] = {} /\ Answer' = Answer
    BY <1>1, <2>1 DEF WorkerInv, Answer
  <2>3. mail'["final"] = Rest(~incremental)
    BY <1>1, <1>3, <2>1, <2>2, Queued
  <2>4. ~incremental => Answer \subseteq mail'["final"]
    BY <2>3 DEF Rest
  <2>5. ASSUME incremental, ~misjudged
        PROVE  Answer \subseteq mail'["final"] \cup mail'["progress"] \cup 1 .. row.off
    <3>1. row.off <= offset /\ (row.off + 1) .. offset \subseteq mail["progress"]
      BY <2>1, <2>5 DEF OffsetInv
    <3>2. ASSUME NEW s \in Answer, s \notin mail'["final"]
          PROVE  s \in mail'["progress"] \cup 1 .. row.off
      <4>1. ~(s > offset) /\ s \in Segments
        BY <1>1, <2>3, <2>5, <3>2, AnswerTypes DEF Rest
      <4>2. s \in 1 .. row.off \/ s \in (row.off + 1) .. offset
        BY <1>4, <3>1, <4>1 DEF Segments
      <4>3. QED
        BY <1>3, <3>1, <4>2
    <3>3. QED
      BY <3>2
  <2>6. QED
    BY <1>3, <2>1, <2>2, <2>4, <2>5 DEF OffsetInv
<1>16. CASE Complete \/ PushFinal
  BY <1>6, <1>16 DEF Complete, PushFinal
<1>17. CASE ReapLost \/ Recover
  <2>1. row'.off = row.off /\ UNCHANGED <<stage, switched, offset>>
    BY <1>1, <1>17, ReapedRow, RecoveredRow DEF ReapLost, Recover
  <2>2. stage # "told"
    BY <1>17 DEF ReapLost, Recover
  <2>3. QED
    BY <1>7, <2>1, <2>2
<1>18. QED
  BY <1>9, <1>10, <1>11, <1>12, <1>13, <1>14, <1>15, <1>16, <1>17 DEF ScribeStep, WorkerStep

------------------------------------------------------------------------------
(* The gateways' steps keep it. *)

(* The row after a gateway's step. *)
LEMMA ShapeRow ==
    ASSUME BaseInv, NEW r \in Rows, NEW c \in 0 .. MaxText, Leaves \/ Ends \/ Hands(r, c)
    PROVE  /\ row'.complete = row.complete /\ row'.final = row.final
           /\ ~Switches(c) => row'.proactive = row.proactive /\ row'.off = row.off
           /\ Switches(c) => row'.proactive /\ row'.off = c /\ row'.finish /\ ~row.complete /\ mail' = mail
           /\ FillsGap(r, c) => row.proactive
           /\ (row'.finish /\ ~row.finish) => Ends \/ Hands(r, c)
PROOF
<1>1. row \in Rows /\ row.finish \in BOOLEAN
  BY RowPartTypes DEF BaseInv, TypeOK
<1>2. Switches(c) => row'.proactive /\ row'.off = c /\ row'.finish /\ ~row.complete /\ mail' = mail
                     /\ row'.complete = row.complete /\ row'.final = row.final
  BY <1>1, Fields DEF Switches
<1>3. (row' = row \/ Finishes) => /\ row'.complete = row.complete /\ row'.final = row.final
                                  /\ row'.proactive = row.proactive /\ row'.off = row.off
  <2>1. ASSUME Finishes
        PROVE  /\ row'.complete = row.complete /\ row'.final = row.final
               /\ row'.proactive = row.proactive /\ row'.off = row.off
    BY <1>1, <2>1, Fields DEF Finishes
  <2>2. QED
    BY <2>1
<1>4. Leaves \/ Ends \/ FillsGap(r, c) \/ Delivers(c) => row' = row \/ Finishes
  BY DEF Leaves, Ends, FillsGap, Delivers
<1>5. FillsGap(r, c) => row.proactive
  BY DEF FillsGap, CopyOf
<1>6. Leaves => row' = row
  BY DEF Leaves
<1>7. QED
  BY <1>2, <1>3, <1>4, <1>5, <1>6 DEF Hands

LEMMA GatewayOffsets ==
    ASSUME BaseInv, OffsetInv, Scribe, Shape
    PROVE  OffsetInv'
PROOF
<1>1. Grows
  BY ShapeKeeps
<1>2. /\ UNCHANGED <<task, incremental, stage, text, switched, offset>>
  BY DEF Scribe, workerVars
<1>3. (switched /\ stage \in {"run", "ended", "told"}) => row.proactive
  BY DEF BaseInv, ModeInv
<1>4. stage = "told" => switched
  BY DEF BaseInv, ModeInv
<1>5. /\ mail["final"] \subseteq mail'["final"] /\ mail["progress"] \subseteq mail'["progress"]
      /\ misjudged => misjudged'
      /\ (row.proactive /\ incremental /\ ~misjudged') => row'.off = row.off
  BY <1>1 DEF Grows, Keys
<1>6. Answer' = Answer
  BY <1>2 DEF Answer
<1>7. QED
  BY <1>2, <1>3, <1>4, <1>5, <1>6 DEF OffsetInv

LEMMA GoodBefore ==
    ASSUME Grows, Scribe
    PROVE  (Good' => Good) /\ Need' = Need /\ task' = task /\ stage' = stage /\ offset' = offset
           /\ Answer' = Answer /\ switched' = switched /\ incremental' = incremental
PROOF
BY DEF Grows, Scribe, Good, Need, Answer, workerVars

(* A step that sends no frame keeps what the bubble covers. *)
LEMMA QuietCover ==
    ASSUME BaseInv, CoverInv, Scribe, NEW r \in Rows, NEW c \in 0 .. MaxText,
           Leaves \/ Ends \/ Hands(r, c), bubble' = bubble, acked' = acked
    PROVE  CoverInv'
PROOF
<1>1. Shape
  BY DEF Shape
<1>2. Grows
  BY <1>1, ShapeKeeps
<1>3. /\ (Good' => Good) /\ Need' = Need /\ task' = task /\ switched' = switched
      /\ incremental' = incremental
  BY <1>2, GoodBefore
<1>4. row'.complete = row.complete
  BY ShapeRow
<1>5. SUFFICES ASSUME Good', row'.complete => task' = "success", row'.proactive => Need'
               PROVE  {s \in 1 .. acked' : row'.proactive /\ switched' => s <= row'.off} \subseteq bubble'
  BY DEF CoverInv
<1>6. {s \in 1 .. acked : row.proactive /\ switched => s <= row.off} \subseteq bubble
  BY <1>2, <1>3, <1>4, <1>5 DEF CoverInv, Grows
<1>7. ASSUME row.proactive /\ switched PROVE row'.proactive /\ row'.off = row.off
  <2>1. row'.proactive /\ incremental
    BY <1>2, <1>3, <1>5, <1>7 DEF Grows, Need
  <2>2. ~misjudged'
    BY <1>3, <1>5, <2>1 DEF Good
  <2>3. QED
    BY <1>2, <1>7, <2>1, <2>2 DEF Grows
<1>8. QED
  BY <1>3, <1>6, <1>7

------------------------------------------------------------------------------
(* What a gateway's step has to see to. *)

Keeps == (Good' /\ (row.proactive => Need)) =>
            bubble \subseteq bubble' \/ (row.complete /\ row.final \subseteq bubble')

Counts(r, c) == (Good' /\ Hands(r, c)) =>
                   c <= acked' \/ (Switches(c) /\ Doubt' /\ mail["gap"] = {})

EndsWell(r, c) ==
    (Ends /\ ~Hands(r, c) /\ ~row.finish /\ Good' /\ (row.proactive => Need)) =>
       \/ Doubt'
       \/ row.complete /\ row.final \subseteq bubble'
       \/ row.proactive /\ 1 .. row.off \subseteq bubble'

Minds(r, c) ==
    /\ (Good' /\ (FalseAck \/ late)) => FalseAck' \/ late' \/ Hands(r, c)
    /\ (Good' /\ Doubt /\ row.proactive /\ row.finish /\ row'.off = row.off) => Doubt' \/ Remembered'
    /\ (Good' /\ Remembered /\ row'.off = row.off) => Remembered' \/ FillsGap(r, c)

Fills(r, c) == (Good' /\ Need /\ FillsGap(r, c)) => r.off = row.off \/ Shown(1 .. row.off)

(* The final text that is queued from c on is the rest of what is shown. *)
LEMMA DeliversAll ==
    ASSUME BaseInv, CoverInv', Scribe, Grows, NEW c \in 0 .. MaxText, Delivers(c), Good',
           TypeOK', row'.proactive = row.proactive, c <= acked',
           ~row.proactive \/ ~switched, mail["final"] = {}
    PROVE  row.final \subseteq Seen'
PROOF
<1>1. /\ row.complete /\ row'.complete
      /\ mail'["final"] = {s \in row.final : task = "success" => s > c}
  BY Queued DEF Delivers, BaseInv, Keys, Grows
<1>2. Need' = Need /\ task' = task /\ switched' = switched
  BY GoodBefore
<1>3. task = "success" => 1 .. acked' \subseteq bubble'
  BY <1>1, <1>2 DEF CoverInv, Need
<1>4. row.final \subseteq Segments /\ acked' \in 0 .. MaxText
  BY RowPartTypes DEF BaseInv, TypeOK
<1>5. ASSUME NEW s \in row.final, ~(task = "success" => s > c) PROVE s \in bubble'
  <2>1. s \in 1 .. acked'
    BY <1>4, <1>5 DEF Segments
  <2>2. QED
    BY <1>3, <1>5, <2>1
<1>6. "final" \in Keys
  BY DEF Keys
<1>7. QED
  BY <1>1, <1>5, <1>6 DEF Seen

LEMMA FillsAll ==
    ASSUME BaseInv, CoverInv', FailInv, Scribe, Grows, NEW r \in Rows, NEW c \in 0 .. MaxText,
           FillsGap(r, c), Good', Need, TypeOK', row'.off = row.off, row'.complete = row.complete,
           row'.final = row.final, c <= acked', mail["gap"] = {}, r.off = row.off
    PROVE  Shown(1 .. row.off)'
PROOF
<1>1. /\ mail'["gap"] = Gap(r, c) /\ row.proactive /\ row'.proactive /\ r.off <= r.written
  BY Queued DEF FillsGap, BaseInv, Keys, CopyOf, Grows
<1>2. Need' = Need /\ task' = task /\ (Good' => Good)
  BY GoodBefore
<1>3. /\ row.off \in 0 .. MaxText /\ acked' \in 0 .. MaxText /\ r.written \in 0 .. MaxText
  BY RowPartTypes DEF BaseInv, TypeOK
<1>4. ASSUME NEW s \in 1 .. row.off, row.complete => s \in row.final PROVE s \in Seen'
  <2>1. CASE c < s
    <3>1. s \in Gap(r, c)
      BY <1>1, <1>3, <2>1 DEF Gap
    <3>2. QED
      BY <1>1, <3>1 DEF Seen, Keys
  <2>2. CASE ~(c < s) /\ (row.complete => task = "success")
    <3>1. s \in 1 .. acked' /\ s <= row'.off
      BY <1>3, <2>2
    <3>2. s \in bubble'
      BY <1>1, <1>2, <2>2, <3>1 DEF CoverInv
    <3>3. QED
      BY <3>2 DEF Seen
  <2>3. CASE row.complete /\ task # "success"
    <3>1. s \in Sent
      <4>1. row.final \cap 1 .. MaxText \subseteq Sent
        BY <1>1, <1>2, <2>3 DEF FailInv
      <4>2. s \in 1 .. MaxText
        BY <1>3, StreamAssumption
      <4>3. s \in row.final
        BY <1>4, <2>3
      <4>4. QED
        BY <4>1, <4>2, <4>3
    <3>2. s \in Sent'
      BY <3>1, Partly DEF Grows
    <3>3. QED
      BY <3>2 DEF Sent, Seen
  <2>4. QED
    BY <2>1, <2>2, <2>3
<1>5. QED
  BY <1>4 DEF Shown

LEMMA GatewayParts ==
    ASSUME AnswerInv, TypeOK', Scribe, NEW r \in Rows, NEW c \in 0 .. MaxText,
           Leaves \/ Ends \/ Hands(r, c),
           CoverInv', Keeps, Counts(r, c), EndsWell(r, c), Minds(r, c), Fills(r, c)
    PROVE  OffsetInv' /\ PartsInv'
PROOF
<1>1. /\ BaseInv /\ TypeOK /\ WorkerInv /\ ModeInv /\ FrameInv /\ FailInv /\ CoverInv
      /\ PrefixInv /\ BubbleInv /\ MessageInv /\ OffsetInv
  BY DEF AnswerInv, PartsInv, BaseInv
<1>2. Shape
  BY DEF Shape
<1>3. Grows
  BY <1>1, <1>2, ShapeKeeps
<1>4. /\ (Good' => Good) /\ Need' = Need /\ task' = task /\ stage' = stage /\ offset' = offset
      /\ Answer' = Answer /\ switched' = switched /\ incremental' = incremental
  BY <1>3, GoodBefore
<1>5. /\ row'.complete = row.complete /\ row'.final = row.final
      /\ ~Switches(c) => row'.proactive = row.proactive /\ row'.off = row.off
      /\ Switches(c) => row'.proactive /\ row'.off = c /\ row'.finish /\ ~row.complete /\ mail' = mail
      /\ FillsGap(r, c) => row.proactive
      /\ (row'.finish /\ ~row.finish) => Ends \/ Hands(r, c)
  BY <1>1, ShapeRow
<1>6. /\ Sent \subseteq Sent' /\ (bubble \subseteq bubble' => Seen \subseteq Seen')
      /\ Sent' \subseteq Seen' /\ bubble' \subseteq Seen'
  BY <1>3, Partly DEF Grows, Sent, Seen
<1>7. /\ row.written \in 0 .. MaxText /\ row.off \in 0 .. MaxText /\ row'.off \in 0 .. MaxText
      /\ acked' \in 0 .. MaxText
  BY <1>1, RowPartTypes DEF TypeOK
<1>8. ASSUME Good', row.complete, row.proactive => Need, row.final \subseteq Seen
      PROVE  row.final \subseteq Seen'
  BY <1>6, <1>8 DEF Keeps
<1>9. ASSUME Good', row.complete, Delivers(c), ~row.proactive \/ ~switched,
             mail["final"] # {} => row.final \subseteq Seen
      PROVE  row.final \subseteq Seen'
  <2>1. ~Switches(c) /\ row'.proactive = row.proactive
    BY <1>5, <1>9 DEF Delivers, Switches
  <2>2. c <= acked'
    BY <1>9, <2>1 DEF Counts, Hands
  <2>3. row.proactive => Need
    BY <1>9 DEF Need
  <2>4. QED
    BY <1>1, <1>3, <1>8, <1>9, <2>1, <2>2, <2>3, DeliversAll
<1>10. OffsetInv'
  BY <1>1, <1>2, GatewayOffsets
<1>11. FailInv'
  BY <1>1, <1>3, <1>4, <1>5, <1>6 DEF FailInv, Grows, Good
<1>12. MessageInv'
  <2>1. SUFFICES ASSUME row'.complete, row'.proactive, Good'
                 PROVE  /\ stage = "owing" => /\ offset = row'.off /\ row'.final = Answer
                                              /\ mail'["final"] = {} \/ row'.final \subseteq Seen'
                        /\ (stage # "owing" /\ Need) => row'.final \subseteq Seen' \cup 1 .. row'.off
                        /\ (stage # "owing" /\ ~Need) => row'.final \subseteq Sent'
    BY <1>4 DEF MessageInv
  <2>2. row.complete /\ row.proactive /\ Good /\ ~Switches(c)
    BY <1>3, <1>4, <1>5, <2>1 DEF Grows, Good
  <2>3. row'.off = row.off /\ row'.final = row.final
    BY <1>5, <2>2
  <2>4. CASE stage = "owing"
    <3>1. ~switched /\ offset = row.off /\ row.final = Answer
          /\ (mail["final"] = {} \/ row.final \subseteq Seen)
      BY <1>1, <2>2, <2>4 DEF MessageInv, WorkerInv
    <3>2. CASE Delivers(c)
      BY <1>9, <2>1, <2>2, <2>3, <2>4, <3>1, <3>2
    <3>3. CASE ~Delivers(c)
      <4>1. mail'["final"] = mail["final"]
        <5>1. CASE FillsGap(r, c)
          BY <1>1, <5>1, Queued DEF FillsGap, Keys
        <5>2. CASE Leaves \/ Ends
          BY <5>2 DEF Leaves, Ends
        <5>3. QED
          BY <2>2, <3>3, <5>1, <5>2 DEF Hands
      <4>2. Need
        BY <3>1 DEF Need
      <4>3. QED
        BY <1>8, <2>1, <2>2, <2>3, <2>4, <3>1, <4>1, <4>2
    <3>4. QED
      BY <3>2, <3>3
  <2>5. CASE stage # "owing" /\ Need
    <3>1. row.final \subseteq Seen \cup 1 .. row.off
      BY <1>1, <2>2, <2>5 DEF MessageInv
    <3>2. bubble \subseteq bubble' \/ row.final \subseteq bubble'
      BY <2>1, <2>5 DEF Keeps
    <3>3. QED
      BY <1>6, <2>3, <2>5, <3>1, <3>2
  <2>6. CASE stage # "owing" /\ ~Need
    BY <1>1, <1>6, <2>2, <2>3, <2>6 DEF MessageInv
  <2>7. QED
    BY <2>4, <2>5, <2>6
<1>13. BubbleInv'
  <2>1. SUFFICES ASSUME row'.complete, ~row'.proactive, Good'
                 PROVE  /\ mail'["final"] # {} => row'.final \subseteq Seen'
                        /\ row'.finish => row'.final \subseteq Seen' \/ FalseAck' \/ late'
    BY DEF BubbleInv
  <2>2. row.complete /\ ~row.proactive /\ Good /\ ~Switches(c) /\ ~FillsGap(r, c)
    BY <1>3, <1>4, <1>5, <2>1 DEF Grows
  <2>3. row'.final = row.final
    BY <1>5
  <2>4. mail["final"] # {} => row.final \subseteq Seen
    BY <1>1, <2>2 DEF BubbleInv
  <2>5. CASE Delivers(c)
    BY <1>9, <2>1, <2>2, <2>3, <2>4, <2>5
  <2>6. CASE ~Delivers(c)
    <3>1. ~Hands(r, c) /\ (Leaves \/ Ends)
      BY <2>2, <2>6 DEF Hands
    <3>2. mail' = mail
      BY <3>1 DEF Leaves, Ends
    <3>3. mail'["final"] # {} => row'.final \subseteq Seen'
      BY <1>8, <2>1, <2>2, <2>3, <2>4, <3>2
    <3>4. CASE row.finish
      <4>1. row.final \subseteq Seen \/ FalseAck \/ late
        BY <1>1, <2>2, <3>4 DEF BubbleInv
      <4>2. (FalseAck \/ late) => FalseAck' \/ late'
        BY <2>1, <3>1 DEF Minds
      <4>3. QED
        BY <1>8, <2>1, <2>2, <2>3, <3>3, <4>1, <4>2
    <3>5. CASE ~row.finish /\ row'.finish
      <4>1. Ends
        BY <1>5, <3>1, <3>5
      <4>2. Doubt' \/ row.final \subseteq bubble'
        BY <2>1, <2>2, <3>1, <3>5, <4>1 DEF EndsWell
      <4>3. Doubt' => FalseAck'
        BY DEF Doubt
      <4>4. QED
        BY <1>6, <2>3, <3>3, <4>2, <4>3
    <3>6. QED
      BY <3>3, <3>4, <3>5
  <2>7. QED
    BY <2>5, <2>6
<1>14. PrefixInv'
  <2>1. SUFFICES ASSUME row'.proactive, Need, Good'
                 PROVE  /\ row'.finish => Shown(1 .. row.off)' \/ Doubt' \/ Remembered'
                        /\ mail'["gap"] # {} => Shown(1 .. row.off)'
    BY <1>4 DEF PrefixInv, Shown
  <2>2. CASE Switches(c)
    <3>1. row'.off = c /\ ~row'.complete /\ mail' = mail /\ Hands(r, c)
      BY <1>5, <2>2 DEF Hands
    <3>2. CASE c <= acked'
      <4>1. {s \in 1 .. acked' : row'.proactive /\ switched' => s <= row'.off} \subseteq bubble'
        BY <1>4, <2>1, <3>1 DEF CoverInv
      <4>2. 1 .. c \subseteq bubble'
        BY <1>7, <3>1, <3>2, <4>1
      <4>3. Shown(1 .. row.off)'
        BY <1>6, <3>1, <4>2 DEF Shown
      <4>4. QED
        BY <4>3
    <3>3. CASE Doubt' /\ mail["gap"] = {}
      BY <3>1, <3>3
    <3>4. QED
      BY <2>1, <3>1, <3>2, <3>3 DEF Counts
  <2>3. CASE ~Switches(c)
    <3>1. row.proactive /\ row'.off = row.off /\ Good /\ (row.proactive => Need)
      BY <1>4, <1>5, <2>1, <2>3
    <3>2. Shown(1 .. row.off) => Shown(1 .. row.off)'
      <4>1. bubble \subseteq bubble' \/ (row.complete /\ row.final \subseteq bubble')
        BY <2>1, <3>1 DEF Keeps
      <4>2. CASE bubble \subseteq bubble'
        BY <1>5, <1>6, <3>1, <4>2 DEF Shown
      <4>3. CASE row.complete /\ row.final \subseteq bubble'
        BY <1>5, <1>6, <3>1, <4>3 DEF Shown
      <4>4. QED
        BY <4>1, <4>2, <4>3
    <3>3. mail["gap"] # {} => Shown(1 .. row.off)
      BY <1>1, <2>1, <3>1 DEF PrefixInv
    <3>4. CASE FillsGap(r, c)
      <4>1. CASE mail["gap"] # {} \/ Shown(1 .. row.off)
        BY <3>2, <3>3, <4>1
      <4>2. CASE mail["gap"] = {} /\ ~Shown(1 .. row.off)
        <5>1. r.off = row.off
          BY <2>1, <3>4, <4>2 DEF Fills
        <5>2. c <= acked'
          BY <2>1, <2>3, <3>4 DEF Counts, Hands
        <5>3. Shown(1 .. row.off)'
          BY <1>1, <1>3, <1>5, <2>1, <3>1, <3>4, <4>2, <5>1, <5>2, FillsAll
        <5>4. QED
          BY <5>3
      <4>3. QED
        BY <4>1, <4>2
    <3>5. CASE ~FillsGap(r, c)
      <4>1. mail'["gap"] = mail["gap"]
        <5>1. CASE Delivers(c)
          BY <1>1, <5>1, Queued DEF Delivers, Keys
        <5>2. CASE Leaves \/ Ends
          BY <5>2 DEF Leaves, Ends
        <5>3. QED
          BY <2>3, <3>5, <5>1, <5>2 DEF Hands
      <4>2. mail'["gap"] # {} => Shown(1 .. row.off)'
        BY <3>2, <3>3, <4>1
      <4>3. CASE row.finish
        <5>1. Shown(1 .. row.off) \/ Doubt \/ Remembered
          BY <1>1, <2>1, <3>1, <4>3 DEF PrefixInv
        <5>2. Doubt => Doubt' \/ Remembered'
          BY <2>1, <3>1, <4>3 DEF Minds
        <5>3. Remembered => Remembered'
          BY <2>1, <3>1, <3>5 DEF Minds
        <5>4. QED
          BY <3>2, <4>2, <5>1, <5>2, <5>3
      <4>4. CASE ~row.finish /\ row'.finish
        <5>1. switched /\ incremental
          BY <1>1, <2>1, <3>1, <4>4 DEF ModeInv, Need
        <5>2. ~Delivers(c)
          <6>1. Delivers(c) => misjudged'
            BY <3>1 DEF Delivers
          <6>2. QED
            BY <1>4, <2>1, <5>1, <6>1 DEF Good
        <5>3. Ends /\ ~Hands(r, c)
          BY <1>5, <2>3, <3>5, <4>4, <5>2 DEF Hands
        <5>4. \/ Doubt'
              \/ row.complete /\ row.final \subseteq bubble'
              \/ 1 .. row.off \subseteq bubble'
          BY <2>1, <3>1, <4>4, <5>3 DEF EndsWell
        <5>5. (row.complete /\ row.final \subseteq bubble') => Shown(1 .. row.off)'
          BY <1>5, <1>6 DEF Shown
        <5>6. (1 .. row.off \subseteq bubble') => Shown(1 .. row.off)'
          BY <1>6, <3>1 DEF Shown
        <5>7. QED
          BY <4>2, <5>4, <5>5, <5>6
      <4>5. QED
        BY <4>2, <4>3, <4>4
    <3>6. QED
      BY <3>4, <3>5
  <2>4. QED
    BY <2>2, <2>3
<1>15. QED
  BY <1>10, <1>11, <1>12, <1>13, <1>14 DEF PartsInv

LEMMA NoGap == Blank \in Rows /\ \A c : ~FillsGap(Blank, c)
PROOF
BY BlankRow DEF FillsGap, Blank

LEMMA AnswerParts ==
    AnswerInv => /\ BaseInv /\ TypeOK /\ ModeInv /\ FrameInv /\ CopyInv /\ LiveInv /\ WorkerInv
                 /\ CoverInv /\ PrefixInv
                 /\ acked \in 0 .. MaxText /\ 0 \in 0 .. MaxText
PROOF
BY BaseParts, StreamAssumption DEF AnswerInv, PartsInv, BaseInv

(* Neither the row nor the bubble changes. *)
LEMMA LeavesParts ==
    ASSUME AnswerInv, TypeOK', Scribe, Leaves, bubble' = bubble, acked' = acked,
           (Good' /\ (FalseAck \/ late)) => FalseAck' \/ late',
           (Good' /\ Doubt /\ row.proactive /\ row.finish) => Doubt' \/ Remembered',
           (Good' /\ Remembered) => Remembered'
    PROVE  OffsetInv' /\ PartsInv'
PROOF
<1> DEFINE r == Blank
<1>1. r \in Rows /\ 0 \in 0 .. MaxText /\ acked \in 0 .. MaxText /\ BaseInv /\ CoverInv
  BY NoGap, AnswerParts
<1>2. ~FillsGap(r, 0)
  BY NoGap
<1> HIDE DEF r
<1>3. CoverInv'
  BY <1>1, QuietCover
<1>4. Keeps
  BY DEF Keeps
<1>5. Counts(r, 0)
  BY <1>1 DEF Counts
<1>6. EndsWell(r, 0)
  <2>1. ~(Ends /\ ~row.finish)
    <3>1. Ends => row'.finish
      BY Fields DEF Ends, Finishes, BaseInv, TypeOK, AnswerInv
    <3>2. row' = row
      BY DEF Leaves
    <3>3. QED
      BY <3>1, <3>2
  <2>2. QED
    BY <2>1 DEF EndsWell
<1>7. Minds(r, 0)
  BY DEF Minds
<1>8. Fills(r, 0)
  BY <1>2 DEF Fills
<1>9. QED
  BY <1>1, <1>3, <1>4, <1>5, <1>6, <1>7, <1>8, GatewayParts

LEMMA ReadParts ==
    ASSUME AnswerInv, NEW g \in Gateway, ReadRow(g) \/ Quiet(g) \/ DrainRead \/ Succeed
    PROVE  OffsetInv' /\ PartsInv'
PROOF
<1>1. TypeOK' /\ TypeOK /\ Opener \in Gateway
  BY GatewayTypes, AnswerParts DEF GatewayStep, Act, Opener, Gateway
<1> DEFINE Untouched ==
               /\ UNCHANGED <<row, mail, misjudged, abandoned, task, workerVars, late, lateCopy>>
               /\ UNCHANGED <<bubble, live, reply, acked, known, blocked, confirmed>>
               /\ up'[Opener] = up[Opener]
           Place == row.finish => (Busy(Opener)' => \/ copy'[Opener].finish
                                                    \/ Busy(Opener) /\ copy'[Opener] = copy[Opener])
<1>2. Untouched /\ Place
  <2>1. ASSUME ReadRow(g) PROVE Untouched /\ Place
    <3>1. Untouched
      BY <2>1 DEF ReadRow, lateVars, ackVars, platformVars, flagVars
    <3>2. /\ copy'[g] = row /\ \A h \in Gateway \ {g} : pc'[h] = pc[h] /\ copy'[h] = copy[h]
      BY <1>1, <2>1 DEF ReadRow, TypeOK
    <3>3. QED
      BY <1>1, <3>1, <3>2 DEF Busy
  <2>2. ASSUME Quiet(g) PROVE Untouched /\ Place
    <3>1. Untouched
      BY <2>2 DEF Quiet, Return, lateVars, ackVars, platformVars, flagVars
    <3>2. /\ pc'[g] = "idle" /\ \A h \in Gateway \ {g} : pc'[h] = pc[h] /\ copy'[h] = copy[h]
      BY <1>1, <2>2, ReturnFacts DEF Quiet
    <3>3. QED
      BY <1>1, <3>1, <3>2 DEF Busy
  <2>3. ASSUME DrainRead PROVE Untouched /\ Place
    <3>1. Untouched
      BY <2>3 DEF DrainRead, lateVars, ackVars, platformVars, flagVars
    <3>2. row.finish => pc'[Opener] = "drained"
      BY <1>1, <2>3 DEF DrainRead, TypeOK
    <3>3. QED
      BY <3>1, <3>2 DEF Busy
  <2>4. ASSUME Succeed PROVE Untouched /\ Place
    <3>1. Untouched
      BY <1>1, <2>4 DEF Succeed, lateVars, ackVars, platformVars, flagVars, rowVars, TypeOK, Opener
    <3>2. pc' = pc /\ copy' = copy
      BY <2>4 DEF Succeed
    <3>3. QED
      BY <3>1, <3>2 DEF Busy
  <2>5. QED
    BY <2>1, <2>2, <2>3, <2>4
<1>3. Scribe /\ Leaves /\ bubble' = bubble /\ acked' = acked
  BY <1>2 DEF Scribe, Leaves
<1>4. FalseAck' = FalseAck /\ late' = late /\ Remembered' = Remembered
  BY <1>2 DEF FalseAck, Remembered
<1>5. (Doubt /\ row.finish) => Doubt'
  BY <1>2, <1>4 DEF Doubt
<1> HIDE DEF Untouched, Place
<1>6. (Good' /\ (FalseAck \/ late)) => FalseAck' \/ late'
  BY <1>4
<1>7. (Good' /\ Remembered) => Remembered'
  BY <1>4
<1>8. QED
  BY <1>1, <1>3, <1>5, <1>6, <1>7, LeavesParts

LEMMA LateParts ==
    ASSUME AnswerInv, Stop \/ LateReply \/ GatewayDies
    PROVE  OffsetInv' /\ PartsInv'
PROOF
<1>1. TypeOK' /\ TypeOK
  BY GatewayTypes, AnswerParts DEF GatewayStep
<1>2. ASSUME Scribe, Leaves, bubble' = bubble, acked' = acked, Good' => ~FalseAck /\ ~late
      PROVE  OffsetInv' /\ PartsInv'
  <2>1. Good' => ~Doubt /\ ~Remembered
    BY <1>2 DEF Doubt, Remembered
  <2>2. QED
    BY <1>1, <1>2, <2>1, LeavesParts
<1>3. CASE Stop
  <2>1. Scribe /\ Leaves /\ bubble' = bubble /\ acked' = acked
    BY <1>3 DEF Stop, Scribe, Leaves, rowVars, ackVars, flagVars
  <2>2. ~FalseAck /\ ~late
    BY <1>3 DEF Stop, FalseAck
  <2>3. QED
    BY <1>2, <2>1, <2>2
<1>4. CASE GatewayDies
  <2>1. /\ abandoned' = (abandoned \/ late \/ (reply = "dead" /\ known))
        /\ UNCHANGED <<row, mail, misjudged, task, workerVars, bubble, acked>>
    BY <1>4 DEF GatewayDies, rowVars, ackVars
  <2>2. (abandoned => abandoned') /\ (late => abandoned') /\ (FalseAck => abandoned')
    BY <2>1 DEF FalseAck
  <2>3. Scribe /\ Leaves /\ bubble' = bubble /\ acked' = acked
    BY <2>1, <2>2 DEF Scribe, Leaves
  <2>4. Good' => ~FalseAck /\ ~late
    BY <2>2 DEF Good
  <2>5. QED
    BY <1>2, <2>3, <2>4
<1>5. CASE LateReply
  <2>1. ~late /\ UNCHANGED <<row, mail, misjudged, abandoned, task, workerVars, bubble, acked>>
    BY <1>5 DEF LateReply, rowVars, flagVars
  <2>2. Scribe /\ Leaves /\ bubble' = bubble /\ acked' = acked
    BY <2>1 DEF Scribe, Leaves
  <2>3. FalseAck => late' /\ lateCopy' = row
    BY <1>5 DEF LateReply, FalseAck
  <2>4. ~Remembered
    BY <2>1 DEF Remembered
  <2>5. (Doubt /\ row.proactive) => Remembered'
    BY <2>1, <2>3 DEF Doubt, Remembered
  <2>6. QED
    BY <1>1, <2>1, <2>2, <2>3, <2>4, <2>5, LeavesParts
<1>6. QED
  BY <1>3, <1>4, <1>5

(* The offset of the copy that a gap is filled from is the row's. *)
LEMMA CopyOffset ==
    ASSUME AnswerInv, NEW r \in Rows, CopyOf(r), r.proactive, ~r.finish, Need, ~(misjudged /\ incremental)
    PROVE  r.off = row.off /\ incremental /\ switched /\ row.proactive
PROOF
BY DEF CopyOf, Need

LEMMA PassOnParts ==
    ASSUME AnswerInv, NEW g \in Gateway, PassOn(g)
    PROVE  OffsetInv' /\ PartsInv'
PROOF
<1> DEFINE r == copy[Opener]
<1>1. TypeOK' /\ TypeOK /\ BaseInv /\ CoverInv /\ FrameInv
  BY GatewayTypes, AnswerParts DEF GatewayStep, Act
<1>2. /\ blocked /\ r \in Rows /\ CopyOf(r) /\ ~r.finish /\ Hands(r, confirmed) /\ Scribe
      /\ UNCHANGED <<late, lateCopy, acked, known, blocked, bubble, reply>> /\ up' = up
  BY <1>1, PassOnFacts DEF lateVars, ackVars, platformVars, Return
<1> HIDE DEF r
<1>3. confirmed \in 0 .. MaxText /\ confirmed <= acked'
  BY <1>1, <1>2, BaseParts DEF FrameInv
<1>4. Grows
  BY <1>1, <1>2, <1>3, HandsShape, ShapeKeeps
<1>5. CoverInv'
  BY <1>1, <1>2, <1>3, QuietCover
<1>6. Keeps /\ Counts(r, confirmed) /\ EndsWell(r, confirmed)
  BY <1>2, <1>3 DEF Keeps, Counts, EndsWell
<1>7. Minds(r, confirmed)
  <2>1. FalseAck' = FalseAck /\ late' = late /\ ~Doubt
    BY <1>2 DEF FalseAck, Doubt
  <2>2. (Remembered /\ row'.off = row.off) => Remembered'
    BY <1>2 DEF Remembered
  <2>3. QED
    BY <2>1, <2>2 DEF Minds
<1>8. Fills(r, confirmed)
  BY <1>2, <1>4, CopyOffset DEF Fills, FillsGap, Good, Grows
<1>9. QED
  BY <1>1, <1>2, <1>3, <1>5, <1>6, <1>7, <1>8, GatewayParts

LEMMA TakeoverParts ==
    ASSUME AnswerInv, NEW g \in Gateway, Takeover(g)
    PROVE  OffsetInv' /\ PartsInv'
PROOF
<1> DEFINE r == Blank
<1>1. TypeOK' /\ TypeOK /\ BaseInv /\ CoverInv /\ FrameInv /\ acked \in 0 .. MaxText
  BY GatewayTypes, AnswerParts DEF GatewayStep, Act
<1>2. /\ g = 2 /\ 0 \in 0 .. MaxText /\ (Delivers(0) \/ Switches(0)) /\ Scribe /\ Return(g, "idle")
      /\ UNCHANGED <<late, lateCopy, acked, known, blocked, bubble, reply>>
  BY <1>1, TakeoverFacts DEF lateVars, ackVars, platformVars
<1>3. r \in Rows /\ ~FillsGap(r, 0)
  BY NoGap
<1> HIDE DEF r
<1>4. Hands(r, 0)
  BY <1>2 DEF Hands
<1>5. up' = up /\ pc'[Opener] = pc[Opener] /\ copy'[Opener] = copy[Opener]
  BY <1>1, <1>2, ReturnFacts DEF Opener, Gateway
<1>6. CoverInv'
  BY <1>1, <1>2, <1>3, <1>4, QuietCover
<1>7. Keeps /\ Counts(r, 0) /\ EndsWell(r, 0)
  BY <1>1, <1>2, <1>4 DEF Keeps, Counts, EndsWell
<1>8. Minds(r, 0)
  <2>1. FalseAck' = FalseAck /\ late' = late
    BY <1>2, <1>5 DEF FalseAck
  <2>2. Doubt => Doubt'
    BY <1>2, <1>5, <2>1 DEF Doubt, Busy
  <2>3. (Remembered /\ row'.off = row.off) => Remembered'
    BY <1>2 DEF Remembered
  <2>4. QED
    BY <2>1, <2>2, <2>3 DEF Minds
<1>9. Fills(r, 0)
  BY <1>3 DEF Fills
<1>10. QED
  BY <1>1, <1>2, <1>3, <1>4, <1>6, <1>7, <1>8, <1>9, GatewayParts

LEMMA NoteParts ==
    ASSUME AnswerInv, NoteStreamDead
    PROVE  OffsetInv' /\ PartsInv'
PROOF
<1> DEFINE r == lateCopy
<1>1. TypeOK' /\ TypeOK /\ BaseInv /\ CoverInv /\ FrameInv /\ ModeInv /\ PrefixInv
  BY GatewayTypes, AnswerParts DEF GatewayStep
<1>2. /\ late /\ blocked /\ r \in Rows /\ CopyOf(r) /\ Hands(r, confirmed) /\ Scribe
      /\ r.proactive => FillsGap(r, confirmed)
      /\ UNCHANGED <<acked, known, blocked, bubble, reply, up>>
  BY <1>1, NoteFacts DEF pushVars, ackVars, platformVars
<1>3. confirmed \in 0 .. MaxText /\ confirmed <= acked'
  BY <1>1, <1>2, BaseParts DEF FrameInv
<1>4. Grows
  BY <1>1, <1>2, <1>3, HandsShape, ShapeKeeps
<1>5. Minds(r, confirmed)
  <2>1. ~Doubt
    BY <1>2 DEF Doubt
  <2>2. Remembered => FillsGap(r, confirmed)
    BY <1>2 DEF Remembered
  <2>3. QED
    BY <1>2, <2>1, <2>2 DEF Minds
<1>6. Fills(r, confirmed)
  <2>1. SUFFICES ASSUME Good', Need, r.proactive, r.off # row.off PROVE Shown(1 .. row.off)
    BY DEF Fills, FillsGap
  <2>2. Good
    BY <1>2, <1>4, <2>1, GoodBefore
  <2>3. row.proactive /\ ~incremental
    BY <1>2, <2>1, <2>2 DEF CopyOf, Good
  <2>4. row.finish
    BY <1>1, <2>1, <2>3 DEF ModeInv, Need
  <2>5. ~Doubt /\ ~Remembered
    BY <1>2, <2>1 DEF Doubt, Remembered
  <2>6. QED
    BY <1>1, <2>1, <2>2, <2>3, <2>4, <2>5 DEF PrefixInv
<1> HIDE DEF r
<1>7. CoverInv'
  BY <1>1, <1>2, <1>3, QuietCover
<1>8. Keeps /\ Counts(r, confirmed) /\ EndsWell(r, confirmed)
  BY <1>2, <1>3 DEF Keeps, Counts, EndsWell
<1>9. QED
  BY <1>1, <1>2, <1>3, <1>5, <1>6, <1>7, <1>8, GatewayParts

(* A bubble that takes a frame shows no more than the frame's text. *)
LEMMA ShownBefore ==
    ASSUME AnswerInv, live, Busy(Opener)
    PROVE  /\ bubble \subseteq 1 .. copy[Opener].written
           /\ (row.proactive /\ ~row.finish) => bubble \subseteq 1 .. row.off
PROOF
<1>1. LiveInv /\ row.written \in 0 .. MaxText /\ row.off \in 0 .. MaxText
      /\ copy[Opener].written \in 0 .. MaxText
  BY AnswerParts, RowPartTypes DEF TypeOK, Opener, Gateway
<1>2. PICK n \in 0 .. row.written :
          /\ bubble = 1 .. n
          /\ Busy(Opener) => n <= copy[Opener].written
          /\ (row.proactive /\ ~row.finish) => n <= row.off
  BY <1>1 DEF LiveInv
<1>3. QED
  BY <1>1, <1>2

(* The last frame of a drain, and what it leaves open. *)
LEMMA DrainParts ==
    ASSUME AnswerInv, DrainSend
    PROVE  OffsetInv' /\ PartsInv'
PROOF
<1> DEFINE r == copy[Opener]
<1>1. TypeOK' /\ TypeOK /\ BaseInv /\ CoverInv /\ FrameInv /\ WorkerInv /\ acked \in 0 .. MaxText
      /\ Opener \in Gateway
  BY GatewayTypes, AnswerParts DEF GatewayStep, Opener, Gateway
<1>2. /\ pc[Opener] = "drain" /\ ~r.finish /\ r \in Rows /\ CopyOf(r) /\ acked <= r.written
      /\ Return(Opener, "drained") /\ late' = late /\ lateCopy' = lateCopy /\ Scribe
  BY <1>1, DrainFacts DEF lateVars
<1>3. PICK fate \in Fates, c \in Delivered : Drains(fate, r, c)
  BY <1>1, DrainFacts
<1> DEFINE segs == DrainSegs(r)
           d == IF fate[2] = "sent" THEN (IF r.complete THEN 0 ELSE r.written) ELSE c
<1>4. /\ r.written \in 0 .. MaxText /\ Transmit(fate, segs, r.written, TRUE) /\ r.written <= row.written
      /\ r.complete \in BOOLEAN /\ (r.complete => row.complete /\ r.final = row.final)
  BY <1>2, <1>3, RowPartTypes DEF Drains, CopyOf
<1>5. Busy(Opener) /\ (live => bubble \subseteq 1 .. r.written)
  BY <1>2, ShownBefore DEF Busy
<1>6. c \in 0 .. MaxText /\ c <= acked /\ d \in 0 .. MaxText
  BY <1>1, <1>4, DeliveredWritten, StreamAssumption
<1> HIDE DEF r
<1>7. /\ fate[1] => live /\ bubble' = segs
      /\ ~fate[1] => bubble' = bubble /\ acked' = acked
      /\ (fate[1] /\ fate[2] = "sent") => acked' = r.written
      /\ acked <= acked' /\ acked' <= r.written
      /\ known => known'
      /\ fate[2] = "sent" => known'
      /\ blocked => fate[2] # "sent"
      /\ (fate[2] = "sent" /\ ~fate[1]) => reply' = "dead"
      /\ reply = "dead" => reply' = "dead"
  BY <1>1, <1>2, <1>4, FrameFacts
<1>8. up' = up /\ ~Busy(Opener)' /\ up[Opener]
  BY <1>1, <1>2, ReturnFacts DEF Busy, FrameInv
<1>9. acked' \in 0 .. MaxText
  BY <1>1 DEF TypeOK
<1>10. (fate[2] = "sent" /\ ~fate[1]) => Doubt' /\ mail["gap"] = {}
  <2>1. SUFFICES ASSUME fate[2] = "sent", ~fate[1] PROVE Doubt' /\ mail["gap"] = {}
    OBVIOUS
  <2>2. ~blocked /\ blocked' = blocked
    BY <1>3, <1>7, <2>1 DEF Drains, Held
  <2>3. mail["gap"] = {}
    BY <1>1, <2>2 DEF FrameInv
  <2>4. FalseAck'
    BY <1>7, <1>8, <2>1 DEF FalseAck
  <2>5. QED
    BY <1>8, <2>2, <2>3, <2>4 DEF Doubt
<1>11. /\ (r.complete /\ fate[2] = "sent") => Ends
       /\ ~(r.complete /\ fate[2] = "sent") => Delivers(d) \/ Switches(d)
  BY <1>3 DEF Drains
<1>12. abandoned' = (abandoned \/ (fate[2] = "sent" /\ ~fate[1] /\ row.complete /\ ~r.complete))
  BY <1>3 DEF Drains
<1> HIDE DEF d
<1> DEFINE b == Blank
<1>13. b \in Rows /\ ~FillsGap(b, d)
  BY NoGap
<1> HIDE DEF b
<1>14. Leaves \/ Ends \/ Hands(b, d)
  BY <1>11 DEF Hands
<1>15. Shape
  BY <1>6, <1>13, <1>14 DEF Shape
<1>16. Grows
  BY <1>1, <1>2, <1>15, ShapeKeeps
<1>17. CoverInv'
  <2>1. CASE ~fate[1]
    BY <1>1, <1>2, <1>6, <1>7, <1>13, <1>14, <2>1, QuietCover
  <2>2. CASE fate[1]
    <3>1. SUFFICES ASSUME row'.complete => task' = "success", NEW s \in 1 .. acked'
                   PROVE  s \in segs
      BY <1>7, <2>2 DEF CoverInv
    <3>2. s \in 1 .. r.written
      BY <1>4, <1>7, <1>9
    <3>3. CASE r.complete
      <4>1. task = "success" /\ row.complete
        BY <1>2, <1>4, <1>16, <3>1, <3>3, GoodBefore DEF Grows
      <4>2. 1 .. row.written \subseteq row.final
        BY <1>1, <4>1 DEF WorkerInv
      <4>3. row.written \in 0 .. MaxText
        BY <1>1, BaseParts
      <4>4. s \in 1 .. row.written
        BY <1>4, <3>2, <4>3
      <4>5. QED
        BY <1>4, <3>3, <4>2, <4>4 DEF DrainSegs
    <3>4. QED
      BY <3>2, <3>3 DEF DrainSegs
  <2>3. QED
    BY <2>1, <2>2
<1>18. Keeps
  BY <1>4, <1>5, <1>7 DEF Keeps, DrainSegs
<1>19. Counts(b, d)
  <2>1. SUFFICES ASSUME Good', Hands(b, d)
                 PROVE  d <= acked' \/ (Switches(d) /\ Doubt' /\ mail["gap"] = {})
    BY DEF Counts
  <2>2. CASE fate[2] # "sent"
    <3>1. d = c
      BY <2>2 DEF d
    <3>2. QED
      BY <1>1, <1>6, <1>7, <1>9, <3>1
  <2>3. CASE fate[2] = "sent" /\ r.complete
    <3>1. d = 0
      BY <2>3 DEF d
    <3>2. QED
      BY <1>9, <3>1
  <2>4. CASE fate[2] = "sent" /\ ~r.complete
    <3>1. d = r.written
      BY <2>4 DEF d
    <3>2. CASE fate[1]
      BY <1>4, <1>7, <2>4, <3>1, <3>2
    <3>3. CASE ~fate[1]
      <4>1. ~row.complete
        BY <1>12, <2>1, <2>4, <3>3 DEF Good
      <4>2. Switches(d)
        BY <1>13, <2>1, <4>1 DEF Hands, Delivers
      <4>3. QED
        BY <1>10, <2>4, <3>3, <4>2
    <3>4. QED
      BY <3>2, <3>3
  <2>5. QED
    BY <2>2, <2>3, <2>4
<1>20. EndsWell(b, d)
  <2>1. SUFFICES ASSUME ~Hands(b, d) PROVE Doubt' \/ (row.complete /\ row.final \subseteq bubble')
    BY DEF EndsWell
  <2>2. r.complete /\ fate[2] = "sent"
    BY <1>11, <2>1 DEF Hands
  <2>3. QED
    BY <1>4, <1>7, <1>10, <2>2 DEF DrainSegs
<1>21. Minds(b, d)
  <2>1. FalseAck => FalseAck'
    BY <1>7, <1>8 DEF FalseAck
  <2>2. ~Doubt
    BY <1>2, <1>5 DEF Doubt, r
  <2>3. (Remembered /\ row'.off = row.off) => Remembered'
    BY <1>2 DEF Remembered
  <2>4. QED
    BY <1>2, <2>1, <2>2, <2>3 DEF Minds
<1>22. Fills(b, d)
  BY <1>13 DEF Fills
<1>23. QED
  BY <1>1, <1>2, <1>6, <1>13, <1>14, <1>17, <1>18, <1>19, <1>20, <1>21, <1>22, GatewayParts

LEMMA PushParts ==
    ASSUME AnswerInv, NEW g \in Gateway, Push(g)
    PROVE  OffsetInv' /\ PartsInv'
PROOF
<1> DEFINE r == copy[Opener]
<1>1. TypeOK' /\ TypeOK /\ BaseInv /\ CoverInv /\ FrameInv /\ WorkerInv /\ LiveInv
      /\ acked \in 0 .. MaxText /\ 0 \in 0 .. MaxText /\ Opener \in Gateway
  BY GatewayTypes, AnswerParts DEF GatewayStep, Act, Opener, Gateway
<1>2. /\ pc[Opener] = "push" /\ ~r.finish /\ ~blocked /\ r \in Rows /\ CopyOf(r) /\ acked <= r.written
      /\ Return(Opener, "idle") /\ late' = late /\ lateCopy' = lateCopy /\ Scribe
  BY <1>1, PushFacts DEF lateVars
<1>3. PICK fate \in Fates : Pushes(fate, r)
  BY <1>1, PushFacts
<1> DEFINE segs == PushSegs(r)
           fin == r.proactive \/ r.complete
<1>4. /\ r.written \in 0 .. MaxText /\ r.off \in 0 .. MaxText /\ fin \in BOOLEAN
      /\ Transmit(fate, segs, r.written, fin)
      /\ r.proactive \in BOOLEAN /\ r.complete \in BOOLEAN /\ r.written <= row.written
      /\ (r.complete => row.complete /\ r.final = row.final)
      /\ (r.proactive => row.proactive /\ r.off <= r.written /\ switched)
  BY <1>2, <1>3, RowPartTypes DEF Pushes, CopyOf
<1>5. Busy(Opener) /\ (live => bubble \subseteq 1 .. r.written)
      /\ ((live /\ row.proactive /\ ~row.finish) => bubble \subseteq 1 .. row.off)
      /\ ((live /\ r.proactive /\ row.finish) => misjudged)
  BY <1>1, <1>2, ShownBefore DEF Busy, LiveInv
<1>6. ~Doubt
  BY <1>2, <1>5 DEF Doubt
<1> HIDE DEF r
<1>7. /\ fate[1] => live /\ bubble' = segs /\ fate[2] \in {"sent", "offline"}
      /\ ~fate[1] => bubble' = bubble /\ acked' = acked
      /\ acked <= acked' /\ acked' <= r.written
      /\ known => known'
      /\ fate[2] = "sent" => known'
      /\ (fate[2] = "sent" /\ ~fate[1]) => reply' = "dead"
      /\ reply = "dead" => reply' = "dead"
  BY <1>1, <1>2, <1>4, FrameFacts
<1>8. up' = up /\ ~Busy(Opener)' /\ up[Opener]
  BY <1>1, <1>2, ReturnFacts DEF Busy, FrameInv
<1>9. acked' \in 0 .. MaxText
  BY <1>1 DEF TypeOK
<1>10. /\ fate[2] # "dead" => mail' = mail /\ blocked' = blocked
       /\ fate[2] = "dead" => confirmed' \in Delivered /\ Hands(r, confirmed')
  BY <1>1, <1>2, <1>3, PushShape
<1> DEFINE q == IF fate[2] = "dead" THEN r ELSE Blank
           c == IF fate[2] = "dead" THEN confirmed' ELSE 0
<1>11. q \in Rows /\ c \in 0 .. MaxText /\ c <= acked'
  <2>1. CASE fate[2] = "dead"
    <3>1. confirmed' \in 0 .. MaxText /\ confirmed' <= acked
      BY <1>1, <1>10, <2>1, DeliveredWritten
    <3>2. QED
      BY <1>1, <1>2, <1>7, <1>9, <2>1, <3>1
  <2>2. CASE fate[2] # "dead"
    BY <1>1, <1>9, <2>2, NoGap
  <2>3. QED
    BY <2>1, <2>2
<1>12. Leaves \/ Ends \/ Hands(q, c)
  BY <1>3, <1>10 DEF Pushes
<1>13. FillsGap(q, c) => q = r
  BY NoGap
<1>14. fate[2] = "dead" => Hands(q, c)
  BY <1>10
<1> HIDE DEF q, c
<1>15. Shape
  BY <1>11, <1>12 DEF Shape
<1>16. Grows
  BY <1>1, <1>2, <1>15, ShapeKeeps
<1>17. (Good' => Good) /\ Need' = Need /\ task' = task /\ switched' = switched /\ incremental' = incremental
       /\ row'.complete = row.complete
  BY <1>1, <1>2, <1>11, <1>12, <1>16, GoodBefore, ShapeRow
<1>18. ASSUME Good', row.proactive => Need, r.proactive
       PROVE  r.off = row.off /\ row'.off = row.off /\ incremental /\ ~misjudged' /\ ~misjudged
  <2>1. Good /\ Need
    BY <1>4, <1>17, <1>18
  <2>2. incremental /\ r.off = row.off
    BY <1>2, <1>18, <2>1, CopyOffset DEF Good
  <2>3. ~misjudged' /\ ~misjudged
    BY <1>17, <1>18, <2>1, <2>2 DEF Good
  <2>4. QED
    BY <1>4, <1>16, <1>18, <2>2, <2>3 DEF Grows
<1>19. CoverInv'
  <2>1. CASE ~fate[1]
    BY <1>1, <1>2, <1>7, <1>11, <1>12, <2>1, QuietCover
  <2>2. CASE fate[1]
    <3>1. SUFFICES ASSUME Good', row'.complete => task' = "success", row'.proactive => Need',
                          NEW s \in 1 .. acked', row'.proactive /\ switched' => s <= row'.off
                   PROVE  s \in segs
      BY <1>7, <2>2 DEF CoverInv
    <3>2. s \in 1 .. r.written /\ s \in Nat
      BY <1>4, <1>7, <1>9
    <3>3. CASE r.proactive
      <4>1. row'.proactive /\ switched'
        BY <1>4, <1>16, <1>17, <3>3 DEF Grows
      <4>2. row'.off = r.off
        BY <1>17, <1>18, <3>1, <3>3, <4>1
      <4>3. s \in 1 .. r.off
        BY <1>4, <3>1, <3>2, <4>1, <4>2
      <4>4. QED
        BY <3>2, <3>3, <4>3 DEF PushSegs, UpToOffset
    <3>4. CASE ~r.proactive /\ r.complete
      <4>1. task = "success" /\ row.complete
        BY <1>4, <1>17, <3>1, <3>4
      <4>2. 1 .. row.written \subseteq row.final
        BY <1>1, <4>1 DEF WorkerInv
      <4>3. row.written \in 0 .. MaxText
        BY <1>1, BaseParts
      <4>4. s \in 1 .. row.written
        BY <1>4, <3>2, <4>3
      <4>5. QED
        BY <1>4, <3>4, <4>2, <4>4 DEF PushSegs
    <3>5. CASE ~r.proactive /\ ~r.complete
      BY <3>2, <3>5 DEF PushSegs
    <3>6. QED
      BY <3>3, <3>4, <3>5
  <2>3. QED
    BY <2>1, <2>2
<1>20. (r.proactive => segs = 1 .. r.off) /\ ((~r.proactive /\ r.complete) => segs = r.final)
       /\ ((~r.proactive /\ ~r.complete) => segs = 1 .. r.written)
  <2>1. UpToOffset(r) = (1 .. r.off) \cap (1 .. r.written)
    BY DEF UpToOffset
  <2>2. ASSUME r.proactive PROVE UpToOffset(r) = 1 .. r.off
    <3>1. r.off <= r.written
      BY <1>4, <2>2
    <3>2. \A s \in 1 .. r.off : s \in 1 .. r.written
      BY <1>4, <3>1
    <3>3. QED
      BY <2>1, <3>2
  <2>3. QED
    BY <1>4, <2>2 DEF PushSegs
<1>21. Keeps
  <2>1. SUFFICES ASSUME Good', row.proactive => Need, fate[1]
                 PROVE  bubble \subseteq bubble' \/ (row.complete /\ row.final \subseteq bubble')
    BY <1>7 DEF Keeps
  <2>2. CASE r.proactive
    <3>1. r.off = row.off /\ ~misjudged
      BY <1>18, <2>1, <2>2
    <3>2. bubble \subseteq 1 .. row.off
      BY <1>4, <1>5, <1>7, <2>1, <2>2, <3>1
    <3>3. QED
      BY <1>7, <1>20, <2>1, <2>2, <3>1, <3>2
  <2>3. CASE ~r.proactive /\ r.complete
    BY <1>4, <1>7, <1>20, <2>1, <2>3
  <2>4. CASE ~r.proactive /\ ~r.complete
    BY <1>5, <1>7, <1>20, <2>1, <2>4
  <2>5. QED
    BY <2>2, <2>3, <2>4
<1>22. Counts(q, c)
  BY <1>11 DEF Counts
<1>23. EndsWell(q, c)
  <2>1. SUFFICES ASSUME Ends, ~Hands(q, c), ~row.finish, Good', row.proactive => Need
                 PROVE  \/ Doubt'
                        \/ row.complete /\ row.final \subseteq bubble'
                        \/ row.proactive /\ 1 .. row.off \subseteq bubble'
    BY DEF EndsWell
  <2>2. row'.finish
    BY <1>1, <2>1, Fields DEF Ends, Finishes, TypeOK
  <2>3. fate[2] = "sent" /\ fin
    <3>1. ~Leaves
      BY <2>1, <2>2 DEF Leaves
    <3>2. fate[2] # "dead"
      BY <1>14, <2>1
    <3>3. QED
      BY <1>3, <3>1, <3>2 DEF Pushes
  <2>4. CASE ~fate[1]
    <3>1. FalseAck'
      BY <1>7, <1>8, <2>3, <2>4 DEF FalseAck
    <3>2. ~blocked'
      BY <1>2, <1>10, <2>3
    <3>3. QED
      BY <1>8, <3>1, <3>2 DEF Doubt
  <2>5. CASE fate[1] /\ r.proactive
    <3>1. r.off = row.off
      BY <1>18, <2>1, <2>5
    <3>2. QED
      BY <1>4, <1>7, <1>20, <2>5, <3>1
  <2>6. CASE fate[1] /\ ~r.proactive
    BY <1>4, <1>7, <1>20, <2>3, <2>6
  <2>7. QED
    BY <2>4, <2>5, <2>6
<1>24. Minds(q, c)
  <2>1. FalseAck => FalseAck'
    BY <1>7, <1>8 DEF FalseAck
  <2>2. (Remembered /\ row'.off = row.off) => Remembered'
    BY <1>2 DEF Remembered
  <2>3. QED
    BY <1>2, <1>6, <2>1, <2>2 DEF Minds
<1>25. Fills(q, c)
  <2>1. SUFFICES ASSUME Good', Need, FillsGap(q, c) PROVE q.off = row.off
    BY DEF Fills
  <2>2. q = r /\ r.proactive
    BY <1>13, <2>1 DEF FillsGap
  <2>3. QED
    BY <1>18, <2>1, <2>2
<1>26. QED
  BY <1>1, <1>2, <1>11, <1>12, <1>19, <1>21, <1>22, <1>23, <1>24, <1>25, GatewayParts

------------------------------------------------------------------------------
(* The theorem. *)

LEMMA AnswerStutters == AnswerInv /\ UNCHANGED vars => AnswerInv'
PROOF
<1> SUFFICES ASSUME AnswerInv, UNCHANGED vars PROVE AnswerInv'
  OBVIOUS
<1> USE DEF vars, rowVars, workerVars, gatewayVars, pushVars, lateVars, ackVars, platformVars, flagVars
<1>1. BaseInv'
  BY BaseStutters DEF AnswerInv
<1>2. Good' = Good /\ Need' = Need /\ Sent' = Sent /\ Seen' = Seen
  BY DEF Good, Need, Sent, Seen
<1>3. Doubt' = Doubt /\ FalseAck' = FalseAck /\ Remembered' = Remembered
  BY DEF Doubt, FalseAck, Remembered, Busy
<1>4. Answer' = Answer
  BY DEF Answer
<1>5. Shown(1 .. row.off)' = Shown(1 .. row.off)
  BY <1>2 DEF Shown
<1>6. OffsetInv'
  BY <1>4 DEF AnswerInv, OffsetInv
<1>7. FailInv' /\ CoverInv'
  BY <1>2 DEF AnswerInv, PartsInv, FailInv, CoverInv
<1>8. PrefixInv'
  BY <1>2, <1>3, <1>5 DEF AnswerInv, PartsInv, PrefixInv
<1>9. BubbleInv' /\ MessageInv'
  BY <1>2, <1>3, <1>4 DEF AnswerInv, PartsInv, BubbleInv, MessageInv
<1>10. QED
  BY <1>1, <1>6, <1>7, <1>8, <1>9 DEF AnswerInv, PartsInv

LEMMA AnswerSteps == AnswerInv /\ [Next]_vars => AnswerInv'
PROOF
<1> SUFFICES ASSUME AnswerInv, [Next]_vars PROVE AnswerInv'
  OBVIOUS
<1>1. BaseInv'
  BY BaseSteps DEF AnswerInv
<1>2. ASSUME NEW g \in Gateway, Act(g) PROVE OffsetInv' /\ PartsInv'
  BY <1>2, ReadParts, PassOnParts, TakeoverParts, PushParts DEF Act
<1>3. ASSUME GatewayStep PROVE OffsetInv' /\ PartsInv'
  <2>1. Opener \in Gateway
    BY DEF Opener, Gateway
  <2>2. QED
    BY <1>2, <1>3, <2>1, ReadParts, DrainParts, LateParts, NoteParts DEF GatewayStep
<1>4. ASSUME ScribeStep PROVE OffsetInv' /\ PartsInv'
  BY <1>4, ScribeParts, ScribeOffsets DEF AnswerInv
<1>5. ASSUME Next PROVE OffsetInv' /\ PartsInv'
  BY <1>3, <1>4, <1>5, LateParts DEF Next, ScribeStep
<1>6. QED
  BY <1>1, <1>5, AnswerStutters DEF AnswerInv

(* In a settled state nothing is left to repair. *)
LEMMA SettledShows ==
    ASSUME AnswerInv, Settled, Good
    PROVE  row.final \subseteq Seen
PROOF
<1>1. /\ row.complete /\ row.finish /\ ~late /\ stage # "owing"
      /\ ~FalseAck
  BY DEF Settled, FalseAck
<1>2. ~Doubt /\ ~Remembered
  BY <1>1 DEF Doubt, Remembered
<1>3. PrefixInv /\ BubbleInv /\ MessageInv
  BY DEF AnswerInv, PartsInv
<1>4. CASE ~row.proactive
  BY <1>1, <1>3, <1>4 DEF BubbleInv
<1>5. CASE row.proactive /\ Need
  <2>1. Shown(1 .. row.off)
    BY <1>1, <1>2, <1>3, <1>5 DEF PrefixInv
  <2>2. row.final \subseteq Seen \cup 1 .. row.off
    BY <1>1, <1>3, <1>5 DEF MessageInv
  <2>3. QED
    BY <2>1, <2>2 DEF Shown
<1>6. CASE row.proactive /\ ~Need
  BY <1>1, <1>3, <1>6, MailSent DEF MessageInv, Sent, Seen
<1>7. QED
  BY <1>4, <1>5, <1>6

(* When the worker, the gateways and the scheduler are done with an answer, *)
(* every part of its final text is in the bubble or in a message of the     *)
(* outbox, however they interleaved and whoever died, unless the worker     *)
(* died owing the text, or a gateway gave up as its own a stream that was   *)
(* proactive already.                                                       *)
THEOREM AnswersArrive == Spec => []AnswerArrives
PROOF
<1>1. AnswerInv => AnswerArrives
  BY SettledShows DEF AnswerArrives, Good, Lost
<1>2. QED
  BY <1>1, InitAnswer, AnswerSteps, PTL DEF Spec

------------------------------------------------------------------------------
(* Nothing is sent twice while nothing goes wrong. *)

Calm == faults = 0 /\ ~slow /\ incremental /\ ~misjudged /\ ~up[2]

(* The platform takes every frame up to the last one, nobody dies, and no   *)
(* message of a repair is queued.                                          *)
Smooth ==
    /\ reply = "none" /\ ~blocked /\ ~late /\ ~abandoned
    /\ stage # "dead" /\ task # "lost" /\ pc[2] = "idle"
    /\ live <=> ~row.finish
    /\ (Busy(Opener) /\ ~copy[Opener].finish) => live
    /\ \A k \in {"gap", "lost", "recovery"} : mail[k] = {}
    /\ (row.complete /\ task = "failure") => row.final = {Mark}

(* Progress messages lie between the row's offset and the worker's. *)
Ahead ==
    /\ mail["progress"] # {} => row.proactive /\ switched /\ stage # "switching"
    /\ mail["progress"] \subseteq (row.off + 1) .. offset
    /\ (switched /\ stage \in {"run", "ended", "told"}) => row.off <= offset
    /\ stage = "owing" => offset = row.off

(* The final message has what neither these nor the bubble have. *)
Apart ==
    /\ mail["final"] \cap mail["progress"] = {}
    /\ row.proactive => \A s \in mail["final"] : s > row.off
    /\ (row.complete /\ ~row.proactive /\ ~row.finish) => mail["final"] = {}
    /\ ~row.proactive => bubble \cap mail["final"] = {}
    /\ row.proactive => \/ bubble \subseteq 1 .. row.off
                        \/ pc[Opener] = "drained" /\ row.complete /\ bubble = row.final

CalmInv == Calm => Smooth /\ Ahead /\ Apart

LEMMA InitCalm == Init => CalmInv
PROOF
<1> SUFFICES ASSUME Init PROVE CalmInv
  OBVIOUS
<1>1. /\ ~row.complete /\ ~row.proactive /\ ~row.finish
      /\ stage = "run" /\ task = "active" /\ switched = FALSE /\ abandoned = FALSE
      /\ \A k \in Keys : mail[k] = {}
  BY DEF Init, Blank
<1>2. /\ pc[Opener] = "idle" /\ pc[2] = "idle"
      /\ late = FALSE /\ blocked = FALSE /\ reply = "none" /\ live = TRUE /\ bubble = {}
  BY DEF Init, Opener, Gateway
<1>3. QED
  BY <1>1, <1>2 DEF CalmInv, Smooth, Ahead, Apart, Busy, Keys

(* The messages of a worker that lives are in two of the keys. *)
LEMMA FinalQueued ==
    ASSUME TypeOK, NEW S, Queue("final", S)
    PROVE  /\ mail'["final"] = (IF mail["final"] = {} THEN S ELSE mail["final"])
           /\ \A l \in {"gap", "lost", "recovery", "progress"} : mail'[l] = mail[l]
PROOF
BY Queued DEF Keys

LEMMA WorkerSmooth ==
    ASSUME BaseInv, Smooth, WorkerStep
    PROVE  Smooth'
PROOF
<1> USE DEF rowVars, flagVars, otherVars
<1>1. TypeOK /\ WorkerInv
  BY DEF BaseInv
<1>2. UNCHANGED gatewayVars /\ row'.finish = row.finish
  BY ScribeFrame DEF ScribeStep
<1>3. ~row.complete \/ stage \notin {"run", "switching", "ended", "told"}
  BY <1>1 DEF Smooth, WorkerInv
<1> DEFINE Done ==
           /\ stage' # "dead" /\ task' # "lost" /\ ~abandoned'
           /\ \A k \in {"gap", "lost", "recovery"} : mail'[k] = mail[k]
           /\ (row'.complete /\ task' = "failure") => row'.final = {Mark}
<1>4. ASSUME Produce \/ Adopt PROVE Done
  BY <1>4 DEF Produce, Adopt, Smooth
<1>5. ASSUME Flush \/ SwitchFlush PROVE Done
  BY <1>1, <1>5, FlushedRow DEF Flush, SwitchFlush, Smooth
<1>6. ASSUME SwitchWrite PROVE Done
  <2>1. stage = "switching" /\ stage' = "run" /\ task' = task /\ mail' = mail
        /\ abandoned' = (abandoned \/ row.complete)
    BY <1>6 DEF SwitchWrite
  <2>2. row'.complete = row.complete
    BY <1>1, <1>6, SwitchedRow
  <2>3. QED
    BY <1>3, <2>1, <2>2 DEF Smooth
<1>7. ASSUME PushProgress PROVE Done
  <2>1. \A k \in {"gap", "lost", "recovery"} : mail'[k] = mail[k]
    BY <1>1, <1>7, ProgressQueued DEF PushProgress, Keys
  <2>2. QED
    BY <1>7, <2>1 DEF PushProgress, Smooth
<1>8. ASSUME EndTask PROVE Done
  BY <1>3, <1>8 DEF EndTask, Smooth
<1>9. ASSUME Tell \/ PushFinal PROVE Done
  <2>1. \A k \in {"gap", "lost", "recovery"} : mail'[k] = mail[k]
    BY <1>1, <1>9, FinalQueued DEF Tell, PushFinal
  <2>2. row' = row /\ task' = task /\ abandoned' = abandoned /\ stage' \in {"told", "done"}
    BY <1>9 DEF Tell, PushFinal
  <2>3. QED
    BY <2>1, <2>2 DEF Smooth
<1>10. ASSUME Complete PROVE Done
  <2>1. row'.final = Answer
    BY <1>1, <1>10, CompletedRow
  <2>2. task' = task /\ mail' = mail /\ abandoned' = abandoned /\ stage' \in {"owing", "done"}
    BY <1>10 DEF Complete
  <2>3. QED
    BY <2>1, <2>2 DEF Smooth, Answer
<1>11. Done
  BY <1>4, <1>5, <1>6, <1>7, <1>8, <1>9, <1>10 DEF WorkerStep
<1>12. UNCHANGED <<reply, blocked, late, pc, copy, live>>
  BY <1>2 DEF gatewayVars, pushVars, lateVars, ackVars, platformVars
<1>13. QED
  BY <1>2, <1>11, <1>12 DEF Smooth, Busy

(* What the final message of the worker leaves out. *)
LEMMA RestAhead ==
    ASSUME TypeOK, task \in {"success", "failure"}, NEW s \in Rest(FALSE)
    PROVE  s > offset /\ s \in Nat
PROOF
<1>1. offset \in 0 .. MaxText /\ text \in 0 .. MaxText /\ MaxText \in Nat
  BY StreamAssumption DEF TypeOK
<1>2. CASE task = "success"
  BY <1>1, <1>2 DEF Rest, Answer, Mark
<1>3. CASE task = "failure"
  <2>1. s = Mark
    BY <1>3 DEF Rest, Answer
  <2>2. QED
    BY <1>1, <2>1 DEF Mark
<1>4. QED
  BY <1>2, <1>3

LEMMA WorkerAhead ==
    ASSUME BaseInv, Calm, Smooth, Ahead, Apart, WorkerStep
    PROVE  Ahead' /\ Apart'
PROOF
<1> USE DEF rowVars, flagVars, otherVars
<1>1. TypeOK /\ WorkerInv /\ ModeInv /\ LiveInv
  BY DEF BaseInv
<1>2. /\ row.off \in 0 .. MaxText /\ row.written \in 0 .. MaxText /\ offset \in 0 .. MaxText
      /\ text \in 0 .. MaxText
  BY <1>1, RowPartTypes DEF TypeOK
<1>3. /\ UNCHANGED <<bubble, live, pc>> /\ row'.finish = row.finish
  BY ScribeFrame DEF ScribeStep, gatewayVars, pushVars, platformVars
<1>4. ~row.complete \/ stage \notin {"run", "switching", "ended", "told"}
  BY <1>1 DEF Smooth, WorkerInv
<1>5. (~row.complete /\ stage \notin {"told", "dead"}) => mail["final"] = {}
  BY <1>1 DEF WorkerInv
<1> DEFINE Kept == /\ row'.proactive = row.proactive /\ row'.off = row.off
                   /\ row'.complete = row.complete /\ row'.final = row.final
<1>6. ASSUME Kept, mail' = mail PROVE Apart'
  BY <1>3, <1>6 DEF Apart
<1>7. ASSUME Produce PROVE Ahead' /\ Apart'
  <2>1. Kept /\ mail' = mail /\ UNCHANGED <<stage, switched, offset>>
    BY <1>7 DEF Produce
  <2>2. QED
    BY <1>6, <2>1 DEF Ahead
<1>8. ASSUME Flush PROVE Ahead' /\ Apart'
  <2>1. Kept /\ mail' = mail /\ UNCHANGED <<stage, switched, offset>>
    BY <1>1, <1>8, FlushedRow DEF Flush
  <2>2. QED
    BY <1>6, <2>1 DEF Ahead
<1>9. ASSUME Adopt PROVE Ahead' /\ Apart'
  <2>1. Kept /\ mail' = mail /\ stage' = stage /\ stage = "run" /\ ~switched
        /\ heard.proactive /\ offset' = heard.off
    BY <1>9 DEF Adopt
  <2>2. offset' = row.off
    BY <1>1, <2>1 DEF ModeInv, Calm
  <2>3. mail["progress"] = {}
    BY <2>1 DEF Ahead
  <2>4. QED
    BY <1>2, <1>6, <2>1, <2>2, <2>3 DEF Ahead
<1>10. ASSUME SwitchFlush PROVE Ahead' /\ Apart'
  <2>1. Kept /\ mail' = mail /\ stage' = "switching" /\ offset' = offset /\ ~switched
    BY <1>1, <1>10, FlushedRow DEF SwitchFlush
  <2>2. mail["progress"] = {}
    BY <2>1 DEF Ahead
  <2>3. QED
    BY <1>6, <2>1, <2>2 DEF Ahead
<1>11. ASSUME SwitchWrite PROVE Ahead' /\ Apart'
  <2>1. mail' = mail /\ stage' = "run" /\ switched' = switched /\ stage = "switching"
    BY <1>11 DEF SwitchWrite
  <2>2. /\ row'.proactive /\ row'.off = (IF row.proactive THEN row.off ELSE text)
        /\ row'.complete = row.complete /\ row'.final = row.final /\ offset' = row'.off
    BY <1>1, <1>11, SwitchedRow
  <2>3. ~row.complete /\ mail["progress"] = {} /\ mail["final"] = {} /\ row.written = text
    BY <1>1, <1>4, <1>5, <2>1 DEF Ahead, ModeInv
  <2>4. Ahead'
    BY <1>2, <2>1, <2>2, <2>3 DEF Ahead
  <2>5. bubble \subseteq 1 .. row'.off
    <3>1. CASE row.proactive
      BY <2>2, <2>3, <3>1 DEF Apart
    <3>2. CASE ~row.proactive
      <4>1. ~row.finish
        BY <1>1, <2>3, <3>2 DEF ModeInv
      <4>2. PICK n \in 0 .. row.written : bubble = 1 .. n
        BY <1>1, <4>1 DEF Smooth, LiveInv
      <4>3. \A s \in 1 .. n : s \in 1 .. text
        BY <1>2, <2>3
      <4>4. QED
        BY <2>2, <3>2, <4>2, <4>3
    <3>3. QED
      BY <3>1, <3>2
  <2>6. Apart'
    BY <1>3, <2>1, <2>2, <2>3, <2>5 DEF Apart
  <2>7. QED
    BY <2>4, <2>6
<1>12. ASSUME PushProgress PROVE Ahead' /\ Apart'
  <2>1. PICK e \in (offset + 1) .. text :
           /\ mail' = [mail EXCEPT !["progress"] = @ \cup ((offset + 1) .. e)] /\ offset' = e
    BY <1>12 DEF PushProgress
  <2>2. /\ stage = "run" /\ switched /\ stage' = stage /\ switched' = switched
        /\ row' = row
    BY <1>12 DEF PushProgress
  <2>3. /\ mail'["progress"] = mail["progress"] \cup ((offset + 1) .. e)
        /\ mail'["final"] = mail["final"]
    BY <1>1, <2>1, ProgressQueued DEF Keys
  <2>4. row.proactive /\ ~row.complete /\ row.off <= offset /\ mail["final"] = {}
    BY <1>1, <1>4, <1>5, <2>2 DEF ModeInv, Ahead
  <2>5. mail'["progress"] \subseteq (row.off + 1) .. e
    <3>1. \A s \in (row.off + 1) .. offset : s \in (row.off + 1) .. e
      BY <1>2, <2>1
    <3>2. \A s \in (offset + 1) .. e : s \in (row.off + 1) .. e
      BY <1>2, <2>1, <2>4
    <3>3. QED
      BY <2>3, <3>1, <3>2 DEF Ahead
  <2>6. row.off <= e
    BY <1>2, <2>1, <2>4
  <2>7. Ahead'
    BY <2>1, <2>2, <2>4, <2>5, <2>6 DEF Ahead
  <2>8. Apart'
    BY <1>3, <2>2, <2>3, <2>4 DEF Apart
  <2>9. QED
    BY <2>7, <2>8
<1>13. ASSUME EndTask PROVE Ahead' /\ Apart'
  <2>1. Kept /\ mail' = mail /\ switched' = switched /\ offset' = offset
        /\ stage = "run" /\ stage' \in {"ended", "done"}
    BY <1>13 DEF EndTask
  <2>2. QED
    BY <1>6, <2>1 DEF Ahead
<1>14. ASSUME Tell \/ PushFinal PROVE Ahead' /\ Apart'
  <2>1. /\ row' = row /\ offset' = offset /\ switched' = switched
        /\ Queue("final", Rest(FALSE))
    BY <1>14 DEF Tell, PushFinal, Calm
  <2>2. /\ stage = "ended" => switched /\ stage' = "told"
        /\ stage = "owing" => stage' = "done"
        /\ stage \in {"ended", "owing"}
    BY <1>14 DEF Tell, PushFinal
  <2>3. row.proactive /\ row.off <= offset /\ task \in {"success", "failure"}
    BY <1>1, <1>2, <2>2 DEF ModeInv, WorkerInv, Ahead
  <2>4. /\ mail'["final"] = (IF mail["final"] = {} THEN Rest(FALSE) ELSE mail["final"])
        /\ mail'["progress"] = mail["progress"]
    BY <1>1, <2>1, FinalQueued
  <2>5. \A s \in Rest(FALSE) : s > offset /\ s > row.off /\ s \notin (row.off + 1) .. offset
    <3>1. SUFFICES ASSUME NEW s \in Rest(FALSE)
                   PROVE  s > offset /\ s > row.off /\ s \notin (row.off + 1) .. offset
      OBVIOUS
    <3>2. s > offset /\ s \in Nat
      BY <1>1, <2>3, RestAhead
    <3>3. QED
      BY <1>2, <2>3, <3>2
  <2>6. Ahead'
    BY <2>1, <2>2, <2>3, <2>4 DEF Ahead
  <2>7. mail'["final"] \cap mail'["progress"] = {}
    BY <2>4, <2>5 DEF Ahead, Apart
  <2>8. \A s \in mail'["final"] : s > row.off
    BY <2>3, <2>4, <2>5 DEF Apart
  <2>9. QED
    BY <1>3, <2>1, <2>3, <2>6, <2>7, <2>8 DEF Apart
<1>15. ASSUME Complete PROVE Ahead' /\ Apart'
  <2>1. /\ mail' = mail /\ switched' = switched /\ stage \in {"ended", "told"}
        /\ IF ~switched /\ row.proactive
           THEN stage' = "owing" /\ offset' = row.off
           ELSE stage' = "done" /\ offset' = offset
    BY <1>15 DEF Complete
  <2>2. /\ row'.proactive = row.proactive /\ row'.off = row.off /\ row'.complete
    BY <1>1, <1>15, CompletedRow
  <2>3. ~row.complete /\ (~row.proactive => mail["final"] = {})
    BY <1>1, <1>4, <2>1 DEF WorkerInv
  <2>4. Ahead'
    BY <2>1, <2>2 DEF Ahead
  <2>5. Apart'
    BY <1>3, <2>1, <2>2, <2>3 DEF Apart
  <2>6. QED
    BY <2>4, <2>5
<1>16. QED
  BY <1>7, <1>8, <1>9, <1>10, <1>11, <1>12, <1>13, <1>14, <1>15 DEF WorkerStep

(* A step into a calm state starts in one. *)
LEMMA ScribeCalm ==
    ASSUME BaseInv, CalmInv, ScribeStep, Calm'
    PROVE  Calm /\ Smooth /\ Ahead /\ Apart /\ WorkerStep
PROOF
<1> USE DEF rowVars, workerVars, flagVars, otherVars
<1>1. UNCHANGED gatewayVars /\ misjudged' = misjudged /\ incremental' = incremental
  BY ScribeFrame, WorkerGrows DEF ScribeStep, Grows
<1>2. up' = up /\ slow' = slow
  BY <1>1 DEF gatewayVars, pushVars, platformVars
<1>3. faults \in Nat /\ faults' = 0
  BY StreamAssumption DEF BaseInv, TypeOK, Calm
<1>4. ASSUME Fault PROVE FALSE
  BY <1>3, <1>4 DEF Fault
<1>5. faults' = faults /\ ~WorkerDies /\ (ReapLost => stage = "dead")
  <2>1. ASSUME WorkerStep PROVE faults' = faults
    BY <2>1 DEF WorkerStep, Produce, Flush, Adopt, SwitchFlush, SwitchWrite, PushProgress, EndTask,
                Tell, Complete, PushFinal
  <2>2. ASSUME ReapLost PROVE faults' = faults /\ stage = "dead"
    BY <1>4, <2>2 DEF ReapLost
  <2>3. ASSUME Recover PROVE faults' = faults
    BY <2>3 DEF Recover
  <2>4. ~WorkerDies
    BY <1>4 DEF WorkerDies
  <2>5. QED
    BY <2>1, <2>2, <2>3, <2>4 DEF ScribeStep
<1>6. Calm
  BY <1>1, <1>2, <1>5 DEF Calm
<1>7. Smooth /\ Ahead /\ Apart
  BY <1>6 DEF CalmInv
<1>8. stage # "dead"
  BY <1>7 DEF Smooth
<1>9. QED
  BY <1>5, <1>6, <1>7, <1>8 DEF ScribeStep, Recover

(* While all goes well a frame is shown and acknowledged. *)
LEMMA CalmFrame ==
    ASSUME TypeOK, NEW fate \in Fates, NEW segs, NEW len, NEW finish \in BOOLEAN,
           Transmit(fate, segs, len, finish), reply = "none", live, faults' = 0, ~slow'
    PROVE  /\ fate[1] /\ fate[2] = "sent" /\ bubble' = segs /\ reply' = "none"
           /\ live' = ~finish /\ faults = 0 /\ ~slow
PROOF
<1>1. fate[4] = FALSE
  <2>1. faults \in Nat /\ fate[4] \in BOOLEAN
    BY StreamAssumption, FateFacts DEF TypeOK
  <2>2. QED
    BY <2>1 DEF Transmit, Fault
<1>2. fate[3] = "none"
  BY DEF Transmit
<1>3. \/ fate = <<TRUE, "sent", "none", FALSE>> \/ fate = <<TRUE, "offline", "ok", FALSE>>
      \/ fate = <<FALSE, "retry", "none", TRUE>> \/ fate = <<FALSE, "dead", "none", TRUE>>
      \/ fate = <<FALSE, "offline", "none", TRUE>> \/ fate = <<FALSE, "offline", "dead", TRUE>>
  BY DEF Fates
<1>4. fate[1] = TRUE /\ fate[2] = "sent" /\ fate[3] = "none" /\ fate[4] = FALSE
  <2>1. CASE fate = <<TRUE, "sent", "none", FALSE>>
    BY <2>1
  <2>2. ASSUME fate = <<TRUE, "offline", "ok", FALSE>> PROVE FALSE
    BY <1>2, <2>2
  <2>3. ASSUME fate = <<FALSE, "retry", "none", TRUE>> PROVE FALSE
    BY <1>1, <2>3
  <2>4. ASSUME fate = <<FALSE, "dead", "none", TRUE>> PROVE FALSE
    BY <1>1, <2>4
  <2>5. ASSUME fate = <<FALSE, "offline", "none", TRUE>> PROVE FALSE
    BY <1>1, <2>5
  <2>6. ASSUME fate = <<FALSE, "offline", "dead", TRUE>> PROVE FALSE
    BY <1>1, <2>6
  <2>7. QED
    BY <1>3, <2>1, <2>2, <2>3, <2>4, <2>5, <2>6
<1>5. live \in BOOLEAN /\ slow \in BOOLEAN
  BY DEF TypeOK
<1>6. faults' = faults /\ slow' = (slow \/ fate[3] # "none") /\ bubble' = segs /\ reply' = fate[3]
      /\ live' = (live /\ "dead" \notin {fate[2], fate[3]} /\ ~(fate[1] /\ finish))
  BY <1>4 DEF Transmit
<1>7. live' = ~finish
  BY <1>4, <1>6
<1>8. QED
  BY <1>2, <1>4, <1>6, <1>7

(* What stays of an earlier calm state. *)
LEMMA FrameCalm ==
    ASSUME TypeOK, NEW fate \in Fates, NEW segs, NEW len, NEW finish, Transmit(fate, segs, len, finish),
           UNCHANGED <<up, incremental>>, misjudged => misjudged', Calm'
    PROVE  Calm
PROOF
<1>1. faults \in Nat /\ faults' = 0
  BY StreamAssumption DEF TypeOK, Calm
<1>2. faults' = faults \/ faults' = faults + 1
  BY DEF Transmit, Fault
<1>3. slow => slow'
  BY DEF Transmit
<1>4. QED
  BY <1>1, <1>2, <1>3 DEF Calm

LEMMA PushCalm ==
    ASSUME BaseInv, CalmInv, NEW g \in Gateway, Push(g), Calm'
    PROVE  Smooth' /\ Ahead' /\ Apart'
PROOF
<1> DEFINE r == copy[Opener]
<1>1. TypeOK /\ FrameInv /\ WorkerInv /\ Opener \in Gateway /\ 2 \in Gateway /\ 2 # Opener
  BY DEF BaseInv, Opener, Gateway
<1>2. /\ pc[Opener] = "push" /\ ~r.finish /\ ~blocked /\ r \in Rows /\ CopyOf(r) /\ acked <= r.written
      /\ Return(Opener, "idle") /\ late' = late /\ Scribe /\ abandoned' = abandoned
  BY PushFacts DEF lateVars
<1>3. PICK fate \in Fates : Pushes(fate, r)
  BY PushFacts
<1> DEFINE fin == r.proactive \/ r.complete
<1>4. /\ r.written \in 0 .. MaxText /\ r.off \in 0 .. MaxText /\ fin \in BOOLEAN
      /\ Transmit(fate, PushSegs(r), r.written, fin)
      /\ r.proactive \in BOOLEAN /\ r.complete \in BOOLEAN
  BY <1>2, <1>3, RowPartTypes DEF Pushes
<1>5. Shape
  BY <1>2, <1>3, PushShape
<1>6. Grows
  BY <1>2, <1>5, ShapeKeeps
<1>7. /\ pc'[Opener] = "idle" /\ up' = up /\ pc'[2] = pc[2]
  BY <1>1, <1>2, ReturnFacts
<1>8. Calm
  BY <1>1, <1>4, <1>6, <1>7, FrameCalm DEF Grows
<1>9. Smooth /\ Ahead /\ Apart
  BY <1>8 DEF CalmInv
<1>10. live /\ ~row.finish
  BY <1>2, <1>9 DEF Smooth, Busy
<1>11. fate[1] /\ fate[2] = "sent" /\ bubble' = PushSegs(r) /\ reply' = "none" /\ live' = ~fin
  BY <1>1, <1>4, <1>9, <1>10, CalmFrame DEF Calm, Smooth
<1> DEFINE Same == UNCHANGED <<task, stage, switched, offset>>
           Kept == /\ row'.proactive = row.proactive /\ row'.off = row.off
                   /\ row'.complete = row.complete /\ row'.final = row.final
<1>12. Same /\ Held /\ mail' = mail /\ Kept /\ row'.finish = fin
  <2>1. Held /\ IF fin THEN Ends ELSE Leaves
    BY <1>3, <1>11 DEF Pushes
  <2>2. Same
    BY <1>2 DEF Scribe, workerVars
  <2>3. CASE fin
    <3>1. row' = [row EXCEPT !.finish = TRUE] /\ mail' = mail /\ row \in Rows
      BY <1>1, <2>1, <2>3 DEF Ends, Finishes, TypeOK
    <3>2. Kept /\ row'.finish
      BY <3>1, Fields
    <3>3. row'.finish = fin
      BY <1>1, <1>4, <2>3, <3>1 DEF Rows
    <3>4. QED
      BY <2>1, <2>2, <3>1, <3>2, <3>3
  <2>4. CASE ~fin
    <3>1. row' = row /\ mail' = mail
      BY <2>1, <2>4 DEF Leaves
    <3>2. row.finish = FALSE
      BY <1>1, <1>10, RowPartTypes DEF TypeOK
    <3>3. QED
      BY <1>4, <2>1, <2>2, <2>4, <3>1, <3>2
  <2>5. QED
    BY <1>4, <2>3, <2>4
<1> HIDE DEF r
<1>13. Smooth'
  BY <1>2, <1>7, <1>9, <1>11, <1>12 DEF Smooth, Held, Busy
<1>14. Ahead'
  BY <1>9, <1>12 DEF Ahead
<1>15. row.proactive => bubble' \subseteq 1 .. row.off
  <2>1. SUFFICES ASSUME row.proactive PROVE PushSegs(r) \subseteq 1 .. row.off
    BY <1>11
  <2>2. CASE r.proactive
    <3>1. r.off = row.off
      BY <1>2, <1>8, <2>2 DEF CopyOf, Calm
    <3>2. QED
      BY <2>2, <3>1 DEF PushSegs, UpToOffset
  <2>3. ~r.proactive => ~r.complete /\ r.written <= row.off
    BY <1>2, <1>9, <1>10, <2>1 DEF CopyOf, Smooth
  <2>4. CASE ~r.proactive
    <3>1. row.off \in 0 .. MaxText
      BY <1>1, RowPartTypes DEF TypeOK
    <3>2. \A s \in 1 .. r.written : s \in 1 .. row.off
      BY <1>4, <2>3, <2>4, <3>1
    <3>3. QED
      BY <2>3, <2>4, <3>2 DEF PushSegs
  <2>5. QED
    BY <2>2, <2>4
<1>16. ~row.proactive => mail["final"] = {}
  BY <1>1, <1>9, <1>10 DEF WorkerInv, Apart
<1>17. Apart'
  BY <1>9, <1>10, <1>12, <1>15, <1>16 DEF Apart
<1>18. QED
  BY <1>13, <1>14, <1>17

LEMMA DrainCalm ==
    ASSUME BaseInv, CalmInv, DrainSend, Calm'
    PROVE  Smooth' /\ Ahead' /\ Apart'
PROOF
<1> DEFINE r == copy[Opener]
<1>1. TypeOK /\ FrameInv /\ WorkerInv /\ ModeInv /\ Opener \in Gateway /\ 2 \in Gateway /\ 2 # Opener
  BY DEF BaseInv, Opener, Gateway
<1>2. /\ pc[Opener] = "drain" /\ ~r.finish /\ r \in Rows /\ CopyOf(r) /\ acked <= r.written
      /\ Return(Opener, "drained") /\ late' = late /\ Scribe
  BY DrainFacts DEF lateVars
<1>3. PICK fate \in Fates, c \in Delivered : Drains(fate, r, c)
  BY DrainFacts
<1>4. /\ r.written \in 0 .. MaxText /\ Transmit(fate, DrainSegs(r), r.written, TRUE)
      /\ r.complete \in BOOLEAN /\ (r.complete => row.complete /\ r.final = row.final)
  BY <1>2, <1>3, RowPartTypes DEF Drains, CopyOf
<1>5. Shape
  BY <1>2, <1>3, <1>4, DrainShape
<1>6. Grows
  BY <1>2, <1>5, ShapeKeeps
<1>7. /\ pc'[Opener] = "drained" /\ up' = up /\ pc'[2] = pc[2]
  BY <1>1, <1>2, ReturnFacts
<1>8. Calm
  BY <1>1, <1>4, <1>6, <1>7, FrameCalm DEF Grows
<1>9. Smooth /\ Ahead /\ Apart
  BY <1>8 DEF CalmInv
<1>10. live /\ ~row.finish
  BY <1>2, <1>9 DEF Smooth, Busy
<1>11. fate[1] /\ fate[2] = "sent" /\ bubble' = DrainSegs(r) /\ reply' = "none" /\ live' = FALSE
  BY <1>1, <1>4, <1>9, <1>10, CalmFrame DEF Calm, Smooth
<1>12. /\ UNCHANGED <<task, stage, switched, offset>> /\ Held /\ ~abandoned'
       /\ (r.complete => Ends) /\ (~r.complete => Delivers(r.written) \/ Switches(r.written))
  BY <1>2, <1>3, <1>9, <1>11 DEF Drains, Scribe, workerVars, Smooth
<1> HIDE DEF r
<1>13. ~row.proactive => mail["final"] = {} /\ mail["progress"] = {}
  BY <1>1, <1>9, <1>10 DEF WorkerInv, Apart, Ahead
<1>14. ~Busy(Opener)' /\ (~blocked /\ ~late)'
  BY <1>2, <1>7, <1>9, <1>12 DEF Busy, Smooth, Held
<1> DEFINE Kept == /\ row'.proactive = row.proactive /\ row'.off = row.off
                   /\ row'.complete = row.complete /\ row'.final = row.final /\ row'.finish
<1>15. Finishes => Kept
  BY <1>1, Fields DEF Finishes, TypeOK
<1>16. CASE r.complete
  <2>1. Kept /\ mail' = mail
    BY <1>12, <1>15, <1>16 DEF Ends
  <2>2. Smooth'
    BY <1>7, <1>9, <1>11, <1>12, <1>14, <2>1 DEF Smooth
  <2>3. Ahead'
    BY <1>9, <1>12, <2>1 DEF Ahead
  <2>4. row'.complete /\ bubble' = row'.final
    BY <1>4, <1>11, <1>16, <2>1 DEF DrainSegs
  <2>5. Apart'
    BY <1>7, <1>9, <1>13, <2>1, <2>4 DEF Apart
  <2>6. QED
    BY <2>2, <2>3, <2>5
<1>17. CASE Delivers(r.written) /\ ~r.complete
  <2>1. row.complete /\ Kept /\ ~row.proactive
        /\ Queue("final", {s \in row.final : task = "success" => s > r.written})
    BY <1>15, <1>17 DEF Delivers, Calm
  <2>2. /\ mail'["final"] = {s \in row.final : task = "success" => s > r.written}
        /\ \A l \in {"gap", "lost", "recovery", "progress"} : mail'[l] = mail[l]
    BY <1>1, <1>13, <2>1, FinalQueued
  <2>3. Smooth'
    BY <1>7, <1>9, <1>11, <1>12, <1>14, <2>1, <2>2 DEF Smooth
  <2>4. Ahead'
    BY <1>9, <1>12, <2>1, <2>2 DEF Ahead
  <2>5. bubble' \cap mail'["final"] = {}
    <3>1. bubble' = 1 .. r.written
      BY <1>11, <1>17 DEF DrainSegs
    <3>2. CASE task = "success"
      BY <1>4, <2>2, <3>1, <3>2
    <3>3. CASE task = "failure"
      <4>1. row.final = {Mark}
        BY <1>9, <2>1, <3>3 DEF Smooth
      <4>2. Mark \notin 1 .. r.written
        BY <1>4, StreamAssumption DEF Mark
      <4>3. QED
        BY <2>2, <3>1, <4>1, <4>2
    <3>4. task \in {"success", "failure"}
      BY <1>1, <1>9, <2>1 DEF TypeOK, Verdicts, WorkerInv, Smooth
    <3>5. QED
      BY <3>2, <3>3, <3>4
  <2>6. Apart'
    BY <1>13, <2>1, <2>2, <2>5 DEF Apart
  <2>7. QED
    BY <2>3, <2>4, <2>6
<1>18. CASE Switches(r.written) /\ ~r.complete
  <2>1. ~row.complete /\ mail' = mail /\ ~row.proactive
    BY <1>18 DEF Switches, Calm
  <2>2. row'.proactive /\ row'.off = r.written /\ row'.finish /\ row'.complete = row.complete
    BY <1>1, <1>18, Fields DEF Switches, TypeOK
  <2>3. Smooth'
    BY <1>7, <1>9, <1>11, <1>12, <1>14, <2>1, <2>2 DEF Smooth
  <2>4. stage # "owing" /\ ~(switched /\ stage \in {"run", "ended", "told"})
    BY <1>1, <1>9, <2>1 DEF WorkerInv, ModeInv, Smooth
  <2>5. Ahead'
    BY <1>12, <1>13, <2>1, <2>4 DEF Ahead
  <2>6. bubble' = 1 .. row'.off
    BY <1>11, <1>18, <2>2 DEF DrainSegs
  <2>7. Apart'
    BY <1>13, <2>1, <2>2, <2>6 DEF Apart
  <2>8. QED
    BY <2>3, <2>5, <2>7
<1>19. QED
  BY <1>12, <1>16, <1>17, <1>18

(* Steps that show and queue nothing. *)
LEMMA ReadCalm ==
    ASSUME BaseInv, CalmInv, NEW g \in Gateway,
           ReadRow(g) \/ Quiet(g) \/ DrainRead \/ Stop \/ UNCHANGED vars, Calm'
    PROVE  Smooth' /\ Ahead' /\ Apart'
PROOF
<1>1. TypeOK /\ Opener \in Gateway /\ 2 \in Gateway /\ 2 # Opener
  BY DEF BaseInv, Opener, Gateway
<1> USE DEF vars, rowVars, workerVars, gatewayVars, pushVars, lateVars, ackVars, platformVars, flagVars
<1> DEFINE Untouched ==
               /\ UNCHANGED <<row, mail, misjudged, abandoned, task, workerVars, late, blocked>>
               /\ UNCHANGED <<bubble, live, slow, faults>> /\ (reply' = reply \/ reply' = "none")
               /\ up'[2] = up[2]
           Place ==
               /\ pc'[2] = pc[2] \/ up[2] \/ pc[2] = "push"
               /\ pc[Opener] = "drained" => pc'[Opener] = "drained"
               /\ Busy(Opener)' => \/ copy'[Opener] = row
                                   \/ Busy(Opener) /\ copy'[Opener] = copy[Opener]
<1>2. Untouched /\ Place
  <2>1. ASSUME ReadRow(g) PROVE Untouched /\ Place
    <3>1. Untouched
      BY <2>1 DEF ReadRow
    <3>2. /\ copy'[g] = row /\ pc[g] = "idle" /\ up[g]
          /\ \A h \in Gateway \ {g} : pc'[h] = pc[h] /\ copy'[h] = copy[h]
      BY <1>1, <2>1 DEF ReadRow, TypeOK
    <3>3. QED
      BY <1>1, <3>1, <3>2 DEF Busy
  <2>2. ASSUME Quiet(g) PROVE Untouched /\ Place
    <3>1. Untouched
      BY <2>2 DEF Quiet, Return
    <3>2. /\ pc[g] = "push" /\ pc'[g] = "idle"
          /\ \A h \in Gateway \ {g} : pc'[h] = pc[h] /\ copy'[h] = copy[h]
      BY <1>1, <2>2, ReturnFacts DEF Quiet
    <3>3. QED
      BY <1>1, <3>1, <3>2 DEF Busy
  <2>3. ASSUME DrainRead PROVE Untouched /\ Place
    <3>1. Untouched
      BY <2>3 DEF DrainRead
    <3>2. pc[Opener] = "idle" /\ pc'[2] = pc[2] /\ (copy'[Opener] = row \/ pc'[Opener] = "drained")
      BY <1>1, <2>3 DEF DrainRead, TypeOK
    <3>3. QED
      BY <3>1, <3>2 DEF Busy
  <2>4. ASSUME Stop PROVE Untouched /\ Place
    <3>1. Untouched
      BY <1>1, <2>4 DEF Stop, TypeOK
    <3>2. pc' = pc /\ copy' = copy
      BY <2>4 DEF Stop
    <3>3. QED
      BY <3>1, <3>2 DEF Busy
  <2>5. ASSUME UNCHANGED vars PROVE Untouched /\ Place
    BY <2>5 DEF Busy
  <2>6. QED
    BY <2>1, <2>2, <2>3, <2>4, <2>5
<1>3. Calm
  BY <1>2 DEF Calm
<1>4. Smooth /\ Ahead /\ Apart
  BY <1>3 DEF CalmInv
<1>5. Smooth'
  <2>1. pc'[2] = "idle"
    BY <1>2, <1>3, <1>4 DEF Smooth, Calm
  <2>2. (Busy(Opener)' /\ ~copy'[Opener].finish) => live
    BY <1>2, <1>4 DEF Smooth
  <2>3. QED
    BY <1>2, <1>4, <2>1, <2>2 DEF Smooth
<1>6. Ahead' /\ Apart'
  BY <1>2, <1>4 DEF Ahead, Apart
<1>7. QED
  BY <1>5, <1>6

(* Steps that repair something, or that a second gateway takes. *)
LEMMA RepairCalm ==
    ASSUME BaseInv, CalmInv, Calm', NEW g \in Gateway,
           PassOn(g) \/ Takeover(g) \/ Succeed \/ LateReply \/ NoteStreamDead \/ GatewayDies
    PROVE  FALSE
PROOF
<1> USE DEF lateVars, ackVars, platformVars, workerVars, pushVars, flagVars, rowVars
<1>1. TypeOK /\ 2 \in Gateway
  BY DEF BaseInv, Gateway
<1>2. ASSUME UNCHANGED <<slow, incremental, faults>>, up'[2] = up[2], misjudged => misjudged'
      PROVE  Smooth
  BY <1>2 DEF Calm, CalmInv
<1>3. ASSUME NEW h, NEW r, NEW c, HandOff(h, r, c) \/ ToProactive(c)
      PROVE  misjudged => misjudged'
  BY <1>3 DEF HandOff, ToProactive, DeliverFinal
<1>4. ASSUME PassOn(g) PROVE FALSE
  <2>1. /\ blocked /\ HandOff(g, copy[g], confirmed) /\ up' = up
        /\ UNCHANGED <<slow, incremental, faults>>
    BY <1>4 DEF PassOn, Return
  <2>2. Smooth
    BY <1>2, <1>3, <2>1
  <2>3. QED
    BY <2>1, <2>2 DEF Smooth
<1>5. ASSUME Takeover(g) PROVE FALSE
  <2>1. /\ pc[g] = "push" /\ g # Opener /\ ToProactive(0) /\ up' = up
        /\ UNCHANGED <<slow, incremental, faults>>
    BY <1>5 DEF Takeover, Return
  <2>2. Smooth
    BY <1>2, <1>3, <2>1
  <2>3. QED
    BY <2>1, <2>2 DEF Smooth, Gateway, Opener
<1>6. ASSUME Succeed PROVE FALSE
  <2>1. up'[2] = TRUE
    BY <1>1, <1>6 DEF Succeed, TypeOK
  <2>2. QED
    BY <2>1 DEF Calm
<1>7. ASSUME LateReply PROVE FALSE
  <2>1. reply # "none" /\ UNCHANGED <<slow, incremental, faults, misjudged, up>>
    BY <1>7 DEF LateReply
  <2>2. Smooth
    BY <1>2, <2>1
  <2>3. QED
    BY <2>1, <2>2 DEF Smooth
<1>8. ASSUME NoteStreamDead PROVE FALSE
  <2>1. /\ late /\ UNCHANGED <<slow, incremental, faults, up>>
        /\ HandOff(Opener, lateCopy, confirmed) \/ misjudged' = misjudged
    BY <1>8 DEF NoteStreamDead
  <2>2. Smooth
    BY <1>2, <1>3, <2>1
  <2>3. QED
    BY <2>1, <2>2 DEF Smooth
<1>9. ASSUME GatewayDies PROVE FALSE
  <2>1. faults \in Nat /\ faults' = faults + 1
    BY <1>1, <1>9, StreamAssumption DEF GatewayDies, Fault, TypeOK
  <2>2. QED
    BY <2>1 DEF Calm
<1>10. QED
  BY <1>4, <1>5, <1>6, <1>7, <1>8, <1>9

LEMMA StepCalm == BaseInv /\ CalmInv /\ [Next]_vars => CalmInv'
PROOF
<1> SUFFICES ASSUME BaseInv, CalmInv, [Next]_vars, Calm'
             PROVE  Smooth' /\ Ahead' /\ Apart'
  BY DEF CalmInv
<1>1. Opener \in Gateway
  BY DEF Opener, Gateway
<1>2. ASSUME ScribeStep PROVE Smooth' /\ Ahead' /\ Apart'
  BY <1>2, ScribeCalm, WorkerSmooth, WorkerAhead
<1>3. ASSUME NEW g \in Gateway, ReadRow(g) \/ Act(g) PROVE Smooth' /\ Ahead' /\ Apart'
  BY <1>3, ReadCalm, PushCalm, RepairCalm DEF Act
<1>4. ASSUME DrainRead \/ DrainSend \/ Stop PROVE Smooth' /\ Ahead' /\ Apart'
  BY <1>1, <1>4, ReadCalm, DrainCalm
<1>5. ASSUME UNCHANGED vars PROVE Smooth' /\ Ahead' /\ Apart'
  BY <1>1, <1>5, ReadCalm
<1>6. ~(Succeed \/ LateReply \/ NoteStreamDead \/ GatewayDies)
  BY <1>1, RepairCalm
<1>7. QED
  BY <1>2, <1>3, <1>4, <1>5, <1>6 DEF Next, GatewayStep, ScribeStep

(* Two messages of a calm state share nothing, and none of them has what    *)
(* the bubble shows.                                                       *)
LEMMA CalmApart ==
    ASSUME BaseInv, Calm, Smooth, Ahead, Apart
    PROVE  /\ \A k, l \in Keys : k # l => mail[k] \cap mail[l] = {}
           /\ \/ \A k \in Keys : bubble \cap mail[k] = {}
              \/ pc[Opener] = "drained" /\ bubble = row.final
PROOF
<1>1. \A k \in Keys \ {"final", "progress"} : mail[k] = {}
  BY DEF Smooth, Keys
<1>2. \A k, l \in Keys : k # l => mail[k] \cap mail[l] = {}
  BY <1>1 DEF Apart
<1>3. ASSUME bubble \cap mail["final"] = {}, bubble \cap mail["progress"] = {}
      PROVE  \A k \in Keys : bubble \cap mail[k] = {}
  BY <1>1, <1>3
<1>4. CASE ~row.proactive
  BY <1>2, <1>3, <1>4 DEF Ahead, Apart
<1>5. CASE row.proactive /\ bubble \subseteq 1 .. row.off
  <2>1. row.off \in 0 .. MaxText /\ offset \in 0 .. MaxText
    BY RowPartTypes DEF BaseInv, TypeOK
  <2>2. \A s \in mail["progress"] : s > row.off
    BY <2>1 DEF Ahead
  <2>3. \A s \in mail["final"] : s > row.off
    BY <1>5 DEF Apart
  <2>4. \A s \in 1 .. row.off : ~(s > row.off)
    BY <2>1
  <2>5. bubble \cap mail["final"] = {} /\ bubble \cap mail["progress"] = {}
    BY <1>5, <2>2, <2>3, <2>4
  <2>6. QED
    BY <1>2, <1>3, <2>5
<1>6. CASE row.proactive /\ ~(bubble \subseteq 1 .. row.off)
  BY <1>2, <1>6 DEF Apart
<1>7. QED
  BY <1>4, <1>5, <1>6

(* Without faults, late replies and a second gateway no part of the answer  *)
(* is queued twice and none that the bubble shows is queued, at whatever    *)
(* point the worker or a drain makes the stream proactive.                  *)
THEOREM NothingIsTwice == Spec => []NothingTwice
PROOF
<1>1. BaseInv /\ CalmInv => NothingTwice
  BY CalmApart DEF CalmInv, NothingTwice, Calm
<1>2. Spec => []BaseInv
  BY InitBase, BaseSteps, PTL DEF Spec
<1>3. Spec => []CalmInv
  BY InitCalm, StepCalm, <1>2, PTL DEF Spec
<1>4. QED
  BY <1>1, <1>2, <1>3, PTL
==============================================================================
