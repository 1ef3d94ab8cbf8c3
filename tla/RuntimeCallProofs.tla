--------------------------- MODULE RuntimeCallProofs ---------------------------
(***************************************************************************)
(* Proofs about RuntimeCall, for any calls, plans and limits, whatever     *)
(* requests and answers are lost or doubled and whoever dies.              *)
(*                                                                         *)
(* One argument follows the row: its status only moves forward, a command  *)
(* is handed out by the move from queued to running alone, and frames are  *)
(* stored only while the row is running (CallInv).  The second counts      *)
(* places: what is at work, offered to the platform and given by it never  *)
(* exceeds the node's limit (LimitInv).  The third follows the answer:     *)
(* every post on its way holds frames as they were produced (FrameInv),    *)
(* what is stored is all the data up to a number, with no end before the   *)
(* last of them (RowInv), and what a reader has is that less what waits,   *)
(* which comes after it (ReadInv).                                         *)
(***************************************************************************)
EXTENDS RuntimeCall, FiniteSetTheorems, SequenceTheorems, TLAPS

(* The rows are records with a status, the poll one with commands. *)
Shape ==
    /\ DOMAIN row = Calls /\ \A c \in Calls : "status" \in DOMAIN row[c]
    /\ DOMAIN chunks = Calls
    /\ caller \in [Calls -> Stages]
    /\ starts \in [Calls -> Nat]
    /\ poll.commands \subseteq Calls /\ "commands" \in DOMAIN poll

(* A call has a row once it was inserted, and no answer before that. *)
NotYet ==
    \A c \in Calls :
        /\ caller[c] \in {"new", "checked"} => row[c].status = "none"
        /\ row[c].status = "none" => chunks[c] = {}

(* What was closed has ended. *)
ClosedIsOver == \A c \in Calls : caller[c] = "closed" => ~Live(c) /\ chunks[c] = {}

(* A call is handed out once: to a poll that has not been received, or to  *)
(* an execution.                                                           *)
HandedOutOnce ==
    \A c \in Calls :
        /\ starts[c] <= 1
        /\ row[c].status \in {"none", "queued"} => starts[c] = 0 /\ c \notin poll.commands
        /\ c \in poll.commands => starts[c] = 0

CallInv == Shape /\ NotYet /\ ClosedIsOver /\ HandedOutOnce

(* How the status of a row moves. *)
Move(c) ==
    \/ row'[c].status = row[c].status
    \/ /\ row[c].status = "none" /\ row'[c].status = "queued"
       /\ caller[c] = "checked" /\ caller'[c] = "queued"
    \/ row[c].status = "queued" /\ row'[c].status = "running"
    \/ Live(c) /\ row'[c].status \in Terminal
    \/ row[c].status # "none" /\ row'[c].status = "deleted"

(* The rows keep their shape, and every status moves forward. *)
RowsMove ==
    /\ DOMAIN row' = Calls /\ \A c \in Calls : "status" \in DOMAIN row'[c]
    /\ \A c \in Calls : Move(c)

------------------------------------------------------------------------------
LEMMA InitCall == Init => CallInv
PROOF
BY DEF Init, CallInv, Shape, NotYet, ClosedIsOver, HandedOutOnce, NoRow, NoPoll, Stages, Live

(* A status that is set on some of the rows. *)
LEMMA EndedMoves ==
    ASSUME Shape, NEW S, NEW s \in Terminal
    PROVE  /\ DOMAIN Ended(S, s) = Calls
           /\ \A c \in Calls :
                /\ "status" \in DOMAIN Ended(S, s)[c]
                /\ Ended(S, s)[c].status = IF c \in S /\ Live(c) THEN s ELSE row[c].status
PROOF
<1>1. DOMAIN Ended(S, s) = Calls
  BY DEF Ended
<1>2. ASSUME NEW c \in Calls
      PROVE  /\ "status" \in DOMAIN Ended(S, s)[c]
             /\ Ended(S, s)[c].status = IF c \in S /\ Live(c) THEN s ELSE row[c].status
  BY DEF Ended, Shape
<1>3. QED
  BY <1>1, <1>2

LEMMA ClaimMoves ==
    ASSUME Shape, NEW S, \A c \in S : row[c].status = "queued"
    PROVE  /\ DOMAIN Claim(S) = Calls
           /\ \A c \in Calls :
                /\ "status" \in DOMAIN Claim(S)[c]
                /\ Claim(S)[c].status = IF c \in S THEN "running" ELSE row[c].status
PROOF
<1>1. DOMAIN Claim(S) = Calls
  BY DEF Claim
<1>2. ASSUME NEW c \in Calls
      PROVE  /\ "status" \in DOMAIN Claim(S)[c]
             /\ Claim(S)[c].status = IF c \in S THEN "running" ELSE row[c].status
  BY DEF Claim, Shape
<1>3. QED
  BY <1>1, <1>2

(* The caller's steps on the row. *)
LEMMA CallerMoves ==
    ASSUME NEW c \in Calls, CallInv, CallerStep(c) \/ ClockStep(c)
    PROVE  RowsMove
PROOF
<1> USE DEF CallInv, Shape, RowsMove, Move, rowVars
<1>1. CASE row' = row
  BY <1>1
<1>2. CASE Insert(c)
  <2>1. /\ row' = [row EXCEPT ![c] = [NoRow EXCEPT !.status = "queued", !.fresh = TRUE]]
        /\ caller[c] = "checked" /\ caller' = [caller EXCEPT ![c] = "queued"]
    BY <1>2 DEF Insert
  <2>2. row'[c].status = "queued" /\ "status" \in DOMAIN row'[c]
    BY <2>1 DEF NoRow
  <2>3. \A d \in Calls \ {c} : row'[d] = row[d]
    BY <2>1
  <2>4. DOMAIN row' = Calls
    BY <2>1
  <2>5. row[c].status = "none" /\ caller'[c] = "queued"
    BY <2>1 DEF NotYet
  <2>6. QED
    BY <2>1, <2>2, <2>3, <2>4, <2>5
<1>3. CASE \E b : row' = [row EXCEPT ![c].fresh = b]
  BY <1>3
<1>4. CASE row' = [row EXCEPT ![c].overdue = TRUE]
  BY <1>4
<1>5. CASE row' = Ended({c}, "cancelled")
  BY <1>5, EndedMoves DEF Terminal
<1>6. QED
  <2>1. CASE Await(c) \/ LeaseLapses(c) \/ ReadRow(c)
    BY <1>1, <1>3, <2>1 DEF Await, LeaseLapses, ReadRow
  <2>2. CASE Check(c) \/ GiveUp(c) \/ ReadChunks(c) \/ CloseMark(c)
    BY <1>1, <2>2 DEF Check, GiveUp, ReadChunks, CloseMark
  <2>3. CASE CloseSweep(c) \/ DeadlinePasses(c)
    BY <1>4, <1>5, <2>3 DEF CloseSweep, DeadlinePasses
  <2>4. QED
    BY <1>2, <2>1, <2>2, <2>3 DEF CallerStep, ClockStep

(* Frames are stored for a running call, and their last ends it. *)
LEMMA StoreMoves ==
    ASSUME NEW c \in Calls, CallInv, NEW p, Store(c, p)
    PROVE  /\ RowsMove
           /\ \/ UNCHANGED chunks
              \/ /\ row[c].status = "running" /\ DOMAIN chunks' = Calls
                 /\ \A d \in Calls \ {c} : chunks'[d] = chunks[d]
PROOF
<1> USE DEF CallInv, Shape, RowsMove, Move
<1>1. CASE Answer(c, p) = "stored" /\ Fresh(c, p) # {}
  <2>1. ~Refused(c, p)
    BY <1>1 DEF Answer
  <2>2. row[c].status = "running"
    BY <1>1, <2>1 DEF Refused
  <2>3. PICK n, h, s :
            /\ s \in {"done", "failed", row[c].status}
            /\ row' = [row EXCEPT ![c].next = n, ![c].head = h, ![c].status = s]
    <3> DEFINE last == p.items[Len(p.items)]
               end == CASE last = "done" -> "done"
                        [] last = "error" -> "failed"
                        [] OTHER -> row[c].status
    <3>1. row' = [row EXCEPT ![c].next = Last(c, p),
                             ![c].head = @ \/ (p.from = 0 /\ p.items[1] = "head"),
                             ![c].status = end]
      BY <1>1 DEF Store
    <3>2. end \in {"done", "failed", row[c].status}
      OBVIOUS
    <3> HIDE DEF end
    <3>3. QED
      BY <3>1, <3>2
  <2>4. DOMAIN row' = Calls /\ \A d \in Calls \ {c} : row'[d] = row[d]
    BY <2>3
  <2>5. row'[c].status = s /\ "status" \in DOMAIN row'[c]
    BY <2>3
  <2>6. DOMAIN chunks' = Calls /\ \A d \in Calls \ {c} : chunks'[d] = chunks[d]
    BY <1>1 DEF Store
  <2>7. RowsMove
    <3>1. Move(c)
      BY <2>2, <2>3, <2>5 DEF Live, Terminal
    <3>2. \A d \in Calls \ {c} : Move(d) /\ "status" \in DOMAIN row'[d]
      BY <2>4
    <3>3. QED
      BY <2>4, <2>5, <3>1, <3>2
  <2>8. QED
    BY <2>2, <2>6, <2>7
<1>2. CASE UNCHANGED rowVars
  BY <1>2 DEF rowVars
<1>3. QED
  BY <1>1, <1>2 DEF Store

(* The platform ends, hands out and deletes rows. *)
LEMMA PlatformMoves ==
    ASSUME CallInv,
           \/ Collect \/ Heartbeat \/ PollSend \/ HandBack
           \/ \E c \in Calls : GhostClaims(c)
    PROVE  RowsMove
PROOF
<1> USE DEF CallInv, Terminal
<1>1. CASE Collect
  <2>1. PICK S \in SUBSET {c \in Calls : Claimable(c)} : row' = Claim(S)
    BY <1>1 DEF Collect
  <2>2. QED
    BY <2>1, ClaimMoves DEF Claimable, RowsMove, Move
<1>2. ASSUME NEW c \in Calls, GhostClaims(c) PROVE RowsMove
  BY <1>2, ClaimMoves DEF GhostClaims, Claimable, RowsMove, Move
<1>3. CASE Heartbeat
  <2> DEFINE expired == {c \in Calls : Exists(c) /\ row[c].overdue}
             stale == {c \in Calls : Live(c) /\ Stale(c)}
  <2>1. row' = [c \in Calls |->
            IF c \in expired THEN [NoRow EXCEPT !.status = "deleted"] ELSE Ended(stale, "cancelled")[c]]
    BY <1>3 DEF Heartbeat
  <2>2. ASSUME NEW c \in Calls PROVE "status" \in DOMAIN row'[c] /\ Move(c)
    <3>1. CASE c \in expired
      <4>1. row'[c] = [NoRow EXCEPT !.status = "deleted"]
        BY <2>1, <3>1
      <4>2. row'[c].status = "deleted" /\ "status" \in DOMAIN row'[c]
        BY <4>1 DEF NoRow
      <4>3. row[c].status # "none"
        BY <3>1 DEF Exists
      <4>4. QED
        BY <4>2, <4>3 DEF Move
    <3>2. CASE c \notin expired
      <4>1. row'[c] = Ended(stale, "cancelled")[c]
        BY <2>1, <3>2
      <4>2. QED
        BY <4>1, EndedMoves DEF Move
    <3>3. QED
      BY <3>1, <3>2
  <2>3. QED
    BY <2>1, <2>2 DEF RowsMove
<1>4. CASE PollSend
  <2>1. PICK stale \in SUBSET Calls :
            row' = [c \in Calls |-> IF c \in stale THEN Ended(stale, "cancelled")[c]
                                                   ELSE Ended(abandoned, "failed")[c]]
    <3> DEFINE S == {c \in Tracked \ asked : Stale(c)} \ abandoned
    <3>1. row' = [c \in Calls |-> IF c \in S THEN Ended(S, "cancelled")[c]
                                             ELSE Ended(abandoned, "failed")[c]]
      BY <1>4 DEF PollSend
    <3>2. row' = [c \in Calls |-> IF c \in S \cap Calls THEN Ended(S \cap Calls, "cancelled")[c]
                                                        ELSE Ended(abandoned, "failed")[c]]
      BY <3>1 DEF Ended
    <3>3. QED
      BY <3>2
  <2>2. \A c \in Calls : "status" \in DOMAIN row'[c] /\ Move(c)
    BY <2>1, EndedMoves DEF Move
  <2>3. QED
    BY <2>1, <2>2 DEF RowsMove
<1>5. CASE HandBack
  BY <1>5, EndedMoves DEF HandBack, RowsMove, Move
<1>6. QED
  BY <1>1, <1>2, <1>3, <1>4, <1>5

------------------------------------------------------------------------------
(* What a step has to keep when it starts no execution. *)
LEMMA Inherit ==
    ASSUME CallInv, RowsMove,
           DOMAIN chunks' = Calls, caller' \in [Calls -> Stages], starts' = starts,
           poll'.commands \subseteq Calls, "commands" \in DOMAIN poll',
           \A c \in Calls : caller'[c] \in {"new", "checked"} => caller[c] \in {"new", "checked"},
           \A c \in Calls : caller'[c] = "closed" =>
                caller[c] = "closed" \/ (~Live(c)' /\ chunks'[c] = {}),
           \A c \in Calls : row[c].status # "running" => chunks'[c] \subseteq chunks[c],
           \A c \in poll'.commands :
                c \in poll.commands \/ (row[c].status = "queued" /\ row'[c].status = "running")
    PROVE  CallInv'
PROOF
<1>1. Shape'
  BY DEF CallInv, Shape, RowsMove
<1>2. NotYet'
  BY DEF CallInv, NotYet, RowsMove, Move, Live, Terminal
<1>3. ClosedIsOver'
  <2> SUFFICES ASSUME NEW c \in Calls, caller'[c] = "closed"
               PROVE  ~Live(c)' /\ chunks'[c] = {}
    BY DEF ClosedIsOver
  <2>1. CASE caller[c] = "closed"
    <3>1. ~Live(c) /\ chunks[c] = {}
      BY <2>1 DEF CallInv, ClosedIsOver
    <3>2. chunks'[c] = {}
      BY <3>1 DEF Live
    <3>3. ~Live(c)'
      BY <2>1, <3>1 DEF RowsMove, Move, Live, Terminal
    <3>4. QED
      BY <3>2, <3>3
  <2>2. QED
    BY <2>1
<1>4. HandedOutOnce'
  BY DEF CallInv, HandedOutOnce, RowsMove, Move, Live, Terminal
<1>5. QED
  BY <1>1, <1>2, <1>3, <1>4 DEF CallInv

LEMMA CallerKeeps ==
    ASSUME NEW c \in Calls, CallInv, CallerStep(c) \/ ClockStep(c) \/ CallerDies(c)
    PROVE  CallInv'
PROOF
<1>1. RowsMove
  <2>1. CASE CallerDies(c)
    BY <2>1 DEF CallerDies, rowVars, CallInv, Shape, RowsMove, Move
  <2>2. QED
    BY <2>1, CallerMoves
<1>2. starts' = starts /\ poll' = poll
  BY DEF CallerStep, ClockStep, Check, Insert, Await, GiveUp, ReadRow, ReadChunks, CloseMark, CloseSweep,
         CallerDies, LeaseLapses, DeadlinePasses, daemonVars, pollVars
<1>3. DOMAIN chunks' = Calls /\ \A d \in Calls : chunks'[d] \subseteq chunks[d]
  <2>1. CASE ReadChunks(c)
    BY <2>1 DEF ReadChunks, CallInv, Shape
  <2>2. CASE CloseSweep(c)
    BY <2>2 DEF CloseSweep, CallInv, Shape
  <2>3. CASE UNCHANGED chunks
    BY <2>3 DEF CallInv, Shape
  <2>4. QED
    BY <2>1, <2>2, <2>3
       DEF CallerStep, ClockStep, Check, Insert, Await, GiveUp, ReadRow, CloseMark,
           CallerDies, LeaseLapses, DeadlinePasses, rowVars
<1>4. /\ caller' \in [Calls -> Stages]
      /\ \A d \in Calls \ {c} : caller'[d] = caller[d]
      /\ caller'[c] \in {"new", "checked"} => caller[c] \in {"new", "checked"}
      /\ caller'[c] = "closed" => caller[c] \in {"new", "sweep", "closed"}
  <2>1. caller \in [Calls -> Stages]
    BY DEF CallInv, Shape
  <2>2. PICK s \in Stages :
            /\ caller' = [caller EXCEPT ![c] = s]
            /\ s \in {"new", "checked"} => caller[c] \in {"new", "checked"}
            /\ s = "closed" => caller[c] \in {"new", "sweep", "closed"}
    <3>1. CASE caller' = caller
      BY <2>1, <3>1
    <3>2. CASE Check(c) \/ Insert(c) \/ Await(c) \/ GiveUp(c)
      BY <3>1, <3>2 DEF Check, Insert, Await, GiveUp, Leave, Stages
    <3>3. CASE ReadRow(c) \/ ReadChunks(c) \/ CloseMark(c) \/ CloseSweep(c) \/ CallerDies(c)
      BY <3>1, <3>3 DEF ReadRow, ReadChunks, CloseMark, CloseSweep, CallerDies, Leave, Stages
    <3>4. CASE ClockStep(c)
      BY <3>1, <3>4 DEF ClockStep, LeaseLapses, DeadlinePasses, callerVars
    <3>5. QED
      BY <3>2, <3>3, <3>4 DEF CallerStep
  <2>3. QED
    BY <2>1, <2>2
<1>5. caller'[c] = "closed" /\ caller[c] # "closed" => ~Live(c)' /\ chunks'[c] = {}
  <2> SUFFICES ASSUME caller'[c] = "closed", caller[c] # "closed" PROVE ~Live(c)' /\ chunks'[c] = {}
    OBVIOUS
  <2>1. CASE caller[c] = "new"
    <3>1. row[c].status = "none" /\ chunks[c] = {}
      BY <2>1 DEF CallInv, NotYet
    <3>2. row' = row
      BY <2>1 DEF CallerStep, ClockStep, Check, Insert, Await, GiveUp, ReadRow, ReadChunks, CloseMark,
                  CloseSweep, CallerDies, LeaseLapses, DeadlinePasses, rowVars, Active, Exists, CallInv, NotYet
    <3>3. QED
      BY <1>3, <3>1, <3>2 DEF Live
  <2>2. CASE caller[c] = "sweep"
    <3>1. CloseSweep(c)
      BY <2>2 DEF CallerStep, ClockStep, Check, Insert, Await, GiveUp, ReadRow, ReadChunks, CloseMark,
                  CallerDies, LeaseLapses, DeadlinePasses, callerVars, CallInv, Shape
    <3>2. row' = Ended({c}, "cancelled") /\ chunks' = [chunks EXCEPT ![c] = {}]
      BY <3>1 DEF CloseSweep
    <3>3. QED
      BY <3>2, EndedMoves DEF CallInv, Shape, Live, Terminal
  <2>3. QED
    BY <1>4, <2>1, <2>2
<1>6. QED
  BY <1>1, <1>2, <1>3, <1>4, <1>5, Inherit DEF CallInv, Shape

(* Commands are those of the rows that were queued. *)
LEMMA PlatformKeeps ==
    ASSUME CallInv,
           \/ Collect \/ Heartbeat \/ PollSend \/ HandBack
           \/ \E c \in Calls : GhostClaims(c)
    PROVE  CallInv'
PROOF
<1>1. RowsMove
  BY PlatformMoves
<1>2. starts' = starts /\ caller' = caller
  BY DEF Collect, Heartbeat, PollSend, HandBack, GhostClaims, daemonVars, callerVars
<1>3. DOMAIN chunks' = Calls /\ \A d \in Calls : chunks'[d] \subseteq chunks[d]
  <2>1. CASE Heartbeat
    BY <2>1 DEF Heartbeat
  <2>2. CASE UNCHANGED chunks
    BY <2>2 DEF CallInv, Shape
  <2>3. QED
    BY <2>1, <2>2 DEF Collect, PollSend, HandBack, GhostClaims
<1>4. /\ poll'.commands \subseteq Calls /\ "commands" \in DOMAIN poll'
      /\ \A c \in poll'.commands :
            c \in poll.commands \/ (row[c].status = "queued" /\ row'[c].status = "running")
  <2>1. CASE Collect
    <3>1. PICK S \in SUBSET {c \in Calls : Claimable(c)} :
            /\ row' = Claim(S)
            /\ poll' = [poll EXCEPT !.stage = "answered", !.commands = S, !.cancelled = Over(poll.running)]
      BY <2>1 DEF Collect
    <3>2. poll'.commands = S /\ "commands" \in DOMAIN poll'
      BY <3>1 DEF CallInv, Shape
    <3>3. QED
      BY <3>1, <3>2, ClaimMoves DEF Claimable, CallInv
  <2>2. CASE PollSend
    BY <2>2 DEF PollSend, NoPoll
  <2>3. CASE poll' = poll
    BY <2>3 DEF CallInv, Shape
  <2>4. QED
    BY <2>1, <2>2, <2>3 DEF Heartbeat, HandBack, GhostClaims, pollVars
<1>5. QED
  BY <1>1, <1>2, <1>3, <1>4, Inherit DEF CallInv, Shape

LEMMA FramesKeep ==
    ASSUME NEW c \in Calls, CallInv,
           JobStep(c) \/ LosePost(c)
    PROVE  CallInv'
PROOF
<1>1. starts' = starts /\ caller' = caller /\ poll' = poll
  BY DEF JobStep, Produce, Flush, HandleFrames, Resend, RetryEnds, JobStops, LosePost,
         daemonVars, callerVars, pollVars
<1>2. /\ RowsMove
      /\ \/ UNCHANGED chunks
         \/ /\ row[c].status = "running" /\ DOMAIN chunks' = Calls
            /\ \A d \in Calls \ {c} : chunks'[d] = chunks[d]
  <2>1. CASE HandleFrames(c)
    BY <2>1, StoreMoves DEF HandleFrames
  <2>2. CASE UNCHANGED rowVars
    BY <2>2 DEF rowVars, CallInv, Shape, RowsMove, Move
  <2>3. QED
    BY <2>1, <2>2 DEF JobStep, Produce, Flush, Resend, RetryEnds, JobStops, LosePost
<1>3. QED
  BY <1>1, <1>2, Inherit DEF CallInv, Shape

(* A command is received once, by the daemon that asked for it. *)
LEMMA ReceiveKeeps ==
    ASSUME CallInv, Receive
    PROVE  CallInv'
PROOF
<1> DEFINE new == IF node = "up" THEN poll.commands ELSE {}
<1>1. /\ UNCHANGED <<row, chunks, caller>> /\ poll' = NoPoll
      /\ starts' = [c \in Calls |-> starts[c] + (IF c \in new THEN 1 ELSE 0)]
  BY DEF Receive, rowVars, callerVars
<1>2. Shape' /\ NotYet' /\ ClosedIsOver'
  BY <1>1 DEF CallInv, Shape, NotYet, ClosedIsOver, Live, NoPoll
<1>3. \A c \in Calls :
        /\ starts[c] \in Nat
        /\ c \in new => starts[c] = 0 /\ row[c].status \notin {"none", "queued"}
        /\ starts'[c] = starts[c] + (IF c \in new THEN 1 ELSE 0)
  BY <1>1 DEF CallInv, Shape, HandedOutOnce
<1>4. HandedOutOnce'
  <2> SUFFICES ASSUME NEW c \in Calls
               PROVE  starts'[c] <= 1 /\ (row[c].status \in {"none", "queued"} => starts'[c] = 0)
    BY <1>1 DEF HandedOutOnce, NoPoll
  <2>1. starts[c] <= 1 /\ (row[c].status \in {"none", "queued"} => starts[c] = 0)
    BY DEF CallInv, HandedOutOnce
  <2>2. CASE c \in new
    <3>1. starts[c] = 0 /\ row[c].status \notin {"none", "queued"} /\ starts'[c] = starts[c] + 1
      BY <1>3, <2>2
    <3>2. QED
      BY <3>1
  <2>3. CASE c \notin new
    <3>1. starts[c] \in Nat /\ starts'[c] = starts[c] + 0
      BY <1>3, <2>3
    <3>2. QED
      BY <2>1, <3>1
  <2>4. QED
    BY <2>2, <2>3
<1>5. QED
  BY <1>2, <1>4 DEF CallInv

(* Nodes come and go without the rows. *)
LEMMA NodeKeeps ==
    ASSUME CallInv,
           \/ DropPoll \/ LoseControl \/ Exit \/ Restart \/ LosePoll \/ StopNode \/ Crash
           \/ \E s \in {"on", "draining", "off"} : SetService(s)
    PROVE  CallInv'
PROOF
<1>1. UNCHANGED <<row, chunks, caller, starts>> /\ (poll' = poll \/ poll' = NoPoll)
  BY DEF DropPoll, LoseControl, Exit, Die, Restart, LosePoll, StopNode, Crash, SetService,
         rowVars, callerVars, daemonVars, pollVars
<1>2. RowsMove
  BY <1>1 DEF CallInv, Shape, RowsMove, Move
<1>3. poll'.commands \subseteq poll.commands /\ "commands" \in DOMAIN poll'
  BY <1>1 DEF CallInv, Shape, NoPoll
<1>4. QED
  BY <1>1, <1>2, <1>3, Inherit DEF CallInv, Shape

LEMMA StepCall == CallInv /\ [Next]_vars => CallInv'
PROOF
<1>1. ASSUME CallInv, UNCHANGED vars PROVE CallInv'
  BY <1>1 DEF vars, rowVars, callerVars, daemonVars, pollVars,
              CallInv, Shape, NotYet, ClosedIsOver, HandedOutOnce, Live
<1>2. ASSUME CallInv, Next PROVE CallInv'
  BY <1>2, CallerKeeps, PlatformKeeps, FramesKeep, ReceiveKeeps, NodeKeeps
     DEF Next, DaemonStep, FaultStep
<1>3. QED
  BY <1>1, <1>2

LEMMA CallInvariant == Spec => []CallInv
PROOF
BY InitCall, StepCall, PTL DEF Spec

(* Whatever is lost, doubled or dropped between the caller, the platform   *)
(* and the node, a call is executed at most once.                          *)
THEOREM NeverStartedTwice == Spec => []StartedOnce
PROOF
<1>1. CallInv => StartedOnce
  BY DEF CallInv, HandedOutOnce, StartedOnce
<1>2. QED
  BY <1>1, CallInvariant, PTL

(* A closed call leaves nothing of its answer behind, and the frames that  *)
(* arrive late are refused.                                                *)
THEOREM NothingIsLeft == Spec => []NothingLeft
PROOF
<1>1. CallInv => NothingLeft
  BY DEF CallInv, ClosedIsOver, NothingLeft
<1>2. QED
  BY <1>1, CallInvariant, PTL

------------------------------------------------------------------------------
LEMMA NextMoves ==
    ASSUME CallInv, Next
    PROVE  RowsMove
PROOF
<1>1. CASE row' = row
  BY <1>1 DEF CallInv, Shape, RowsMove, Move
<1>2. ASSUME NEW c \in Calls, CallerStep(c) \/ ClockStep(c) \/ JobStep(c) \/ CallerDies(c) \/ LosePost(c)
      PROVE  RowsMove
  <2>1. CASE HandleFrames(c)
    BY <2>1, StoreMoves DEF HandleFrames
  <2>2. CASE \/ Produce(c) \/ Resend(c) \/ RetryEnds(c) \/ JobStops(c) \/ CallerDies(c) \/ LosePost(c)
    BY <1>1, <2>2 DEF Produce, Flush, Resend, RetryEnds, JobStops, CallerDies, LosePost, rowVars
  <2>3. QED
    BY <1>2, <2>1, <2>2, CallerMoves DEF JobStep
<1>3. CASE \/ Receive \/ DropPoll \/ LoseControl \/ Exit \/ Restart \/ LosePoll \/ StopNode \/ Crash
           \/ \E s \in {"on", "draining", "off"} : SetService(s)
  BY <1>1, <1>3 DEF Receive, DropPoll, LoseControl, Exit, Die, Restart, LosePoll, StopNode, Crash,
                    SetService, rowVars
<1>4. QED
  BY <1>2, <1>3, PlatformMoves DEF Next, DaemonStep, FaultStep

(* The status of a call that has ended never changes, whoever still writes *)
(* it: the caller's aclose, the node's frames, its poll or its heartbeat.  *)
THEOREM EndsAreFinal == Spec => EndIsFinal
PROOF
<1> DEFINE Kept ==
        \A c \in Calls : row[c].status \in Terminal => row'[c].status \in {row[c].status, "deleted"}
<1>1. CallInv /\ [Next]_vars => [Kept]_vars
  BY NextMoves DEF RowsMove, Move, Live, Terminal
<1>2. QED
  BY <1>1, CallInvariant, PTL DEF Spec, EndIsFinal

------------------------------------------------------------------------------
(* The numbers of a set in their order: InOrder. *)

(* How many numbers of S are smaller than i. *)
Rank(S, i) == Cardinality({j \in S : j < i})

(* T holds the smallest numbers of S. *)
Lower(T, S) == T \subseteq S /\ \A i \in T, j \in S : j < i => j \in T

LEMMA RankRange ==
    ASSUME NEW S, S \subseteq Nat, IsFiniteSet(S), NEW i \in Nat
    PROVE  /\ Cardinality(S) \in Nat /\ Rank(S, i) \in Nat
           /\ IsFiniteSet({j \in S : j < i})
           /\ Rank(S, i) <= Cardinality(S)
           /\ i \in S => Rank(S, i) < Cardinality(S)
PROOF
<1> DEFINE A == {j \in S : j < i}
<1>1. IsFiniteSet(A) /\ Cardinality(A) <= Cardinality(S)
  BY FS_Subset
<1>2. Cardinality(A) \in Nat /\ Cardinality(S) \in Nat
  BY <1>1, FS_CardinalityType
<1>3. ASSUME i \in S PROVE Cardinality(A) < Cardinality(S)
  <2>1. A # S
    BY <1>3
  <2>2. Cardinality(A) # Cardinality(S)
    BY <2>1, FS_Subset
  <2>3. QED
    BY <1>1, <1>2, <2>2
<1>4. QED
  BY <1>1, <1>2, <1>3 DEF Rank

(* The larger of two numbers has the higher rank. *)
LEMMA RankGrows ==
    ASSUME NEW S, S \subseteq Nat, IsFiniteSet(S), NEW i \in S, NEW j \in S, i < j
    PROVE  Rank(S, i) < Rank(S, j)
PROOF
<1> DEFINE A == {k \in S : k < i}
           B == {k \in S : k < j}
<1>1. IsFiniteSet(B) /\ A \subseteq B /\ A # B
  <2>1. i \in B /\ i \notin A
    OBVIOUS
  <2>2. \A k \in A : k \in B
    OBVIOUS
  <2>3. QED
    BY <2>1, <2>2, RankRange
<1>2. Cardinality(A) <= Cardinality(B) /\ Cardinality(A) # Cardinality(B)
  BY <1>1, FS_Subset
<1>3. Cardinality(A) \in Nat /\ Cardinality(B) \in Nat
  BY <1>1, FS_Subset, FS_CardinalityType
<1>4. QED
  BY <1>2, <1>3 DEF Rank

(* Every rank below the cardinality is taken, by one number. *)
LEMMA RankOnto ==
    ASSUME NEW S, S \subseteq Nat, IsFiniteSet(S), NEW k \in 1 .. Cardinality(S)
    PROVE  \E i \in S : Rank(S, i) = k - 1
PROOF
<1> DEFINE n == Cardinality(S)
           f == [i \in S |-> Rank(S, i) + 1]
<1>1. n \in Nat
  BY FS_CardinalityType
<1>2. ASSUME NEW i \in S PROVE Rank(S, i) \in Nat /\ Rank(S, i) < n
  <2>1. i \in Nat
    OBVIOUS
  <2>2. QED
    BY <2>1, RankRange
<1>3. \A i \in S : f[i] \in 1 .. n
  BY <1>1, <1>2
<1>4. \A i, j \in S : f[i] = f[j] => i = j
  <2> SUFFICES ASSUME NEW i \in S, NEW j \in S, i # j PROVE f[i] # f[j]
    OBVIOUS
  <2>1. Rank(S, i) # Rank(S, j)
    <3>1. i \in Nat /\ j \in Nat
      OBVIOUS
    <3>2. CASE i < j
      <4>1. Rank(S, i) < Rank(S, j)
        BY <3>2, RankGrows
      <4>2. QED
        BY <1>2, <4>1
    <3>3. CASE j < i
      <4>1. Rank(S, j) < Rank(S, i)
        BY <3>3, RankGrows
      <4>2. QED
        BY <1>2, <4>1
    <3>4. QED
      BY <3>1, <3>2, <3>3
  <2>2. QED
    BY <1>2, <2>1
<1>5. f \in Injection(S, 1 .. n)
  BY <1>3, <1>4 DEF Injection, IsInjective
<1>6. IsFiniteSet(1 .. n) /\ Cardinality(1 .. n) = n
  BY <1>1, FS_Interval
<1>7. f \in Surjection(S, 1 .. n)
  BY <1>5, <1>6, FS_Injection
<1>8. PICK i \in S : f[i] = k
  BY <1>7 DEF Surjection
<1>9. Rank(S, i) + 1 = k
  BY <1>8
<1>10. QED
  BY <1>2, <1>9

LEMMA RankUnique ==
    ASSUME NEW S, S \subseteq Nat, IsFiniteSet(S), NEW i \in S, NEW j \in S, Rank(S, i) = Rank(S, j)
    PROVE  i = j
PROOF
<1>1. i \in Nat /\ j \in Nat
  OBVIOUS
<1>2. Rank(S, i) \in Nat /\ Rank(S, j) \in Nat
  BY <1>1, RankRange
<1>3. ~(i < j)
  <2>1. i < j => Rank(S, i) < Rank(S, j)
    BY RankGrows
  <2>2. QED
    BY <1>2, <2>1
<1>4. ~(j < i)
  <2>1. j < i => Rank(S, j) < Rank(S, i)
    BY RankGrows
  <2>2. QED
    BY <1>2, <2>1
<1>5. QED
  BY <1>1, <1>3, <1>4

(* InOrder lists the numbers of a set by their ranks. *)
LEMMA InOrderList ==
    ASSUME NEW S, S \subseteq Nat, IsFiniteSet(S)
    PROVE  /\ Cardinality(S) \in Nat
           /\ InOrder(S) \in Seq(S) /\ InOrder(S) \in Seq(Nat)
           /\ Len(InOrder(S)) = Cardinality(S)
           /\ \A k \in 1 .. Cardinality(S) : Rank(S, InOrder(S)[k]) = k - 1
PROOF
<1> DEFINE n == Cardinality(S)
           at(k) == CHOOSE i \in S : Cardinality({j \in S : j < i}) = k - 1
<1>1. n \in Nat
  BY FS_CardinalityType
<1>2. ASSUME NEW k \in 1 .. n PROVE at(k) \in S /\ Rank(S, at(k)) = k - 1
  BY RankOnto DEF Rank
<1>3. InOrder(S) = [k \in 1 .. n |-> at(k)]
  BY DEF InOrder
<1> HIDE DEF at, n
<1>4. InOrder(S) \in [1 .. n -> S]
  BY <1>2, <1>3
<1>5. InOrder(S) \in Seq(S) /\ Len(InOrder(S)) = n
  BY <1>1, <1>4
<1>6. \A k \in 1 .. n : Rank(S, InOrder(S)[k]) = k - 1
  BY <1>2, <1>3
<1>7. QED
  BY <1>1, <1>5, <1>6, SeqMonotonic DEF n

(* The number of rank k-1 is the k-th. *)
LEMMA InOrderAt ==
    ASSUME NEW S, S \subseteq Nat, IsFiniteSet(S), NEW i \in S
    PROVE  Rank(S, i) + 1 \in 1 .. Cardinality(S) /\ InOrder(S)[Rank(S, i) + 1] = i
PROOF
<1>1. Rank(S, i) + 1 \in 1 .. Cardinality(S) /\ Rank(S, i) \in Nat
  <2>1. i \in Nat
    OBVIOUS
  <2>2. Cardinality(S) \in Nat /\ Rank(S, i) \in Nat /\ Rank(S, i) < Cardinality(S)
    BY <2>1, RankRange
  <2>3. QED
    BY <2>2
<1> DEFINE k == Rank(S, i) + 1
<1>2. InOrder(S)[k] \in S
  <2>1. InOrder(S) \in Seq(S) /\ Len(InOrder(S)) = Cardinality(S)
    BY InOrderList
  <2>2. QED
    BY <1>1, <2>1, ElementOfSeq
<1>3. Rank(S, InOrder(S)[k]) = k - 1
  BY <1>1, InOrderList
<1>4. Rank(S, InOrder(S)[k]) = Rank(S, i)
  BY <1>1, <1>3
<1>5. InOrder(S)[k] = i
  BY <1>2, <1>4, RankUnique
<1>6. QED
  BY <1>1, <1>5

(* The list of the smallest numbers begins the list of all. *)
LEMMA InOrderLower ==
    ASSUME NEW S, S \subseteq Nat, IsFiniteSet(S), NEW T, Lower(T, S)
    PROVE  /\ IsFiniteSet(T) /\ Cardinality(T) <= Cardinality(S)
           /\ \A k \in 1 .. Cardinality(T) : InOrder(T)[k] = InOrder(S)[k]
PROOF
<1>1. IsFiniteSet(T) /\ Cardinality(T) <= Cardinality(S) /\ T \in SUBSET Nat
  BY FS_Subset DEF Lower
<1>2. ASSUME NEW k \in 1 .. Cardinality(T) PROVE InOrder(T)[k] = InOrder(S)[k]
  <2> DEFINE i == InOrder(T)[k]
  <2>1. i \in T /\ Rank(T, i) = k - 1
    <3>1. InOrder(T) \in Seq(T) /\ Len(InOrder(T)) = Cardinality(T) /\ Rank(T, InOrder(T)[k]) = k - 1
      BY <1>1, InOrderList
    <3>2. InOrder(T)[k] \in T
      BY <3>1, ElementOfSeq
    <3>3. QED
      BY <3>1, <3>2
  <2>2. {j \in T : j < i} = {j \in S : j < i}
    BY <2>1 DEF Lower
  <2>3. i \in S /\ Rank(S, i) = k - 1
    BY <2>1, <2>2 DEF Rank, Lower
  <2> HIDE DEF i
  <2>4. InOrder(S)[Rank(S, i) + 1] = i
    BY <2>3, InOrderAt
  <2>5. Rank(S, i) + 1 = k
    BY <1>1, <2>3, FS_CardinalityType
  <2>6. QED
    BY <2>4, <2>5 DEF i
<1>3. QED
  BY <1>1, <1>2

(* Smaller numbers first: the lists are joined. *)
LEMMA InOrderJoin ==
    ASSUME NEW S, S \subseteq Nat, IsFiniteSet(S), NEW T, T \subseteq Nat, IsFiniteSet(T),
           \A i \in S, j \in T : i < j
    PROVE  InOrder(S) \o InOrder(T) = InOrder(S \cup T)
PROOF
<1> DEFINE U == S \cup T
<1>1. S \cap T = {}
  OBVIOUS
<1>2. /\ IsFiniteSet(U) /\ Cardinality(U) = Cardinality(S) + Cardinality(T)
      /\ Cardinality(S) \in Nat /\ Cardinality(T) \in Nat /\ U \subseteq Nat
  <2>1. Cardinality(S) \in Nat /\ Cardinality(T) \in Nat /\ U \subseteq Nat
    BY FS_CardinalityType
  <2>2. Cardinality(S \cap T) = 0
    BY <1>1, FS_EmptySet
  <2>3. IsFiniteSet(U) /\ Cardinality(U) = Cardinality(S) + Cardinality(T) - Cardinality(S \cap T)
    BY FS_Union
  <2>4. QED
    BY <2>1, <2>2, <2>3
<1> DEFINE s == InOrder(S)
           t == InOrder(T)
           u == InOrder(U)
<1>3. /\ s \in Seq(Nat) /\ Len(s) = Cardinality(S)
      /\ t \in Seq(Nat) /\ Len(t) = Cardinality(T)
      /\ u \in Seq(Nat) /\ Len(u) = Cardinality(U)
  BY <1>2, InOrderList
<1> HIDE DEF U, s, t, u
<1>4. /\ s \o t \in Seq(Nat) /\ Len(s \o t) = Len(s) + Len(t)
      /\ \A i \in 1 .. Len(s) + Len(t) : (s \o t)[i] = IF i <= Len(s) THEN s[i] ELSE t[i - Len(s)]
  BY <1>3, ConcatProperties
<1>5. ASSUME NEW k \in 1 .. Len(s) PROVE u[k] = s[k]
  <2>1. Lower(S, U)
    BY DEF Lower, U
  <2>2. k \in 1 .. Cardinality(S)
    BY <1>3
  <2>3. QED
    BY <1>2, <2>1, <2>2, InOrderLower DEF s, u
<1>6. ASSUME NEW k \in 1 .. Len(t) PROVE u[Len(s) + k] = t[k]
  <2> DEFINE i == t[k]
  <2>1. k \in 1 .. Cardinality(T)
    BY <1>3
  <2>2. i \in T /\ Rank(T, i) = k - 1
    <3>1. t \in Seq(T) /\ Len(t) = Cardinality(T) /\ Rank(T, t[k]) = k - 1
      BY <2>1, InOrderList DEF t
    <3>2. t[k] \in T
      BY <2>1, <3>1, ElementOfSeq
    <3>3. QED
      BY <3>1, <3>2
  <2> HIDE DEF i
  <2> DEFINE B == {j \in T : j < i}
  <2>3. {j \in U : j < i} = S \cup B
    BY <2>2 DEF U
  <2>4. IsFiniteSet(B) /\ S \cap B = {}
    BY <1>1, FS_Subset
  <2>5. Cardinality(S \cup B) = Cardinality(S) + Cardinality(B)
    <3>1. Cardinality(S \cap B) = 0
      BY <2>4, FS_EmptySet
    <3>2. Cardinality(S \cup B) = Cardinality(S) + Cardinality(B) - Cardinality(S \cap B)
      BY <2>4, FS_Union
    <3>3. Cardinality(B) \in Nat
      BY <2>4, FS_CardinalityType
    <3>4. QED
      BY <1>2, <3>1, <3>2, <3>3
  <2>6. Rank(U, i) = Len(s) + (k - 1)
    BY <1>3, <2>2, <2>3, <2>5 DEF Rank
  <2>7. u[Rank(U, i) + 1] = i
    BY <1>2, <2>2, InOrderAt DEF U, u
  <2>8. Rank(U, i) + 1 = Len(s) + k
    BY <1>2, <1>3, <2>6
  <2>9. QED
    BY <2>7, <2>8 DEF i
<1>7. \A k \in 1 .. Len(s \o t) : (s \o t)[k] = u[k]
  <2> SUFFICES ASSUME NEW k \in 1 .. Len(s \o t) PROVE (s \o t)[k] = u[k]
    OBVIOUS
  <2>1. CASE k <= Len(s)
    BY <1>2, <1>3, <1>4, <1>5, <2>1
  <2>2. CASE k > Len(s)
    <3>1. k - Len(s) \in 1 .. Len(t) /\ Len(s) + (k - Len(s)) = k
      BY <1>2, <1>3, <1>4, <2>2
    <3>2. u[Len(s) + (k - Len(s))] = t[k - Len(s)]
      BY <1>6, <3>1
    <3>3. QED
      BY <1>2, <1>3, <1>4, <2>2, <3>1, <3>2
  <2>3. QED
    BY <1>2, <1>3, <2>1, <2>2
<1>8. s \o t = u
  BY <1>2, <1>3, <1>4, <1>7, SeqEqual
<1>9. QED
  BY <1>8 DEF s, t, u, U

(* The list of the first numbers leaves the larger ones. *)
LEMMA FirstAreLower ==
    ASSUME NEW S, S \subseteq Nat, IsFiniteSet(S), NEW n \in Nat \ {0}
    PROVE  LET B == {i \in S : Cardinality({j \in S : j < i}) < n}
           IN  Lower(B, S) /\ (B = {} => S = {})
PROOF
<1> DEFINE B == {i \in S : Rank(S, i) < n}
<1>1. Lower(B, S)
  <2> SUFFICES ASSUME NEW i \in B, NEW j \in S, j < i PROVE j \in B
    BY DEF Lower
  <2>1. Rank(S, j) < Rank(S, i) /\ Rank(S, i) < n /\ Rank(S, j) \in Nat /\ Rank(S, i) \in Nat
    BY RankGrows, RankRange
  <2>2. QED
    BY <2>1
<1>2. ASSUME S # {} PROVE B # {}
  <2>1. Cardinality(S) # 0 /\ Cardinality(S) \in Nat
    BY <1>2, FS_EmptySet, FS_CardinalityType
  <2>2. 1 \in 1 .. Cardinality(S)
    BY <2>1
  <2>3. PICK i \in S : Rank(S, i) = 1 - 1
    BY <2>2, RankOnto
  <2>4. QED
    BY <2>3
<1>3. QED
  BY <1>1, <1>2 DEF Rank

------------------------------------------------------------------------------
(* The node's limit. *)

PollType ==
    [stage : {"idle", "waiting", "answered"}, running : SUBSET Calls, abandoned : SUBSET Calls,
     slots : Nat, commands : SUBSET Calls, cancelled : SUBSET Calls]

DaemonTypes ==
    /\ poll \in PollType
    /\ tracked \subseteq Calls /\ asked \subseteq Calls /\ abandoned \subseteq Calls
    /\ job \in [Calls -> Jobs]

(* The calls made so far, finitely many, and every task is one of them. *)
Begun == {c \in Calls : caller[c] # "new"}
TasksBegun == IsFiniteSet(Begun) /\ \A c \in tracked : starts[c] = 1

(* The tasks at work, the places that the poll offers, and the commands    *)
(* that were given for them.                                               *)
SlotsHold ==
    /\ Cardinality(Tracked) + poll.slots <= MaxConcurrent
    /\ Cardinality(poll.commands) <= poll.slots

LimitInv == DaemonTypes /\ TasksBegun /\ SlotsHold

LEMMA NoPollType == NoPoll \in PollType
PROOF
BY DEF NoPoll, PollType

LEMMA InitLimit == Init => LimitInv
PROOF
<1> SUFFICES ASSUME Init PROVE LimitInv
  OBVIOUS
<1>1. DaemonTypes
  BY NoPollType DEF Init, DaemonTypes, Jobs
<1>2. Begun = {} /\ Tracked = {} /\ tracked = {} /\ poll.slots = 0 /\ poll.commands = {}
  BY DEF Init, Begun, Tracked, NoPoll
<1>3. MaxConcurrent \in Nat
  BY CallLimits
<1>4. TasksBegun
  BY <1>2, FS_EmptySet DEF TasksBegun
<1>5. SlotsHold
  BY <1>2, <1>3, FS_EmptySet DEF SlotsHold
<1>6. QED
  BY <1>1, <1>4, <1>5 DEF LimitInv

(* The tasks and the commands are calls that were made. *)
LEMMA TasksFinite ==
    ASSUME CallInv, LimitInv
    PROVE  /\ tracked \subseteq Begun /\ poll.commands \subseteq Begun
           /\ IsFiniteSet(Tracked) /\ Cardinality(Tracked) \in Nat
           /\ IsFiniteSet(poll.commands) /\ Cardinality(poll.commands) \in Nat
           /\ MaxConcurrent \in Nat /\ poll.slots \in Nat
PROOF
<1>1. tracked \subseteq Begun /\ poll.commands \subseteq Begun
  <2>1. ASSUME NEW c \in Calls, caller[c] = "new" PROVE starts[c] = 0 /\ c \notin poll.commands
    BY <2>1 DEF CallInv, NotYet, HandedOutOnce
  <2>2. QED
    BY <2>1 DEF LimitInv, DaemonTypes, PollType, TasksBegun, Begun
<1>2. Tracked \subseteq Begun
  BY <1>1 DEF Tracked
<1>3. IsFiniteSet(Begun)
  BY DEF LimitInv, TasksBegun
<1>4. MaxConcurrent \in Nat /\ poll.slots \in Nat
  BY CallLimits DEF LimitInv, DaemonTypes, PollType
<1>5. QED
  BY <1>1, <1>2, <1>3, <1>4, FS_Subset, FS_CardinalityType

(* Nothing starts, and the poll is the same or given up. *)
LEMMA LimitStays ==
    ASSUME CallInv, LimitInv,
           tracked' \subseteq tracked, asked' \subseteq Calls, abandoned' \subseteq Calls,
           job' \in [Calls -> Jobs], \A c \in Calls : Working(c)' => Working(c),
           poll' \in {poll, NoPoll}, starts' = starts, IsFiniteSet(Begun')
    PROVE  LimitInv'
PROOF
<1>1. DaemonTypes' /\ TasksBegun'
  BY NoPollType DEF LimitInv, DaemonTypes, TasksBegun
<1>2. Tracked' \subseteq Tracked
  BY DEF Tracked, LimitInv, DaemonTypes
<1>3. Cardinality(Tracked') <= Cardinality(Tracked) /\ Cardinality(Tracked') \in Nat
  BY <1>2, TasksFinite, FS_Subset, FS_CardinalityType
<1>4. CASE poll' = poll
  BY <1>1, <1>3, <1>4, TasksFinite DEF LimitInv, SlotsHold
<1>5. CASE poll' = NoPoll
  <2>1. poll'.slots = 0 /\ poll'.commands = {}
    BY <1>5 DEF NoPoll
  <2>2. Cardinality(poll'.commands) = 0
    BY <2>1, FS_EmptySet
  <2>3. QED
    BY <1>1, <1>3, <2>1, <2>2, TasksFinite DEF LimitInv, SlotsHold
<1>6. QED
  BY <1>4, <1>5

LEMMA CallersLimit ==
    ASSUME NEW c \in Calls, CallInv, LimitInv, CallerStep(c) \/ ClockStep(c) \/ CallerDies(c)
    PROVE  LimitInv'
PROOF
<1>1. UNCHANGED <<jobVars, daemonVars, pollVars>>
  BY DEF CallerStep, ClockStep, Check, Insert, Await, GiveUp, ReadRow, ReadChunks, CloseMark,
         CloseSweep, CallerDies, LeaseLapses, DeadlinePasses
<1>2. \A d \in Calls \ {c} : caller'[d] = caller[d]
  <2>1. caller' = caller \/ \E s : caller' = [caller EXCEPT ![c] = s]
    <3>1. CASE Check(c) \/ Insert(c) \/ Await(c) \/ GiveUp(c)
      BY <3>1 DEF Check, Insert, Await, GiveUp, Leave
    <3>2. CASE ReadRow(c) \/ ReadChunks(c) \/ CloseMark(c) \/ CloseSweep(c) \/ CallerDies(c)
      BY <3>2 DEF ReadRow, ReadChunks, CloseMark, CloseSweep, CallerDies, Leave
    <3>3. CASE ClockStep(c)
      BY <3>3 DEF ClockStep, LeaseLapses, DeadlinePasses, callerVars
    <3>4. QED
      BY <3>1, <3>2, <3>3 DEF CallerStep
  <2>2. QED
    BY <2>1 DEF CallInv, Shape
<1>3. Begun' \subseteq Begun \cup {c}
  BY <1>2 DEF Begun
<1>4. IsFiniteSet(Begun')
  BY <1>3, FS_AddElement, FS_Subset DEF LimitInv, TasksBegun
<1>5. QED
  BY <1>1, <1>4, LimitStays DEF LimitInv, DaemonTypes, jobVars, daemonVars, pollVars, Working

LEMMA JobsLimit ==
    ASSUME NEW c \in Calls, CallInv, LimitInv, JobStep(c) \/ LosePost(c)
    PROVE  LimitInv'
PROOF
<1>1. UNCHANGED <<callerVars, daemonVars, pollVars>>
  BY DEF JobStep, Produce, Flush, HandleFrames, Resend, RetryEnds, JobStops, LosePost
<1>2. job' = job \/ (Working(c) /\ \E j \in Jobs : job' = [job EXCEPT ![c] = j])
                 \/ job' = [job EXCEPT ![c] = "over"]
  <2>1. CASE Produce(c)
    BY <2>1 DEF Produce, Flush, Working, Jobs
  <2>2. ASSUME FlushFails(c)
        PROVE  (Working(c) /\ \E j \in Jobs : job' = [job EXCEPT ![c] = j]) \/ job' = [job EXCEPT ![c] = "over"]
    <3>1. CASE job[c] \in {"run", "done"}
      BY <2>2, <3>1 DEF FlushFails, Working, Jobs
    <3>2. CASE job[c] \notin {"run", "done"}
      BY <2>2, <3>2 DEF FlushFails
    <3>3. QED
      BY <3>1, <3>2
  <2>3. ASSUME FlushSucceeds(c) PROVE job' = job \/ job' = [job EXCEPT ![c] = "over"]
    BY <2>3 DEF FlushSucceeds, LimitInv, DaemonTypes
  <2>4. CASE HandleFrames(c)
    BY <2>2, <2>3, <2>4 DEF HandleFrames
  <2>5. CASE Resend(c) \/ RetryEnds(c) \/ JobStops(c) \/ LosePost(c)
    BY <2>2, <2>5 DEF Resend, RetryEnds, JobStops, LosePost
  <2>6. QED
    BY <2>1, <2>4, <2>5 DEF JobStep
<1>3. job' \in [Calls -> Jobs] /\ \A d \in Calls : Working(d)' => Working(d)
  BY <1>2 DEF Working, LimitInv, DaemonTypes, Jobs
<1>4. QED
  BY <1>1, <1>3, LimitStays DEF LimitInv, DaemonTypes, TasksBegun, Begun, callerVars, daemonVars, pollVars

(* No more calls are handed out than the poll has places for. *)
LEMMA CollectLimit ==
    ASSUME CallInv, LimitInv, Collect
    PROVE  LimitInv'
PROOF
<1>1. PICK S \in SUBSET {c \in Calls : Claimable(c)} :
        /\ Cardinality(S) <= (IF service = "on" THEN poll.slots ELSE 0)
        /\ poll' = [poll EXCEPT !.stage = "answered", !.commands = S, !.cancelled = Over(poll.running)]
  BY DEF Collect
<1>2. UNCHANGED <<callerVars, jobVars, daemonVars>>
  BY DEF Collect
<1>3. IsFiniteSet(S) /\ Cardinality(S) \in Nat
  <2>1. S \subseteq Begun
    BY <1>1 DEF Claimable, Begun, CallInv, NotYet
  <2>2. QED
    BY <2>1, FS_Subset, FS_CardinalityType DEF LimitInv, TasksBegun
<1>4. poll' \in PollType /\ poll'.slots = poll.slots /\ poll'.commands = S
  <2>1. poll \in PollType /\ S \subseteq Calls
    BY DEF LimitInv, DaemonTypes
  <2>2. Over(poll.running) \subseteq Calls
    BY <2>1 DEF Over, PollType
  <2>3. QED
    BY <1>1, <2>1, <2>2 DEF PollType
<1>5. DaemonTypes' /\ TasksBegun' /\ Tracked' = Tracked
  BY <1>2, <1>4 DEF LimitInv, DaemonTypes, TasksBegun, Begun, Tracked, Working,
                    callerVars, jobVars, daemonVars
<1>6. SlotsHold'
  BY <1>1, <1>3, <1>4, <1>5, TasksFinite DEF SlotsHold, LimitInv
<1>7. QED
  BY <1>5, <1>6 DEF LimitInv

(* The poll offers the places that no task at work takes. *)
LEMMA PollLimit ==
    ASSUME CallInv, LimitInv, PollSend
    PROVE  LimitInv'
PROOF
<1>1. /\ poll' = [NoPoll EXCEPT !.stage = "waiting", !.running = Tracked \ asked,
                                !.abandoned = abandoned, !.slots = Free]
      /\ tracked' = Tracked /\ asked' = asked \cap Tracked
      /\ UNCHANGED <<callerVars, jobVars, abandoned, starts>>
  BY DEF PollSend
<1>2. Free \in Nat /\ Cardinality(Tracked) + Free = MaxConcurrent
  BY TasksFinite DEF Free, LimitInv, SlotsHold
<1>3. poll' \in PollType /\ poll'.slots = Free /\ poll'.commands = {}
  BY <1>1, <1>2 DEF NoPoll, PollType, LimitInv, DaemonTypes, Tracked
<1>4. DaemonTypes' /\ TasksBegun' /\ Tracked' = Tracked
  BY <1>1, <1>3 DEF LimitInv, DaemonTypes, TasksBegun, Begun, Tracked, Working, callerVars, jobVars
<1>5. Cardinality(poll'.commands) = 0
  BY <1>3, FS_EmptySet
<1>6. SlotsHold'
  <2>1. Cardinality(Tracked') + poll'.slots = MaxConcurrent
    BY <1>2, <1>3, <1>4
  <2>2. Cardinality(Tracked') + poll'.slots <= MaxConcurrent
    BY <2>1, CallLimits
  <2>3. Cardinality(poll'.commands) <= poll'.slots
    BY <1>2, <1>3, <1>5
  <2>4. QED
    BY <2>2, <2>3 DEF SlotsHold
<1>7. QED
  BY <1>4, <1>6 DEF LimitInv

(* The commands fill places that are still free. *)
LEMMA ReceiveLimit ==
    ASSUME CallInv, LimitInv, Receive
    PROVE  LimitInv'
PROOF
<1> DEFINE stopped == poll.cancelled \cap tracked
           new == IF node = "up" THEN poll.commands ELSE {}
<1>1. /\ poll' = NoPoll /\ tracked' = tracked \cup new /\ asked' = asked \cup stopped
      /\ abandoned' = (abandoned \ poll.abandoned) \cup (poll.commands \ new)
      /\ job' = [c \in Calls |-> IF c \in new THEN "run" ELSE Cancelled(stopped)[c]]
      /\ starts' = [c \in Calls |-> starts[c] + (IF c \in new THEN 1 ELSE 0)]
      /\ caller' = caller
  BY DEF Receive, callerVars
<1>2. new \subseteq poll.commands /\ poll.commands \subseteq Calls /\ stopped \subseteq tracked
  BY DEF LimitInv, DaemonTypes, PollType
<1>3. \A c \in new : starts[c] = 0
  BY <1>2 DEF CallInv, HandedOutOnce
<1>4. \A c \in tracked : starts[c] = 1 /\ c \notin new
  BY <1>3 DEF LimitInv, TasksBegun
<1> HIDE DEF new, stopped
<1>5. job' \in [Calls -> Jobs] /\ \A c \in Calls \ new : Working(c)' => Working(c)
  <2>1. \A c \in Calls : Cancelled(stopped)[c] \in {job[c], "stop"} /\ (Cancelled(stopped)[c] # job[c] => Working(c))
    BY DEF Cancelled
  <2>2. QED
    BY <1>1, <2>1 DEF LimitInv, DaemonTypes, Working, Jobs
<1>6. DaemonTypes'
  BY <1>1, <1>2, <1>5, NoPollType DEF LimitInv, DaemonTypes
<1>7. TasksBegun'
  BY <1>1, <1>2, <1>3, <1>4 DEF LimitInv, DaemonTypes, TasksBegun, Begun, CallInv, Shape
<1>8. Tracked' \subseteq Tracked \cup new
  BY <1>1, <1>2, <1>5 DEF Tracked, LimitInv, DaemonTypes
<1>9. IsFiniteSet(new) /\ Cardinality(new) \in Nat /\ Cardinality(new) <= poll.slots
  <2>1. IsFiniteSet(new) /\ Cardinality(new) <= Cardinality(poll.commands) /\ Cardinality(new) \in Nat
    BY <1>2, TasksFinite, FS_Subset, FS_CardinalityType
  <2>2. QED
    BY <2>1, TasksFinite DEF LimitInv, SlotsHold
<1>10. Cardinality(Tracked') <= Cardinality(Tracked) + Cardinality(new) /\ Cardinality(Tracked') \in Nat
  <2>1. /\ IsFiniteSet(Tracked \cup new)
        /\ Cardinality(Tracked \cup new) = Cardinality(Tracked) + Cardinality(new) - Cardinality(Tracked \cap new)
    BY <1>9, TasksFinite, FS_Union
  <2>2. Cardinality(Tracked \cap new) \in Nat
    BY <1>9, FS_Intersection, FS_CardinalityType
  <2>3. Cardinality(Tracked') <= Cardinality(Tracked \cup new) /\ Cardinality(Tracked') \in Nat
    BY <1>8, <2>1, FS_Subset, FS_CardinalityType
  <2>4. Cardinality(Tracked \cup new) <= Cardinality(Tracked) + Cardinality(new)
    BY <1>9, <2>1, <2>2, TasksFinite
  <2>5. Cardinality(Tracked \cup new) \in Nat
    BY <2>1, FS_CardinalityType
  <2>6. QED
    BY <1>9, <2>3, <2>4, <2>5, TasksFinite
<1>11. SlotsHold'
  <2>1. poll'.slots = 0 /\ poll'.commands = {} /\ Cardinality(poll'.commands) = 0
    BY <1>1, FS_EmptySet DEF NoPoll
  <2>2. Cardinality(Tracked) + poll.slots <= MaxConcurrent
    BY DEF LimitInv, SlotsHold
  <2>3. QED
    BY <1>9, <1>10, <2>1, <2>2, TasksFinite DEF SlotsHold
<1>12. QED
  BY <1>6, <1>7, <1>11 DEF LimitInv

LEMMA NodesLimit ==
    ASSUME CallInv, LimitInv,
           \/ Heartbeat \/ HandBack \/ \E c \in Calls : GhostClaims(c)
           \/ DropPoll \/ LoseControl \/ Exit \/ Restart \/ LosePoll \/ StopNode \/ Crash
           \/ \E s \in {"on", "draining", "off"} : SetService(s)
    PROVE  LimitInv'
PROOF
<1>1. caller' = caller /\ starts' = starts /\ poll' \in {poll, NoPoll}
  BY DEF Heartbeat, HandBack, GhostClaims, DropPoll, LoseControl, Exit, Die, Restart, LosePoll, StopNode,
         Crash, SetService, callerVars, daemonVars, pollVars
<1>2. tracked' \subseteq tracked /\ asked' \subseteq asked /\ abandoned' \subseteq abandoned \cup tracked
  BY DEF Heartbeat, HandBack, GhostClaims, DropPoll, LoseControl, Exit, Die, Restart, LosePoll, StopNode,
         Crash, SetService, daemonVars
<1>3. job' \in [Calls -> Jobs] /\ \A c \in Calls : Working(c)' => Working(c)
  <2>1. CASE LoseControl
    <3>1. job' = Cancelled(tracked)
      BY <2>1 DEF LoseControl
    <3>2. QED
      BY <3>1 DEF Cancelled, Working, LimitInv, DaemonTypes, Jobs
  <2>2. CASE Exit \/ Crash
    <3>1. job' = [c \in Calls |-> IF Working(c) THEN "over" ELSE job[c]]
      BY <2>2 DEF Exit, Crash, Die
    <3>2. QED
      BY <3>1 DEF Working, LimitInv, DaemonTypes, Jobs
  <2>3. CASE job' = job
    BY <2>3 DEF Working, LimitInv, DaemonTypes
  <2>4. QED
    BY <2>1, <2>2, <2>3 DEF Heartbeat, HandBack, GhostClaims, DropPoll, Restart, LosePoll, StopNode,
                            SetService, jobVars
<1>4. QED
  BY <1>1, <1>2, <1>3, LimitStays DEF LimitInv, DaemonTypes, TasksBegun, Begun

LEMMA StepLimit == CallInv /\ LimitInv /\ [Next]_vars => LimitInv'
PROOF
<1>1. ASSUME LimitInv, UNCHANGED vars PROVE LimitInv'
  BY <1>1 DEF vars, callerVars, jobVars, daemonVars, pollVars, LimitInv, DaemonTypes, TasksBegun, Begun,
              SlotsHold, Tracked, Working
<1>2. ASSUME CallInv, LimitInv, Next PROVE LimitInv'
  BY <1>2, CallersLimit, JobsLimit, CollectLimit, PollLimit, ReceiveLimit, NodesLimit
     DEF Next, DaemonStep, FaultStep
<1>3. QED
  BY <1>1, <1>2

LEMMA LimitInvariant == Spec => []LimitInv
PROOF
BY InitLimit, StepLimit, CallInvariant, PTL DEF Spec

(* The node runs no more calls at once than its limit: a task that is      *)
(* being stopped keeps its place, and a lost poll gives none away.         *)
THEOREM LimitIsKept == Spec => []WithinLimit
PROOF
<1>1. CallInv /\ LimitInv => WithinLimit
  <2> SUFFICES ASSUME CallInv, LimitInv PROVE Cardinality(Tracked) <= MaxConcurrent
    BY DEF WithinLimit, Tracked
  <2>1. QED
    BY TasksFinite DEF LimitInv, SlotsHold
<1>2. QED
  BY <1>1, CallInvariant, LimitInvariant, PTL

------------------------------------------------------------------------------
(* Frames and posts. *)

(* A post holds frames that were produced, at the numbers it says. *)
Post(c, p) ==
    /\ p.from \in Nat /\ p.items \in Seq(Kinds)
    /\ p.from + Len(p.items) <= Len(frames[c])
    /\ \A i \in 1 .. Len(p.items) : p.items[i] = frames[c][p.from + i]

FrameInv ==
    /\ frames \in [Calls -> Seq(Kinds)] /\ acked \in [Calls -> Nat]
    /\ \A c \in Calls : acked[c] <= Len(frames[c])
    /\ posting \subseteq Calls
    /\ DOMAIN wire = Calls /\ \A c \in Calls : \A p \in wire[c] : Post(c, p)

(* The frames of an execution are added to, never changed. *)
Extends(c) ==
    /\ Len(frames[c]) <= Len(frames'[c])
    /\ \A i \in 1 .. Len(frames[c]) : frames'[c][i] = frames[c][i]

LEMMA InitFrames == Init => FrameInv
PROOF
<1> SUFFICES ASSUME Init PROVE FrameInv
  OBVIOUS
<1>1. frames = [c \in Calls |-> <<>>] /\ acked = [c \in Calls |-> 0] /\ posting = {} /\ wire = [c \in Calls |-> {}]
  BY DEF Init
<1>2. QED
  BY <1>1, EmptySeq DEF FrameInv

LEMMA PostStays ==
    ASSUME FrameInv, NEW c \in Calls, NEW p, Post(c, p), Extends(c), frames'[c] \in Seq(Kinds)
    PROVE  Post(c, p)'
PROOF
<1>1. Len(p.items) \in Nat /\ Len(frames[c]) \in Nat /\ Len(frames'[c]) \in Nat
  BY LenProperties DEF Post, FrameInv
<1>2. \A i \in 1 .. Len(p.items) : p.from + i \in 1 .. Len(frames[c])
  BY <1>1 DEF Post
<1>3. QED
  BY <1>1, <1>2 DEF Post, Extends

(* Frames and posts stay, but for posts that leave. *)
LEMMA FramesStay ==
    ASSUME FrameInv, frames' = frames, acked' \in [Calls -> Nat],
           \A c \in Calls : acked'[c] <= Len(frames[c]),
           posting' \subseteq Calls, DOMAIN wire' = Calls,
           \A c \in Calls : \A p \in wire'[c] : p \in wire[c] \/ Post(c, p)
    PROVE  FrameInv' /\ \A c \in Calls : Extends(c)
PROOF
<1>1. \A c \in Calls : Extends(c)
  BY LenProperties DEF FrameInv, Extends
<1>2. \A c \in Calls : \A p \in wire'[c] : Post(c, p)'
  BY DEF FrameInv, Post
<1>3. QED
  BY <1>1, <1>2 DEF FrameInv

LEMMA UnsentIsPost ==
    ASSUME FrameInv, NEW c \in Calls
    PROVE  Post(c, Unsent(c))
PROOF
<1> DEFINE s == frames[c]
           m == acked[c]
           t == SubSeq(s, m + 1, Len(s))
<1>1. s \in Seq(Kinds) /\ m \in Nat /\ Len(s) \in Nat /\ m <= Len(s)
  BY LenProperties DEF FrameInv
<1>2. \A i \in m + 1 .. Len(s) : s[i] \in Kinds
  BY <1>1, ElementOfSeq
<1>3. /\ t \in Seq(Kinds) /\ Len(t) = Len(s) - m
      /\ \A i \in 1 .. Len(s) - m : t[i] = s[m + i]
  <2>1. /\ t \in Seq(Kinds) /\ Len(t) = IF m + 1 <= Len(s) THEN Len(s) - (m + 1) + 1 ELSE 0
        /\ \A i \in 1 .. Len(s) - (m + 1) + 1 : t[i] = s[m + 1 + i - 1]
    BY <1>1, <1>2, SubSeqProperties
  <2>2. Len(t) = Len(s) - m /\ Len(s) - (m + 1) + 1 = Len(s) - m
    <3> HIDE DEF t, s, m
    <3>1. QED
      BY <1>1, <2>1
  <2>3. ASSUME NEW i \in 1 .. Len(s) - m PROVE t[i] = s[m + i]
    <3>1. i \in 1 .. Len(s) - (m + 1) + 1
      BY <2>2
    <3>2. t[i] = s[m + 1 + i - 1]
      BY <2>1, <3>1
    <3>3. m + 1 + i - 1 = m + i
      BY <1>1
    <3>4. QED
      BY <3>2, <3>3
  <2>4. QED
    BY <2>1, <2>2, <2>3
<1>4. Unsent(c).from = m /\ Unsent(c).items = t
  BY DEF Unsent
<1>5. QED
  BY <1>1, <1>3, <1>4 DEF Post

LEMMA BufferedType ==
    ASSUME NEW c \in Calls, NEW ks \in Buffered(c)
    PROVE  ks \in Seq(Kinds)
PROOF
<1> DEFINE head == IF frames[c] = <<>> THEN <<"head">> ELSE <<>>
           data == IF DataMade(c) < plan.data[c] THEN {<<>>, <<"data">>} ELSE {<<>>}
<1>1. head \in Seq(Kinds) /\ \A d \in data : d \in Seq(Kinds)
  <2>1. <<"head">> \in Seq(Kinds) /\ <<"data">> \in Seq(Kinds)
    BY DEF Kinds
  <2>2. <<>> \in Seq(Kinds)
    BY EmptySeq
  <2>3. head \in {<<>>, <<"head">>} /\ data \subseteq {<<>>, <<"data">>}
    OBVIOUS
  <2> HIDE DEF head, data
  <2>4. QED
    BY <2>1, <2>2, <2>3
<1>2. PICK d \in data : ks = head \o d
  BY DEF Buffered
<1>3. d \in Seq(Kinds)
  BY <1>1
<1> HIDE DEF head, data
<1>4. QED
  BY <1>1, <1>2, <1>3, ConcatProperties

(* The frames that are numbered are added at the end, and posted with all  *)
(* those not accepted yet.                                                 *)
LEMMA FlushFrames ==
    ASSUME FrameInv, NEW c \in Calls, NEW ks \in Seq(Kinds), NEW next, Flush(c, ks, next)
    PROVE  FrameInv' /\ \A d \in Calls : Extends(d)
PROOF
<1> DEFINE s == frames[c]
           u == Unsent(c).items
<1>0. PICK p : p = [from |-> acked[c], items |-> u \o ks]
  OBVIOUS
<1>1. /\ frames' = [frames EXCEPT ![c] = s \o ks] /\ posting' = posting \cup {c}
      /\ wire' = [wire EXCEPT ![c] = @ \cup {p}] /\ acked' = acked
  BY <1>0 DEF Flush
<1>2. s \in Seq(Kinds) /\ Len(s) \in Nat /\ Len(ks) \in Nat /\ acked[c] \in Nat /\ acked[c] <= Len(s)
  BY LenProperties DEF FrameInv
<1>3. /\ s \o ks \in Seq(Kinds) /\ Len(s \o ks) = Len(s) + Len(ks)
      /\ \A i \in 1 .. Len(s) + Len(ks) : (s \o ks)[i] = IF i <= Len(s) THEN s[i] ELSE ks[i - Len(s)]
  BY <1>2, ConcatProperties
<1>4. /\ u \in Seq(Kinds) /\ Len(u) = Len(s) - acked[c]
      /\ \A i \in 1 .. Len(u) : u[i] = s[acked[c] + i]
  <2>1. Post(c, Unsent(c)) /\ Unsent(c).from = acked[c]
    BY UnsentIsPost DEF Unsent
  <2>2. Len(u) = Len(s) - acked[c]
    <3>1. \A i \in acked[c] + 1 .. Len(s) : s[i] \in Kinds
      BY <1>2, ElementOfSeq
    <3>2. u = SubSeq(s, acked[c] + 1, Len(s))
      BY DEF Unsent
    <3>3. Len(u) = IF acked[c] + 1 <= Len(s) THEN Len(s) - (acked[c] + 1) + 1 ELSE 0
      BY <1>2, <3>1, <3>2, SubSeqProperties
    <3>4. QED
      BY <1>2, <3>3
  <2>3. QED
    BY <2>1, <2>2 DEF Post
<1>5. /\ u \o ks \in Seq(Kinds) /\ Len(u \o ks) = Len(u) + Len(ks)
      /\ \A i \in 1 .. Len(u) + Len(ks) : (u \o ks)[i] = IF i <= Len(u) THEN u[i] ELSE ks[i - Len(u)]
  BY <1>4, ConcatProperties
<1> HIDE DEF s, u
<1>6. frames'[c] = s \o ks /\ \A d \in Calls \ {c} : frames'[d] = frames[d]
  BY <1>1 DEF FrameInv
<1>7. frames' \in [Calls -> Seq(Kinds)]
  BY <1>1, <1>3 DEF FrameInv
<1>8. ASSUME NEW d \in Calls PROVE Extends(d)
  <2>1. CASE d = c
    BY <1>2, <1>3, <1>6, <2>1 DEF Extends, s
  <2>2. CASE d # c
    BY <1>6, <2>2, LenProperties DEF Extends, FrameInv
  <2>3. QED
    BY <2>1, <2>2
<1>9. Post(c, p)'
  <2>1. p.from = acked[c] /\ p.items = u \o ks
    BY <1>0
  <2>2. p.from + Len(p.items) = Len(frames'[c])
    BY <1>2, <1>3, <1>4, <1>5, <1>6, <2>1
  <2>3. ASSUME NEW i \in 1 .. Len(p.items) PROVE p.items[i] = frames'[c][p.from + i]
    <3>1. Len(u) \in Nat /\ Len(u) + acked[c] = Len(s)
      BY <1>2, <1>4
    <3>2. CASE i <= Len(u)
      <4>1. p.items[i] = s[acked[c] + i]
        BY <1>2, <1>4, <1>5, <2>1, <2>3, <3>1, <3>2
      <4>2. acked[c] + i \in 1 .. Len(s)
        BY <1>2, <3>1, <3>2
      <4>3. QED
        BY <1>2, <1>3, <1>6, <2>1, <4>1, <4>2
    <3>3. CASE i > Len(u)
      <4>1. p.items[i] = ks[i - Len(u)] /\ i \in 1 .. Len(u) + Len(ks)
        BY <1>2, <1>5, <2>1, <2>3, <3>1, <3>3
      <4>2. acked[c] + i \in 1 .. Len(s) + Len(ks) /\ acked[c] + i > Len(s)
        BY <1>2, <3>1, <3>3, <4>1
      <4>3. acked[c] + i - Len(s) = i - Len(u)
        BY <1>2, <3>1
      <4>4. (s \o ks)[acked[c] + i] = ks[acked[c] + i - Len(s)]
        BY <1>2, <1>3, <4>2
      <4>5. QED
        BY <1>6, <2>1, <4>1, <4>3, <4>4
    <3>4. QED
      BY <1>2, <3>1, <3>2, <3>3
  <2>4. p.from \in Nat /\ p.items \in Seq(Kinds)
    BY <1>2, <1>5, <2>1
  <2>5. Len(frames'[c]) \in Nat /\ p.from + Len(p.items) <= Len(frames'[c])
    BY <1>2, <1>3, <1>6, <2>2
  <2>6. QED
    BY <2>3, <2>4, <2>5 DEF Post
<1>10. ASSUME NEW d \in Calls, NEW q \in wire'[d] PROVE Post(d, q)'
  <2>1. CASE q \in wire[d]
    BY <1>7, <1>8, <2>1, PostStays DEF FrameInv
  <2>2. CASE q \notin wire[d]
    <3>1. d = c /\ q = p
      BY <1>1, <2>2 DEF FrameInv
    <3>2. frames'[d] = frames'[c] /\ d = c /\ q = p
      BY <3>1
    <3>3. QED
      BY <1>9, <3>2 DEF Post
  <2>3. QED
    BY <2>1, <2>2
<1>11. \A d \in Calls : acked'[d] <= Len(frames'[d])
  <2> SUFFICES ASSUME NEW d \in Calls PROVE acked[d] <= Len(frames'[d])
    BY <1>1
  <2>1. acked[d] \in Nat /\ acked[d] <= Len(frames[d]) /\ Len(frames[d]) <= Len(frames'[d])
    BY <1>8 DEF FrameInv, Extends
  <2>2. Len(frames[d]) \in Nat /\ Len(frames'[d]) \in Nat
    BY <1>7, LenProperties DEF FrameInv
  <2>3. QED
    BY <2>1, <2>2
<1>12. posting' \subseteq Calls /\ DOMAIN wire' = Calls /\ acked' \in [Calls -> Nat]
  BY <1>1 DEF FrameInv
<1>13. FrameInv'
  BY <1>7, <1>10, <1>11, <1>12 DEF FrameInv
<1>14. QED
  BY <1>8, <1>13

LEMMA StepFrames ==
    ASSUME FrameInv, Next
    PROVE  FrameInv' /\ \A c \in Calls : Extends(c)
PROOF
<1>1. CASE UNCHANGED <<frames, acked, wire>> /\ posting' \subseteq posting
  BY <1>1, FramesStay DEF FrameInv
<1>2. ASSUME NEW c \in Calls, CallerStep(c) \/ ClockStep(c) \/ CallerDies(c) \/ GhostClaims(c)
      PROVE  FrameInv' /\ \A d \in Calls : Extends(d)
  <2>1. UNCHANGED jobVars
    BY <1>2 DEF CallerStep, ClockStep, Check, Insert, Await, GiveUp, ReadRow, ReadChunks, CloseMark,
                CloseSweep, CallerDies, LeaseLapses, DeadlinePasses, GhostClaims
  <2>2. QED
    BY <1>1, <2>1 DEF jobVars
<1>3. ASSUME NEW c \in Calls, Produce(c)
      PROVE  FrameInv' /\ \A d \in Calls : Extends(d)
  <2>1. <<"done">> \in Seq(Kinds) /\ <<"error">> \in Seq(Kinds)
    BY DEF Kinds
  <2>2. PICK ks \in Seq(Kinds), next \in Jobs : Flush(c, ks, next)
    <3>1. CASE \E ks \in Buffered(c) \ {<<>>} : Flush(c, ks, "run")
      BY <3>1, BufferedType DEF Jobs
    <3>2. CASE \E ks \in Buffered(c) : Flush(c, ks \o <<"done">>, "done")
      <4>1. PICK ks \in Buffered(c) : Flush(c, ks \o <<"done">>, "done")
        BY <3>2
      <4>2. ks \o <<"done">> \in Seq(Kinds)
        BY <2>1, BufferedType, ConcatProperties
      <4>3. QED
        BY <4>1, <4>2 DEF Jobs
    <3>3. CASE Flush(c, <<"error">>, "failed")
      BY <2>1, <3>3 DEF Jobs
    <3>4. QED
      BY <1>3, <3>1, <3>2, <3>3 DEF Produce
  <2>3. QED
    BY <2>2, FlushFrames
<1>4. ASSUME NEW c \in Calls, HandleFrames(c) \/ LosePost(c) \/ Resend(c) \/ RetryEnds(c) \/ JobStops(c)
      PROVE  FrameInv' /\ \A d \in Calls : Extends(d)
  <2>1. frames' = frames /\ posting' \subseteq posting
    BY <1>4 DEF HandleFrames, FlushSucceeds, FlushFails, LosePost, Resend, RetryEnds, JobStops
  <2>2. acked' = acked \/ acked' = [acked EXCEPT ![c] = Len(frames[c])]
    BY <1>4 DEF HandleFrames, FlushSucceeds, FlushFails, LosePost, Resend, RetryEnds, JobStops
  <2>3. acked' \in [Calls -> Nat] /\ \A d \in Calls : acked'[d] <= Len(frames[d])
    <3>1. \A d \in Calls : Len(frames[d]) \in Nat /\ Len(frames[d]) <= Len(frames[d])
      BY LenProperties DEF FrameInv
    <3>2. QED
      BY <2>2, <3>1 DEF FrameInv
  <2>4. \/ wire' = wire \/ (\E p : wire' = [wire EXCEPT ![c] = @ \ {p}])
        \/ wire' = [wire EXCEPT ![c] = @ \cup {Unsent(c)}]
    BY <1>4 DEF HandleFrames, LosePost, Resend, RetryEnds, JobStops
  <2>5. DOMAIN wire' = Calls /\ \A d \in Calls : \A p \in wire'[d] : p \in wire[d] \/ Post(d, p)
    BY <2>4, UnsentIsPost DEF FrameInv
  <2>6. QED
    BY <2>1, <2>3, <2>5, FramesStay DEF FrameInv
<1>5. CASE Collect \/ Heartbeat \/ PollSend \/ HandBack
  BY <1>1, <1>5 DEF Collect, Heartbeat, PollSend, HandBack, jobVars
<1>6. CASE Receive \/ DropPoll \/ LoseControl \/ Exit \/ Restart \/ LosePoll \/ StopNode \/ Crash
           \/ \E s \in {"on", "draining", "off"} : SetService(s)
  BY <1>1, <1>6 DEF Receive, DropPoll, LoseControl, Exit, Die, Restart, LosePoll, StopNode, Crash,
                    SetService, jobVars
<1>7. QED
  BY <1>2, <1>3, <1>4, <1>5, <1>6 DEF Next, JobStep, DaemonStep, FaultStep

LEMMA FramesInvariant == Spec => []FrameInv
PROOF
<1>1. ASSUME FrameInv, UNCHANGED vars PROVE FrameInv'
  BY <1>1 DEF FrameInv, Post, vars, jobVars
<1>2. FrameInv /\ [Next]_vars => FrameInv'
  BY <1>1, StepFrames
<1>3. QED
  BY InitFrames, <1>2, PTL DEF Spec

------------------------------------------------------------------------------
(* What the platform has stored of an answer. *)

RowType ==
    [status : Statuses, next : Nat, head : BOOLEAN, fresh : BOOLEAN, overdue : BOOLEAN]

(* The chunks that wait are data frames that were stored; a call that is   *)
(* not done has no end among its frames, the last frame of one that is     *)
(* done is its end; and a row that is gone has left nothing.               *)
Stored(c) ==
    /\ row[c].next <= Len(frames[c])
    /\ ~Exists(c) => chunks[c] = {}
    /\ chunks[c] \subseteq {i \in Data(c) : i <= row[c].next}
    /\ Cardinality(chunks[c]) <= MaxBuffered
    /\ (Exists(c) /\ row[c].status # "done") => \A j \in 1 .. row[c].next : frames[c][j] # "done"
    /\ row[c].status = "done" => row[c].next > 0 /\ frames[c][row[c].next] = "done"

RowInv ==
    /\ row \in [Calls -> RowType] /\ DOMAIN chunks = Calls
    /\ \A c \in Calls : Stored(c)

(* Nothing is stored, and nothing is taken for the end of an answer. *)
Kept(c) ==
    /\ chunks'[c] \subseteq chunks[c]
    /\ \/ /\ row'[c].next = row[c].next
          /\ \/ row'[c].status = row[c].status
             \/ /\ Exists(c) /\ row[c].status # "done"
                /\ row'[c].status \in {"running", "failed", "cancelled"}
       \/ row'[c].next = 0 /\ chunks'[c] = {} /\ row'[c].status # "done"

RowsKept ==
    /\ row' \in [Calls -> RowType] /\ DOMAIN chunks' = Calls
    /\ \A c \in Calls : Kept(c)

LEMMA DataFinite ==
    ASSUME FrameInv, NEW c \in Calls
    PROVE  Data(c) \subseteq 1 .. Len(frames[c]) /\ Data(c) \subseteq Nat /\ IsFiniteSet(Data(c))
PROOF
<1>1. Len(frames[c]) \in Nat
  BY LenProperties DEF FrameInv
<1>2. Data(c) \subseteq 1 .. Len(frames[c])
  BY DEF Data
<1>3. IsFiniteSet(1 .. Len(frames[c]))
  BY <1>1, FS_Interval
<1>4. QED
  BY <1>1, <1>2, <1>3, FS_Subset

(* New data come behind the data. *)
LEMMA DataGrows ==
    ASSUME FrameInv, FrameInv', NEW c \in Calls, Extends(c)
    PROVE  /\ Lower(Data(c), Data(c)')
           /\ \A i \in Data(c)' : i <= Len(frames[c]) => i \in Data(c)
PROOF
<1>1. Len(frames[c]) \in Nat /\ Len(frames'[c]) \in Nat /\ Len(frames[c]) <= Len(frames'[c])
  BY LenProperties DEF FrameInv, Extends
<1>2. ASSUME NEW i \in 1 .. Len(frames[c])
      PROVE  /\ frames'[c][i] = frames[c][i] /\ i \in 1 .. Len(frames'[c])
             /\ \A j \in 1 .. i : frames'[c][j] = frames[c][j]
  BY <1>1 DEF Extends
<1>3. ASSUME NEW i \in 1 .. Len(frames[c]) PROVE i \in Data(c) <=> i \in Data(c)'
  BY <1>2 DEF Data
<1>4. Data(c) \subseteq 1 .. Len(frames[c]) /\ Data(c)' \subseteq 1 .. Len(frames'[c])
  BY DEF Data
<1>5. ASSUME NEW i \in Data(c)', i <= Len(frames[c]) PROVE i \in Data(c)
  BY <1>1, <1>3, <1>4, <1>5
<1>6. ASSUME NEW i \in Data(c), NEW j \in Data(c)', j < i PROVE j \in Data(c)
  BY <1>1, <1>4, <1>5, <1>6
<1>7. Data(c) \subseteq Data(c)'
  BY <1>3, <1>4
<1>8. QED
  BY <1>5, <1>6, <1>7 DEF Lower

LEMMA InitRows == Init => RowInv
PROOF
<1> SUFFICES ASSUME Init PROVE RowInv
  OBVIOUS
<1>1. /\ row = [c \in Calls |-> NoRow] /\ chunks = [c \in Calls |-> {}]
      /\ frames = [c \in Calls |-> <<>>]
  BY DEF Init
<1>2. NoRow \in RowType /\ NoRow.next = 0 /\ NoRow.status = "none"
  BY DEF NoRow, RowType, Statuses
<1>3. Cardinality({}) = 0 /\ MaxBuffered \in Nat
  BY FS_EmptySet, CallLimits
<1>4. ASSUME NEW c \in Calls PROVE Stored(c)
  <2>1. row[c].next = 0 /\ row[c].status = "none" /\ chunks[c] = {} /\ Len(frames[c]) = 0
    BY <1>1, <1>2
  <2>2. QED
    BY <1>3, <2>1 DEF Stored, Exists
<1>5. QED
  BY <1>1, <1>2, <1>4 DEF RowInv

LEMMA KeptIsStored ==
    ASSUME FrameInv, FrameInv', RowInv, RowsKept, \A c \in Calls : Extends(c)
    PROVE  RowInv'
PROOF
<1> SUFFICES ASSUME NEW c \in Calls PROVE Stored(c)'
  BY DEF RowInv, RowsKept
<1>1. Stored(c) /\ Kept(c) /\ Extends(c)
  BY DEF RowInv, RowsKept
<1>2. /\ row[c].next \in Nat /\ row'[c].next \in Nat
      /\ Len(frames[c]) \in Nat /\ Len(frames'[c]) \in Nat /\ Len(frames[c]) <= Len(frames'[c])
      /\ MaxBuffered \in Nat
  BY <1>1, LenProperties, CallLimits DEF RowInv, RowsKept, RowType, FrameInv, Extends
<1>3. Cardinality(chunks'[c]) <= MaxBuffered
  <2>1. IsFiniteSet(chunks[c])
    BY <1>1, DataFinite, FS_Subset DEF Stored
  <2>2. /\ Cardinality(chunks'[c]) <= Cardinality(chunks[c])
        /\ IsFiniteSet(chunks'[c])
    BY <1>1, <2>1, FS_Subset DEF Kept
  <2>3. Cardinality(chunks'[c]) \in Nat /\ Cardinality(chunks[c]) \in Nat
    BY <2>1, <2>2, FS_CardinalityType
  <2>4. QED
    BY <1>1, <1>2, <2>2, <2>3 DEF Stored
<1>4. \A j \in 1 .. row[c].next : frames'[c][j] = frames[c][j]
  BY <1>1, <1>2 DEF Stored, Extends
<1>5. \A i \in Data(c) : i \in Data(c)'
  BY <1>1, DataGrows DEF Lower
<1>6. CASE row'[c].next = row[c].next
  <2>1. chunks'[c] \subseteq {i \in Data(c)' : i <= row'[c].next}
    BY <1>1, <1>5, <1>6 DEF Stored, Kept
  <2>2. row'[c].next <= Len(frames'[c])
    BY <1>1, <1>2, <1>6 DEF Stored
  <2>3. CASE row'[c].status = row[c].status
    BY <1>1, <1>2, <1>3, <1>4, <1>6, <2>1, <2>2, <2>3 DEF Stored, Kept, Exists
  <2>4. CASE /\ Exists(c) /\ row[c].status # "done"
             /\ row'[c].status \in {"running", "failed", "cancelled"}
    BY <1>1, <1>2, <1>3, <1>4, <1>6, <2>1, <2>2, <2>4 DEF Stored, Kept, Exists
  <2>5. CASE row'[c].next = 0 /\ chunks'[c] = {} /\ row'[c].status # "done"
    BY <1>2, <1>3, <2>5 DEF Stored, Exists
  <2>6. QED
    BY <1>1, <2>3, <2>4, <2>5 DEF Kept
<1>7. CASE row'[c].next = 0 /\ chunks'[c] = {} /\ row'[c].status # "done"
  BY <1>2, <1>3, <1>7 DEF Stored, Exists
<1>8. QED
  BY <1>1, <1>6, <1>7 DEF Kept

(* Calls that are ended without an answer. *)
LEMMA EndedKeeps ==
    ASSUME row \in [Calls -> RowType], NEW S, NEW s \in {"failed", "cancelled"}
    PROVE  /\ Ended(S, s) \in [Calls -> RowType]
           /\ \A c \in Calls :
                /\ Ended(S, s)[c].next = row[c].next
                /\ \/ Ended(S, s)[c].status = row[c].status
                   \/ Exists(c) /\ row[c].status # "done" /\ Ended(S, s)[c].status = s
PROOF
<1>1. ASSUME NEW c \in Calls
      PROVE  /\ Ended(S, s)[c] \in RowType /\ Ended(S, s)[c].next = row[c].next
             /\ \/ Ended(S, s)[c].status = row[c].status
                \/ Exists(c) /\ row[c].status # "done" /\ Ended(S, s)[c].status = s
  <2>1. row[c] \in RowType
    OBVIOUS
  <2>2. CASE c \in S /\ Live(c)
    <3>1. Ended(S, s)[c] = [row[c] EXCEPT !.status = s]
      BY <2>2 DEF Ended
    <3>2. Exists(c) /\ row[c].status # "done"
      BY <2>2 DEF Live, Exists
    <3>3. QED
      BY <2>1, <3>1, <3>2 DEF RowType, Statuses, Terminal
  <2>3. CASE ~(c \in S /\ Live(c))
    BY <2>1, <2>3 DEF Ended
  <2>4. QED
    BY <2>2, <2>3
<1>2. QED
  BY <1>1 DEF Ended

LEMMA ClaimKeeps ==
    ASSUME RowInv, NEW S, \A c \in S : row[c].status = "queued", row' = Claim(S), chunks' = chunks
    PROVE  RowsKept
PROOF
<1>1. ASSUME NEW c \in Calls
      PROVE  row'[c] \in RowType /\ Kept(c)
  <2>1. row[c] \in RowType
    BY DEF RowInv
  <2>2. CASE c \in S
    <3>1. row'[c] = [row[c] EXCEPT !.status = "running"] /\ row[c].status = "queued"
      BY <2>2 DEF Claim
    <3>2. QED
      BY <2>1, <3>1 DEF RowType, Statuses, Kept, Exists
  <2>3. CASE c \notin S
    <3>1. row'[c] = row[c]
      BY <2>3 DEF Claim
    <3>2. QED
      BY <2>1, <3>1 DEF Kept
  <2>4. QED
    BY <2>2, <2>3
<1>2. QED
  BY <1>1 DEF RowsKept, RowInv, Claim

(* What callers and the clock do to the row. *)
LEMMA CallersKeepRows ==
    ASSUME CallInv, RowInv, NEW c \in Calls, CallerStep(c) \/ ClockStep(c)
    PROVE  RowsKept
PROOF
<1> USE DEF RowInv, RowsKept
<1>1. CASE row' = row /\ chunks' = chunks
  BY <1>1 DEF Kept
<1>2. CASE Insert(c)
  <2>1. /\ row' = [row EXCEPT ![c] = [NoRow EXCEPT !.status = "queued", !.fresh = TRUE]]
        /\ chunks' = chunks /\ caller[c] = "checked"
    BY <1>2 DEF Insert
  <2>2. row'[c] \in RowType /\ row'[c].status = "queued" /\ row'[c].next = 0
    BY <2>1 DEF NoRow, RowType, Statuses
  <2>3. chunks[c] = {}
    BY <2>1 DEF CallInv, NotYet
  <2>4. \A d \in Calls \ {c} : row'[d] = row[d]
    BY <2>1
  <2>5. row' \in [Calls -> RowType]
    BY <2>1, <2>2
  <2>6. \A d \in Calls : Kept(d)
    BY <2>1, <2>2, <2>3, <2>4 DEF Kept
  <2>7. QED
    BY <2>1, <2>5, <2>6
<1>3. CASE (\E x \in BOOLEAN : row' = [row EXCEPT ![c].fresh = x] \/ row' = [row EXCEPT ![c].overdue = x])
           /\ chunks' = chunks
  <2>1. row[c] \in RowType
    OBVIOUS
  <2>2. PICK x \in BOOLEAN : row' = [row EXCEPT ![c].fresh = x] \/ row' = [row EXCEPT ![c].overdue = x]
    BY <1>3
  <2>3. row'[c] \in RowType /\ row'[c].status = row[c].status /\ row'[c].next = row[c].next
    BY <2>1, <2>2 DEF RowType
  <2>4. \A d \in Calls \ {c} : row'[d] = row[d]
    BY <2>2
  <2>5. row' \in [Calls -> RowType]
    <3>1. DOMAIN row' = Calls /\ row' = [d \in Calls |-> row'[d]]
      BY <2>2
    <3>2. \A d \in Calls : row'[d] \in RowType
      BY <2>3, <2>4
    <3>3. QED
      BY <3>1, <3>2
  <2>6. \A d \in Calls : Kept(d)
    BY <1>3, <2>3, <2>4 DEF Kept
  <2>7. QED
    BY <1>3, <2>5, <2>6
<1>4. CASE ReadChunks(c)
  <2>1. row' = row /\ chunks' = [chunks EXCEPT ![c] = @ \ Batch(c)]
    BY <1>4 DEF ReadChunks
  <2>2. QED
    BY <2>1 DEF Kept
<1>5. CASE CloseSweep(c)
  <2>1. row' = Ended({c}, "cancelled") /\ chunks' = [chunks EXCEPT ![c] = {}]
    BY <1>5 DEF CloseSweep
  <2>2. QED
    BY <2>1, EndedKeeps DEF Kept
<1>6. QED
  <2>1. CASE Await(c) \/ ReadRow(c)
    BY <1>1, <1>3, <2>1 DEF Await, ReadRow, rowVars
  <2>2. CASE LeaseLapses(c) \/ DeadlinePasses(c)
    BY <1>3, <2>2 DEF LeaseLapses, DeadlinePasses
  <2>3. CASE Check(c) \/ GiveUp(c) \/ CloseMark(c)
    BY <1>1, <2>3 DEF Check, GiveUp, CloseMark, rowVars
  <2>4. QED
    BY <1>2, <1>4, <1>5, <2>1, <2>2, <2>3 DEF CallerStep, ClockStep

(* What the platform does to the rows, frames apart. *)
LEMMA PlatformKeepsRows ==
    ASSUME RowInv,
           \/ Collect \/ Heartbeat \/ PollSend \/ HandBack
           \/ \E c \in Calls : GhostClaims(c)
    PROVE  RowsKept
PROOF
<1>1. CASE Collect
  <2>1. PICK S \in SUBSET {c \in Calls : Claimable(c)} : row' = Claim(S)
    BY <1>1 DEF Collect
  <2>2. \A c \in S : row[c].status = "queued"
    BY DEF Claimable
  <2>3. chunks' = chunks
    BY <1>1 DEF Collect
  <2>4. QED
    BY <2>1, <2>2, <2>3, ClaimKeeps
<1>2. ASSUME NEW c \in Calls, GhostClaims(c) PROVE RowsKept
  BY <1>2, ClaimKeeps DEF GhostClaims, Claimable
<1>3. CASE Heartbeat
  <2> DEFINE expired == {c \in Calls : Exists(c) /\ row[c].overdue}
             stale == {c \in Calls : Live(c) /\ Stale(c)}
             gone == [NoRow EXCEPT !.status = "deleted"]
  <2>1. /\ row' = [c \in Calls |-> IF c \in expired THEN gone ELSE Ended(stale, "cancelled")[c]]
        /\ chunks' = [c \in Calls |-> IF c \in expired THEN {} ELSE chunks[c]]
    BY <1>3 DEF Heartbeat
  <2>2. gone \in RowType /\ gone.next = 0 /\ gone.status = "deleted"
    BY DEF NoRow, RowType, Statuses
  <2>3. ASSUME NEW c \in Calls PROVE row'[c] \in RowType /\ Kept(c)
    <3>1. CASE c \in expired
      BY <2>1, <2>2, <3>1 DEF Kept
    <3>2. CASE c \notin expired
      <4>1. row'[c] = Ended(stale, "cancelled")[c] /\ chunks'[c] = chunks[c]
        BY <2>1, <3>2
      <4>2. QED
        BY <4>1, EndedKeeps DEF Kept, RowInv
    <3>3. QED
      BY <3>1, <3>2
  <2>4. QED
    BY <2>1, <2>3 DEF RowsKept
<1>4. CASE PollSend
  <2> DEFINE stale == {c \in Tracked \ asked : Stale(c)} \ abandoned
  <2>1. /\ row' = [c \in Calls |-> IF c \in stale THEN Ended(stale, "cancelled")[c]
                                                  ELSE Ended(abandoned, "failed")[c]]
        /\ chunks' = chunks
    BY <1>4 DEF PollSend
  <2> HIDE DEF stale
  <2>2. ASSUME NEW c \in Calls PROVE row'[c] \in RowType /\ Kept(c)
    <3>1. row'[c] = Ended(stale, "cancelled")[c] \/ row'[c] = Ended(abandoned, "failed")[c]
      BY <2>1
    <3>2. chunks'[c] = chunks[c]
      BY <2>1
    <3>3. QED
      BY <3>1, <3>2, EndedKeeps DEF Kept, RowInv
  <2>3. QED
    BY <2>1, <2>2 DEF RowsKept, RowInv
<1>5. CASE HandBack
  <2>1. row' = Ended(abandoned, "failed") /\ chunks' = chunks
    BY <1>5 DEF HandBack
  <2>2. QED
    BY <2>1, EndedKeeps DEF RowsKept, Kept, RowInv
<1>6. QED
  BY <1>1, <1>2, <1>3, <1>4, <1>5

(* A post that is stored is one of a running call, its new frames follow   *)
(* those stored already, and only its last can be an end.                  *)
LEMMA NewFrames ==
    ASSUME NEW c \in Calls, NEW p, Post(c, p), RowInv, FrameInv,
           Answer(c, p) = "stored", Fresh(c, p) # {}
    PROVE  /\ row[c].status = "running" /\ p.from <= row[c].next
           /\ Last(c, p) \in Nat /\ row[c].next < Last(c, p) /\ Last(c, p) <= Len(frames[c])
           /\ p.items[Len(p.items)] = frames[c][Last(c, p)]
           /\ \A j \in 1 .. Last(c, p) - 1 : frames[c][j] # "done"
           /\ DataIn(c, p) = {n \in Data(c) : row[c].next < n /\ n <= Last(c, p)}
           /\ Cardinality(chunks[c] \cup DataIn(c, p)) <= MaxBuffered
PROOF
<1> DEFINE f == p.from
           m == Len(p.items)
           n == row[c].next
           L == Len(frames[c])
<1>1. /\ f \in Nat /\ m \in Nat /\ n \in Nat /\ L \in Nat /\ f + m <= L /\ n <= L
      /\ \A i \in 1 .. m : p.items[i] = frames[c][f + i]
  <2>1. Stored(c) /\ row[c] \in RowType
    BY DEF RowInv
  <2>2. QED
    BY <2>1, LenProperties DEF Post, FrameInv, Stored, RowType
<1>2. ~Refused(c, p) /\ ~BufferFull(c, p)
  BY DEF Answer
<1>3. /\ row[c].status = "running" /\ f <= n
      /\ \A i \in Fresh(c, p) : i < m => p.items[i] # "done"
  <2>1. row[c].status = "running" /\ ~(f > n) /\ \A i \in Fresh(c, p) : i < m => p.items[i] # "done"
    BY <1>2 DEF Refused
  <2>2. QED
    BY <1>1, <2>1
<1>4. Fresh(c, p) = {i \in 1 .. m : f + i > n} /\ Last(c, p) = f + m
  BY DEF Fresh, Last
<1>5. \A j \in 1 .. n : frames[c][j] # "done"
  BY <1>3 DEF RowInv, Stored, Exists
<1> HIDE DEF f, m, n, L
<1>6. n < f + m /\ f + m \in Nat
  <2>1. PICK i \in 1 .. m : f + i > n
    BY <1>4
  <2>2. QED
    BY <1>1, <2>1
<1>7. p.items[m] = frames[c][f + m]
  <2>1. m \in 1 .. m
    BY <1>1, <1>3, <1>6
  <2>2. QED
    BY <1>1, <2>1
<1>8. ASSUME NEW j \in 1 .. f + m - 1 PROVE frames[c][j] # "done"
  <2>1. CASE j <= n
    BY <1>1, <1>5, <2>1
  <2>2. CASE j > n
    <3>1. j - f \in 1 .. m /\ j - f < m /\ f + (j - f) = j
      BY <1>1, <1>3, <2>2
    <3>2. j - f \in Fresh(c, p)
      BY <1>4, <2>2, <3>1
    <3>3. p.items[j - f] # "done" /\ p.items[j - f] = frames[c][f + (j - f)]
      BY <1>1, <1>3, <3>1, <3>2
    <3>4. QED
      BY <3>1, <3>3
  <2>3. QED
    BY <1>1, <2>1, <2>2
<1>9. ASSUME NEW k \in DataIn(c, p) PROVE k \in Data(c) /\ n < k /\ k <= f + m
  <2>1. PICK i \in Fresh(c, p) : p.items[i] = "data" /\ k = f + i
    BY DEF DataIn, f
  <2>2. i \in 1 .. m /\ k > n /\ k \in 1 .. L /\ k <= f + m
    BY <1>1, <1>4, <2>1
  <2>3. frames[c][k] = "data"
    BY <1>1, <2>1, <2>2
  <2>4. ASSUME NEW j \in 1 .. k PROVE frames[c][j] # "done"
    <3>1. CASE j = k
      BY <2>3, <3>1
    <3>2. CASE j # k
      <4>1. j \in 1 .. f + m - 1
        BY <1>1, <2>2, <3>2
      <4>2. QED
        BY <1>8, <4>1
    <3>3. QED
      BY <3>1, <3>2
  <2>5. QED
    BY <2>2, <2>3, <2>4 DEF Data, L
<1>10. ASSUME NEW k \in Data(c), n < k, k <= f + m PROVE k \in DataIn(c, p)
  <2>1. k \in 1 .. L /\ frames[c][k] = "data"
    BY DEF Data, L
  <2>2. k - f \in 1 .. m /\ f + (k - f) = k
    BY <1>1, <1>3, <1>10, <2>1
  <2>3. k - f \in Fresh(c, p) /\ p.items[k - f] = "data"
    BY <1>1, <1>4, <1>10, <2>1, <2>2
  <2>4. QED
    BY <2>2, <2>3 DEF DataIn, f
<1>11. Cardinality(chunks[c] \cup DataIn(c, p)) <= MaxBuffered
  <2>1. chunks[c] \subseteq Data(c) /\ Cardinality(chunks[c]) <= MaxBuffered
    BY DEF RowInv, Stored
  <2>2. CASE DataIn(c, p) = {}
    <3>1. chunks[c] \cup DataIn(c, p) = chunks[c]
      BY <2>2
    <3>2. QED
      BY <2>1, <3>1
  <2>3. CASE DataIn(c, p) # {}
    <3>1. chunks[c] \cup DataIn(c, p) \subseteq Data(c)
      BY <1>9, <2>1
    <3>2. IsFiniteSet(chunks[c] \cup DataIn(c, p))
      BY <3>1, DataFinite, FS_Subset
    <3>3. Cardinality(chunks[c] \cup DataIn(c, p)) \in Nat /\ MaxBuffered \in Nat
      BY <3>2, FS_CardinalityType, CallLimits
    <3>4. QED
      BY <1>2, <2>3, <3>3 DEF BufferFull
  <2>4. QED
    BY <2>2, <2>3
<1>12. DataIn(c, p) = {k \in Data(c) : n < k /\ k <= f + m}
  BY <1>9, <1>10
<1>13. QED
  BY <1>1, <1>3, <1>4, <1>6, <1>7, <1>8, <1>11, <1>12 DEF f, m, n, L

LEMMA StoreRows ==
    ASSUME NEW c \in Calls, NEW p, Post(c, p), RowInv, FrameInv, frames' = frames, Store(c, p)
    PROVE  RowInv'
PROOF
<1>1. CASE Answer(c, p) = "stored" /\ Fresh(c, p) # {}
  <2> DEFINE last == p.items[Len(p.items)]
             end == CASE last = "done" -> "done"
                      [] last = "error" -> "failed"
                      [] OTHER -> row[c].status
             head == row[c].head \/ (p.from = 0 /\ p.items[1] = "head")
  <2>1. /\ row' = [row EXCEPT ![c].next = Last(c, p), ![c].head = head, ![c].status = end]
        /\ chunks' = [chunks EXCEPT ![c] = @ \cup DataIn(c, p)]
    BY <1>1 DEF Store
  <2>2. /\ row[c].status = "running"
        /\ Last(c, p) \in Nat /\ row[c].next < Last(c, p) /\ Last(c, p) <= Len(frames[c])
        /\ last = frames[c][Last(c, p)]
        /\ \A j \in 1 .. Last(c, p) - 1 : frames[c][j] # "done"
        /\ DataIn(c, p) \subseteq {n \in Data(c) : row[c].next < n /\ n <= Last(c, p)}
        /\ Cardinality(chunks[c] \cup DataIn(c, p)) <= MaxBuffered
    BY <1>1, NewFrames
  <2>3. /\ end \in {"done", "failed", "running"} /\ head \in BOOLEAN
        /\ end = "done" <=> last = "done"
    BY <2>2 DEF RowInv, RowType
  <2> HIDE DEF end, head, last
  <2>4. row[c] \in RowType /\ Stored(c)
    BY DEF RowInv
  <2>5. row'[c] = [row[c] EXCEPT !.next = Last(c, p), !.head = head, !.status = end]
    BY <2>1 DEF RowInv
  <2>6. row'[c] \in RowType /\ row'[c].next = Last(c, p) /\ row'[c].status = end
    BY <2>2, <2>3, <2>4, <2>5 DEF RowType, Statuses, Terminal
  <2>7. \A d \in Calls \ {c} : row'[d] = row[d] /\ chunks'[d] = chunks[d]
    BY <2>1 DEF RowInv
  <2>8. row' \in [Calls -> RowType] /\ DOMAIN chunks' = Calls
    <3>1. DOMAIN row' = Calls /\ row' = [d \in Calls |-> row'[d]] /\ DOMAIN chunks' = Calls
      BY <2>1 DEF RowInv
    <3>2. \A d \in Calls : row'[d] \in RowType
      BY <2>6, <2>7 DEF RowInv
    <3>3. QED
      BY <3>1, <3>2
  <2>9. chunks'[c] = chunks[c] \cup DataIn(c, p)
    BY <2>1 DEF RowInv
  <2>10. Stored(c)'
    <3>1. row[c].next \in Nat
      BY <2>4 DEF RowType
    <3>2. chunks'[c] \subseteq {n \in Data(c) : n <= Last(c, p)}
      <4>1. \A n \in chunks[c] : n \in Data(c) /\ n <= row[c].next /\ n \in Nat
        BY <2>4, DataFinite DEF Stored
      <4>2. \A n \in chunks[c] : n <= Last(c, p)
        BY <2>2, <3>1, <4>1
      <4>3. QED
        BY <2>2, <2>9, <4>1, <4>2
    <3>3. Data(c)' = Data(c)
      BY DEF Data
    <3>4. last # "done" => \A j \in 1 .. Last(c, p) : frames[c][j] # "done"
      BY <2>2
    <3>5. end = "done" => Last(c, p) > 0 /\ frames[c][Last(c, p)] = "done"
      BY <2>2, <2>3, <3>1
    <3>6. end \notin {"none", "deleted"}
      BY <2>3
    <3>7. QED
      BY <2>2, <2>3, <2>6, <2>9, <3>2, <3>3, <3>4, <3>5, <3>6 DEF Stored, Exists
  <2>11. ASSUME NEW d \in Calls \ {c} PROVE Stored(d)'
    BY <2>7 DEF RowInv, Stored, Exists, Data
  <2>12. QED
    BY <2>8, <2>10, <2>11 DEF RowInv
<1>2. CASE UNCHANGED rowVars
  BY <1>2 DEF rowVars, RowInv, Stored, Exists, Data
<1>3. QED
  BY <1>1, <1>2 DEF Store

LEMMA StepRows ==
    ASSUME CallInv, FrameInv, FrameInv', RowInv, \A c \in Calls : Extends(c), Next
    PROVE  RowInv'
PROOF
<1>1. ASSUME row' = row, chunks' = chunks PROVE RowInv'
  BY <1>1, KeptIsStored DEF RowsKept, RowInv, Kept
<1>2. ASSUME NEW c \in Calls, CallerStep(c) \/ ClockStep(c) PROVE RowInv'
  BY <1>2, CallersKeepRows, KeptIsStored
<1>3. CASE Collect \/ Heartbeat \/ PollSend \/ HandBack \/ \E c \in Calls : GhostClaims(c)
  BY <1>3, PlatformKeepsRows, KeptIsStored
<1>4. ASSUME NEW c \in Calls, HandleFrames(c) PROVE RowInv'
  <2>1. PICK p \in wire[c] : Store(c, p) /\ frames' = frames
    BY <1>4 DEF HandleFrames
  <2>2. Post(c, p)
    BY <2>1 DEF FrameInv
  <2>3. QED
    BY <2>1, <2>2, StoreRows
<1>5. ASSUME NEW c \in Calls,
             \/ Produce(c) \/ Resend(c) \/ RetryEnds(c) \/ JobStops(c)
             \/ CallerDies(c) \/ LosePost(c)
      PROVE  RowInv'
  BY <1>1, <1>5 DEF Produce, Flush, Resend, RetryEnds, JobStops, CallerDies, LosePost, rowVars
<1>6. CASE Receive \/ DropPoll \/ LoseControl \/ Exit \/ Restart \/ LosePoll \/ StopNode \/ Crash
           \/ \E s \in {"on", "draining", "off"} : SetService(s)
  BY <1>1, <1>6 DEF Receive, DropPoll, LoseControl, Exit, Die, Restart, LosePoll, StopNode, Crash,
                    SetService, rowVars
<1>7. QED
  BY <1>2, <1>3, <1>4, <1>5, <1>6 DEF Next, JobStep, DaemonStep, FaultStep

LEMMA RowsInvariant == Spec => []RowInv
PROOF
<1>1. ASSUME RowInv, UNCHANGED vars PROVE RowInv'
  BY <1>1 DEF RowInv, Stored, Exists, Data, vars, jobVars, rowVars
<1>2. CallInv /\ FrameInv /\ FrameInv' /\ RowInv /\ [Next]_vars => RowInv'
  BY <1>1, StepRows, StepFrames
<1>3. QED
  BY InitRows, <1>2, CallInvariant, FramesInvariant, PTL DEF Spec

------------------------------------------------------------------------------
(* What a reader has read. *)

Verdicts == {"none", "whole", "broken", "busy"}

ReaderTypes ==
    /\ seen \in [Calls -> Statuses] /\ got \in [Calls -> Seq(Nat)]
    /\ verdict \in [Calls -> Verdicts]

Open == {"queued", "accepted", "reading", "batch"}
Early == {"new", "checked"}

(* The data that were stored and are not waiting: they have been read. *)
ReadSet(c) == {i \in Data(c) : i <= row[c].next} \ chunks[c]
InSequence(c) == \A i \in ReadSet(c), j \in chunks[c] : i < j

(* What a status that was read before the chunks still says of them. *)
StillTrue(c) ==
    /\ Exists(c) /\ ~row[c].overdue
    /\ seen[c] = "done" => row[c].status = "done"

(* An open reader has what has been read, in order, and what waits comes   *)
(* after that; it was told nothing yet.                                    *)
Reading(c) ==
    /\ caller[c] \in Early => got[c] = <<>>
    /\ caller[c] \in Early \cup Open => verdict[c] = "none"
    /\ caller[c] = "batch" => StillTrue(c)
    /\ (caller[c] \in Open /\ Exists(c)) => got[c] = InOrder(ReadSet(c)) /\ InSequence(c)

(* Whatever becomes of the row, a reader has a beginning of the answer. *)
HasPrefix(c) == \E G \in SUBSET Data(c) : Lower(G, Data(c)) /\ got[c] = InOrder(G)

(* One that was told so has all of it. *)
HasWhole(c) ==
    verdict[c] = "whole" =>
        /\ got[c] = InOrder(Data(c))
        /\ \E j \in 1 .. Len(frames[c]) : frames[c][j] = "done"

Reads(c) == Reading(c) /\ HasPrefix(c) /\ HasWhole(c)
ReadInv == ReaderTypes /\ \A c \in Calls : Reads(c)

LEMMA InOrderOfNone == InOrder({}) = <<>>
PROOF
<1>1. Cardinality({}) = 0 /\ IsFiniteSet({})
  BY FS_EmptySet
<1>2. InOrder({}) \in Seq(Nat) /\ Len(InOrder({})) = 0
  BY <1>1, InOrderList
<1>3. QED
  BY <1>2, EmptySeq

LEMMA InitReads == Init => ReadInv
PROOF
<1> SUFFICES ASSUME Init PROVE ReadInv
  OBVIOUS
<1>1. /\ seen = [c \in Calls |-> "none"] /\ got = [c \in Calls |-> <<>>]
      /\ verdict = [c \in Calls |-> "none"] /\ caller = [c \in Calls |-> "new"]
  BY DEF Init
<1>2. <<>> \in Seq(Nat)
  BY EmptySeq
<1>3. ReaderTypes
  BY <1>1, <1>2 DEF ReaderTypes, Statuses, Verdicts
<1>4. ASSUME NEW c \in Calls PROVE Reads(c)
  <2>1. Lower({}, Data(c)) /\ got[c] = InOrder({})
    BY <1>1, InOrderOfNone DEF Lower
  <2>2. HasPrefix(c)
    BY <2>1 DEF HasPrefix
  <2>3. Reading(c) /\ HasWhole(c)
    BY <1>1 DEF Reading, HasWhole, Open, Early
  <2>4. QED
    BY <2>2, <2>3 DEF Reads
<1>5. QED
  BY <1>3, <1>4 DEF ReadInv

(* More data do not make a beginning anything else. *)
LEMMA PrefixStays ==
    ASSUME FrameInv, FrameInv', NEW c \in Calls, Extends(c), HasPrefix(c), got'[c] = got[c]
    PROVE  HasPrefix(c)'
PROOF
<1>1. PICK G \in SUBSET Data(c) : Lower(G, Data(c)) /\ got[c] = InOrder(G)
  BY DEF HasPrefix
<1>2. Lower(Data(c), Data(c)')
  BY DataGrows
<1>3. G \in SUBSET Data(c)' /\ Lower(G, Data(c)')
  BY <1>1, <1>2 DEF Lower
<1>4. got'[c] = InOrder(G)
  BY <1>1
<1>5. QED
  BY <1>3, <1>4 DEF HasPrefix

(* Nothing is added to data that have come to their end. *)
LEMMA WholeStays ==
    ASSUME FrameInv, FrameInv', NEW c \in Calls, Extends(c), HasWhole(c), got'[c] = got[c],
           verdict'[c] = "whole" => verdict[c] = "whole"
    PROVE  HasWhole(c)'
PROOF
<1> SUFFICES ASSUME verdict'[c] = "whole"
             PROVE  /\ got'[c] = InOrder(Data(c)')
                    /\ \E j \in 1 .. Len(frames'[c]) : frames'[c][j] = "done"
  BY DEF HasWhole
<1>1. PICK j \in 1 .. Len(frames[c]) : frames[c][j] = "done"
  BY DEF HasWhole
<1>2. Len(frames[c]) \in Nat /\ Len(frames'[c]) \in Nat /\ Len(frames[c]) <= Len(frames'[c])
  BY LenProperties DEF FrameInv, Extends
<1>3. j \in 1 .. Len(frames'[c]) /\ frames'[c][j] = "done"
  BY <1>1, <1>2 DEF Extends
<1>4. ASSUME NEW i \in Data(c)' PROVE i \in Data(c)
  <2>1. i \in 1 .. Len(frames'[c]) /\ \A k \in 1 .. i : frames'[c][k] # "done"
    BY DEF Data
  <2>2. i < j
    BY <1>2, <1>3, <2>1
  <2>3. QED
    BY <1>2, <2>1, <2>2, DataGrows
<1>5. Data(c)' = Data(c)
  BY <1>4, DataGrows DEF Lower
<1>6. got'[c] = InOrder(Data(c))
  BY DEF HasWhole
<1>7. QED
  BY <1>3, <1>5, <1>6

(* What has to be shown of a step that reads nothing. *)
LEMMA ReadStays ==
    ASSUME FrameInv, FrameInv', NEW c \in Calls, Extends(c), Reads(c), got'[c] = got[c],
           verdict'[c] = "whole" => verdict[c] = "whole",
           caller'[c] \in Early => caller[c] \in Early,
           caller'[c] \in Early \cup Open =>
               caller[c] \in Early \cup Open /\ verdict'[c] = verdict[c],
           caller'[c] = "batch" => StillTrue(c)',
           (caller'[c] \in Open /\ Exists(c)') =>
               got[c] = InOrder(ReadSet(c)') /\ InSequence(c)'
    PROVE  Reads(c)'
PROOF
<1>1. HasPrefix(c)'
  BY PrefixStays DEF Reads
<1>2. HasWhole(c)'
  BY WholeStays DEF Reads
<1>3. Reading(c)'
  <2>1. /\ caller'[c] \in Early => got'[c] = <<>>
        /\ caller'[c] \in Early \cup Open => verdict'[c] = "none"
    BY DEF Reads, Reading
  <2>2. (caller'[c] \in Open /\ Exists(c)') => got'[c] = InOrder(ReadSet(c)') /\ InSequence(c)'
    OBVIOUS
  <2>3. InOrder(ReadSet(c)') = InOrder(ReadSet(c))'
    BY DEF InOrder
  <2>4. QED
    BY <2>1, <2>2, <2>3 DEF Reading
<1>4. QED
  BY <1>1, <1>2, <1>3 DEF Reads

(* The row goes on without news for its reader, or it goes. *)
Calm(c) ==
    /\ Exists(c)' => /\ Exists(c) /\ ReadSet(c)' = ReadSet(c)
                     /\ InSequence(c) => InSequence(c)'
    /\ (Exists(c) /\ ~row[c].overdue) => Exists(c)'
    /\ (caller[c] = "batch" /\ row'[c].overdue) => row[c].overdue
    /\ (row[c].status = "done" /\ Exists(c)') => row'[c].status = "done"

(* A calm row, and a caller that stays or leaves. *)
LEMMA CalmReads ==
    ASSUME FrameInv, FrameInv', NEW c \in Calls, Extends(c), Reads(c), Calm(c), got'[c] = got[c],
           verdict'[c] = "whole" => verdict[c] = "whole",
           \/ caller'[c] \notin Early \cup Open
           \/ /\ verdict'[c] = verdict[c]
              /\ \/ caller'[c] = caller[c] /\ seen'[c] = seen[c]
                 \/ caller'[c] \in Open \ {"batch"} /\ caller[c] \in Open
                 \/ caller'[c] = "checked" /\ caller[c] = "new"
    PROVE  Reads(c)'
PROOF
<1>1. /\ caller'[c] \in Early => caller[c] \in Early
      /\ caller'[c] \in Early \cup Open =>
             caller[c] \in Early \cup Open /\ verdict'[c] = verdict[c]
  BY DEF Open, Early
<1>2. caller'[c] = "batch" => StillTrue(c)'
  <2> SUFFICES ASSUME caller'[c] = "batch" PROVE StillTrue(c)'
    OBVIOUS
  <2>1. caller[c] = "batch" /\ seen'[c] = seen[c]
    BY DEF Open, Early
  <2>2. StillTrue(c)
    BY <2>1 DEF Reads, Reading
  <2>3. Exists(c)' /\ ~row'[c].overdue /\ (seen[c] = "done" => row'[c].status = "done")
    BY <2>1, <2>2 DEF StillTrue, Calm
  <2>4. QED
    BY <2>1, <2>3 DEF StillTrue
<1>3. (caller'[c] \in Open /\ Exists(c)') => got[c] = InOrder(ReadSet(c)') /\ InSequence(c)'
  <2> SUFFICES ASSUME caller'[c] \in Open, Exists(c)'
               PROVE  got[c] = InOrder(ReadSet(c)') /\ InSequence(c)'
    OBVIOUS
  <2>1. caller[c] \in Open
    BY DEF Open, Early
  <2>2. Exists(c) /\ ReadSet(c)' = ReadSet(c) /\ (InSequence(c) => InSequence(c)')
    BY DEF Calm
  <2>3. got[c] = InOrder(ReadSet(c)) /\ InSequence(c)
    BY <2>1, <2>2 DEF Reads, Reading
  <2>4. QED
    BY <2>2, <2>3
<1>4. QED
  BY <1>1, <1>2, <1>3, ReadStays

(* Rows and chunks of which nothing was read or stored. *)
LEMMA CalmIfSame ==
    ASSUME FrameInv, FrameInv', RowInv, NEW c \in Calls, Extends(c), chunks'[c] = chunks[c],
           row'[c].next = row[c].next,
           Exists(c)' <=> Exists(c),
           (caller[c] = "batch" /\ row'[c].overdue) => row[c].overdue,
           row[c].status = "done" => row'[c].status = "done"
    PROVE  Calm(c)
PROOF
<1>1. row[c].next \in Nat /\ row[c].next <= Len(frames[c]) /\ Len(frames[c]) \in Nat
  BY LenProperties DEF RowInv, RowType, Stored, FrameInv
<1>2. Data(c) \subseteq Nat /\ Data(c)' \subseteq Nat
  BY DataFinite DEF Data
<1>3. ASSUME NEW i \in Nat, i <= row[c].next PROVE i \in Data(c)' <=> i \in Data(c)
  BY <1>1, <1>3, DataGrows DEF Lower
<1>4. {i \in Data(c)' : i <= row[c].next} = {i \in Data(c) : i <= row[c].next}
  BY <1>2, <1>3
<1>5. ReadSet(c)' = ReadSet(c)
  BY <1>4 DEF ReadSet
<1>6. InSequence(c) => InSequence(c)'
  BY <1>5 DEF InSequence
<1>7. QED
  BY <1>5, <1>6 DEF Calm

LEMMA StoreCalm ==
    ASSUME NEW c \in Calls, NEW p, Post(c, p), RowInv, FrameInv, FrameInv', frames' = frames,
           Store(c, p), NEW d \in Calls
    PROVE  Calm(d)
PROOF
<1>1. Extends(d)
  BY LenProperties DEF FrameInv, Extends
<1>2. CASE UNCHANGED rowVars
  BY <1>1, <1>2, CalmIfSame DEF rowVars, Exists
<1>3. CASE Answer(c, p) = "stored" /\ Fresh(c, p) # {}
  <2> DEFINE last == p.items[Len(p.items)]
             end == CASE last = "done" -> "done"
                      [] last = "error" -> "failed"
                      [] OTHER -> row[c].status
             head == row[c].head \/ (p.from = 0 /\ p.items[1] = "head")
  <2>1. /\ row' = [row EXCEPT ![c].next = Last(c, p), ![c].head = head, ![c].status = end]
        /\ chunks' = [chunks EXCEPT ![c] = @ \cup DataIn(c, p)]
    BY <1>3 DEF Store
  <2>2. /\ row[c].status = "running" /\ row[c].next < Last(c, p) /\ Last(c, p) \in Nat
        /\ DataIn(c, p) = {n \in Data(c) : row[c].next < n /\ n <= Last(c, p)}
    BY <1>3, NewFrames
  <2>3. end \in {"done", "failed", "running"}
    BY <2>2
  <2> HIDE DEF end, head
  <2>4. CASE d # c
    <3>1. row'[d] = row[d] /\ chunks'[d] = chunks[d]
      BY <2>1, <2>4 DEF RowInv
    <3>2. QED
      BY <1>1, <3>1, CalmIfSame DEF Exists
  <2>5. CASE d = c
    <3>1. /\ row'[c].next = Last(c, p) /\ row'[c].status = end /\ row'[c].overdue = row[c].overdue
          /\ chunks'[c] = chunks[c] \cup DataIn(c, p) /\ row[c].next \in Nat
      BY <2>1 DEF RowInv, RowType
    <3>2. Data(c)' = Data(c) /\ Data(c) \subseteq Nat
      BY DataFinite DEF Data
    <3>3. ReadSet(c)' = ReadSet(c)
      <4>1. ReadSet(c)' = {i \in Data(c) : i <= Last(c, p)} \ (chunks[c] \cup DataIn(c, p))
        BY <3>1, <3>2 DEF ReadSet
      <4>2. \A i \in Data(c) : i <= Last(c, p) /\ i \notin DataIn(c, p) <=> i <= row[c].next
        BY <2>2, <3>1, <3>2
      <4>3. QED
        BY <4>1, <4>2 DEF ReadSet
    <3>4. InSequence(c) => InSequence(c)'
      <4>1. \A i \in ReadSet(c), j \in DataIn(c, p) : i < j
        BY <2>2, <3>1, <3>2 DEF ReadSet
      <4>2. QED
        BY <3>1, <3>3, <4>1 DEF InSequence
    <3>5. Exists(c) /\ Exists(c)'
      BY <2>2, <2>3, <3>1 DEF Exists
    <3>6. QED
      BY <2>2, <2>5, <3>1, <3>3, <3>4, <3>5 DEF Calm
  <2>6. QED
    BY <2>4, <2>5
<1>4. QED
  BY <1>2, <1>3 DEF Store

(* An ended call is as before, but for its status. *)
LEMMA EndedSame ==
    ASSUME RowInv, NEW S, NEW s \in {"failed", "cancelled"}, NEW c \in Calls
    PROVE  LET r == Ended(S, s)[c]
           IN  /\ r.next = row[c].next /\ r.overdue = row[c].overdue
               /\ row[c].status = "done" => r.status = "done"
               /\ r.status \notin {"none", "deleted"} <=> Exists(c)
PROOF
<1>1. row[c] \in RowType
  BY DEF RowInv
<1>2. CASE c \in S /\ Live(c)
  <2>1. Ended(S, s)[c] = [row[c] EXCEPT !.status = s]
    BY <1>2 DEF Ended
  <2>2. Exists(c) /\ row[c].status # "done"
    BY <1>2 DEF Live, Exists
  <2>3. QED
    BY <1>1, <2>1, <2>2 DEF RowType
<1>3. CASE ~(c \in S /\ Live(c))
  BY <1>3 DEF Ended, Exists
<1>4. QED
  BY <1>2, <1>3

LEMMA ClaimSame ==
    ASSUME RowInv, NEW S, \A c \in S : row[c].status = "queued", NEW c \in Calls
    PROVE  LET r == Claim(S)[c]
           IN  /\ r.next = row[c].next /\ r.overdue = row[c].overdue
               /\ row[c].status = "done" => r.status = "done"
               /\ r.status \notin {"none", "deleted"} <=> Exists(c)
PROOF
<1>1. row[c] \in RowType
  BY DEF RowInv
<1>2. CASE c \in S
  <2>1. Claim(S)[c] = [row[c] EXCEPT !.status = "running"] /\ row[c].status = "queued"
    BY <1>2 DEF Claim
  <2>2. QED
    BY <1>1, <2>1 DEF RowType, Exists
<1>3. CASE c \notin S
  BY <1>3 DEF Claim, Exists
<1>4. QED
  BY <1>2, <1>3

LEMMA PlatformCalm ==
    ASSUME FrameInv, FrameInv', RowInv, \A c \in Calls : Extends(c),
           \/ Collect \/ Heartbeat \/ PollSend \/ HandBack
           \/ \E c \in Calls : GhostClaims(c),
           NEW d \in Calls
    PROVE  Calm(d)
PROOF
<1>1. ASSUME NEW S, \A c \in S : row[c].status = "queued", row' = Claim(S), chunks' = chunks
      PROVE  Calm(d)
  BY <1>1, ClaimSame, CalmIfSame DEF Exists
<1>2. ASSUME NEW S, NEW s \in {"failed", "cancelled"}, row'[d] = Ended(S, s)[d], chunks'[d] = chunks[d]
      PROVE  Calm(d)
  BY <1>2, EndedSame, CalmIfSame DEF Exists
<1>3. CASE Collect
  <2>1. PICK S \in SUBSET {c \in Calls : Claimable(c)} : row' = Claim(S)
    BY <1>3 DEF Collect
  <2>2. chunks' = chunks /\ \A c \in S : row[c].status = "queued"
    BY <1>3 DEF Collect, Claimable
  <2>3. QED
    BY <1>1, <2>1, <2>2
<1>4. ASSUME NEW c \in Calls, GhostClaims(c) PROVE Calm(d)
  BY <1>1, <1>4 DEF GhostClaims, Claimable
<1>5. CASE Heartbeat
  <2> DEFINE expired == {c \in Calls : Exists(c) /\ row[c].overdue}
             stale == {c \in Calls : Live(c) /\ Stale(c)}
             gone == [NoRow EXCEPT !.status = "deleted"]
  <2>1. /\ row' = [c \in Calls |-> IF c \in expired THEN gone ELSE Ended(stale, "cancelled")[c]]
        /\ chunks' = [c \in Calls |-> IF c \in expired THEN {} ELSE chunks[c]]
    BY <1>5 DEF Heartbeat
  <2>2. gone.status = "deleted" /\ gone.overdue = FALSE
    BY DEF NoRow
  <2>3. CASE d \in expired
    <3>1. row'[d] = gone
      BY <2>1, <2>3
    <3> HIDE DEF gone
    <3>2. ~Exists(d)' /\ ~row'[d].overdue
      BY <2>2, <3>1 DEF Exists
    <3>3. row[d].overdue
      BY <2>3
    <3>4. QED
      BY <3>2, <3>3 DEF Calm
  <2>4. CASE d \notin expired
    <3>1. row'[d] = Ended(stale, "cancelled")[d] /\ chunks'[d] = chunks[d]
      BY <2>1, <2>4
    <3> HIDE DEF stale
    <3>2. QED
      BY <3>1, EndedSame, CalmIfSame DEF Exists
  <2>5. QED
    BY <2>3, <2>4
<1>6. CASE PollSend
  <2> DEFINE stale == {c \in Tracked \ asked : Stale(c)} \ abandoned
  <2>1. /\ row' = [c \in Calls |-> IF c \in stale THEN Ended(stale, "cancelled")[c]
                                                  ELSE Ended(abandoned, "failed")[c]]
        /\ chunks' = chunks
    BY <1>6 DEF PollSend
  <2> HIDE DEF stale
  <2>2. row'[d] = Ended(stale, "cancelled")[d] \/ row'[d] = Ended(abandoned, "failed")[d]
    BY <2>1
  <2>3. QED
    BY <2>1, <2>2, EndedSame, CalmIfSame DEF Exists
<1>7. CASE HandBack
  <2>1. row' = Ended(abandoned, "failed") /\ chunks' = chunks
    BY <1>7 DEF HandBack
  <2>2. QED
    BY <2>1, EndedSame, CalmIfSame DEF Exists
<1>8. QED
  BY <1>3, <1>4, <1>5, <1>6, <1>7

(* A batch that is read comes after what was read before. *)
LEMMA BatchReads ==
    ASSUME CallInv, FrameInv, FrameInv', RowInv, ReadInv, NEW c \in Calls, ReadChunks(c)
    PROVE  ReadInv'
PROOF
<1> DEFINE B == Batch(c)
           R == ReadSet(c)
<1>1. /\ caller[c] = "batch" /\ row' = row /\ frames' = frames
      /\ chunks' = [chunks EXCEPT ![c] = @ \ B]
      /\ got' = [got EXCEPT ![c] = @ \o InOrder(B)]
      /\ seen' = [seen EXCEPT ![c] = "none"]
  BY DEF ReadChunks, jobVars
<1>2. /\ \/ Complete(c, B) /\ verdict' = [verdict EXCEPT ![c] = "whole"]
                           /\ caller' = [caller EXCEPT ![c] = "mark"]
         \/ verdict' = [verdict EXCEPT ![c] = "broken"] /\ caller' = [caller EXCEPT ![c] = "mark"]
         \/ verdict' = verdict /\ caller' = [caller EXCEPT ![c] = "reading"]
  BY DEF ReadChunks, Leave
<1>3. Reads(c) /\ StillTrue(c) /\ got[c] = InOrder(R) /\ InSequence(c)
  BY <1>1 DEF ReadInv, Reads, Reading, StillTrue, Open
<1>4. /\ Data(c) \subseteq Nat /\ IsFiniteSet(Data(c)) /\ R \subseteq Data(c) /\ chunks[c] \subseteq Data(c)
      /\ Stored(c) /\ row[c] \in RowType
  BY DataFinite DEF RowInv, Stored, ReadSet
<1>5. Lower(B, chunks[c]) /\ (B = {} => chunks[c] = {})
  <2>1. chunks[c] \subseteq Nat /\ IsFiniteSet(chunks[c]) /\ ReadLimit \in Nat \ {0}
    BY <1>4, FS_Subset, CallLimits
  <2>2. QED
    BY <2>1, FirstAreLower DEF Batch
<1>6. /\ Data(c)' = Data(c)
      /\ \A d \in Calls \ {c} : Data(d)' = Data(d)
  BY <1>1 DEF Data
<1>7. chunks'[c] = chunks[c] \ B /\ \A d \in Calls \ {c} : chunks'[d] = chunks[d]
  BY <1>1 DEF RowInv
<1>8. got'[c] = got[c] \o InOrder(B) /\ \A d \in Calls \ {c} : got'[d] = got[d]
  BY <1>1 DEF ReadInv, ReaderTypes
<1> HIDE DEF B, R
<1>9. ReadSet(c)' = R \cup B
  <2>1. ReadSet(c)' = {i \in Data(c) : i <= row[c].next} \ (chunks[c] \ B)
    BY <1>1, <1>6, <1>7 DEF ReadSet
  <2>2. B \subseteq {i \in Data(c) : i <= row[c].next}
    BY <1>4, <1>5 DEF Lower, Stored
  <2>3. QED
    BY <1>5, <2>1, <2>2 DEF R, ReadSet, Lower
<1>10. got'[c] = InOrder(R \cup B)
  <2>1. R \subseteq Nat /\ IsFiniteSet(R) /\ B \subseteq Nat /\ IsFiniteSet(B)
    BY <1>4, <1>5, FS_Subset DEF Lower
  <2>2. \A i \in R, j \in B : i < j
    BY <1>3, <1>5 DEF InSequence, R, Lower
  <2>3. QED
    BY <1>3, <1>8, <2>1, <2>2, InOrderJoin
<1>11. \A i \in R \cup B, j \in chunks[c] \ B : i < j
  <2> SUFFICES ASSUME NEW i \in R \cup B, NEW j \in chunks[c] \ B PROVE i < j
    OBVIOUS
  <2>1. CASE i \in R
    BY <1>3, <2>1 DEF InSequence, R
  <2>2. CASE i \in B
    <3>1. i \in chunks[c] /\ i \in Nat /\ j \in Nat /\ i # j /\ ~(j < i)
      BY <1>4, <1>5, <2>2 DEF Lower
    <3>2. QED
      BY <3>1
  <2>3. QED
    BY <2>1, <2>2
<1>12. Reading(c)'
  <2>1. caller'[c] \in {"mark", "reading"}
    BY <1>1, <1>2 DEF CallInv, Shape
  <2>2. InSequence(c)'
    BY <1>7, <1>9, <1>11 DEF InSequence
  <2>3. got'[c] = InOrder(ReadSet(c))'
    BY <1>9, <1>10 DEF InOrder
  <2>4. caller'[c] \in Open => verdict'[c] = "none"
    <3>1. verdict[c] = "none"
      BY <1>1, <1>3 DEF Reads, Reading, Open
    <3>2. caller'[c] \in Open => verdict'[c] = verdict[c]
      BY <1>1, <1>2 DEF CallInv, Shape, Open
    <3>3. QED
      BY <3>1, <3>2
  <2>5. QED
    BY <2>1, <2>2, <2>3, <2>4 DEF Reading, Early
<1>13. HasPrefix(c)'
  <2>1. Lower(R \cup B, Data(c))
    <3>1. R \cup B \subseteq Data(c)
      BY <1>4, <1>5 DEF Lower
    <3>2. ASSUME NEW i \in R \cup B, NEW j \in Data(c), j < i PROVE j \in R \cup B
      <4>1. i <= row[c].next /\ i \in Nat /\ j \in Nat /\ row[c].next \in Nat
        BY <1>4, <1>5 DEF R, ReadSet, Lower, Stored, RowType
      <4>2. j <= row[c].next
        BY <3>2, <4>1
      <4>3. j \notin chunks[c] \ B
        <5>1. j \in chunks[c] \ B => i < j
          BY <1>11
        <5>2. QED
          BY <3>2, <4>1, <5>1
      <4>4. QED
        BY <4>2, <4>3 DEF R, ReadSet
    <3>3. QED
      BY <3>1, <3>2 DEF Lower
  <2>2. QED
    <3>1. R \cup B \in SUBSET Data(c)'
      BY <1>6, <2>1 DEF Lower
    <3>2. Lower(R \cup B, Data(c)') /\ got'[c] = InOrder(R \cup B)
      BY <1>6, <1>10, <2>1
    <3>3. QED
      BY <3>1, <3>2 DEF HasPrefix
<1>14. HasWhole(c)'
  <2> SUFFICES ASSUME verdict'[c] = "whole"
               PROVE  /\ got'[c] = InOrder(Data(c)')
                      /\ \E j \in 1 .. Len(frames'[c]) : frames'[c][j] = "done"
    BY DEF HasWhole
  <2>1. CASE Complete(c, B)
    <3>1. row[c].status = "done" /\ B = {} /\ chunks[c] = {}
      BY <1>3, <1>5, <2>1 DEF Complete, StillTrue
    <3>2. row[c].next \in 1 .. Len(frames[c]) /\ frames[c][row[c].next] = "done"
      <4>1. row[c].next \in Nat /\ Len(frames[c]) \in Nat
        BY <1>4, LenProperties DEF RowType, FrameInv
      <4>2. QED
        BY <1>4, <3>1, <4>1 DEF Stored
    <3>3. \A i \in Data(c) : i <= row[c].next
      <4> SUFFICES ASSUME NEW i \in Data(c), ~(i <= row[c].next) PROVE FALSE
        OBVIOUS
      <4>1. i \in Nat /\ row[c].next \in 1 .. i
        BY <1>4, <3>2
      <4>2. QED
        BY <3>2, <4>1 DEF Data
    <3>4. R \cup B = Data(c)
      BY <3>1, <3>3 DEF R, ReadSet
    <3>5. QED
      BY <1>1, <1>6, <1>10, <3>2, <3>4
  <2>2. CASE ~Complete(c, B)
    <3>1. verdict'[c] # "whole" \/ verdict[c] = "whole"
      BY <1>2, <2>2 DEF ReadInv, ReaderTypes
    <3>2. verdict[c] = "none"
      BY <1>1, <1>3 DEF Reads, Reading, Open
    <3>3. QED
      BY <3>1, <3>2
  <2>3. QED
    BY <2>1, <2>2
<1>15. ReaderTypes'
  <2>1. got'[c] \in Seq(Nat)
    <3>1. B \subseteq Nat /\ IsFiniteSet(B)
      BY <1>4, <1>5, FS_Subset DEF Lower
    <3>2. InOrder(B) \in Seq(Nat) /\ got[c] \in Seq(Nat)
      BY <3>1, InOrderList DEF ReadInv, ReaderTypes
    <3>3. QED
      BY <1>8, <3>2, ConcatProperties
  <2>2. got' \in [Calls -> Seq(Nat)]
    BY <1>1, <2>1 DEF ReadInv, ReaderTypes
  <2>3. seen' \in [Calls -> Statuses] /\ verdict' \in [Calls -> Verdicts]
    BY <1>1, <1>2 DEF ReadInv, ReaderTypes, Statuses, Verdicts
  <2>4. QED
    BY <2>2, <2>3 DEF ReaderTypes
<1>16. ASSUME NEW d \in Calls \ {c} PROVE Reads(d)'
  <2>1. Extends(d)
    BY <1>1, LenProperties DEF FrameInv, Extends
  <2>2. Calm(d)
    BY <1>1, <1>7, <2>1, CalmIfSame DEF Exists
  <2>3. /\ caller'[d] = caller[d] /\ seen'[d] = seen[d] /\ verdict'[d] = verdict[d]
        /\ got'[d] = got[d]
    BY <1>1, <1>2, <1>8 DEF CallInv, Shape, ReadInv, ReaderTypes
  <2>4. QED
    BY <2>1, <2>2, <2>3, CalmReads DEF ReadInv
<1>17. QED
  BY <1>12, <1>13, <1>14, <1>15, <1>16 DEF ReadInv, Reads

(* A caller that leaves keeps what it has. *)
LEMMA LeavesReads ==
    ASSUME FrameInv, FrameInv', NEW c \in Calls, Extends(c), Reads(c), got'[c] = got[c],
           verdict'[c] = "whole" => verdict[c] = "whole",
           caller'[c] \notin Early \cup Open
    PROVE  Reads(c)'
PROOF
<1>1. caller'[c] \notin Early /\ caller'[c] \notin Open /\ caller'[c] # "batch"
  BY DEF Open
<1>2. QED
  BY <1>1, ReadStays

(* A call that nobody touches. *)
LEMMA UntouchedReads ==
    ASSUME FrameInv, FrameInv', RowInv, NEW c \in Calls, Extends(c), Reads(c),
           row'[c] = row[c], chunks'[c] = chunks[c], caller'[c] = caller[c],
           seen'[c] = seen[c], got'[c] = got[c], verdict'[c] = verdict[c]
    PROVE  Reads(c)'
PROOF
<1>1. Calm(c)
  BY CalmIfSame DEF Exists
<1>2. QED
  BY <1>1, CalmReads

(* The row that a caller or the clock marks is calm. *)
LEMMA MarkedCalm ==
    ASSUME FrameInv, FrameInv', RowInv, NEW c \in Calls, Extends(c), chunks' = chunks,
           \/ row' = row
           \/ row' = [row EXCEPT ![c].fresh = TRUE]
           \/ row' = [row EXCEPT ![c].fresh = FALSE]
           \/ row' = [row EXCEPT ![c].overdue = TRUE] /\ caller[c] # "batch"
    PROVE  Calm(c)
PROOF
<1>1. row[c] \in RowType
  BY DEF RowInv
<1>2. /\ row'[c].next = row[c].next /\ row'[c].status = row[c].status
      /\ (caller[c] = "batch" /\ row'[c].overdue) => row[c].overdue
  BY <1>1 DEF RowInv, RowType
<1>3. QED
  BY <1>2, CalmIfSame DEF Exists

(* A call whose row is written waits for an answer and has none. *)
LEMMA InsertReads ==
    ASSUME CallInv, FrameInv, FrameInv', RowInv, ReadInv, NEW c \in Calls, Extends(c), Insert(c)
    PROVE  Reads(c)'
PROOF
<1>1. /\ caller[c] = "checked" /\ caller'[c] = "queued" /\ got' = got /\ verdict' = verdict
      /\ row' = [row EXCEPT ![c] = [NoRow EXCEPT !.status = "queued", !.fresh = TRUE]]
  BY DEF Insert, CallInv, Shape
<1>2. row'[c].next = 0
  BY <1>1 DEF RowInv, NoRow
<1>3. Data(c)' \subseteq 1 .. Len(frames'[c]) /\ Len(frames'[c]) \in Nat
  BY LenProperties DEF Data, FrameInv
<1>4. ReadSet(c)' = {}
  BY <1>2, <1>3 DEF ReadSet
<1>5. got[c] = InOrder(ReadSet(c)') /\ InSequence(c)'
  BY <1>1, <1>4, InOrderOfNone DEF ReadInv, Reads, Reading, Early, InSequence
<1>6. caller'[c] \notin Early /\ caller[c] \in Early /\ caller'[c] # "batch"
  BY <1>1 DEF Early
<1>7. QED
  BY <1>1, <1>5, <1>6, ReadStays DEF ReadInv

(* The row is read while it is there and in time. *)
LEMMA RowReads ==
    ASSUME CallInv, FrameInv, FrameInv', RowInv, ReadInv, NEW c \in Calls, Extends(c), ReadRow(c)
    PROVE  Reads(c)'
PROOF
<1>1. caller[c] = "reading" /\ got' = got /\ chunks' = chunks
  BY DEF ReadRow
<1>2. CASE Gone(c)
  <2>1. caller'[c] = "mark" /\ verdict'[c] = "broken"
    BY <1>2 DEF ReadRow, Leave, CallInv, Shape, ReadInv, ReaderTypes
  <2>2. QED
    BY <1>1, <2>1, LeavesReads DEF ReadInv, Early, Open
<1>3. CASE ~Gone(c)
  <2>1. /\ seen' = [seen EXCEPT ![c] = row[c].status] /\ row' = [row EXCEPT ![c].fresh = TRUE]
        /\ caller'[c] = "batch" /\ verdict' = verdict
    BY <1>3 DEF ReadRow, CallInv, Shape
  <2>2. /\ row'[c].status = row[c].status /\ row'[c].overdue = row[c].overdue
        /\ seen'[c] = row[c].status
    BY <2>1 DEF RowInv, RowType, ReadInv, ReaderTypes
  <2>3. StillTrue(c)'
    BY <1>3, <2>2 DEF StillTrue, Gone, Exists
  <2>4. Calm(c)
    BY <1>1, <2>1, MarkedCalm
  <2>5. caller[c] \in Open /\ caller'[c] \notin Early /\ caller[c] \in Early \cup Open
    BY <1>1, <2>1 DEF Open, Early
  <2>6. Exists(c)' => got[c] = InOrder(ReadSet(c)') /\ InSequence(c)'
    BY <2>4, <2>5 DEF Calm, ReadInv, Reads, Reading
  <2>7. QED
    BY <1>1, <2>1, <2>3, <2>5, <2>6, ReadStays DEF ReadInv
<1>4. QED
  BY <1>2, <1>3

LEMMA CallersRead ==
    ASSUME CallInv, FrameInv, FrameInv', RowInv, ReadInv, \A d \in Calls : Extends(d),
           NEW c \in Calls, CallerStep(c) \/ ClockStep(c) \/ CallerDies(c)
    PROVE  ReadInv'
PROOF
<1> USE DEF ReadInv
<1>1. CASE ReadChunks(c)
  BY <1>1, BatchReads
<1>2. CASE ~ReadChunks(c)
  <2>1. got' = got
    BY <1>2 DEF CallerStep, ClockStep, CallerDies, Check, Insert, Await, GiveUp, ReadRow, CloseMark,
                CloseSweep, LeaseLapses, DeadlinePasses, callerVars
  <2>2. \/ verdict' = verdict
        \/ \E v \in {"broken", "busy"} : verdict' = [verdict EXCEPT ![c] = v]
    BY <1>2 DEF CallerStep, ClockStep, CallerDies, Check, Insert, Await, GiveUp, ReadRow, CloseMark,
                CloseSweep, LeaseLapses, DeadlinePasses, callerVars, Leave
  <2>3. seen' = seen \/ seen' = [seen EXCEPT ![c] = row[c].status]
    BY <1>2 DEF CallerStep, ClockStep, CallerDies, Check, Insert, Await, GiveUp, ReadRow, CloseMark,
                CloseSweep, LeaseLapses, DeadlinePasses, callerVars
  <2>4. \A d \in Calls \ {c} : caller'[d] = caller[d]
    BY <1>2 DEF CallerStep, ClockStep, CallerDies, Check, Insert, Await, GiveUp, ReadRow, CloseMark,
                CloseSweep, LeaseLapses, DeadlinePasses, callerVars, Leave, CallInv, Shape
  <2>5. \A d \in Calls \ {c} : row'[d] = row[d] /\ chunks'[d] = chunks[d]
    <3>1. CASE CloseSweep(c)
      BY <3>1 DEF CloseSweep, Ended, RowInv
    <3>2. CASE ~CloseSweep(c)
      BY <1>2, <3>2 DEF CallerStep, ClockStep, CallerDies, Check, Insert, Await, GiveUp, ReadRow,
                        CloseMark, LeaseLapses, DeadlinePasses, rowVars, RowInv
    <3>3. QED
      BY <3>1, <3>2
  <2>6. ReaderTypes'
    <3>1. row[c].status \in Statuses
      BY DEF RowInv, RowType
    <3>2. QED
      BY <2>1, <2>2, <2>3, <3>1 DEF ReaderTypes, Verdicts
  <2>7. ASSUME NEW d \in Calls \ {c} PROVE Reads(d)'
    <3>1. got'[d] = got[d] /\ seen'[d] = seen[d] /\ verdict'[d] = verdict[d]
      BY <2>1, <2>2, <2>3 DEF ReaderTypes
    <3>2. QED
      BY <2>4, <2>5, <3>1, UntouchedReads
  <2>8. Reads(c)'
    <3> DEFINE stays == verdict'[c] = "whole" => verdict[c] = "whole"
    <3>1. stays
      BY <2>2 DEF ReaderTypes
    <3>2. CASE Insert(c) \/ ReadRow(c)
      BY <3>2, InsertReads, RowReads
    <3>3. CASE GiveUp(c) \/ CloseMark(c) \/ CloseSweep(c) \/ CallerDies(c)
      <4>1. caller'[c] \in {"mark", "sweep", "closed", "dead"}
        BY <3>3 DEF GiveUp, Leave, CloseMark, CloseSweep, CallerDies, CallInv, Shape
      <4>2. caller'[c] \notin Early \cup Open
        BY <4>1 DEF Early, Open
      <4>3. QED
        BY <2>1, <3>1, <4>2, LeavesReads
    <3>4. CASE Check(c)
      <4>1. /\ row' = row /\ chunks' = chunks /\ seen' = seen /\ caller[c] = "new"
            /\ \/ caller'[c] = "checked" /\ verdict' = verdict
               \/ caller'[c] = "closed"
        BY <3>4 DEF Check, rowVars, CallInv, Shape
      <4>2. Calm(c)
        BY <4>1, MarkedCalm
      <4>3. "closed" \notin Early \cup Open
        BY DEF Early, Open
      <4>4. QED
        BY <2>1, <3>1, <4>1, <4>2, <4>3, CalmReads
    <3>5. CASE Await(c)
      <4>1. /\ chunks' = chunks /\ seen' = seen /\ caller[c] \in {"queued", "accepted"}
            /\ row' = row \/ row' = [row EXCEPT ![c].fresh = TRUE]
            /\ \/ caller'[c] = "mark"
               \/ verdict' = verdict /\ caller'[c] \in {"queued", "accepted", "reading"}
        BY <3>5 DEF Await, Leave, CallInv, Shape
      <4>2. Calm(c)
        BY <4>1, MarkedCalm
      <4>3. /\ "mark" \notin Early \cup Open
            /\ {"queued", "accepted", "reading"} \subseteq Open \ {"batch"}
        BY DEF Early, Open
      <4>4. QED
        BY <2>1, <3>1, <4>1, <4>2, <4>3, CalmReads
    <3>6. CASE LeaseLapses(c) \/ DeadlinePasses(c)
      <4>1. /\ chunks' = chunks /\ seen' = seen /\ caller' = caller /\ verdict' = verdict
            /\ \/ row' = [row EXCEPT ![c].fresh = FALSE]
               \/ row' = [row EXCEPT ![c].overdue = TRUE] /\ caller[c] # "batch"
        BY <3>6 DEF LeaseLapses, DeadlinePasses, callerVars
      <4>2. Calm(c)
        BY <4>1, MarkedCalm
      <4>3. QED
        BY <2>1, <4>1, <4>2, CalmReads
    <3>7. QED
      BY <1>2, <3>2, <3>3, <3>4, <3>5, <3>6 DEF CallerStep, ClockStep
  <2>9. QED
    BY <2>6, <2>7, <2>8
<1>3. QED
  BY <1>1, <1>2

LEMMA StepReads ==
    ASSUME CallInv, FrameInv, FrameInv', RowInv, ReadInv, \A d \in Calls : Extends(d), Next
    PROVE  ReadInv'
PROOF
<1>1. ASSUME UNCHANGED callerVars, \A d \in Calls : Calm(d) PROVE ReadInv'
  <2>1. ReaderTypes'
    BY <1>1 DEF ReadInv, ReaderTypes, callerVars
  <2>2. ASSUME NEW d \in Calls PROVE Reads(d)'
    <3>1. /\ caller'[d] = caller[d] /\ seen'[d] = seen[d] /\ got'[d] = got[d]
          /\ verdict'[d] = verdict[d]
      BY <1>1 DEF callerVars
    <3>2. QED
      BY <1>1, <3>1, CalmReads DEF ReadInv
  <2>3. QED
    BY <2>1, <2>2 DEF ReadInv
<1>2. ASSUME UNCHANGED callerVars, row' = row, chunks' = chunks PROVE ReadInv'
  <2>1. \A d \in Calls : Calm(d)
    BY <1>2, CalmIfSame DEF Exists
  <2>2. QED
    BY <1>1, <1>2, <2>1
<1>3. ASSUME NEW c \in Calls, CallerStep(c) \/ ClockStep(c) \/ CallerDies(c) PROVE ReadInv'
  BY <1>3, CallersRead
<1>4. CASE Collect \/ Heartbeat \/ PollSend \/ HandBack \/ \E c \in Calls : GhostClaims(c)
  <2>1. UNCHANGED callerVars
    BY <1>4 DEF Collect, Heartbeat, PollSend, HandBack, GhostClaims
  <2>2. \A d \in Calls : Calm(d)
    BY <1>4, PlatformCalm
  <2>3. QED
    BY <1>1, <2>1, <2>2
<1>5. ASSUME NEW c \in Calls, HandleFrames(c) PROVE ReadInv'
  <2>1. PICK p \in wire[c] : Store(c, p) /\ frames' = frames /\ UNCHANGED callerVars
    BY <1>5 DEF HandleFrames
  <2>2. Post(c, p)
    BY DEF FrameInv
  <2>3. \A d \in Calls : Calm(d)
    BY <2>1, <2>2, StoreCalm
  <2>4. QED
    BY <1>1, <2>1, <2>3
<1>6. ASSUME NEW c \in Calls,
             Produce(c) \/ Resend(c) \/ RetryEnds(c) \/ JobStops(c) \/ LosePost(c)
      PROVE  ReadInv'
  BY <1>2, <1>6 DEF Produce, Flush, Resend, RetryEnds, JobStops, LosePost, rowVars
<1>7. CASE Receive \/ DropPoll \/ LoseControl \/ Exit \/ Restart \/ LosePoll \/ StopNode \/ Crash
           \/ \E s \in {"on", "draining", "off"} : SetService(s)
  BY <1>2, <1>7 DEF Receive, DropPoll, LoseControl, Exit, Die, Restart, LosePoll, StopNode, Crash,
                    SetService, rowVars
<1>8. QED
  BY <1>3, <1>4, <1>5, <1>6, <1>7 DEF Next, JobStep, DaemonStep, FaultStep

LEMMA ReadsInvariant == Spec => []ReadInv
PROOF
<1>1. ASSUME FrameInv, FrameInv', RowInv, ReadInv, UNCHANGED vars PROVE ReadInv'
  <2>1. /\ row' = row /\ chunks' = chunks /\ caller' = caller /\ seen' = seen /\ got' = got
        /\ verdict' = verdict /\ frames' = frames
    BY <1>1 DEF vars, rowVars, callerVars, jobVars
  <2>2. \A d \in Calls : Extends(d)
    BY <1>1, <2>1, LenProperties DEF Extends, FrameInv
  <2>3. \A d \in Calls : Reads(d)'
    BY <1>1, <2>1, <2>2, UntouchedReads DEF ReadInv
  <2>4. QED
    BY <1>1, <2>1, <2>3 DEF ReadInv, ReaderTypes
<1>2. CallInv /\ FrameInv /\ FrameInv' /\ RowInv /\ ReadInv /\ [Next]_vars => ReadInv'
  BY <1>1, StepReads, StepFrames
<1>3. QED
  BY InitReads, <1>2, CallInvariant, FramesInvariant, RowsInvariant, PTL DEF Spec

(* A reader has the data in the order of their production and without a    *)
(* gap, however requests are lost, doubled or late, and whoever ends the    *)
(* call; told that the answer is complete, it has all of it, and the        *)
(* execution came to its proper end.                                        *)
THEOREM ReadersSeeOrder == Spec => []ReadInOrder
PROOF
<1>1. FrameInv /\ ReadInv => ReadInOrder
  <2> SUFFICES ASSUME FrameInv, ReadInv, NEW c \in Calls
               PROVE  LET all == InOrder(Data(c))
                      IN  /\ Len(got[c]) <= Len(all)
                          /\ \A i \in DOMAIN got[c] : got[c][i] = all[i]
                          /\ verdict[c] = "whole" =>
                                /\ Len(got[c]) = Len(all)
                                /\ \E i \in 1 .. Len(frames[c]) : frames[c][i] = "done"
    BY DEF ReadInOrder
  <2>1. Reads(c)
    BY DEF ReadInv
  <2>2. PICK G \in SUBSET Data(c) : Lower(G, Data(c)) /\ got[c] = InOrder(G)
    BY <2>1 DEF Reads, HasPrefix
  <2>3. Data(c) \subseteq Nat /\ IsFiniteSet(Data(c)) /\ IsFiniteSet(G)
    BY DataFinite, FS_Subset
  <2>4. /\ Len(InOrder(Data(c))) = Cardinality(Data(c))
        /\ Len(InOrder(G)) = Cardinality(G) /\ InOrder(G) \in Seq(Nat)
    BY <2>3, InOrderList
  <2>5. Cardinality(G) <= Cardinality(Data(c))
    BY <2>3, FS_Subset
  <2>6. \A i \in DOMAIN got[c] : got[c][i] = InOrder(Data(c))[i]
    <3>1. DOMAIN InOrder(G) = 1 .. Cardinality(G)
      BY <2>4, LenProperties
    <3>2. \A i \in 1 .. Cardinality(G) : InOrder(G)[i] = InOrder(Data(c))[i]
      BY <2>2, <2>3, InOrderLower
    <3>3. QED
      BY <2>2, <3>1, <3>2
  <2>7. verdict[c] = "whole" => /\ Len(got[c]) = Len(InOrder(Data(c)))
                                /\ \E i \in 1 .. Len(frames[c]) : frames[c][i] = "done"
    BY <2>1 DEF Reads, HasWhole
  <2>8. QED
    BY <2>2, <2>4, <2>5, <2>6, <2>7
<1>2. QED
  BY <1>1, FramesInvariant, ReadsInvariant, PTL

------------------------------------------------------------------------------
(* Types. *)

PlanTypes ==
    /\ plan \in Plans /\ faults \in 0 .. plan.faults
    /\ service \in {"on", "draining", "off"} /\ node \in {"up", "stopping", "down"}
    /\ ghost \in BOOLEAN

LEMMA InitPlan == Init => PlanTypes
PROOF
<1> SUFFICES ASSUME Init PROVE PlanTypes
  OBVIOUS
<1>1. plan \in Plans /\ plan.faults \in Nat /\ faults = 0
  BY PlansOK DEF Init
<1>2. service = "on" /\ node = "up" /\ ghost = FALSE
  BY DEF Init
<1>3. faults \in 0 .. plan.faults
  BY <1>1
<1>4. ghost \in BOOLEAN
  BY <1>2
<1>5. QED
  BY <1>1, <1>2, <1>3, <1>4 DEF PlanTypes

(* No fault happens that the plan does not have. *)
LEMMA FaultsStay ==
    ASSUME PlanTypes, NoFault \/ \E kind \in FaultKinds : Fault(kind)
    PROVE  plan' \in Plans /\ faults' \in 0 .. plan'.faults
PROOF
<1>1. plan.faults \in Nat
  BY PlansOK DEF PlanTypes
<1>2. CASE NoFault
  BY <1>2 DEF NoFault, PlanTypes
<1>3. CASE \E kind \in FaultKinds : Fault(kind)
  BY <1>1, <1>3 DEF Fault, PlanTypes
<1>4. QED
  BY <1>2, <1>3

LEMMA StepPlan == PlanTypes /\ [Next]_vars => PlanTypes'
PROOF
<1> SUFFICES ASSUME PlanTypes, [Next]_vars PROVE PlanTypes'
  OBVIOUS
<1> USE DEF daemonVars, pollVars
<1>1. ASSUME NoFault \/ \E kind \in FaultKinds : Fault(kind),
             service' = service \/ service' \in {"on", "draining", "off"},
             node' = node \/ node' \in {"up", "stopping", "down"},
             ghost' = ghost \/ ghost' \in BOOLEAN
      PROVE  PlanTypes'
  BY <1>1, FaultsStay DEF PlanTypes
<1>2. ASSUME NEW c \in Calls, CallerStep(c) PROVE PlanTypes'
  BY <1>1, <1>2 DEF CallerStep, Check, Insert, Await, GiveUp, ReadRow, ReadChunks, CloseMark, CloseSweep
<1>3. ASSUME NEW c \in Calls, ClockStep(c) \/ CallerDies(c) \/ GhostClaims(c) PROVE PlanTypes'
  BY <1>1, <1>3 DEF ClockStep, LeaseLapses, DeadlinePasses, CallerDies, GhostClaims, FaultKinds
<1>4. ASSUME NEW c \in Calls, Produce(c) PROVE PlanTypes'
  BY <1>1, <1>4 DEF Produce, Flush
<1>5. ASSUME NEW c \in Calls, HandleFrames(c) PROVE PlanTypes'
  BY <1>1, <1>5 DEF HandleFrames, FaultKinds
<1>6. ASSUME NEW c \in Calls, Resend(c) \/ RetryEnds(c) \/ JobStops(c) \/ LosePost(c)
      PROVE  PlanTypes'
  BY <1>1, <1>6 DEF Resend, RetryEnds, JobStops, LosePost, FaultKinds
<1>7. CASE Collect \/ Heartbeat \/ PollSend \/ HandBack
  BY <1>1, <1>7 DEF Collect, Heartbeat, PollSend, HandBack
<1>8. CASE Receive \/ DropPoll \/ LoseControl \/ Restart \/ StopNode
  BY <1>1, <1>8 DEF Receive, DropPoll, LoseControl, Restart, StopNode, FaultKinds
<1>9. CASE Exit \/ Crash \/ LosePoll
  BY <1>1, <1>9 DEF Exit, Crash, Die, LosePoll, FaultKinds
<1>10. ASSUME NEW s \in {"on", "draining", "off"}, SetService(s) PROVE PlanTypes'
  BY <1>1, <1>10 DEF SetService, FaultKinds
<1>11. CASE UNCHANGED vars
  BY <1>11 DEF vars, PlanTypes
<1>12. QED
  BY <1>2, <1>3, <1>4, <1>5, <1>6, <1>7, <1>8, <1>9, <1>10, <1>11
     DEF Next, JobStep, DaemonStep, FaultStep

(* The variables stay in their types, the platform knows no frame that was *)
(* not produced, and the frames endpoint lets no more chunks wait than its *)
(* buffer holds.                                                           *)
THEOREM CallTypesHold == Spec => []TypeOK
PROOF
<1>1. Spec => []PlanTypes
  BY InitPlan, StepPlan, PTL DEF Spec
<1>2. CallInv /\ LimitInv /\ FrameInv /\ RowInv /\ ReadInv /\ PlanTypes => TypeOK
  <2> SUFFICES ASSUME CallInv, LimitInv, FrameInv, RowInv, ReadInv, PlanTypes
               PROVE  TypeOK
    OBVIOUS
  <2>1. row \in [Calls -> [status : Statuses, next : Nat, head : BOOLEAN,
                           fresh : BOOLEAN, overdue : BOOLEAN]]
    BY DEF RowInv, RowType
  <2>2. ASSUME NEW c \in Calls
        PROVE  /\ {row[c].next, acked[c]} \subseteq 0 .. Len(frames[c])
               /\ chunks[c] \subseteq 1 .. Len(frames[c])
               /\ Cardinality(chunks[c]) <= MaxBuffered
    <3>1. Stored(c) /\ row[c].next \in Nat
      BY DEF RowInv, RowType
    <3>2. acked[c] \in Nat /\ acked[c] <= Len(frames[c]) /\ Len(frames[c]) \in Nat
      BY LenProperties DEF FrameInv
    <3>3. Data(c) \subseteq 1 .. Len(frames[c])
      BY DataFinite
    <3>4. QED
      BY <3>1, <3>2, <3>3 DEF Stored
  <2>3. poll.stage \in {"idle", "waiting", "answered"} /\ poll.slots \in 0 .. MaxConcurrent
    <3>1. poll \in PollType
      BY DEF LimitInv, DaemonTypes
    <3>2. Cardinality(Tracked) + poll.slots <= MaxConcurrent
      BY DEF LimitInv, SlotsHold
    <3>3. Cardinality(Tracked) \in Nat /\ poll.slots \in Nat /\ MaxConcurrent \in Nat
      BY TasksFinite
    <3>4. QED
      BY <3>1, <3>2, <3>3 DEF PollType
  <2>4. UNION {posting, tracked, asked, abandoned} \subseteq Calls
    BY DEF FrameInv, LimitInv, DaemonTypes
  <2>5. /\ plan \in Plans /\ frames \in [Calls -> Seq(Kinds)] /\ acked \in [Calls -> Nat]
        /\ caller \in [Calls -> Stages] /\ seen \in [Calls -> Statuses]
        /\ got \in [Calls -> Seq(Nat)]
        /\ verdict \in [Calls -> {"none", "whole", "broken", "busy"}]
        /\ service \in {"on", "draining", "off"} /\ node \in {"up", "stopping", "down"}
        /\ job \in [Calls -> Jobs] /\ ghost \in BOOLEAN
        /\ starts \in [Calls -> Nat] /\ faults \in 0 .. plan.faults
    BY DEF PlanTypes, FrameInv, CallInv, Shape, ReadInv, ReaderTypes, Verdicts, LimitInv, DaemonTypes
  <2>6. QED
    BY <2>1, <2>2, <2>3, <2>4, <2>5 DEF TypeOK
<1>3. QED
  BY <1>1, <1>2, CallInvariant, LimitInvariant, FramesInvariant, RowsInvariant, ReadsInvariant, PTL
==============================================================================
