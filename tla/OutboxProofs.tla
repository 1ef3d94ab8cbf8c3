----------------------------- MODULE OutboxProofs -----------------------------
(***************************************************************************)
(* Proofs about Outbox, for any rows, consumers, plans and bounds: what    *)
(* the runs check on two rows and two consumers.                           *)
(*                                                                         *)
(* The argument is that without a stalled consumer a row is in one hand at *)
(* most, and its status tells what that hand has done with it.             *)
(***************************************************************************)
EXTENDS Outbox, TLAPS

(* A consumer has a row of the table exactly when it is not idle. *)
HandsFull ==
    /\ \A g \in Gateway : step[g] = "idle" <=> working[g] = None
    /\ \A g \in Gateway : step[g] # "idle" => status[working[g]] # "absent"
    /\ \A g \in Gateway : step[g] \in {"begun", "failing"} => answer[g] # "acked"

(* What was acknowledged has been shown. *)
AckedShown ==
    \A g \in Gateway : answer[g] = "acked" => step[g] = "answered" /\ shown[working[g]] > 0

(* The rows of a group come into the table in order. *)
AddedInOrder ==
    \A t \in Item : status[t] # "absent" => \A u \in Ahead(t) : status[u] # "absent"

(* Only the messages of bot collaborations, which go through Feishu, are   *)
(* skipped from outside.                                                   *)
ClosedInClaim ==
    \A t \in closing : Protocol = "inClaim" /\ status[t] # "absent"

(* The status of a row in hand says where its consumer stands. *)
Owned ==
    \A g \in Gateway : step[g] # "idle" =>
        status[working[g]] = IF Protocol = "confirmed" /\ step[g] # "claimed"
                             THEN "sending" ELSE "pending"

(* A row is in one hand at most. *)
Alone ==
    \A g, h \in Gateway : g # h /\ step[g] # "idle" => working[g] # working[h]

(* A row that may still go out has an attempt left. *)
AttemptsLeft ==
    \A t \in Item : status[t] \in Unsettled \cup {"absent"} => attempts[t] < MaxAttempts

(* What a consumer has read of the attempts is still so. *)
ReadIsFresh ==
    \A g \in Gateway : step[g] = "failing" => seen[g] = attempts[working[g]]

(* Whatever is before a row in hand has settled once. *)
AheadSettled ==
    \A g \in Gateway : step[g] # "idle" =>
        \A u \in Ahead(working[g]) :
            status[u] # "absent" /\ (status[u] \in Unsettled => reopened[u])

(* Without a stalled consumer ... *)
Orderly == plan.stalls = {} => Owned /\ Alone /\ AttemptsLeft /\ ReadIsFresh /\ AheadSettled

(* An attempt that has begun is not among those that went out.             *)
BegunUncounted ==
    \A g \in Gateway : step[g] \in {"claimed", "begun"} =>
        written[working[g]] <= attempts[working[g]]

(* What was acknowledged has gone out since the row was added or retried.  *)
AckedWritten == \A g \in Gateway : answer[g] = "acked" => written[working[g]] > 0

(* ... and with a recorded attempt. *)
Recorded == Exact => BegunUncounted /\ AckedWritten

OutboxInv ==
    /\ TypeOK /\ HandsFull /\ AckedShown /\ AddedInOrder /\ ClosedInClaim
    /\ SentWasShown /\ Orderly /\ Recorded /\ SendsAreCounted

------------------------------------------------------------------------------
LEMMA InitOutbox == Init => OutboxInv
PROOF
<1> SUFFICES ASSUME Init PROVE OutboxInv
  OBVIOUS
<1> USE OutboxAssumption
<1>1. plan.retries \in Nat /\ plan.disruptions \in Nat /\ MaxAttempts \in Nat \ {0}
  BY DEF Init, PlanType
<1>2. TypeOK
  BY <1>1 DEF Init, TypeOK, Unsettled, Settled, Steps, Answers
<1>3. HandsFull /\ AckedShown /\ AddedInOrder /\ ClosedInClaim /\ SentWasShown
  BY DEF Init, HandsFull, AckedShown, AddedInOrder, ClosedInClaim, SentWasShown, Ahead
<1>4. Orderly /\ Recorded /\ SendsAreCounted
  BY <1>1 DEF Init, Orderly, Owned, Alone, AttemptsLeft, ReadIsFresh, AheadSettled,
              Recorded, BegunUncounted, AckedWritten, SendsAreCounted
<1>5. QED
  BY <1>2, <1>3, <1>4 DEF OutboxInv

(* Only Add brings a row into the table. *)
LEMMA OrderStays ==
    ASSUME AddedInOrder, \A u \in Item : (status'[u] = "absent") <=> (status[u] = "absent")
    PROVE  AddedInOrder'
PROOF
<1> SUFFICES ASSUME NEW t \in Item, status'[t] # "absent", NEW u \in Ahead(t)
             PROVE  status'[u] # "absent"
  BY DEF AddedInOrder, Ahead
<1>1. u \in Item
  BY DEF Ahead
<1>2. status[t] # "absent"
  OBVIOUS
<1>3. status[u] # "absent"
  BY <1>2 DEF AddedInOrder
<1>4. QED
  BY <1>1, <1>3

(* The steps before a message goes out. *)
LEMMA TakeKeeps ==
    ASSUME NEW g \in Gateway, OutboxInv, Claim(g) \/ Skip(g) \/ Defer(g) \/ Begin(g)
    PROVE  OutboxInv'
PROOF
<1> USE OutboxAssumption
    DEF OutboxInv, TypeOK, HandsFull, AckedShown, AddedInOrder, ClosedInClaim, SentWasShown, Orderly, Owned,
        Alone, AttemptsLeft, ReadIsFresh, AheadSettled, Recorded, BegunUncounted, AckedWritten,
        SendsAreCounted, Exact, Protocol, Unsettled, Settled, Steps, Answers, PlanType, Goto, LetGo,
        Ahead, rowVars, handVars, linkVars, wireVars, countVars
<1>1. CASE Claim(g)
  BY <1>1 DEF Claim, Claimable, Locked
<1>2. CASE Skip(g)
  <2>1. working[g] \in Item
    BY <1>2 DEF Skip
  <2>2. TypeOK'
    BY <1>2, <2>1 DEF Skip
  <2>3. HandsFull' /\ AckedShown' /\ ClosedInClaim' /\ SentWasShown'
    BY <1>2, <2>1 DEF Skip
  <2>4. AddedInOrder'
    <3>1. \A u \in Item : (status'[u] = "absent") <=> (status[u] = "absent")
      BY <1>2, <2>1 DEF Skip
    <3>2. QED
      BY <3>1, OrderStays DEF OutboxInv
  <2>5. Orderly'
    BY <1>2, <2>1 DEF Skip
  <2>6. Recorded' /\ SendsAreCounted'
    BY <1>2, <2>1 DEF Skip
  <2>7. QED
    BY <2>2, <2>3, <2>4, <2>5, <2>6
<1>3. CASE Defer(g)
  <2>1. working[g] \in Item
    BY <1>3 DEF Defer
  <2>2. TypeOK'
    BY <1>3, <2>1 DEF Defer
  <2>3. HandsFull' /\ AckedShown' /\ ClosedInClaim' /\ SentWasShown'
    BY <1>3, <2>1 DEF Defer
  <2>4. AddedInOrder'
    <3>1. \A u \in Item : (status'[u] = "absent") <=> (status[u] = "absent")
      BY <1>3, <2>1 DEF Defer
    <3>2. QED
      BY <3>1, OrderStays DEF OutboxInv
  <2>5. Orderly'
    BY <1>3, <2>1 DEF Defer
  <2>6. Recorded' /\ SendsAreCounted'
    BY <1>3, <2>1 DEF Defer
  <2>7. QED
    BY <2>2, <2>3, <2>4, <2>5, <2>6
<1>4. CASE Begin(g)
  <2>1. working[g] \in Item
    BY <1>4 DEF Begin
  <2>2. TypeOK'
    BY <1>4, <2>1 DEF Begin
  <2>3. HandsFull' /\ AckedShown' /\ ClosedInClaim' /\ SentWasShown'
    BY <1>4, <2>1 DEF Begin
  <2>4. AddedInOrder'
    <3>1. \A u \in Item : (status'[u] = "absent") <=> (status[u] = "absent")
      BY <1>4, <2>1 DEF Begin
    <3>2. QED
      BY <3>1, OrderStays DEF OutboxInv
  <2>5. Orderly'
    BY <1>4, <2>1 DEF Begin
  <2>6. Recorded' /\ SendsAreCounted'
    BY <1>4, <2>1 DEF Begin
  <2>7. QED
    BY <2>2, <2>3, <2>4, <2>5, <2>6
<1>5. QED
  BY <1>1, <1>2, <1>3, <1>4
(* The platform's answers; an acknowledged message was taken. *)
LEMMA OutcomeTypes ==
    ASSUME NEW g, NEW o \in Outcomes(g)
    PROVE  o[1] \in BOOLEAN /\ o[2] \in Answers /\ (o[2] = "acked" => o[1] = TRUE)
PROOF
<1>1. \/ o = <<TRUE, "acked">> \/ o = <<TRUE, "rejected">> \/ o = <<FALSE, "rejected">>
      \/ o = <<FALSE, "refused">> \/ o = <<TRUE, "unknown">> \/ o = <<FALSE, "unknown">>
      \/ o = <<FALSE, "limited">> \/ o = <<FALSE, "notsent">>
  BY DEF Outcomes
<1>2. CASE o = <<TRUE, "acked">>
  <2>1. o[1] = TRUE /\ o[2] = "acked"
    BY <1>2
  <2>2. QED
    BY <2>1 DEF Answers
<1>3. CASE o = <<TRUE, "rejected">>
  <2>1. o[1] = TRUE /\ o[2] = "rejected"
    BY <1>3
  <2>2. QED
    BY <2>1 DEF Answers
<1>4. CASE o = <<FALSE, "rejected">>
  <2>1. o[1] = FALSE /\ o[2] = "rejected"
    BY <1>4
  <2>2. QED
    BY <2>1 DEF Answers
<1>5. CASE o = <<FALSE, "refused">>
  <2>1. o[1] = FALSE /\ o[2] = "refused"
    BY <1>5
  <2>2. QED
    BY <2>1 DEF Answers
<1>6. CASE o = <<TRUE, "unknown">>
  <2>1. o[1] = TRUE /\ o[2] = "unknown"
    BY <1>6
  <2>2. QED
    BY <2>1 DEF Answers
<1>7. CASE o = <<FALSE, "unknown">>
  <2>1. o[1] = FALSE /\ o[2] = "unknown"
    BY <1>7
  <2>2. QED
    BY <2>1 DEF Answers
<1>8. CASE o = <<FALSE, "limited">>
  <2>1. o[1] = FALSE /\ o[2] = "limited"
    BY <1>8
  <2>2. QED
    BY <2>1 DEF Answers
<1>9. CASE o = <<FALSE, "notsent">>
  <2>1. o[1] = FALSE /\ o[2] = "notsent"
    BY <1>9
  <2>2. QED
    BY <2>1 DEF Answers
<1>10. QED
  BY <1>1, <1>2, <1>3, <1>4, <1>5, <1>6, <1>7, <1>8, <1>9

(* Counting one more attempt. *)
LEMMA Increment ==
    ASSUME NEW f \in [Item -> Nat], NEW t \in Item, NEW h, h = [f EXCEPT ![t] = @ + 1]
    PROVE  /\ h \in [Item -> Nat] /\ h[t] = f[t] + 1
           /\ \A u \in Item : u # t => h[u] = f[u]
PROOF OBVIOUS

(* What has been shown once stays shown. *)
LEMMA MoreShown ==
    ASSUME NEW f \in [Item -> 0 .. 2], NEW h \in [Item -> 0 .. 2], NEW t \in Item,
           \A u \in Item : h[u] >= f[u], f[t] > 0
    PROVE  h[t] > 0
PROOF
<1>1. f[t] \in 0 .. 2 /\ h[t] \in 0 .. 2 /\ h[t] >= f[t]
  OBVIOUS
<1>2. QED
  BY <1>1

(* The message goes out, and what comes back is recorded. *)
LEMMA SendKeeps ==
    ASSUME NEW g \in Gateway, OutboxInv,
           Transmit(g) \/ RecordSent(g) \/ RecordRefused(g) \/ ReadAttempts(g) \/ WriteAttempts(g)
    PROVE  OutboxInv'
PROOF
<1> USE OutboxAssumption
    DEF OutboxInv, TypeOK, HandsFull, AckedShown, AddedInOrder, ClosedInClaim, SentWasShown, Orderly, Owned,
        Alone, AttemptsLeft, ReadIsFresh, AheadSettled, Recorded, BegunUncounted, AckedWritten,
        SendsAreCounted, Exact, Protocol, Unsettled, Settled, Steps, Answers, PlanType, Goto, LetGo,
        Ahead, rowVars, handVars, linkVars, wireVars, countVars
<1>1. CASE Transmit(g)
  <2>1. working[g] \in Item
    BY <1>1 DEF Transmit
  <2>2. /\ step[g] = IF Protocol = "confirmed" THEN "begun" ELSE "claimed"
        /\ step' = [step EXCEPT ![g] = "answered"]
        /\ UNCHANGED <<working, seen, rowVars, linkVars, closing, countVars>>
    BY <1>1 DEF Transmit
  <2>3. PICK o \in Outcomes(g) :
          /\ answer' = [answer EXCEPT ![g] = o[2]]
          /\ written' = [written EXCEPT ![working[g]] = @ + (IF o[2] = "notsent" THEN 0 ELSE 1)]
          /\ shown' = [shown EXCEPT ![working[g]] = IF o[1] /\ @ < 2 THEN @ + 1 ELSE @]
    BY <1>1 DEF Transmit
  <2>4. o[1] \in BOOLEAN /\ o[2] \in Answers /\ (o[2] = "acked" => o[1] = TRUE)
    BY OutcomeTypes
  <2>5. /\ written' \in [Item -> Nat] /\ shown' \in [Item -> 0 .. 2]
        /\ \A t \in Item : shown'[t] >= shown[t]
        /\ o[2] = "acked" => shown'[working[g]] > 0 /\ written'[working[g]] > 0
        /\ written'[working[g]] <= written[working[g]] + 1
        /\ \A t \in Item : t # working[g] => written'[t] = written[t]
    <3>1. /\ written \in [Item -> Nat] /\ shown \in [Item -> 0 .. 2] /\ working[g] \in Item
          /\ written[working[g]] \in Nat /\ shown[working[g]] \in 0 .. 2
      BY <2>1
    <3> HIDE DEF OutboxInv
    <3>2. /\ written' \in [Item -> Nat]
          /\ o[2] = "acked" => written'[working[g]] > 0
          /\ written'[working[g]] <= written[working[g]] + 1
          /\ \A t \in Item : t # working[g] => written'[t] = written[t]
      BY <2>3, <3>1
    <3>3. /\ shown' \in [Item -> 0 .. 2]
          /\ \A t \in Item : shown'[t] >= shown[t]
          /\ o[2] = "acked" => shown'[working[g]] > 0
      BY <2>3, <2>4, <3>1
    <3>4. QED
      BY <3>2, <3>3
  <2>6. answer' = [answer EXCEPT ![g] = o[2]]
    BY <2>3
  <2> HIDE <1>1, <2>3
  <2>7. TypeOK'
    BY <2>2, <2>4, <2>5, <2>6
  <2>8. HandsFull' /\ AckedShown' /\ ClosedInClaim' /\ SentWasShown'
    <3>1. HandsFull' /\ ClosedInClaim'
      BY <2>1, <2>2, <2>4, <2>6
    <3>2. AckedShown'
      <4> SUFFICES ASSUME NEW h \in Gateway, answer'[h] = "acked"
                   PROVE  step'[h] = "answered" /\ shown'[working'[h]] > 0
        OBVIOUS
      <4>1. CASE h = g
        BY <2>1, <2>2, <2>5, <2>6, <4>1
      <4>2. CASE h # g
        <5>1. answer[h] = "acked" /\ step'[h] = step[h] /\ working'[h] = working[h]
          BY <2>2, <2>6, <4>2
        <5>2. step[h] = "answered" /\ shown[working[h]] > 0 /\ working[h] \in Item
          BY <5>1
        <5>3. shown \in [Item -> 0 .. 2] /\ shown' \in [Item -> 0 .. 2]
          BY <2>5
        <5>4. shown'[working[h]] > 0
          BY <2>5, <5>2, <5>3, MoreShown
        <5>5. QED
          BY <5>1, <5>2, <5>4
      <4>3. QED
        BY <4>1, <4>2
    <3>3. SentWasShown'
      BY <2>2, <2>5
    <3>4. QED
      BY <3>1, <3>2, <3>3
  <2>9. AddedInOrder'
    BY <2>2, OrderStays
  <2>10. Orderly'
    BY <2>1, <2>2, <2>4, <2>5, <2>6
  <2>11. Recorded' /\ SendsAreCounted'
    <3> SUFFICES ASSUME Exact PROVE BegunUncounted' /\ AckedWritten' /\ SendsAreCounted'
      BY <2>2
    <3>1. step[g] = "begun" /\ status[working[g]] = "sending" /\ written[working[g]] <= attempts[working[g]]
      BY <2>1, <2>2
    <3>2. \A h \in Gateway : h # g => working[h] # working[g]
      BY <2>1, <2>2
    <3>3. BegunUncounted' /\ AckedWritten'
      <4>1. \A h \in Gateway : step[h] # "idle" /\ h # g =>
                working[h] \in Item /\ written'[working[h]] = written[working[h]]
        BY <2>5, <3>2
      <4>2. BegunUncounted'
        BY <2>2, <4>1
      <4>3. AckedWritten'
        BY <2>2, <2>5, <2>6, <4>1
      <4>4. QED
        BY <4>2, <4>3
    <3>4. SendsAreCounted'
      BY <2>1, <2>2, <2>5, <3>1
    <3>5. QED
      BY <3>3, <3>4
  <2>12. QED
    BY <2>7, <2>8, <2>9, <2>10, <2>11
<1>2. CASE RecordSent(g)
  <2>1. working[g] \in Item
    BY <1>2 DEF RecordSent, SetStatus
  <2>2. TypeOK'
    BY <1>2, <2>1 DEF RecordSent, SetStatus
  <2>3. HandsFull' /\ AckedShown' /\ ClosedInClaim' /\ SentWasShown'
    BY <1>2, <2>1 DEF RecordSent, SetStatus
  <2>4. AddedInOrder'
    <3>1. \A u \in Item : (status'[u] = "absent") <=> (status[u] = "absent")
      BY <1>2, <2>1 DEF RecordSent, SetStatus
    <3>2. QED
      BY <3>1, OrderStays DEF OutboxInv
  <2>5. Orderly'
    BY <1>2, <2>1 DEF RecordSent, SetStatus
  <2>6. Recorded' /\ SendsAreCounted'
    BY <1>2, <2>1 DEF RecordSent, SetStatus
  <2>7. QED
    BY <2>2, <2>3, <2>4, <2>5, <2>6
<1>3. CASE RecordRefused(g)
  <2>1. working[g] \in Item
    BY <1>3 DEF RecordRefused
  <2>2. TypeOK'
    <3>1. plan.stalls = {} => attempts[working[g]] < MaxAttempts
      BY <1>3, <2>1 DEF RecordRefused
    <3>2. /\ attempts' \in [Item -> Nat]
          /\ plan.stalls = {} => \A t \in Item : attempts'[t] <= MaxAttempts
      <4>1. attempts' = [attempts EXCEPT ![working[g]] = @ + 1]
        BY <1>3 DEF RecordRefused
      <4>2. /\ attempts \in [Item -> Nat] /\ MaxAttempts \in Nat
            /\ plan.stalls = {} => \A t \in Item : attempts[t] <= MaxAttempts
        OBVIOUS
      <4>3. /\ attempts' \in [Item -> Nat]
            /\ attempts'[working[g]] = attempts[working[g]] + 1
            /\ \A t \in Item : t # working[g] => attempts'[t] = attempts[t]
        BY <2>1, <4>1, <4>2, Increment
      <4>4. attempts[working[g]] \in Nat
        BY <2>1, <4>2
      <4>5. QED
        BY <2>1, <3>1, <4>2, <4>3, <4>4
    <3>3. QED
      BY <1>3, <2>1, <3>2 DEF RecordRefused
  <2>3. HandsFull' /\ AckedShown' /\ ClosedInClaim' /\ SentWasShown'
    BY <1>3, <2>1 DEF RecordRefused
  <2>4. AddedInOrder'
    <3>1. \A u \in Item : (status'[u] = "absent") <=> (status[u] = "absent")
      BY <1>3, <2>1 DEF RecordRefused
    <3>2. QED
      BY <3>1, OrderStays DEF OutboxInv
  <2>5. Orderly'
    BY <1>3, <2>1 DEF RecordRefused
  <2>6. Recorded' /\ SendsAreCounted'
    BY <1>3, <2>1 DEF RecordRefused
  <2>7. QED
    BY <2>2, <2>3, <2>4, <2>5, <2>6
<1>4. CASE ReadAttempts(g)
  <2>1. working[g] \in Item
    BY <1>4 DEF ReadAttempts
  <2>2. TypeOK'
    <3>1. /\ step' \in [Gateway -> Steps] /\ seen' \in [Gateway -> Nat]
          /\ working' \in [Gateway -> Item \cup {None}] /\ answer' \in [Gateway -> Answers]
      <4>1. CASE LetGo(g)
        BY <4>1
      <4>2. CASE ~LetGo(g)
        <5>1. /\ seen' = [seen EXCEPT ![g] = attempts[working[g]]]
              /\ step' = [step EXCEPT ![g] = "failing"]
              /\ UNCHANGED <<working, answer>>
          BY <1>4, <4>2 DEF ReadAttempts
        <5>2. attempts[working[g]] \in Nat
          BY <2>1
        <5>3. QED
          BY <5>1, <5>2
      <4>3. QED
        BY <4>1, <4>2
    <3>2. throttled' \in [Gateway -> BOOLEAN]
      BY <1>4 DEF ReadAttempts
    <3>3. QED
      BY <1>4, <3>1, <3>2 DEF ReadAttempts
  <2>3. HandsFull' /\ AckedShown' /\ ClosedInClaim' /\ SentWasShown'
    BY <1>4, <2>1 DEF ReadAttempts
  <2>4. AddedInOrder'
    <3>1. \A u \in Item : (status'[u] = "absent") <=> (status[u] = "absent")
      BY <1>4, <2>1 DEF ReadAttempts
    <3>2. QED
      BY <3>1, OrderStays DEF OutboxInv
  <2>5. Orderly'
    BY <1>4, <2>1 DEF ReadAttempts
  <2>6. Recorded' /\ SendsAreCounted'
    BY <1>4, <2>1 DEF ReadAttempts
  <2>7. QED
    BY <2>2, <2>3, <2>4, <2>5, <2>6
<1>5. CASE WriteAttempts(g)
  <2>1. /\ working[g] \in Item /\ step[g] = "failing"
        /\ LetGo(g) /\ UNCHANGED <<linkVars, closing, wireVars, countVars>>
    BY <1>5 DEF WriteAttempts
  <2>2. CASE UNCHANGED rowVars
    BY <2>1, <2>2
  <2>3. CASE RetryOrFail(working[g], seen[g] + 1)
    <3>1. /\ status' = [status EXCEPT ![working[g]] = IF seen[g] + 1 < MaxAttempts THEN "pending" ELSE "failed"]
          /\ attempts' = [attempts EXCEPT ![working[g]] = seen[g] + 1]
          /\ due' = [due EXCEPT ![working[g]] = @ /\ seen[g] + 1 >= MaxAttempts]
      BY <2>3 DEF RetryOrFail
    <3>2. plan.stalls = {} =>
            /\ seen[g] = attempts[working[g]] /\ seen[g] + 1 <= MaxAttempts
            /\ \A h \in Gateway : h # g => working[h] # working[g]
      <4> SUFFICES ASSUME plan.stalls = {}
                   PROVE  /\ seen[g] = attempts[working[g]] /\ seen[g] + 1 <= MaxAttempts
                          /\ \A h \in Gateway : h # g => working[h] # working[g]
        OBVIOUS
      <4>1. seen[g] = attempts[working[g]] /\ status[working[g]] \in Unsettled
        BY <2>1
      <4>2. attempts[working[g]] < MaxAttempts
        BY <2>1, <4>1
      <4>3. \A h \in Gateway : h # g => working[h] # working[g]
        BY <2>1
      <4>4. QED
        BY <2>1, <4>1, <4>2, <4>3
    <3>3. TypeOK'
      <4>1. due' \in [Item -> BOOLEAN]
        BY <2>1, <3>1
      <4>2. /\ status' \in [Item -> Unsettled \cup Settled \cup {"absent"}]
            /\ attempts' \in [Item -> Nat]
            /\ plan.stalls = {} => \A t \in Item : attempts'[t] <= MaxAttempts
        BY <2>1, <3>1, <3>2
      <4>3. QED
        BY <2>1, <4>1, <4>2
    <3>4. HandsFull' /\ AckedShown' /\ ClosedInClaim' /\ SentWasShown'
      BY <2>1, <3>1
    <3>5. AddedInOrder'
      <4>1. \A u \in Item : (status'[u] = "absent") <=> (status[u] = "absent")
        BY <2>1, <3>1
      <4>2. QED
        BY <4>1, OrderStays
    <3>6. Orderly'
      BY <2>1, <3>1, <3>2
    <3>7. Recorded' /\ SendsAreCounted'
      <4> SUFFICES ASSUME Exact PROVE BegunUncounted' /\ AckedWritten' /\ SendsAreCounted'
        BY <2>1
      <4>1. status[working[g]] = "sending" /\ written[working[g]] <= attempts[working[g]] + 1
        BY <2>1
      <4>2. BegunUncounted' /\ AckedWritten'
        BY <2>1, <3>1, <3>2
      <4>3. SendsAreCounted'
        BY <2>1, <3>1, <3>2, <4>1
      <4>4. QED
        BY <4>2, <4>3
    <3>8. QED
      BY <3>3, <3>4, <3>5, <3>6, <3>7
  <2>4. QED
    BY <1>5, <2>2, <2>3 DEF WriteAttempts
<1>6. QED
  BY <1>1, <1>2, <1>3, <1>4, <1>5

(* The scheduler, the administrator, and whoever adds messages. *)
LEMMA RowKeeps ==
    ASSUME NEW t \in Item, OutboxInv, ItemStep(t)
    PROVE  OutboxInv'
PROOF
<1> USE OutboxAssumption
    DEF OutboxInv, TypeOK, HandsFull, AckedShown, AddedInOrder, ClosedInClaim, SentWasShown, Orderly, Owned,
        Alone, AttemptsLeft, ReadIsFresh, AheadSettled, Recorded, BegunUncounted, AckedWritten,
        SendsAreCounted, Exact, Protocol, Unsettled, Settled, Steps, Answers, PlanType, Goto, LetGo,
        Ahead, rowVars, handVars, linkVars, wireVars, countVars
<1>1. CASE Add(t)
  BY <1>1 DEF Add
<1>2. CASE FallDue(t)
  BY <1>2 DEF FallDue
<1>3. CASE Recover(t)
  <2>2. TypeOK'
    BY <1>3 DEF Recover, RetryOrFail
  <2>3. HandsFull' /\ AckedShown' /\ ClosedInClaim' /\ SentWasShown'
    BY <1>3 DEF Recover, RetryOrFail
  <2>4. AddedInOrder'
    <3>1. \A u \in Item : (status'[u] = "absent") <=> (status[u] = "absent")
      BY <1>3 DEF Recover, RetryOrFail
    <3>2. QED
      BY <3>1, OrderStays DEF OutboxInv
  <2>5. Orderly'
    BY <1>3 DEF Recover, RetryOrFail
  <2>6. Recorded' /\ SendsAreCounted'
    BY <1>3 DEF Recover, RetryOrFail
  <2>7. QED
    BY <2>2, <2>3, <2>4, <2>5, <2>6
<1>4. CASE Retry(t)
  <2>2. TypeOK'
    BY <1>4 DEF Retry
  <2>3. HandsFull' /\ AckedShown' /\ ClosedInClaim' /\ SentWasShown'
    BY <1>4 DEF Retry
  <2>4. AddedInOrder'
    <3>1. \A u \in Item : (status'[u] = "absent") <=> (status[u] = "absent")
      BY <1>4 DEF Retry
    <3>2. QED
      BY <3>1, OrderStays DEF OutboxInv
  <2>5. Orderly'
    BY <1>4 DEF Retry
  <2>6. Recorded' /\ SendsAreCounted'
    BY <1>4 DEF Retry
  <2>7. QED
    BY <2>2, <2>3, <2>4, <2>5, <2>6
<1>5. CASE CloseRead(t)
  BY <1>5 DEF CloseRead
<1>6. CASE CloseWrite(t)
  <2>2. TypeOK'
    BY <1>6 DEF CloseWrite, Locked
  <2>3. HandsFull' /\ AckedShown' /\ ClosedInClaim' /\ SentWasShown'
    BY <1>6 DEF CloseWrite, Locked
  <2>4. AddedInOrder'
    <3>1. \A u \in Item : (status'[u] = "absent") <=> (status[u] = "absent")
      BY <1>6 DEF CloseWrite, Locked
    <3>2. QED
      BY <3>1, OrderStays DEF OutboxInv
  <2>5. Orderly'
    BY <1>6 DEF CloseWrite, Locked
  <2>6. Recorded' /\ SendsAreCounted'
    BY <1>6 DEF CloseWrite, Locked
  <2>7. QED
    BY <2>2, <2>3, <2>4, <2>5, <2>6
<1>7. QED
  BY <1>1, <1>2, <1>3, <1>4, <1>5, <1>6 DEF ItemStep

(* Connections and processes. *)
LEMMA LinkKeeps ==
    ASSUME NEW g \in Gateway, OutboxInv,
           \/ Connect(g) \/ Disconnect(g) \/ Cool(g) \/ Raise(g)
           \/ Drain(g) \/ Stop(g) \/ Crash(g) \/ Restart(g)
    PROVE  OutboxInv'
PROOF
<1> USE OutboxAssumption
    DEF OutboxInv, TypeOK, HandsFull, AckedShown, AddedInOrder, ClosedInClaim, SentWasShown, Orderly, Owned,
        Alone, AttemptsLeft, ReadIsFresh, AheadSettled, Recorded, BegunUncounted, AckedWritten,
        SendsAreCounted, Exact, Protocol, Unsettled, Settled, Steps, Answers, PlanType, Goto, LetGo,
        Ahead, rowVars, handVars, linkVars, wireVars, countVars
<1> USE DEF Disrupt, Down
<1>1. CASE Connect(g)
  BY <1>1 DEF Connect
<1>2. CASE Disconnect(g)
  BY <1>2 DEF Disconnect
<1>3. CASE Cool(g)
  BY <1>3 DEF Cool
<1>4. CASE Raise(g)
  BY <1>4 DEF Raise
<1>5. CASE Drain(g)
  BY <1>5 DEF Drain
<1>6. CASE Stop(g)
  BY <1>6 DEF Stop
<1>7. CASE Crash(g)
  BY <1>7 DEF Crash
<1>8. CASE Restart(g)
  BY <1>8 DEF Restart
<1>9. QED
  BY <1>1, <1>2, <1>3, <1>4, <1>5, <1>6, <1>7, <1>8

LEMMA StutterKeeps == OutboxInv /\ UNCHANGED vars => OutboxInv'
PROOF
<1> SUFFICES ASSUME OutboxInv, UNCHANGED vars PROVE OutboxInv'
  OBVIOUS
<1>1. UNCHANGED <<rowVars, handVars, linkVars, closing, wireVars, countVars>>
  BY DEF vars
<1>2. TypeOK' /\ HandsFull' /\ AckedShown' /\ ClosedInClaim' /\ SentWasShown'
  BY <1>1 DEF OutboxInv, TypeOK, HandsFull, AckedShown, ClosedInClaim, SentWasShown,
              Protocol, rowVars, handVars, linkVars, wireVars, countVars
<1>3. AddedInOrder'
  BY <1>1, OrderStays DEF OutboxInv, rowVars
<1>4. Orderly' /\ Recorded' /\ SendsAreCounted'
  BY <1>1 DEF OutboxInv, Orderly, Owned, Alone, AttemptsLeft, ReadIsFresh, AheadSettled,
              Recorded, BegunUncounted, AckedWritten, SendsAreCounted, Exact,
              Protocol, rowVars, handVars, linkVars, wireVars, countVars
<1>5. QED
  BY <1>2, <1>3, <1>4 DEF OutboxInv

LEMMA StepKeeps == OutboxInv /\ [Next]_vars => OutboxInv'
PROOF
<1> SUFFICES ASSUME OutboxInv, Next PROVE OutboxInv'
  BY StutterKeeps
<1>1. ASSUME NEW g \in Gateway, GatewayStep(g) PROVE OutboxInv'
  BY <1>1, TakeKeeps, SendKeeps, LinkKeeps DEF GatewayStep, ConsumerStep
<1>2. ASSUME NEW t \in Item, ItemStep(t) PROVE OutboxInv'
  BY <1>2, RowKeeps
<1>3. QED
  BY <1>1, <1>2 DEF Next

(* OutboxInv is an invariant of the queue. *)
LEMMA OutboxInvariant == Spec => []OutboxInv
PROOF
BY InitOutbox, StepKeeps, PTL DEF Spec

(* Whatever the rows, the consumers and the failures, every variable of    *)
(* the queue stays in its type, and no row counts more than MAX_ATTEMPTS.  *)
THEOREM OutboxTypes == Spec => []TypeOK
PROOF
<1>1. OutboxInv => TypeOK
  BY DEF OutboxInv
<1>2. QED
  BY <1>1, OutboxInvariant, PTL

(* A row counts as sent only when the platform took its message, in both   *)
(* protocols and with stalled consumers too.                               *)
THEOREM SentWasAlwaysShown == Spec => []SentWasShown
PROOF
<1>1. OutboxInv => SentWasShown
  BY DEF OutboxInv
<1>2. QED
  BY <1>1, OutboxInvariant, PTL

(* With begin_attempt() committed before the frame, what has gone out      *)
(* never exceeds the attempts counted and the one that is open.            *)
THEOREM SendsAlwaysCounted == Spec => []SendsAreCounted
PROOF
<1>1. OutboxInv => SendsAreCounted
  BY DEF OutboxInv
<1>2. QED
  BY <1>1, OutboxInvariant, PTL

------------------------------------------------------------------------------
(* Only these steps write the status of a row. *)
LEMMA Writers ==
    ASSUME Next
    PROVE  \/ status' = status
           \/ \E g \in Gateway :
                \/ Skip(g) \/ Defer(g) \/ Begin(g)
                \/ RecordSent(g) \/ RecordRefused(g) \/ WriteAttempts(g)
           \/ \E t \in Item : Add(t) \/ Recover(t) \/ Retry(t) \/ CloseWrite(t)
PROOF
<1> USE DEF rowVars
<1>1. ASSUME NEW g \in Gateway,
             \/ Claim(g) \/ Transmit(g) \/ ReadAttempts(g) \/ Connect(g) \/ Disconnect(g)
             \/ Cool(g) \/ Raise(g) \/ Drain(g) \/ Stop(g) \/ Crash(g) \/ Restart(g)
      PROVE  status' = status
  BY <1>1 DEF Claim, Transmit, ReadAttempts, Connect, Disconnect, Cool, Raise, Drain, Stop, Crash, Restart
<1>2. ASSUME NEW t \in Item, FallDue(t) \/ CloseRead(t) PROVE status' = status
  BY <1>2 DEF FallDue, CloseRead
<1>3. QED
  BY <1>1, <1>2 DEF Next, GatewayStep, ConsumerStep, ItemStep

(* Only the consumer that has just written the frame raises the count. *)
LEMMA Senders ==
    ASSUME Next
    PROVE  \/ written' = written
           \/ \E g \in Gateway : Transmit(g)
           \/ \E t \in Item : Retry(t)
PROOF
<1> USE DEF wireVars
<1>1. ASSUME NEW g \in Gateway, GatewayStep(g), ~Transmit(g) PROVE written' = written
  <2>1. CASE Claim(g) \/ Skip(g) \/ Defer(g) \/ Begin(g)
    BY <2>1 DEF Claim, Skip, Defer, Begin
  <2>2. CASE RecordSent(g) \/ RecordRefused(g) \/ ReadAttempts(g) \/ WriteAttempts(g)
    BY <2>2 DEF RecordSent, RecordRefused, ReadAttempts, WriteAttempts
  <2>3. CASE \/ Connect(g) \/ Disconnect(g) \/ Cool(g) \/ Raise(g)
             \/ Drain(g) \/ Stop(g) \/ Crash(g) \/ Restart(g)
    BY <2>3 DEF Connect, Disconnect, Cool, Raise, Drain, Stop, Crash, Restart
  <2>4. QED
    BY <1>1, <2>1, <2>2, <2>3 DEF GatewayStep, ConsumerStep
<1>2. ASSUME NEW t \in Item, ItemStep(t), ~Retry(t) PROVE written' = written
  BY <1>2 DEF ItemStep, Add, FallDue, Recover, CloseRead, CloseWrite
<1>3. QED
  BY <1>1, <1>2 DEF Next

(* What a frame does to the count of its row. *)
LEMMA OneSend ==
    ASSUME NEW g \in Gateway, OutboxInv, Transmit(g)
    PROVE  /\ working[g] \in Item /\ step[g] # "idle"
           /\ \/ written' = written
              \/ written' = [written EXCEPT ![working[g]] = @ + 1]
PROOF
<1>1. working[g] \in Item /\ step[g] # "idle"
  BY DEF Transmit, OutboxInv, TypeOK, HandsFull
<1>2. PICK n \in {0, 1} : written' = [written EXCEPT ![working[g]] = @ + n]
  BY DEF Transmit
<1>3. written \in [Item -> Nat]
  BY DEF OutboxInv, TypeOK
<1>4. CASE n = 0
  BY <1>1, <1>2, <1>3, <1>4
<1>5. CASE n = 1
  BY <1>1, <1>2, <1>5
<1>6. QED
  BY <1>1, <1>2, <1>4, <1>5

(* A late acknowledgement finds the row failed or skipped and leaves it. *)
THEOREM LateAcksIgnored == Spec => LateAckIgnored
PROOF
<1>1. ASSUME OutboxInv, Next, NEW t \in Item, status[t] \in {"failed", "skipped"}
      PROVE  status'[t] # "sent"
  <2> USE OutboxAssumption DEF OutboxInv, TypeOK, Unsettled
  <2>1. ASSUME NEW g \in Gateway,
               \/ Skip(g) \/ Defer(g) \/ Begin(g)
               \/ RecordSent(g) \/ RecordRefused(g) \/ WriteAttempts(g)
        PROVE  status'[t] # "sent"
    BY <1>1, <2>1 DEF Skip, Defer, Begin, RecordSent, SetStatus, RecordRefused, WriteAttempts, RetryOrFail, rowVars
  <2>2. ASSUME NEW u \in Item, Add(u) \/ Recover(u) \/ Retry(u) \/ CloseWrite(u)
        PROVE  status'[t] # "sent"
    BY <1>1, <2>2 DEF Add, Recover, RetryOrFail, Retry, CloseWrite
  <2>3. QED
    BY <1>1, <2>1, <2>2, Writers
<1>2. OutboxInv /\ [Next]_vars =>
        [\A t \in Item : status[t] \in {"failed", "skipped"} => status'[t] # "sent"]_vars
  BY <1>1
<1>3. QED
  BY <1>2, OutboxInvariant, PTL DEF Spec, LateAckIgnored

(* A group goes out in order as long as no consumer outlives its attempt:  *)
(* claim_next() looks at the rows ahead once, and none of them can come    *)
(* back while the row is in hand, unless the administrator puts it back.   *)
THEOREM GroupsInOrder == Spec => GroupOrder
PROOF
<1> DEFINE Ordered ==
        plan.stalls = {} =>
            \A t \in Item : written'[t] > written[t] =>
                \A u \in Ahead(t) : status[u] \in Unsettled => reopened[u]
<1>1. ASSUME OutboxInv, Next PROVE Ordered
  <2> SUFFICES ASSUME plan.stalls = {}, NEW t \in Item, written'[t] > written[t],
                      NEW u \in Ahead(t), status[u] \in Unsettled
               PROVE  reopened[u]
    BY DEF Ordered
  <2>1. written \in [Item -> Nat] /\ written[t] \in Nat
    BY <1>1 DEF OutboxInv, TypeOK
  <2>2. ASSUME NEW x \in Item, Retry(x) PROVE FALSE
    BY <2>1, <2>2 DEF Retry
  <2>3. PICK g \in Gateway : Transmit(g)
    BY <1>1, <2>1, <2>2, Senders
  <2>4. working[g] = t /\ step[g] # "idle"
    BY <1>1, <2>1, <2>3, OneSend
  <2>5. QED
    BY <1>1, <2>4 DEF OutboxInv, Orderly, AheadSettled
<1>2. OutboxInv /\ [Next]_vars => [Ordered]_vars
  BY <1>1
<1>3. QED
  BY <1>2, OutboxInvariant, PTL DEF Spec, GroupOrder, Ordered

------------------------------------------------------------------------------
(* The refinement *)

(* The phases of the contract. *)
LEMMA Phases ==
    /\ PhaseOf("absent") = "absent" /\ PhaseOf("sent") = "delivered"
    /\ PhaseOf("failed") = "failed" /\ PhaseOf("skipped") = "skipped"
    /\ \A s \in Unsettled : PhaseOf(s) = "waiting"
    /\ \A s \in Unsettled \cup Settled \cup {"absent"} : PhaseOf(s) = "waiting" => s \in Unsettled
  BY DEF PhaseOf, Unsettled, Settled

(* A row changes its status, and nothing the contract counts changes. *)
RowChange(t) ==
    /\ UNCHANGED <<written, reopened>>
    /\ status' = [status EXCEPT ![t] = status'[t]]
    /\ \/ status[t] = "absent" /\ status'[t] = "pending" /\ \A u \in Ahead(t) : status[u] # "absent"
       \/ status[t] \in Unsettled /\ status'[t] \in Unsettled \cup {"failed", "skipped"}
       \/ status[t] \in Unsettled /\ status'[t] = "sent" /\ written[t] > 0
       \/ status'[t] = status[t]

(* With a recorded attempt a consumer writes the row it owns. *)
LEMMA ConsumerWrites ==
    ASSUME NEW g \in Gateway, OutboxInv, Exact,
           \/ Skip(g) \/ Defer(g) \/ Begin(g)
           \/ RecordSent(g) \/ RecordRefused(g) \/ WriteAttempts(g)
    PROVE  \E t \in Item : RowChange(t)
PROOF
<1> DEFINE t == working[g]
<1> USE DEF Unsettled, wireVars, countVars, rowVars
<1>1. t \in Item /\ status \in [Item -> Unsettled \cup Settled \cup {"absent"}]
  BY DEF OutboxInv, TypeOK, HandsFull, Skip, Defer, Begin, RecordSent, RecordRefused, WriteAttempts
<1>2. step[g] # "idle" /\ status[t] = IF step[g] # "claimed" THEN "sending" ELSE "pending"
  BY DEF OutboxInv, Orderly, Owned, Exact, Skip, Defer, Begin, RecordSent, RecordRefused, WriteAttempts
<1>3. CASE Skip(g) \/ Defer(g) \/ Begin(g)
  <2>1. UNCHANGED <<written, reopened>> /\ status[t] \in Unsettled
    BY <1>2, <1>3 DEF Skip, Defer, Begin
  <2>2. PICK s \in Unsettled \cup {"skipped"} : status' = [status EXCEPT ![t] = s]
    BY <1>3 DEF Skip, Defer, Begin
  <2>3. QED
    BY <1>1, <2>1, <2>2 DEF RowChange
<1>4. CASE RecordSent(g)
  <2>1. UNCHANGED <<written, reopened>> /\ written[t] > 0
    BY <1>4 DEF RecordSent, OutboxInv, Recorded, AckedWritten
  <2>2. status' = [status EXCEPT ![t] = "sent"] /\ status[t] \in Unsettled
    BY <1>1, <1>2, <1>4 DEF RecordSent, SetStatus
  <2>3. QED
    BY <1>1, <2>1, <2>2 DEF RowChange
<1>5. CASE RecordRefused(g)
  BY <1>1, <1>5 DEF RecordRefused, RowChange
<1>6. CASE WriteAttempts(g)
  <2>1. UNCHANGED <<written, reopened>> /\ status[t] \in Unsettled
    BY <1>2, <1>6 DEF WriteAttempts
  <2>2. CASE UNCHANGED rowVars
    BY <1>1, <2>1, <2>2 DEF RowChange
  <2>3. CASE RetryOrFail(t, seen[g] + 1)
    <3>1. PICK s \in {"pending", "failed"} : status' = [status EXCEPT ![t] = s]
      BY <2>3 DEF RetryOrFail
    <3>2. QED
      BY <1>1, <2>1, <3>1 DEF RowChange
  <2>4. QED
    BY <1>6, <2>2, <2>3 DEF WriteAttempts
<1>7. QED
  BY <1>3, <1>4, <1>5, <1>6

(* ... and nobody else writes it but the scheduler and whoever adds it. *)
LEMMA OthersWrite ==
    ASSUME NEW t \in Item, OutboxInv, Exact, Add(t) \/ Recover(t) \/ CloseWrite(t)
    PROVE  RowChange(t)
PROOF
<1> USE DEF Unsettled, wireVars, countVars
<1>1. status \in [Item -> Unsettled \cup Settled \cup {"absent"}]
  BY DEF OutboxInv, TypeOK
<1>2. CASE Add(t)
  BY <1>1, <1>2 DEF Add, RowChange
<1>3. CASE Recover(t)
  <2>1. UNCHANGED <<written, reopened>> /\ status[t] = "sending"
    BY <1>3 DEF Recover
  <2>2. PICK s \in {"pending", "failed"} : status' = [status EXCEPT ![t] = s]
    BY <1>3 DEF Recover, RetryOrFail
  <2>3. QED
    BY <1>1, <2>1, <2>2 DEF RowChange
<1>4. CASE CloseWrite(t)
  BY <1>4 DEF CloseWrite, OutboxInv, ClosedInClaim, Exact
<1>5. QED
  BY <1>2, <1>3, <1>4

(* A step of one row is a step of the contract, or none. *)
LEMMA RowRefines ==
    ASSUME NEW t \in Item, OutboxInv, RowChange(t)
    PROVE  [Contract!ContractNext]_(Contract!contractVars)
PROOF
<1> DEFINE phase == [u \in Item |-> PhaseOf(status[u])]
<1>1. \A u \in Item \ {t} : phase'[u] = phase[u]
  <2>1. \A u \in Item \ {t} : status'[u] = status[u]
    BY DEF RowChange, OutboxInv, TypeOK
  <2>2. QED
    BY <2>1
<1>2. phase' = [phase EXCEPT ![t] = PhaseOf(status'[t])]
  BY <1>1
<1>3. UNCHANGED <<written, reopened>>
  BY DEF RowChange
<1>4. CASE status[t] = "absent" /\ status'[t] = "pending" /\ \A u \in Ahead(t) : status[u] # "absent"
  <2>1. PhaseOf(status[t]) = "absent" /\ PhaseOf(status'[t]) = "waiting"
    BY <1>4, Phases DEF Unsettled
  <2>2. \A u \in Ahead(t) : phase[u] # "absent"
    BY <1>4 DEF PhaseOf, Ahead, OutboxInv, TypeOK, Unsettled, Settled
  <2>3. Contract!Submit(t)
    BY <1>2, <1>3, <2>1, <2>2 DEF Contract!Submit, Contract!Ahead, Ahead
  <2>4. QED
    BY <2>3 DEF Contract!ContractNext
<1>5. CASE status[t] \in Unsettled /\ status'[t] \in {"failed", "skipped"}
  <2>1. Contract!GiveUp(t)
    BY <1>2, <1>3, <1>5, Phases DEF Contract!GiveUp
  <2>2. QED
    BY <2>1 DEF Contract!ContractNext
<1>6. CASE status[t] \in Unsettled /\ status'[t] = "sent" /\ written[t] > 0
  <2>1. Contract!Deliver(t)
    BY <1>2, <1>3, <1>6, Phases DEF Contract!Deliver
  <2>2. QED
    BY <2>1 DEF Contract!ContractNext
<1>7. CASE (status[t] \in Unsettled /\ status'[t] \in Unsettled) \/ status'[t] = status[t]
  <2>1. PhaseOf(status'[t]) = PhaseOf(status[t])
    BY <1>7, Phases
  <2>2. phase' = phase
    BY <1>2, <2>1
  <2>3. QED
    BY <1>3, <2>2 DEF Contract!contractVars
<1>8. QED
  BY <1>4, <1>5, <1>6, <1>7 DEF RowChange

(* A frame is a step of the contract: its attempt is below the limit and   *)
(* whatever is ahead has settled.                                          *)
LEMMA SendRefines ==
    ASSUME NEW g \in Gateway, OutboxInv, Exact, Transmit(g)
    PROVE  [Contract!ContractNext]_(Contract!contractVars)
PROOF
<1> DEFINE t == working[g]
           phase == [u \in Item |-> PhaseOf(status[u])]
<1>1. UNCHANGED <<status, reopened>> /\ step[g] = "begun"
  BY DEF Transmit, Exact, rowVars, countVars
<1>2. phase' = phase
  BY <1>1
<1>3. t \in Item /\ step[g] # "idle"
  BY OneSend
<1>4. CASE written' = written
  BY <1>1, <1>2, <1>4 DEF Contract!contractVars
<1>5. CASE written' = [written EXCEPT ![t] = @ + 1]
  <2>1. status[t] = "sending"
    BY <1>1, <1>3 DEF OutboxInv, Orderly, Owned, Exact
  <2>2. attempts[t] < MaxAttempts
    BY <1>3, <2>1 DEF OutboxInv, Orderly, AttemptsLeft, Exact, Unsettled
  <2>3. written[t] <= attempts[t]
    BY <1>1, <1>3 DEF OutboxInv, Recorded, BegunUncounted
  <2>4. written[t] \in Nat /\ attempts[t] \in Nat /\ MaxAttempts \in Nat
    BY <1>3, OutboxAssumption DEF OutboxInv, TypeOK
  <2>5. written[t] < MaxAttempts
    BY <2>2, <2>3, <2>4
  <2>6. \A u \in Ahead(t) : phase[u] = "waiting" => reopened[u]
    BY <1>3, Phases DEF Ahead, OutboxInv, TypeOK, Orderly, AheadSettled, Exact
  <2>7. phase[t] = "waiting"
    BY <1>3, <2>1, Phases DEF Unsettled
  <2>8. Contract!GoOut(t)
    BY <1>1, <1>2, <1>5, <2>5, <2>6, <2>7 DEF Contract!GoOut, Contract!Ahead, Ahead
  <2>9. QED
    BY <1>3, <2>8 DEF Contract!ContractNext
<1>6. QED
  BY <1>4, <1>5, OneSend

(* The administrator's retry is the contract's. *)
LEMMA RetryRefines ==
    ASSUME NEW t \in Item, OutboxInv, Retry(t)
    PROVE  [Contract!ContractNext]_(Contract!contractVars)
PROOF
<1> DEFINE phase == [u \in Item |-> PhaseOf(status[u])]
<1>1. /\ status[t] = "failed" /\ status' = [status EXCEPT ![t] = "pending"]
      /\ written' = [written EXCEPT ![t] = 0] /\ reopened' = [reopened EXCEPT ![t] = TRUE]
      /\ status \in [Item -> Unsettled \cup Settled \cup {"absent"}]
  BY DEF Retry, OutboxInv, TypeOK
<1>2. phase[t] = "failed" /\ phase' = [phase EXCEPT ![t] = "waiting"]
  BY <1>1, Phases DEF Unsettled
<1>3. Contract!Reopen(t)
  BY <1>1, <1>2 DEF Contract!Reopen
<1>4. QED
  BY <1>3 DEF Contract!ContractNext

(* Only the administrator's retry marks a row as sent again. *)
LEMMA Reopeners ==
    ASSUME Next
    PROVE  reopened' = reopened \/ \E t \in Item : Retry(t)
PROOF
<1> USE DEF countVars, Disrupt, Down
<1>1. ASSUME NEW g \in Gateway, GatewayStep(g) PROVE reopened' = reopened
  <2>1. CASE Claim(g) \/ Skip(g) \/ Defer(g) \/ Begin(g) \/ Transmit(g)
    BY <2>1 DEF Claim, Skip, Defer, Begin, Transmit
  <2>2. CASE RecordSent(g) \/ RecordRefused(g) \/ ReadAttempts(g) \/ WriteAttempts(g)
    BY <2>2 DEF RecordSent, RecordRefused, ReadAttempts, WriteAttempts
  <2>3. CASE \/ Connect(g) \/ Disconnect(g) \/ Cool(g) \/ Raise(g)
             \/ Drain(g) \/ Stop(g) \/ Crash(g) \/ Restart(g)
    BY <2>3 DEF Connect, Disconnect, Cool, Raise, Drain, Stop, Crash, Restart
  <2>4. QED
    BY <1>1, <2>1, <2>2, <2>3 DEF GatewayStep, ConsumerStep
<1>2. ASSUME NEW t \in Item, ItemStep(t), ~Retry(t) PROVE reopened' = reopened
  BY <1>2 DEF ItemStep, Add, FallDue, Recover, CloseRead, CloseWrite
<1>3. QED
  BY <1>1, <1>2 DEF Next

(* The table with every consumer around it, the scheduler and the          *)
(* administrator implements what it promises whoever adds a message: a     *)
(* message goes out at most MAX_ATTEMPTS times, in the order of its group, *)
(* and settles once.                                                       *)
THEOREM OutboxImplementsContract == Spec => ImplementsContract
PROOF
<1>1. Init => Contract!ContractInit
  BY Phases DEF Init, Contract!ContractInit
<1>2. OutboxInv /\ [Next]_vars => (Exact => [Contract!ContractNext]_(Contract!contractVars))
  <2> SUFFICES ASSUME OutboxInv, [Next]_vars, Exact
               PROVE  [Contract!ContractNext]_(Contract!contractVars)
    OBVIOUS
  <2>1. CASE UNCHANGED <<status, written, reopened>>
    BY <2>1 DEF Contract!contractVars
  <2>2. ASSUME NEW t \in Item, RowChange(t) \/ Retry(t)
        PROVE  [Contract!ContractNext]_(Contract!contractVars)
    BY <2>2, RowRefines, RetryRefines
  <2>3. ASSUME NEW g \in Gateway,
               \/ Transmit(g) \/ Skip(g) \/ Defer(g) \/ Begin(g)
               \/ RecordSent(g) \/ RecordRefused(g) \/ WriteAttempts(g)
        PROVE  [Contract!ContractNext]_(Contract!contractVars)
    BY <2>2, <2>3, ConsumerWrites, SendRefines
  <2>4. ASSUME NEW t \in Item, Add(t) \/ Recover(t) \/ Retry(t) \/ CloseWrite(t)
        PROVE  [Contract!ContractNext]_(Contract!contractVars)
    BY <2>2, <2>4, OthersWrite
  <2>5. CASE UNCHANGED vars
    BY <2>1, <2>5 DEF vars, rowVars, wireVars, countVars
  <2>6. CASE Next
    BY <2>1, <2>2, <2>3, <2>4, <2>6, Writers, Senders, Reopeners
  <2>7. QED
    BY <2>5, <2>6
<1>3. QED
  BY <1>1, <1>2, OutboxInvariant, PTL DEF Spec, ImplementsContract
==============================================================================
