-------------------------- MODULE InteractionsProofs --------------------------
(***************************************************************************)
(* Proofs about Interactions, for any number of rounds, questions, offers, *)
(* events and failures.                                                    *)
(*                                                                         *)
(* The argument is that a row only moves forward, unless two handlers      *)
(* crossed on it: what was over when the person acted is over when the     *)
(* handler reads, and a handler takes only what is not over.               *)
(***************************************************************************)
EXTENDS Interactions, TLAPS

Answering == Cards \cup {"text"}

(* What an event of each kind is about. *)
EventShape ==
    \A e \in Events :
        /\ used[e] # None => event[e].stage = "done"
        /\ event[e].stage # "none" /\ event[e].kind \in Cards =>
              event[e].on \in Rounds /\ event[e].at < Questions
        /\ event[e].stage # "none" /\ event[e].kind \in Picks => event[e].on \in Offers
        /\ event[e].stage = "read" /\ event[e].kind \in Words => event[e].on \in Rounds

(* What was over when the person acted is over. *)
OverHolds ==
    \A e \in Events : \A x \in event[e].over : x \in Over \/ x[1] \in crossed

(* A round that waits for a text still has a question. *)
WaitingAsked ==
    \A r \in Rounds : round[r].status = "open" /\ round[r].waiting =>
        round[r].index < Questions \/ r \in crossed

(* A handler has read what was not over when its event was sent. *)
ReadIsNew ==
    \A e \in Events : event[e].stage = "read" /\ event[e].kind \in Answering =>
        <<event[e].on, event[e].at>> \notin event[e].over \/ event[e].on \in crossed

(* A task that is queued may still be claimed. *)
ClaimsLeft == \A r \in Rounds : submit[r].stage \in {"none", "queued"} => submit[r].attempts < MaxAttempts

(* An offer that was answered is not open any more. *)
Answered == \A o \in waits \cup switches : offer[o] \notin {"none", "open"}

CardInv ==
    /\ TypeOK /\ EventShape /\ OverHolds /\ WaitingAsked /\ ReadIsNew /\ OverIsOver
    /\ ClaimsLeft /\ Answered /\ WaitMeansNoSwitch

------------------------------------------------------------------------------
(* How a row may move. *)
Forward(r) ==
    round[r].status # "none" =>
        /\ round'[r].status # "none"
        /\ round[r].status = "gone" => round'[r].status = "gone"
        /\ round[r].index <= round'[r].index

(* How an event moves. *)
Stays(e) == event'[e] = event[e] /\ used'[e] = used[e]
Sent(e) ==
    /\ event[e].stage = "none" /\ used'[e] = used[e]
    /\ event'[e].stage = "sent" /\ event'[e].over = Over
    /\ event'[e].kind \in Cards => event'[e].on \in Rounds /\ event'[e].at < Questions
    /\ event'[e].kind \in Picks => event'[e].on \in Offers
Done(e) ==
    /\ event[e].stage \in {"sent", "read"} /\ used'[e] = used[e]
    /\ event'[e] = [event[e] EXCEPT !.stage = "done"]
Read(e) ==
    /\ event[e].stage = "sent" /\ used'[e] = used[e]
    /\ event'[e].stage = "read" /\ event'[e].kind = event[e].kind /\ event'[e].over = event[e].over
    /\ event[e].kind \in Words => event'[e].on \in Rounds
    /\ event[e].kind \in Cards => event'[e].on = event[e].on /\ event'[e].at = event[e].at
    /\ event[e].kind \in Picks => event'[e].on = event[e].on
    /\ event[e].kind \in Answering =>
          <<event'[e].on, event'[e].at>> \notin Over \/ event'[e].on \in crossed
Recorded(e) ==
    /\ event[e].stage = "read" /\ event[e].kind \in Answering
    /\ event'[e] = [event[e] EXCEPT !.stage = "done"]
    /\ used'[e] = <<event[e].on, event[e].at>>

EventMoves == \A e \in Events : Stays(e) \/ Sent(e) \/ Done(e) \/ Read(e) \/ Recorded(e)

RoundsMove ==
    /\ crossed \subseteq crossed'
    /\ \A r \in Rounds : Forward(r) \/ r \in crossed'

(* At the start nothing was asked and nothing was sent. *)
LEMMA InitCard == Init => CardInv
PROOF
<1> SUFFICES ASSUME Init PROVE CardInv
  OBVIOUS
<1> USE InteractionAssumption DEF Init
<1>1. TypeOK
  BY DEF TypeOK, None, Living
<1>2. EventShape /\ OverHolds /\ WaitingAsked /\ ReadIsNew /\ OverIsOver
  BY DEF EventShape, OverHolds, WaitingAsked, ReadIsNew, OverIsOver, None
<1>3. ClaimsLeft /\ Answered /\ WaitMeansNoSwitch
  BY DEF ClaimsLeft, Answered, WaitMeansNoSwitch
<1>4. QED
  BY <1>1, <1>2, <1>3 DEF CardInv

(* What a handler may take is not over. *)
LEMMA AskedIsNotOver ==
    ASSUME TypeOK, WaitingAsked, NEW r \in Rounds, NEW i \in Nat, round[r].status = "open",
           i = round[r].index, i < Questions \/ round[r].waiting
    PROVE  <<r, i>> \notin Over \/ r \in crossed
PROOF
<1>1. CASE r \in crossed
  BY <1>1
<1>2. CASE r \notin crossed
  <2>1. i < Questions
    BY <1>2 DEF WaitingAsked
  <2>2. QED
    BY <2>1, InteractionAssumption DEF Over, TypeOK
<1>3. QED
  BY <1>1, <1>2

(* A step of the person. *)
LEMMA PersonMoves ==
    ASSUME CardInv, NEW e \in Events, PersonStep(e)
    PROVE  EventMoves /\ RoundsMove
PROOF
<1> USE InteractionAssumption DEF CardInv, TypeOK, Send, Comes, EventMoves, RoundsMove, Forward, Stays, Sent
<1>1. CASE Click(e)
  BY <1>1, SMTT(30) DEF Click, Rounds, Cards, Picks
<1>2. CASE Say(e)
  BY <1>2, SMTT(30) DEF Say, Words, Cards, Picks
<1>3. CASE Pick(e)
  BY <1>3, SMTT(30) DEF Pick, Cards, Picks, Offers
<1>4. QED
  BY <1>1, <1>2, <1>3 DEF PersonStep

(* A step of the handler of a click or a message. *)
LEMMA HandlersMove ==
    ASSUME CardInv, NEW e \in Events, AnswerStep(e) \/ PickStep(e)
    PROVE  EventMoves /\ RoundsMove
PROOF
<1> USE InteractionAssumption DEF EventMoves, RoundsMove
<1>t. TypeOK /\ EventShape /\ WaitingAsked /\ event \in [Events -> [kind : {"none"} \cup Cards \cup Words \cup Picks,
                             stage : {"none", "sent", "read", "done"},
                             on : Nat, at : Nat,
                             over : SUBSET (Rounds \X (0 .. Questions))]]
  BY DEF CardInv, TypeOK
<1>0. /\ Cards = {"option", "other"} /\ Words = {"text", "cancel", "stop", "reset"}
      /\ Picks = {"wait", "switch"} /\ Answering = {"option", "other", "text"}
  BY DEF Cards, Words, Picks, Answering
<1>d. ASSUME event[e].stage \in {"sent", "read"}, Finish(e), used' = used
      PROVE  EventMoves
  BY <1>t, <1>d DEF Finish, Stays, Done
<1>s. ASSUME round' = round, crossed' = crossed
      PROVE  RoundsMove
  BY <1>s DEF TypeOK, Forward, CardInv
<1>1. CASE ReadClick(e)
  <2>1. CASE Answerable(event[e].on, event[e].at)
    <3>1. event[e].on \in Rounds /\ event[e].at \in Nat /\ event[e].at < Questions
      BY <1>1, <1>t, <1>0 DEF ReadClick, EventShape
    <3>2. <<event[e].on, event[e].at>> \notin Over \/ event[e].on \in crossed
      BY <2>1, <3>1, <1>t, AskedIsNotOver DEF Answerable
    <3>3. event' = [event EXCEPT ![e].stage = "read"] /\ used' = used /\ crossed' = crossed
          /\ round' = round /\ event[e].stage = "sent" /\ event[e].kind \in Cards
      BY <1>1, <2>1 DEF ReadClick
    <3>4. Read(e)
      BY <3>2, <3>3, <1>t, <1>0 DEF Read
    <3>5. \A f \in Events : f # e => Stays(f)
      BY <3>3, <1>t DEF Stays
    <3>6. QED
      BY <3>3, <3>4, <3>5, <1>s
  <2>2. CASE ~Answerable(event[e].on, event[e].at)
    BY <1>1, <2>2, <1>d, <1>s DEF ReadClick
  <2>3. QED
    BY <2>1, <2>2
<1>2. CASE WriteOther(e)
  <2> DEFINE r == event[e].on
  <2>1. r \in Rounds /\ EventMoves
    BY <1>2, <1>d, <1>t, <1>0 DEF WriteOther, EventShape
  <2>2. \A s \in Rounds : Forward(s)
    BY <1>2, <2>1, <1>t DEF WriteOther, Patched, Living, Forward, TypeOK
  <2>3. QED
    BY <1>2, <2>1, <2>2 DEF WriteOther
<1>3. CASE WriteAnswer(e)
  <2> DEFINE r == event[e].on
  <2>1. event[e].stage = "read" /\ event[e].kind \in {"option", "text"} /\ Advance(e)
    BY <1>3 DEF WriteAnswer
  <2>2. r \in Rounds /\ event[e].at \in Nat
    BY <2>1, <1>t, <1>0 DEF EventShape
  <2>3. Recorded(e) /\ \A f \in Events : f # e => Stays(f)
    BY <2>1, <1>t, <1>0 DEF Advance, Finish, Recorded, Stays, TypeOK
  <2>4. crossed \subseteq crossed'
    BY <2>1 DEF Advance
  <2>5. \A s \in Rounds : s # r => Forward(s)
    BY <2>1, <2>2, <1>t DEF Advance, Patched, Forward, TypeOK
  <2>6. Forward(r) \/ r \in crossed'
    <3>1. CASE Answerable(r, event[e].at)
      <4>1. round[r].status = "open" /\ round[r].index = event[e].at
        BY <3>1 DEF Answerable
      <4>2. round' = [round EXCEPT ![r].index = event[e].at + 1, ![r].waiting = FALSE]
        BY <2>1, <4>1 DEF Advance, Patched, Living
      <4>3. QED
        BY <4>1, <4>2, <2>2, <1>t DEF Forward, TypeOK
    <3>2. CASE ~Answerable(r, event[e].at)
      BY <2>1, <3>2 DEF Advance
    <3>3. QED
      BY <3>1, <3>2
  <2>7. QED
    BY <2>3, <2>4, <2>5, <2>6
<1>4. CASE ReadText(e)
  <2>0. event[e].stage = "sent" /\ event[e].kind = "text" /\ used' = used /\ crossed' = crossed
    BY <1>4 DEF ReadText
  <2>1. CASE \E r \in OpenRounds :
               round[r].waiting /\ ReadAs(e, r, round[r].index) /\ UNCHANGED round
    <3>1. PICK r \in OpenRounds :
             round[r].waiting /\ ReadAs(e, r, round[r].index) /\ UNCHANGED round
      BY <2>1
    <3>2. r \in Rounds /\ round[r].status = "open" /\ round[r].index \in Nat
      BY <1>t DEF OpenRounds, TypeOK
    <3>3. <<r, round[r].index>> \notin Over \/ r \in crossed
      BY <3>1, <3>2, <1>t, AskedIsNotOver
    <3>4. Read(e)
      BY <2>0, <3>1, <3>2, <3>3, <1>t, <1>0 DEF Read, ReadAs
    <3>5. \A f \in Events : f # e => Stays(f)
      BY <2>0, <3>1, <1>t DEF Stays, ReadAs
    <3>6. QED
      BY <2>0, <3>1, <3>4, <3>5, <1>s
  <2>2. CASE \E r \in OpenRounds :
               /\ round' = [round EXCEPT ![r].waiting = FALSE]
               /\ Finish(e)
    <3>1. \A s \in Rounds : Forward(s)
      BY <2>2, <1>t DEF Forward, TypeOK
    <3>2. QED
      BY <2>0, <2>2, <3>1, <1>d
  <2>3. CASE Finish(e) /\ UNCHANGED round
    BY <2>0, <2>3, <1>d, <1>s
  <2>4. QED
    BY <1>4, <2>1, <2>2, <2>3 DEF ReadText
<1>5. CASE ReadCancel(e)
  <2>0. /\ event[e].stage = "sent" /\ event[e].kind = "cancel" /\ used' = used
        /\ crossed' = crossed /\ round' = round
    BY <1>5 DEF ReadCancel
  <2>1. CASE \E r \in OpenRounds : ReadAs(e, r, round[r].index)
    <3>1. Read(e)
      BY <2>0, <2>1, <1>t, <1>0 DEF Read, ReadAs, OpenRounds
    <3>2. \A f \in Events : f # e => Stays(f)
      BY <2>0, <2>1, <1>t DEF Stays, ReadAs
    <3>3. QED
      BY <2>0, <3>1, <3>2, <1>s
  <2>2. CASE Finish(e)
    BY <2>0, <2>2, <1>d, <1>s
  <2>3. QED
    BY <1>5, <2>1, <2>2 DEF ReadCancel
<1>6. CASE WriteCancel(e)
  <2>1. \A s \in Rounds : Forward(s)
    <3>1. event[e].on \in Rounds
      BY <1>6, <1>t, <1>0 DEF WriteCancel, EventShape
    <3>2. QED
      BY <1>6, <3>1, <1>t DEF WriteCancel, Removed, Forward, TypeOK
  <2>2. QED
    BY <1>6, <2>1, <1>d DEF WriteCancel
<1>7. CASE Clear(e)
  <2>1. \A s \in Rounds : Forward(s)
    BY <1>7, <1>t DEF Clear, ClearedRounds, Forward, TypeOK
  <2>2. QED
    BY <1>7, <2>1, <1>d DEF Clear
<1>8. CASE HandlerDies(e)
  BY <1>8, <1>d, <1>s DEF HandlerDies
<1>9. CASE ReadPick(e)
  <2>0. /\ event[e].stage = "sent" /\ event[e].kind \in Picks /\ used' = used
        /\ crossed' = crossed /\ round' = round
    BY <1>9 DEF ReadPick
  <2>1. CASE ReadAs(e, event[e].on, 0)
    <3>1. Read(e)
      BY <2>0, <2>1, <1>t, <1>0 DEF Read, ReadAs
    <3>2. \A f \in Events : f # e => Stays(f)
      BY <2>0, <2>1, <1>t DEF Stays, ReadAs
    <3>3. QED
      BY <2>0, <3>1, <3>2, <1>s
  <2>2. CASE Finish(e)
    BY <2>0, <2>2, <1>d, <1>s
  <2>3. QED
    BY <1>9, <2>1, <2>2 DEF ReadPick
<1>10. CASE WriteWait(e) \/ WriteSwitch(e)
  BY <1>10, <1>d, <1>s DEF WriteWait, WriteSwitch
<1>11. QED
  BY <1>1, <1>2, <1>3, <1>4, <1>5, <1>6, <1>7, <1>8, <1>9, <1>10 DEF AnswerStep, PickStep

(* Offers and turns leave the events alone. *)
LEMMA OthersMove ==
    ASSUME CardInv, (\E o \in Offers : OfferStep(o)) \/ (\E r \in Rounds : TurnStep(r))
    PROVE  EventMoves /\ RoundsMove
PROOF
<1> USE InteractionAssumption
<1>t. TypeOK
  BY DEF CardInv
<1>1. event' = event /\ used' = used /\ crossed' = crossed
  BY DEF OfferStep, MakeOffer, SwitchDone, Expire, TurnStep, Ask, Claim, TurnStarts, Busy,
         CancelledBefore, TurnEnds, AskAgain, CleanUp, Superseded, WorkerDies
<1>2. EventMoves
  BY <1>1 DEF EventMoves, Stays
<1>3. ASSUME NEW n \in Rounds, NextRound(n), round' = RoundOpened(n)
      PROVE  \A r \in Rounds : Forward(r)
  BY <1>3, <1>t DEF NextRound, RoundOpened, ClearedRounds, Forward, TypeOK
<1>4. ASSUME NEW n \in Rounds, round' = Removed(n)
      PROVE  \A r \in Rounds : Forward(r)
  BY <1>4, <1>t DEF Removed, Forward, TypeOK
<1>5. ASSUME round' = round
      PROVE  \A r \in Rounds : Forward(r)
  BY <1>5, <1>t DEF Forward, TypeOK
<1>6. \A r \in Rounds : Forward(r)
  <2>1. CASE \E o \in Offers : OfferStep(o)
    BY <2>1, <1>5 DEF OfferStep, MakeOffer, SwitchDone, Expire
  <2>2. CASE \E r \in Rounds : TurnStep(r)
    <3>1. PICK r \in Rounds : TurnStep(r)
      BY <2>2
    <3>2. CASE Ask(r)
      BY <3>2, <1>3 DEF Ask
    <3>3. CASE Claim(r)
      <4>1. CASE round' = [round EXCEPT ![r].status = "submitted"] /\ round[r].status = "open"
        BY <4>1, <1>t DEF Forward, TypeOK
      <4>2. QED
        BY <3>3, <4>1, <1>4, <1>5 DEF Claim
    <3>4. CASE AskAgain(r)
      BY <3>4, <1>3 DEF AskAgain
    <3>5. CASE CleanUp(r)
      BY <3>5, <1>4 DEF CleanUp
    <3>6. CASE \/ TurnStarts(r) \/ Busy(r) \/ CancelledBefore(r) \/ TurnEnds(r)
               \/ Superseded(r) \/ WorkerDies(r)
      BY <3>6, <1>5 DEF TurnStarts, Busy, CancelledBefore, TurnEnds, Superseded, WorkerDies
    <3>7. QED
      BY <3>1, <3>2, <3>3, <3>4, <3>5, <3>6 DEF TurnStep
  <2>3. QED
    BY <2>1, <2>2
<1>7. QED
  BY <1>1, <1>2, <1>6 DEF RoundsMove

(* Every step of the program moves events and rows this way. *)
LEMMA StepsMove ==
    ASSUME CardInv, Next
    PROVE  EventMoves /\ RoundsMove
PROOF
BY PersonMoves, HandlersMove, OthersMove DEF Next

------------------------------------------------------------------------------
(* What moves forward stays over. *)
LEMMA OverGrows ==
    ASSUME TypeOK, TypeOK', RoundsMove, NEW x \in Over
    PROVE  x \in Over' \/ x[1] \in crossed'
PROOF
<1> USE InteractionAssumption
<1> DEFINE r == x[1]
<1>1. r \in Rounds /\ x \in Rounds \X (0 .. Questions) /\ x[2] \in Nat
  BY DEF Over
<1>2. /\ round[r].index \in Nat /\ round'[r].index \in Nat /\ round[r].status # "none"
  BY <1>1 DEF TypeOK, Over
<1>3. CASE r \in crossed'
  BY <1>3
<1>4. CASE Forward(r)
  <2>1. round'[r].status # "none" /\ round[r].index <= round'[r].index
    BY <1>2, <1>4 DEF Forward
  <2>2. \/ round'[r].status = "gone"
        \/ x[2] < round'[r].index
        \/ round'[r].index >= Questions
    BY <1>1, <1>2, <1>4, <2>1 DEF Over, Forward
  <2>3. QED
    BY <1>1, <2>1, <2>2 DEF Over
<1>5. QED
  BY <1>1, <1>3, <1>4 DEF RoundsMove

(* What is known of the events is kept by such a step. *)
LEMMA EventsKeep ==
    ASSUME CardInv, TypeOK', EventMoves, RoundsMove
    PROVE  EventShape' /\ OverHolds' /\ ReadIsNew' /\ OverIsOver'
PROOF
<1> USE InteractionAssumption
<1>0. /\ Cards = {"option", "other"} /\ Words = {"text", "cancel", "stop", "reset"}
      /\ Picks = {"wait", "switch"} /\ Answering = {"option", "other", "text"}
  BY DEF Cards, Words, Picks, Answering
<1>i. TypeOK /\ EventShape /\ OverHolds /\ ReadIsNew /\ OverIsOver /\ crossed \subseteq crossed'
  BY DEF CardInv, RoundsMove
<1>t. event \in [Events -> [kind : {"none"} \cup Cards \cup Words \cup Picks,
                             stage : {"none", "sent", "read", "done"},
                             on : Nat, at : Nat,
                             over : SUBSET (Rounds \X (0 .. Questions))]]
  BY <1>i DEF TypeOK
<1>1. EventShape'
  <2> SUFFICES ASSUME NEW e \in Events
        PROVE  /\ used'[e] # None => event'[e].stage = "done"
               /\ event'[e].stage # "none" /\ event'[e].kind \in Cards =>
                     event'[e].on \in Rounds /\ event'[e].at < Questions
               /\ event'[e].stage # "none" /\ event'[e].kind \in Picks => event'[e].on \in Offers
               /\ event'[e].stage = "read" /\ event'[e].kind \in Words => event'[e].on \in Rounds
    BY DEF EventShape
  <2>0. Stays(e) \/ Sent(e) \/ Done(e) \/ Read(e) \/ Recorded(e)
    BY DEF EventMoves
  <2>1. CASE Stays(e)
    BY <2>1, <1>i DEF Stays, EventShape
  <2>2. CASE Sent(e)
    BY <2>2, <1>i DEF Sent, EventShape
  <2>3. CASE Done(e)
    BY <2>3, <1>i, <1>t DEF Done, EventShape
  <2>4. CASE Read(e)
    BY <2>4, <1>i, <1>0 DEF Read, EventShape
  <2>5. CASE Recorded(e)
    BY <2>5, <1>i, <1>t, <1>0 DEF Recorded, EventShape
  <2>6. QED
    BY <2>0, <2>1, <2>2, <2>3, <2>4, <2>5
<1>2. OverHolds'
  <2> SUFFICES ASSUME NEW e \in Events, NEW x \in event'[e].over
        PROVE  x \in Over' \/ x[1] \in crossed'
    BY DEF OverHolds
  <2>1. x \in Over \/ x[1] \in crossed
    <3>1. event'[e].over = Over \/ event'[e].over = event[e].over
      BY <1>t DEF EventMoves, Stays, Sent, Done, Read, Recorded
    <3>2. QED
      BY <3>1, <1>i DEF OverHolds
  <2>2. QED
    BY <2>1, <1>i, OverGrows
<1>3. ReadIsNew'
  <2> SUFFICES ASSUME NEW e \in Events, event'[e].stage = "read", event'[e].kind \in Answering
        PROVE  <<event'[e].on, event'[e].at>> \notin event'[e].over \/ event'[e].on \in crossed'
    BY DEF ReadIsNew
  <2>1. CASE Stays(e)
    BY <2>1, <1>i DEF Stays, ReadIsNew
  <2>2. CASE Read(e)
    <3>1. \/ <<event'[e].on, event'[e].at>> \notin Over
          \/ event'[e].on \in crossed
      BY <2>2 DEF Read
    <3>2. event'[e].over = event[e].over
      BY <2>2 DEF Read
    <3> DEFINE y == <<event'[e].on, event'[e].at>>
    <3>3. y \in event[e].over => y \in Over \/ y[1] \in crossed
      BY <1>i DEF OverHolds
    <3>4. QED
      BY <3>1, <3>2, <3>3, <1>i
  <2>3. CASE Sent(e) \/ Done(e) \/ Recorded(e)
    BY <2>3, <1>t DEF Sent, Done, Recorded
  <2>4. QED
    BY <2>1, <2>2, <2>3 DEF EventMoves
<1>4. OverIsOver'
  <2> SUFFICES ASSUME NEW e \in Events, used'[e] # None, used'[e][1] \notin crossed'
        PROVE  used'[e] \notin event'[e].over
    BY DEF OverIsOver
  <2>1. CASE Recorded(e)
    <3>1. /\ event[e].stage = "read" /\ event[e].kind \in Answering
          /\ event'[e].over = event[e].over
          /\ used'[e] = <<event[e].on, event[e].at>>
      BY <2>1, <1>t DEF Recorded
    <3>2. QED
      BY <3>1, <1>i DEF ReadIsNew
  <2>2. CASE Stays(e) \/ Done(e) \/ Read(e)
    <3>1. event'[e].over = event[e].over /\ used'[e] = used[e]
      BY <2>2, <1>t DEF Stays, Done, Read
    <3>2. QED
      BY <3>1, <1>i DEF OverIsOver
  <2>3. CASE Sent(e)
    BY <2>3, <1>i DEF Sent, EventShape
  <2>4. QED
    BY <2>1, <2>2, <2>3 DEF EventMoves
<1>5. QED
  BY <1>1, <1>2, <1>3, <1>4

(* Offers: an answer leaves an offer that is not open. *)
LEMMA OffersKeep ==
    ASSUME CardInv, Next
    PROVE  Answered' /\ WaitMeansNoSwitch'
PROOF
<1>i. Answered /\ WaitMeansNoSwitch /\ offer \in [Offers -> {"none", "open", "submitted", "expired", "gone"}]
      /\ EventShape
  BY DEF CardInv, TypeOK
<1>s. ASSUME waits' = waits, switches' = switches,
             \A o \in Offers : offer[o] \notin {"none", "open"} => offer'[o] \notin {"none", "open"},
             waits \subseteq Offers, switches \subseteq Offers
      PROVE  Answered' /\ WaitMeansNoSwitch'
  BY <1>i, <1>s DEF Answered, WaitMeansNoSwitch
<1>0. waits \subseteq Offers /\ switches \subseteq Offers
  BY DEF CardInv, TypeOK
<1>1. ASSUME NEW e \in Events, PersonStep(e) PROVE Answered' /\ WaitMeansNoSwitch'
  BY <1>0, <1>1, <1>s DEF PersonStep, Click, Say, Pick, Send
<1>2. ASSUME NEW e \in Events, AnswerStep(e) PROVE Answered' /\ WaitMeansNoSwitch'
  <2>1. CASE Clear(e)
    BY <2>1, <1>0, <1>s, <1>i DEF Clear, ClearedOffers
  <2>2. CASE ~Clear(e)
    <3>1. offer' = offer /\ waits' = waits /\ switches' = switches
      BY <1>2, <2>2 DEF AnswerStep, ReadClick, WriteOther, WriteAnswer, Advance, ReadText, ReadCancel,
                        WriteCancel, HandlerDies, rest
    <3>2. QED
      BY <3>1, <1>0, <1>s
  <2>3. QED
    BY <2>1, <2>2
<1>3. ASSUME NEW e \in Events, PickStep(e) PROVE Answered' /\ WaitMeansNoSwitch'
  <2> DEFINE o == event[e].on
  <2>1. CASE ReadPick(e)
    BY <2>1, <1>0, <1>s DEF ReadPick, rest
  <2>2. CASE WriteWait(e) \/ WriteSwitch(e)
    <3>1. o \in Offers
      BY <2>2, <1>i DEF WriteWait, WriteSwitch, EventShape, Picks
    <3>2. CASE ~Takes(o)
      BY <2>2, <3>2, <1>0, <1>s DEF WriteWait, WriteSwitch
    <3>3. CASE Takes(o)
      <4>1. o \notin waits \cup switches /\ offer' = [offer EXCEPT ![o] = "submitted"]
        BY <2>2, <3>3, <1>i DEF Takes, Answered, WriteWait, WriteSwitch
      <4>2. \/ waits' = waits \cup {o} /\ switches' = switches
            \/ waits' = waits /\ switches' = switches \cup {o}
        BY <2>2, <3>3 DEF WriteWait, WriteSwitch
      <4>3. QED
        BY <4>1, <4>2, <3>1, <1>i, <1>0 DEF Answered, WaitMeansNoSwitch
    <3>4. QED
      BY <3>2, <3>3
  <2>3. QED
    BY <1>3, <2>1, <2>2 DEF PickStep
<1>4. ASSUME NEW o \in Offers, OfferStep(o) PROVE Answered' /\ WaitMeansNoSwitch'
  <2>1. waits' = waits /\ switches' = switches
    BY <1>4 DEF OfferStep, MakeOffer, SwitchDone, Expire
  <2>2. \A p \in Offers : offer[p] \notin {"none", "open"} => offer'[p] \notin {"none", "open"}
    BY <1>4, <1>i DEF OfferStep, MakeOffer, SwitchDone, Expire, OfferOpened, ClearedOffers
  <2>3. QED
    BY <2>1, <2>2, <1>0, <1>s
<1>5. ASSUME NEW r \in Rounds, TurnStep(r) PROVE Answered' /\ WaitMeansNoSwitch'
  <2>1. offer' = offer /\ waits' = waits /\ switches' = switches
    BY <1>5 DEF TurnStep, Ask, Claim, TurnStarts, Busy, CancelledBefore, TurnEnds, AskAgain, CleanUp,
                Superseded, WorkerDies
  <2>2. QED
    BY <2>1, <1>0, <1>s
<1>6. QED
  BY <1>1, <1>2, <1>3, <1>4, <1>5 DEF Next

------------------------------------------------------------------------------
(* Rounds: a step leaves a row as it is or as good as ended, moves an open *)
(* row, or replaces all of them by a new one.                              *)
Row == [status : {"none", "open", "submitted", "gone"}, index : Nat, waiting : BOOLEAN]
RowKept(r) ==
    /\ round'[r] \in Row
    /\ Living(r)' => Living(r)
    /\ round'[r].status = "open" /\ round'[r].waiting =>
          round'[r].index < Questions \/ r \in crossed'

RowTypes ==
    /\ round \in [Rounds -> Row]
    /\ \A r, s \in Rounds : Living(r) /\ Living(s) => r = s

(* A step keeps the rows, and what is known of a round that waits. *)
LEMMA RowsKeep ==
    ASSUME CardInv, Next
    PROVE  RowTypes' /\ WaitingAsked'
PROOF
<1> USE InteractionAssumption
<1>i. round \in [Rounds -> Row] /\ WaitingAsked /\ EventShape
  BY DEF CardInv, TypeOK, Row
<1>t. event \in [Events -> [kind : {"none"} \cup Cards \cup Words \cup Picks,
                             stage : {"none", "sent", "read", "done"},
                             on : Nat, at : Nat,
                             over : SUBSET (Rounds \X (0 .. Questions))]]
  BY DEF CardInv, TypeOK
<1>0. crossed \subseteq crossed' /\ \A r, s \in Rounds : Living(r) /\ Living(s) => r = s
  BY StepsMove DEF RoundsMove, CardInv, TypeOK
<1>d. DOMAIN round = Rounds
  BY <1>i
<1>k. ASSUME DOMAIN round' = Rounds, round' = [r \in Rounds |-> round'[r]], \A r \in Rounds : RowKept(r)
      PROVE  RowTypes' /\ WaitingAsked'
  <2>1. round' \in [Rounds -> Row]
    BY <1>k DEF RowKept
  <2>2. QED
    BY <2>1, <1>k, <1>0 DEF RowKept, RowTypes, WaitingAsked
<1>u. ASSUME round' = round
      PROVE  RowTypes' /\ WaitingAsked'
  BY <1>u, <1>i, <1>0 DEF RowTypes, WaitingAsked, Living
<1>n. ASSUME NEW n \in Rounds, round' = RoundOpened(n)
      PROVE  RowTypes' /\ WaitingAsked'
  <2>1. \A r \in Rounds : round'[r] = IF r = n THEN [status |-> "open", index |-> 0, waiting |-> FALSE]
                                      ELSE ClearedRounds[r]
    BY <1>n, <1>i DEF RoundOpened, ClearedRounds
  <2>2. round' \in [Rounds -> Row]
    BY <1>n, <1>i DEF RoundOpened, ClearedRounds, Row
  <2>3. \A r \in Rounds : r # n => round'[r].status \in {"none", "gone"}
    BY <2>1, <1>i DEF ClearedRounds, Row
  <2>4. QED
    BY <2>1, <2>2, <2>3, <1>n DEF RowTypes, WaitingAsked, Living
<1>r. ASSUME NEW n \in Rounds, round' = Removed(n)
      PROVE  RowTypes' /\ WaitingAsked'
  BY <1>r, <1>i, <1>k, <1>0 DEF Removed, RowKept, Row, Living, WaitingAsked
<1>p. ASSUME NEW n \in Rounds, NEW i \in Nat, NEW w \in BOOLEAN, round' = Patched(n, i, w),
             round[n].status = "open" /\ w => i < Questions \/ n \in crossed'
      PROVE  RowTypes' /\ WaitingAsked'
  <2>1. CASE Living(n)
    BY <1>p, <2>1, <1>i, <1>k, <1>0 DEF Patched, RowKept, Row, Living, WaitingAsked
  <2>2. CASE ~Living(n)
    BY <1>p, <2>2, <1>u DEF Patched
  <2>3. QED
    BY <2>1, <2>2
<1>1. ASSUME NEW e \in Events, PersonStep(e) \/ PickStep(e)
      PROVE  RowTypes' /\ WaitingAsked'
  BY <1>1, <1>u DEF PersonStep, Click, Say, Pick, Send, PickStep, ReadPick, WriteWait, WriteSwitch
<1>2. ASSUME NEW e \in Events, AnswerStep(e)
      PROVE  RowTypes' /\ WaitingAsked'
  <2> DEFINE r == event[e].on
  <2>1. CASE WriteOther(e)
    <3>1. r \in Rounds /\ event[e].at < Questions /\ event[e].at \in Nat
      BY <2>1, <1>i, <1>t DEF WriteOther, EventShape, Cards
    <3>2. round[r].status = "open" => round[r].index < Questions \/ r \in crossed'
      BY <2>1, <3>1 DEF WriteOther, Answerable
    <3>3. round[r].index \in Nat
      BY <3>1, <1>i DEF Row
    <3>4. QED
      BY <2>1, <3>1, <3>2, <3>3, <1>p DEF WriteOther
  <2>2. CASE WriteAnswer(e)
    <3>1. r \in Rounds /\ event[e].at + 1 \in Nat
      BY <2>2, <1>i, <1>t DEF WriteAnswer, EventShape, Cards, Words
    <3>2. round' = Patched(r, event[e].at + 1, FALSE)
      BY <2>2 DEF WriteAnswer, Advance
    <3>3. QED
      BY <3>1, <3>2, <1>p
  <2>3. CASE ReadText(e)
    <3>1. ASSUME NEW s \in OpenRounds, round' = [round EXCEPT ![s].waiting = FALSE]
          PROVE  RowTypes' /\ WaitingAsked'
      <4>1. s \in Rounds
        BY DEF OpenRounds
      <4>2. QED
        BY <3>1, <4>1, <1>i, <1>k, <1>0 DEF RowKept, Row, Living, WaitingAsked
    <3>2. QED
      BY <2>3, <3>1, <1>u DEF ReadText
  <2>4. CASE WriteCancel(e)
    <3>1. r \in Rounds
      BY <2>4, <1>i DEF WriteCancel, EventShape, Words
    <3>2. QED
      BY <2>4, <3>1, <1>r DEF WriteCancel
  <2>5. CASE Clear(e)
    <3>1. round' = ClearedRounds
      BY <2>5 DEF Clear
    <3>2. QED
      BY <3>1, <1>i, <1>k DEF ClearedRounds, RowKept, Row, Living
  <2>6. CASE ReadClick(e) \/ ReadCancel(e) \/ HandlerDies(e)
    BY <2>6, <1>u DEF ReadClick, ReadCancel, HandlerDies
  <2>7. QED
    BY <1>2, <2>1, <2>2, <2>3, <2>4, <2>5, <2>6 DEF AnswerStep
<1>3. ASSUME NEW o \in Offers, OfferStep(o)
      PROVE  RowTypes' /\ WaitingAsked'
  BY <1>3, <1>u DEF OfferStep, MakeOffer, SwitchDone, Expire
<1>4. ASSUME NEW r \in Rounds, TurnStep(r)
      PROVE  RowTypes' /\ WaitingAsked'
  <2>1. CASE Ask(r)
    BY <2>1, <1>n DEF Ask
  <2>2. CASE Claim(r)
    <3>1. CASE round[r].status = "open" /\ round' = [round EXCEPT ![r].status = "submitted"]
      BY <3>1, <1>i, <1>k, <1>0 DEF RowKept, Row, Living, WaitingAsked
    <3>2. QED
      BY <2>2, <3>1, <1>r, <1>u DEF Claim
  <2>3. CASE AskAgain(r)
    BY <2>3, <1>n DEF AskAgain
  <2>4. CASE CleanUp(r)
    BY <2>4, <1>r DEF CleanUp
  <2>5. CASE \/ TurnStarts(r) \/ Busy(r) \/ CancelledBefore(r) \/ TurnEnds(r)
             \/ Superseded(r) \/ WorkerDies(r)
    BY <2>5, <1>u DEF TurnStarts, Busy, CancelledBefore, TurnEnds, Superseded, WorkerDies
  <2>6. QED
    BY <1>4, <2>1, <2>2, <2>3, <2>4, <2>5 DEF TurnStep
<1>5. QED
  BY <1>1, <1>2, <1>3, <1>4 DEF Next

------------------------------------------------------------------------------
(* The remaining types, variable by variable. *)
Sender == [kind : {"none"} \cup Cards \cup Words \cup Picks,
           stage : {"none", "sent", "read", "done"},
           on : Nat, at : Nat, over : SUBSET (Rounds \X (0 .. Questions))]
SubmitTask == [stage : {"none", "queued", "waiting", "turn", "ending", "done"},
               attempts : 0 .. MaxAttempts, cancelled : BOOLEAN,
               result : {"none", "missing", "duplicate", "config", "busy",
                         "cancelled", "answered", "asked", "lost"}]

EventTypes == event \in [Events -> Sender] /\ used \in [Events -> {None} \cup (Rounds \X Nat)]
TaskTypes == submit \in [Rounds -> SubmitTask] /\ turns \in [Rounds -> Nat]
OfferTypes ==
    /\ offer \in [Offers -> {"none", "open", "submitted", "expired", "gone"}]
    /\ waits \subseteq Offers /\ switches \subseteq Offers
CountTypes == crossed \subseteq Rounds /\ trouble \in 0 .. MaxTrouble

(* The type invariant, by variable. *)
LEMMA TypesSplit == TypeOK <=> RowTypes /\ EventTypes /\ TaskTypes /\ OfferTypes /\ CountTypes
PROOF
BY Zenon DEF TypeOK, RowTypes, EventTypes, TaskTypes, OfferTypes, CountTypes, Row, Sender, SubmitTask

(* A step keeps the types of the events. *)
LEMMA EventsTyped ==
    ASSUME CardInv, Next
    PROVE  EventTypes'
PROOF
<1> USE InteractionAssumption
<1>i. EventTypes /\ EventShape /\ round \in [Rounds -> Row]
  BY TypesSplit DEF CardInv, RowTypes
<1>f. ASSUME NEW e \in Events, Finish(e), used' = used
      PROVE  EventTypes'
  BY <1>f, <1>i DEF Finish, EventTypes, Sender
<1>a. ASSUME NEW e \in Events, NEW r \in Nat, NEW i \in Nat, ReadAs(e, r, i), used' = used
      PROVE  EventTypes'
  <2>1. event \in [Events -> Sender]
    BY <1>i DEF EventTypes
  <2> DEFINE new == [event[e] EXCEPT !.stage = "read", !.on = r, !.at = i]
  <2>2. new \in Sender
    BY <2>1 DEF Sender
  <2>3. event' = [event EXCEPT ![e] = new]
    BY <1>a, <2>1 DEF ReadAs, Sender
  <2>4. QED
    BY <2>1, <2>2, <2>3, <1>a, <1>i DEF EventTypes
<1>u. ASSUME event' = event, used' = used
      PROVE  EventTypes'
  BY <1>u, <1>i DEF EventTypes
<1>1. ASSUME NEW e \in Events, PersonStep(e)
      PROVE  EventTypes'
  <2>1. ASSUME NEW k \in Cards \cup Words \cup Picks, NEW r \in Nat, NEW i \in Nat, Send(e, k, r, i)
        PROVE  EventTypes'
    <3>1. Over \in SUBSET (Rounds \X (0 .. Questions))
      BY DEF Over
    <3>2. [kind |-> k, stage |-> "sent", on |-> r, at |-> i, over |-> Over] \in Sender
      BY <3>1 DEF Sender
    <3>3. event' = [event EXCEPT ![e] = [kind |-> k, stage |-> "sent", on |-> r, at |-> i, over |-> Over]]
          /\ used' = used
      BY <2>1 DEF Send
    <3>4. QED
      BY <3>2, <3>3, <1>i DEF EventTypes
  <2>2. QED
    BY <1>1, <2>1 DEF PersonStep, Click, Say, Pick, Rounds, Offers
<1>2. ASSUME NEW e \in Events, AnswerStep(e)
      PROVE  EventTypes'
  <2>1. CASE ReadClick(e)
    <3>1. CASE event' = [event EXCEPT ![e].stage = "read"]
      BY <2>1, <3>1, <1>i DEF ReadClick, EventTypes, Sender
    <3>2. QED
      BY <2>1, <3>1, <1>f DEF ReadClick
  <2>2. CASE WriteAnswer(e)
    <3>1. event[e].on \in Rounds /\ event[e].at \in Nat
      BY <2>2, <1>i DEF WriteAnswer, EventShape, EventTypes, Sender, Cards, Words
    <3>2. QED
      BY <2>2, <3>1, <1>i DEF WriteAnswer, Advance, Finish, EventTypes, Sender
  <2>3. CASE ReadText(e)
    <3>1. \A r \in OpenRounds : r \in Nat /\ round[r].index \in Nat
      BY <1>i DEF OpenRounds, Rounds, Row
    <3>2. QED
      BY <2>3, <3>1, <1>a, <1>f DEF ReadText
  <2>4. CASE ReadCancel(e)
    <3>1. \A r \in OpenRounds : r \in Nat /\ round[r].index \in Nat
      BY <1>i DEF OpenRounds, Rounds, Row
    <3>2. QED
      BY <2>4, <3>1, <1>a, <1>f DEF ReadCancel
  <2>5. CASE WriteOther(e) \/ WriteCancel(e) \/ Clear(e) \/ HandlerDies(e)
    BY <2>5, <1>f DEF WriteOther, WriteCancel, Clear, HandlerDies
  <2>6. QED
    BY <1>2, <2>1, <2>2, <2>3, <2>4, <2>5 DEF AnswerStep
<1>3. ASSUME NEW e \in Events, PickStep(e)
      PROVE  EventTypes'
  <2>1. event[e].on \in Nat
    BY <1>i DEF EventTypes, Sender
  <2>2. QED
    BY <1>3, <2>1, <1>a, <1>f DEF PickStep, ReadPick, WriteWait, WriteSwitch
<1>4. ASSUME (\E o \in Offers : OfferStep(o)) \/ (\E r \in Rounds : TurnStep(r))
      PROVE  EventTypes'
  BY <1>4, <1>u DEF OfferStep, MakeOffer, SwitchDone, Expire, TurnStep, Ask, Claim, TurnStarts, Busy,
                    CancelledBefore, TurnEnds, AskAgain, CleanUp, Superseded, WorkerDies
<1>5. QED
  BY <1>1, <1>2, <1>3, <1>4 DEF Next

(* A queued task may still be claimed: a claim counts, and a task that has *)
(* used its claims is not put back.                                        *)
LEMMA TasksTyped ==
    ASSUME CardInv, Next
    PROVE  TaskTypes' /\ ClaimsLeft'
PROOF
<1> USE InteractionAssumption
<1>i. TaskTypes /\ ClaimsLeft
  BY TypesSplit DEF CardInv
<1>s. submit \in [Rounds -> SubmitTask] /\ turns \in [Rounds -> Nat]
  BY <1>i DEF TaskTypes
<1>u. ASSUME submit' = submit, turns' = turns
      PROVE  TaskTypes' /\ ClaimsLeft'
  BY <1>u, <1>i DEF TaskTypes, ClaimsLeft
<1>1. ASSUME NEW e \in Events, PersonStep(e) \/ PickStep(e)
      PROVE  TaskTypes' /\ ClaimsLeft'
  BY <1>1, <1>u DEF PersonStep, Click, Say, Pick, Send, PickStep, ReadPick, WriteWait, WriteSwitch, rest
<1>2. ASSUME NEW o \in Offers, OfferStep(o)
      PROVE  TaskTypes' /\ ClaimsLeft'
  BY <1>2, <1>u DEF OfferStep, MakeOffer, SwitchDone, Expire
<1>3. ASSUME NEW e \in Events, AnswerStep(e)
      PROVE  TaskTypes' /\ ClaimsLeft'
  <2>1. CASE WriteAnswer(e)
    <3> DEFINE r == event[e].on
    <3>1. \/ submit' = submit
          \/ submit[r].stage = "none" /\ submit' = [submit EXCEPT ![r].stage = "queued"]
      BY <2>1 DEF WriteAnswer, Advance
    <3>2. turns' = turns
      BY <2>1 DEF WriteAnswer, Advance, rest
    <3>3. QED
      BY <3>1, <3>2, <1>s, <1>i, <1>u DEF TaskTypes, ClaimsLeft, SubmitTask
  <2>2. CASE Clear(e)
    <3> DEFINE c(r) == submit[r].cancelled \/ (event[e].kind = "stop" /\ Active(r))
    <3>1. submit' = [r \in Rounds |-> [submit[r] EXCEPT !.cancelled = c(r)]] /\ turns' = turns
      BY <2>2 DEF Clear
    <3>2. \A r \in Rounds : c(r) \in BOOLEAN
      BY <1>s DEF SubmitTask
    <3> HIDE DEF c
    <3>3. submit' \in [Rounds -> SubmitTask]
      BY <3>1, <3>2, <1>s DEF SubmitTask
    <3>4. \A r \in Rounds : submit'[r].stage = submit[r].stage /\ submit'[r].attempts = submit[r].attempts
      BY <3>1, <1>s DEF SubmitTask
    <3>5. QED
      BY <3>1, <3>3, <3>4, <1>i DEF TaskTypes, ClaimsLeft
  <2>3. CASE ~WriteAnswer(e) /\ ~Clear(e)
    BY <1>3, <2>3, <1>u DEF AnswerStep, ReadClick, WriteOther, ReadText, ReadCancel, WriteCancel,
                            HandlerDies, rest
  <2>4. QED
    BY <2>1, <2>2, <2>3
<1>4. ASSUME NEW r \in Rounds, TurnStep(r)
      PROVE  TaskTypes' /\ ClaimsLeft'
  <2>0. /\ submit[r].attempts \in 0 .. MaxAttempts
        /\ submit[r].stage = "queued" => submit[r].attempts < MaxAttempts
    BY <1>s, <1>i DEF SubmitTask, ClaimsLeft
  <2>1. CASE Ask(r)
    BY <2>1, <1>u DEF Ask
  <2>2. CASE Claim(r)
    <3>1. turns' = turns /\ submit[r].stage = "queued" /\ submit[r].attempts + 1 \in 0 .. MaxAttempts
      BY <2>0, <2>2 DEF Claim
    <3>2. CASE submit' = [[submit EXCEPT ![r].attempts = @ + 1] EXCEPT ![r].stage = "waiting"]
      BY <3>1, <3>2, <1>s, <1>i DEF TaskTypes, ClaimsLeft, SubmitTask
    <3>3. ASSUME NEW res \in {"missing", "duplicate", "config", "cancelled"},
                 submit' = [[submit EXCEPT ![r].attempts = @ + 1] EXCEPT ![r].stage = "done", ![r].result = res]
          PROVE  TaskTypes' /\ ClaimsLeft'
      BY <3>1, <3>3, <1>s, <1>i DEF TaskTypes, ClaimsLeft, SubmitTask
    <3>4. QED
      BY <2>2, <3>2, <3>3 DEF Claim
  <2>3. CASE TurnStarts(r)
    <3>1. turns' \in [Rounds -> Nat]
      BY <2>3, <1>s DEF TurnStarts
    <3>2. QED
      BY <2>3, <3>1, <1>s, <1>i DEF TurnStarts, TaskTypes, ClaimsLeft, SubmitTask
  <2>4. CASE Busy(r)
    BY <2>4, <2>0, <1>s, <1>i DEF Busy, Ends, TaskTypes, ClaimsLeft, SubmitTask
  <2>5. CASE CancelledBefore(r) \/ TurnEnds(r) \/ AskAgain(r) \/ CleanUp(r)
    BY <2>5, <1>s, <1>i DEF CancelledBefore, TurnEnds, AskAgain, CleanUp, Ends, TaskTypes, ClaimsLeft, SubmitTask
  <2>6. CASE Superseded(r)
    BY <2>6, <1>s, <1>i DEF Superseded, Active, TaskTypes, ClaimsLeft, SubmitTask
  <2>7. CASE WorkerDies(r)
    <3> DEFINE res == IF submit[r].stage = "ending" THEN submit[r].result ELSE "lost"
    <3>1. submit' = [submit EXCEPT ![r].stage = "done", ![r].result = res] /\ turns' = turns
      BY <2>7, <1>s DEF WorkerDies, SubmitTask
    <3>2. res \in {"none", "missing", "duplicate", "config", "busy", "cancelled", "answered", "asked", "lost"}
      BY <1>s DEF SubmitTask
    <3> HIDE DEF res
    <3>3. QED
      BY <3>1, <3>2, <1>s, <1>i DEF TaskTypes, ClaimsLeft, SubmitTask
  <2>8. QED
    BY <1>4, <2>1, <2>2, <2>3, <2>4, <2>5, <2>6, <2>7 DEF TurnStep
<1>5. QED
  BY <1>1, <1>2, <1>3, <1>4 DEF Next

(* A step keeps the types of the offers and of the history. *)
LEMMA RestTyped ==
    ASSUME CardInv, Next
    PROVE  OfferTypes' /\ CountTypes'
PROOF
<1> USE InteractionAssumption
<1>i. OfferTypes /\ CountTypes /\ EventShape
  BY TypesSplit DEF CardInv
<1>1. ASSUME NEW e \in Events, PersonStep(e) \/ PickStep(e)
      PROVE  OfferTypes' /\ CountTypes'
  <2>1. CASE PersonStep(e) \/ ReadPick(e)
    BY <2>1, <1>i DEF PersonStep, Click, Say, Pick, Send, ReadPick, rest, OfferTypes, CountTypes
  <2>2. CASE WriteWait(e) \/ WriteSwitch(e)
    <3>1. event[e].on \in Offers
      BY <2>2, <1>i DEF WriteWait, WriteSwitch, EventShape, Picks
    <3>2. QED
      BY <2>2, <3>1, <1>i DEF WriteWait, WriteSwitch, OfferTypes, CountTypes
  <2>3. QED
    BY <1>1, <2>1, <2>2 DEF PickStep
<1>2. ASSUME NEW e \in Events, AnswerStep(e)
      PROVE  OfferTypes' /\ CountTypes'
  <2>1. CASE WriteOther(e) \/ WriteAnswer(e)
    <3>1. event[e].on \in Rounds
      BY <2>1, <1>i DEF WriteOther, WriteAnswer, EventShape, Cards, Words
    <3>2. QED
      BY <2>1, <3>1, <1>i DEF WriteOther, WriteAnswer, Advance, rest, OfferTypes, CountTypes
  <2>2. CASE Clear(e)
    BY <2>2, <1>i DEF Clear, ClearedOffers, OfferTypes, CountTypes
  <2>3. CASE ReadClick(e) \/ ReadText(e) \/ ReadCancel(e) \/ WriteCancel(e) \/ HandlerDies(e)
    BY <2>3, <1>i DEF ReadClick, ReadText, ReadCancel, WriteCancel, HandlerDies, rest, OfferTypes, CountTypes
  <2>4. QED
    BY <1>2, <2>1, <2>2, <2>3 DEF AnswerStep
<1>3. ASSUME NEW o \in Offers, OfferStep(o)
      PROVE  OfferTypes' /\ CountTypes'
  BY <1>3, <1>i DEF OfferStep, MakeOffer, SwitchDone, Expire, OfferOpened, ClearedOffers, OfferTypes, CountTypes
<1>4. ASSUME NEW r \in Rounds, TurnStep(r)
      PROVE  OfferTypes' /\ CountTypes'
  BY <1>4, <1>i DEF TurnStep, Ask, Claim, TurnStarts, Busy, CancelledBefore, TurnEnds, AskAgain, CleanUp,
                    Superseded, WorkerDies, OfferTypes, CountTypes
<1>5. QED
  BY <1>1, <1>2, <1>3, <1>4 DEF Next

------------------------------------------------------------------------------
(* Every step of the specification keeps the invariant. *)
LEMMA StepCard ==
    ASSUME CardInv, [Next]_vars
    PROVE  CardInv'
PROOF
<1>1. CASE Next
  <2>1. TypeOK'
    BY <1>1, RowsKeep, EventsTyped, TasksTyped, RestTyped, TypesSplit
       DEF TypeOK, RowTypes, EventTypes, TaskTypes, OfferTypes, CountTypes, Row, Sender, SubmitTask
  <2>2. EventShape' /\ OverHolds' /\ ReadIsNew' /\ OverIsOver'
    BY <1>1, <2>1, StepsMove, EventsKeep
  <2>3. WaitingAsked' /\ ClaimsLeft' /\ Answered' /\ WaitMeansNoSwitch'
    BY <1>1, RowsKeep, TasksTyped, OffersKeep
  <2>4. QED
    BY <2>1, <2>2, <2>3 DEF CardInv
<1>2. CASE UNCHANGED vars
  BY <1>2 DEF vars, CardInv, TypeOK, EventShape, OverHolds, WaitingAsked, ReadIsNew, OverIsOver, ClaimsLeft,
              Answered, WaitMeansNoSwitch, Over, Living
<1>3. QED
  BY <1>1, <1>2

(* The inductive invariant holds in every reachable state. *)
THEOREM CardInvariant == Spec => []CardInv
PROOF
<1>1. Init => CardInv
  BY InitCard
<1>2. CardInv /\ [Next]_vars => CardInv'
  BY StepCard
<1>3. QED
  BY <1>1, <1>2, PTL DEF Spec

(* Rows, events and tasks keep their types, a person never has two living  *)
(* rounds (the unique key of interaction_states), and a submit task is     *)
(* never claimed more often than SUPERSEDE_MAX_ATTEMPTS.                   *)
THEOREM InteractionTypes == Spec => []TypeOK
PROOF
<1>1. CardInv => TypeOK
  BY DEF CardInv
<1>2. QED
  BY <1>1, CardInvariant, PTL

(* However many clicks and messages of the person are handled at once, an  *)
(* answer is never recorded for a question that was over when it was sent, *)
(* except in a round in which two handlers crossed.                        *)
THEOREM OverStaysOver == Spec => []OverIsOver
PROOF
<1>1. CardInv => OverIsOver
  BY DEF CardInv
<1>2. QED
  BY <1>1, CardInvariant, PTL

(* Whoever chose to wait, and was told so, is never switched: the          *)
(* conditional update of set_status() lets one click of an offer count.    *)
THEOREM WaitsAreKept == Spec => []WaitMeansNoSwitch
PROOF
<1>1. CardInv => WaitMeansNoSwitch
  BY DEF CardInv
<1>2. QED
  BY <1>1, CardInvariant, PTL

------------------------------------------------------------------------------
(* What a handler and a submit task are about: a round that was asked, and *)
(* one that was taken or is gone while its turn lasts.                     *)
AskedAbout ==
    \A e \in Events :
        \/ event[e].stage # "none" /\ event[e].kind \in Cards
        \/ event[e].stage = "read" /\ event[e].kind \in Words
        => round[event[e].on].status # "none"
Taken ==
    \A r \in Rounds :
        /\ round[r].status = "none" => submit[r].stage = "none"
        /\ submit[r].stage \in {"waiting", "turn", "ending"} => round[r].status \in {"submitted", "gone"}

TurnInv == CardInv /\ AskedAbout /\ Taken

(* A row that was asked for never comes back, nor does one that was taken. *)
StatusMoves ==
    \A r \in Rounds :
        /\ round[r].status # "none" => round'[r].status # "none"
        /\ round[r].status \in {"submitted", "gone"} => round'[r].status \in {"submitted", "gone"}

(* No step brings a row back. *)
LEMMA StatusesMove ==
    ASSUME CardInv, Next
    PROVE  StatusMoves
PROOF
<1>i. round \in [Rounds -> Row] /\ EventShape
  BY TypesSplit DEF CardInv, RowTypes
<1>u. ASSUME round' = round PROVE StatusMoves
  BY <1>u DEF StatusMoves
<1>n. ASSUME NEW n \in Rounds, NextRound(n), round' = RoundOpened(n) PROVE StatusMoves
  BY <1>n, <1>i DEF NextRound, RoundOpened, ClearedRounds, StatusMoves, Row
<1>r. ASSUME NEW n, round' = Removed(n) PROVE StatusMoves
  BY <1>r, <1>i DEF Removed, StatusMoves, Row
<1>p. ASSUME NEW n, NEW k \in Nat, NEW w \in BOOLEAN, round' = Patched(n, k, w) PROVE StatusMoves
  BY <1>p, <1>i DEF Patched, StatusMoves, Row
<1>1. ASSUME NEW e \in Events, PersonStep(e) \/ PickStep(e) PROVE StatusMoves
  BY <1>1, <1>u DEF PersonStep, Click, Say, Pick, Send, PickStep, ReadPick, WriteWait, WriteSwitch
<1>2. ASSUME NEW e \in Events, AnswerStep(e) PROVE StatusMoves
  <2>1. CASE WriteOther(e)
    <3>1. event[e].on \in Rounds
      BY <2>1, <1>i DEF WriteOther, EventShape, Cards
    <3>2. round[event[e].on].index \in Nat
      BY <3>1, <1>i DEF Row
    <3>3. QED
      BY <2>1, <3>2, <1>p DEF WriteOther
  <2>2. CASE WriteAnswer(e)
    <3>1. event[e].at + 1 \in Nat
      BY <2>2 DEF CardInv, TypeOK
    <3>2. round' = Patched(event[e].on, event[e].at + 1, FALSE)
      BY <2>2 DEF WriteAnswer, Advance
    <3>3. QED
      BY <3>1, <3>2, <1>p
  <2>3. CASE ReadText(e)
    <3>1. ASSUME NEW r \in OpenRounds, round' = [round EXCEPT ![r].waiting = FALSE]
          PROVE  StatusMoves
      BY <3>1, <1>i DEF StatusMoves, Row
    <3>2. QED
      BY <2>3, <3>1, <1>u DEF ReadText
  <2>4. CASE WriteCancel(e)
    BY <2>4, <1>r DEF WriteCancel
  <2>5. CASE Clear(e)
    BY <2>5, <1>i DEF Clear, ClearedRounds, StatusMoves, Row
  <2>6. CASE ReadClick(e) \/ ReadCancel(e) \/ HandlerDies(e)
    BY <2>6, <1>u DEF ReadClick, ReadCancel, HandlerDies
  <2>7. QED
    BY <1>2, <2>1, <2>2, <2>3, <2>4, <2>5, <2>6 DEF AnswerStep
<1>3. ASSUME NEW o \in Offers, OfferStep(o) PROVE StatusMoves
  BY <1>3, <1>u DEF OfferStep, MakeOffer, SwitchDone, Expire
<1>4. ASSUME NEW r \in Rounds, TurnStep(r) PROVE StatusMoves
  <2>1. CASE Ask(r)
    BY <2>1, <1>n DEF Ask
  <2>2. CASE Claim(r)
    <3>1. CASE round[r].status = "open" /\ round' = [round EXCEPT ![r].status = "submitted"]
      BY <3>1, <1>i DEF StatusMoves, Row
    <3>2. QED
      BY <2>2, <3>1, <1>r, <1>u DEF Claim
  <2>3. CASE AskAgain(r)
    BY <2>3, <1>n DEF AskAgain
  <2>4. CASE CleanUp(r)
    BY <2>4, <1>r DEF CleanUp
  <2>5. CASE \/ TurnStarts(r) \/ Busy(r) \/ CancelledBefore(r) \/ TurnEnds(r)
             \/ Superseded(r) \/ WorkerDies(r)
    BY <2>5, <1>u DEF TurnStarts, Busy, CancelledBefore, TurnEnds, Superseded, WorkerDies
  <2>6. QED
    BY <1>4, <2>1, <2>2, <2>3, <2>4, <2>5 DEF TurnStep
<1>5. QED
  BY <1>1, <1>2, <1>3, <1>4 DEF Next

(* A step keeps what an event is about. *)
LEMMA AboutKept ==
    ASSUME TurnInv, Next
    PROVE  AskedAbout'
PROOF
<1> USE InteractionAssumption
<1>i. /\ CardInv /\ AskedAbout /\ EventShape /\ StatusMoves
      /\ round \in [Rounds -> Row] /\ event \in [Events -> Sender]
  BY StatusesMove, TypesSplit DEF TurnInv, CardInv, RowTypes, EventTypes
<1>0. /\ Cards = {"option", "other"} /\ Words = {"text", "cancel", "stop", "reset"}
      /\ Picks = {"wait", "switch"} /\ Answering = {"option", "other", "text"}
  BY DEF Cards, Words, Picks, Answering
<1> DEFINE About(e) == \/ event[e].stage # "none" /\ event[e].kind \in Cards
                       \/ event[e].stage = "read" /\ event[e].kind \in Words
<1>a. \A e \in Events : About(e) => round[event[e].on].status # "none" /\ event[e].on \in Rounds
  BY <1>i, <1>0 DEF AskedAbout, EventShape
<1>s. \A e \in Events : About(e) => round'[event[e].on].status # "none"
  BY <1>a, <1>i DEF StatusMoves
<1>k. ASSUME \A f \in Events : About(f)' => event'[f].on = event[f].on /\ About(f)
      PROVE  AskedAbout'
  BY <1>k, <1>s DEF AskedAbout
<1>1. ASSUME NEW e \in Events, Click(e) PROVE AskedAbout'
  BY <1>1, <1>s, <1>i DEF Click, Send, AskedAbout, Rounds, Sender
<1>2. ASSUME NEW e \in Events, Say(e) \/ Pick(e) PROVE AskedAbout'
  BY <1>2, <1>s, <1>0, <1>i DEF Say, Pick, Send, AskedAbout, Sender
<1>3. ASSUME NEW e \in Events, Finish(e), event[e].stage # "none" PROVE AskedAbout'
  BY <1>3, <1>k, <1>0, <1>i DEF Finish, Sender
<1>4. ASSUME NEW e \in Events, NEW r \in OpenRounds, ReadAs(e, r, round[r].index) PROVE AskedAbout'
  <2>1. r \in Rounds /\ round'[r].status # "none"
    BY <1>4, <1>i DEF OpenRounds, StatusMoves
  <2>2. event' = [event EXCEPT ![e] = [event[e] EXCEPT !.stage = "read", !.on = r, !.at = round[r].index]]
    BY <1>4, <1>i DEF ReadAs, Sender
  <2>3. QED
    BY <2>1, <2>2, <1>s, <1>i DEF AskedAbout, Sender
<1>5. ASSUME NEW e \in Events, AnswerStep(e) \/ PickStep(e) PROVE AskedAbout'
  <2>1. CASE ReadClick(e)
    <3>1. CASE event' = [event EXCEPT ![e].stage = "read"]
      BY <2>1, <3>1, <1>k, <1>0, <1>i DEF ReadClick, Sender
    <3>2. QED
      BY <2>1, <3>1, <1>3 DEF ReadClick
  <2>2. CASE ReadText(e) \/ ReadCancel(e)
    BY <2>2, <1>3, <1>4 DEF ReadText, ReadCancel
  <2>3. CASE ReadPick(e)
    <3>1. CASE ReadAs(e, event[e].on, 0)
      <4>1. event' = [event EXCEPT ![e] = [event[e] EXCEPT !.stage = "read", !.on = event[e].on, !.at = 0]]
        BY <3>1, <1>i DEF ReadAs, Sender
      <4>2. event[e].kind \in Picks
        BY <2>3 DEF ReadPick
      <4>3. QED
        BY <4>1, <4>2, <1>k, <1>0, <1>i DEF Sender
    <3>2. QED
      BY <2>3, <3>1, <1>3 DEF ReadPick
  <2>4. CASE \/ WriteOther(e) \/ WriteAnswer(e) \/ WriteCancel(e) \/ Clear(e) \/ HandlerDies(e)
             \/ WriteWait(e) \/ WriteSwitch(e)
    BY <2>4, <1>3 DEF WriteOther, WriteAnswer, Advance, WriteCancel, Clear, HandlerDies, WriteWait, WriteSwitch
  <2>5. QED
    BY <1>5, <2>1, <2>2, <2>3, <2>4 DEF AnswerStep, PickStep
<1>6. ASSUME (\E o \in Offers : OfferStep(o)) \/ (\E r \in Rounds : TurnStep(r)) PROVE AskedAbout'
  <2>1. event' = event
    BY <1>6 DEF OfferStep, MakeOffer, SwitchDone, Expire, TurnStep, Ask, Claim, TurnStarts, Busy,
                CancelledBefore, TurnEnds, AskAgain, CleanUp, Superseded, WorkerDies
  <2>2. QED
    BY <2>1, <1>k
<1>7. QED
  BY <1>1, <1>2, <1>5, <1>6 DEF Next, PersonStep

(* A step keeps the round of a submit task taken while its turn lasts. *)
LEMMA TakenKept ==
    ASSUME TurnInv, Next
    PROVE  Taken'
PROOF
<1> USE InteractionAssumption
<1>i. /\ Taken /\ AskedAbout /\ EventShape /\ StatusMoves
      /\ round \in [Rounds -> Row] /\ submit \in [Rounds -> SubmitTask]
  BY StatusesMove, TypesSplit DEF TurnInv, CardInv, RowTypes, TaskTypes
<1>k. ASSUME \A r \in Rounds :
               /\ submit[r].stage = "none" => submit'[r].stage = "none"
               /\ submit'[r].stage \in {"waiting", "turn", "ending"} =>
                     \/ submit[r].stage \in {"waiting", "turn", "ending"}
                     \/ round'[r].status \in {"submitted", "gone"}
      PROVE  Taken'
  BY <1>k, <1>i DEF Taken, StatusMoves
<1>u. ASSUME submit' = submit PROVE Taken'
  BY <1>u, <1>k
<1>1. ASSUME NEW e \in Events, PersonStep(e) \/ PickStep(e) PROVE Taken'
  BY <1>1, <1>u DEF PersonStep, Click, Say, Pick, Send, PickStep, ReadPick, WriteWait, WriteSwitch
<1>2. ASSUME NEW o \in Offers, OfferStep(o) PROVE Taken'
  BY <1>2, <1>u DEF OfferStep, MakeOffer, SwitchDone, Expire
<1>3. ASSUME NEW e \in Events, AnswerStep(e) PROVE Taken'
  <2>1. CASE WriteAnswer(e)
    <3> DEFINE r == event[e].on
    <3>1. r \in Rounds /\ round[r].status # "none"
      BY <2>1, <1>i DEF WriteAnswer, EventShape, AskedAbout, Cards, Words
    <3>2. \/ submit' = submit
          \/ submit[r].stage = "none" /\ submit' = [submit EXCEPT ![r].stage = "queued"]
      BY <2>1 DEF WriteAnswer, Advance
    <3>3. QED
      BY <3>1, <3>2, <1>i, <1>u DEF Taken, StatusMoves, SubmitTask
  <2>2. CASE Clear(e)
    BY <2>2, <1>k, <1>i DEF Clear, SubmitTask
  <2>3. CASE ~WriteAnswer(e) /\ ~Clear(e)
    BY <1>3, <2>3, <1>u DEF AnswerStep, ReadClick, WriteOther, ReadText, ReadCancel, WriteCancel, HandlerDies
  <2>4. QED
    BY <2>1, <2>2, <2>3
<1>4. ASSUME NEW r \in Rounds, TurnStep(r) PROVE Taken'
  <2>1. CASE Ask(r)
    BY <2>1, <1>u DEF Ask
  <2>2. CASE Claim(r)
    <3>1. CASE round' = [round EXCEPT ![r].status = "submitted"]
      BY <2>2, <3>1, <1>k, <1>i DEF Claim, SubmitTask, Row
    <3>2. CASE submit'[r].stage = "done"
      BY <2>2, <3>2, <1>k, <1>i DEF Claim, SubmitTask
    <3>3. QED
      BY <2>2, <3>1, <3>2, <1>i DEF Claim, SubmitTask
  <2>3. CASE TurnStarts(r) \/ Busy(r) \/ CancelledBefore(r)
    BY <2>3, <1>k, <1>i DEF TurnStarts, Busy, CancelledBefore, Ends, SubmitTask
  <2>4. CASE TurnEnds(r) \/ AskAgain(r) \/ CleanUp(r)
    BY <2>4, <1>k, <1>i DEF TurnEnds, AskAgain, CleanUp, SubmitTask
  <2>5. CASE Superseded(r) \/ WorkerDies(r)
    BY <2>5, <1>k, <1>i DEF Superseded, WorkerDies, SubmitTask
  <2>6. QED
    BY <1>4, <2>1, <2>2, <2>3, <2>4, <2>5 DEF TurnStep
<1>5. QED
  BY <1>1, <1>2, <1>3, <1>4 DEF Next

(* With what handlers and submit tasks are about: while the turn that took *)
(* a round lasts, its row is never open again.                             *)
THEOREM TurnInvariant == Spec => []TurnInv
PROOF
<1>1. Init => TurnInv
  <2>1. Init => AskedAbout /\ Taken
    BY DEF Init, AskedAbout, Taken
  <2>2. QED
    BY <2>1, InitCard DEF TurnInv
<1>2. TurnInv /\ [Next]_vars => TurnInv'
  <2>1. ASSUME TurnInv, Next PROVE TurnInv'
    BY <2>1, StepCard, AboutKept, TakenKept DEF TurnInv
  <2>2. ASSUME TurnInv, UNCHANGED vars PROVE TurnInv'
    <3>1. CardInv'
      BY <2>2, StepCard DEF TurnInv
    <3>2. QED
      BY <2>2, <3>1 DEF vars, TurnInv, AskedAbout, Taken
  <2>3. QED
    BY <2>1, <2>2
<1>3. QED
  BY <1>1, <1>2, PTL DEF Spec

(* No step of the program ends an open round for another reason. *)
LEMMA RoundsEndForAReason ==
    ASSUME TurnInv, Next
    PROVE  EndsForAReason
PROOF
<1> USE InteractionAssumption
<1>i. /\ Taken /\ EventShape
      /\ round \in [Rounds -> Row] /\ submit \in [Rounds -> SubmitTask] /\ event \in [Events -> Sender]
  BY TypesSplit DEF TurnInv, CardInv, RowTypes, TaskTypes, EventTypes
<1>k. ASSUME \A r \in OpenRounds : round'[r].status # "gone" PROVE EndsForAReason
  BY <1>k DEF EndsForAReason
<1>u. ASSUME round' = round PROVE EndsForAReason
  BY <1>u, <1>k DEF OpenRounds
<1>w. ASSUME NEW e \in Events, event[e].kind \in Words \ {"text"}, event[e].stage # "done", Finish(e)
      PROVE  EndsForAReason
  BY <1>w, <1>i DEF Finish, EndsForAReason, Sender
<1>n. ASSUME NEW n \in Rounds, NextRound(n), round' = RoundOpened(n) PROVE EndsForAReason
  <2>1. round[n].status = "none" /\ round'[n].status = "open"
    BY <1>n, <1>i DEF NextRound, RoundOpened, ClearedRounds
  <2>2. QED
    BY <2>1 DEF EndsForAReason
<1>1. ASSUME NEW e \in Events, PersonStep(e) \/ PickStep(e) PROVE EndsForAReason
  BY <1>1, <1>u DEF PersonStep, Click, Say, Pick, Send, PickStep, ReadPick, WriteWait, WriteSwitch
<1>2. ASSUME NEW o \in Offers, OfferStep(o) PROVE EndsForAReason
  BY <1>2, <1>u DEF OfferStep, MakeOffer, SwitchDone, Expire
<1>3. ASSUME NEW e \in Events, AnswerStep(e) PROVE EndsForAReason
  <2>1. CASE WriteOther(e)
    BY <2>1, <1>i, <1>k DEF WriteOther, Patched, OpenRounds, Row
  <2>2. CASE WriteAnswer(e)
    <3>1. round' = Patched(event[e].on, event[e].at + 1, FALSE)
      BY <2>2 DEF WriteAnswer, Advance
    <3>2. QED
      BY <3>1, <1>i, <1>k DEF Patched, OpenRounds, Row
  <2>3. CASE ReadText(e)
    <3>1. ASSUME NEW r \in OpenRounds, round' = [round EXCEPT ![r].waiting = FALSE]
          PROVE  EndsForAReason
      BY <3>1, <1>i, <1>k DEF OpenRounds, Row
    <3>2. QED
      BY <2>3, <3>1, <1>u DEF ReadText
  <2>4. CASE WriteCancel(e)
    BY <2>4, <1>w DEF WriteCancel, Words
  <2>5. CASE Clear(e)
    BY <2>5, <1>w DEF Clear, Words
  <2>6. CASE ReadClick(e) \/ ReadCancel(e) \/ HandlerDies(e)
    BY <2>6, <1>u DEF ReadClick, ReadCancel, HandlerDies
  <2>7. QED
    BY <1>3, <2>1, <2>2, <2>3, <2>4, <2>5, <2>6 DEF AnswerStep
<1>4. ASSUME NEW r \in Rounds, TurnStep(r) PROVE EndsForAReason
  <2>1. CASE Ask(r)
    BY <2>1, <1>n DEF Ask
  <2>2. CASE AskAgain(r)
    BY <2>2, <1>n DEF AskAgain
  <2>3. CASE CleanUp(r)
    <3>1. round[r].status \in {"submitted", "gone"} /\ round' = [round EXCEPT ![r].status = "gone"]
      BY <2>3, <1>i DEF CleanUp, Removed, Taken
    <3>2. QED
      BY <3>1, <1>i, <1>k DEF OpenRounds, Row
  <2>4. CASE Claim(r)
    <3>1. CASE round' = [round EXCEPT ![r].status = "submitted"]
      BY <3>1, <1>i, <1>k DEF OpenRounds, Row
    <3>2. CASE round' = Removed(r) /\ submit'[r].result = "config"
      <4>1. \A s \in OpenRounds : s # r => round'[s].status # "gone"
        BY <3>2, <1>i DEF Removed, OpenRounds, Row
      <4>2. QED
        BY <3>2, <4>1 DEF EndsForAReason
    <3>3. \/ round' = [round EXCEPT ![r].status = "submitted"]
          \/ round' = Removed(r) /\ submit'[r].result = "config"
          \/ round' = round
      BY <2>4, <1>i DEF Claim, SubmitTask
    <3>4. QED
      BY <3>1, <3>2, <3>3, <1>u
  <2>5. CASE \/ TurnStarts(r) \/ Busy(r) \/ CancelledBefore(r) \/ TurnEnds(r)
             \/ Superseded(r) \/ WorkerDies(r)
    BY <2>5, <1>u DEF TurnStarts, Busy, CancelledBefore, TurnEnds, Superseded, WorkerDies
  <2>6. QED
    BY <1>4, <2>1, <2>2, <2>3, <2>4, <2>5 DEF TurnStep
<1>5. QED
  BY <1>1, <1>2, <1>3, <1>4 DEF Next

(* An open round ends only by a word of the person, a newer round or a     *)
(* change of the relay: the cleanup of a submit turn removes the round it  *)
(* was about by its own id, and that round is not open any more.           *)
THEOREM OpenRoundsStay == Spec => OpenRoundStays
PROOF
<1>1. TurnInv /\ [Next]_vars => [EndsForAReason]_vars
  BY RoundsEndForAReason
<1>2. QED
  BY <1>1, TurnInvariant, PTL DEF Spec, OpenRoundStays

==============================================================================
