----------------------------- MODULE Interactions -----------------------------
(***************************************************************************)
(* What the program waits for from one person: the questions of a turn     *)
(* that asked (AskUserQuestion) and the offer to switch the relay, both    *)
(* rows of interaction_states (core/chat/interactions.py).                 *)
(*                                                                         *)
(* The person clicks cards or types; each message or click is a task of    *)
(* its own (worker/card_actions.py, worker/chat/intake.py), and several    *)
(* run at once.  Such a task reads the row without a lock and writes it    *)
(* later, so it is two steps here.  The last answer enqueues a             *)
(* choice_submit task (worker/choice_submit.py), a turn that carries the   *)
(* answers back to the model, waits for older turns of the session and     *)
(* may be put back into the queue like any other.                          *)
(***************************************************************************)
EXTENDS Naturals

CONSTANTS MaxRounds,    \* bound: rounds of questions asked
          Questions,    \* questions of a round
          MaxOffers,    \* bound: offers to switch
          MaxEvents,    \* bound: clicks and messages of the person
          MaxAttempts,  \* SUPERSEDE_MAX_ATTEMPTS
          MaxTrouble    \* bound: crashes, other turns, changes of the relay

ASSUME InteractionAssumption ==
    /\ MaxRounds \in Nat /\ MaxOffers \in Nat /\ MaxEvents \in Nat /\ MaxTrouble \in Nat
    /\ Questions \in Nat \ {0} /\ MaxAttempts \in Nat \ {0}

Rounds == 1 .. MaxRounds
Offers == 1 .. MaxOffers
Events == 1 .. MaxEvents

VARIABLES
    round,     \* the row of each round: status, current_index, waiting_for_text
    offer,     \* the status of each offer's row
    event,     \* what the person sent, and what its handler has read
    used,      \* the round and question an event was recorded for, or None
    submit,    \* the choice_submit task of each round
    turns,     \* turns each round's answers had
    crossed,   \* rounds in which a handler wrote over what it had not read
    waits,     \* offers whose person was told that nothing changes
    switches,  \* offers whose relay_switch task was enqueued
    trouble    \* disturbances so far

vars == <<round, offer, event, used, submit, turns, crossed, waits, switches, trouble>>
rest == <<offer, turns, waits, switches, trouble>>

None == <<0, 0>>
Cards == {"option", "other"}
Words == {"text", "cancel", "stop", "reset"}
Picks == {"wait", "switch"}

Living(r) == round[r].status \in {"open", "submitted"}
OpenRounds == {r \in Rounds : round[r].status = "open"}
Active(r) == submit[r].stage \in {"waiting", "turn"}

(* What is over for the person: questions that were answered, rounds that  *)
(* were called off or replaced, and what comes after the last question.    *)
Over == {x \in Rounds \X (0 .. Questions) :
            /\ round[x[1]].status # "none"
            /\ \/ round[x[1]].status = "gone"
               \/ x[2] < round[x[1]].index
               \/ round[x[1]].index >= Questions}

(* The types, and the unique key on kind and person. *)
TypeOK ==
    /\ round \in [Rounds -> [status : {"none", "open", "submitted", "gone"},
                             index : Nat, waiting : BOOLEAN]]
    /\ offer \in [Offers -> {"none", "open", "submitted", "expired", "gone"}]
    /\ event \in [Events -> [kind : {"none"} \cup Cards \cup Words \cup Picks,
                             stage : {"none", "sent", "read", "done"},
                             on : Nat, at : Nat,
                             over : SUBSET (Rounds \X (0 .. Questions))]]
    /\ used \in [Events -> {None} \cup (Rounds \X Nat)]
    /\ submit \in [Rounds -> [stage : {"none", "queued", "waiting", "turn", "ending", "done"},
                              attempts : 0 .. MaxAttempts, cancelled : BOOLEAN,
                              result : {"none", "missing", "duplicate", "config", "busy",
                                        "cancelled", "answered", "asked", "lost"}]]
    /\ turns \in [Rounds -> Nat]
    /\ crossed \subseteq Rounds /\ waits \subseteq Offers /\ switches \subseteq Offers
    /\ trouble \in 0 .. MaxTrouble
    /\ \A r, s \in Rounds : Living(r) /\ Living(s) => r = s

Init ==
    /\ round = [r \in Rounds |-> [status |-> "none", index |-> 0, waiting |-> FALSE]]
    /\ offer = [o \in Offers |-> "none"]
    /\ event = [e \in Events |->
                  [kind |-> "none", stage |-> "none", on |-> 0, at |-> 0, over |-> {}]]
    /\ used = [e \in Events |-> None]
    /\ submit = [r \in Rounds |->
                  [stage |-> "none", attempts |-> 0, cancelled |-> FALSE, result |-> "none"]]
    /\ turns = [r \in Rounds |-> 0]
    /\ crossed = {} /\ waits = {} /\ switches = {} /\ trouble = 0

------------------------------------------------------------------------------
(* The rows. *)

(* clear_for_speaker(): every row of the person, of either kind. *)
ClearedRounds ==
    [r \in Rounds |-> IF round[r].status = "none" THEN round[r]
                      ELSE [round[r] EXCEPT !.status = "gone"]]
ClearedOffers == [o \in Offers |-> IF offer[o] = "none" THEN "none" ELSE "gone"]

(* Seeded fault: the row before it is kept. *)
RoundAdded(n) == [round EXCEPT ![n] = [status |-> "open", index |-> 0, waiting |-> FALSE]]

(* open_state() deletes what the person was asked before, whatever its     *)
(* status, and inserts a row.                                              *)
RoundOpened(n) ==
    [ClearedRounds EXCEPT ![n] = [status |-> "open", index |-> 0, waiting |-> FALSE]]
OfferOpened(n) == [ClearedOffers EXCEPT ![n] = "open"]

Removed(r) == [round EXCEPT ![r].status = "gone"]

(* patch_state() merges what it is given into a row that is still there. *)
Patched(r, index, waiting) ==
    IF Living(r) THEN [round EXCEPT ![r].index = index, ![r].waiting = waiting] ELSE round

------------------------------------------------------------------------------
(* What the person does. *)

(* The person's events are numbered as they come. *)
Comes(e) == event[e].stage = "none" /\ \A f \in Events : f < e => event[f].stage # "none"

Send(e, kind, on, at) ==
    /\ Comes(e)
    /\ event' = [event EXCEPT ![e] =
                    [kind |-> kind, stage |-> "sent", on |-> on, at |-> at, over |-> Over]]
    /\ UNCHANGED <<round, offer, used, submit, turns, crossed, waits, switches, trouble>>

(* The cards of a round that were sent stay in the chat. *)
Click(e) ==
    \E r \in Rounds, i \in 0 .. Questions - 1, k \in Cards :
        /\ round[r].status # "none" /\ i <= round[r].index
        /\ Send(e, k, r, i)

Say(e) == \E k \in Words : Send(e, k, 0, 0)

Pick(e) == \E o \in Offers, k \in Picks : offer[o] # "none" /\ Send(e, k, o, 0)

Finish(e) == event' = [event EXCEPT ![e].stage = "done"]
ReadAs(e, r, i) == event' = [event EXCEPT ![e].stage = "read", ![e].on = r, ![e].at = i]

------------------------------------------------------------------------------
(* Answers. *)

(* Seeded fault: the number of the card is not compared. *)
AnyOpenCard(r, i) == round[r].status = "open"

(* _choice() takes a click on the question that is asked now, in a round   *)
(* that is still open; everything else is an old card.                     *)
Answerable(r, i) ==
    /\ round[r].status = "open"
    /\ i = round[r].index

ReadClick(e) ==
    /\ event[e].stage = "sent" /\ event[e].kind \in Cards
    /\ IF Answerable(event[e].on, event[e].at)
       THEN event' = [event EXCEPT ![e].stage = "read"]
       ELSE Finish(e)
    /\ UNCHANGED <<round, used, submit, crossed, rest>>

(* "Other" means that the answer will be typed. *)
WriteOther(e) ==
    /\ event[e].stage = "read" /\ event[e].kind = "other"
    /\ LET r == event[e].on IN
         /\ round' = Patched(r, round[r].index, TRUE)
         /\ crossed' = IF Answerable(r, event[e].at) THEN crossed ELSE crossed \cup {r}
    /\ Finish(e)
    /\ UNCHANGED <<used, submit, rest>>

(* advance_choice(): the next question, or the task that takes the answers *)
(* back, which is enqueued once for a round.                               *)
Advance(e) ==
    LET r == event[e].on
        next == event[e].at + 1 IN
    /\ round' = Patched(r, next, FALSE)
    /\ submit' = IF next >= Questions /\ submit[r].stage = "none"
                 THEN [submit EXCEPT ![r].stage = "queued"] ELSE submit
    /\ used' = [used EXCEPT ![e] = <<r, event[e].at>>]
    /\ crossed' = IF Answerable(r, event[e].at) THEN crossed ELSE crossed \cup {r}
    /\ Finish(e)
    /\ UNCHANGED rest

WriteAnswer(e) ==
    /\ event[e].stage = "read" /\ event[e].kind \in {"option", "text"}
    /\ Advance(e)

(* _pending_answer(): a text is an answer while the open round waits for   *)
(* one, and a message otherwise.                                           *)
ReadText(e) ==
    /\ event[e].stage = "sent" /\ event[e].kind = "text"
    /\ \/ \E r \in OpenRounds :
            /\ round[r].waiting
            /\ ReadAs(e, r, round[r].index)
            /\ UNCHANGED round
       \/ \E r \in OpenRounds :   \* after FREE_TEXT_WAIT_SECONDS
            /\ round[r].waiting
            /\ round' = [round EXCEPT ![r].waiting = FALSE]
            /\ Finish(e)
       \/ /\ \A r \in OpenRounds : ~round[r].waiting
          /\ Finish(e)
          /\ UNCHANGED round
    /\ UNCHANGED <<used, submit, crossed, rest>>

(* A word that cancels removes the open round, in two steps as well. *)
ReadCancel(e) ==
    /\ event[e].stage = "sent" /\ event[e].kind = "cancel"
    /\ \/ \E r \in OpenRounds : ReadAs(e, r, round[r].index)
       \/ OpenRounds = {} /\ Finish(e)
    /\ UNCHANGED <<round, used, submit, crossed, rest>>

WriteCancel(e) ==
    /\ event[e].stage = "read" /\ event[e].kind = "cancel"
    /\ round' = Removed(event[e].on)
    /\ Finish(e)
    /\ UNCHANGED <<used, submit, crossed, rest>>

(* do_reset() and do_stop() clear what the person was asked; stop also     *)
(* cancels the turns that run in the session.                              *)
Clear(e) ==
    /\ event[e].stage = "sent" /\ event[e].kind \in {"stop", "reset"}
    /\ round' = ClearedRounds
    /\ offer' = ClearedOffers
    /\ submit' = [r \in Rounds |->
                    [submit[r] EXCEPT !.cancelled = @ \/ (event[e].kind = "stop" /\ Active(r))]]
    /\ Finish(e)
    /\ UNCHANGED <<used, turns, crossed, waits, switches, trouble>>

------------------------------------------------------------------------------
(* Offers. *)

(* _ratelimit(): a click on an offer that is not open any more is answered *)
(* by a notice.                                                            *)
ReadPick(e) ==
    /\ event[e].stage = "sent" /\ event[e].kind \in Picks
    /\ IF offer[event[e].on] = "open" THEN ReadAs(e, event[e].on, 0) ELSE Finish(e)
    /\ UNCHANGED <<round, used, submit, crossed, rest>>

(* Seeded fault: the row is updated by its id alone. *)
TakesById(o) == offer[o] # "gone"

(* set_status() moves an open row only: of two clicks one counts. *)
Takes(o) == offer[o] = "open"

WriteWait(e) ==
    /\ event[e].stage = "read" /\ event[e].kind = "wait"
    /\ LET o == event[e].on IN
         IF Takes(o)
         THEN /\ offer' = [offer EXCEPT ![o] = "submitted"]
              /\ waits' = waits \cup {o}
         ELSE UNCHANGED <<offer, waits>>
    /\ Finish(e)
    /\ UNCHANGED <<round, used, submit, turns, crossed, switches, trouble>>

WriteSwitch(e) ==
    /\ event[e].stage = "read" /\ event[e].kind = "switch"
    /\ LET o == event[e].on IN
         IF Takes(o)
         THEN /\ offer' = [offer EXCEPT ![o] = "submitted"]
              /\ switches' = switches \cup {o}
         ELSE UNCHANGED <<offer, switches>>
    /\ Finish(e)
    /\ UNCHANGED <<round, used, submit, turns, crossed, waits, trouble>>

(* The relay_switch task removes the row of its offer. *)
SwitchDone(o) ==
    /\ o \in switches /\ offer[o] # "gone"
    /\ offer' = [offer EXCEPT ![o] = "gone"]
    /\ UNCHANGED <<round, event, used, submit, turns, crossed, waits, switches, trouble>>

(* An offer ends after thirty minutes. *)
Expire(o) ==
    /\ offer[o] = "open"
    /\ offer' = [offer EXCEPT ![o] = "expired"]
    /\ UNCHANGED <<round, event, used, submit, turns, crossed, waits, switches, trouble>>

------------------------------------------------------------------------------
(* Turns that ask, and turns that carry the answers. *)

NextRound(n) == round[n].status = "none" /\ \A r \in Rounds : r < n => round[r].status # "none"

(* _open_choice() of a turn of the person, here or in another chat. *)
Ask(n) ==
    /\ NextRound(n)
    /\ round' = RoundOpened(n)
    /\ UNCHANGED <<offer, event, used, submit, turns, crossed, waits, switches, trouble>>

(* _postprocess_rate_limit() of a turn that met the limit. *)
MakeOffer(n) ==
    /\ offer[n] = "none" /\ \A o \in Offers : o < n => offer[o] # "none"
    /\ offer' = OfferOpened(n)
    /\ UNCHANGED <<round, event, used, submit, turns, crossed, waits, switches, trouble>>

Ends(r, result) == submit' = [submit EXCEPT ![r].stage = "done", ![r].result = result]

(* _resolve(): a round that was taken before makes this a repeated click.  *)
Claim(r) ==
    LET claimed == [submit EXCEPT ![r].attempts = @ + 1] IN
    /\ submit[r].stage = "queued"
    /\ \/ /\ round[r].status = "gone"
          /\ submit' = [claimed EXCEPT ![r].stage = "done", ![r].result = "missing"]
          /\ UNCHANGED <<round, trouble>>
       \/ /\ round[r].status = "submitted"
          /\ submit' = [claimed EXCEPT ![r].stage = "done", ![r].result = "duplicate"]
          /\ UNCHANGED <<round, trouble>>
       \/ /\ round[r].status = "open"
          /\ round' = [round EXCEPT ![r].status = "submitted"]
          /\ submit' = [claimed EXCEPT ![r].stage = "waiting"]
          /\ UNCHANGED trouble
       \/ /\ round[r].status = "open"   \* the relay is another one
          /\ trouble < MaxTrouble /\ trouble' = trouble + 1
          /\ round' = Removed(r)
          /\ submit' = [claimed EXCEPT ![r].stage = "done", ![r].result = "config"]
       \/ /\ trouble < MaxTrouble /\ trouble' = trouble + 1   \* replaced before it prepares
          /\ submit' = [claimed EXCEPT ![r].stage = "done", ![r].result = "cancelled"]
          /\ UNCHANGED round
    /\ UNCHANGED <<offer, event, used, turns, crossed, waits, switches>>

(* Older turns have ended; a turn that was cancelled may start all the     *)
(* same, and ends as cancelled.                                            *)
TurnStarts(r) ==
    /\ submit[r].stage = "waiting"
    /\ submit' = [submit EXCEPT ![r].stage = "turn"]
    /\ turns' = [turns EXCEPT ![r] = @ + 1]
    /\ UNCHANGED <<round, offer, event, used, crossed, waits, switches, trouble>>

(* _session_busy(): an older turn does not end in time.  A task that was   *)
(* cancelled is not put back.                                              *)
Busy(r) ==
    /\ submit[r].stage = "waiting"
    /\ \/ /\ submit[r].attempts < MaxAttempts /\ ~submit[r].cancelled
          /\ submit' = [submit EXCEPT ![r].stage = "queued"]
       \/ submit[r].attempts = MaxAttempts /\ Ends(r, "busy")
    /\ UNCHANGED <<round, offer, event, used, turns, crossed, waits, switches, trouble>>

(* _cancelled_before_open(). *)
CancelledBefore(r) ==
    /\ submit[r].stage = "waiting" /\ submit[r].cancelled
    /\ Ends(r, "cancelled")
    /\ UNCHANGED <<round, offer, event, used, turns, crossed, waits, switches, trouble>>

(* _finalize() has ended the task ... *)
TurnEnds(r) ==
    /\ submit[r].stage = "turn"
    /\ submit' = [submit EXCEPT ![r].stage = "ending",
                    ![r].result = IF submit[r].cancelled THEN "cancelled" ELSE "answered"]
    /\ UNCHANGED <<round, offer, event, used, turns, crossed, waits, switches, trouble>>

(* ... opens the questions this turn asks, if any ... *)
AskAgain(r) ==
    /\ submit[r].stage = "ending" /\ submit[r].result = "answered"
    /\ \E n \in Rounds : NextRound(n) /\ round' = RoundOpened(n)
    /\ submit' = [submit EXCEPT ![r].result = "asked"]
    /\ UNCHANGED <<offer, event, used, turns, crossed, waits, switches, trouble>>

(* Seeded fault: it removes whatever the person is asked. *)
CleanUpPerson(r) ==
    /\ submit[r].stage = "ending"
    /\ submit' = [submit EXCEPT ![r].stage = "done"]
    /\ round' = ClearedRounds
    /\ UNCHANGED <<offer, event, used, turns, crossed, waits, switches, trouble>>

(* ... and _after_finalize() removes the round the turn was about. *)
CleanUp(r) ==
    /\ submit[r].stage = "ending"
    /\ submit' = [submit EXCEPT ![r].stage = "done"]
    /\ round' = Removed(r)
    /\ UNCHANGED <<offer, event, used, turns, crossed, waits, switches, trouble>>

(* A newer message of the session replaces a turn. *)
Superseded(r) ==
    /\ Active(r) /\ ~submit[r].cancelled
    /\ trouble < MaxTrouble /\ trouble' = trouble + 1
    /\ submit' = [submit EXCEPT ![r].cancelled = TRUE]
    /\ UNCHANGED <<round, offer, event, used, turns, crossed, waits, switches>>

(* The worker dies; the reaper ends the task and says so.  The row stays.  *)
WorkerDies(r) ==
    /\ submit[r].stage \in {"waiting", "turn", "ending"}
    /\ trouble < MaxTrouble /\ trouble' = trouble + 1
    /\ submit' = [submit EXCEPT ![r].stage = "done",
                    ![r].result = IF submit[r].stage = "ending" THEN @ ELSE "lost"]
    /\ UNCHANGED <<round, offer, event, used, turns, crossed, waits, switches>>

(* The same for the handler of an event, whose transaction is rolled back. *)
HandlerDies(e) ==
    /\ event[e].stage \in {"sent", "read"}
    /\ trouble < MaxTrouble /\ trouble' = trouble + 1
    /\ Finish(e)
    /\ UNCHANGED <<round, offer, used, submit, turns, crossed, waits, switches>>

------------------------------------------------------------------------------
PersonStep(e) == Click(e) \/ Say(e) \/ Pick(e)
AnswerStep(e) ==
    \/ ReadClick(e) \/ WriteOther(e) \/ WriteAnswer(e) \/ ReadText(e)
    \/ ReadCancel(e) \/ WriteCancel(e) \/ Clear(e) \/ HandlerDies(e)
PickStep(e) == ReadPick(e) \/ WriteWait(e) \/ WriteSwitch(e)
OfferStep(o) == MakeOffer(o) \/ SwitchDone(o) \/ Expire(o)
TurnStep(r) ==
    \/ Ask(r) \/ Claim(r) \/ TurnStarts(r) \/ Busy(r) \/ CancelledBefore(r) \/ TurnEnds(r)
    \/ AskAgain(r) \/ CleanUp(r) \/ Superseded(r) \/ WorkerDies(r)

Next ==
    \/ \E e \in Events : PersonStep(e) \/ AnswerStep(e) \/ PickStep(e)
    \/ \E o \in Offers : OfferStep(o)
    \/ \E r \in Rounds : TurnStep(r)

Spec == Init /\ [][Next]_vars

------------------------------------------------------------------------------
(* What is over stays over: a click on an old card, or a text sent after   *)
(* the round was answered, replaced, cancelled or reset, is never recorded *)
(* as an answer.  Two handlers that cross on one card may break this.      *)
OverIsOver ==
    \A e \in Events : used[e] # None /\ used[e][1] \notin crossed => used[e] \notin event[e].over

(* An open round does not vanish under the person: only the person's own   *)
(* word, a newer round or a change of the relay ends it, never the end of  *)
(* the turn of an earlier round.                                           *)
EndsForAReason ==
    \A r \in OpenRounds : round'[r].status = "gone" =>
         \/ \E e \in Events : event[e].kind \in Words \ {"text"} /\ event'[e].stage # event[e].stage
         \/ \E n \in Rounds : round[n].status = "none" /\ round'[n].status = "open"
         \/ submit'[r].result = "config"
OpenRoundStays == [][EndsForAReason]_vars

(* Whoever was told that nothing changes finds nothing changed: of two     *)
(* clicks on one offer only one counts.                                    *)
WaitMeansNoSwitch == waits \cap switches = {}

(* "Already submitted" is said of answers that had their turn, as the      *)
(* comment in _resolve() has it.  False: see the README.                   *)
DuplicateHadTurn == \A r \in Rounds : submit[r].result = "duplicate" => turns[r] > 0
==============================================================================
