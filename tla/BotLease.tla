------------------------------- MODULE BotLease -------------------------------
(***************************************************************************)
(* The lease of one bot: its row in bot_leases (core/bus/leases.py), the   *)
(* lease rounds and drains of the WeCom gateways that compete for it       *)
(* (gateway_common/lease_loop.py, gateway_wecom/service.py), the           *)
(* scheduler's release of stale leases and the administrator's requests.   *)
(*                                                                         *)
(* A gateway is one process incarnation: its id holds its pid and start    *)
(* time, so a dead gateway never comes back.  A connection to the platform *)
(* is named by the generation it was opened under.                         *)
(***************************************************************************)
EXTENDS Naturals

CONSTANTS Gateway,        \* gateway processes
          None,           \* nobody
          MaxRequests,    \* bound: drains asked for, bots switched on or off
          MaxDisruptions  \* bound: crashes, stalls of a live gateway, failed
                          \* connects, drains of a whole gateway

ASSUME LeaseAssumption ==
    /\ None \notin Gateway
    /\ MaxRequests \in Nat /\ MaxDisruptions \in Nat

VARIABLES
    holder,       \* bot_leases.holder_instance
    generation,   \* bot_leases.generation
    expired,      \* heartbeat_at is older than STALE_AFTER_SECONDS
    drainAsked,   \* drain_requested_by is set
    enabled,      \* bots.enabled
    mode,         \* "up", "draining", "stopping" or "dead"
    round,        \* where the lease round stands
    hand,         \* the generation the round deals with, 0 for none
    told,         \* the round saw that the bot is to be drained
    runner,       \* generation of runners[bot], 0 if there is none
    conns,        \* generations whose connection this gateway has open
    drainStep,    \* where a drain of the bot stands; the bot is busy unless "none"
    leaving,      \* generation of the runner being drained
    requests,     \* requests so far
    disruptions   \* disruptions so far

leaseVars == <<holder, generation, expired, drainAsked, enabled>>
roundVars == <<round, hand, told>>
connVars == <<runner, conns, drainStep, leaving>>
countVars == <<requests, disruptions>>
vars == <<leaseVars, mode, roundVars, connVars, countVars>>

Rounds == {"idle", "candidate", "connect", "refuse", "look", "decide",
           "giveBack", "drain"}

Request == requests < MaxRequests /\ requests' = requests + 1 /\ UNCHANGED disruptions
Disrupt == disruptions < MaxDisruptions /\ disruptions' = disruptions + 1 /\ UNCHANGED requests

Goto(g, r) == round' = [round EXCEPT ![g] = r]
Handle(g, n) == hand' = [hand EXCEPT ![g] = n]
Busy(g) == drainStep[g] # "none"

------------------------------------------------------------------------------
(* Writes of the lease row *)

(* acquire(): only a lease without a live holder, whatever its drain mark. *)
FreeOfDrain == (holder = None \/ expired) /\ ~drainAsked
Free == holder = None \/ expired

AcquireSameGeneration(g) ==
    /\ holder' = g
    /\ expired' = FALSE
    /\ drainAsked' = FALSE
    /\ UNCHANGED <<generation, enabled>>

Acquire(g) ==
    /\ holder' = g
    /\ generation' = generation + 1
    /\ expired' = FALSE
    /\ drainAsked' = FALSE
    /\ UNCHANGED enabled

(* release(): guarded by the holder and by its generation. *)
ReleaseAnyGeneration(g, n) ==
    /\ IF holder = g
       THEN holder' = None /\ expired' = FALSE /\ drainAsked' = FALSE
       ELSE UNCHANGED <<holder, expired, drainAsked>>
    /\ UNCHANGED <<generation, enabled>>

Release(g, n) ==
    /\ IF holder = g /\ generation = n
       THEN holder' = None /\ expired' = FALSE /\ drainAsked' = FALSE
       ELSE UNCHANGED <<holder, expired, drainAsked>>
    /\ UNCHANGED <<generation, enabled>>

------------------------------------------------------------------------------
(* A lease round *)

(* First transaction: the heartbeat, then the list of free leases. *)
Beat(g) ==
    /\ round[g] = "idle" /\ mode[g] \in {"up", "draining"}
    /\ expired' = (expired /\ holder # g)
    /\ Goto(g, IF mode[g] = "up" /\ enabled /\ (holder = None \/ expired')
               THEN "candidate" ELSE "look")
    /\ UNCHANGED <<holder, generation, drainAsked, enabled, mode, hand, told,
                   connVars, countVars>>

TryAcquire(g) ==
    /\ round[g] = "candidate"
    /\ IF Free
       THEN Acquire(g) /\ Handle(g, generation') /\ Goto(g, "connect")
       ELSE Goto(g, "look") /\ UNCHANGED <<leaseVars, hand>>
    /\ UNCHANGED <<mode, told, connVars, countVars>>

(* lease_connect() puts the runner into runners and starts it; a bot that  *)
(* was disabled meanwhile, or an exception, gives the lease back.          *)
Connect(g) ==
    /\ round[g] = "connect" /\ enabled
    /\ runner' = [runner EXCEPT ![g] = hand[g]]
    /\ conns' = [conns EXCEPT ![g] = @ \cup {hand[g]}]
    /\ Goto(g, "look") /\ Handle(g, 0)
    /\ UNCHANGED <<leaseVars, mode, told, drainStep, leaving, countVars>>

ConnectFails(g) ==
    /\ round[g] = "connect"
    /\ (~enabled /\ UNCHANGED countVars) \/ Disrupt
    /\ Goto(g, "refuse")
    /\ UNCHANGED <<leaseVars, mode, hand, told, connVars>>

Refuse(g) ==
    /\ round[g] = "refuse"
    /\ Release(g, hand[g])
    /\ Goto(g, "look") /\ Handle(g, 0)
    /\ UNCHANGED <<mode, told, connVars, countVars>>

(* held_by() and disabled_among(). *)
Look(g) ==
    /\ round[g] = "look"
    /\ Handle(g, IF holder = g THEN generation ELSE 0)
    /\ told' = [told EXCEPT ![g] = holder = g /\ (~enabled \/ drainAsked)]
    /\ Goto(g, "decide")
    /\ UNCHANGED <<leaseVars, mode, connVars, countVars>>

(* drain(): the bot is busy and the runner out of runners at once. *)
StartDrain(g) ==
    /\ ~Busy(g) /\ runner[g] # 0
    /\ drainStep' = [drainStep EXCEPT ![g] = "open"]
    /\ leaving' = [leaving EXCEPT ![g] = runner[g]]
    /\ runner' = [runner EXCEPT ![g] = 0]
    /\ UNCHANGED conns

KeepOrphan(g) == UNCHANGED connVars

(* lease_orphaned(): the lease is not ours, the connection is closed. *)
CloseOrphan(g) ==
    /\ runner' = [runner EXCEPT ![g] = 0]
    /\ conns' = [conns EXCEPT ![g] = @ \ {runner[g]}]
    /\ UNCHANGED <<drainStep, leaving>>

(* What the round does about what it saw; one case per bot. *)
DecideHeldIdle(g) ==
    /\ hand[g] # 0
    /\ \/ runner[g] # 0 /\ told[g] /\ StartDrain(g) /\ Goto(g, "drain")
       \/ runner[g] = 0 /\ Goto(g, "giveBack") /\ UNCHANGED connVars
       \/ runner[g] # 0 /\ ~told[g] /\ Goto(g, "idle") /\ UNCHANGED connVars

DecideDespiteDrain(g) ==
    /\ round[g] = "decide"
    /\ \/ hand[g] = 0 /\ CloseOrphan(g) /\ Goto(g, "idle")
       \/ DecideHeldIdle(g)
    /\ UNCHANGED <<leaseVars, mode, hand, told, countVars>>

Decide(g) ==
    /\ round[g] = "decide"
    /\ \/ hand[g] = 0 /\ CloseOrphan(g) /\ Goto(g, "idle")
       \/ ~Busy(g) /\ DecideHeldIdle(g)
       \/ hand[g] # 0 /\ Busy(g) /\ Goto(g, "idle") /\ UNCHANGED connVars
    /\ UNCHANGED <<leaseVars, mode, hand, told, countVars>>

(* The lease is held without a connection. *)
GiveBack(g) ==
    /\ round[g] = "giveBack"
    /\ Release(g, hand[g])
    /\ Goto(g, "idle") /\ Handle(g, 0)
    /\ UNCHANGED <<mode, told, connVars, countVars>>

AwaitDrain(g) ==
    /\ round[g] = "drain" /\ ~Busy(g)
    /\ Goto(g, "idle")
    /\ UNCHANGED <<leaseVars, mode, hand, told, connVars, countVars>>

------------------------------------------------------------------------------
(* A drain *)

(* Started outside the round: the bot was disabled, or the whole gateway   *)
(* is drained.                                                             *)
BeginDrain(g) ==
    /\ mode[g] = "up" => ~enabled
    /\ mode[g] # "dead"
    /\ StartDrain(g)
    /\ UNCHANGED <<leaseVars, mode, roundVars, countVars>>

(* The streams are finished and the connection closed ... *)
DrainClose(g) ==
    /\ drainStep[g] = "open"
    /\ conns' = [conns EXCEPT ![g] = @ \ {leaving[g]}]
    /\ drainStep' = [drainStep EXCEPT ![g] = "closed"]
    /\ UNCHANGED <<leaseVars, mode, roundVars, runner, leaving, countVars>>

(* ... before the lease is released. *)
DrainRelease(g) ==
    /\ drainStep[g] = "closed"
    /\ Release(g, leaving[g])
    /\ drainStep' = [drainStep EXCEPT ![g] = "none"]
    /\ leaving' = [leaving EXCEPT ![g] = 0]
    /\ UNCHANGED <<mode, roundVars, runner, conns, countVars>>

------------------------------------------------------------------------------
(* The clock, the scheduler and the administrator *)

(* Thirty seconds without a heartbeat: the holder is dead or its loops are *)
(* stopped, or it was cut off from the database.                           *)
Expire ==
    /\ holder # None /\ ~expired
    /\ \/ mode[holder] \in {"stopping", "dead"} /\ UNCHANGED countVars
       \/ mode[holder] \in {"up", "draining"} /\ Disrupt
    /\ expired' = TRUE
    /\ UNCHANGED <<holder, generation, drainAsked, enabled, mode, roundVars, connVars>>

(* release_stale_leases() *)
ReleaseStale ==
    /\ holder # None /\ expired
    /\ holder' = None /\ expired' = FALSE
    /\ UNCHANGED <<generation, drainAsked, enabled, mode, roundVars, connVars, countVars>>

(* request_drain(), offered only while the lease has a live holder. *)
RequestDrain ==
    /\ holder # None /\ ~expired /\ ~drainAsked /\ Request
    /\ drainAsked' = TRUE
    /\ UNCHANGED <<holder, generation, expired, enabled, mode, roundVars, connVars>>

Switch ==
    /\ Request
    /\ enabled' = ~enabled
    /\ UNCHANGED <<holder, generation, expired, drainAsked, mode, roundVars, connVars>>

------------------------------------------------------------------------------
(* Processes *)

(* The gateway as a whole is asked to drain: its rounds go on. *)
DrainGateway(g) ==
    /\ mode[g] = "up" /\ Disrupt
    /\ mode' = [mode EXCEPT ![g] = "draining"]
    /\ UNCHANGED <<leaseVars, roundVars, connVars>>

(* on_shutdown(): every loop is cancelled, a drain one of them was in       *)
(* included, and with them the heartbeats.                                 *)
Shutdown(g) ==
    /\ mode[g] \in {"up", "draining"}
    /\ (mode[g] = "draining" /\ UNCHANGED countVars) \/ (mode[g] = "up" /\ Disrupt)
    /\ mode' = [mode EXCEPT ![g] = "stopping"]
    /\ Goto(g, "idle") /\ Handle(g, 0)
    /\ told' = [told EXCEPT ![g] = FALSE]
    /\ drainStep' = [drainStep EXCEPT ![g] = "none"]
    /\ leaving' = [leaving EXCEPT ![g] = 0]
    /\ UNCHANGED <<leaseVars, runner, conns>>

Die(g) ==
    /\ mode' = [mode EXCEPT ![g] = "dead"]
    /\ Goto(g, "idle") /\ Handle(g, 0)
    /\ told' = [told EXCEPT ![g] = FALSE]
    /\ runner' = [runner EXCEPT ![g] = 0]
    /\ conns' = [conns EXCEPT ![g] = {}]
    /\ drainStep' = [drainStep EXCEPT ![g] = "none"]
    /\ leaving' = [leaving EXCEPT ![g] = 0]
    /\ UNCHANGED leaseVars

(* The runners are drained, or the deadline cuts them off. *)
Exit(g) == mode[g] = "stopping" /\ ~Busy(g) /\ Die(g) /\ UNCHANGED countVars

Crash(g) == mode[g] # "dead" /\ Disrupt /\ Die(g)

------------------------------------------------------------------------------
Init ==
    /\ holder = None /\ generation = 0
    /\ expired = FALSE /\ drainAsked = FALSE /\ enabled = TRUE
    /\ mode = [g \in Gateway |-> "up"]
    /\ round = [g \in Gateway |-> "idle"]
    /\ hand = [g \in Gateway |-> 0]
    /\ told = [g \in Gateway |-> FALSE]
    /\ runner = [g \in Gateway |-> 0]
    /\ conns = [g \in Gateway |-> {}]
    /\ drainStep = [g \in Gateway |-> "none"]
    /\ leaving = [g \in Gateway |-> 0]
    /\ requests = 0 /\ disruptions = 0

RoundStep(g) ==
    \/ Beat(g) \/ TryAcquire(g) \/ Connect(g) \/ ConnectFails(g) \/ Refuse(g)
    \/ Look(g) \/ Decide(g) \/ GiveBack(g) \/ AwaitDrain(g)

DrainStep(g) == DrainClose(g) \/ DrainRelease(g)

GatewayStep(g) ==
    \/ RoundStep(g) \/ BeginDrain(g) \/ DrainStep(g)
    \/ DrainGateway(g) \/ Shutdown(g) \/ Exit(g) \/ Crash(g)

Next ==
    \/ \E g \in Gateway : GatewayStep(g)
    \/ Expire \/ ReleaseStale \/ RequestDrain \/ Switch

Spec == Init /\ [][Next]_vars

(* A running gateway goes on with its rounds and drains, a draining one    *)
(* shuts down, a lease nobody beats expires.                               *)
Fairness ==
    /\ \A g \in Gateway :
         /\ WF_vars(RoundStep(g)) /\ WF_vars(DrainStep(g))
         /\ WF_vars(mode[g] \in {"draining", "stopping"} /\ BeginDrain(g))
         /\ WF_vars(mode[g] = "draining" /\ ~Busy(g) /\ runner[g] = 0 /\ Shutdown(g))
         /\ WF_vars(Exit(g))
    /\ WF_vars(Expire /\ UNCHANGED countVars)

FairSpec == Spec /\ Fairness

------------------------------------------------------------------------------
(* Properties *)

(* Every variable stays in its type. *)
TypeOK ==
    /\ holder \in Gateway \cup {None}
    /\ generation \in Nat
    /\ expired \in BOOLEAN /\ drainAsked \in BOOLEAN /\ enabled \in BOOLEAN
    /\ mode \in [Gateway -> {"up", "draining", "stopping", "dead"}]
    /\ round \in [Gateway -> Rounds]
    /\ hand \in [Gateway -> 0..generation]
    /\ told \in [Gateway -> BOOLEAN]
    /\ runner \in [Gateway -> 0..generation]
    /\ conns \in [Gateway -> SUBSET (1..generation)]
    /\ drainStep \in [Gateway -> {"none", "open", "closed"}]
    /\ leaving \in [Gateway -> 0..generation]
    /\ requests \in 0..MaxRequests
    /\ disruptions \in 0..MaxDisruptions

(* The generation fences the holders off: a connection that bears the      *)
(* lease's current generation is the present holder's, or nobody's.        *)
CurrentIsHolders ==
    \A g \in Gateway : generation \in conns[g] => holder \in {g, None}

(* A lease that is beaten and served is not lost to a late release of an   *)
(* older generation by the same gateway (leases.release).                  *)
ServedLeaseStays ==
    [][\A g \in Gateway :
         (holder = g /\ ~expired /\ runner[g] = generation) => holder' = g]_vars

(* A lease given up by its holder has no open connection left: no round    *)
(* releases it while a drain is still closing the connection (lease_loop). *)
ClosedBeforeReleased ==
    [][\A g \in Gateway :
         (holder = g /\ ~expired /\ holder' = None) => generation \notin conns[g]]_vars

(* A gateway whose lease has passed to another generation stops serving.   *)
OrphansEnd ==
    \A g \in Gateway :
        (runner[g] # 0 /\ runner[g] # generation) ~> (runner[g] = 0 \/ runner[g] = generation)

(* An enabled bot is served, again and again, as long as a gateway is up:  *)
(* no drain mark, dead holder or half-finished takeover leaves it alone.   *)
Served == \E g \in Gateway : holder = g /\ runner[g] = generation
BotIsServed == <>[](enabled /\ \E g \in Gateway : mode[g] = "up") => []<>Served
==============================================================================
