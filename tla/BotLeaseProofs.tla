---------------------------- MODULE BotLeaseProofs ----------------------------
(***************************************************************************)
(* Proofs about BotLease, for any number of gateways, requests, crashes    *)
(* and stalls.                                                             *)
(*                                                                         *)
(* The argument is that a generation has one place: the acquire that drew  *)
(* it hands it to the runner, the runner to its drain, and no other        *)
(* coroutine of the gateway holds it at the same time.                     *)
(***************************************************************************)
EXTENDS BotLease, TLAPS

(* What a gateway knows of the current generation, a round of it that is   *)
(* about to connect included, is only known while nobody else holds it.    *)
Fenced ==
    \A g \in Gateway :
        (generation \in conns[g] \/ (round[g] = "connect" /\ hand[g] = generation))
            => holder \in {g, None}

(* The generation of a runner is in no release under way. *)
OnePlace ==
    \A g \in Gateway :
        /\ runner[g] # 0 => leaving[g] # runner[g]
        /\ round[g] \in {"connect", "refuse"} =>
               runner[g] < hand[g] /\ leaving[g] < hand[g]
        /\ round[g] = "giveBack" => runner[g] = 0 /\ drainStep[g] = "none"
        /\ round[g] # "idle" => mode[g] \in {"up", "draining"}

(* A lease that is held has been acquired. *)
Drawn == holder # None => generation # 0

(* A connection under the current generation is its runner's, or that of a *)
(* drain that has yet to close it, or a shutdown cut that drain short.     *)
Accounted ==
    \A g \in Gateway : generation \in conns[g] =>
        \/ runner[g] = generation
        \/ drainStep[g] = "open" /\ leaving[g] = generation
        \/ mode[g] = "stopping" /\ leaving[g] # generation

LeaseInv == TypeOK /\ Fenced /\ OnePlace /\ Drawn /\ Accounted

------------------------------------------------------------------------------
LEMMA InitLease == Init => LeaseInv
PROOF
<1> SUFFICES ASSUME Init PROVE LeaseInv
  OBVIOUS
<1>1. conns \in [Gateway -> SUBSET (1..generation)]
  BY DEF Init
<1>2. requests \in 0..MaxRequests /\ disruptions \in 0..MaxDisruptions
  BY LeaseAssumption DEF Init
<1>3. /\ hand \in [Gateway -> 0..generation] /\ runner \in [Gateway -> 0..generation]
      /\ leaving \in [Gateway -> 0..generation]
  BY DEF Init
<1>4. TypeOK
  BY <1>1, <1>2, <1>3 DEF Init, TypeOK, Rounds
<1>5. Fenced /\ OnePlace /\ Drawn /\ Accounted
  BY DEF Init, Fenced, OnePlace, Drawn, Accounted
<1>6. QED
  BY <1>4, <1>5 DEF LeaseInv

(* Releasing a lease only takes its holder away. *)
LEMMA ReleaseEffect ==
    ASSUME NEW g \in Gateway, NEW n, TypeOK, Release(g, n)
    PROVE  /\ holder' \in {holder, None}
           /\ expired' \in BOOLEAN /\ drainAsked' \in BOOLEAN
           /\ generation' = generation /\ enabled' = enabled
           /\ holder' # holder => holder = g /\ generation = n
  BY DEF Release, TypeOK

(* The steps of a lease round. *)
LEMMA RoundKeeps ==
    ASSUME NEW g \in Gateway, LeaseInv, RoundStep(g)
    PROVE  LeaseInv'
PROOF
<1> USE LeaseAssumption DEF LeaseInv, TypeOK, Fenced, OnePlace, Drawn, Accounted, Rounds, Goto, Handle,
                            countVars, connVars, leaseVars
<1>1. CASE Beat(g)
  BY <1>1 DEF Beat
<1>2. CASE TryAcquire(g)
  <2>1. CASE Free
    <3>1. /\ holder' = g /\ generation' = generation + 1
          /\ expired' = FALSE /\ drainAsked' = FALSE /\ enabled' = enabled
          /\ hand' = [hand EXCEPT ![g] = generation + 1]
          /\ round' = [round EXCEPT ![g] = "connect"]
          /\ round[g] = "candidate" /\ UNCHANGED <<mode, told, connVars, countVars>>
      BY <1>2, <2>1 DEF TryAcquire, Acquire
    <3>2. generation' \in Nat /\ generation < generation'
      BY <3>1
    <3>3. TypeOK'
      <4>1. \A n \in 0..generation : n \in 0..generation'
        BY <3>1
      <4>2. \A N \in SUBSET (1..generation) : N \in SUBSET (1..generation')
        BY <3>1
      <4>3. /\ hand' \in [Gateway -> 0..generation']
            /\ runner' \in [Gateway -> 0..generation']
            /\ leaving' \in [Gateway -> 0..generation']
        BY <3>1, <4>1
      <4>4. conns' \in [Gateway -> SUBSET (1..generation')]
        BY <3>1, <4>2
      <4>5. QED
        BY <3>1, <3>2, <4>3, <4>4
    <3>4. Fenced' /\ Drawn' /\ Accounted'
      BY <3>1, <3>2
    <3>5. OnePlace'
      BY <3>1, <3>2
    <3>6. QED
      BY <3>3, <3>4, <3>5
  <2>2. CASE ~Free
    BY <1>2, <2>2 DEF TryAcquire
  <2>3. QED
    BY <2>1, <2>2
<1>3. CASE Connect(g)
  <2>1. hand[g] \in 1..generation
    BY <1>3 DEF Connect
  <2>2. conns' \in [Gateway -> SUBSET (1..generation')]
    BY <1>3, <2>1 DEF Connect
  <2>3. TypeOK'
    BY <1>3, <2>2 DEF Connect
  <2>4. Fenced' /\ Drawn' /\ Accounted'
    BY <1>3 DEF Connect
  <2>5. OnePlace'
    BY <1>3 DEF Connect
  <2>6. QED
    BY <2>3, <2>4, <2>5
<1>4. CASE ConnectFails(g)
  BY <1>4 DEF ConnectFails, Disrupt
<1>5. CASE Refuse(g)
  BY <1>5, ReleaseEffect DEF Refuse
<1>6. CASE Look(g)
  BY <1>6 DEF Look
<1>7. CASE Decide(g)
  BY <1>7 DEF Decide, DecideHeldIdle, CloseOrphan, StartDrain, Busy
<1>8. CASE GiveBack(g)
  BY <1>8, ReleaseEffect DEF GiveBack
<1>9. CASE AwaitDrain(g)
  BY <1>9 DEF AwaitDrain
<1>10. QED
  BY <1>1, <1>2, <1>3, <1>4, <1>5, <1>6, <1>7, <1>8, <1>9 DEF RoundStep

(* The steps of a drain, and the ends of a gateway. *)
LEMMA GatewayKeeps ==
    ASSUME NEW g \in Gateway, LeaseInv, GatewayStep(g)
    PROVE  LeaseInv'
PROOF
<1>0. CASE RoundStep(g)
  BY <1>0, RoundKeeps
<1> USE LeaseAssumption DEF LeaseInv, TypeOK, Fenced, OnePlace, Drawn, Accounted, Rounds, Goto, Handle,
                            countVars, connVars, leaseVars, roundVars
<1>1. CASE BeginDrain(g)
  BY <1>1 DEF BeginDrain, StartDrain, Busy
<1>2. CASE DrainClose(g)
  BY <1>2 DEF DrainClose
<1>3. CASE DrainRelease(g)
  BY <1>3, ReleaseEffect DEF DrainRelease
<1>4. CASE DrainGateway(g)
  BY <1>4 DEF DrainGateway, Disrupt
<1>5. CASE Shutdown(g)
  BY <1>5 DEF Shutdown, Disrupt
<1>6. CASE Exit(g) \/ Crash(g)
  <2>1. disruptions' \in 0..MaxDisruptions /\ requests' = requests /\ Die(g)
    BY <1>6 DEF Exit, Crash, Disrupt
  <2>2. conns' \in [Gateway -> SUBSET (1..generation')]
    BY <2>1 DEF Die
  <2>3. TypeOK'
    BY <2>1, <2>2 DEF Die
  <2>4. Fenced' /\ Drawn' /\ Accounted'
    BY <2>1 DEF Die
  <2>5. OnePlace'
    BY <2>1 DEF Die
  <2>6. QED
    BY <2>3, <2>4, <2>5
<1>7. QED
  BY <1>0, <1>1, <1>2, <1>3, <1>4, <1>5, <1>6 DEF GatewayStep, DrainStep

(* The clock, the scheduler and the administrator. *)
LEMMA OutsideKeeps ==
    ASSUME LeaseInv, Expire \/ ReleaseStale \/ RequestDrain \/ Switch
    PROVE  LeaseInv'
PROOF
<1>1. /\ UNCHANGED <<generation, mode, round, hand, told, runner, conns, drainStep, leaving>>
      /\ holder' \in {holder, None}
  BY DEF Expire, ReleaseStale, RequestDrain, Switch, connVars, roundVars
<1>2. requests' \in 0..MaxRequests /\ disruptions' \in 0..MaxDisruptions
  <2>1. CASE UNCHANGED countVars
    BY <2>1 DEF LeaseInv, TypeOK, countVars
  <2>2. CASE Request \/ Disrupt
    BY <2>2, LeaseAssumption DEF LeaseInv, TypeOK, Request, Disrupt
  <2>3. QED
    BY <2>1, <2>2 DEF Expire, ReleaseStale, RequestDrain, Switch
<1>3. expired' \in BOOLEAN /\ drainAsked' \in BOOLEAN /\ enabled' \in BOOLEAN
  BY Zenon DEF LeaseInv, TypeOK, Expire, ReleaseStale, RequestDrain, Switch
<1>4. TypeOK'
  BY <1>1, <1>2, <1>3 DEF LeaseInv, TypeOK
<1>5. Fenced' /\ OnePlace' /\ Drawn' /\ Accounted'
  BY <1>1 DEF LeaseInv, Fenced, OnePlace, Drawn, Accounted
<1>6. QED
  BY <1>4, <1>5 DEF LeaseInv

LEMMA NextKeepsLease == LeaseInv /\ [Next]_vars => LeaseInv'
PROOF
<1> SUFFICES ASSUME LeaseInv, [Next]_vars PROVE LeaseInv'
  OBVIOUS
<1>1. CASE Next
  BY <1>1, GatewayKeeps, OutsideKeeps DEF Next
<1>2. CASE UNCHANGED vars
  BY <1>2 DEF vars, leaseVars, roundVars, connVars, countVars,
              LeaseInv, TypeOK, Fenced, OnePlace, Drawn, Accounted
<1>3. QED
  BY <1>1, <1>2

(* The strengthened invariant holds of every behaviour of the leases. *)
THEOREM LeaseInvariant == Spec => []LeaseInv
PROOF
<1>1. QED
  BY InitLease, NextKeepsLease, PTL DEF Spec

(* Every variable of the lease protocol stays in its type. *)
THEOREM LeaseTypes == Spec => []TypeOK
PROOF
<1>1. LeaseInv => TypeOK
  BY DEF LeaseInv
<1>2. QED
  BY <1>1, LeaseInvariant, PTL

(* A connection that bears the lease's current generation belongs to the   *)
(* present holder: the generation fences the gateways off from each other. *)
THEOREM GenerationFences == Spec => []CurrentIsHolders
PROOF
<1>1. LeaseInv => CurrentIsHolders
  BY DEF LeaseInv, Fenced, CurrentIsHolders
<1>2. QED
  BY <1>1, LeaseInvariant, PTL

------------------------------------------------------------------------------
(* No step takes a lease that is beaten and served from its holder. *)
LEMMA StepKeepsServed ==
    ASSUME LeaseInv, Next, NEW h \in Gateway,
           holder = h, ~expired, runner[h] = generation, generation # 0
    PROVE  holder' = h
PROOF
<1> USE DEF LeaseInv, TypeOK, OnePlace, leaseVars
<1>1. ASSUME NEW g \in Gateway, GatewayStep(g)
      PROVE  holder' = h
  <2>1. CASE Refuse(g)
    BY <2>1, ReleaseEffect DEF Refuse
  <2>2. CASE GiveBack(g)
    BY <2>2, ReleaseEffect DEF GiveBack
  <2>3. CASE DrainRelease(g)
    BY <2>3, ReleaseEffect DEF DrainRelease
  <2>4. CASE TryAcquire(g)
    BY <2>4, LeaseAssumption DEF TryAcquire, Free
  <2>5. CASE \/ Beat(g) \/ Connect(g) \/ ConnectFails(g) \/ Look(g) \/ Decide(g)
             \/ AwaitDrain(g) \/ BeginDrain(g) \/ DrainClose(g)
             \/ DrainGateway(g) \/ Shutdown(g) \/ Exit(g) \/ Crash(g)
    BY <2>5 DEF Beat, Connect, ConnectFails, Look, Decide, AwaitDrain, BeginDrain,
                DrainClose, DrainGateway, Shutdown, Exit, Crash, Die
  <2>6. QED
    BY <1>1, <2>1, <2>2, <2>3, <2>4, <2>5 DEF GatewayStep, RoundStep, DrainStep
<1>2. CASE Expire \/ ReleaseStale \/ RequestDrain \/ Switch
  BY <1>2 DEF Expire, ReleaseStale, RequestDrain, Switch
<1>3. QED
  BY <1>1, <1>2 DEF Next

(* A lease that is beaten and served stays with its holder: no late        *)
(* release, of an older generation or by a refused connect, takes it away. *)
THEOREM ServedLeasesStay == Spec => ServedLeaseStays
PROOF
<1>1. LeaseInv /\ [Next]_vars =>
        [\A g \in Gateway :
           (holder = g /\ ~expired /\ runner[g] = generation) => holder' = g]_vars
  <2>1. SUFFICES ASSUME LeaseInv, Next, NEW g \in Gateway,
                        holder = g, ~expired, runner[g] = generation
                 PROVE  holder' = g
    OBVIOUS
  <2>2. generation # 0
    BY <2>1, LeaseAssumption DEF LeaseInv, Drawn
  <2>3. QED
    BY <2>1, <2>2, StepKeepsServed
<1>2. QED
  BY <1>1, LeaseInvariant, PTL DEF Spec, ServedLeaseStays

------------------------------------------------------------------------------
(* A step that gives a beaten lease up leaves no connection under it.      *)
LEMMA StepClosesFirst ==
    ASSUME LeaseInv, Next, NEW h \in Gateway, holder = h, ~expired, holder' = None
    PROVE  generation \notin conns[h]
PROOF
<1> USE LeaseAssumption DEF LeaseInv, TypeOK, OnePlace, Accounted, leaseVars
<1>1. ASSUME NEW g \in Gateway, GatewayStep(g)
      PROVE  generation \notin conns[h]
  <2>1. CASE Refuse(g)
    BY <2>1, ReleaseEffect DEF Refuse
  <2>2. CASE GiveBack(g)
    BY <2>2, ReleaseEffect DEF GiveBack
  <2>3. CASE DrainRelease(g)
    <3>1. h = g /\ leaving[g] = generation /\ drainStep[g] = "closed"
      BY <2>3, ReleaseEffect DEF DrainRelease
    <3>2. generation # 0
      BY DEF Drawn
    <3>3. runner[g] # generation
      BY <3>1, <3>2
    <3>4. QED
      BY <3>1, <3>3
  <2>4. CASE TryAcquire(g)
    BY <2>4 DEF TryAcquire, Acquire
  <2>5. CASE \/ Beat(g) \/ Connect(g) \/ ConnectFails(g) \/ Look(g) \/ Decide(g)
             \/ AwaitDrain(g) \/ BeginDrain(g) \/ DrainClose(g)
             \/ DrainGateway(g) \/ Shutdown(g) \/ Exit(g) \/ Crash(g)
    BY <2>5 DEF Beat, Connect, ConnectFails, Look, Decide, AwaitDrain, BeginDrain,
                DrainClose, DrainGateway, Shutdown, Exit, Crash, Die
  <2>6. QED
    BY <1>1, <2>1, <2>2, <2>3, <2>4, <2>5 DEF GatewayStep, RoundStep, DrainStep
<1>2. CASE Expire \/ ReleaseStale \/ RequestDrain \/ Switch
  BY <1>2 DEF Expire, ReleaseStale, RequestDrain, Switch
<1>3. QED
  BY <1>1, <1>2 DEF Next

(* The connection of a beaten lease is closed before the lease is given    *)
(* up, so that the next holder never shares the bot with it.               *)
THEOREM ClosesBeforeReleasing == Spec => ClosedBeforeReleased
PROOF
<1>1. LeaseInv /\ [Next]_vars =>
        [\A g \in Gateway :
           (holder = g /\ ~expired /\ holder' = None) => generation \notin conns[g]]_vars
  BY StepClosesFirst
<1>2. QED
  BY <1>1, LeaseInvariant, PTL DEF Spec, ClosedBeforeReleased
==============================================================================
