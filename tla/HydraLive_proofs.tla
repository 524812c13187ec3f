-------------------------- MODULE HydraLive_proofs --------------------------
(***************************************************************************)
(* What calm never undoes, for every fleet: the half of recovery that does *)
(* not need fairness. That a deployment becomes READY and that a breaker   *)
(* leaves OPEN is what TLC checks.                                         *)
(***************************************************************************)
EXTENDS HydraLive, HydraProxy_proofs

\* What a request does in calm is a step of HydraProxy.
LEMMA GoodServes ==
    ASSUME NEW r \in Requests, GoodServe(r) PROVE Serve(r)
BY DEF GoodServe, GoodAnswer, Serve, Proceed, Complete

\* A step of HydraLive is a step of HydraProxy, or leaves the proxy alone.
LEMMA LiveSteps ==
    ASSUME [LiveNext]_liveVars PROVE [Next]_vars
<1>1. ASSUME CalmNext PROVE Next
  <2>1. ASSUME Tick PROVE Probe
    BY <2>1 DEF Tick, Probe
  <2>2. ASSUME NEW n \in Nodes, ProbeGood(n) PROVE Probe
    BY <2>2 DEF ProbeGood, Probe
  <2>3. ASSUME NEW n \in Nodes, ModelsGood(n) PROVE Probe
    <3>1. {} \in SUBSET Deployments
      OBVIOUS
    <3> QED BY <2>3, <3>1 DEF ModelsGood, Probe
  <2>4. ASSUME LeaseFree PROVE Probe
    BY <2>4 DEF LeaseFree, Probe
  <2>5. ASSUME NEW r \in Requests, GoodServe(r) PROVE Serve(r)
    BY <2>5, GoodServes
  <2> QED BY <1>1, <2>1, <2>2, <2>3, <2>4, <2>5 DEF CalmNext, Next
<1>2. CASE LiveNext
  BY <1>1, <1>2 DEF LiveNext
<1>3. CASE UNCHANGED liveVars
  BY <1>3 DEF liveVars
<1> QED BY <1>2, <1>3

\* The invariants of HydraProxy are invariants of HydraLive.
LEMMA LiveInductive == LiveSpec => []IInv
<1>1. LiveInit => IInv
  BY InitIInv DEF LiveInit
<1>2. IInv /\ [LiveNext]_liveVars => IInv'
  BY LiveSteps, NextKeeps
<1> QED BY <1>1, <1>2, PTL DEF LiveSpec

\* Good probes and good answers keep a READY deployment READY, and open no breaker.
LEMMA GoodRecords ==
    ASSUME NEW h \in Health
    PROVE  /\ h.state = "READY" =>
                 /\ ProbeReady(h).state = "READY"
                 /\ \A n \in Nodes : OnModels(h, n, "ok").state = "READY"
                 /\ Looked(h).state = "READY" /\ TakeUnit(h).state = "READY"
                 /\ RecordSuccess(h).state = "READY"
                 /\ \A trial \in BOOLEAN : DropUnit(h, trial).state = "READY"
           /\ h.breaker # "OPEN" =>
                 /\ ProbeReady(h).breaker # "OPEN"
                 /\ \A n \in Nodes : OnModels(h, n, "ok").breaker # "OPEN"
                 /\ Looked(h).breaker # "OPEN" /\ TakeUnit(h).breaker # "OPEN"
                 /\ RecordSuccess(h).breaker # "OPEN"
                 /\ \A trial \in BOOLEAN : DropUnit(h, trial).breaker # "OPEN"
<1>1. /\ h.state = "READY" => ProbeReady(h).state = "READY"
      /\ ProbeReady(h).breaker = h.breaker
  BY OnProbeType DEF ProbeReady, Set, Health
<1>2. \A n \in Nodes : /\ h.state = "READY" => OnModels(h, n, "ok") = h
                       /\ OnModels(h, n, "ok").breaker = h.breaker
  BY OnModelsType DEF OnModels, Refused
<1>3. /\ BreakerState(h) \in Health /\ BreakerState(h).state = h.state
      /\ h.breaker # "OPEN" => BreakerState(h) = h
  BY BreakerStateType DEF BreakerState
<1>4. RecordSuccess(h).state = h.state
  BY SuccessWins
<1>5. h.breaker # "OPEN" => RecordSuccess(h).breaker # "OPEN"
  BY <1>3 DEF RecordSuccess, Health
<1>6. \A trial \in BOOLEAN : /\ DropUnit(h, trial).state = h.state
                             /\ DropUnit(h, trial).breaker = h.breaker
  BY DEF DropUnit, Health
<1>7. /\ TakeUnit(h).state = h.state
      /\ h.breaker # "OPEN" => TakeUnit(h).breaker # "OPEN"
  BY <1>3 DEF TakeUnit, Health
<1> QED BY <1>1, <1>2, <1>3, <1>4, <1>5, <1>6, <1>7 DEF Looked

\* No calm step drains.
LEMMA CalmDrains ==
    ASSUME CalmNext PROVE leaseDrain' \subseteq leaseDrain
<1>1. ASSUME Tick \/ LeaseFree \/ Elapse PROVE leaseDrain' \subseteq leaseDrain
  BY <1>1 DEF Tick, TickStart, LeaseFree, LeaseAnswer, Elapse, OpenElapses, drainVars
<1>2. ASSUME NEW n \in Nodes, ProbeGood(n) \/ ModelsGood(n)
      PROVE  leaseDrain' = leaseDrain
  BY <1>2 DEF ProbeGood, ProbeAnswer, ModelsGood, ModelsAnswer, drainVars
<1>3. ASSUME NEW r \in Requests, GoodServe(r) PROVE leaseDrain' = leaseDrain
  BY <1>3, GoodServes, ServeLeaves DEF drainVars
<1> QED BY <1>1, <1>2, <1>3 DEF CalmNext

\* No calm step takes READY away or opens a breaker.
LEMMA CalmSteps ==
    ASSUME IInv, CalmNext, NEW d \in Deployments
    PROVE  /\ cfg' = cfg
           /\ health[d].state = "READY" => health'[d].state = "READY"
           /\ health[d].breaker # "OPEN" => health'[d].breaker # "OPEN"
<1> DEFINE Good(h, g) == /\ h.state = "READY" => g.state = "READY"
                         /\ h.breaker # "OPEN" => g.breaker # "OPEN"
<1>1. /\ health \in HealthMap /\ health[d] \in Health /\ req \in [Requests -> Request]
      /\ ProxyTypeOK /\ TrialHeld /\ \A x \in Deployments : health[x] \in Health
  BY DEF IInv, ProxyTypeOK, FleetTypeOK, HealthMap
<1>2. CASE Tick
  BY <1>2 DEF Tick, TickStart
<1>3. CASE LeaseFree
  BY <1>3 DEF LeaseFree, LeaseAnswer
<1>4. CASE Elapse
  <2>1. cfg' = cfg
    BY <1>4 DEF Elapse, OpenElapses
  <2>2. health'[d] = health[d] \/ health'[d] = [health[d] EXCEPT !.elapsed = TRUE]
    BY <1>1, <1>4 DEF Elapse, OpenElapses, HealthMap
  <2> QED BY <1>1, <2>1, <2>2 DEF Health
<1>5. ASSUME NEW n \in Nodes, NEW b \in BOOLEAN, ProbeAnswer(n, "ready", b)
      PROVE  cfg' = cfg /\ Good(health[d], health'[d])
  <2> DEFINE p == IF d \in DepsOf(n) THEN OnProbe(health[d], "ready") ELSE health[d]
  <2>1. p \in Health /\ Good(health[d], p)
    BY <1>1, OnProbeType, GoodRecords DEF OnProbe
  <2>2. health'[d] = p \/ health'[d] = MarkSent(p, n)
    BY <1>5 DEF ProbeAnswer, Rewrite
  <2> HIDE DEF p
  <2>3. MarkSent(p, n).breaker = p.breaker /\ MarkSent(p, n).state = p.state
    BY <2>1 DEF MarkSent, Health
  <2>4. cfg' = cfg
    BY <1>5 DEF ProbeAnswer
  <2> QED BY <2>1, <2>2, <2>3, <2>4
<1>6. ASSUME NEW n \in Nodes, ModelsGood(n)
      PROVE  cfg' = cfg /\ Good(health[d], health'[d])
  <2>1. PICK p : /\ p = health[d] \/ p = OnModels(health[d], n, "ok")
                 /\ health'[d] = MarkAnswered(p, n)
    BY <1>6 DEF ModelsGood, ModelsAnswer
  <2>2. p \in Health /\ Good(health[d], p)
    <3>1. OnModels(health[d], n, "ok") \in Health
      BY <1>1, OnModelsType
    <3> QED BY <1>1, <2>1, <3>1, GoodRecords
  <2>3. health'[d].breaker = p.breaker /\ health'[d].state = p.state
    BY <2>1, <2>2 DEF MarkAnswered, Health
  <2>4. cfg' = cfg
    BY <1>6 DEF ModelsGood, ModelsAnswer
  <2> QED BY <2>2, <2>3, <2>4
<1>7. ASSUME NEW r \in Requests, GoodServe(r)
      PROVE  cfg' = cfg /\ Good(health[d], health'[d])
  <2>1. req[r].trial \in BOOLEAN
    BY <1>1 DEF Request
  <2>2. cfg' = cfg
    BY <1>7, GoodServes, ServeLeaves
  <2>3. ASSUME NEW h \in HealthMap
        PROVE  /\ Good(h[d], Released(h, r)[d])
               /\ Good(h[d], OnHeld(h, r, RecordSuccess)[d])
    <3>1. h[d] \in Health
      BY DEF HealthMap
    <3>2. Released(h, r)[d] = h[d] \/ Released(h, r)[d] = DropUnit(h[d], req[r].trial)
      BY DEF Released, OnHeld, Rewrite
    <3>3. /\ OnHeld(h, r, RecordSuccess)[d] = h[d]
             \/ OnHeld(h, r, RecordSuccess)[d] = RecordSuccess(h[d])
      BY DEF OnHeld, Rewrite
    <3> QED BY <2>1, <3>1, <3>2, <3>3, GoodRecords
  <2>4. Released(health, r) \in HealthMap /\ OnHeld(health, r, RecordSuccess) \in HealthMap
    BY <1>1, ReleasedOthers, OnHeldOthers
  <2>5. CASE CommitStream(r)
    BY <2>5 DEF CommitStream, fleetVars
  <2>6. CASE CommitBuffered(r)
    <3>1. health' = OnHeld(Released(health, r), r, RecordSuccess)
      BY <2>6 DEF CommitBuffered, Finish
    <3> QED BY <1>1, <2>2, <2>3, <2>4, <3>1
  <2>7. CASE RelayCompletes(r)
    <3>1. health' = Released(OnHeld(health, r, RecordSuccess), r)
      BY <2>7 DEF RelayCompletes, Finish
    <3> QED BY <1>1, <2>2, <2>3, <2>4, <3>1
  <2>8. CASE CloseOut(r)
    <3>1. health' = Released(health, r)
      BY <2>8 DEF CloseOut, Finish
    <3> QED BY <1>1, <2>2, <2>3, <3>1
  <2>9. CASE Begin(r)
    <3>1. PICK c \in Configs : \E p \in Plans(c), strict, retry \in BOOLEAN :
                \E k \in DOMAIN p, fam \in c.families :
                    Arrive(r, c, p, k, fam, strict, retry)
      BY <2>9 DEF Begin
    <3>2. PICK p \in Plans(c), strict \in BOOLEAN, retry \in BOOLEAN :
                \E k \in DOMAIN p, fam \in c.families :
                    Arrive(r, c, p, k, fam, strict, retry)
      BY <3>1
    <3>a. PICK k \in DOMAIN p, fam \in c.families :
        Arrive(r, c, p, k, fam, strict, retry)
      BY <3>2
    <3> DEFINE D == {p[i].d : i \in DOMAIN p}
               h == Seen(D)
    <3>3. \E l, m, state : Admit(r, p[k], h, l, m, state)
      BY <3>a DEF Arrive
    <3>4. h[d] = Looked(health[d]) \/ h[d] = health[d]
      <4> HIDE DEF D
      <4> QED BY DEF Seen, Rewrite
    <3>5. h \in HealthMap
      BY PlanTaken
    <3> HIDE DEF h
    <3>6. h[d] \in Health /\ (health'[d] = h[d] \/ health'[d] = TakeUnit(h[d]))
      BY <3>3, <3>5 DEF Admit, Rewrite, HealthMap
    <3>7. Good(health[d], h[d]) /\ Good(h[d], health'[d])
      BY <1>1, <3>4, <3>6, GoodRecords
    <3> QED BY <2>2, <3>7
  <2> QED BY <1>7, <2>5, <2>6, <2>7, <2>8, <2>9 DEF GoodServe, GoodAnswer
<1> QED BY <1>2, <1>3, <1>4, <1>5, <1>6, <1>7 DEF CalmNext, ProbeGood

\* Once the world is calm, a deployment that is READY stays READY
THEOREM ReadyStays ==
    ASSUME NEW d \in Deployments
    PROVE  LiveSpec => [](calm /\ (d \in cfg.deps => health[d].state = "READY")
                            => [](d \in cfg.deps => health[d].state = "READY"))
<1> DEFINE I == calm /\ (d \in cfg.deps => health[d].state = "READY")
<1>1. IInv /\ I /\ [LiveNext]_liveVars => I'
  <2> SUFFICES ASSUME IInv, I, [LiveNext]_liveVars PROVE I'
    OBVIOUS
  <2>1. CASE UNCHANGED liveVars
    BY <2>1 DEF liveVars, vars, fleetVars
  <2>2. CASE CalmNext /\ calm' = TRUE
    BY <2>2, CalmSteps
  <2> QED BY <2>1, <2>2 DEF LiveNext
<1> QED BY <1>1, LiveInductive, PTL DEF LiveSpec

\* ... and no breaker that is not OPEN opens
THEOREM NothingOpens ==
    ASSUME NEW d \in Deployments
    PROVE  LiveSpec => [](calm /\ health[d].breaker # "OPEN"
                            => [](health[d].breaker # "OPEN"))
<1> DEFINE I == calm /\ health[d].breaker # "OPEN"
<1>1. IInv /\ I /\ [LiveNext]_liveVars => I'
  <2> SUFFICES ASSUME IInv, I, [LiveNext]_liveVars PROVE I'
    OBVIOUS
  <2>1. CASE UNCHANGED liveVars
    BY <2>1 DEF liveVars, vars, fleetVars
  <2>2. CASE CalmNext /\ calm' = TRUE
    BY <2>2, CalmSteps
  <2> QED BY <2>1, <2>2 DEF LiveNext
<1> QED BY <1>1, LiveInductive, PTL DEF LiveSpec

\* ... and the lease drains no node that it has not drained already
THEOREM LeaseDrainsNoMore ==
    ASSUME NEW n \in Nodes
    PROVE  LiveSpec => [](calm /\ n \notin leaseDrain => [](n \notin leaseDrain))
<1> DEFINE I == calm /\ n \notin leaseDrain
<1>1. IInv /\ I /\ [LiveNext]_liveVars => I'
  <2> SUFFICES ASSUME IInv, I, [LiveNext]_liveVars PROVE I'
    OBVIOUS
  <2>1. CASE UNCHANGED liveVars
    BY <2>1 DEF liveVars, vars, fleetVars, drainVars
  <2>2. CASE CalmNext /\ calm' = TRUE
    <3>1. leaseDrain' \subseteq leaseDrain
      BY <2>2, CalmDrains
    <3> QED BY <2>2, <3>1
  <2> QED BY <2>1, <2>2 DEF LiveNext
<1> QED BY <1>1, LiveInductive, PTL DEF LiveSpec
=============================================================================
