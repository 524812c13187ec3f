------------------------ MODULE HydraHistory_proofs ------------------------
(***************************************************************************)
(* beast-hydra with its histories. How far the promise that stale_check    *)
(* refutes does hold: an ok of a models check clears no refusal that a     *)
(* request observed since the check was sent, as long as what the request  *)
(* observed was news. And what closes a breaker: as many requests that     *)
(* completed since it opened as success_threshold asks for.                *)
(***************************************************************************)
EXTENDS HydraStaleCheck, HydraWins, HydraProxy_proofs

\* g is no quieter than h, and not at all where the state has changed
Stirs(h, g) == /\ g.quiet \subseteq h.quiet
               /\ g.state # h.state => g.quiet = {}

LEMMA StirsChain ==
    ASSUME NEW x, NEW y, NEW z, Stirs(x, y), Stirs(y, z) PROVE Stirs(x, z)
BY DEF Stirs

\* Whatever a request does to a record stirs it.
LEMMA RequestsStir ==
    ASSUME NEW h \in Health
    PROVE  /\ Stirs(h, h) /\ Stirs(h, BreakerState(h)) /\ Stirs(h, Looked(h))
           /\ Stirs(h, TakeUnit(h)) /\ Stirs(h, RecordFailure(h))
           /\ Stirs(h, RecordSuccess(h))
           /\ \A trial \in BOOLEAN : Stirs(h, DropUnit(h, trial))
           /\ \A kind \in {"loading", "auth", "mismatch"} :
                 Stirs(h, RequestState(h, kind))
<1> DEFINE g == BreakerState(h)
           won == [g EXCEPT !.half_open_ok = Upto(@, SuccessThreshold)]
<1>1. g \in Health /\ g.state = h.state /\ g.quiet = h.quiet
  BY BreakerStateType DEF BreakerState, Health
<1>2. Stirs(h, h) /\ Stirs(h, g) /\ Stirs(h, Looked(h))
  BY <1>1 DEF Stirs, Looked
<1>3. /\ TakeUnit(h) \in {g, [g EXCEPT !.trial_inflight = @ + 1]}
      /\ RecordFailure(h) \in {Open(g), [g EXCEPT !.fails = @ + 1]}
      /\ RecordSuccess(h) \in
            {[g EXCEPT !.fails = 0], won,
             [won EXCEPT !.breaker = "CLOSED", !.fails = 0]}
  BY DEF TakeUnit, RecordFailure, RecordSuccess
<1> HIDE DEF g
<1>4. Stirs(h, TakeUnit(h))
  BY <1>1, <1>3 DEF Stirs, Health
<1>5. Stirs(h, RecordFailure(h))
  BY <1>1, <1>3 DEF Stirs, Health, Open
<1>6. Stirs(h, RecordSuccess(h))
  BY <1>1, <1>3 DEF Stirs, Health
<1>7. \A trial \in BOOLEAN : Stirs(h, DropUnit(h, trial))
  BY DEF DropUnit, Stirs, Health
<1>8. \A kind \in {"loading", "auth", "mismatch"} : Stirs(h, RequestState(h, kind))
  BY DEF RequestState, Set, Stirs, Health
<1> QED BY <1>2, <1>4, <1>5, <1>6, <1>7, <1>8 DEF g

\* Giving r's unit back, and what is recorded before or after.
LEMMA AfterStirs ==
    ASSUME IInv, NEW r \in Requests, NEW d \in Deployments
    PROVE  /\ Stirs(health[d], Released(health, r)[d])
           /\ Stirs(health[d], OnHeld(health, r, RecordFailure)[d])
           /\ Stirs(health[d], OnHeld(Released(health, r), r, RecordSuccess)[d])
           /\ Stirs(health[d], Released(OnHeld(health, r, RecordSuccess), r)[d])
           /\ \A kind \in FailureKinds : Stirs(health[d], HealthAfter(r, kind)[d])
<1>1. /\ health \in HealthMap /\ ProxyTypeOK /\ TrialHeld /\ req[r].trial \in BOOLEAN
  BY DEF IInv, ProxyTypeOK, FleetTypeOK, HealthMap, Request
<1>2. ASSUME NEW h \in HealthMap
      PROVE  /\ Stirs(h[d], Released(h, r)[d])
             /\ Stirs(h[d], OnHeld(h, r, RecordFailure)[d])
             /\ Stirs(h[d], OnHeld(h, r, RecordSuccess)[d])
             /\ \A kind \in FailureKinds :
                   LET Rec(x) == Record(r, kind, x)
                   IN  Stirs(h[d], OnHeld(h, r, Rec)[d])
  <2>1. h[d] \in Health
    BY DEF HealthMap
  <2>2. /\ Released(h, r)[d] \in {h[d], DropUnit(h[d], req[r].trial)}
        /\ OnHeld(h, r, RecordFailure)[d] \in {h[d], RecordFailure(h[d])}
        /\ OnHeld(h, r, RecordSuccess)[d] \in {h[d], RecordSuccess(h[d])}
    BY DEF Released, OnHeld, Rewrite
  <2>3. ASSUME NEW kind \in FailureKinds
        PROVE  LET Rec(x) == Record(r, kind, x)
               IN  Stirs(h[d], OnHeld(h, r, Rec)[d])
    <3> DEFINE Rec(x) == Record(r, kind, x)
    <3>1. OnHeld(h, r, Rec)[d] = h[d] \/ OnHeld(h, r, Rec)[d] = Record(r, kind, h[d])
      BY DEF OnHeld, Rewrite
    <3>2. \/ Record(r, kind, h[d]) = h[d]
          \/ Record(r, kind, h[d]) = RecordFailure(h[d])
          \/ /\ kind \in {"loading", "auth", "mismatch"}
             /\ Record(r, kind, h[d]) = RequestState(h[d], kind)
      BY DEF Record, FailureKinds
    <3> QED BY <2>1, <3>1, <3>2, RequestsStir
  <2> QED BY <1>1, <2>1, <2>2, <2>3, RequestsStir
<1>3. Released(health, r) \in HealthMap /\ OnHeld(health, r, RecordSuccess) \in HealthMap
  BY <1>1, ReleasedOthers, OnHeldOthers
<1>4. \A kind \in FailureKinds : Stirs(health[d], HealthAfter(r, kind)[d])
  BY <1>1, <1>2, <1>3, StirsChain DEF HealthAfter
<1> QED BY <1>1, <1>2, <1>3, <1>4, StirsChain

\* A step of a request stirs every record, and the prober stays where it is.
LEMMA ServeStirs ==
    ASSUME IInv, NEW r \in Requests, Serve(r)
    PROVE  /\ probing' = probing /\ checkDeps' = checkDeps
           /\ \A d \in Deployments : Stirs(health[d], health'[d])
<1>1. health \in HealthMap /\ ProxyTypeOK /\ TrialHeld
  BY DEF IInv, ProxyTypeOK, FleetTypeOK, HealthMap
<1>2. probing' = probing /\ checkDeps' = checkDeps
  BY ServeLeaves DEF probeVars
<1> SUFFICES ASSUME NEW d \in Deployments PROVE Stirs(health[d], health'[d])
  BY <1>2
<1>3. health[d] \in Health
  BY <1>1 DEF HealthMap
<1>4. ASSUME NEW t, NEW h \in HealthMap, NEW l, NEW m, NEW state,
             Admit(r, t, h, l, m, state), Stirs(health[d], h[d])
      PROVE  Stirs(health[d], health'[d])
  <2>1. h[d] \in Health /\ (health'[d] = h[d] \/ health'[d] = TakeUnit(h[d]))
    BY <1>4 DEF Admit, Rewrite, HealthMap
  <2> QED BY <1>4, <2>1, RequestsStir, StirsChain
<1>5. CASE Begin(r)
  <2>1. PICK c \in Configs : \E p \in Plans(c), strict, retry \in BOOLEAN :
              \E k \in DOMAIN p, fam \in c.families :
                  Arrive(r, c, p, k, fam, strict, retry)
    BY <1>5 DEF Begin
  <2>2. PICK p \in Plans(c), strict \in BOOLEAN, retry \in BOOLEAN :
              \E k \in DOMAIN p, fam \in c.families :
                  Arrive(r, c, p, k, fam, strict, retry)
    BY <2>1
  <2>3. PICK k \in DOMAIN p, fam \in c.families :
      Arrive(r, c, p, k, fam, strict, retry)
    BY <2>2
  <2> DEFINE D == {p[i].d : i \in DOMAIN p}
             h == Seen(D)
  <2>4. \E l, m, state : Admit(r, p[k], h, l, m, state)
    BY <2>3 DEF Arrive
  <2>5. h[d] = Looked(health[d]) \/ h[d] = health[d]
    <3> HIDE DEF D
    <3> QED BY DEF Seen, Rewrite
  <2>6. h \in HealthMap
    BY PlanTaken
  <2> HIDE DEF h
  <2> QED BY <1>3, <1>4, <2>4, <2>5, <2>6, RequestsStir
<1>6. ASSUME NEW kind \in FailureKinds, NEW k \in 1 .. MaxAttempts,
             FailOver(r, kind, k)
      PROVE  Stirs(health[d], health'[d])
  <2>1. \E t, l, m, state : Admit(r, t, HealthAfter(r, kind), l, m, state)
    BY <1>6 DEF FailOver
  <2>2. HealthAfter(r, kind) \in HealthMap /\ Stirs(health[d], HealthAfter(r, kind)[d])
    BY <1>1, HealthAfterOthers, AfterStirs
  <2> QED BY <1>4, <2>1, <2>2
<1>7. ASSUME NEW kind \in FailureKinds, GiveUp(r, kind)
      PROVE  Stirs(health[d], health'[d])
  BY <1>7, AfterStirs DEF GiveUp, Finish
<1>8. CASE EndUnjudged(r) \/ CloseOut(r)
  BY <1>8, AfterStirs DEF EndUnjudged, CloseOut, Finish
<1>9. CASE CommitBuffered(r) \/ RelayCompletes(r)
  BY <1>9, AfterStirs DEF CommitBuffered, RelayCompletes, Finish
<1>10. CASE CommitStream(r) \/ RelayFails(r)
  BY <1>3, <1>10, AfterStirs, RequestsStir DEF CommitStream, RelayFails, fleetVars
<1> QED BY <1>5, <1>6, <1>7, <1>8, <1>9, <1>10 DEF Serve, Proceed, Complete

-----------------------------------------------------------------------------
\* While a check is out to n, no other step makes a record quiet for it; and its
\* answer takes no refusal from a record that is not quiet.
LEMMA CheckOut ==
    ASSUME IInv, Operate \/ Elapse \/ Probe, NEW n \in Nodes, NEW d \in Deployments,
           probing[n] = "models", n \notin health[d].quiet
    PROVE  /\ n \notin health'[d].quiet
           /\ probing'[n] = "no" /\ health[d].state \in Refused
              => health'[d].state \in Refused
<1>1. /\ health \in HealthMap /\ health[d] \in Health
      /\ probing \in [Nodes -> {"no", "health", "models"}]
  BY DEF IInv, ProxyTypeOK, FleetTypeOK, HealthMap
<1>2. ASSUME Stirs(health[d], health'[d]), probing' = probing
      PROVE  /\ n \notin health'[d].quiet /\ probing'[n] # "no"
  BY <1>2 DEF Stirs
<1>3. CASE Operate
  <2>1. probing' = probing
    BY <1>3 DEF Operate, Reload, ReloadFleet, Drain, Undrain, Status, Weigh, probeVars
  <2>2. ASSUME NEW c \in Configs, Reload(c)
        PROVE  n \notin health'[d].quiet
    <3>1. health'[d] = health[d] \/ health'[d] = Fresh
      BY <2>2 DEF Reload, ReloadFleet, Kept
    <3> QED BY <3>1 DEF Fresh
  <2>3. ASSUME \/ \E x \in Nodes : Drain(x) \/ Undrain(x)
               \/ Status
               \/ \E D \in SUBSET Deployments : Weigh(D)
        PROVE  n \notin health'[d].quiet
    <3>1. health'[d] \in {health[d], BreakerState(health[d]), Looked(health[d])}
      BY <1>1, <2>3 DEF Drain, Undrain, Status, Weigh, Seen, Rewrite
    <3> QED BY <1>1, <1>2, <2>1, <3>1, RequestsStir
  <2> QED BY <1>3, <2>1, <2>2, <2>3 DEF Operate
<1>4. CASE Elapse
  <2>1. probing' = probing
    BY <1>4 DEF Elapse, OpenElapses, probeVars
  <2>2. health'[d] = health[d] \/ health'[d] = [health[d] EXCEPT !.elapsed = TRUE]
    BY <1>1, <1>4 DEF Elapse, OpenElapses, HealthMap
  <2> QED BY <1>1, <2>1, <2>2 DEF Health
<1>5. ASSUME NEW x \in Nodes, NEW result \in {"ready", "loading", "down"},
             NEW b \in BOOLEAN, ProbeAnswer(x, result, b)
      PROVE  n \notin health'[d].quiet /\ probing'[n] # "no"
  <2>1. x # n /\ probing'[n] = probing[n]
    BY <1>1, <1>5 DEF ProbeAnswer
  <2> DEFINE p == IF d \in DepsOf(x) THEN OnProbe(health[d], result) ELSE health[d]
  <2>2. p \in Health /\ p.quiet \subseteq health[d].quiet
    <3>1. OnProbe(health[d], result).quiet \subseteq health[d].quiet
      BY <1>1 DEF OnProbe, ProbeReady, ProbeLoading, ProbeDown, Set, Health
    <3> QED BY <1>1, <3>1, OnProbeType
  <2>3. health'[d] = p \/ health'[d] = MarkSent(p, x)
    BY <1>5 DEF ProbeAnswer, Rewrite
  <2> HIDE DEF p
  <2>4. MarkSent(p, x).quiet = p.quiet \cup {x}
    BY <2>2 DEF MarkSent, Health
  <2> QED BY <2>1, <2>2, <2>3, <2>4
<1>6. ASSUME NEW x \in Nodes, NEW kind \in {"auth", "list", "error"},
             NEW missing \in SUBSET Deployments, ModelsAnswer(x, kind, missing)
      PROVE  /\ n \notin health'[d].quiet
             /\ probing'[n] = "no" /\ health[d].state \in Refused
                => health'[d].state \in Refused
  <2>1. probing' = [probing EXCEPT ![x] = "no"]
    BY <1>6 DEF ModelsAnswer
  <2>2. PICK p : /\ \/ p = health[d]
                    \/ \E v \in {"auth", "mismatch", "ok"} :
                          p = OnModels(health[d], x, v)
                 /\ health'[d] = MarkAnswered(p, x)
    BY <1>6 DEF ModelsAnswer
  <2>3. \A v \in {"auth", "mismatch", "ok"} :
           LET g == OnModels(health[d], x, v)
           IN  /\ g \in Health /\ g.quiet \subseteq health[d].quiet
               /\ x = n /\ health[d].state \in Refused => g.state \in Refused
    <3>1. \A v \in {"auth", "mismatch", "ok"} : OnModels(health[d], x, v) \in Health
      BY <1>1, OnModelsType
    <3>2. \A v \in {"auth", "mismatch", "ok"} :
             OnModels(health[d], x, v).quiet \subseteq health[d].quiet
      BY <1>1 DEF OnModels, Set, Health
    <3>3. ASSUME x = n, health[d].state \in Refused
          PROVE  /\ OnModels(health[d], x, "ok") = health[d]
                 /\ OnModels(health[d], x, "auth").state = "AUTH_FAILED"
                 /\ OnModels(health[d], x, "mismatch").state = "MISMATCH"
      BY <1>1, <3>3 DEF OnModels, Set, Health
    <3> QED BY <3>1, <3>2, <3>3 DEF Refused
  <2>4. /\ p \in Health /\ p.quiet \subseteq health[d].quiet
        /\ x = n /\ health[d].state \in Refused => p.state \in Refused
    BY <1>1, <2>2, <2>3
  <2>5. health'[d].state = p.state /\ health'[d].quiet \subseteq p.quiet
    BY <2>2, <2>4 DEF MarkAnswered, Health
  <2>6. x # n => probing'[n] = "models"
    BY <1>1, <2>1
  <2> QED BY <2>4, <2>5, <2>6
<1>7. ASSUME \/ \E due \in SUBSET Nodes : TickStart(due)
             \/ \E held \in BOOLEAN : LeaseAnswer(held)
      PROVE  health' = health
  BY <1>7 DEF TickStart, LeaseAnswer
<1>8. CASE Probe
  BY <1>5, <1>6, <1>7, <1>8 DEF Probe
<1> QED BY <1>3, <1>4, <1>8

\* What a request refused since the check was sent is not quiet for the check
HistInv ==
    /\ refusedSince \in [Nodes -> SUBSET Deployments]
    /\ \A n \in Nodes : \A d \in refusedSince[n] :
          probing[n] = "models" /\ n \notin health[d].quiet

\* A refusal that a request observes while a check is out is news: the
\* deployment was not known to refuse so
News ==
    \A r \in Requests, n \in Nodes :
        /\ ObservesRefusal(r) /\ req[r].live
        /\ probing[n] = "models" /\ req[r].d \in checkDeps[n]
        => health'[req[r].d].state # health[req[r].d].state

LEMMA ObservesServes ==
    ASSUME NEW r \in Requests, ObservesRefusal(r) PROVE Serve(r)
<1>1. "auth" \in FailureKinds /\ "mismatch" \in FailureKinds
  BY DEF FailureKinds
<1> QED BY <1>1 DEF ObservesRefusal, Serve, Proceed

\* A step of HydraStaleCheck is a step of HydraProxy.
LEMMA HistSteps == [HistNext]_histVars => [Next]_vars
BY ObservesServes DEF HistNext, histVars, Next

LEMMA HistInductive == HistSpec => []IInv
<1>1. HistInit => IInv
  BY InitIInv DEF HistInit
<1>2. IInv /\ [HistNext]_histVars => IInv'
  BY HistSteps, NextKeeps
<1> QED BY <1>1, <1>2, PTL DEF HistSpec

LEMMA HistStep ==
    ASSUME IInv, HistInv, [HistNext]_histVars, [News]_histVars
    PROVE  /\ HistInv'
           /\ \A n \in Nodes : \A d \in refusedSince[n] :
                 /\ probing[n] = "models" /\ probing'[n] = "no"
                 /\ health[d].state \in Refused
                 => health'[d].state \in Refused
<1>1. checkDeps \in [Nodes -> SUBSET Deployments]
  BY DEF IInv, ProxyTypeOK, FleetTypeOK
<1>2. ASSUME NEW r \in Requests, ObservesRefusal(r), News,
             refusedSince' = [n \in Nodes |->
                IF probing[n] = "models" /\ req[r].live
                THEN refusedSince[n] \cup ({req[r].d} \cap checkDeps[n])
                ELSE refusedSince[n]]
      PROVE  HistInv' /\ \A n \in Nodes : probing'[n] = probing[n]
  <2>1. /\ probing' = probing
        /\ \A d \in Deployments : Stirs(health[d], health'[d])
    BY <1>2, ObservesServes, ServeStirs
  <2>2. refusedSince' \in [Nodes -> SUBSET Deployments]
    BY <1>1, <1>2 DEF HistInv
  <2>3. ASSUME NEW n \in Nodes, NEW d \in refusedSince'[n]
        PROVE  probing'[n] = "models" /\ n \notin health'[d].quiet
    <3>1. d \in Deployments
      BY <2>2
    <3>2. CASE d \in refusedSince[n]
      BY <2>1, <3>1, <3>2 DEF HistInv, Stirs
    <3>3. CASE d \notin refusedSince[n]
      <4>1. /\ probing[n] = "models" /\ req[r].live
            /\ d = req[r].d /\ d \in checkDeps[n]
        BY <1>2, <3>3
      <4>2. health'[d].state # health[d].state
        BY <1>2, <4>1 DEF News
      <4> QED BY <2>1, <3>1, <4>1, <4>2 DEF Stirs
    <3> QED BY <3>2, <3>3
  <2> QED BY <2>1, <2>2, <2>3 DEF HistInv
<1>3. ASSUME Next,
             refusedSince' = [n \in Nodes |->
                IF probing'[n] = "models" THEN refusedSince[n] ELSE {}],
             NEW n \in Nodes, NEW d \in refusedSince[n]
      PROVE  /\ n \notin health'[d].quiet
             /\ probing'[n] = "no" /\ health[d].state \in Refused
                => health'[d].state \in Refused
  <2>1. d \in Deployments /\ probing[n] = "models" /\ n \notin health[d].quiet
    BY DEF HistInv
  <2>2. CASE Operate \/ Elapse \/ Probe
    BY <2>1, <2>2, CheckOut
  <2>3. ASSUME NEW r \in Requests, Serve(r)
        PROVE  n \notin health'[d].quiet /\ probing'[n] # "no"
    BY <2>1, <2>3, ServeStirs DEF Stirs
  <2> QED BY <1>3, <2>2, <2>3 DEF Next
<1>4. CASE HistNext /\ News
  <2>1. CASE \E r \in Requests :
                /\ ObservesRefusal(r)
                /\ refusedSince' = [n \in Nodes |->
                      IF probing[n] = "models" /\ req[r].live
                      THEN refusedSince[n] \cup ({req[r].d} \cap checkDeps[n])
                      ELSE refusedSince[n]]
    <3>1. HistInv' /\ \A n \in Nodes : probing'[n] = probing[n]
      BY <1>2, <1>4, <2>1
    <3> QED BY <3>1
  <2>2. CASE /\ Next
             /\ refusedSince' = [n \in Nodes |->
                   IF probing'[n] = "models" THEN refusedSince[n] ELSE {}]
    <3>1. HistInv'
      BY <1>3, <2>2 DEF HistInv
    <3> QED BY <1>3, <2>2, <3>1
  <2> QED BY <1>4, <2>1, <2>2 DEF HistNext
<1>5. CASE UNCHANGED histVars
  BY <1>5 DEF histVars, vars, fleetVars, probeVars, HistInv
<1> QED BY <1>4, <1>5

\* What a request observes while a check is out was not known before
OnlyNews == [][News]_histVars

\* An ok of a models check clears no refusal that a request observed since the
\* check was sent, if that changed the deployment's state: last_change, which
\* on_models compares the check with, is what the code has of when (_set). Where
\* the refusal was known already, stale_check shows the ok that clears it.
THEOREM OkSparesNews == HistSpec /\ OnlyNews => StaleOkNeverClears
<1> DEFINE Act == \A n \in Nodes : \A d \in refusedSince[n] \cap cfg.deps :
              (/\ probing[n] = "models" /\ probing'[n] = "no"
               /\ health[d].state \in Refused)
              => health'[d].state \in Refused
<1>1. HistInit => HistInv
  BY DEF HistInit, HistInv
<1>2. IInv /\ HistInv /\ [HistNext]_histVars /\ [News]_histVars => HistInv' /\ [Act]_histVars
  BY HistStep
<1> QED BY <1>1, <1>2, HistInductive, PTL DEF HistSpec, OnlyNews, StaleOkNeverClears

-----------------------------------------------------------------------------
(***************************************************************************)
(* The successes a HALF_OPEN breaker has counted are requests that         *)
(* completed since it last opened.                                         *)
(***************************************************************************)
WinsInv ==
    /\ wins \in [Deployments -> Nat]
    /\ \A d \in Deployments :
          /\ health[d].breaker = "OPEN" => wins[d] = 0
          /\ health[d].breaker = "HALF_OPEN" => health[d].half_open_ok <= wins[d]

\* A step of HydraWins is a step of HydraProxy.
LEMMA WinsSteps == [WinsNext]_winsVars => [Next]_vars
BY DEF WinsNext, winsVars, Next, Serve

LEMMA WinsInductive == WinsSpec => []IInv
<1>1. WinsInit => IInv
  BY InitIInv DEF WinsInit
<1>2. IInv /\ [WinsNext]_winsVars => IInv'
  BY WinsSteps, NextKeeps
<1> QED BY <1>1, <1>2, PTL DEF WinsSpec

\* One step of the history at one deployment, by what the step does there.
LEMMA CountStep ==
    ASSUME WinsInv, NEW d \in Deployments, health[d] \in Health,
           health'[d] \in Health, NEW D, Count(D),
           \/ d \in D /\ Wins(health[d], health'[d])
           \/ /\ health'[d].breaker = "HALF_OPEN" =>
                    \/ health'[d].half_open_ok = 0
                    \/ /\ health[d].breaker = "HALF_OPEN"
                       /\ health'[d].half_open_ok = health[d].half_open_ok
              /\ d \in cfg.deps \cap cfg'.deps /\ health'[d].breaker = "CLOSED"
                    => health[d].breaker = "CLOSED"
    PROVE  /\ wins'[d] \in Nat
           /\ health'[d].breaker = "OPEN" => wins'[d] = 0
           /\ health'[d].breaker = "HALF_OPEN" => health'[d].half_open_ok <= wins'[d]
           /\ /\ d \in cfg.deps \cap cfg'.deps
              /\ health[d].breaker # "CLOSED" /\ health'[d].breaker = "CLOSED"
              => wins'[d] > wins[d] /\ wins'[d] >= SuccessThreshold
<1>1. /\ wins[d] \in Nat /\ SuccessThreshold \in Nat
      /\ health[d].half_open_ok \in Nat /\ health'[d].half_open_ok \in Nat
      /\ health[d].breaker \in BreakerStates
  BY ThresholdAssumption DEF WinsInv, Health
<1>2. wins'[d] = IF health[d].breaker = "CLOSED" \/ health'[d].breaker = "OPEN" THEN 0
                 ELSE wins[d] + (IF d \in D THEN 1 ELSE 0)
  BY DEF Count
<1>3. /\ health[d].breaker = "OPEN" => wins[d] = 0
      /\ health[d].breaker = "HALF_OPEN" => health[d].half_open_ok <= wins[d]
  BY DEF WinsInv
<1>4. Counted(health[d]) \in Nat
      /\ (health[d].breaker # "CLOSED" => Counted(health[d]) <= wins[d])
  BY <1>1, <1>3 DEF Counted, BreakerStates
<1> DEFINE Tallied ==
              /\ wins'[d] \in Nat
              /\ health'[d].breaker = "OPEN" => wins'[d] = 0
              /\ health'[d].breaker = "HALF_OPEN" => health'[d].half_open_ok <= wins'[d]
           Closes == health[d].breaker # "CLOSED" /\ health'[d].breaker = "CLOSED"
           Enough == wins'[d] > wins[d] /\ wins'[d] >= SuccessThreshold
<1>5. ASSUME d \in D, Wins(health[d], health'[d])
      PROVE  Tallied /\ (Closes => Enough)
  BY <1>1, <1>2, <1>4, <1>5 DEF Wins
<1>6. ASSUME health'[d].breaker = "HALF_OPEN" =>
                \/ health'[d].half_open_ok = 0
                \/ /\ health[d].breaker = "HALF_OPEN"
                   /\ health'[d].half_open_ok = health[d].half_open_ok
      PROVE  Tallied
  BY <1>1, <1>2, <1>3, <1>6
<1> HIDE DEF Tallied, Enough
<1>7. \/ Tallied /\ (Closes => Enough)
      \/ Tallied /\ (d \in cfg.deps \cap cfg'.deps => ~Closes)
  BY <1>5, <1>6
<1> QED BY <1>7 DEF Tallied, Enough

\* What each step of HydraProxy does to the breaker of one deployment.
LEMMA WinsAt ==
    ASSUME IInv, IInv', WinsInv, WinsNext, NEW d \in Deployments
    PROVE  /\ wins'[d] \in Nat
           /\ health'[d].breaker = "OPEN" => wins'[d] = 0
           /\ health'[d].breaker = "HALF_OPEN" => health'[d].half_open_ok <= wins'[d]
           /\ /\ d \in cfg.deps \cap cfg'.deps
              /\ health[d].breaker # "CLOSED" /\ health'[d].breaker = "CLOSED"
              => wins'[d] > wins[d] /\ wins'[d] >= SuccessThreshold
<1>1. health[d] \in Health /\ health'[d] \in Health
  BY DEF IInv, ProxyTypeOK, FleetTypeOK
<1> DEFINE Plain ==
        /\ health'[d].breaker = "HALF_OPEN" =>
              \/ health'[d].half_open_ok = 0
              \/ /\ health[d].breaker = "HALF_OPEN"
                 /\ health'[d].half_open_ok = health[d].half_open_ok
        /\ d \in cfg.deps \cap cfg'.deps /\ health'[d].breaker = "CLOSED"
              => health[d].breaker = "CLOSED"
<1>2. Gives(health[d], health'[d]) => Plain
  BY DEF Gives
<1>3. PICK D : Count(D) /\ (Plain \/ (d \in D /\ Wins(health[d], health'[d])))
  <2>1. CASE /\ Operate \/ Probe \/ Elapse \/ \E r \in Requests : Proceed(r)
             /\ Count({})
    <3>1. CASE Operate \/ Probe \/ Elapse
      <4>1. Plain
        BY <3>1, RestGives
      <4> HIDE DEF Plain
      <4> QED BY <2>1, <4>1
    <3>2. ASSUME NEW r \in Requests, Proceed(r) PROVE Plain
      <4> HIDE DEF Plain
      <4> QED BY <1>2, <3>2, ProceedGives
    <3> HIDE DEF Plain
    <3> QED BY <2>1, <3>1, <3>2
  <2>2. ASSUME NEW r \in Requests, Complete(r),
               Count(IF req[r].live THEN {req[r].d} ELSE {})
        PROVE  \E D : Count(D) /\ (Plain \/ (d \in D /\ Wins(health[d], health'[d])))
    <3> HIDE DEF Plain
    <3>1. \/ Plain
          \/ req[r].live /\ req[r].d = d /\ Wins(health[d], health'[d])
      BY <1>2, <2>2, CompleteGives
    <3> QED BY <2>2, <3>1
  <2> HIDE DEF Plain
  <2> QED BY <2>1, <2>2 DEF WinsNext
<1> QED BY <1>1, <1>3, CountStep

\* A breaker closes only as a request completes on its deployment, at least
\* the success_threshold-th since it last opened; whatever is forgotten or
\* counted twice on the way there would show here.
THEOREM OnlyTrafficCloses == WinsSpec => ClosedByTraffic
<1> DEFINE Act == \A d \in cfg.deps \cap cfg'.deps :
              health[d].breaker # "CLOSED" /\ health'[d].breaker = "CLOSED"
              => wins'[d] > wins[d] /\ wins'[d] >= SuccessThreshold
<1>1. WinsInit => WinsInv
  BY DEF WinsInit, WinsInv, Init, FleetInit, Fresh
<1>2. ASSUME IInv, IInv', WinsInv, [WinsNext]_winsVars
      PROVE  WinsInv' /\ [Act]_winsVars
  <2>1. CASE WinsNext
    <3>1. wins' = [d \in Deployments |-> wins'[d]]
      BY <2>1 DEF WinsNext, Count
    <3>2. WinsInv'
      BY <1>2, <2>1, <3>1, WinsAt DEF WinsInv
    <3>3. cfg.deps \subseteq Deployments
      BY <1>2, ConfigAssumption DEF IInv, ProxyTypeOK, FleetTypeOK, ConfigType
    <3>4. Act
      BY <1>2, <2>1, <3>3, WinsAt
    <3> QED BY <3>2, <3>4
  <2>2. CASE UNCHANGED winsVars
    BY <1>2, <2>2 DEF winsVars, vars, fleetVars, WinsInv
  <2> QED BY <1>2, <2>1, <2>2
<1> QED BY <1>1, <1>2, WinsInductive, PTL DEF WinsSpec, ClosedByTraffic
=============================================================================
