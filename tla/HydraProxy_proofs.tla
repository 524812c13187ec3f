------------------------- MODULE HydraProxy_proofs -------------------------
(***************************************************************************)
(* Theorems about beast-hydra, for every fleet, set of configurations,     *)
(* number of requests and thresholds: its types, that the in-flight        *)
(* counters are exact, that a taken trial slot is always held by a request *)
(* that will give it back, that no request is sent where it may not go,    *)
(* that no probe makes a deployment that refused READY, that the requests  *)
(* implement Router, and on what condition one trial is in flight at a     *)
(* time and the lease drains only nodes it will be asked for.              *)
(***************************************************************************)
EXTENDS HydraProxy, HydraHealth_proofs, FiniteSetTheorems

HealthMap == [Deployments -> Health]

\* Each taken slot of h is a trial of a request other than r
OthersHold(h, r) ==
    \A d \in Deployments : h[d].trial_inflight = 1 =>
        \E w \in Requests \ {r} : /\ Holding(w) /\ req[w].d = d
                                  /\ req[w].live /\ req[w].trial

IInv == ProxyTypeOK /\ TrialHeld

\* Changing records so that no slot becomes taken keeps the others' trials.
LEMMA KeepOthers ==
    ASSUME NEW h \in HealthMap, NEW g \in HealthMap, NEW r \in Requests,
           OthersHold(h, r),
           \A d \in Deployments : KeepsTrial(h[d], g[d])
    PROVE  OthersHold(g, r)
BY DEF OthersHold, KeepsTrial, HealthMap

\* After r gave its unit back, also when something was recorded before, every
\* slot still taken is another's.
LEMMA ReleasedAfter ==
    ASSUME ProxyTypeOK, TrialHeld, NEW r \in Requests, NEW h \in HealthMap,
           \A d \in Deployments : KeepsTrial(health[d], h[d])
    PROVE  /\ Released(h, r) \in HealthMap
           /\ OthersHold(Released(h, r), r)
<1> DEFINE g == Released(h, r)
<1>1. h \in HealthMap /\ req[r] \in Request
  BY DEF ProxyTypeOK, FleetTypeOK, HealthMap
<1>2. req[r].trial \in BOOLEAN
  BY <1>1 DEF Request
<1>3. g = [d \in Deployments |->
              IF req[r].live /\ d = req[r].d
              THEN DropUnit(h[d], req[r].trial) ELSE h[d]]
  <2>1. CASE req[r].live
    BY <2>1 DEF Released, OnHeld, Rewrite
  <2>2. CASE ~req[r].live
    BY <2>2, <1>1 DEF Released, OnHeld, HealthMap
  <2> QED BY <2>1, <2>2
<1> HIDE DEF g
<1>4. g \in HealthMap /\ \A d \in Deployments : KeepsTrial(h[d], g[d])
  <2>1. ASSUME NEW d \in Deployments
        PROVE  g[d] \in Health /\ KeepsTrial(h[d], g[d])
    BY <1>1, <1>2, <1>3, DropUnitType DEF HealthMap, KeepsTrial
  <2> QED BY <1>3, <2>1 DEF HealthMap
<1>5. ASSUME NEW d \in Deployments, g[d].trial_inflight = 1
      PROVE  \E w \in Requests \ {r} : /\ Holding(w) /\ req[w].d = d
                                       /\ req[w].live /\ req[w].trial
  <2>1. health[d].trial_inflight = 1
    BY <1>4, <1>5 DEF KeepsTrial
  <2>2. PICK w \in Requests : /\ Holding(w) /\ req[w].d = d
                              /\ req[w].live /\ req[w].trial
    BY <2>1 DEF TrialHeld
  <2>3. CASE w = r
    <3>1. req[r].trial /\ g[d] = DropUnit(h[d], req[r].trial)
      BY <1>2, <1>3, <2>2, <2>3
    <3>2. g[d].trial_inflight = 0
      BY <1>1, <3>1 DEF HealthMap, DropUnit, Less1, Health
    <3> QED BY <1>5, <3>2
  <2> QED BY <2>2, <2>3
<1> QED BY <1>4, <1>5 DEF OthersHold, g

\* The same of the health as it is.
LEMMA ReleasedOthers ==
    ASSUME ProxyTypeOK, TrialHeld, NEW r \in Requests
    PROVE  /\ Released(health, r) \in HealthMap
           /\ OthersHold(Released(health, r), r)
<1>1. health \in HealthMap /\ \A d \in Deployments : KeepsTrial(health[d], health[d])
  BY DEF ProxyTypeOK, FleetTypeOK, HealthMap, KeepsTrial
<1> QED BY <1>1, ReleasedAfter

\* Recording the outcome of r's attempt takes no slot.
LEMMA HealthAfterOthers ==
    ASSUME ProxyTypeOK, TrialHeld, NEW r \in Requests, NEW kind \in FailureKinds
    PROVE  /\ HealthAfter(r, kind) \in HealthMap
           /\ OthersHold(HealthAfter(r, kind), r)
<1> DEFINE h == Released(health, r)
           g == HealthAfter(r, kind)
<1>1. h \in HealthMap /\ OthersHold(h, r)
  BY ReleasedOthers
<1>2. g = [d \in Deployments |->
              IF req[r].live /\ d = req[r].d THEN Record(r, kind, h[d]) ELSE h[d]]
  <2>1. CASE req[r].live
    BY <2>1 DEF HealthAfter, OnHeld, Rewrite
  <2>2. CASE ~req[r].live
    BY <2>2, <1>1 DEF HealthAfter, OnHeld, HealthMap
  <2> QED BY <2>1, <2>2
<1> HIDE DEF h, g
<1>3. ASSUME NEW x \in Health
      PROVE  Record(r, kind, x) \in Health /\ KeepsTrial(x, Record(r, kind, x))
  <2>1. \/ Record(r, kind, x) = x
        \/ Record(r, kind, x) = RecordFailure(x)
        \/ /\ kind \in {"loading", "auth", "mismatch"}
           /\ Record(r, kind, x) = RequestState(x, kind)
    BY DEF Record, FailureKinds
  <2>2. KeepsTrial(x, x)
    BY DEF KeepsTrial
  <2> QED BY <2>1, <2>2, RecordFailureType, RequestStateType
<1>4. ASSUME NEW d \in Deployments
      PROVE  g[d] \in Health /\ KeepsTrial(h[d], g[d])
  <2>1. h[d] \in Health /\ KeepsTrial(h[d], h[d])
    BY <1>1 DEF HealthMap, KeepsTrial
  <2> QED BY <1>2, <1>3, <2>1
<1>5. g \in HealthMap
  BY <1>2, <1>4 DEF HealthMap
<1> QED BY <1>1, <1>4, <1>5, KeepOthers DEF g

\* Recording a success or a failure on what r holds takes no slot.
LEMMA OnHeldOthers ==
    ASSUME ProxyTypeOK, NEW r \in Requests, NEW h \in HealthMap
    PROVE  /\ OnHeld(h, r, RecordSuccess) \in HealthMap
           /\ OnHeld(h, r, RecordFailure) \in HealthMap
           /\ \A d \in Deployments :
                 /\ KeepsTrial(h[d], OnHeld(h, r, RecordSuccess)[d])
                 /\ KeepsTrial(h[d], OnHeld(h, r, RecordFailure)[d])
<1>1. CASE req[r].live
  <2> DEFINE s == OnHeld(h, r, RecordSuccess)
             f == OnHeld(h, r, RecordFailure)
  <2>1. s = [d \in Deployments |->
                IF d \in {req[r].d} THEN RecordSuccess(h[d]) ELSE h[d]]
    BY <1>1 DEF OnHeld, Rewrite
  <2>2. f = [d \in Deployments |->
                IF d \in {req[r].d} THEN RecordFailure(h[d]) ELSE h[d]]
    BY <1>1 DEF OnHeld, Rewrite
  <2> HIDE DEF s, f
  <2>3. ASSUME NEW d \in Deployments
        PROVE  /\ s[d] \in Health /\ KeepsTrial(h[d], s[d])
               /\ f[d] \in Health /\ KeepsTrial(h[d], f[d])
    <3>1. h[d] \in Health /\ KeepsTrial(h[d], h[d])
      BY DEF HealthMap, KeepsTrial
    <3> QED BY <2>1, <2>2, <3>1, RecordSuccessType, RecordFailureType
  <2> QED BY <2>1, <2>2, <2>3 DEF HealthMap, s, f
<1>2. CASE ~req[r].live
  BY <1>2 DEF OnHeld, KeepsTrial
<1> QED BY <1>1, <1>2

-----------------------------------------------------------------------------
(***************************************************************************)
(* The two ways a step of a request ends: it finishes, or it takes a unit  *)
(* of a vetted target.                                                     *)
(***************************************************************************)

LEMMA LoadType ==
    ASSUME ProxyTypeOK, NEW r \in Requests
    PROVE  /\ LoadLess(r) \in [Deployments -> Nat]
           /\ NodeLoadLess(r) \in [Nodes -> Nat]
<1>1. \A x \in Nat : Less1(x) \in Nat
  BY DEF Less1
<1>2. inflight \in [Deployments -> Nat] /\ nodeInflight \in [Nodes -> Nat]
  BY DEF ProxyTypeOK, FleetTypeOK
<1>3. LoadLess(r) \in [Deployments -> Nat]
  BY <1>1, <1>2 DEF LoadLess
<1>4. NodeLoadLess(r) \in [Nodes -> Nat]
  BY <1>1, <1>2 DEF NodeLoadLess
<1> QED BY <1>3, <1>4

LEMMA AttemptType ==
    ASSUME NEW state \in Request, NEW t \in Target,
           NEW trial \in BOOLEAN, NEW live \in BOOLEAN
    PROVE  [state EXCEPT !.phase = "attempt", !.d = t.d, !.n = t.n,
                         !.trial = trial, !.live = live] \in Request
BY DEF Request, Target

LEMMA IdleType == Idle \in Request
BY DEF Idle, Request

\* A request that finishes with the others' slots as they were keeps IInv.
LEMMA FinishKeeps ==
    ASSUME ProxyTypeOK, NEW r \in Requests, NEW h \in HealthMap,
           OthersHold(h, r), Finish(r, h)
    PROVE  IInv'
<1>1. ProxyTypeOK'
  BY LoadType, IdleType
     DEF Finish, ProxyTypeOK, FleetTypeOK, HealthMap, drainVars, probeVars, tickVars
<1>2. \A w \in Requests \ {r} : req'[w] = req[w]
  BY DEF Finish, ProxyTypeOK
<1>3. TrialHeld'
  BY <1>2 DEF Finish, OthersHold, TrialHeld, Holding
<1> QED BY <1>1, <1>3 DEF IInv

\* Taking a unit of a vetted target: the fleet stays typed and r holds the
\* slot if it took one.
LEMMA AdmitKeeps ==
    ASSUME ProxyTypeOK, NEW r \in Requests, NEW t \in Target,
           NEW h \in HealthMap, OthersHold(h, r),
           NEW l \in [Deployments -> Nat], NEW m \in [Nodes -> Nat],
           NEW state \in Request,
           t.d \in cfg.deps => MayAdmit(h[t.d]),
           Admit(r, t, h, l, m, state),
           UNCHANGED <<cfg, drainVars, probeVars, tickVars>>
    PROVE  IInv'
<1> DEFINE known == t.d \in cfg.deps
           trial == known /\ BreakerState(h[t.d]).breaker = "HALF_OPEN"
           q == [state EXCEPT !.phase = "attempt", !.d = t.d, !.n = t.n,
                              !.trial = trial, !.live = known]
<1>1. /\ t.d \in Deployments /\ t.n \in Nodes
      /\ req \in [Requests -> Request]
  BY DEF Target, ProxyTypeOK
<1>2. req' = [req EXCEPT ![r] = q]
  BY DEF Admit
<1>3. q \in Request
  <2>1. trial \in BOOLEAN /\ known \in BOOLEAN
    OBVIOUS
  <2> HIDE DEF trial, known
  <2> QED BY <2>1, AttemptType
<1>4. /\ q.phase = "attempt" /\ q.d = t.d
      /\ q.trial = trial /\ q.live = known
  BY DEF Request
<1>5. health' = [d \in Deployments |->
                    IF known /\ d = t.d THEN TakeUnit(h[d]) ELSE h[d]]
  <2>1. CASE known
    BY <2>1 DEF Admit, Rewrite
  <2>2. CASE ~known
    BY <2>2 DEF Admit, HealthMap
  <2> QED BY <2>1, <2>2
<1>6. ASSUME NEW d \in Deployments
      PROVE  /\ health'[d] \in Health
             /\ KeepsTrial(h[d], health'[d]) \/ (d = t.d /\ trial)
  <2>1. h[d] \in Health /\ KeepsTrial(h[d], h[d])
    BY DEF HealthMap, KeepsTrial
  <2>2. CASE known /\ d = t.d
    <3>1. health'[d] = TakeUnit(h[d]) /\ MayAdmit(h[d])
      BY <1>5, <2>2
    <3> QED BY <2>1, <2>2, <3>1, TakeUnitType
  <2>3. CASE ~(known /\ d = t.d)
    BY <1>5, <2>1, <2>3
  <2> QED BY <2>2, <2>3
<1>7. ProxyTypeOK'
  <2>1. health' \in [Deployments -> Health]
    BY <1>5, <1>6
  <2>2. req' \in [Requests -> Request]
    BY <1>1, <1>2, <1>3
  <2>3. inflight' \in [Deployments -> Nat] /\ nodeInflight' \in [Nodes -> Nat]
    BY <1>1 DEF Admit
  <2> QED BY <2>1, <2>2, <2>3
          DEF ProxyTypeOK, FleetTypeOK, drainVars, probeVars, tickVars
<1>8. TrialHeld'
  <2> SUFFICES ASSUME NEW d \in Deployments, health'[d].trial_inflight = 1
               PROVE  \E w \in Requests : /\ req'[w].phase # "idle" /\ req'[w].d = d
                                          /\ req'[w].live /\ req'[w].trial
    BY DEF TrialHeld, Holding
  <2>1. CASE d = t.d /\ trial
    <3>1. req'[r] = q
      BY <1>1, <1>2
    <3> QED BY <1>4, <2>1, <3>1
  <2>2. CASE KeepsTrial(h[d], health'[d])
    <3>1. h[d].trial_inflight = 1
      BY <2>2 DEF KeepsTrial
    <3>2. PICK w \in Requests \ {r} : /\ Holding(w) /\ req[w].d = d
                                      /\ req[w].live /\ req[w].trial
      BY <3>1 DEF OthersHold
    <3>3. req'[w] = req[w]
      BY <1>1, <1>2
    <3> QED BY <3>2, <3>3 DEF Holding
  <2> QED BY <1>6, <2>1, <2>2
<1> QED BY <1>7, <1>8 DEF IInv

-----------------------------------------------------------------------------
(***************************************************************************)
(* The steps                                                               *)
(***************************************************************************)

\* A step of the fleet that leaves the requests and takes no slot.
LEMMA FleetStepKeeps ==
    ASSUME TrialHeld, req' = req, health' \in HealthMap,
           \A d \in Deployments : KeepsTrial(health[d], health'[d])
    PROVE  TrialHeld'
BY DEF TrialHeld, Holding, KeepsTrial

LEMMA InitIInv ==
    ASSUME Init PROVE IInv
<1>1. health \in [Deployments -> Health]
  BY FreshType DEF Init, FleetInit
<1>2. FleetTypeOK
  BY <1>1 DEF Init, FleetInit, FleetTypeOK
<1>3. req \in [Requests -> Request]
  BY IdleType DEF Init
<1>4. TrialHeld
  BY DEF Init, FleetInit, TrialHeld, Fresh
<1> QED BY <1>2, <1>3, <1>4 DEF IInv, ProxyTypeOK

\* A reload drops a deployment's record together with the claims on it.
LEMMA ReloadKeeps ==
    ASSUME IInv, NEW c \in Configs, Reload(c)
    PROVE  IInv'
<1>1. /\ health \in [Deployments -> Health] /\ req \in [Requests -> Request]
      /\ c.nodes \subseteq Nodes
  BY ConfigAssumption DEF IInv, ProxyTypeOK, FleetTypeOK, ConfigType
<1>2. health' = [d \in Deployments |->
                    IF d \in cfg.deps /\ d \in c.deps THEN health[d] ELSE Fresh]
  BY DEF Reload, ReloadFleet, Kept
<1>3. health' \in [Deployments -> Health]
  BY <1>1, <1>2, FreshType
<1>4. ASSUME NEW r \in Requests
      PROVE  /\ req'[r] \in Request
             /\ req'[r].phase = req[r].phase /\ req'[r].d = req[r].d
             /\ req'[r].trial = req[r].trial
             /\ req[r].live /\ req[r].d \in c.deps => req'[r].live
  <2>1. req'[r] = [req[r] EXCEPT !.live = @ /\ req[r].d \in c.deps]
    BY DEF Reload
  <2> DEFINE live == req[r].live /\ req[r].d \in c.deps
  <2>2. live \in BOOLEAN /\ req'[r] = [req[r] EXCEPT !.live = live]
    BY <2>1
  <2>3. req[r] \in Request
    BY <1>1
  <2>4. ASSUME NEW b \in BOOLEAN
        PROVE  /\ [req[r] EXCEPT !.live = b] \in Request
               /\ [req[r] EXCEPT !.live = b].phase = req[r].phase
               /\ [req[r] EXCEPT !.live = b].d = req[r].d
               /\ [req[r] EXCEPT !.live = b].trial = req[r].trial
               /\ [req[r] EXCEPT !.live = b].live = b
    BY <2>3 DEF Request
  <2>5. /\ [req[r] EXCEPT !.live = live] \in Request
        /\ [req[r] EXCEPT !.live = live].phase = req[r].phase
        /\ [req[r] EXCEPT !.live = live].d = req[r].d
        /\ [req[r] EXCEPT !.live = live].trial = req[r].trial
        /\ [req[r] EXCEPT !.live = live].live = live
    <3>1. live \in BOOLEAN
      BY <2>2
    <3> HIDE DEF live
    <3> QED BY <2>4, <3>1
  <2> QED BY <2>2, <2>5
<1>5. ProxyTypeOK'
  <2>1. req' \in [Requests -> Request]
    BY <1>4 DEF Reload
  <2>2. FleetTypeOK'
    BY <1>1, <1>3
       DEF Reload, ReloadFleet, loadVars, probeVars, tickVars, IInv, ProxyTypeOK,
           FleetTypeOK
  <2> QED BY <2>1, <2>2 DEF ProxyTypeOK
<1>6. TrialHeld'
  <2> SUFFICES ASSUME NEW d \in Deployments, health'[d].trial_inflight = 1
               PROVE  \E w \in Requests : /\ req'[w].phase # "idle" /\ req'[w].d = d
                                          /\ req'[w].live /\ req'[w].trial
    BY DEF TrialHeld, Holding
  <2>1. d \in c.deps /\ health'[d] = health[d]
    BY <1>2 DEF Fresh
  <2>2. PICK w \in Requests : /\ req[w].phase # "idle" /\ req[w].d = d
                              /\ req[w].live /\ req[w].trial
    BY <2>1 DEF IInv, TrialHeld, Holding
  <2> QED BY <1>4, <2>1, <2>2
<1> QED BY <1>5, <1>6 DEF IInv

\* The operator's other handlers and the clock of the breaker.
LEMMA OperateKeeps ==
    ASSUME IInv, req' = req,
           \/ \E n \in Nodes : Drain(n) \/ Undrain(n)
           \/ Status
           \/ \E D \in SUBSET Deployments : Weigh(D)
           \/ \E d \in Deployments : OpenElapses(d)
    PROVE  IInv'
<1> USE DEF IInv, ProxyTypeOK, FleetTypeOK, loadVars, drainVars, probeVars, tickVars
<1>1. ASSUME NEW n \in Nodes, Drain(n) \/ Undrain(n)
      PROVE  IInv'
  <2>1. health' = health
    BY <1>1 DEF Drain, Undrain
  <2>2. TrialHeld'
    BY <2>1, FleetStepKeeps DEF HealthMap, KeepsTrial
  <2> QED BY <1>1, <2>2 DEF Drain, Undrain
<1>2. CASE Status
  <2>1. health' = [d \in Deployments |->
                      IF d \in cfg.deps THEN BreakerState(health[d]) ELSE health[d]]
    BY <1>2 DEF Status, Rewrite
  <2>2. ASSUME NEW d \in Deployments
        PROVE  health'[d] \in Health /\ KeepsTrial(health[d], health'[d])
    BY <2>1, BreakerStateType DEF KeepsTrial
  <2>3. health' \in HealthMap
    BY <2>1, <2>2 DEF HealthMap
  <2>4. TrialHeld'
    BY <2>2, <2>3, FleetStepKeeps
  <2> QED BY <1>2, <2>3, <2>4 DEF Status, HealthMap
<1>3. ASSUME NEW d \in Deployments, OpenElapses(d)
      PROVE  IInv'
  <2>1. health' = [health EXCEPT ![d] = [health[d] EXCEPT !.elapsed = TRUE]]
    BY <1>3 DEF OpenElapses
  <2>2. /\ [health[d] EXCEPT !.elapsed = TRUE] \in Health
        /\ [health[d] EXCEPT !.elapsed = TRUE].trial_inflight
              = health[d].trial_inflight
    BY DEF Health
  <2>3. health' \in HealthMap
    BY <2>1, <2>2 DEF HealthMap
  <2>4. \A x \in Deployments : KeepsTrial(health[x], health'[x])
    BY <2>1, <2>2 DEF KeepsTrial
  <2>5. TrialHeld'
    BY <2>3, <2>4, FleetStepKeeps
  <2> QED BY <1>3, <2>3, <2>5 DEF OpenElapses, HealthMap
<1>4. ASSUME NEW D \in SUBSET Deployments, Weigh(D)
      PROVE  IInv'
  <2>1. health' = [d \in Deployments |->
                      IF d \in D THEN Looked(health[d]) ELSE health[d]]
    BY <1>4 DEF Weigh, Seen, Rewrite
  <2>2. ASSUME NEW d \in Deployments
        PROVE  health'[d] \in Health /\ KeepsTrial(health[d], health'[d])
    BY <2>1, LookedType DEF KeepsTrial
  <2>3. health' \in HealthMap
    BY <2>1, <2>2 DEF HealthMap
  <2>4. TrialHeld'
    BY <2>2, <2>3, FleetStepKeeps
  <2> QED BY <1>4, <2>3, <2>4 DEF Weigh, HealthMap
<1> QED BY <1>1, <1>2, <1>3, <1>4

\* The prober.
LEMMA ProbeKeeps ==
    ASSUME IInv, Probe
    PROVE  IInv'
<1> USE DEF IInv, ProxyTypeOK, FleetTypeOK, loadVars, drainVars, probeVars, tickVars
<1>0. req' = req /\ cfg.deps \subseteq Deployments
  BY ConfigAssumption DEF Probe, ConfigType
<1>1. ASSUME NEW due \in SUBSET Nodes, TickStart(due)
      PROVE  IInv'
  <2>1. health' = health
    BY <1>1 DEF TickStart
  <2>2. TrialHeld'
    BY <1>0, <2>1, FleetStepKeeps DEF HealthMap, KeepsTrial
  <2> QED BY <1>0, <1>1, <2>2 DEF TickStart
<1>2. ASSUME NEW n \in Nodes, NEW result \in {"ready", "loading", "down"},
             NEW b \in BOOLEAN, ProbeAnswer(n, result, b)
      PROVE  IInv'
  <2>1. ASSUME NEW d \in Deployments
        PROVE  /\ health'[d] \in Health
               /\ health'[d].trial_inflight = health[d].trial_inflight
    <3> DEFINE p == IF d \in DepsOf(n) THEN OnProbe(health[d], result) ELSE health[d]
    <3>1. p \in Health /\ p.trial_inflight = health[d].trial_inflight
      BY OnProbeType
    <3>2. health'[d] = p \/ health'[d] = MarkSent(p, n)
      BY <1>2 DEF ProbeAnswer, Rewrite
    <3> HIDE DEF p
    <3> QED BY <3>1, <3>2, QuietType
  <2>2. health' \in HealthMap
    BY <1>2, <2>1 DEF ProbeAnswer, Rewrite, HealthMap
  <2>3. TrialHeld'
    BY <1>0, <2>1, <2>2, FleetStepKeeps DEF KeepsTrial
  <2>4. /\ probing' \in [Nodes -> {"no", "health", "models"}]
        /\ checkDeps' \in [Nodes -> SUBSET Deployments]
    BY <1>0, <1>2 DEF ProbeAnswer, DepsOf
  <2> QED BY <1>0, <1>2, <2>2, <2>3, <2>4 DEF ProbeAnswer, HealthMap
<1>3. ASSUME NEW n \in Nodes, NEW kind \in {"auth", "list", "error"},
             NEW missing \in SUBSET Deployments, ModelsAnswer(n, kind, missing)
      PROVE  IInv'
  <2>1. ASSUME NEW d \in Deployments
        PROVE  /\ health'[d] \in Health
               /\ health'[d].trial_inflight = health[d].trial_inflight
    <3>1. PICK p : /\ \/ p = health[d]
                      \/ \E v \in {"auth", "mismatch", "ok"} :
                            p = OnModels(health[d], n, v)
                   /\ health'[d] = MarkAnswered(p, n)
      BY <1>3 DEF ModelsAnswer
    <3>2. p \in Health /\ p.trial_inflight = health[d].trial_inflight
      BY <3>1, OnModelsType
    <3> QED BY <3>1, <3>2, QuietType
  <2>2. health' \in HealthMap
    BY <1>3, <2>1 DEF ModelsAnswer, HealthMap
  <2>3. TrialHeld'
    BY <1>0, <2>1, <2>2, FleetStepKeeps DEF KeepsTrial
  <2> QED BY <1>0, <1>3, <2>2, <2>3 DEF ModelsAnswer, HealthMap
<1>4. ASSUME NEW held \in BOOLEAN, LeaseAnswer(held)
      PROVE  IInv'
  <2>1. health' = health
    BY <1>4 DEF LeaseAnswer
  <2>2. TrialHeld'
    BY <1>0, <2>1, FleetStepKeeps DEF HealthMap, KeepsTrial
  <2> QED BY <1>0, <1>4, <2>2 DEF LeaseAnswer
<1> QED BY <1>1, <1>2, <1>3, <1>4 DEF Probe

\* A target of a plan and those after it.
LEMMA PlanRest ==
    ASSUME NEW p \in Seq(Target), NEW k \in DOMAIN p
    PROVE  LET s == SubSeq(p, k + 1, Len(p))
           IN  /\ p[k] \in Target /\ s \in Seq(Target)
               /\ \A i \in DOMAIN s : \E j \in DOMAIN p : s[i] = p[j]
<1> DEFINE s == SubSeq(p, k + 1, Len(p))
<1>1. k \in 1 .. Len(p) /\ p[k] \in Target
  OBVIOUS
<1>2. \A i \in k + 1 .. Len(p) : p[i] \in Target
  BY <1>1
<1>3. s \in Seq(Target)
  BY <1>1, <1>2
<1>4. \A i \in DOMAIN s : k + i \in DOMAIN p /\ s[i] = p[k + i]
  BY <1>1
<1> QED BY <1>1, <1>3, <1>4

\* The request a plan starts.
LEMMA PlanBegun ==
    ASSUME NEW p, NEW k \in DOMAIN p, NEW c \in Configs, p \in Plans(c),
           NEW fam \in c.families, NEW queued \in BOOLEAN,
           NEW strict \in BOOLEAN, NEW retry \in BOOLEAN,
           NEW q, q = Begun(p, k, queued, strict, retry, fam)
    PROVE  /\ p \in Seq(Target) /\ p[k] \in Target
           /\ q \in Request /\ q.strict = strict
           /\ q.family = IF strict THEN {} ELSE fam
           /\ \A i \in DOMAIN q.rest : \E j \in DOMAIN p : q.rest[i] = p[j]
<1>1. PICK m \in 1 .. MaxAttempts : p \in [1 .. m -> Target]
  BY DEF Plans
<1>2. p \in Seq(Target)
  BY <1>1, RequestAssumption
<1> DEFINE s == SubSeq(p, k + 1, Len(p))
<1>3. /\ p[k] \in Target /\ s \in Seq(Target)
      /\ \A i \in DOMAIN s : \E j \in DOMAIN p : s[i] = p[j]
  BY <1>2, PlanRest
<1>4. fam \subseteq Deployments
  BY ConfigAssumption DEF ConfigType
<1>5. q = [Idle EXCEPT !.rest = s, !.queued = queued, !.strict = strict,
              !.retry = retry, !.family = IF strict THEN {} ELSE fam]
  BY DEF Begun
<1> HIDE DEF s
<1>6. /\ q \in Request /\ q.strict = strict /\ q.rest = s
      /\ q.family = IF strict THEN {} ELSE fam
  BY <1>3, <1>4, <1>5 DEF Idle, Request
<1> QED BY <1>2, <1>3, <1>6

\* The health a plan was made from, and the request it starts.
LEMMA PlanTaken ==
    ASSUME IInv, NEW c \in Configs, NEW p \in Plans(c), NEW k \in DOMAIN p,
           NEW fam \in c.families, NEW queued \in BOOLEAN,
           NEW strict \in BOOLEAN, NEW retry \in BOOLEAN
    PROVE  /\ p[k] \in Target
           /\ LET h == Seen({p[i].d : i \in DOMAIN p})
              IN  /\ h \in HealthMap
                  /\ \A d \in Deployments : KeepsTrial(health[d], h[d])
           /\ Begun(p, k, queued, strict, retry, fam) \in Request
<1> DEFINE D == {p[i].d : i \in DOMAIN p}
           h == Seen(D)
<1>1. h = [d \in Deployments |-> IF d \in D THEN Looked(health[d]) ELSE health[d]]
  BY DEF Seen, Rewrite
<1> HIDE DEF D
<1>2. ASSUME NEW d \in Deployments
      PROVE  h[d] \in Health /\ KeepsTrial(health[d], h[d])
  <2>1. health[d] \in Health
    BY DEF IInv, ProxyTypeOK, FleetTypeOK
  <2> QED BY <1>1, <2>1, LookedType DEF KeepsTrial
<1>3. h \in HealthMap
  BY <1>1, <1>2 DEF HealthMap
<1>4. p[k] \in Target /\ Begun(p, k, queued, strict, retry, fam) \in Request
  BY PlanBegun
<1> QED BY <1>2, <1>3, <1>4 DEF D

\* Of the fleet a request changes nothing but health and load.
LEMMA ServeLeaves ==
    ASSUME NEW r \in Requests, Serve(r)
    PROVE  UNCHANGED <<cfg, drainVars, probeVars, tickVars>>
<1>1. CASE Begin(r)
  <2>1. \E c, p, k, fam, strict, retry : Arrive(r, c, p, k, fam, strict, retry)
    BY <1>1 DEF Begin
  <2> QED BY <2>1 DEF Arrive
<1>2. CASE ~Begin(r)
  BY <1>2 DEF Serve, Proceed, Complete, GiveUp, FailOver, EndUnjudged, CommitBuffered,
     CommitStream, RelayCompletes, RelayFails, CloseOut, Finish, fleetVars
<1> QED BY <1>1, <1>2

\* The requests.
LEMMA ServeKeeps ==
    ASSUME IInv, NEW r \in Requests, Serve(r)
    PROVE  IInv'
<1>1. /\ health \in HealthMap /\ req[r] \in Request
      /\ inflight \in [Deployments -> Nat] /\ nodeInflight \in [Nodes -> Nat]
      /\ ProxyTypeOK /\ TrialHeld /\ cfg.deps \subseteq Deployments
  BY ConfigAssumption DEF IInv, ProxyTypeOK, FleetTypeOK, HealthMap, ConfigType
<1>2. ASSUME NEW c \in Configs, NEW p \in Plans(c), NEW k \in DOMAIN p,
             NEW fam \in c.families, NEW strict \in BOOLEAN, NEW retry \in BOOLEAN,
             Arrive(r, c, p, k, fam, strict, retry)
      PROVE  IInv'
  <2> DEFINE h == Seen({p[i].d : i \in DOMAIN p})
             queued == Len(p) = 1 /\ nodeInflight[p[1].n] >= Slots[p[1].n]
             state == Begun(p, k, queued, strict, retry, fam)
  <2>1. /\ Admit(r, p[k], h, inflight, nodeInflight, state)
        /\ NextTarget(p, strict, h, k)
        /\ UNCHANGED <<cfg, drainVars, probeVars, tickVars>>
    BY <1>2 DEF Arrive
  <2>2. queued \in BOOLEAN
    OBVIOUS
  <2> HIDE DEF queued
  <2>3. /\ p[k] \in Target /\ state \in Request /\ h \in HealthMap
        /\ \A d \in Deployments : KeepsTrial(health[d], h[d])
    BY <2>2, PlanTaken
  <2> HIDE DEF h, state
  <2>4. OthersHold(health, r)
    BY <1>1, <1>2 DEF OthersHold, TrialHeld, Holding, Arrive
  <2>5. OthersHold(h, r)
    BY <1>1, <2>3, <2>4, KeepOthers
  <2>6. p[k].d \in cfg.deps => MayAdmit(h[p[k].d])
    BY <2>1 DEF NextTarget, Vetted
  <2> QED BY <1>1, <2>1, <2>3, <2>5, <2>6, AdmitKeeps
<1>3. ASSUME NEW kind \in FailureKinds, GiveUp(r, kind)
      PROVE  IInv'
  BY <1>1, <1>3, HealthAfterOthers, FinishKeeps DEF GiveUp
<1>4. ASSUME NEW kind \in FailureKinds, NEW k \in 1 .. MaxAttempts,
             FailOver(r, kind, k)
      PROVE  IInv'
  <2> DEFINE h == HealthAfter(r, kind)
             rest == req[r].rest
             t == rest[k]
             state == [req[r] EXCEPT !.rest = SubSeq(rest, k + 1, Len(rest)),
                                     !.queued = FALSE]
  <2>1. h \in HealthMap /\ OthersHold(h, r)
    BY <1>1, HealthAfterOthers
  <2>2. NextTarget(rest, req[r].strict, h, k)
    BY <1>4 DEF FailOver
  <2>3. rest \in Seq(Target) /\ k \in DOMAIN rest
    BY <1>1, <2>2 DEF NextTarget, Request
  <2>4. t \in Target /\ SubSeq(rest, k + 1, Len(rest)) \in Seq(Target)
    BY <2>3, PlanRest
  <2>5. state \in Request
    BY <1>1, <2>4 DEF Request
  <2>6. t.d \in cfg.deps => MayAdmit(h[t.d])
    BY <2>2 DEF NextTarget, Vetted
  <2>7. Admit(r, t, h, LoadLess(r), NodeLoadLess(r), state)
    BY <1>4 DEF FailOver
  <2>8. UNCHANGED <<cfg, drainVars, probeVars, tickVars>>
    BY <1>4 DEF FailOver
  <2> HIDE DEF h, t, state
  <2> QED BY <1>1, <2>1, <2>4, <2>5, <2>6, <2>7, <2>8, LoadType, AdmitKeeps
<1>5. CASE EndUnjudged(r)
  BY <1>1, <1>5, ReleasedOthers, FinishKeeps DEF EndUnjudged
<1>6. CASE CommitBuffered(r)
  <2> DEFINE h == OnHeld(Released(health, r), r, RecordSuccess)
  <2>1. h \in HealthMap /\ OthersHold(h, r)
    BY <1>1, ReleasedOthers, OnHeldOthers, KeepOthers
  <2> QED BY <1>1, <1>6, <2>1, FinishKeeps DEF CommitBuffered
<1>7. CASE CommitStream(r)
  <2> DEFINE q == [req[r] EXCEPT !.phase = "relay", !.rest = <<>>,
                       !.queued = FALSE, !.strict = FALSE, !.retry = FALSE,
                       !.family = {}]
  <2>1. q \in Request /\ q.d = req[r].d /\ q.live = req[r].live
        /\ q.trial = req[r].trial /\ q.phase # "idle"
    <3>1. <<>> \in Seq(Target)
      OBVIOUS
    <3>2. ASSUME NEW e \in Seq(Target)
          PROVE  LET x == [req[r] EXCEPT !.phase = "relay", !.rest = e,
                              !.queued = FALSE, !.strict = FALSE, !.retry = FALSE,
                              !.family = {}]
                 IN  /\ x \in Request /\ x.d = req[r].d /\ x.live = req[r].live
                     /\ x.trial = req[r].trial /\ x.phase # "idle"
      BY <1>1 DEF Request
    <3> QED BY <3>1, <3>2
  <2>2. req' = [req EXCEPT ![r] = q]
    BY <1>7 DEF CommitStream
  <2>3. UNCHANGED fleetVars
    BY <1>7 DEF CommitStream
  <2> HIDE DEF q
  <2>4. ProxyTypeOK'
    BY <1>1, <2>1, <2>2, <2>3
       DEF ProxyTypeOK, FleetTypeOK, fleetVars, loadVars, drainVars, probeVars, tickVars
  <2>5. TrialHeld'
    BY <1>1, <2>1, <2>2, <2>3 DEF TrialHeld, Holding, fleetVars, ProxyTypeOK
  <2> QED BY <2>4, <2>5 DEF IInv
<1>8. CASE RelayCompletes(r)
  <2> DEFINE g == OnHeld(health, r, RecordSuccess)
             h == Released(g, r)
  <2>1. g \in HealthMap /\ \A d \in Deployments : KeepsTrial(health[d], g[d])
    BY <1>1, OnHeldOthers
  <2>2. h \in HealthMap /\ OthersHold(h, r)
    BY <1>1, <2>1, ReleasedAfter
  <2> QED BY <1>1, <1>8, <2>2, FinishKeeps DEF RelayCompletes
<1>9. CASE RelayFails(r)
  <2>1. /\ health' \in HealthMap
        /\ \A d \in Deployments : KeepsTrial(health[d], health'[d])
    BY <1>1, <1>9, OnHeldOthers DEF RelayFails
  <2> DEFINE q == [req[r] EXCEPT !.phase = "broken"]
  <2>2. /\ q \in Request /\ q.d = req[r].d /\ q.live = req[r].live
        /\ q.trial = req[r].trial /\ q.phase # "idle"
    BY <1>1 DEF Request
  <2>3. req' = [req EXCEPT ![r] = q]
    BY <1>9 DEF RelayFails
  <2> HIDE DEF q
  <2>4. ProxyTypeOK'
    BY <1>1, <1>9, <2>1, <2>2, <2>3
       DEF RelayFails, ProxyTypeOK, FleetTypeOK, HealthMap, loadVars, drainVars,
           probeVars, tickVars
  <2>5. \A d \in Deployments : health'[d].trial_inflight = 1 =>
                                   health[d].trial_inflight = 1
    BY <2>1 DEF KeepsTrial
  <2>6. TrialHeld'
    BY <1>1, <1>9, <2>2, <2>3, <2>5 DEF RelayFails, TrialHeld, Holding, ProxyTypeOK
  <2> QED BY <2>4, <2>6 DEF IInv
<1>10. CASE CloseOut(r)
  BY <1>1, <1>10, ReleasedOthers, FinishKeeps DEF CloseOut
<1> QED BY <1>2, <1>3, <1>4, <1>5, <1>6, <1>7, <1>8, <1>9, <1>10 DEF Serve, Proceed, Complete, Begin

\* Every step keeps the inductive invariant.
LEMMA NextKeeps ==
    ASSUME IInv, [Next]_vars
    PROVE  IInv'
<1>1. CASE Operate
  <2>1. ASSUME NEW c \in Configs, Reload(c)
        PROVE  IInv'
    BY <2>1, ReloadKeeps
  <2> QED BY <1>1, <2>1, OperateKeeps DEF Operate
<1>2. CASE Probe
  BY <1>2, ProbeKeeps
<1>3. CASE Elapse
  BY <1>3, OperateKeeps DEF Elapse
<1>4. ASSUME NEW r \in Requests, Serve(r)
      PROVE  IInv'
  BY <1>4, ServeKeeps
<1>5. CASE UNCHANGED vars
  BY <1>5 DEF vars, fleetVars, loadVars, drainVars, probeVars, tickVars, IInv,
     ProxyTypeOK, FleetTypeOK, TrialHeld, Holding
<1> QED BY <1>1, <1>2, <1>3, <1>4, <1>5 DEF Next

\* The inductive invariant holds in every reachable state.
LEMMA Inductive == Spec => []IInv
BY InitIInv, NextKeeps, PTL DEF Spec

\* Every reachable state is typed: in particular a deployment never counts
\* two trials, and the streaks stay within their thresholds.
THEOREM TypeCorrect == Spec => []ProxyTypeOK
<1>1. IInv => ProxyTypeOK
  BY DEF IInv
<1> QED BY <1>1, Inductive, PTL

\* A taken trial slot is always held by a request that will give it back.
THEOREM TrialAlwaysHeld == Spec => []TrialHeld
<1>1. IInv => TrialHeld
  BY DEF IInv
<1> QED BY <1>1, Inductive, PTL

-----------------------------------------------------------------------------
(***************************************************************************)
(* Where a request may be sent                                             *)
(***************************************************************************)

\* A request's own steps leave the other requests alone.
LEMMA OwnSteps ==
    ASSUME IInv, NEW w \in Requests, Serve(w), NEW r \in Requests \ {w}
    PROVE  req'[r] = req[r]
<1>1. req \in [Requests -> Request]
  BY DEF IInv, ProxyTypeOK
<1>2. \E x : req' = [req EXCEPT ![w] = x]
  <2>0. ASSUME NEW t, NEW h, NEW l, NEW m, NEW state, Admit(w, t, h, l, m, state)
        PROVE  \E x : req' = [req EXCEPT ![w] = x]
    BY <2>0 DEF Admit
  <2>1. CASE Begin(w)
    <3>1. \E t, h, state : Admit(w, t, h, inflight, nodeInflight, state)
      BY <2>1 DEF Begin, Arrive
    <3> QED BY <2>0, <3>1
  <2>2. CASE \E kind \in FailureKinds :
                \/ GiveUp(w, kind)
                \/ \E k \in 1 .. MaxAttempts : FailOver(w, kind, k)
    BY <2>2 DEF GiveUp, FailOver, Admit, Finish
  <2>3. CASE EndUnjudged(w) \/ CommitBuffered(w) \/ RelayCompletes(w) \/ CloseOut(w)
    BY <2>3 DEF EndUnjudged, CommitBuffered, RelayCompletes, CloseOut, Finish
  <2>4. CASE CommitStream(w) \/ RelayFails(w)
    BY <2>4 DEF CommitStream, RelayFails
  <2> QED BY <2>1, <2>2, <2>3, <2>4 DEF Serve, Proceed, Complete
<1> QED BY <1>1, <1>2

\* A request is admitted when it arrives and when it fails over, nowhere else.
LEMMA AdmittedWhere ==
    ASSUME IInv, [Next]_vars, NEW r \in Requests, Admitted(r)
    PROVE  \/ Begin(r)
           \/ \E kind \in FailureKinds, k \in 1 .. MaxAttempts : FailOver(r, kind, k)
<1>1. req \in [Requests -> Request] /\ req[r] \in Request
  BY DEF IInv, ProxyTypeOK
<1>2. req'[r].phase = "attempt" /\ ~(/\ req'[r].phase = req[r].phase
                                     /\ req'[r].d = req[r].d)
  BY DEF Admitted
<1>3. CASE Operate
  <2>1. ASSUME NEW c \in Configs, Reload(c)
        PROVE  FALSE
    <3>1. req'[r] = [req[r] EXCEPT !.live = @ /\ req[r].d \in c.deps]
      BY <2>1 DEF Reload
    <3> QED BY <1>1, <1>2, <3>1 DEF Request
  <2> QED BY <1>2, <1>3, <2>1 DEF Operate
<1>4. CASE Probe \/ Elapse \/ UNCHANGED vars
  BY <1>2, <1>4 DEF Probe, Elapse, vars
<1>5. ASSUME NEW w \in Requests, Serve(w), w # r
      PROVE  FALSE
  BY <1>2, <1>5, OwnSteps
<1>6. CASE Serve(r)
  <2>1. ASSUME NEW h, Finish(r, h)
        PROVE  FALSE
    BY <1>1, <1>2, <2>1 DEF Finish, Idle
  <2>2. ASSUME NEW kind \in FailureKinds, GiveUp(r, kind)
        PROVE  FALSE
    BY <2>1, <2>2 DEF GiveUp
  <2>3. ~EndUnjudged(r) /\ ~CommitBuffered(r) /\ ~RelayCompletes(r) /\ ~CloseOut(r)
    BY <2>1 DEF EndUnjudged, CommitBuffered, RelayCompletes, CloseOut
  <2>4. ~CommitStream(r) /\ ~RelayFails(r)
    <3>1. CASE CommitStream(r)
      <4>1. req'[r].phase = "relay"
        BY <1>1, <3>1 DEF CommitStream, Request
      <4> QED BY <1>2, <4>1
    <3>2. CASE RelayFails(r)
      <4>1. req'[r].phase = "broken"
        BY <1>1, <3>2 DEF RelayFails, Request
      <4> QED BY <1>2, <4>1
    <3> QED BY <3>1, <3>2
  <2> QED BY <1>6, <2>2, <2>3, <2>4 DEF Serve, Proceed, Complete
<1> QED BY <1>3, <1>4, <1>5, <1>6 DEF Next

\* What an admission leaves: the request at its target, and the unit taken
\* from the health that was vetted.
LEMMA AdmitLeaves ==
    ASSUME NEW r \in Requests, NEW t \in Target, NEW h \in HealthMap,
           NEW l, NEW m, NEW state \in Request, req \in [Requests -> Request],
           cfg.deps \subseteq Deployments, Admit(r, t, h, l, m, state)
    PROVE  /\ req'[r].d = t.d /\ req'[r].n = t.n
           /\ req'[r].strict = state.strict
           /\ req'[r].family = state.family /\ req'[r].rest = state.rest
           /\ t.d \in cfg.deps =>
                 /\ health'[t.d] = TakeUnit(h[t.d])
                 /\ req'[r].trial = (BreakerState(h[t.d]).breaker = "HALF_OPEN")
<1> DEFINE known == t.d \in cfg.deps
           trial == known /\ BreakerState(h[t.d]).breaker = "HALF_OPEN"
           q == [state EXCEPT !.phase = "attempt", !.d = t.d, !.n = t.n,
                              !.trial = trial, !.live = known]
<1>1. req' = [req EXCEPT ![r] = q]
  BY DEF Admit
<1>2. req'[r] = q
  BY <1>1
<1>3. /\ q.d = t.d /\ q.n = t.n /\ q.strict = state.strict /\ q.trial = trial
      /\ q.family = state.family /\ q.rest = state.rest
  BY DEF Request
<1>4. known => health' = [d \in Deployments |-> IF d \in {t.d} THEN TakeUnit(h[d])
                                                              ELSE h[d]]
  BY DEF Admit, Rewrite
<1>5. t.d \in Deployments
  BY DEF Target
<1> HIDE DEF q
<1> QED BY <1>2, <1>3, <1>4, <1>5

\* A request that is not strict has left of its plan only what its route's
\* anchor allowed.
InFamily(q) == q.strict \/ \A i \in DOMAIN q.rest : q.rest[i].d \in q.family

FamilyInv == \A r \in Requests : InFamily(req[r])

\* Where a request is after it was admitted
WellTaken(q) ==
    /\ q.strict \/ q.d \in cfg.allowed \cap q.family
    /\ InFamily(q)
    /\ q.n \notin Drained
    /\ q.d \in cfg.deps =>
          \E x \in Health :
             /\ MayAdmit(x)
             /\ health'[q.d] = TakeUnit(x)
             /\ q.trial = (BreakerState(x).breaker = "HALF_OPEN")

\* An admission happens only at a target that is on policy, not drained and
\* may be admitted in the health it is taken from.
LEMMA TakenWell ==
    ASSUME IInv, FamilyInv, NEW r \in Requests,
           \/ Begin(r)
           \/ \E kind \in FailureKinds, k \in 1 .. MaxAttempts : FailOver(r, kind, k)
    PROVE  WellTaken(req'[r])
<1>1. /\ health \in HealthMap /\ req \in [Requests -> Request]
      /\ ProxyTypeOK /\ TrialHeld /\ cfg.deps \subseteq Deployments
  BY ConfigAssumption DEF IInv, ProxyTypeOK, FleetTypeOK, HealthMap, ConfigType
<1>2. ASSUME NEW c \in Configs, NEW p \in Plans(c), NEW k \in DOMAIN p,
             NEW fam \in c.families, NEW strict \in BOOLEAN, NEW retry \in BOOLEAN,
             Arrive(r, c, p, k, fam, strict, retry)
      PROVE  WellTaken(req'[r])
  <2> DEFINE h == Seen({p[i].d : i \in DOMAIN p})
             queued == Len(p) = 1 /\ nodeInflight[p[1].n] >= Slots[p[1].n]
             state == Begun(p, k, queued, strict, retry, fam)
  <2>1. /\ Admit(r, p[k], h, inflight, nodeInflight, state)
        /\ NextTarget(p, strict, h, k)
        /\ strict \/ \A i \in DOMAIN p : p[i].d \in fam
    BY <1>2 DEF Arrive
  <2>2. queued \in BOOLEAN
    OBVIOUS
  <2> HIDE DEF queued
  <2>3. /\ p[k] \in Target /\ state \in Request /\ h \in HealthMap
        /\ state.strict = strict /\ (state.family = IF strict THEN {} ELSE fam)
        /\ \A i \in DOMAIN state.rest : \E j \in DOMAIN p : state.rest[i] = p[j]
    <3>1. state \in Request /\ h \in HealthMap
      BY <2>2, PlanTaken
    <3> QED BY <2>2, <3>1, PlanBegun
  <2> HIDE DEF h, state
  <2> DEFINE t == p[k]
  <2>4. /\ strict \/ t.d \in cfg.allowed \cap fam
        /\ t.n \notin Drained /\ (t.d \in cfg.deps => MayAdmit(h[t.d]))
    BY <2>1 DEF NextTarget, Allowed, Vetted
  <2>5. t \in Target
    BY <2>3
  <2>6. t.d \in cfg.deps => h[t.d] \in Health
    BY <1>1, <2>3 DEF HealthMap
  <2>7. InFamily(state)
    BY <2>1, <2>3 DEF InFamily
  <2>8. Admit(r, t, h, inflight, nodeInflight, state)
    BY <2>1
  <2> HIDE DEF t
  <2>9. /\ req'[r].d = t.d /\ req'[r].n = t.n /\ req'[r].strict = strict
        /\ req'[r].family = state.family /\ req'[r].rest = state.rest
        /\ t.d \in cfg.deps =>
              /\ health'[t.d] = TakeUnit(h[t.d])
              /\ req'[r].trial = (BreakerState(h[t.d]).breaker = "HALF_OPEN")
    BY <1>1, <2>3, <2>5, <2>8, AdmitLeaves
  <2> QED BY <2>3, <2>4, <2>6, <2>7, <2>9 DEF WellTaken, InFamily
<1>3. ASSUME NEW kind \in FailureKinds, NEW k \in 1 .. MaxAttempts,
             FailOver(r, kind, k)
      PROVE  WellTaken(req'[r])
  <2> DEFINE h == HealthAfter(r, kind)
             rest == req[r].rest
             t == rest[k]
             state == [req[r] EXCEPT !.rest = SubSeq(rest, k + 1, Len(rest)),
                                     !.queued = FALSE]
  <2>1. h \in HealthMap
    BY <1>1, HealthAfterOthers
  <2>2. NextTarget(rest, req[r].strict, h, k)
    BY <1>3 DEF FailOver
  <2>3. req[r] \in Request /\ rest \in Seq(Target) /\ k \in DOMAIN rest
    BY <1>1, <2>2 DEF NextTarget, Request
  <2> DEFINE s == SubSeq(rest, k + 1, Len(rest))
  <2>4. /\ t \in Target /\ s \in Seq(Target)
        /\ \A i \in DOMAIN s : \E j \in DOMAIN rest : s[i] = rest[j]
    BY <2>3, PlanRest
  <2>a. InFamily(req[r])
    BY DEF FamilyInv
  <2> HIDE DEF s
  <2>5. /\ state \in Request /\ state.strict = req[r].strict
        /\ state.family = req[r].family /\ state.rest = s
    BY <2>3, <2>4 DEF Request, s
  <2>6. req[r].strict \/ t.d \in cfg.allowed \cap req[r].family
    BY <2>2, <2>3, <2>a DEF NextTarget, Allowed, InFamily
  <2>7. t.n \notin Drained /\ (t.d \in cfg.deps => MayAdmit(h[t.d]))
    BY <2>2 DEF NextTarget, Vetted
  <2>8. Admit(r, t, h, LoadLess(r), NodeLoadLess(r), state)
    BY <1>3 DEF FailOver
  <2>9. InFamily(state)
    BY <2>4, <2>5, <2>a DEF InFamily
  <2> HIDE DEF h, t, state
  <2>10. t.d \in cfg.deps => h[t.d] \in Health
    BY <1>1, <2>1 DEF HealthMap
  <2>11. /\ req'[r].d = t.d /\ req'[r].n = t.n /\ req'[r].strict = req[r].strict
         /\ req'[r].family = req[r].family /\ req'[r].rest = s
         /\ t.d \in cfg.deps =>
               /\ health'[t.d] = TakeUnit(h[t.d])
               /\ req'[r].trial = (BreakerState(h[t.d]).breaker = "HALF_OPEN")
    BY <1>1, <2>1, <2>4, <2>5, <2>8, AdmitLeaves
  <2> QED BY <2>5, <2>6, <2>7, <2>9, <2>10, <2>11 DEF WellTaken, InFamily
<1> QED BY <1>2, <1>3 DEF Begin

\* No other step lengthens what is left of a plan.
LEMMA FamilyStep ==
    ASSUME IInv, FamilyInv, [Next]_vars PROVE FamilyInv'
<1>1. req \in [Requests -> Request]
  BY DEF IInv, ProxyTypeOK
<1> SUFFICES ASSUME NEW r \in Requests PROVE InFamily(req'[r])
  BY DEF FamilyInv
<1>2. req[r] \in Request /\ InFamily(req[r])
  BY <1>1 DEF FamilyInv
<1>3. CASE Operate
  <2>1. ASSUME NEW c \in Configs, Reload(c)
        PROVE  InFamily(req'[r])
    <3>1. req'[r] = [req[r] EXCEPT !.live = @ /\ req[r].d \in c.deps]
      BY <2>1 DEF Reload
    <3> QED BY <1>2, <3>1 DEF Request, InFamily
  <2> QED BY <1>2, <1>3, <2>1 DEF Operate
<1>4. CASE Probe \/ Elapse \/ UNCHANGED vars
  BY <1>2, <1>4 DEF Probe, Elapse, vars
<1>5. ASSUME NEW w \in Requests, Serve(w), w # r
      PROVE  InFamily(req'[r])
  BY <1>2, <1>5, OwnSteps
<1>6. CASE Serve(r)
  <2>1. CASE \/ Begin(r)
             \/ \E kind \in FailureKinds, k \in 1 .. MaxAttempts : FailOver(r, kind, k)
    BY <2>1, TakenWell DEF WellTaken
  <2>2. CASE \/ \E kind \in FailureKinds : GiveUp(r, kind)
             \/ EndUnjudged(r) \/ CommitBuffered(r) \/ RelayCompletes(r)
             \/ CloseOut(r)
    <3>1. req'[r] = Idle
      BY <1>1, <2>2 DEF GiveUp, EndUnjudged, CommitBuffered, RelayCompletes,
         CloseOut, Finish
    <3> QED BY <3>1 DEF Idle, InFamily
  <2>3. CASE CommitStream(r)
    <3>1. req'[r].rest = <<>>
      BY <1>1, <2>3 DEF CommitStream, Request
    <3> QED BY <3>1 DEF InFamily
  <2>4. CASE RelayFails(r)
    <3>1. req'[r] = [req[r] EXCEPT !.phase = "broken"]
      BY <1>1, <2>4 DEF RelayFails
    <3> QED BY <1>2, <3>1 DEF InFamily, Request
  <2> QED BY <1>6, <2>1, <2>2, <2>3, <2>4 DEF Serve, Proceed, Complete
<1> QED BY <1>3, <1>4, <1>5, <1>6 DEF Next

LEMMA FamilyAlways == Spec => []FamilyInv
<1>1. Init => FamilyInv
  BY DEF Init, Idle, FamilyInv, InFamily
<1> QED BY <1>1, FamilyStep, Inductive, PTL DEF Spec

\* No attempt of a non-strict request, failover after a reload included, goes
\* to a family the running allowed_families forbids, or the same_family of its
\* route forbade when its plan was made.
THEOREM PolicyAlways == Spec => PolicyHolds
<1>1. IInv /\ FamilyInv /\ [Next]_vars =>
         [\A r \in Requests : Admitted(r) =>
             \/ req'[r].strict
             \/ req'[r].d \in cfg.allowed \cap req'[r].family]_vars
  BY AdmittedWhere, TakenWell DEF WellTaken
<1> QED BY <1>1, Inductive, FamilyAlways, PTL DEF Spec, PolicyHolds

\* No request is ever sent where it could not be taken at that moment.
THEOREM NeverStale == Spec => NoStaleAdmission
<1>1. ASSUME IInv, FamilyInv, [Next]_vars, NEW r \in Requests, Admitted(r)
      PROVE  ~StaleAdmission(r)
  <2>1. WellTaken(req'[r])
    BY <1>1, AdmittedWhere, TakenWell
  <2> QED BY <2>1, TakenWhereAllowed DEF StaleAdmission, WellTaken
<1>2. IInv /\ FamilyInv /\ [Next]_vars =>
         [\A r \in Requests : Admitted(r) => ~StaleAdmission(r)]_vars
  BY <1>1
<1> QED BY <1>2, Inductive, FamilyAlways, PTL DEF Spec, NoStaleAdmission

-----------------------------------------------------------------------------
(***************************************************************************)
(* What the counters count. A step of a request changes the holders of a   *)
(* deployment, and of a node, by that request alone.                       *)
(***************************************************************************)
One(b) == IF b THEN 1 ELSE 0
On(q, d) == q.phase # "idle" /\ q.d = d
OnNode(q, n) == q.phase # "idle" /\ q.n = n

\* A set of requests is r, if it is in it, and the others.
LEMMA CountApart ==
    ASSUME NEW S \in SUBSET Requests, NEW r \in Requests
    PROVE  /\ Cardinality(S \ {r}) \in Nat
           /\ Cardinality(S) = Cardinality(S \ {r}) + One(r \in S)
<1>1. IsFiniteSet(S) /\ IsFiniteSet(S \ {r})
  BY RequestAssumption, FS_Subset
<1>2. Cardinality(S) \in Nat /\ Cardinality(S \ {r}) \in Nat
  BY <1>1, FS_CardinalityType
<1>3. Cardinality(S \ {r}) = IF r \in S THEN Cardinality(S) - 1 ELSE Cardinality(S)
  BY <1>1, FS_RemoveElement
<1> QED BY <1>2, <1>3 DEF One

\* If only r moves, and the counters give what r held and take what it holds,
\* they stay exact.
LEMMA MoveKeepsExact ==
    ASSUME InflightExact, NEW r \in Requests,
           \A w \in Requests \ {r} : req'[w] = req[w],
           \A d \in Deployments :
              inflight'[d] = inflight[d] - One(On(req[r], d)) + One(On(req'[r], d)),
           \A n \in Nodes :
              nodeInflight'[n] = nodeInflight[n] - One(OnNode(req[r], n))
                                                 + One(OnNode(req'[r], n))
    PROVE  InflightExact'
<1>1. ASSUME NEW d \in Deployments
      PROVE  inflight'[d] = Cardinality(Holders(d)')
  <2> DEFINE S == Holders(d)
             T == Holders(d)'
  <2>1. S \in SUBSET Requests /\ T \in SUBSET Requests /\ S \ {r} = T \ {r}
    BY DEF Holders, Holding
  <2>2. (r \in S <=> On(req[r], d)) /\ (r \in T <=> On(req'[r], d))
    BY DEF Holders, Holding, On
  <2>3. inflight[d] = Cardinality(S)
    BY DEF InflightExact
  <2>5. inflight'[d] = Cardinality(S) - One(On(req[r], d)) + One(On(req'[r], d))
    BY <2>3
  <2> HIDE DEF S, T
  <2>4. /\ Cardinality(S \ {r}) \in Nat
        /\ Cardinality(S) = Cardinality(S \ {r}) + One(On(req[r], d))
        /\ Cardinality(T) = Cardinality(S \ {r}) + One(On(req'[r], d))
    BY <2>1, <2>2, CountApart DEF One
  <2>6. inflight'[d] = Cardinality(T)
    BY <2>4, <2>5 DEF One
  <2> QED BY <2>6 DEF T
<1>2. ASSUME NEW n \in Nodes
      PROVE  nodeInflight'[n] = Cardinality(NodeHolders(n)')
  <2> DEFINE S == NodeHolders(n)
             T == NodeHolders(n)'
  <2>1. S \in SUBSET Requests /\ T \in SUBSET Requests /\ S \ {r} = T \ {r}
    BY DEF NodeHolders, Holding
  <2>2. (r \in S <=> OnNode(req[r], n)) /\ (r \in T <=> OnNode(req'[r], n))
    BY DEF NodeHolders, Holding, OnNode
  <2>3. nodeInflight[n] = Cardinality(S)
    BY DEF InflightExact
  <2>5. nodeInflight'[n] = Cardinality(S) - One(OnNode(req[r], n))
                                          + One(OnNode(req'[r], n))
    BY <2>3
  <2> HIDE DEF S, T
  <2>4. /\ Cardinality(S \ {r}) \in Nat
        /\ Cardinality(S) = Cardinality(S \ {r}) + One(OnNode(req[r], n))
        /\ Cardinality(T) = Cardinality(S \ {r}) + One(OnNode(req'[r], n))
    BY <2>1, <2>2, CountApart DEF One
  <2>6. nodeInflight'[n] = Cardinality(T)
    BY <2>4, <2>5 DEF One
  <2> QED BY <2>6 DEF T
<1> QED BY <1>1, <1>2 DEF InflightExact

\* Nobody moves.
LEMMA StillExact ==
    ASSUME InflightExact, UNCHANGED loadVars,
           \A w \in Requests : /\ req'[w].phase = req[w].phase
                               /\ req'[w].d = req[w].d /\ req'[w].n = req[w].n
    PROVE  InflightExact'
<1>1. \A d \in Deployments : Holders(d)' = Holders(d)
  BY DEF Holders, Holding
<1>2. \A n \in Nodes : NodeHolders(n)' = NodeHolders(n)
  BY DEF NodeHolders, Holding
<1> QED BY <1>1, <1>2 DEF InflightExact, loadVars

\* A request that holds a unit can give it back: max(0, x - 1) is x - 1.
LEMMA LoadLessExact ==
    ASSUME IInv, InflightExact, NEW r \in Requests, Holding(r)
    PROVE  /\ \A d \in Deployments :
                 LoadLess(r)[d] = inflight[d] - One(On(req[r], d))
           /\ \A n \in Nodes :
                 NodeLoadLess(r)[n] = nodeInflight[n] - One(OnNode(req[r], n))
<1>1. inflight \in [Deployments -> Nat] /\ nodeInflight \in [Nodes -> Nat]
  BY DEF IInv, ProxyTypeOK, FleetTypeOK
<1>2. ASSUME NEW d \in Deployments
      PROVE  LoadLess(r)[d] = inflight[d] - One(On(req[r], d))
  <2>1. CASE req[r].d = d
    <3>1. r \in Holders(d) /\ Holders(d) \in SUBSET Requests
      BY <2>1 DEF Holders
    <3>2. inflight[d] # 0
      <4>1. /\ Cardinality(Holders(d) \ {r}) \in Nat
            /\ Cardinality(Holders(d)) = Cardinality(Holders(d) \ {r}) + One(r \in Holders(d))
        BY <3>1, CountApart
      <4>2. inflight[d] = Cardinality(Holders(d)) /\ One(r \in Holders(d)) = 1
        BY <3>1 DEF InflightExact, One
      <4> HIDE DEF Holders
      <4> QED BY <4>1, <4>2
    <3>3. LoadLess(r)[d] = inflight[d] - 1
      BY <1>1, <2>1, <3>2 DEF LoadLess, Less1
    <3>4. One(On(req[r], d)) = 1
      BY <2>1 DEF One, On, Holding
    <3> QED BY <1>1, <3>3, <3>4
  <2>2. CASE req[r].d # d
    BY <1>1, <2>2 DEF LoadLess, One, On
  <2> QED BY <2>1, <2>2
<1>3. ASSUME NEW n \in Nodes
      PROVE  NodeLoadLess(r)[n] = nodeInflight[n] - One(OnNode(req[r], n))
  <2>1. CASE req[r].n = n
    <3>1. r \in NodeHolders(n) /\ NodeHolders(n) \in SUBSET Requests
      BY <2>1 DEF NodeHolders
    <3>2. nodeInflight[n] # 0
      <4>1. /\ Cardinality(NodeHolders(n) \ {r}) \in Nat
            /\ Cardinality(NodeHolders(n)) = Cardinality(NodeHolders(n) \ {r}) + One(r \in NodeHolders(n))
        BY <3>1, CountApart
      <4>2. nodeInflight[n] = Cardinality(NodeHolders(n)) /\ One(r \in NodeHolders(n)) = 1
        BY <3>1 DEF InflightExact, One
      <4> HIDE DEF NodeHolders
      <4> QED BY <4>1, <4>2
    <3>3. NodeLoadLess(r)[n] = nodeInflight[n] - 1
      BY <1>1, <2>1, <3>2 DEF NodeLoadLess, Less1
    <3>4. One(OnNode(req[r], n)) = 1
      BY <2>1 DEF One, OnNode, Holding
    <3> QED BY <1>1, <3>3, <3>4
  <2>2. CASE req[r].n # n
    BY <1>1, <2>2 DEF NodeLoadLess, One, OnNode
  <2> QED BY <2>1, <2>2
<1> QED BY <1>2, <1>3

\* r ends.
LEMMA FinishMoves ==
    ASSUME IInv, InflightExact, NEW r \in Requests, Holding(r), NEW h, Finish(r, h)
    PROVE  /\ \A w \in Requests \ {r} : req'[w] = req[w]
           /\ req'[r] = Idle
           /\ \A d \in Deployments :
                 inflight'[d] = inflight[d] - One(On(req[r], d)) + One(On(req'[r], d))
           /\ \A n \in Nodes :
                 nodeInflight'[n] = nodeInflight[n] - One(OnNode(req[r], n))
                                                    + One(OnNode(req'[r], n))
<1>1. /\ req \in [Requests -> Request]
      /\ inflight \in [Deployments -> Nat] /\ nodeInflight \in [Nodes -> Nat]
  BY DEF IInv, ProxyTypeOK, FleetTypeOK
<1>2. req' = [req EXCEPT ![r] = Idle]
  BY DEF Finish
<1>3. /\ \A w \in Requests \ {r} : req'[w] = req[w]
      /\ req'[r] = Idle
  BY <1>1, <1>2
<1>4. /\ \A d : One(On(req'[r], d)) = 0
      /\ \A n : One(OnNode(req'[r], n)) = 0
  BY <1>3 DEF One, On, OnNode, Idle
<1>5. inflight' = LoadLess(r) /\ nodeInflight' = NodeLoadLess(r)
  BY DEF Finish
<1>6. \A d \in Deployments :
         inflight'[d] = inflight[d] - One(On(req[r], d)) + One(On(req'[r], d))
  BY <1>1, <1>4, <1>5, LoadLessExact DEF One
<1>7. \A n \in Nodes : nodeInflight'[n] = nodeInflight[n] - One(OnNode(req[r], n))
                                                          + One(OnNode(req'[r], n))
  BY <1>1, <1>4, <1>5, LoadLessExact DEF One
<1> QED BY <1>3, <1>6, <1>7

LEMMA FinishExact ==
    ASSUME IInv, InflightExact, NEW r \in Requests, Holding(r), NEW h, Finish(r, h)
    PROVE  InflightExact'
BY FinishMoves, MoveKeepsExact

\* r takes a unit, where l and m are the counters without the one it had.
LEMMA AdmitMoves ==
    ASSUME IInv, NEW r \in Requests, NEW t \in Target, NEW h,
           NEW l \in [Deployments -> Nat], NEW m \in [Nodes -> Nat],
           NEW state \in Request,
           \A d \in Deployments : l[d] = inflight[d] - One(On(req[r], d)),
           \A n \in Nodes : m[n] = nodeInflight[n] - One(OnNode(req[r], n)),
           Admit(r, t, h, l, m, state)
    PROVE  /\ \A w \in Requests \ {r} : req'[w] = req[w]
           /\ req'[r].phase = "attempt" /\ req'[r].d = t.d /\ req'[r].n = t.n
           /\ req'[r].rest = state.rest
           /\ \A d \in Deployments :
                 inflight'[d] = inflight[d] - One(On(req[r], d)) + One(On(req'[r], d))
           /\ \A n \in Nodes :
                 nodeInflight'[n] = nodeInflight[n] - One(OnNode(req[r], n))
                                                    + One(OnNode(req'[r], n))
<1>1. req \in [Requests -> Request] /\ t.d \in Deployments /\ t.n \in Nodes
  BY DEF IInv, ProxyTypeOK, Target
<1>2. /\ \A w \in Requests \ {r} : req'[w] = req[w]
      /\ req'[r].phase = "attempt" /\ req'[r].d = t.d /\ req'[r].n = t.n
      /\ req'[r].rest = state.rest
  <2>1. ASSUME NEW trial, NEW live
        PROVE  LET q == [state EXCEPT !.phase = "attempt", !.d = t.d, !.n = t.n,
                                      !.trial = trial, !.live = live]
               IN  /\ q.phase = "attempt" /\ q.d = t.d /\ q.n = t.n
                   /\ q.rest = state.rest
    BY DEF Request
  <2>2. \E trial, live :
           req' = [req EXCEPT ![r] =
                      [state EXCEPT !.phase = "attempt", !.d = t.d, !.n = t.n,
                                    !.trial = trial, !.live = live]]
    BY DEF Admit
  <2> QED BY <1>1, <2>1, <2>2
<1>3. inflight' = [l EXCEPT ![t.d] = @ + 1] /\ nodeInflight' = [m EXCEPT ![t.n] = @ + 1]
  BY DEF Admit
<1>4. ASSUME NEW d \in Deployments
      PROVE  inflight'[d] = inflight[d] - One(On(req[r], d)) + One(On(req'[r], d))
  <2>1. inflight'[d] = l[d] + One(d = t.d) /\ l[d] \in Nat
    BY <1>1, <1>3 DEF One
  <2>2. On(req'[r], d) <=> d = t.d
    BY <1>2 DEF On
  <2> QED BY <2>1, <2>2 DEF One
<1>5. ASSUME NEW n \in Nodes
      PROVE  nodeInflight'[n] = nodeInflight[n] - One(OnNode(req[r], n))
                                                + One(OnNode(req'[r], n))
  <2>1. nodeInflight'[n] = m[n] + One(n = t.n) /\ m[n] \in Nat
    BY <1>1, <1>3 DEF One
  <2>2. OnNode(req'[r], n) <=> n = t.n
    BY <1>2 DEF OnNode
  <2> QED BY <2>1, <2>2 DEF One
<1> QED BY <1>2, <1>4, <1>5

LEMMA AdmitExact ==
    ASSUME IInv, InflightExact, NEW r \in Requests, NEW t \in Target, NEW h,
           NEW l \in [Deployments -> Nat], NEW m \in [Nodes -> Nat],
           NEW state \in Request,
           \A d \in Deployments : l[d] = inflight[d] - One(On(req[r], d)),
           \A n \in Nodes : m[n] = nodeInflight[n] - One(OnNode(req[r], n)),
           Admit(r, t, h, l, m, state)
    PROVE  InflightExact'
BY AdmitMoves, MoveKeepsExact

\* The requests.
LEMMA ServeExact ==
    ASSUME IInv, InflightExact, NEW r \in Requests, Serve(r)
    PROVE  InflightExact'
<1>1. /\ req \in [Requests -> Request] /\ req[r] \in Request
      /\ inflight \in [Deployments -> Nat] /\ nodeInflight \in [Nodes -> Nat]
      /\ ProxyTypeOK
  BY DEF IInv, ProxyTypeOK, FleetTypeOK
<1>2. ASSUME NEW c \in Configs, NEW p \in Plans(c), NEW k \in DOMAIN p,
             NEW fam \in c.families, NEW strict \in BOOLEAN, NEW retry \in BOOLEAN,
             Arrive(r, c, p, k, fam, strict, retry)
      PROVE  InflightExact'
  <2> DEFINE h == Seen({p[i].d : i \in DOMAIN p})
             queued == Len(p) = 1 /\ nodeInflight[p[1].n] >= Slots[p[1].n]
             state == Begun(p, k, queued, strict, retry, fam)
  <2>1. Admit(r, p[k], h, inflight, nodeInflight, state)
    BY <1>2 DEF Arrive
  <2>2. queued \in BOOLEAN
    OBVIOUS
  <2> HIDE DEF queued
  <2>3. p[k] \in Target /\ state \in Request
    BY <2>2, PlanTaken
  <2> HIDE DEF h, state
  <2>4. req[r].phase = "idle"
    BY <1>2 DEF Arrive
  <2>5. /\ \A d \in Deployments : inflight[d] = inflight[d] - One(On(req[r], d))
        /\ \A n \in Nodes : nodeInflight[n] = nodeInflight[n] - One(OnNode(req[r], n))
    BY <1>1, <2>4 DEF On, OnNode, One
  <2> QED BY <1>1, <2>1, <2>3, <2>5, AdmitExact
<1>3. ASSUME NEW kind \in FailureKinds, NEW k \in 1 .. MaxAttempts,
             FailOver(r, kind, k)
      PROVE  InflightExact'
  <2> DEFINE h == HealthAfter(r, kind)
             rest == req[r].rest
             t == rest[k]
             state == [req[r] EXCEPT !.rest = SubSeq(rest, k + 1, Len(rest)),
                                     !.queued = FALSE]
  <2>1. Holding(r)
    BY <1>3 DEF FailOver, Holding
  <2>2. rest \in Seq(Target) /\ k \in DOMAIN rest
    BY <1>1, <1>3 DEF FailOver, NextTarget, Request
  <2>3. t \in Target /\ SubSeq(rest, k + 1, Len(rest)) \in Seq(Target)
    BY <2>2, PlanRest
  <2>4. state \in Request
    BY <1>1, <2>3 DEF Request
  <2>5. Admit(r, t, h, LoadLess(r), NodeLoadLess(r), state)
    BY <1>3 DEF FailOver
  <2> HIDE DEF h, t, state
  <2> QED BY <1>1, <2>1, <2>3, <2>4, <2>5, LoadType, LoadLessExact, AdmitExact
<1>4. ASSUME Holding(r), NEW h, Finish(r, h)
      PROVE  InflightExact'
  BY <1>4, FinishExact
<1>5. ASSUME NEW kind \in FailureKinds, GiveUp(r, kind)
      PROVE  InflightExact'
  BY <1>4, <1>5 DEF GiveUp, Holding
<1>6. CASE EndUnjudged(r) \/ CommitBuffered(r) \/ RelayCompletes(r) \/ CloseOut(r)
  BY <1>4, <1>6
     DEF EndUnjudged, CommitBuffered, RelayCompletes, CloseOut, Holding
<1>7. CASE CommitStream(r) \/ RelayFails(r)
  <2>1. UNCHANGED loadVars
    BY <1>7 DEF CommitStream, RelayFails, fleetVars
  <2>2. /\ \A w \in Requests \ {r} : req'[w] = req[w]
        /\ req'[r].phase # "idle" /\ req[r].phase # "idle"
        /\ req'[r].d = req[r].d /\ req'[r].n = req[r].n
    <3>1. CASE CommitStream(r)
      <4> DEFINE q == [req[r] EXCEPT !.phase = "relay", !.rest = <<>>,
                           !.queued = FALSE, !.strict = FALSE, !.retry = FALSE,
                           !.family = {}]
      <4>1. q.phase = "relay" /\ q.d = req[r].d /\ q.n = req[r].n
        BY <1>1 DEF Request
      <4>2. req' = [req EXCEPT ![r] = q] /\ req[r].phase = "attempt"
        BY <3>1 DEF CommitStream
      <4> HIDE DEF q
      <4> QED BY <1>1, <4>1, <4>2
    <3>2. CASE RelayFails(r)
      <4> DEFINE q == [req[r] EXCEPT !.phase = "broken"]
      <4>1. q.phase = "broken" /\ q.d = req[r].d /\ q.n = req[r].n
        BY <1>1 DEF Request
      <4>2. req' = [req EXCEPT ![r] = q] /\ req[r].phase = "relay"
        BY <3>2 DEF RelayFails
      <4> HIDE DEF q
      <4> QED BY <1>1, <4>1, <4>2
    <3> QED BY <1>7, <3>1, <3>2
  <2>3. /\ \A d \in Deployments : inflight'[d] =
              inflight[d] - One(On(req[r], d)) + One(On(req'[r], d))
        /\ \A n \in Nodes : nodeInflight'[n] =
              nodeInflight[n] - One(OnNode(req[r], n)) + One(OnNode(req'[r], n))
    BY <1>1, <2>1, <2>2 DEF loadVars, On, OnNode, One
  <2> QED BY <2>2, <2>3, MoveKeepsExact
<1> QED BY <1>2, <1>3, <1>5, <1>6, <1>7 DEF Serve, Proceed, Complete, Begin

\* Every step keeps the counters exact.
LEMMA NextExact ==
    ASSUME IInv, InflightExact, [Next]_vars
    PROVE  InflightExact'
<1>1. req \in [Requests -> Request]
  BY DEF IInv, ProxyTypeOK
<1>2. ASSUME NEW c \in Configs, Reload(c)
      PROVE  InflightExact'
  <2>1. ASSUME NEW w \in Requests
        PROVE  /\ req'[w].phase = req[w].phase
               /\ req'[w].d = req[w].d /\ req'[w].n = req[w].n
    <3>1. req'[w] = [req[w] EXCEPT !.live = @ /\ req[w].d \in c.deps]
      BY <1>2 DEF Reload
    <3> QED BY <1>1, <3>1 DEF Request
  <2>2. UNCHANGED loadVars
    BY <1>2 DEF Reload, ReloadFleet
  <2> QED BY <2>1, <2>2, StillExact
<1>3. ASSUME UNCHANGED <<loadVars, req>>
      PROVE  InflightExact'
  BY <1>3, StillExact
<1>4. CASE Operate
  <2>1. (\E c \in Configs : Reload(c)) \/ UNCHANGED <<loadVars, req>>
    BY <1>4 DEF Operate, Drain, Undrain, Status, Weigh
  <2> QED BY <1>2, <1>3, <2>1
<1>5. CASE Probe
  <2>1. UNCHANGED <<loadVars, req>>
    BY <1>5 DEF Probe, TickStart, ProbeAnswer, ModelsAnswer, LeaseAnswer
  <2> QED BY <1>3, <2>1
<1>6. CASE Elapse
  BY <1>3, <1>6 DEF Elapse, OpenElapses
<1>7. CASE UNCHANGED vars
  BY <1>3, <1>7 DEF vars, fleetVars
<1> QED BY <1>4, <1>5, <1>6, <1>7, ServeExact DEF Next

\* The counters decide() balances by are the units in flight, in every
\* reachable state: no path leaks a unit or gives one back twice.
THEOREM InflightAlwaysExact == Spec => []InflightExact
<1>1. ASSUME Init PROVE InflightExact
  <2>1. ASSUME NEW d \in Deployments PROVE Holders(d) = {} /\ inflight[d] = 0
    BY <1>1 DEF Init, FleetInit, Holders, Holding, Idle
  <2>2. ASSUME NEW n \in Nodes PROVE NodeHolders(n) = {} /\ nodeInflight[n] = 0
    BY <1>1 DEF Init, FleetInit, NodeHolders, Holding, Idle
  <2> QED BY <2>1, <2>2, FS_EmptySet DEF InflightExact
<1> QED BY <1>1, NextExact, Inductive, PTL DEF Spec
-----------------------------------------------------------------------------
(***************************************************************************)
(* What closes a breaker, and what makes a deployment READY                *)
(***************************************************************************)

\* Gives is transitive.
LEMMA GivesChain ==
    ASSUME NEW x, NEW y, NEW z, Gives(x, y), Gives(y, z) PROVE Gives(x, z)
BY DEF Gives

\* Giving r's unit back, and recording what is not a success, give nothing.
LEMMA HealthAfterGives ==
    ASSUME IInv, NEW r \in Requests, NEW d \in Deployments
    PROVE  /\ Released(health, r)[d] \in Health
           /\ Gives(health[d], Released(health, r)[d])
           /\ \A kind \in FailureKinds :
                 /\ HealthAfter(r, kind)[d] \in Health
                 /\ Gives(health[d], HealthAfter(r, kind)[d])
<1>1. /\ health \in HealthMap /\ health[d] \in Health /\ req[r].trial \in BOOLEAN
      /\ ProxyTypeOK /\ TrialHeld
  BY DEF IInv, ProxyTypeOK, FleetTypeOK, HealthMap, Request
<1> DEFINE g == Released(health, r)
<1>2. g \in HealthMap
  BY <1>1, ReleasedOthers
<1>3. g[d] = DropUnit(health[d], req[r].trial) \/ g[d] = health[d]
  BY <1>1 DEF Released, OnHeld, Rewrite, HealthMap
<1>4. Gives(health[d], g[d])
  BY <1>1, <1>3, GivesNothing
<1> HIDE DEF g
<1>5. ASSUME NEW kind \in FailureKinds
      PROVE  HealthAfter(r, kind)[d] \in Health /\ Gives(health[d], HealthAfter(r, kind)[d])
  <2>1. HealthAfter(r, kind) \in HealthMap
    BY <1>1, HealthAfterOthers
  <2>2. g[d] \in Health
    BY <1>2 DEF HealthMap
  <2>3. HealthAfter(r, kind)[d] = g[d] \/ HealthAfter(r, kind)[d] = Record(r, kind, g[d])
    <3>1. CASE req[r].live
      BY <3>1 DEF HealthAfter, OnHeld, Rewrite, g
    <3>2. CASE ~req[r].live
      BY <3>2 DEF HealthAfter, OnHeld, g
    <3> QED BY <3>1, <3>2
  <2>4. \/ Record(r, kind, g[d]) = g[d]
        \/ Record(r, kind, g[d]) = RecordFailure(g[d])
        \/ /\ kind \in {"loading", "auth", "mismatch"}
           /\ Record(r, kind, g[d]) = RequestState(g[d], kind)
    BY DEF Record, FailureKinds
  <2>6. Gives(g[d], HealthAfter(r, kind)[d])
    BY <2>2, <2>3, <2>4, GivesNothing
  <2> QED BY <1>4, <2>1, <2>6, GivesChain DEF HealthMap
<1> QED BY <1>2, <1>4, <1>5 DEF g, HealthMap

\* Taking a unit gives nothing.
LEMMA AdmitGives ==
    ASSUME NEW r, NEW t, NEW h \in HealthMap, NEW l, NEW m, NEW state,
           Admit(r, t, h, l, m, state), NEW d \in Deployments
    PROVE  Gives(h[d], health'[d])
<1>1. h[d] \in Health
  BY DEF HealthMap
<1>2. health'[d] = h[d] \/ health'[d] = TakeUnit(h[d])
  BY DEF Admit, Rewrite
<1> QED BY <1>1, <1>2, GivesNothing

\* A success changes the state of nothing, and counts for no deployment but
\* r's own.
LEMMA SuccessGives ==
    ASSUME NEW r \in Requests, NEW h \in HealthMap, NEW d \in Deployments
    PROVE  LET g == OnHeld(h, r, RecordSuccess)
           IN  /\ g[d].state = h[d].state
               /\ g[d] = h[d] \/ (req[r].live /\ req[r].d = d /\ Wins(h[d], g[d]))
<1>1. h[d] \in Health
  BY DEF HealthMap
<1>2. CASE req[r].live
  <2>1. OnHeld(h, r, RecordSuccess)[d] =
            IF d = req[r].d THEN RecordSuccess(h[d]) ELSE h[d]
    BY <1>2 DEF OnHeld, Rewrite
  <2> QED BY <1>1, <1>2, <2>1, SuccessWins
<1>3. CASE ~req[r].live
  BY <1>3 DEF OnHeld
<1> QED BY <1>2, <1>3

\* Giving a unit back changes nothing of a record but its trial slot.
LEMMA ReleasedSame ==
    ASSUME NEW r \in Requests, NEW h \in HealthMap, NEW d \in Deployments
    PROVE  LET g == Released(h, r)
           IN  /\ g[d].state = h[d].state /\ g[d].breaker = h[d].breaker
               /\ g[d].half_open_ok = h[d].half_open_ok
<1>1. h[d] \in Health
  BY DEF HealthMap
<1>2. Released(h, r)[d] = h[d] \/ Released(h, r)[d] = DropUnit(h[d], req[r].trial)
  BY DEF Released, OnHeld, Rewrite
<1> QED BY <1>1, <1>2 DEF DropUnit, Health

\* A step of a request that does not complete gives nothing.
LEMMA ProceedGives ==
    ASSUME IInv, NEW r \in Requests, Proceed(r), NEW d \in Deployments
    PROVE  Gives(health[d], health'[d])
<1>1. /\ health \in HealthMap /\ health[d] \in Health
      /\ req \in [Requests -> Request] /\ req[r] \in Request
      /\ ProxyTypeOK /\ TrialHeld
  BY DEF IInv, ProxyTypeOK, FleetTypeOK, HealthMap
<1>2. ASSUME NEW c \in Configs, NEW p \in Plans(c), NEW k \in DOMAIN p,
             NEW fam \in c.families, NEW strict \in BOOLEAN, NEW retry \in BOOLEAN,
             Arrive(r, c, p, k, fam, strict, retry)
      PROVE  Gives(health[d], health'[d])
  <2> DEFINE D == {p[i].d : i \in DOMAIN p}
             h == Seen(D)
  <2>1. \E l, m, state : Admit(r, p[k], h, l, m, state)
    BY <1>2 DEF Arrive
  <2>2. h \in HealthMap
    BY PlanTaken
  <2>3. h[d] = Looked(health[d]) \/ h[d] = health[d]
    <3> HIDE DEF D
    <3> QED BY DEF Seen, Rewrite
  <2>4. Gives(health[d], h[d])
    BY <1>1, <2>3, GivesNothing
  <2> HIDE DEF h
  <2> QED BY <2>1, <2>2, <2>4, AdmitGives, GivesChain
<1>3. ASSUME NEW kind \in FailureKinds, GiveUp(r, kind)
      PROVE  Gives(health[d], health'[d])
  BY <1>3, HealthAfterGives DEF GiveUp, Finish
<1>4. ASSUME NEW kind \in FailureKinds, NEW k \in 1 .. MaxAttempts,
             FailOver(r, kind, k)
      PROVE  Gives(health[d], health'[d])
  <2> DEFINE h == HealthAfter(r, kind)
  <2>1. h \in HealthMap
    BY <1>1, HealthAfterOthers
  <2>2. \E t, l, m, state : Admit(r, t, h, l, m, state)
    BY <1>4 DEF FailOver
  <2>3. Gives(health[d], h[d])
    BY HealthAfterGives
  <2> HIDE DEF h
  <2> QED BY <2>1, <2>2, <2>3, AdmitGives, GivesChain
<1>5. ASSUME EndUnjudged(r) \/ CloseOut(r)
      PROVE  Gives(health[d], health'[d])
  BY <1>5, HealthAfterGives DEF EndUnjudged, CloseOut, Finish
<1>6. ASSUME CommitStream(r) \/ RelayFails(r)
      PROVE  Gives(health[d], health'[d])
  <2>1. health'[d] = health[d] \/ health'[d] = RecordFailure(health[d])
    BY <1>1, <1>6 DEF CommitStream, RelayFails, fleetVars, OnHeld, Rewrite
  <2> QED BY <1>1, <2>1, GivesNothing
<1> QED BY <1>2, <1>3, <1>4, <1>5, <1>6 DEF Proceed, Begin

\* A request that completes makes nothing READY, and counts a success for the
\* deployment whose live record it holds.
LEMMA CompleteGives ==
    ASSUME IInv, NEW r \in Requests, Complete(r), NEW d \in Deployments
    PROVE  /\ health'[d].state = health[d].state
           /\ \/ Gives(health[d], health'[d])
              \/ req[r].live /\ req[r].d = d /\ Wins(health[d], health'[d])
<1>1. health \in HealthMap /\ health[d] \in Health /\ ProxyTypeOK /\ TrialHeld
  BY DEF IInv, ProxyTypeOK, FleetTypeOK, HealthMap
<1>2. CASE CommitBuffered(r)
  <2> DEFINE g == Released(health, r)
  <2>1. /\ g \in HealthMap /\ g[d].state = health[d].state
        /\ g[d].breaker = health[d].breaker
        /\ g[d].half_open_ok = health[d].half_open_ok
    BY <1>1, ReleasedSame, ReleasedOthers
  <2>2. health' = OnHeld(g, r, RecordSuccess)
    BY <1>2 DEF CommitBuffered, Finish
  <2> HIDE DEF g
  <2>3. /\ health'[d].state = g[d].state
        /\ health'[d] = g[d] \/ (/\ req[r].live /\ req[r].d = d
                                 /\ Wins(g[d], health'[d]))
    BY <2>1, <2>2, SuccessGives
  <2>4. Wins(g[d], health'[d]) => Wins(health[d], health'[d])
    BY <2>1 DEF Wins, Counted
  <2>5. health'[d] = g[d] => Gives(health[d], health'[d])
    BY <2>1 DEF Gives
  <2> QED BY <2>1, <2>3, <2>4, <2>5
<1>3. CASE RelayCompletes(r)
  <2> DEFINE g == OnHeld(health, r, RecordSuccess)
  <2>1. /\ g \in HealthMap /\ g[d].state = health[d].state
        /\ g[d] = health[d] \/ (/\ req[r].live /\ req[r].d = d
                                /\ Wins(health[d], g[d]))
    BY <1>1, SuccessGives, OnHeldOthers
  <2>2. health' = Released(g, r)
    BY <1>3 DEF RelayCompletes, Finish
  <2> HIDE DEF g
  <2>3. /\ health'[d].state = g[d].state /\ health'[d].breaker = g[d].breaker
        /\ health'[d].half_open_ok = g[d].half_open_ok
    BY <2>1, <2>2, ReleasedSame
  <2>4. Wins(health[d], g[d]) => Wins(health[d], health'[d])
    BY <2>3 DEF Wins
  <2>5. g[d] = health[d] => Gives(health[d], health'[d])
    BY <2>3 DEF Gives
  <2> QED BY <2>1, <2>3, <2>4, <2>5
<1> QED BY <1>2, <1>3 DEF Complete

\* Nothing else closes the breaker of a deployment that stays or counts a
\* success, and of what is no request only a probe's and a check's answer can
\* make a deployment READY.
LEMMA RestGives ==
    ASSUME IInv, Operate \/ Elapse \/ Probe, NEW d \in Deployments
    PROVE  /\ d \in cfg.deps \cap cfg'.deps /\ health'[d].breaker = "CLOSED"
                 => health[d].breaker = "CLOSED"
           /\ health'[d].breaker = "HALF_OPEN" =>
                 \/ health'[d].half_open_ok = 0
                 \/ /\ health[d].breaker = "HALF_OPEN"
                    /\ health'[d].half_open_ok = health[d].half_open_ok
           /\ \/ health'[d].state = "READY" => health[d].state = "READY"
              \/ health[d].state \notin Refused
              \/ \E n \in Nodes : /\ d \in checkDeps[n]
                                  /\ probing[n] = "models" /\ probing'[n] = "no"
<1>1. /\ d \in Deployments /\ health \in HealthMap /\ health[d] \in Health
      /\ probing \in [Nodes -> {"no", "health", "models"}]
  BY ConfigAssumption DEF IInv, ProxyTypeOK, FleetTypeOK, HealthMap, ConfigType
<1>3. CASE Operate \/ Elapse
  <2>1. \/ health'[d] \in {health[d], BreakerState(health[d]), Looked(health[d])}
        \/ health'[d] = [health[d] EXCEPT !.elapsed = TRUE]
        \/ health'[d] = Fresh /\ d \notin cfg.deps \cap cfg'.deps
    <3>1. ASSUME NEW c \in Configs, Reload(c)
          PROVE  \/ health'[d] = health[d]
                 \/ health'[d] = Fresh /\ d \notin cfg.deps \cap cfg'.deps
      BY <1>1, <3>1 DEF Reload, ReloadFleet, Kept
    <3>2. ASSUME NEW x \in Deployments, OpenElapses(x)
          PROVE  \/ health'[d] = health[d]
                 \/ health'[d] = [health[d] EXCEPT !.elapsed = TRUE]
      BY <1>1, <3>2 DEF OpenElapses, HealthMap
    <3>3. CASE Status
      BY <1>1, <3>3 DEF Status, Rewrite
    <3>4. ASSUME NEW D \in SUBSET Deployments, Weigh(D)
          PROVE  health'[d] \in {health[d], Looked(health[d])}
      BY <1>1, <3>4 DEF Weigh, Seen, Rewrite
    <3>5. ASSUME NEW n \in Nodes, Drain(n) \/ Undrain(n)
          PROVE  health'[d] = health[d]
      BY <3>5 DEF Drain, Undrain
    <3> QED BY <1>3, <3>1, <3>2, <3>3, <3>4, <3>5 DEF Operate, Elapse
  <2>2. Gives(health[d], [health[d] EXCEPT !.elapsed = TRUE])
    BY <1>1 DEF Gives, Health
  <2>3. CASE health'[d] = Fresh /\ d \notin cfg.deps \cap cfg'.deps
    BY <2>3 DEF Fresh
  <2>4. CASE ~(health'[d] = Fresh /\ d \notin cfg.deps \cap cfg'.deps)
    <3>1. Gives(health[d], health'[d])
      BY <1>1, <2>1, <2>2, <2>4, GivesNothing
    <3> QED BY <3>1 DEF Gives
  <2> QED BY <2>3, <2>4
<1>4. ASSUME NEW n \in Nodes, NEW result \in {"ready", "loading", "down"},
             NEW b \in BOOLEAN, ProbeAnswer(n, result, b)
      PROVE  /\ health'[d].breaker = health[d].breaker
             /\ health'[d].half_open_ok = health[d].half_open_ok
             /\ health[d].state \in Refused => health'[d].state = health[d].state
  <2> DEFINE p == IF d \in DepsOf(n) THEN OnProbe(health[d], result) ELSE health[d]
  <2>1. /\ p \in Health /\ p.breaker = health[d].breaker
        /\ p.half_open_ok = health[d].half_open_ok
        /\ health[d].state \in Refused => p.state = health[d].state
    BY <1>1, OnProbeType, ProbeForgivesNothing
  <2>2. health'[d] = p \/ health'[d] = MarkSent(p, n)
    BY <1>1, <1>4 DEF ProbeAnswer, Rewrite
  <2> HIDE DEF p
  <2>3. /\ MarkSent(p, n).breaker = p.breaker /\ MarkSent(p, n).state = p.state
        /\ MarkSent(p, n).half_open_ok = p.half_open_ok
    BY <2>1 DEF MarkSent, Health
  <2> QED BY <2>1, <2>2, <2>3
<1>5. ASSUME NEW n \in Nodes, NEW kind \in {"auth", "list", "error"},
             NEW missing \in SUBSET Deployments, ModelsAnswer(n, kind, missing)
      PROVE  /\ health'[d].breaker = health[d].breaker
             /\ health'[d].half_open_ok = health[d].half_open_ok
             /\ \/ health'[d].state = health[d].state
                \/ d \in checkDeps[n] /\ probing[n] = "models" /\ probing'[n] = "no"
  <2>1. PICK p : /\ \/ p = health[d]
                    \/ /\ d \in checkDeps[n]
                       /\ \E v \in {"auth", "mismatch", "ok"} :
                             p = OnModels(health[d], n, v)
                 /\ health'[d] = MarkAnswered(p, n)
    BY <1>1, <1>5 DEF ModelsAnswer
  <2>2. /\ p \in Health /\ p.breaker = health[d].breaker
        /\ p.half_open_ok = health[d].half_open_ok
    <3>1. \A v \in {"auth", "mismatch", "ok"} :
             /\ OnModels(health[d], n, v) \in Health
             /\ OnModels(health[d], n, v).breaker = health[d].breaker
             /\ OnModels(health[d], n, v).half_open_ok = health[d].half_open_ok
      BY <1>1, OnModelsType
    <3> QED BY <1>1, <2>1, <3>1
  <2>3. /\ health'[d].breaker = p.breaker /\ health'[d].state = p.state
        /\ health'[d].half_open_ok = p.half_open_ok
    BY <1>1, <2>1, <2>2 DEF MarkAnswered, Health
  <2>4. probing[n] = "models" /\ probing'[n] = "no"
    BY <1>1, <1>5 DEF ModelsAnswer
  <2> QED BY <2>1, <2>2, <2>3, <2>4
<1>6. CASE Probe
  <2>1. ASSUME \/ \E due \in SUBSET Nodes : TickStart(due)
               \/ \E held \in BOOLEAN : LeaseAnswer(held)
        PROVE  health' = health
    BY <2>1 DEF TickStart, LeaseAnswer
  <2> QED BY <1>4, <1>5, <1>6, <2>1 DEF Probe
<1> QED BY <1>3, <1>6

\* No reload moves a deployment to another node.
Settled == \A c, e \in Configs : \A d \in c.deps \cap e.deps : c.node[d] = e.node[d]

\* The deployments a check is going to judge are of the node it was sent to,
\* in every configuration that has them.
Checked ==
    \A n \in Nodes : \A d \in checkDeps[n] :
        \A c \in Configs : d \in c.deps => c.node[d] = n

LEMMA CheckedStep ==
    ASSUME Settled, IInv, Checked, [Next]_vars
    PROVE  Checked'
<1>1. cfg \in Configs /\ checkDeps \in [Nodes -> SUBSET Deployments]
  BY DEF IInv, ProxyTypeOK, FleetTypeOK
<1>2. ASSUME checkDeps' = checkDeps PROVE Checked'
  BY <1>2 DEF Checked
<1>3. ASSUME NEW n \in Nodes, NEW D \in {DepsOf(n), {}},
             checkDeps' = [checkDeps EXCEPT ![n] = D]
      PROVE  Checked'
  <2>1. \A d \in DepsOf(n) : \A c \in Configs : d \in c.deps => c.node[d] = n
    BY <1>1 DEF DepsOf, Settled
  <2> QED BY <1>1, <1>3, <2>1 DEF Checked
<1>4. CASE Operate \/ Elapse \/ UNCHANGED vars
  <2>1. checkDeps' = checkDeps
    BY <1>4 DEF Operate, Reload, ReloadFleet, Drain, Undrain, Status, Weigh, Elapse,
                OpenElapses, vars, fleetVars, probeVars
  <2> QED BY <1>2, <2>1
<1>5. CASE Probe
  <2>1. ASSUME \/ \E due \in SUBSET Nodes : TickStart(due)
               \/ \E held \in BOOLEAN : LeaseAnswer(held)
        PROVE  checkDeps' = checkDeps
    BY <2>1 DEF TickStart, LeaseAnswer, probeVars
  <2>2. ASSUME NEW n \in Nodes, NEW result \in {"ready", "loading", "down"},
               NEW b \in BOOLEAN, ProbeAnswer(n, result, b)
        PROVE  \E D \in {DepsOf(n), {}} : checkDeps' = [checkDeps EXCEPT ![n] = D]
    BY <2>2 DEF ProbeAnswer
  <2>3. ASSUME NEW n \in Nodes, NEW kind \in {"auth", "list", "error"},
               NEW missing \in SUBSET Deployments, ModelsAnswer(n, kind, missing)
        PROVE  checkDeps' = [checkDeps EXCEPT ![n] = {}]
    BY <2>3 DEF ModelsAnswer
  <2> QED BY <1>2, <1>3, <1>5, <2>1, <2>2, <2>3 DEF Probe
<1>6. ASSUME NEW r \in Requests, Serve(r) PROVE Checked'
  <2>1. UNCHANGED probeVars
    BY <1>6, ServeLeaves
  <2> QED BY <1>2, <2>1 DEF probeVars
<1> QED BY <1>4, <1>5, <1>6 DEF Next

\* Where reloads leave each deployment on its node, a deployment that refused
\* the key or the model becomes READY only when a check of its node answers.
THEOREM RefusalsOutliveProbes ==
    ASSUME Settled PROVE Spec => RefusalOutlivesProbes
<1> DEFINE Act == \A d \in cfg.deps \cap cfg'.deps :
              health[d].state \in Refused /\ health'[d].state = "READY"
              => /\ probing[cfg.node[d]] = "models"
                 /\ probing'[cfg.node[d]] = "no"
<1>1. Init => Checked
  BY DEF Init, FleetInit, Checked
<1>2. IInv /\ Checked /\ [Next]_vars => Checked'
  BY CheckedStep
<1>3. ASSUME IInv, Checked, [Next]_vars PROVE [Act]_vars
  <2> SUFFICES ASSUME Next, NEW d \in cfg.deps \cap cfg'.deps,
                      health[d].state \in Refused, health'[d].state = "READY"
               PROVE  /\ probing[cfg.node[d]] = "models"
                      /\ probing'[cfg.node[d]] = "no"
    BY <1>3
  <2>1. d \in Deployments /\ cfg \in Configs /\ health[d].state # "READY"
    BY <1>3, ConfigAssumption DEF IInv, ProxyTypeOK, FleetTypeOK, ConfigType, Refused
  <2>2. Operate \/ Elapse \/ Probe
    <3>1. ASSUME NEW r \in Requests, Serve(r) PROVE FALSE
      BY <1>3, <2>1, <3>1, ProceedGives, CompleteGives DEF Serve, Gives
    <3> QED BY <1>3, <3>1 DEF Next
  <2>3. PICK n \in Nodes : /\ d \in checkDeps[n]
                           /\ probing[n] = "models" /\ probing'[n] = "no"
    BY <1>3, <2>1, <2>2, RestGives
  <2>4. cfg.node[d] = n
    BY <1>3, <2>1, <2>3 DEF Checked
  <2> QED BY <2>3, <2>4
<1> QED BY <1>1, <1>2, <1>3, Inductive, PTL DEF Spec, RefusalOutlivesProbes

-----------------------------------------------------------------------------
(***************************************************************************)
(* The promise of Router. What is left of a plan names each deployment     *)
(* once and not the one the request is at, and is gone once a byte was     *)
(* sent; so what a step does to one request and to the counters is a step  *)
(* of Router.                                                              *)
(***************************************************************************)
PlanOK(q) ==
    /\ q.phase = "idle" => q.d = None /\ q.rest = <<>>
    /\ q.phase # "idle" => q.d \in Deployments
    /\ \A i \in DOMAIN q.rest : q.rest[i].d \in Deployments \ {q.d}
    /\ \A i, j \in DOMAIN q.rest : i # j => q.rest[i].d # q.rest[j].d
    /\ Len(q.rest) < MaxAttempts
    /\ q.phase \in {"relay", "broken"} => q.rest = <<>>

PlanInv == \A r \in Requests : PlanOK(req[r])

\* What a step of its own may make of request q
Arrives(q, s) == q.phase = "idle" /\ s.phase = "attempt"
Retries(q, s) ==
    /\ q.phase = "attempt" /\ s.phase = "attempt"
    /\ s.d \in Ahead(q)
    /\ Ahead(s) \in SUBSET (Ahead(q) \ {s.d})
    /\ Len(s.rest) < Len(q.rest)
Commits(q, s) == q.phase = "attempt" /\ s.phase = "relay" /\ s.d = q.d
Leaves(q, s) == q.phase # "idle" /\ s = Idle
Breaks(q, s) == /\ q.phase = "relay" /\ s.phase = "broken"
                /\ s.d = q.d /\ s.rest = q.rest

Routes(q, s) ==
    Arrives(q, s) \/ Retries(q, s) \/ Commits(q, s) \/ Leaves(q, s) \/ Breaks(q, s)

\* The plan behind its k-th target.
LEMMA TailOfPlan ==
    ASSUME NEW p \in Seq(Target), NEW k \in DOMAIN p,
           \A i, j \in DOMAIN p : i # j => p[i].d # p[j].d
    PROVE  LET s == SubSeq(p, k + 1, Len(p))
           IN  /\ s \in Seq(Target) /\ Len(s) = Len(p) - k
               /\ p[k].d \in Deployments
               /\ \A i \in DOMAIN s : s[i].d \in Deployments \ {p[k].d}
               /\ \A i \in DOMAIN s : \E j \in DOMAIN p : s[i] = p[j]
               /\ \A i, j \in DOMAIN s : i # j => s[i].d # s[j].d
<1> DEFINE s == SubSeq(p, k + 1, Len(p))
<1>1. k \in 1 .. Len(p) /\ Len(p) \in Nat
  OBVIOUS
<1>2. s \in Seq(Target) /\ Len(s) = Len(p) - k
  BY <1>1, PlanRest
<1>3. \A i \in DOMAIN s : k + i \in DOMAIN p /\ k + i # k /\ s[i] = p[k + i]
  BY <1>1
<1>4. ASSUME NEW i \in DOMAIN p PROVE p[i].d \in Deployments
  <2>1. p[i] \in Target
    OBVIOUS
  <2> QED BY <2>1 DEF Target
<1>5. DOMAIN s \subseteq Nat
  BY <1>2
<1> HIDE DEF s
<1>6. \A i \in DOMAIN s : s[i].d \in Deployments \ {p[k].d}
  BY <1>3, <1>4
<1>7. \A i, j \in DOMAIN s : i # j => s[i].d # s[j].d
  <2> SUFFICES ASSUME NEW i \in DOMAIN s, NEW j \in DOMAIN s, i # j
               PROVE  s[i].d # s[j].d
    OBVIOUS
  <2>1. k + i # k + j
    BY <1>1, <1>5
  <2> QED BY <1>3, <2>1
<1> QED BY <1>2, <1>3, <1>4, <1>6, <1>7 DEF s

\* Each step of a request, and what it does to the counters.
LEMMA ServeRoutes ==
    ASSUME IInv, InflightExact, PlanInv, NEW r \in Requests, Serve(r)
    PROVE  /\ \A w \in Requests \ {r} : req'[w] = req[w]
           /\ PlanOK(req'[r]) /\ Routes(req[r], req'[r])
           /\ \A d \in Deployments : inflight'[d] =
                 inflight[d] - One(On(req[r], d)) + One(On(req'[r], d))
<1> DEFINE Moves == /\ \A w \in Requests \ {r} : req'[w] = req[w]
                    /\ PlanOK(req'[r]) /\ Routes(req[r], req'[r])
                    /\ \A d \in Deployments : inflight'[d] =
                          inflight[d] - One(On(req[r], d)) + One(On(req'[r], d))
<1>1. /\ req \in [Requests -> Request] /\ req[r] \in Request
      /\ inflight \in [Deployments -> Nat] /\ nodeInflight \in [Nodes -> Nat]
      /\ ProxyTypeOK /\ PlanOK(req[r])
  BY DEF IInv, ProxyTypeOK, FleetTypeOK, PlanInv
<1>2. ASSUME NEW c \in Configs, NEW p \in Plans(c), NEW k \in DOMAIN p,
             NEW fam \in c.families, NEW strict \in BOOLEAN, NEW retry \in BOOLEAN,
             Arrive(r, c, p, k, fam, strict, retry)
      PROVE  Moves
  <2> DEFINE h == Seen({p[i].d : i \in DOMAIN p})
             queued == Len(p) = 1 /\ nodeInflight[p[1].n] >= Slots[p[1].n]
             state == Begun(p, k, queued, strict, retry, fam)
             rest == SubSeq(p, k + 1, Len(p))
  <2>1. Admit(r, p[k], h, inflight, nodeInflight, state)
    BY <1>2 DEF Arrive
  <2>2. queued \in BOOLEAN
    OBVIOUS
  <2> HIDE DEF queued
  <2>3. p[k] \in Target /\ state \in Request
    BY <2>2, PlanTaken
  <2>4. req[r].phase = "idle"
    BY <1>2 DEF Arrive
  <2>5. /\ \A d \in Deployments : inflight[d] = inflight[d] - One(On(req[r], d))
        /\ \A n \in Nodes : nodeInflight[n] = nodeInflight[n] - One(OnNode(req[r], n))
    BY <1>1, <2>4 DEF On, OnNode, One
  <2>6. state.rest = rest
    BY DEF Begun, Idle
  <2>7. /\ p \in Seq(Target) /\ Len(p) <= MaxAttempts
        /\ \A i, j \in DOMAIN p : i # j => p[i].d # p[j].d
    <3>1. PICK m \in 1 .. MaxAttempts : p \in [1 .. m -> Target]
      BY DEF Plans
    <3>2. \A i, j \in DOMAIN p : i # j => p[i].d # p[j].d
      BY DEF Plans
    <3> QED BY <3>1, <3>2, RequestAssumption
  <2>8. k \in 1 .. Len(p) /\ MaxAttempts \in Nat
    BY <2>7, RequestAssumption
  <2>9. /\ Len(rest) = Len(p) - k
        /\ p[k].d \in Deployments
        /\ \A i \in DOMAIN rest : rest[i].d \in Deployments \ {p[k].d}
        /\ \A i, j \in DOMAIN rest : i # j => rest[i].d # rest[j].d
    <3> HIDE DEF rest
    <3> QED BY <2>7, TailOfPlan, Zenon DEF rest
  <2> HIDE DEF h, state, rest
  <2>12. Len(rest) < MaxAttempts
    BY <2>7, <2>8, <2>9
  <2>10. /\ \A w \in Requests \ {r} : req'[w] = req[w]
         /\ req'[r].phase = "attempt" /\ req'[r].d = p[k].d
         /\ req'[r].rest = rest
         /\ \A d \in Deployments : inflight'[d] =
               inflight[d] - One(On(req[r], d)) + One(On(req'[r], d))
    BY <1>1, <2>1, <2>3, <2>5, <2>6, AdmitMoves
  <2>11. PlanOK(req'[r]) /\ Arrives(req[r], req'[r])
    BY <2>4, <2>9, <2>10, <2>12 DEF PlanOK, Arrives
  <2> QED BY <2>10, <2>11 DEF Routes
<1>3. ASSUME NEW kind \in FailureKinds, NEW k \in 1 .. MaxAttempts,
             FailOver(r, kind, k)
      PROVE  Moves
  <2> DEFINE h == HealthAfter(r, kind)
             plan == req[r].rest
             t == plan[k]
             rest == SubSeq(plan, k + 1, Len(plan))
             state == [req[r] EXCEPT !.rest = rest, !.queued = FALSE]
  <2>1. Holding(r) /\ req[r].phase = "attempt"
    BY <1>3 DEF FailOver, Holding
  <2>2. plan \in Seq(Target) /\ k \in DOMAIN plan
    BY <1>1, <1>3 DEF FailOver, NextTarget, Request
  <2>3. t \in Target /\ rest \in Seq(Target)
    BY <2>2, PlanRest
  <2>4. state \in Request /\ state.rest = rest
    BY <1>1, <2>3 DEF Request
  <2>5. Admit(r, t, h, LoadLess(r), NodeLoadLess(r), state)
    BY <1>3 DEF FailOver
  <2>6. k \in 1 .. Len(plan) /\ Len(plan) \in Nat /\ Len(plan) < MaxAttempts
    BY <1>1, <2>2 DEF PlanOK
  <2>7. /\ Len(rest) = Len(plan) - k
        /\ t.d \in Deployments
        /\ \A i \in DOMAIN rest : rest[i].d \in Deployments \ {t.d}
        /\ \A i \in DOMAIN rest : \E j \in DOMAIN plan : rest[i] = plan[j]
        /\ \A i, j \in DOMAIN rest : i # j => rest[i].d # rest[j].d
    <3>1. \A i, j \in DOMAIN plan : i # j => plan[i].d # plan[j].d
      BY <1>1 DEF PlanOK
    <3> HIDE DEF plan, rest, t
    <3> QED BY <2>2, <3>1, TailOfPlan, Zenon DEF rest, t
  <2> HIDE DEF h, t, state, rest
  <2>8. /\ \A w \in Requests \ {r} : req'[w] = req[w]
        /\ req'[r].phase = "attempt" /\ req'[r].d = t.d
        /\ req'[r].rest = rest
        /\ \A d \in Deployments : inflight'[d] =
              inflight[d] - One(On(req[r], d)) + One(On(req'[r], d))
    <3>1. /\ LoadLess(r) \in [Deployments -> Nat] /\ NodeLoadLess(r) \in [Nodes -> Nat]
          /\ \A d \in Deployments : LoadLess(r)[d] = inflight[d] - One(On(req[r], d))
          /\ \A n \in Nodes :
                NodeLoadLess(r)[n] = nodeInflight[n] - One(OnNode(req[r], n))
      BY <1>1, <2>1, LoadType, LoadLessExact
    <3> HIDE DEF plan
    <3> QED BY <2>3, <2>4, <2>5, <3>1, AdmitMoves
  <2>9. Len(rest) < Len(plan) /\ Len(rest) < MaxAttempts
    BY <2>6, <2>7, RequestAssumption
  <2>10. PlanOK(req'[r])
    BY <2>7, <2>8, <2>9 DEF PlanOK
  <2>11. t.d \in Ahead(req[r])
    BY <2>2 DEF Ahead, t
  <2>12. Ahead(req'[r]) \in SUBSET (Ahead(req[r]) \ {t.d})
    BY <2>7, <2>8 DEF Ahead
  <2>13. Retries(req[r], req'[r])
    BY <2>1, <2>8, <2>9, <2>11, <2>12 DEF Retries
  <2> QED BY <2>8, <2>10, <2>13 DEF Routes
<1>4. ASSUME Holding(r), NEW h, Finish(r, h)
      PROVE  Moves
  <2>1. /\ \A w \in Requests \ {r} : req'[w] = req[w]
        /\ req'[r] = Idle
        /\ \A d \in Deployments : inflight'[d] =
              inflight[d] - One(On(req[r], d)) + One(On(req'[r], d))
    BY <1>4, FinishMoves
  <2>2. PlanOK(Idle)
    BY RequestAssumption DEF PlanOK, Idle
  <2> QED BY <1>4, <2>1, <2>2 DEF Routes, Leaves, Holding
<1>5. ASSUME NEW kind \in FailureKinds, GiveUp(r, kind)
      PROVE  Moves
  BY <1>4, <1>5 DEF GiveUp, Holding
<1>6. CASE EndUnjudged(r) \/ CommitBuffered(r) \/ RelayCompletes(r) \/ CloseOut(r)
  BY <1>4, <1>6
     DEF EndUnjudged, CommitBuffered, RelayCompletes, CloseOut, Holding
<1>7. CASE CommitStream(r)
  <2> DEFINE q == [req[r] EXCEPT !.phase = "relay", !.rest = <<>>,
                       !.queued = FALSE, !.strict = FALSE, !.retry = FALSE,
                       !.family = {}]
  <2>1. q.phase = "relay" /\ q.d = req[r].d /\ q.rest = <<>>
    BY <1>1 DEF Request
  <2>2. req' = [req EXCEPT ![r] = q] /\ req[r].phase = "attempt" /\ inflight' = inflight
    BY <1>7 DEF CommitStream, fleetVars, loadVars
  <2> HIDE DEF q
  <2>3. req'[r] = q /\ \A w \in Requests \ {r} : req'[w] = req[w]
    BY <1>1, <2>2
  <2>4. \A d \in Deployments : inflight'[d] =
           inflight[d] - One(On(req[r], d)) + One(On(req'[r], d))
    BY <1>1, <2>1, <2>2, <2>3 DEF On, One
  <2>5. PlanOK(q) /\ Commits(req[r], q)
    BY <1>1, <2>1, <2>2, RequestAssumption DEF PlanOK, Commits
  <2> QED BY <2>3, <2>4, <2>5 DEF Routes
<1>8. CASE RelayFails(r)
  <2> DEFINE q == [req[r] EXCEPT !.phase = "broken"]
  <2>1. q.phase = "broken" /\ q.d = req[r].d /\ q.rest = req[r].rest
    BY <1>1 DEF Request
  <2>2. req' = [req EXCEPT ![r] = q] /\ req[r].phase = "relay" /\ inflight' = inflight
    BY <1>8 DEF RelayFails, loadVars
  <2> HIDE DEF q
  <2>3. req'[r] = q /\ \A w \in Requests \ {r} : req'[w] = req[w]
    BY <1>1, <2>2
  <2>4. \A d \in Deployments : inflight'[d] =
           inflight[d] - One(On(req[r], d)) + One(On(req'[r], d))
    BY <1>1, <2>1, <2>2, <2>3 DEF On, One
  <2>5. PlanOK(q) /\ Breaks(req[r], q)
    BY <1>1, <2>1, <2>2 DEF PlanOK, Breaks
  <2> QED BY <2>3, <2>4, <2>5 DEF Routes
<1> QED BY <1>2, <1>3, <1>5, <1>6, <1>7, <1>8 DEF Serve, Proceed, Complete, Begin

\* The steps that are of no request: none of them moves one.
LEMMA RestRoutes ==
    ASSUME IInv, [Next]_vars, \A r \in Requests : ~Serve(r)
    PROVE  /\ inflight' = inflight
           /\ \A r \in Requests : /\ req'[r].phase = req[r].phase
                                  /\ req'[r].d = req[r].d
                                  /\ req'[r].rest = req[r].rest
<1>1. req \in [Requests -> Request]
  BY DEF IInv, ProxyTypeOK
<1>2. CASE UNCHANGED <<inflight, req>>
  BY <1>2
<1>3. ASSUME NEW c \in Configs, Reload(c)
      PROVE  /\ inflight' = inflight
             /\ \A r \in Requests : /\ req'[r].phase = req[r].phase
                                    /\ req'[r].d = req[r].d
                                    /\ req'[r].rest = req[r].rest
  <2>1. ASSUME NEW r \in Requests
        PROVE  /\ req'[r].phase = req[r].phase
               /\ req'[r].d = req[r].d /\ req'[r].rest = req[r].rest
    <3>1. req'[r] = [req[r] EXCEPT !.live = @ /\ req[r].d \in c.deps]
      BY <1>3 DEF Reload
    <3> QED BY <1>1, <3>1 DEF Request
  <2>2. UNCHANGED loadVars
    BY <1>3 DEF Reload, ReloadFleet
  <2> QED BY <2>1, <2>2 DEF loadVars
<1>4. CASE Operate
  <2>1. (\E c \in Configs : Reload(c)) \/ UNCHANGED <<inflight, req>>
    BY <1>4 DEF Operate, Drain, Undrain, Status, Weigh, loadVars
  <2> QED BY <1>2, <1>3, <2>1
<1>5. CASE Probe
  <2>1. UNCHANGED <<inflight, req>>
    BY <1>5 DEF Probe, TickStart, ProbeAnswer, ModelsAnswer, LeaseAnswer, loadVars
  <2> QED BY <1>2, <2>1
<1>6. CASE Elapse \/ UNCHANGED vars
  BY <1>2, <1>6 DEF Elapse, OpenElapses, vars, fleetVars, loadVars
<1> QED BY <1>4, <1>5, <1>6 DEF Next

\* What is left of a plan stays so.
LEMMA PlanStep ==
    ASSUME IInv, InflightExact, PlanInv, [Next]_vars
    PROVE  PlanInv'
<1>1. ASSUME NEW r \in Requests, Serve(r) PROVE PlanInv'
  <2>1. ASSUME NEW w \in Requests PROVE PlanOK(req'[w])
    BY <1>1, ServeRoutes DEF PlanInv
  <2> QED BY <2>1 DEF PlanInv
<1>2. CASE \A r \in Requests : ~Serve(r)
  <2>1. ASSUME NEW w \in Requests PROVE PlanOK(req'[w])
    BY <1>2, RestRoutes DEF PlanInv, PlanOK
  <2> QED BY <2>1 DEF PlanInv
<1> QED BY <1>1, <1>2

\* One request moves as it may: a step of Router.
LEMMA RouteStep ==
    ASSUME IInv, NEW r \in Requests,
           PlanOK(req[r]), PlanOK(req'[r]), Routes(req[r], req'[r]),
           req' \in [Requests -> Request],
           inflight' \in [Deployments -> Nat],
           \A w \in Requests \ {r} : req'[w] = req[w],
           \A d \in Deployments : inflight'[d] =
              inflight[d] - One(On(req[r], d)) + One(On(req'[r], d))
    PROVE  Routed!Next \/ UNCHANGED Routed!vars
<1> DEFINE at == [w \in Requests |-> req[w].d]
           sent == [w \in Requests |-> req[w].phase \in {"relay", "broken"}]
           ahead == [w \in Requests |-> Ahead(req[w])]
           left == [w \in Requests |-> Len(req[w].rest)]
           q == req[r]
           s == req'[r]
<1>1. /\ q \in Request /\ s \in Request /\ MaxAttempts \in Nat \ {0}
      /\ None \notin Deployments /\ inflight \in [Deployments -> Nat]
      /\ PlanOK(q) /\ PlanOK(s) /\ Routes(q, s)
  BY RequestAssumption DEF IInv, ProxyTypeOK, FleetTypeOK
<1>2. /\ at' = [at EXCEPT ![r] = s.d]
      /\ sent' = [sent EXCEPT ![r] = s.phase \in {"relay", "broken"}]
      /\ ahead' = [ahead EXCEPT ![r] = Ahead(s)]
      /\ left' = [left EXCEPT ![r] = Len(s.rest)]
  OBVIOUS
<1>3. /\ at[r] = q.d /\ sent[r] = (q.phase \in {"relay", "broken"})
      /\ ahead[r] = Ahead(q) /\ left[r] = Len(q.rest)
  OBVIOUS
<1>4. Routed!Go(r, s.d)
  <2>1. ASSUME NEW d \in Deployments
        PROVE  /\ One(On(q, d)) = Routed!One(d = q.d)
               /\ One(On(s, d)) = Routed!One(d = s.d)
    BY <1>1 DEF PlanOK, Idle, One, On, Routed!One
  <2>2. inflight' = [d \in Deployments |->
            inflight[d] - Routed!One(d = q.d) + Routed!One(d = s.d)]
    BY <2>1
  <2> HIDE DEF q, s
  <2> QED BY <1>2, <1>3, <2>2 DEF Routed!Go
<1>5. Len(s.rest) \in Nat /\ Len(q.rest) \in Nat
  BY <1>1 DEF Request
<1>6. Routed!Hopes(r, Ahead(s), Len(s.rest))
  BY <1>2 DEF Routed!Hopes
<1>7. s.rest = <<>> => Ahead(s) = {} /\ Len(s.rest) = 0
  BY DEF Ahead
<1>8. (q.phase \in {"relay", "broken"} <=> s.phase \in {"relay", "broken"}) => sent' = sent
  OBVIOUS
<1>9. /\ s.phase \in {"relay", "broken"} => sent' = [sent EXCEPT ![r] = TRUE]
      /\ s.phase \notin {"relay", "broken"} => sent' = [sent EXCEPT ![r] = FALSE]
  <2> DEFINE b == s.phase \in {"relay", "broken"}
  <2>1. sent' = [sent EXCEPT ![r] = b]
    BY <1>2
  <2>2. (b => b = TRUE) /\ (~b => b = FALSE)
    OBVIOUS
  <2> HIDE DEF b
  <2>3. /\ b => sent' = [sent EXCEPT ![r] = TRUE]
        /\ ~b => sent' = [sent EXCEPT ![r] = FALSE]
    BY <2>1, <2>2, Zenon
  <2> QED BY <2>3 DEF b
<1>10. ASSUME q.phase # "idle", s.phase # "idle", s.d = q.d
       PROVE  at' = at /\ inflight' = inflight
  <2>1. \A d \in Deployments : On(q, d) <=> On(s, d)
    BY <1>10 DEF On
  <2>2. \A d \in Deployments : inflight'[d] = inflight[d]
    BY <1>1, <2>1 DEF One
  <2>3. at' = at
    BY <1>10
  <2> QED BY <1>1, <2>2, <2>3
<1> HIDE DEF q, s
<1>11. CASE Arrives(q, s)
  <2>1. s.d \in Deployments /\ Ahead(s) \in SUBSET (Deployments \ {s.d})
    BY <1>1, <1>11 DEF Arrives, PlanOK, Ahead
  <2>2. Len(s.rest) \in 0 .. MaxAttempts - 1
    BY <1>1, <1>5 DEF PlanOK
  <2>3. at[r] = None
    BY <1>1, <1>3, <1>11 DEF Arrives, PlanOK
  <2>4. UNCHANGED sent
    BY <1>8, <1>11 DEF Arrives
  <2>5. \E d \in Deployments : \E D \in SUBSET (Deployments \ {d}) :
           Routed!Go(r, d) /\ \E m \in 0 .. MaxAttempts - 1 : Routed!Hopes(r, D, m)
    <3>1. PICK d \in Deployments, D \in SUBSET (Deployments \ {s.d}), m \in 0 .. MaxAttempts - 1 :
             d = s.d /\ D = Ahead(s) /\ m = Len(s.rest)
      BY <2>1, <2>2
    <3>2. Routed!Go(r, d)
      BY <1>4, <3>1 DEF Routed!Go
    <3>3. Routed!Hopes(r, D, m)
      BY <1>6, <3>1 DEF Routed!Hopes
    <3>4. D \in SUBSET (Deployments \ {d})
      BY <3>1
    <3> QED BY <3>2, <3>3, <3>4
  <2>6. Routed!Arrive(r)
    BY <2>3, <2>4, <2>5, Zenon DEF Routed!Arrive
  <2> QED BY <2>6 DEF Routed!Next
<1>12. CASE Retries(q, s)
  <2>1. s.d \in ahead[r] /\ Ahead(s) \in SUBSET (ahead[r] \ {s.d})
    BY <1>3, <1>12 DEF Retries
  <2>2. Len(s.rest) \in 0 .. left[r] - 1
    BY <1>3, <1>5, <1>12 DEF Retries
  <2>3. at[r] # None
    BY <1>1, <1>3, <1>12 DEF Retries, PlanOK
  <2>4. ~sent[r]
    BY <1>3, <1>12 DEF Retries
  <2>5. UNCHANGED sent
    BY <1>8, <1>12 DEF Retries
  <2>6. \E d \in ahead[r] : \E D \in SUBSET (ahead[r] \ {d}) :
           Routed!Go(r, d) /\ \E m \in 0 .. left[r] - 1 : Routed!Hopes(r, D, m)
    <3>1. PICK d \in ahead[r], D \in SUBSET (ahead[r] \ {s.d}), m \in 0 .. left[r] - 1 :
             d = s.d /\ D = Ahead(s) /\ m = Len(s.rest)
      BY <2>1, <2>2
    <3>2. Routed!Go(r, d)
      BY <1>4, <3>1 DEF Routed!Go
    <3>3. Routed!Hopes(r, D, m)
      BY <1>6, <3>1 DEF Routed!Hopes
    <3>4. D \in SUBSET (ahead[r] \ {d})
      BY <3>1
    <3> QED BY <3>2, <3>3, <3>4
  <2>7. Routed!Retry(r)
    BY <2>3, <2>4, <2>5, <2>6, Zenon DEF Routed!Retry
  <2> QED BY <2>7 DEF Routed!Next
<1>13. CASE Commits(q, s)
  <2>1. at[r] # None
    BY <1>1, <1>3, <1>13 DEF Commits, PlanOK
  <2>2. ~sent[r]
    BY <1>3, <1>13 DEF Commits
  <2>3. sent' = [sent EXCEPT ![r] = TRUE]
    BY <1>9, <1>13 DEF Commits
  <2>4. Routed!Hopes(r, {}, 0)
    <3>1. s.rest = <<>>
      BY <1>1, <1>13 DEF Commits, PlanOK
    <3> QED BY <1>2, <1>7, <3>1 DEF Routed!Hopes
  <2>5. UNCHANGED <<at, inflight>>
    BY <1>10, <1>13 DEF Commits
  <2>6. Routed!Commit(r)
    BY <2>1, <2>2, <2>3, <2>4, <2>5, Zenon DEF Routed!Commit
  <2> QED BY <2>6 DEF Routed!Next
<1>14. CASE Leaves(q, s)
  <2>1. at[r] # None
    BY <1>1, <1>3, <1>14 DEF Leaves, PlanOK
  <2>2. s.d = None /\ s.rest = <<>> /\ s.phase = "idle"
    BY <1>14 DEF Leaves, Idle
  <2>3. Routed!Go(r, None)
    BY <1>4, <2>2 DEF Routed!Go
  <2>4. sent' = [sent EXCEPT ![r] = FALSE]
    BY <1>9, <2>2
  <2>5. Routed!Hopes(r, {}, 0)
    BY <1>2, <1>7, <2>2 DEF Routed!Hopes
  <2>6. Routed!Leave(r)
    BY <2>1, <2>3, <2>4, <2>5, Zenon DEF Routed!Leave
  <2> QED BY <2>6 DEF Routed!Next
<1>15. CASE Breaks(q, s)
  <2>1. s.d = q.d /\ s.rest = q.rest
    BY <1>15 DEF Breaks
  <2>2. ahead' = ahead /\ left' = left
    BY <2>1 DEF q, s, Ahead
  <2>3. sent' = sent
    BY <1>8, <1>15 DEF Breaks
  <2>4. at' = at /\ inflight' = inflight
    BY <1>10, <1>15 DEF Breaks
  <2> QED BY <2>2, <2>3, <2>4, Zenon DEF Routed!vars
<1> QED BY <1>1, <1>11, <1>12, <1>13, <1>14, <1>15 DEF Routes

\* A request is at one deployment at a time, goes on only before a byte was
\* sent and never back to one it tried, at most MaxAttempts times, and the
\* load of a deployment is the requests at it: what every interleaving of
\* attempts, hang-ups, failures, checks, drains and reloads implements.
THEOREM ProxyKeepsPromise == Spec => ImplementsRouter
<1>1. Init => PlanInv
  <2> SUFFICES ASSUME Init, NEW r \in Requests PROVE PlanOK(req[r])
    BY DEF PlanInv
  <2> QED BY RequestAssumption DEF Init, Idle, PlanOK
<1>2. IInv /\ InflightExact /\ PlanInv /\ [Next]_vars => PlanInv'
  BY PlanStep
<1>3. ASSUME Init PROVE Routed!Init
  <2>1. /\ req = [r \in Requests |-> Idle] /\ Ahead(Idle) = {} /\ Len(Idle.rest) = 0
        /\ inflight = [d \in Deployments |-> 0]
    BY <1>3 DEF Init, FleetInit, Idle, Ahead
  <2>2. Idle.d = None /\ Idle.phase \notin {"relay", "broken"}
    BY DEF Idle
  <2> HIDE DEF Ahead, Idle
  <2>3. [r \in Requests |-> req[r].phase \in {"relay", "broken"}] = [r \in Requests |-> FALSE]
    <3>1. \A r \in Requests : (req[r].phase \in {"relay", "broken"}) = FALSE
      BY <2>1, <2>2
    <3> QED BY <3>1, Zenon
  <2>4. /\ [r \in Requests |-> req[r].d] = [r \in Requests |-> None]
        /\ [r \in Requests |-> Ahead(req[r])] = [r \in Requests |-> {}]
        /\ [r \in Requests |-> Len(req[r].rest)] = [r \in Requests |-> 0]
    BY <2>1, <2>2
  <2> QED BY <2>1, <2>3, <2>4, Zenon DEF Routed!Init
<1>4. ASSUME IInv, IInv', InflightExact, PlanInv, PlanInv', [Next]_vars
      PROVE  [Routed!Next]_Routed!vars
  <2>1. ASSUME NEW r \in Requests, Serve(r)
        PROVE  Routed!Next \/ UNCHANGED Routed!vars
    <3>1. req' \in [Requests -> Request] /\ inflight' \in [Deployments -> Nat]
      BY <1>4 DEF IInv, ProxyTypeOK, FleetTypeOK
    <3> QED BY <1>4, <2>1, <3>1, ServeRoutes, RouteStep DEF PlanInv
  <2>2. CASE \A r \in Requests : ~Serve(r)
    BY <1>4, <2>2, RestRoutes DEF Routed!vars, Ahead
  <2> QED BY <2>1, <2>2
<1> QED BY <1>1, <1>2, <1>3, <1>4, Inductive, InflightAlwaysExact, PTL
        DEF Spec, ImplementsRouter, Routed!Spec

-----------------------------------------------------------------------------
(***************************************************************************)
(* One trial at a time, as long as no trial outlives the cool-down of a    *)
(* breaker that another request opened again                               *)
(***************************************************************************)

\* r holds the trial of d's record
Tries(r, d) == Holding(r) /\ req[r].d = d /\ req[r].live /\ req[r].trial

\* Whoever holds the trial of a HALF_OPEN deployment has its slot, alone
OneClaim ==
    \A d \in Deployments : health[d].breaker = "HALF_OPEN" =>
        \A w \in Requests : Tries(w, d) =>
            /\ health[d].trial_inflight = 1
            /\ \A v \in Requests : Tries(v, d) => v = w

\* No OPEN breaker turns HALF_OPEN while a trial of its last HALF_OPEN lives
NoneOutlives ==
    \A d \in Deployments :
        health[d].breaker = "OPEN" /\ health'[d].breaker = "HALF_OPEN"
        => \A w \in Requests : ~Tries(w, d)

\* g is HALF_OPEN only if h was, with the same slot, or was about to be
Halves(h, g) ==
    /\ g.breaker = "HALF_OPEN" =>
          \/ h.breaker = "OPEN" /\ h.elapsed
          \/ h.breaker = "HALF_OPEN" /\ g.trial_inflight = h.trial_inflight
    /\ g.breaker = "OPEN" /\ g.elapsed => h.breaker = "OPEN" /\ h.elapsed

\* The same of a health map on the way through a step of r, which may have
\* given its own slot back
Steady(h, r) ==
    \A d \in Deployments :
        /\ h[d].breaker = "HALF_OPEN" =>
              \/ health[d].breaker = "OPEN" /\ health[d].elapsed
              \/ /\ health[d].breaker = "HALF_OPEN"
                 /\ Tries(r, d) \/ h[d].trial_inflight = health[d].trial_inflight
        /\ h[d].breaker = "OPEN" /\ h[d].elapsed =>
              health[d].breaker = "OPEN" /\ health[d].elapsed

\* What is recorded and what is looked at move a breaker so.
LEMMA RecordsHalve ==
    ASSUME NEW h \in Health
    PROVE  /\ Halves(h, h) /\ Halves(h, BreakerState(h)) /\ Halves(h, Looked(h))
           /\ Halves(h, RecordFailure(h)) /\ Halves(h, RecordSuccess(h))
           /\ \A kind \in {"loading", "auth", "mismatch"} :
                 Halves(h, RequestState(h, kind))
<1> DEFINE g == BreakerState(h)
           won == [g EXCEPT !.half_open_ok = Upto(@, SuccessThreshold)]
<1>1. g \in Health /\ Halves(h, g) /\ Halves(h, h)
  BY BreakerStateType DEF BreakerState, Halves, Health
<1>2. Halves(h, Looked(h))
  BY <1>1 DEF Looked
<1>3. /\ RecordFailure(h) \in {Open(g), [g EXCEPT !.fails = @ + 1]}
      /\ RecordSuccess(h) \in
            {[g EXCEPT !.fails = 0], won,
             [won EXCEPT !.breaker = "CLOSED", !.fails = 0]}
  BY DEF RecordFailure, RecordSuccess
<1> HIDE DEF g
<1>4. Open(g).breaker = "OPEN" /\ Open(g).elapsed = FALSE
  BY <1>1 DEF Open, Health
<1>5. Halves(h, Open(g))
  BY <1>4 DEF Halves
<1>6. Halves(h, [g EXCEPT !.fails = @ + 1]) /\ Halves(h, [g EXCEPT !.fails = 0])
  BY <1>1 DEF Halves, Health
<1>7. Halves(h, won) /\ Halves(h, [won EXCEPT !.breaker = "CLOSED", !.fails = 0])
  BY <1>1 DEF Halves, Health
<1>8. \A kind \in {"loading", "auth", "mismatch"} : Halves(h, RequestState(h, kind))
  BY DEF RequestState, Set, Halves, Health
<1> QED BY <1>1, <1>2, <1>3, <1>5, <1>6, <1>7, <1>8 DEF g

LEMMA SteadyOn ==
    ASSUME NEW r, NEW g, NEW h, Steady(g, r),
           \A d \in Deployments : Halves(g[d], h[d])
    PROVE  Steady(h, r)
BY DEF Steady, Halves

\* Giving r's unit back keeps a map steady.
LEMMA SteadyReleased ==
    ASSUME ProxyTypeOK, NEW r \in Requests, Holding(r), NEW h \in HealthMap,
           Steady(h, r)
    PROVE  Steady(Released(h, r), r)
<1>1. req[r].trial \in BOOLEAN
  BY DEF ProxyTypeOK, Request
<1>2. ASSUME NEW d \in Deployments
      PROVE  /\ Released(h, r)[d].breaker = h[d].breaker
             /\ Released(h, r)[d].elapsed = h[d].elapsed
             /\ \/ Tries(r, d)
                \/ Released(h, r)[d].trial_inflight = h[d].trial_inflight
  <2>1. h[d] \in Health
    BY DEF HealthMap
  <2>2. CASE req[r].live
    <3>1. Released(h, r)[d] = IF d = req[r].d THEN DropUnit(h[d], req[r].trial) ELSE h[d]
      BY <2>2 DEF Released, OnHeld, Rewrite
    <3>2. CASE d = req[r].d /\ req[r].trial
      <4>1. Tries(r, d)
        BY <2>2, <3>2 DEF Tries
      <4> QED BY <2>1, <3>1, <3>2, <4>1 DEF DropUnit, Health
    <3>3. CASE ~(d = req[r].d /\ req[r].trial)
      BY <3>1, <3>3 DEF DropUnit
    <3> QED BY <3>2, <3>3
  <2>3. CASE ~req[r].live
    BY <2>3 DEF Released, OnHeld
  <2> QED BY <2>2, <2>3
<1> QED BY <1>2 DEF Steady

\* The health of every step of a request before it admits anything.
LEMMA SteadyAfter ==
    ASSUME IInv, NEW r \in Requests
    PROVE  /\ Steady(health, r)
           /\ Steady(OnHeld(health, r, RecordFailure), r)
           /\ Holding(r) =>
                 /\ Steady(Released(health, r), r)
                 /\ \A kind \in FailureKinds : Steady(HealthAfter(r, kind), r)
                 /\ Steady(OnHeld(Released(health, r), r, RecordSuccess), r)
                 /\ Steady(Released(OnHeld(health, r, RecordSuccess), r), r)
<1>1. ProxyTypeOK /\ TrialHeld /\ health \in HealthMap
  BY DEF IInv, ProxyTypeOK, FleetTypeOK, HealthMap
<1>2. Steady(health, r)
  BY DEF Steady
<1>3. ASSUME NEW h \in HealthMap, Steady(h, r)
      PROVE  /\ Steady(OnHeld(h, r, RecordFailure), r)
             /\ Steady(OnHeld(h, r, RecordSuccess), r)
  <2>1. ASSUME NEW d \in Deployments
        PROVE  /\ Halves(h[d], OnHeld(h, r, RecordFailure)[d])
               /\ Halves(h[d], OnHeld(h, r, RecordSuccess)[d])
    <3>1. h[d] \in Health
      BY DEF HealthMap
    <3>2. /\ OnHeld(h, r, RecordFailure)[d] \in {h[d], RecordFailure(h[d])}
          /\ OnHeld(h, r, RecordSuccess)[d] \in {h[d], RecordSuccess(h[d])}
      BY DEF OnHeld, Rewrite
    <3> QED BY <3>1, <3>2, RecordsHalve
  <2> QED BY <1>3, <2>1, SteadyOn
<1>4. ASSUME Holding(r)
      PROVE  Steady(Released(health, r), r) /\ Released(health, r) \in HealthMap
  BY <1>1, <1>2, <1>4, SteadyReleased, ReleasedOthers
<1>5. ASSUME Holding(r), NEW kind \in FailureKinds
      PROVE  Steady(HealthAfter(r, kind), r)
  <2> DEFINE g == Released(health, r)
  <2>1. g \in HealthMap /\ Steady(g, r)
    BY <1>4, <1>5
  <2>2. ASSUME NEW d \in Deployments
        PROVE  Halves(g[d], HealthAfter(r, kind)[d])
    <3>1. g[d] \in Health
      BY <2>1 DEF HealthMap
    <3>2. HealthAfter(r, kind)[d] = g[d] \/ HealthAfter(r, kind)[d] = Record(r, kind, g[d])
      <4>1. CASE req[r].live
        BY <4>1 DEF HealthAfter, OnHeld, Rewrite, g
      <4>2. CASE ~req[r].live
        BY <4>2 DEF HealthAfter, OnHeld, g
      <4> QED BY <4>1, <4>2
    <3>3. \/ Record(r, kind, g[d]) = g[d]
          \/ Record(r, kind, g[d]) = RecordFailure(g[d])
          \/ /\ kind \in {"loading", "auth", "mismatch"}
             /\ Record(r, kind, g[d]) = RequestState(g[d], kind)
      BY DEF Record, FailureKinds
    <3> HIDE DEF g
    <3> QED BY <3>1, <3>2, <3>3, RecordsHalve
  <2> HIDE DEF g
  <2> QED BY <2>1, <2>2, SteadyOn
<1>6. ASSUME Holding(r)
      PROVE  Steady(Released(OnHeld(health, r, RecordSuccess), r), r)
  <2>1. OnHeld(health, r, RecordSuccess) \in HealthMap
    BY <1>1, OnHeldOthers
  <2> QED BY <1>1, <1>2, <1>3, <1>6, <2>1, SteadyReleased
<1> QED BY <1>1, <1>2, <1>3, <1>4, <1>5, <1>6

-----------------------------------------------------------------------------
\* A request that ends, or that only changes its phase, claims nothing more.
LEMMA LessClaims ==
    ASSUME OneClaim, NoneOutlives, NEW r \in Requests, Steady(health', r),
           \A w \in Requests : \A d \in Deployments : Tries(w, d)' => Tries(w, d),
           \A d \in Deployments : Tries(r, d)' /\ health'[d].breaker = "HALF_OPEN" =>
               health'[d].trial_inflight = health[d].trial_inflight
    PROVE  OneClaim'
<1> SUFFICES ASSUME NEW d \in Deployments, health'[d].breaker = "HALF_OPEN",
                    NEW w \in Requests, Tries(w, d)'
             PROVE  /\ health'[d].trial_inflight = 1
                    /\ \A v \in Requests : Tries(v, d)' => v = w
  BY DEF OneClaim
<1>1. Tries(w, d)
  OBVIOUS
<1>2. health[d].breaker # "OPEN"
  BY <1>1 DEF NoneOutlives
<1>3. /\ health[d].breaker = "HALF_OPEN"
      /\ Tries(r, d) \/ health'[d].trial_inflight = health[d].trial_inflight
  BY <1>2 DEF Steady
<1>4. /\ health[d].trial_inflight = 1
      /\ \A v \in Requests : Tries(v, d) => v = w
  BY <1>1, <1>3 DEF OneClaim
<1>5. Tries(r, d) => r = w
  BY <1>4
<1> QED BY <1>3, <1>4, <1>5

\* r takes a unit: if it is the trial, the slot was free, so nobody had it.
LEMMA AdmitClaims ==
    ASSUME IInv, OneClaim, NoneOutlives, NEW r \in Requests, NEW t \in Target,
           NEW h \in HealthMap, Steady(h, r), NEW l, NEW m, NEW state \in Request,
           t.d \in cfg.deps => MayAdmit(h[t.d]),
           Admit(r, t, h, l, m, state)
    PROVE  OneClaim'
<1> DEFINE known == t.d \in cfg.deps
           trial == known /\ BreakerState(h[t.d]).breaker = "HALF_OPEN"
           q == [state EXCEPT !.phase = "attempt", !.d = t.d, !.n = t.n,
                              !.trial = trial, !.live = known]
<1>1. /\ t.d \in Deployments /\ req \in [Requests -> Request]
      /\ health \in HealthMap
  BY DEF Target, IInv, ProxyTypeOK, FleetTypeOK, HealthMap
<1>2. req' = [req EXCEPT ![r] = q]
  BY DEF Admit
<1>3. q.d = t.d /\ q.trial = trial
  BY DEF Request
<1>4. health' = [d \in Deployments |->
                    IF known /\ d = t.d THEN TakeUnit(h[d]) ELSE h[d]]
  <2>1. CASE known
    BY <2>1 DEF Admit, Rewrite
  <2>2. CASE ~known
    BY <2>2 DEF Admit, HealthMap
  <2> QED BY <2>1, <2>2
<1>5. \A d \in Deployments : Tries(r, d)' => d = t.d /\ trial
  <2>1. req'[r] = q
    BY <1>1, <1>2
  <2> HIDE DEF q, trial
  <2> QED BY <1>3, <2>1 DEF Tries
<1>6. \A w \in Requests \ {r} : \A d \in Deployments : Tries(w, d)' <=> Tries(w, d)
  <2>1. \A w \in Requests \ {r} : req'[w] = req[w]
    BY <1>1, <1>2
  <2> QED BY <2>1 DEF Tries, Holding
<1> SUFFICES ASSUME NEW d \in Deployments, health'[d].breaker = "HALF_OPEN",
                    NEW w \in Requests, Tries(w, d)'
             PROVE  /\ health'[d].trial_inflight = 1
                    /\ \A v \in Requests : Tries(v, d)' => v = w
  BY DEF OneClaim
<1> HIDE DEF q
<1>7. CASE known /\ d = t.d
  <2> DEFINE g == BreakerState(h[d])
  <2>1. /\ h[d] \in Health /\ g \in Health /\ MayAdmit(h[d])
        /\ health'[d] = TakeUnit(h[d])
    BY <1>4, <1>7, BreakerStateType DEF HealthMap
  <2>2. g.breaker = "HALF_OPEN"
    BY <2>1, TakenWhereAllowed
  <2>3. g.trial_inflight = 0
    BY <2>1, <2>2 DEF MayAdmit
  <2>4. TakeUnit(h[d]) = [g EXCEPT !.trial_inflight = 1]
    BY <2>2, <2>3 DEF TakeUnit
  <2>5. \/ h[d].breaker = "OPEN" /\ h[d].elapsed
        \/ h[d].breaker = "HALF_OPEN" /\ h[d].trial_inflight = 0
    BY <2>1, <2>2, <2>3 DEF BreakerState, Health
  <2> HIDE DEF g
  <2>6. health'[d].trial_inflight = 1
    BY <2>1, <2>4 DEF Health
  <2>7. \A v \in Requests \ {r} : ~Tries(v, d)
    <3>1. CASE health[d].breaker = "OPEN"
      BY <3>1 DEF NoneOutlives
    <3>2. CASE health[d].breaker # "OPEN"
      <4>1. /\ health[d].breaker = "HALF_OPEN"
            /\ Tries(r, d) \/ health[d].trial_inflight = 0
        BY <2>5, <3>2 DEF Steady
      <4>2. \A v \in Requests : Tries(v, d) =>
               health[d].trial_inflight = 1 /\ \A u \in Requests : Tries(u, d) => u = v
        BY <4>1 DEF OneClaim
      <4> QED BY <4>1, <4>2
    <3> QED BY <3>1, <3>2
  <2> QED BY <1>6, <2>6, <2>7
<1>8. CASE ~(known /\ d = t.d)
  <2>1. health'[d] = h[d]
    BY <1>4, <1>8
  <2>2. ~Tries(r, d)'
    BY <1>5, <1>8
  <2>3. Tries(w, d) /\ w # r
    BY <1>6, <2>2
  <2>4. health[d].breaker # "OPEN"
    BY <2>3 DEF NoneOutlives
  <2>5. /\ health[d].breaker = "HALF_OPEN"
        /\ Tries(r, d) \/ health'[d].trial_inflight = health[d].trial_inflight
    BY <2>1, <2>4 DEF Steady
  <2>6. /\ health[d].trial_inflight = 1
        /\ \A v \in Requests : Tries(v, d) => v = w
    BY <2>3, <2>5 DEF OneClaim
  <2> QED BY <1>6, <2>2, <2>3, <2>5, <2>6
<1> QED BY <1>7, <1>8

-----------------------------------------------------------------------------
LEMMA ServeClaims ==
    ASSUME IInv, OneClaim, NoneOutlives, NEW r \in Requests, Serve(r)
    PROVE  OneClaim'
<1>1. /\ health \in HealthMap /\ req \in [Requests -> Request] /\ req[r] \in Request
      /\ ProxyTypeOK /\ TrialHeld
  BY DEF IInv, ProxyTypeOK, FleetTypeOK, HealthMap
<1>2. ASSUME NEW c \in Configs, NEW p \in Plans(c), NEW k \in DOMAIN p,
             NEW fam \in c.families, NEW strict \in BOOLEAN, NEW retry \in BOOLEAN,
             Arrive(r, c, p, k, fam, strict, retry)
      PROVE  OneClaim'
  <2> DEFINE D == {p[i].d : i \in DOMAIN p}
             h == Seen(D)
             queued == Len(p) = 1 /\ nodeInflight[p[1].n] >= Slots[p[1].n]
             state == Begun(p, k, queued, strict, retry, fam)
  <2>1. /\ Admit(r, p[k], h, inflight, nodeInflight, state)
        /\ NextTarget(p, strict, h, k)
    BY <1>2 DEF Arrive
  <2>2. queued \in BOOLEAN
    OBVIOUS
  <2> HIDE DEF queued
  <2>3. p[k] \in Target /\ state \in Request /\ h \in HealthMap
    BY <2>2, PlanTaken
  <2>4. ASSUME NEW d \in Deployments PROVE Halves(health[d], h[d])
    <3>1. h[d] = Looked(health[d]) \/ h[d] = health[d]
      <4> HIDE DEF D
      <4> QED BY DEF Seen, Rewrite
    <3>2. health[d] \in Health
      BY <1>1 DEF HealthMap
    <3> HIDE DEF h
    <3> QED BY <3>1, <3>2, RecordsHalve
  <2>5. p[k].d \in cfg.deps => MayAdmit(h[p[k].d])
    BY <2>1 DEF NextTarget, Vetted
  <2> HIDE DEF h, state
  <2>6. Steady(h, r)
    BY <2>4, SteadyAfter, SteadyOn
  <2> QED BY <2>1, <2>3, <2>5, <2>6, AdmitClaims
<1>3. ASSUME NEW kind \in FailureKinds, NEW k \in 1 .. MaxAttempts,
             FailOver(r, kind, k)
      PROVE  OneClaim'
  <2> DEFINE h == HealthAfter(r, kind)
             rest == req[r].rest
             t == rest[k]
             state == [req[r] EXCEPT !.rest = SubSeq(rest, k + 1, Len(rest)),
                                     !.queued = FALSE]
  <2>1. h \in HealthMap
    BY <1>1, HealthAfterOthers
  <2>2. NextTarget(rest, req[r].strict, h, k) /\ Holding(r)
    BY <1>3 DEF FailOver, Holding
  <2>3. rest \in Seq(Target) /\ k \in DOMAIN rest
    BY <1>1, <2>2 DEF NextTarget, Request
  <2>4. t \in Target /\ SubSeq(rest, k + 1, Len(rest)) \in Seq(Target)
    BY <2>3, PlanRest
  <2>5. state \in Request
    BY <1>1, <2>4 DEF Request
  <2>6. t.d \in cfg.deps => MayAdmit(h[t.d])
    BY <2>2 DEF NextTarget, Vetted
  <2>7. Admit(r, t, h, LoadLess(r), NodeLoadLess(r), state)
    BY <1>3 DEF FailOver
  <2>8. Steady(h, r)
    BY <2>2, SteadyAfter
  <2> HIDE DEF h, t, state
  <2> QED BY <2>1, <2>4, <2>5, <2>6, <2>7, <2>8, AdmitClaims
<1>4. ASSUME NEW h, Finish(r, h), Steady(h, r)
      PROVE  OneClaim'
  <2>1. health' = h /\ req' = [req EXCEPT ![r] = Idle]
    BY <1>4 DEF Finish
  <2>2. ~Holding(r)' /\ \A w \in Requests \ {r} : req'[w] = req[w]
    BY <1>1, <2>1 DEF Holding, Idle
  <2>3. \A w \in Requests : \A d \in Deployments : Tries(w, d)' => Tries(w, d)
    BY <2>2 DEF Tries, Holding
  <2>4. \A d \in Deployments : ~Tries(r, d)'
    BY <2>2 DEF Tries
  <2>5. Steady(health', r)
    BY <1>4, <2>1
  <2> QED BY <2>3, <2>4, <2>5, LessClaims
<1>5. ASSUME \/ \E kind \in FailureKinds : GiveUp(r, kind)
             \/ EndUnjudged(r) \/ CommitBuffered(r) \/ RelayCompletes(r)
             \/ CloseOut(r)
      PROVE  OneClaim'
  <2>1. Holding(r)
    BY <1>5 DEF GiveUp, EndUnjudged, CommitBuffered, RelayCompletes, CloseOut, Holding
  <2> QED BY <1>4, <1>5, <2>1, SteadyAfter
          DEF GiveUp, EndUnjudged, CommitBuffered, RelayCompletes, CloseOut
<1>6. ASSUME CommitStream(r) \/ RelayFails(r)
      PROVE  OneClaim'
  <2>1. PICK q : /\ req' = [req EXCEPT ![r] = q]
                 /\ q.d = req[r].d /\ q.live = req[r].live /\ q.trial = req[r].trial
    <3>1. CASE CommitStream(r)
      <4> DEFINE q == [req[r] EXCEPT !.phase = "relay", !.rest = <<>>,
                           !.queued = FALSE, !.strict = FALSE, !.retry = FALSE,
                           !.family = {}]
      <4>1. q.d = req[r].d /\ q.live = req[r].live /\ q.trial = req[r].trial
        BY <1>1 DEF Request
      <4> QED BY <3>1, <4>1 DEF CommitStream
    <3>2. CASE RelayFails(r)
      <4> DEFINE q == [req[r] EXCEPT !.phase = "broken"]
      <4>1. q.d = req[r].d /\ q.live = req[r].live /\ q.trial = req[r].trial
        BY <1>1 DEF Request
      <4> QED BY <3>2, <4>1 DEF RelayFails
    <3> QED BY <1>6, <3>1, <3>2
  <2>2. Holding(r)
    BY <1>6 DEF CommitStream, RelayFails, Holding
  <2>3. req'[r] = q /\ \A w \in Requests \ {r} : req'[w] = req[w]
    BY <1>1, <2>1
  <2>4. \A w \in Requests : \A d \in Deployments : Tries(w, d)' => Tries(w, d)
    BY <2>1, <2>2, <2>3 DEF Tries, Holding
  <2>5. health' = health \/ health' = OnHeld(health, r, RecordFailure)
    BY <1>6 DEF CommitStream, RelayFails, fleetVars
  <2>6. Steady(health', r)
    BY <2>5, SteadyAfter
  <2>7. ASSUME NEW d \in Deployments, Tries(r, d)'
        PROVE  health'[d].trial_inflight = health[d].trial_inflight
               \/ health'[d].breaker # "HALF_OPEN"
    <3>1. health[d] \in Health
      BY <1>1 DEF HealthMap
    <3>2. health'[d] \in {health[d], RecordFailure(health[d])}
      BY <1>1, <2>5 DEF OnHeld, Rewrite, HealthMap
    <3>3. Halves(health[d], health'[d])
      BY <3>1, <3>2, RecordsHalve
    <3>4. Tries(r, d)
      BY <2>4, <2>7
    <3>5. health'[d].breaker = "HALF_OPEN" => health[d].breaker # "OPEN"
      BY <3>4 DEF NoneOutlives
    <3> QED BY <3>3, <3>5 DEF Halves
  <2> QED BY <2>4, <2>6, <2>7, LessClaims
<1> QED BY <1>2, <1>3, <1>5, <1>6 DEF Serve, Proceed, Complete, Begin

LEMMA RestClaims ==
    ASSUME IInv, OneClaim, NoneOutlives, Operate \/ Elapse \/ Probe
    PROVE  OneClaim'
<1>1. /\ health \in HealthMap /\ req \in [Requests -> Request]
      /\ \A d \in Deployments : health[d] \in Health
  BY DEF IInv, ProxyTypeOK, FleetTypeOK, HealthMap
<1>2. ASSUME \A w \in Requests : \A d \in Deployments : Tries(w, d)' => Tries(w, d),
             \A d \in Deployments :
                 \/ health'[d].breaker = "HALF_OPEN" =>
                       \/ health[d].breaker = "OPEN"
                       \/ /\ health[d].breaker = "HALF_OPEN"
                          /\ health'[d].trial_inflight = health[d].trial_inflight
                 \/ \A w \in Requests : ~Tries(w, d)'
      PROVE  OneClaim'
  <2> SUFFICES ASSUME NEW d \in Deployments, health'[d].breaker = "HALF_OPEN",
                      NEW w \in Requests, Tries(w, d)'
               PROVE  /\ health'[d].trial_inflight = 1
                      /\ \A v \in Requests : Tries(v, d)' => v = w
    BY DEF OneClaim
  <2>1. Tries(w, d)
    BY <1>2
  <2>2. /\ health[d].breaker = "HALF_OPEN"
        /\ health'[d].trial_inflight = health[d].trial_inflight
    BY <1>2, <2>1 DEF NoneOutlives
  <2>3. /\ health[d].trial_inflight = 1
        /\ \A v \in Requests : Tries(v, d) => v = w
    BY <2>1, <2>2 DEF OneClaim
  <2> QED BY <1>2, <2>2, <2>3
<1>3. ASSUME req' = req, \A d \in Deployments : Halves(health[d], health'[d])
      PROVE  OneClaim'
  BY <1>2, <1>3 DEF Halves, Tries, Holding
<1>4. ASSUME NEW c \in Configs, Reload(c) PROVE OneClaim'
  <2>1. \A d \in Deployments :
           health'[d] = IF d \in cfg.deps /\ d \in c.deps THEN health[d] ELSE Fresh
    BY <1>4 DEF Reload, ReloadFleet, Kept
  <2>2. ASSUME NEW w \in Requests
        PROVE  /\ req'[w].phase = req[w].phase /\ req'[w].d = req[w].d
               /\ req'[w].trial = req[w].trial /\ (req'[w].live => req[w].live)
    <3> DEFINE live == req[w].live /\ req[w].d \in c.deps
    <3>1. req'[w] = [req[w] EXCEPT !.live = live]
      BY <1>4 DEF Reload
    <3>2. req[w] \in Request /\ (live => req[w].live)
      BY <1>1
    <3> HIDE DEF live
    <3> QED BY <3>1, <3>2 DEF Request
  <2>3. \A w \in Requests : \A d \in Deployments : Tries(w, d)' => Tries(w, d)
    BY <2>2 DEF Tries, Holding
  <2> QED BY <1>2, <2>1, <2>3 DEF Fresh
<1>5. ASSUME req' = req,
             \/ \E n \in Nodes : Drain(n) \/ Undrain(n)
             \/ Status
             \/ \E D \in SUBSET Deployments : Weigh(D)
      PROVE  OneClaim'
  <2>1. ASSUME NEW d \in Deployments
        PROVE  health'[d] \in {health[d], BreakerState(health[d]), Looked(health[d])}
    BY <1>1, <1>5 DEF Drain, Undrain, Status, Weigh, Seen, Rewrite
  <2> QED BY <1>1, <1>3, <1>5, <2>1, RecordsHalve
<1>6. CASE Operate
  BY <1>4, <1>5, <1>6 DEF Operate
<1>7. ASSUME NEW x \in Deployments, OpenElapses(x), req' = req PROVE OneClaim'
  <2>1. ASSUME NEW d \in Deployments
        PROVE  /\ health'[d].breaker = health[d].breaker
               /\ health'[d].trial_inflight = health[d].trial_inflight
    <3>1. \/ health'[d] = health[d]
          \/ health'[d] = [health[d] EXCEPT !.elapsed = TRUE]
      BY <1>1, <1>7 DEF OpenElapses, HealthMap
    <3> QED BY <1>1, <3>1 DEF Health
  <2>2. \A w \in Requests : \A d \in Deployments : Tries(w, d)' => Tries(w, d)
    BY <1>7 DEF Tries, Holding
  <2> QED BY <1>2, <2>1, <2>2
<1>8. CASE Elapse
  BY <1>7, <1>8 DEF Elapse
<1>9. ASSUME NEW n \in Nodes, NEW result \in {"ready", "loading", "down"},
             NEW b \in BOOLEAN, ProbeAnswer(n, result, b), req' = req
      PROVE  OneClaim'
  <2>1. ASSUME NEW d \in Deployments
        PROVE  /\ health'[d].breaker = health[d].breaker
               /\ health'[d].trial_inflight = health[d].trial_inflight
    <3> DEFINE p == IF d \in DepsOf(n) THEN OnProbe(health[d], result) ELSE health[d]
    <3>1. /\ p \in Health /\ p.breaker = health[d].breaker
          /\ p.trial_inflight = health[d].trial_inflight
      BY <1>1, OnProbeType
    <3>2. health'[d] = p \/ health'[d] = MarkSent(p, n)
      BY <1>9 DEF ProbeAnswer, Rewrite
    <3> HIDE DEF p
    <3> QED BY <3>1, <3>2 DEF MarkSent, Health
  <2>2. \A w \in Requests : \A d \in Deployments : Tries(w, d)' => Tries(w, d)
    BY <1>9 DEF Tries, Holding
  <2> QED BY <1>2, <2>1, <2>2
<1>10. ASSUME NEW n \in Nodes, NEW kind \in {"auth", "list", "error"},
              NEW missing \in SUBSET Deployments, ModelsAnswer(n, kind, missing),
              req' = req
       PROVE  OneClaim'
  <2>1. ASSUME NEW d \in Deployments
        PROVE  /\ health'[d].breaker = health[d].breaker
               /\ health'[d].trial_inflight = health[d].trial_inflight
    <3>1. PICK p : /\ \/ p = health[d]
                      \/ \E v \in {"auth", "mismatch", "ok"} :
                            p = OnModels(health[d], n, v)
                   /\ health'[d] = MarkAnswered(p, n)
      BY <1>10 DEF ModelsAnswer
    <3>2. \A v \in {"auth", "mismatch", "ok"} :
             LET x == OnModels(health[d], n, v)
             IN  /\ x \in Health /\ x.breaker = health[d].breaker
                 /\ x.trial_inflight = health[d].trial_inflight
      BY <1>1, OnModelsType
    <3>3. /\ p \in Health /\ p.breaker = health[d].breaker
          /\ p.trial_inflight = health[d].trial_inflight
      BY <1>1, <3>1, <3>2
    <3> QED BY <3>1, <3>3 DEF MarkAnswered, Health
  <2>2. \A w \in Requests : \A d \in Deployments : Tries(w, d)' => Tries(w, d)
    BY <1>10 DEF Tries, Holding
  <2> QED BY <1>2, <2>1, <2>2
<1>11. CASE Probe
  <2>1. ASSUME \/ \E due \in SUBSET Nodes : TickStart(due)
               \/ \E held \in BOOLEAN : LeaseAnswer(held),
               req' = req
        PROVE  OneClaim'
    <3>1. health' = health
      BY <2>1 DEF TickStart, LeaseAnswer
    <3> QED BY <1>1, <1>3, <2>1, <3>1, RecordsHalve
  <2> QED BY <1>9, <1>10, <1>11, <2>1 DEF Probe
<1> QED BY <1>6, <1>8, <1>11

\* The trials of a deployment end before its breaker turns HALF_OPEN again
TrialsEndFirst == [][NoneOutlives]_vars

\* A HALF_OPEN deployment has one trial in flight if no trial outlives the
\* cool-down of a breaker that another request opened again: that it may is the
\* only way to the second trial of two_trials.
THEOREM OneTrialUnlessOneOutlives == Spec /\ TrialsEndFirst => []OneTrial
<1>1. Init => OneClaim
  BY DEF Init, FleetInit, OneClaim, Fresh
<1>2. ASSUME IInv, OneClaim, [Next]_vars, [NoneOutlives]_vars
      PROVE  OneClaim'
  <2>1. CASE UNCHANGED vars
    BY <1>2, <2>1 DEF vars, fleetVars, OneClaim, Tries, Holding
  <2>2. CASE Next /\ NoneOutlives
    BY <1>2, <2>2, ServeClaims, RestClaims DEF Next
  <2> QED BY <1>2, <2>1, <2>2
<1>3. ASSUME OneClaim PROVE OneTrial
  <2> SUFFICES ASSUME NEW d \in Deployments, health[d].breaker = "HALF_OPEN"
               PROVE  Cardinality(Trials(d)) <= 1
    BY DEF OneTrial
  <2>1. \A w \in Trials(d) : w \in Requests /\ Tries(w, d)
    BY DEF Trials, Holders, Tries
  <2>2. CASE Trials(d) = {}
    BY <2>2, FS_EmptySet
  <2>3. ASSUME NEW w \in Trials(d) PROVE Cardinality(Trials(d)) <= 1
    <3>1. Trials(d) = {w}
      BY <1>3, <2>1, <2>3 DEF OneClaim
    <3>2. Cardinality({w}) = 1
      BY FS_Singleton
    <3> QED BY <3>1, <3>2
  <2> QED BY <2>2, <2>3
<1> QED BY <1>1, <1>2, <1>3, Inductive, PTL DEF Spec, TrialsEndFirst

-----------------------------------------------------------------------------
(***************************************************************************)
(* Which nodes the lease drains                                            *)
(***************************************************************************)

\* A node is marked gpu_lease in every configuration that has it, or in none
MarksStay ==
    \A c, e \in Configs : c.gpu_lease \cap e.nodes \subseteq e.gpu_lease

\* The nodes some configuration marks
Marked == UNION {c.gpu_lease : c \in Configs}

LEMMA DrainsMarked == Spec => [](leaseDrain \cup leaseNodes \subseteq Marked)
<1> DEFINE I == leaseDrain \cup leaseNodes \subseteq Marked
<1>1. Init => I
  BY DEF Init, FleetInit
<1>2. ASSUME IInv, I, [Next]_vars PROVE I'
  <2>1. cfg \in Configs
    BY <1>2 DEF IInv, ProxyTypeOK, FleetTypeOK
  <2>2. cfg.gpu_lease \subseteq Marked
    BY <2>1 DEF Marked
  <2>3. ASSUME NEW due \in SUBSET Nodes, TickStart(due) PROVE I'
    BY <1>2, <2>2, <2>3 DEF TickStart, drainVars
  <2>4. ASSUME NEW held \in BOOLEAN, LeaseAnswer(held) PROVE I'
    BY <1>2, <2>4 DEF LeaseAnswer
  <2>5. ASSUME NEW c \in Configs, Reload(c) PROVE I'
    BY <1>2, <2>5 DEF Reload, ReloadFleet, tickVars
  <2>6. ASSUME UNCHANGED <<leaseDrain, leaseNodes>> PROVE I'
    BY <1>2, <2>6
  <2>7. CASE Operate
    <3>1. ASSUME NEW n \in Nodes, Drain(n) \/ Undrain(n)
          PROVE  UNCHANGED <<leaseDrain, leaseNodes>>
      BY <3>1 DEF Drain, Undrain, tickVars
    <3>2. ASSUME Status \/ \E D \in SUBSET Deployments : Weigh(D)
          PROVE  UNCHANGED <<leaseDrain, leaseNodes>>
      BY <3>2 DEF Status, Weigh, drainVars, tickVars
    <3> HIDE DEF I
    <3> QED BY <2>5, <2>6, <2>7, <3>1, <3>2 DEF Operate
  <2>8. CASE Probe
    <3>1. ASSUME NEW n \in Nodes, NEW result \in {"ready", "loading", "down"},
                 NEW b \in BOOLEAN, ProbeAnswer(n, result, b)
          PROVE  UNCHANGED <<leaseDrain, leaseNodes>>
      BY <3>1 DEF ProbeAnswer, drainVars, tickVars
    <3>2. ASSUME NEW n \in Nodes, NEW kind \in {"auth", "list", "error"},
                 NEW missing \in SUBSET Deployments, ModelsAnswer(n, kind, missing)
          PROVE  UNCHANGED <<leaseDrain, leaseNodes>>
      BY <3>2 DEF ModelsAnswer, drainVars, tickVars
    <3> HIDE DEF I
    <3> QED BY <2>3, <2>4, <2>6, <2>8, <3>1, <3>2 DEF Probe
  <2>9. CASE Elapse
    <3>1. UNCHANGED <<leaseDrain, leaseNodes>>
      BY <2>9 DEF Elapse, OpenElapses, drainVars, tickVars
    <3> QED BY <2>6, <3>1
  <2>10. ASSUME NEW r \in Requests, Serve(r) PROVE I'
    <3>1. UNCHANGED <<leaseDrain, leaseNodes>>
      BY <2>10, ServeLeaves DEF drainVars, tickVars
    <3> QED BY <2>6, <3>1
  <2>11. CASE UNCHANGED vars
    BY <2>6, <2>11 DEF vars, fleetVars, drainVars, tickVars
  <2> HIDE DEF I
  <2> QED BY <1>2, <2>7, <2>8, <2>9, <2>10, <2>11 DEF Next
<1> QED BY <1>1, <1>2, Inductive, PTL DEF Spec

\* The nodes of the running configuration that the lease drains are nodes the
\* prober asks the lease for, so that a free lease undrains them, if no reload
\* changes a node's mark: lease_stuck needs one that does.
DrainsAreAsked == leaseDrain \cap cfg.nodes \subseteq cfg.gpu_lease

THEOREM LeaseDrainsOnlyMarked == ASSUME MarksStay PROVE Spec => []DrainsAreAsked
<1>1. ASSUME IInv, leaseDrain \cup leaseNodes \subseteq Marked PROVE DrainsAreAsked
  <2> SUFFICES ASSUME NEW n \in leaseDrain \cap cfg.nodes PROVE n \in cfg.gpu_lease
    BY DEF DrainsAreAsked
  <2>1. PICK c \in Configs : n \in c.gpu_lease
    BY <1>1 DEF Marked
  <2>2. cfg \in Configs
    BY <1>1 DEF IInv, ProxyTypeOK, FleetTypeOK
  <2> QED BY <2>1, <2>2 DEF MarksStay
<1> QED BY <1>1, DrainsMarked, Inductive, PTL

=============================================================================
