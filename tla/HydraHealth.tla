---------------------------- MODULE HydraHealth ----------------------------
(***************************************************************************)
(* What beast-hydra remembers of one deployment (DeploymentHealth) and the *)
(* pure functions that change it (HealthState): hysteresis over readiness  *)
(* probes, the verdicts of /v1/models checks, and the circuit breaker that *)
(* only proxied requests drive.                                            *)
(*                                                                         *)
(* Two clocks of the code are kept by what is compared with them:          *)
(*   opened_at     -> elapsed: breaker.open_s has passed since it opened   *)
(*   last_change   -> quiet: the nodes whose /v1/models check was sent     *)
(*                    after the last change of state                       *)
(* The streaks count up to the threshold they are compared with.           *)
(***************************************************************************)
EXTENDS Naturals

CONSTANTS Nodes,             \* node ids; a models check is named by its node
          UpAfter,           \* settings.up_after
          DownAfter,         \* settings.down_after
          FailThreshold,     \* settings.breaker.fail_threshold
          SuccessThreshold   \* settings.breaker.success_threshold

ASSUME ThresholdAssumption ==
    /\ UpAfter \in Nat \ {0}
    /\ DownAfter \in Nat \ {0}
    /\ FailThreshold \in Nat \ {0}
    /\ SuccessThreshold \in Nat \ {0}

States == {"UNKNOWN", "LOADING", "READY", "DOWN", "AUTH_FAILED", "MISMATCH"}
Refused == {"AUTH_FAILED", "MISMATCH"}     \* a ready /health says nothing here
BreakerStates == {"CLOSED", "OPEN", "HALF_OPEN"}

Health ==
    [state : States,
     ok_streak : 0 .. UpAfter,
     fail_streak : 0 .. DownAfter,
     breaker : BreakerStates,
     fails : 0 .. FailThreshold - 1,
     elapsed : BOOLEAN,
     half_open_ok : 0 .. SuccessThreshold,
     trial_inflight : {0, 1},
     quiet : SUBSET Nodes]

Fresh ==
    [state |-> "UNKNOWN", ok_streak |-> 0, fail_streak |-> 0,
     breaker |-> "CLOSED", fails |-> 0, elapsed |-> FALSE,
     half_open_ok |-> 0, trial_inflight |-> 0, quiet |-> {}]

Upto(x, bound) == IF x < bound THEN x + 1 ELSE bound
Less1(x) == IF x = 0 THEN 0 ELSE x - 1              \* max(0, x - 1)

-----------------------------------------------------------------------------
\* Probes

Set(h, s) == IF h.state = s THEN h ELSE [h EXCEPT !.state = s, !.quiet = {}]

\* Mutant: enough good probes bring back any state, a refusal too
ProbeReadyForgives(h) ==
    LET g == [h EXCEPT !.ok_streak = Upto(@, UpAfter), !.fail_streak = 0]
    IN  IF h.state = "LOADING" \/ g.ok_streak = UpAfter
        THEN Set(g, "READY") ELSE g

ProbeReady(h) ==
    LET g == [h EXCEPT !.ok_streak = Upto(@, UpAfter), !.fail_streak = 0]
        up == \/ h.state = "LOADING"
              \/ h.state \in {"UNKNOWN", "DOWN"} /\ g.ok_streak = UpAfter
    IN  IF up THEN Set(g, "READY") ELSE g

ProbeLoading(h) ==
    LET g == [h EXCEPT !.ok_streak = 0, !.fail_streak = 0]
    IN  IF h.state \in Refused THEN g ELSE Set(g, "LOADING")

ProbeDown(h) ==
    LET g == [h EXCEPT !.fail_streak = Upto(@, DownAfter), !.ok_streak = 0]
        down == /\ h.state \in {"READY", "LOADING", "UNKNOWN"}
                /\ g.fail_streak = DownAfter
    IN  IF down THEN Set(g, "DOWN") ELSE g

OnProbe(h, result) ==
    CASE result = "ready"   -> ProbeReady(h)
      [] result = "loading" -> ProbeLoading(h)
      [] result = "down"    -> ProbeDown(h)

\* A /v1/models check is sent to node n: nothing has changed since
MarkSent(h, n) == [h EXCEPT !.quiet = @ \cup {n}]
MarkAnswered(h, n) == [h EXCEPT !.quiet = @ \ {n}]

\* The answer of the check sent to node n. An "ok" counts only if nothing
\* changed the state since it was sent.
OnModels(h, n, result) ==
    CASE result = "auth"     -> Set(h, "AUTH_FAILED")
      [] result = "mismatch" -> Set(h, "MISMATCH")
      [] result = "ok"       ->
            IF h.state \in Refused /\ n \in h.quiet
            THEN Set(h, IF h.ok_streak >= 1 THEN "READY" ELSE "UNKNOWN")
            ELSE h

-----------------------------------------------------------------------------
\* The breaker

\* Mutant: what was won before it last opened counts again
BreakerStateKeepsWins(h) ==
    IF h.breaker = "OPEN" /\ h.elapsed
    THEN [h EXCEPT !.breaker = "HALF_OPEN", !.trial_inflight = 0]
    ELSE h

BreakerState(h) ==
    IF h.breaker = "OPEN" /\ h.elapsed
    THEN [h EXCEPT !.breaker = "HALF_OPEN", !.half_open_ok = 0,
                   !.trial_inflight = 0]
    ELSE h

Open(h) == [h EXCEPT !.breaker = "OPEN", !.elapsed = FALSE, !.fails = 0]

RecordFailure(h) ==
    LET g == BreakerState(h)
    IN  IF g.breaker = "HALF_OPEN" \/ g.fails + 1 >= FailThreshold
        THEN Open(g)
        ELSE [g EXCEPT !.fails = @ + 1]

RecordSuccess(h) ==
    LET g == BreakerState(h)
        won == [g EXCEPT !.half_open_ok = Upto(@, SuccessThreshold)]
    IN  IF g.breaker # "HALF_OPEN" THEN [g EXCEPT !.fails = 0]
        ELSE IF won.half_open_ok = SuccessThreshold
        THEN [won EXCEPT !.breaker = "CLOSED", !.fails = 0]
        ELSE won

\* What an upstream answer on a proxied request says of the node itself
RequestState(h, kind) ==
    CASE kind = "loading"  -> [Set(h, "LOADING") EXCEPT !.ok_streak = 0]
      [] kind = "auth"     -> Set(h, "AUTH_FAILED")
      [] kind = "mismatch" -> Set(h, "MISMATCH")

\* admit_reason(...) is None
MayAdmit(h) ==
    LET g == BreakerState(h)
    IN  /\ h.state = "READY"
        /\ g.breaker # "OPEN"
        /\ g.breaker = "HALF_OPEN" => g.trial_inflight = 0

\* admit_reason only looks at the breaker of a READY deployment
Looked(h) == IF h.state = "READY" THEN BreakerState(h) ELSE h

\* One more in-flight unit on a deployment MayAdmit let through
TakeUnit(h) ==
    LET g == BreakerState(h)
    IN  IF g.breaker = "HALF_OPEN"
        THEN [g EXCEPT !.trial_inflight = @ + 1]
        ELSE g

\* Mutant: release() forgets the trial
DropUnitKeepsTrial(h, trial) == h

DropUnit(h, trial) ==
    IF trial THEN [h EXCEPT !.trial_inflight = Less1(@)] ELSE h
=============================================================================
