----------------------------- MODULE HydraProxy -----------------------------
(***************************************************************************)
(* beast-hydra: the requests of proxy() over the fleet of HydraFleet. A    *)
(* request gets a plan from decide(), tries its targets one at a time up   *)
(* to the first body byte (the commit point), then relays the rest. Each   *)
(* attempt holds an in-flight unit (Admission) of its deployment and node, *)
(* and what the upstream answers is recorded in the deployment's health.   *)
(*                                                                         *)
(* Meanwhile other requests, the prober, the operator and reloads run, so  *)
(* the plan and the health of its targets are stale by the next attempt.   *)
(***************************************************************************)
EXTENDS HydraFleet, Sequences

CONSTANTS Requests, MaxAttempts, None

ASSUME RequestAssumption ==
    /\ IsFiniteSet(Requests)
    /\ MaxAttempts \in Nat \ {0}
    /\ None \notin Deployments \cup Nodes

VARIABLE req
vars == <<fleetVars, req>>

Target == [d : Deployments, n : Nodes]

(***************************************************************************)
(* idle     not there, or answered                                         *)
(* attempt  an upstream try before the commit point                        *)
(* relay    committed: chunks go to the client                             *)
(* broken   the upstream died mid-stream, the error event is being written *)
(* trial    the unit is a HALF_OPEN trial                                  *)
(* live     the held HealthState is still the fleet's                      *)
(* family   the deployments its route's same_family anchor left it when    *)
(*          its plan was made; nothing for a strict pin                    *)
(* rest     the targets left in the plan                                   *)
(***************************************************************************)
Request ==
    [phase : {"idle", "attempt", "relay", "broken"},
     d : Deployments \cup {None}, n : Nodes \cup {None},
     trial : BOOLEAN, live : BOOLEAN, queued : BOOLEAN,
     strict : BOOLEAN, retry : BOOLEAN, family : SUBSET Deployments,
     rest : Seq(Target)]

Idle ==
    [phase |-> "idle", d |-> None, n |-> None, trial |-> FALSE,
     live |-> FALSE, queued |-> FALSE, strict |-> FALSE, retry |-> FALSE,
     family |-> {}, rest |-> <<>>]

ProxyTypeOK == FleetTypeOK /\ req \in [Requests -> Request]

Init == FleetInit /\ req = [r \in Requests |-> Idle]

Holding(r) == req[r].phase # "idle"
Holders(d) == {r \in Requests : Holding(r) /\ req[r].d = d}
NodeHolders(n) == {r \in Requests : Holding(r) /\ req[r].n = n}

-----------------------------------------------------------------------------
\* The request's unit

\* Record what `kind` says on the health this request holds; a deployment
\* dropped since admission keeps its own record, which nobody reads
OnHeld(h, r, F(_)) == IF req[r].live THEN Rewrite(h, {req[r].d}, F) ELSE h

Released(h, r) ==
    LET Drop(x) == DropUnit(x, req[r].trial) IN OnHeld(h, r, Drop)

\* The counters after r gave its unit back
LoadLess(r) == [inflight EXCEPT ![req[r].d] = Less1(@)]
NodeLoadLess(r) == [nodeInflight EXCEPT ![req[r].n] = Less1(@)]

\* FleetState.admit of a vetted target into health h, counters l and m
Admit(r, t, h, l, m, state) ==
    LET known == t.d \in cfg.deps
        trial == known /\ BreakerState(h[t.d]).breaker = "HALF_OPEN"
    IN  /\ health' = IF known THEN Rewrite(h, {t.d}, TakeUnit) ELSE h
        /\ inflight' = [l EXCEPT ![t.d] = @ + 1]
        /\ nodeInflight' = [m EXCEPT ![t.n] = @ + 1]
        /\ req' = [req EXCEPT ![r] =
                [state EXCEPT !.phase = "attempt", !.d = t.d, !.n = t.n,
                              !.trial = trial, !.live = known]]

\* r ends with health h; its unit is given back
Finish(r, h) ==
    /\ health' = h
    /\ inflight' = LoadLess(r)
    /\ nodeInflight' = NodeLoadLess(r)
    /\ req' = [req EXCEPT ![r] = Idle]
    /\ UNCHANGED <<cfg, drainVars, probeVars, tickVars>>

-----------------------------------------------------------------------------
\* Arrival: decide() and the first admission, with no await between them

\* decide() reads the breakers of the targets it weighs
Seen(D) == Rewrite(health, D, Looked)

\* policy_reason as an attempt is re-vetted with it: of the running
\* configuration and without the route, so its same_family is not asked again
Allowed(d) == d \in cfg.allowed

\* What decide() may return from the configuration c the request took when it
\* came in: distinct targets that may take a request now. Health and drains
\* are the running ones.
Plans(c) ==
    {p \in UNION {[1 .. k -> Target] : k \in 1 .. MaxAttempts} :
        /\ \A i \in DOMAIN p : /\ p[i].d \in c.deps \cap cfg.deps
                               /\ p[i].n = c.node[p[i].d]
                               /\ Vetted(health, p[i].d, p[i].n)
        /\ \A i, j \in DOMAIN p : i # j => p[i].d # p[j].d}

\* Mutant: an attempt trusts the plan decide() made
NextTargetTrusted(plan, strict, h, k) ==
    /\ k = 1
    /\ plan # <<>>
    /\ strict \/ Allowed(plan[1].d)

\* Mutant: an attempt re-vets the target but not the family policy
NextTargetOffPolicy(plan, strict, h, k) ==
    /\ k \in DOMAIN plan
    /\ Vetted(h, plan[k].d, plan[k].n)
    /\ \A j \in 1 .. k - 1 : ~Vetted(h, plan[j].d, plan[j].n)

\* The first target of a plan that is on policy and may be admitted NOW, in
\* the running configuration: those before it are skipped
NextTarget(plan, strict, h, k) ==
    LET Eligible(t) == (strict \/ Allowed(t.d)) /\ Vetted(h, t.d, t.n)
    IN  /\ k \in DOMAIN plan
        /\ Eligible(plan[k])
        /\ \A j \in 1 .. k - 1 : ~Eligible(plan[j])

\* Mutant: the target is left in the plan
BegunAgain(p, k, queued, strict, retry, fam) ==
    [Idle EXCEPT !.rest = SubSeq(p, k, Len(p)), !.queued = queued,
                 !.strict = strict, !.retry = retry,
                 !.family = IF strict THEN {} ELSE fam]
\* The request that starts with the k-th target of plan p
Begun(p, k, queued, strict, retry, fam) ==
    [Idle EXCEPT !.rest = SubSeq(p, k + 1, Len(p)), !.queued = queued,
                 !.strict = strict, !.retry = retry,
                 !.family = IF strict THEN {} ELSE fam]

\* The body was read and instinct asked since c was taken, so c may be any
\* configuration that ran before, and fam what one of its routes may use. A
\* strict plan is one target, whatever its family.
Arrive(r, c, p, k, fam, strict, retry) ==
    /\ req[r].phase = "idle"
    /\ IF strict THEN Len(p) = 1
       ELSE \A i \in DOMAIN p : p[i].d \in c.allowed \cap fam
    /\ retry => Len(p) > 1        \* it only says whether a timeout fails over
    /\ LET h == Seen({p[i].d : i \in DOMAIN p})
           queued == Len(p) = 1 /\ nodeInflight[p[1].n] >= Slots[p[1].n]
       IN  /\ NextTarget(p, strict, h, k)
           /\ Admit(r, p[k], h, inflight, nodeInflight,
                    Begun(p, k, queued, strict, retry, fam))
    /\ UNCHANGED <<cfg, drainVars, probeVars, tickVars>>

Begin(r) ==
    \E c \in Configs : \E p \in Plans(c), strict, retry \in BOOLEAN :
        \E k \in DOMAIN p, fam \in c.families :
            Arrive(r, c, p, k, fam, strict, retry)

\* A decide() that leads to no attempt, also of /hydra/explain
Weigh(D) ==
    /\ D \subseteq cfg.deps
    /\ health' = Seen(D)
    /\ UNCHANGED <<cfg, loadVars, drainVars, probeVars, tickVars>>

-----------------------------------------------------------------------------
\* An attempt ends before the commit point

FailureKinds == {"fail", "timeout", "loading", "auth", "mismatch", "throttled"}

\* What proxy() records for the attempt. A timeout behind a saturated only
\* candidate is the engine's queue, not a failing node.
Record(r, kind, h) ==
    CASE kind = "fail" -> RecordFailure(h)
      [] kind = "timeout" -> IF req[r].queued THEN h ELSE RecordFailure(h)
      [] kind \in {"loading", "auth", "mismatch"} -> RequestState(h, kind)
      [] OTHER -> h

HealthAfter(r, kind) ==
    LET Rec(x) == Record(r, kind, x) IN OnHeld(Released(health, r), r, Rec)

\* The loop goes on to the next target unless a timeout may not be retried
MayFailOver(r, kind) == kind = "timeout" => req[r].retry

FailOver(r, kind, k) ==
    /\ req[r].phase = "attempt"
    /\ MayFailOver(r, kind)
    /\ LET h == HealthAfter(r, kind)
           rest == req[r].rest
       IN  /\ NextTarget(rest, req[r].strict, h, k)
           /\ Admit(r, rest[k], h, LoadLess(r), NodeLoadLess(r),
                    [req[r] EXCEPT !.rest = SubSeq(rest, k + 1, Len(rest)),
                                   !.queued = FALSE])
    /\ UNCHANGED <<cfg, drainVars, probeVars, tickVars>>

\* No further attempt: none may be admitted, the pre-commit budget is spent
\* (so also when one could be), or the kind ends the loop
GiveUp(r, kind) ==
    /\ req[r].phase = "attempt"
    /\ Finish(r, HealthAfter(r, kind))

\* Mutant: the path of a client that hung up does not release
EndLeaksUnit(r) ==
    /\ req[r].phase \in {"attempt", "relay"}
    /\ health' = Released(health, r)
    /\ req' = [req EXCEPT ![r] = Idle]
    /\ UNCHANGED <<cfg, loadVars, drainVars, probeVars, tickVars>>

\* The engine's own 4xx passes through, the client hung up or the handler
\* was cancelled: the unit is given back and nothing is recorded
EndUnjudged(r) ==
    /\ req[r].phase \in {"attempt", "relay"}
    /\ Finish(r, Released(health, r))

-----------------------------------------------------------------------------
\* Commit

\* The whole body is in hand
CommitBuffered(r) ==
    /\ req[r].phase = "attempt"
    /\ Finish(r, OnHeld(Released(health, r), r, RecordSuccess))

\* The first byte is: the unit is kept while the rest is relayed
CommitStream(r) ==
    /\ req[r].phase = "attempt"
    /\ req' = [req EXCEPT ![r] =
                  [@ EXCEPT !.phase = "relay", !.rest = <<>>, !.queued = FALSE,
                            !.strict = FALSE, !.retry = FALSE,
                            !.family = {}]]
    /\ UNCHANGED fleetVars

RelayCompletes(r) ==
    /\ req[r].phase = "relay"
    /\ Finish(r, Released(OnHeld(health, r, RecordSuccess), r))

\* Transport error or idle timeout mid-stream: never a replay
RelayFails(r) ==
    /\ req[r].phase = "relay"
    /\ health' = OnHeld(health, r, RecordFailure)
    /\ req' = [req EXCEPT ![r].phase = "broken"]
    /\ UNCHANGED <<cfg, loadVars, drainVars, probeVars, tickVars>>

CloseOut(r) ==
    /\ req[r].phase = "broken"
    /\ Finish(r, Released(health, r))

-----------------------------------------------------------------------------
\* A reload cuts the requests in flight off the health records it drops
Reload(c) ==
    /\ ReloadFleet(c)
    /\ req' = [r \in Requests |->
                  [req[r] EXCEPT !.live = @ /\ req[r].d \in c.deps]]

Operate ==
    \/ \E c \in Configs : Reload(c)
    \/ /\ \/ \E n \in Nodes : Drain(n) \/ Undrain(n)
          \/ Status
          \/ \E D \in SUBSET Deployments : Weigh(D)
       /\ UNCHANGED req

Probe ==
    /\ \/ \E due \in SUBSET Nodes : TickStart(due)
       \/ \E n \in Nodes, result \in {"ready", "loading", "down"}, b \in BOOLEAN :
             ProbeAnswer(n, result, b)
       \/ \E n \in Nodes, kind \in {"auth", "list", "error"},
             missing \in SUBSET Deployments : ModelsAnswer(n, kind, missing)
       \/ \E held \in BOOLEAN : LeaseAnswer(held)
    /\ UNCHANGED req

Elapse == (\E d \in Deployments : OpenElapses(d)) /\ UNCHANGED req

\* The steps of a request that record a success, and all the others
Complete(r) == CommitBuffered(r) \/ RelayCompletes(r)

Proceed(r) ==
    \/ Begin(r)
    \/ \E kind \in FailureKinds :
          \/ GiveUp(r, kind)
          \/ \E k \in 1 .. MaxAttempts : FailOver(r, kind, k)
    \/ EndUnjudged(r)
    \/ CommitStream(r)
    \/ RelayFails(r)
    \/ CloseOut(r)

Serve(r) == Proceed(r) \/ Complete(r)

Next ==
    \/ Operate
    \/ Probe
    \/ Elapse
    \/ \E r \in Requests : Serve(r)

Spec == Init /\ [][Next]_vars

-----------------------------------------------------------------------------
(***************************************************************************)
(* Safety                                                                  *)
(***************************************************************************)

\* The counters decide() balances and queues by are the units really held:
\* no path through failover, disconnect, mid-stream failure or reload leaks a
\* unit or gives one back twice (Admission.release).
InflightExact ==
    /\ \A d \in Deployments : inflight[d] = Cardinality(Holders(d))
    /\ \A n \in Nodes : nodeInflight[n] = Cardinality(NodeHolders(n))

\* A trial slot that is taken is held by a request still in flight, which
\* will give it back: a HALF_OPEN breaker is never wedged shut by a trial
\* that ended without being released.
TrialHeld ==
    \A d \in Deployments :
        health[d].trial_inflight = 1 =>
            \E r \in Requests : /\ Holding(r) /\ req[r].d = d
                                /\ req[r].live /\ req[r].trial

\* The docs (BEAST_HYDRA_PLAN.md 6.5): a HALF_OPEN deployment admits exactly
\* one in-flight trial request.
Trials(d) == {r \in Holders(d) : /\ req[r].live /\ req[r].trial
                                 /\ req[r].phase \in {"attempt", "relay"}}

OneTrial ==
    \A d \in Deployments :
        health[d].breaker = "HALF_OPEN" => Cardinality(Trials(d)) <= 1

(***************************************************************************)
(* Action properties                                                       *)
(***************************************************************************)
\* The requests keep the promise of Router: failover goes only forward in the
\* plan, to a deployment that was not tried, and never after a byte was sent,
\* and each step moves the load of the deployments it leaves and enters
\* (proxy, Admission).
Ahead(q) == {q.rest[i].d : i \in DOMAIN q.rest}
Routed == INSTANCE Router WITH
    at <- [r \in Requests |-> req[r].d],
    sent <- [r \in Requests |-> req[r].phase \in {"relay", "broken"}],
    ahead <- [r \in Requests |-> Ahead(req[r])],
    left <- [r \in Requests |-> Len(req[r].rest)],
    load <- inflight, Nobody <- None, Budget <- MaxAttempts
ImplementsRouter == Routed!Spec

Admitted(r) == /\ req'[r].phase = "attempt"
               /\ req[r].phase = "idle" \/ req'[r].d # req[r].d

\* A request is never sent to a target that could not take it at that very
\* moment, however stale its plan: the deployment READY, its breaker not
\* OPEN, a HALF_OPEN one taken as the trial, and the node not drained.
StaleAdmission(r) ==
    LET q == req'[r]
        h == health'[q.d]
    IN  \/ q.n \in Drained
        \/ /\ q.d \in cfg.deps
           /\ \/ h.state # "READY"
              \/ h.breaker = "OPEN"
              \/ h.breaker = "HALF_OPEN" /\ ~q.trial

NoStaleAdmission == [][\A r \in Requests : Admitted(r) => ~StaleAdmission(r)]_vars

\* No attempt of a non-strict request, first choice or failover, goes to a
\* family that hydra.allowed_families of the RUNNING configuration forbids,
\* nor to one that same_family forbade its route when its plan was made. (A
\* same_family that a later reload sets is not asked: the re-vet of an attempt
\* calls policy_reason without the route.)
PolicyHolds ==
    [][\A r \in Requests : Admitted(r) =>
          \/ req'[r].strict
          \/ req'[r].d \in cfg.allowed \cap req'[r].family]_vars

\* A deployment that refused the key or the model serves again only after
\* a check or an answer of the node that says otherwise; in particular a
\* readiness probe never makes it READY.
RefusalOutlivesProbes ==
    [][\A d \in cfg.deps \cap cfg'.deps :
          health[d].state \in Refused /\ health'[d].state = "READY"
          => /\ probing[cfg.node[d]] = "models"
             /\ probing'[cfg.node[d]] = "no"]_vars
=============================================================================
