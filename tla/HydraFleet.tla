----------------------------- MODULE HydraFleet -----------------------------
(***************************************************************************)
(* The routing state beast-hydra shares between all its coroutines: the    *)
(* running configuration, the health of each deployment, the in-flight     *)
(* units, the drained nodes, and the prober that feeds the health.         *)
(* HydraProxy adds the requests.                                           *)
(*                                                                         *)
(* A coroutine runs alone from one await to the next, so an action is the  *)
(* code between two awaits: a probe, a models check and a lease check are  *)
(* each a send and an answer with anything in between.                     *)
(***************************************************************************)
EXTENDS HydraHealth, FiniteSets

CONSTANTS Deployments, Configs, Slots

(***************************************************************************)
(* A configuration: the deployments it defines and the node of each, its   *)
(* nodes, the nodes marked gpu_lease, the deployments whose family         *)
(* hydra.allowed_families permits, and families: for each route, the       *)
(* deployments its same_family anchor (with the one a rule hop carries)    *)
(* leaves it. A deployment keeps its family from one configuration to the  *)
(* next.                                                                   *)
(***************************************************************************)
ConfigType ==
    [deps : SUBSET Deployments, node : [Deployments -> Nodes],
     nodes : SUBSET Nodes, gpu_lease : SUBSET Nodes,
     allowed : SUBSET Deployments, families : SUBSET SUBSET Deployments]

ASSUME ConfigAssumption ==
    /\ Configs \subseteq ConfigType
    /\ \A c \in Configs : /\ c.gpu_lease \subseteq c.nodes
                          /\ \A d \in c.deps : c.node[d] \in c.nodes

ASSUME SlotsAssumption == Slots \in [Nodes -> Nat \ {0}]

VARIABLES
    cfg,            \* Hydra.cfg
    health,         \* FleetState.health; Fresh for a deployment not in cfg
    inflight,       \* FleetState._inflight
    nodeInflight,   \* FleetState._node_inflight
    manualDrain,    \* Hydra.manual_drain
    leaseDrain,     \* Hydra.lease_drain
    probing,        \* where probe_node stands for each node
    checkDeps,      \* the deployments check_models is going to judge
    ticking,        \* probe_tick is running
    leaseNodes      \* its due gpu_lease nodes, from the cfg it started with

loadVars == <<inflight, nodeInflight>>
drainVars == <<manualDrain, leaseDrain>>
tickVars == <<ticking, leaseNodes>>
probeVars == <<probing, checkDeps>>
fleetVars == <<cfg, health, loadVars, drainVars, probeVars, tickVars>>

FleetTypeOK ==
    /\ cfg \in Configs
    /\ health \in [Deployments -> Health]
    /\ inflight \in [Deployments -> Nat]
    /\ nodeInflight \in [Nodes -> Nat]
    /\ manualDrain \subseteq Nodes
    /\ leaseDrain \subseteq Nodes
    /\ probing \in [Nodes -> {"no", "health", "models"}]
    /\ checkDeps \in [Nodes -> SUBSET Deployments]
    /\ ticking \in BOOLEAN
    /\ leaseNodes \subseteq Nodes

FleetInit ==
    /\ cfg \in Configs
    /\ health = [d \in Deployments |-> Fresh]
    /\ inflight = [d \in Deployments |-> 0]
    /\ nodeInflight = [n \in Nodes |-> 0]
    /\ manualDrain = {}
    /\ leaseDrain = {}
    /\ probing = [n \in Nodes |-> "no"]
    /\ checkDeps = [n \in Nodes |-> {}]
    /\ ticking = FALSE
    /\ leaseNodes = {}

-----------------------------------------------------------------------------
Drained == manualDrain \cup leaseDrain

DepsOf(n) == {d \in cfg.deps : cfg.node[d] = n}

\* try_admit(...) would succeed; a deployment the running config no longer
\* has is not judged
Vetted(h, d, n) ==
    /\ n \notin Drained
    /\ d \in cfg.deps => MayAdmit(h[d])

\* The health map with the records of the deployments D rewritten by F
Rewrite(h, D, F(_)) == [d \in Deployments |-> IF d \in D THEN F(h[d]) ELSE h[d]]

-----------------------------------------------------------------------------
\* Configuration and admin handlers

\* adopt: keep what was learned about deployments that remain
Kept(c) ==
    [d \in Deployments |->
        IF d \in cfg.deps /\ d \in c.deps THEN health[d] ELSE Fresh]

ReloadFleet(c) ==
    /\ c # cfg
    /\ cfg' = c
    /\ health' = Kept(c)
    /\ manualDrain' = manualDrain \cap c.nodes
    /\ leaseDrain' = leaseDrain \cap c.nodes
    /\ UNCHANGED <<loadVars, probeVars, tickVars>>

Drain(n) ==
    /\ n \in cfg.nodes
    /\ manualDrain' = manualDrain \cup {n}
    /\ UNCHANGED <<cfg, health, loadVars, leaseDrain, probeVars, tickVars>>

Undrain(n) ==
    /\ n \in cfg.nodes
    /\ manualDrain' = manualDrain \ {n}
    /\ UNCHANGED <<cfg, health, loadVars, leaseDrain, probeVars, tickVars>>

\* GET /hydra/status reads every breaker, and reading moves it
Status ==
    /\ health' = Rewrite(health, cfg.deps, BreakerState)
    /\ UNCHANGED <<cfg, loadVars, drainVars, probeVars, tickVars>>

\* breaker.open_s passes
OpenElapses(d) ==
    /\ health[d].breaker = "OPEN"
    /\ health' = [health EXCEPT ![d].elapsed = TRUE]
    /\ UNCHANGED <<cfg, loadVars, drainVars, probeVars, tickVars>>

-----------------------------------------------------------------------------
\* The prober: one tick probes the due nodes together, then asks the lease

TickStart(due) ==
    /\ ~ticking
    /\ due # {}
    /\ due \subseteq cfg.nodes
    /\ ticking' = TRUE
    /\ leaseNodes' = due \cap cfg.gpu_lease
    /\ probing' = [n \in Nodes |-> IF n \in due THEN "health" ELSE "no"]
    /\ UNCHANGED <<cfg, health, loadVars, drainVars, checkDeps>>

\* Mutant: a refused deployment waits for next_models, which may never be due
ProbeAnswerUnstuck(n, result, modelsDue) ==
    LET D == DepsOf(n)
        After(h) == OnProbe(h, result)
        probed == Rewrite(health, D, After)
        became == \E d \in D : /\ probed[d].state = "READY"
                               /\ health[d].state # "READY"
        check == result = "ready" /\ (became \/ modelsDue)
        Sent(h) == MarkSent(h, n)
    IN  /\ probing[n] = "health"
        /\ health' = IF check THEN Rewrite(probed, D, Sent) ELSE probed
        /\ probing' = [probing EXCEPT ![n] = IF check THEN "models" ELSE "no"]
        /\ checkDeps' = [checkDeps EXCEPT ![n] = IF check THEN D ELSE {}]
        /\ UNCHANGED <<cfg, loadVars, drainVars, tickVars>>

\* check_models is sent at once when a deployment became READY or is stuck
\* in a refusal, otherwise when next_models is due
ProbeAnswer(n, result, modelsDue) ==
    LET D == DepsOf(n)
        After(h) == OnProbe(h, result)
        probed == Rewrite(health, D, After)
        became == \E d \in D : /\ probed[d].state = "READY"
                               /\ health[d].state # "READY"
        stuck == \E d \in D : probed[d].state \in Refused
        check == result = "ready" /\ (became \/ stuck \/ modelsDue)
        Sent(h) == MarkSent(h, n)
    IN  /\ probing[n] = "health"
        /\ health' = IF check THEN Rewrite(probed, D, Sent) ELSE probed
        /\ probing' = [probing EXCEPT ![n] = IF check THEN "models" ELSE "no"]
        /\ checkDeps' = [checkDeps EXCEPT ![n] = IF check THEN D ELSE {}]
        /\ UNCHANGED <<cfg, loadVars, drainVars, tickVars>>

\* kind: auth (401/403), list (200, without the upstreams of missing),
\* error (anything else: no information)
ModelsAnswer(n, kind, missing) ==
    LET judged == checkDeps[n] \cap cfg.deps
        verdict(d) == IF kind = "auth" THEN "auth"
                      ELSE IF d \in missing THEN "mismatch" ELSE "ok"
        answered(d) ==
            IF kind # "error" /\ d \in judged
            THEN OnModels(health[d], n, verdict(d)) ELSE health[d]
    IN  /\ probing[n] = "models"
        /\ missing \subseteq checkDeps[n]
        /\ kind # "list" => missing = {}
        /\ health' = [d \in Deployments |-> MarkAnswered(answered(d), n)]
        /\ probing' = [probing EXCEPT ![n] = "no"]
        /\ checkDeps' = [checkDeps EXCEPT ![n] = {}]
        /\ UNCHANGED <<cfg, loadVars, drainVars, tickVars>>

\* `gpu-lease.sh check` answered: 4 (held by another process) or not
LeaseAnswer(held) ==
    /\ ticking
    /\ \A n \in Nodes : probing[n] = "no"
    /\ leaseDrain' = IF held THEN leaseDrain \cup leaseNodes
                             ELSE leaseDrain \ leaseNodes
    /\ ticking' = FALSE
    /\ leaseNodes' = {}
    /\ UNCHANGED <<cfg, health, loadVars, manualDrain, probeVars>>
=============================================================================
