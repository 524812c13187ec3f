----------------------------- MODULE HydraWins -----------------------------
(***************************************************************************)
(* beast-hydra with a history: how many requests completed on a deployment *)
(* since its breaker last opened, whether they were trials or had been     *)
(* under way before.                                                       *)
(***************************************************************************)
EXTENDS MC_HydraProxy

VARIABLE wins
winsVars == <<vars, wins>>

\* A request completes on the deployments of D (on one, or on none that the
\* configuration still has); a breaker that opens, or was CLOSED, starts anew
Count(D) ==
    wins' = [d \in Deployments |->
        IF health[d].breaker = "CLOSED" \/ health'[d].breaker = "OPEN" THEN 0
        ELSE wins[d] + (IF d \in D THEN 1 ELSE 0)]

WinsInit == Init /\ wins = [d \in Deployments |-> 0]

WinsNext ==
    \/ \E r \in Requests :
          Complete(r) /\ Count(IF req[r].live THEN {req[r].d} ELSE {})
    \/ /\ Operate \/ Probe \/ Elapse \/ \E r \in Requests : Proceed(r)
       /\ Count({})

WinsSpec == WinsInit /\ [][WinsNext]_winsVars

\* Only traffic proves recovery: the breaker of a deployment that stays
\* configured closes only as a request completes there, and that request is at
\* least the success_threshold-th since the breaker last opened. No probe,
\* check, status read or reload closes one, and what was won before a failure
\* opened it again is forgotten (breaker_state, record_success).
ClosedByTraffic ==
    [][\A d \in cfg.deps \cap cfg'.deps :
          health[d].breaker # "CLOSED" /\ health'[d].breaker = "CLOSED"
          => wins'[d] > wins[d] /\ wins'[d] >= SuccessThreshold]_winsVars
=============================================================================
