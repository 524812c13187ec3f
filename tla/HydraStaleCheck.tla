-------------------------- MODULE HydraStaleCheck --------------------------
(***************************************************************************)
(* beast-hydra with a history: the deployments whose refusal (401/403, or  *)
(* a model 404) a request observed since the /v1/models check now in       *)
(* flight to their node was sent.                                          *)
(***************************************************************************)
EXTENDS MC_HydraProxy

VARIABLE refusedSince
histVars == <<vars, refusedSince>>

ObservesRefusal(r) ==
    \E kind \in {"auth", "mismatch"} :
        \/ GiveUp(r, kind)
        \/ \E k \in 1 .. MaxAttempts : FailOver(r, kind, k)

HistInit == Init /\ refusedSince = [n \in Nodes |-> {}]

HistNext ==
    \/ \E r \in Requests :
          /\ ObservesRefusal(r)
          /\ refusedSince' = [n \in Nodes |->
                IF probing[n] = "models" /\ req[r].live
                THEN refusedSince[n] \cup ({req[r].d} \cap checkDeps[n])
                ELSE refusedSince[n]]
    \/ /\ Next /\ \A r \in Requests : ~ObservesRefusal(r)
       /\ refusedSince' = [n \in Nodes |->
             IF probing'[n] = "models" THEN refusedSince[n] ELSE {}]

HistSpec == HistInit /\ [][HistNext]_histVars

\* The docstring of on_models: an "ok" that was in flight when a request
\* observed a 401/403 or a model 404 is stale and must not clear it.
StaleOkNeverClears ==
    [][\A n \in Nodes : \A d \in refusedSince[n] \cap cfg.deps :
          (/\ probing[n] = "models" /\ probing'[n] = "no"
           /\ health[d].state \in Refused)
          => health'[d].state \in Refused]_histVars
=============================================================================
