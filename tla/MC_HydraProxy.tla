--------------------------- MODULE MC_HydraProxy ---------------------------
(***************************************************************************)
(* Small fleets for TLC.                                                   *)
(***************************************************************************)
EXTENDS HydraProxy, TLC

CONSTANTS d1, d2, n1

MCSlots == [n \in Nodes |-> 1]
OneNode == [d \in Deployments |-> n1]

\* Two deployments on a node, and two routes, one of them anchored on the
\* family of the first; or one family allowed, and no route anchored
Both == [deps |-> Deployments, node |-> OneNode, nodes |-> Nodes,
         gpu_lease |-> {}, allowed |-> Deployments,
         families |-> {Deployments, {d1}}]
Tight == [Both EXCEPT !.allowed = {d1}, !.families = {Deployments}]
PolicyConfigs == {Both, Tight}

\* Bound: AUTH_FAILED stands for MISMATCH, which acts alike
OneRefusal == \A d \in Deployments : health[d].state # "MISMATCH"

\* Bounds: what follows a commit while another request is in flight, and models
\* checks that are out while one is, are left to the other run; one breaker at a
\* time is not CLOSED, one deployment at a time is in trouble.
PreCommit ==
    /\ \A r \in Requests : req[r].phase \in {"relay", "broken"} =>
          \A q \in Requests \ {r} : ~Holding(q)
    /\ (\E n \in Nodes : probing[n] = "models") =>
          \A r \in Requests : ~Holding(r)
    /\ \A d, e \in Deployments :
          health[d].breaker # "CLOSED" /\ health[e].breaker # "CLOSED" => d = e
    /\ \A d, e \in Deployments :
          {health[d].state, health[e].state} \cap {"READY", "UNKNOWN"} = {} => d = e
    /\ OneRefusal

\* Bounds of the fleet of one deployment, where a strict request acts like
\* any other
Alike == OneRefusal /\ \A r \in Requests : ~req[r].strict

\* One deployment, and a fleet without it
With == [deps |-> {d1}, node |-> OneNode, nodes |-> Nodes,
         gpu_lease |-> {}, allowed |-> Deployments,
         families |-> {Deployments}]
Without == [With EXCEPT !.deps = {}, !.nodes = {}]
Leased == [With EXCEPT !.gpu_lease = Nodes]
LeaseConfigs == {Leased, With}
OneConfig == {Leased}
DropConfigs == {With, Without}

MCSymmetry == Permutations(Requests)
=============================================================================
