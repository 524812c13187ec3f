----------------------------- MODULE HydraLive -----------------------------
(***************************************************************************)
(* Recovery of beast-hydra. From some moment on (calm) the world behaves:  *)
(* engines answer ready and serve, their keys and models are right, the    *)
(* GPU lease is free, and the operator leaves the fleet alone. Nothing is  *)
(* assumed of what happened before, nor of what calm finds in flight.      *)
(*                                                                         *)
(* Fairness is what the code schedules: probe_loop ticks every 0.25 s and  *)
(* each probe, check and lease check has a timeout; open_s is a clock;     *)
(* an attempt has a deadline and a relay ends with its answer.             *)
(***************************************************************************)
EXTENDS MC_HydraProxy

VARIABLE calm
liveVars == <<vars, calm>>

GoodAnswer(r) == CommitBuffered(r) \/ RelayCompletes(r) \/ CloseOut(r)

GoodServe(r) ==
    \/ Begin(r)
    \/ CommitStream(r)
    \/ GoodAnswer(r)

Tick == (\E due \in SUBSET Nodes : TickStart(due)) /\ UNCHANGED req
ProbeGood(n) == (\E b \in BOOLEAN : ProbeAnswer(n, "ready", b)) /\ UNCHANGED req
ModelsGood(n) == ModelsAnswer(n, "list", {}) /\ UNCHANGED req
LeaseFree == LeaseAnswer(FALSE) /\ UNCHANGED req

CalmNext ==
    \/ Tick
    \/ \E n \in Nodes : ProbeGood(n) \/ ModelsGood(n)
    \/ LeaseFree
    \/ Elapse
    \/ \E r \in Requests : GoodServe(r)

LiveInit == Init /\ calm = FALSE

LiveNext ==
    \/ ~calm /\ Next /\ calm' = FALSE
    \/ ~calm /\ calm' = TRUE /\ UNCHANGED vars
    \/ calm /\ CalmNext /\ calm' = TRUE

Fairness ==
    /\ WF_liveVars(calm /\ Tick /\ UNCHANGED calm)
    /\ \A n \in Nodes : /\ WF_liveVars(calm /\ ProbeGood(n) /\ UNCHANGED calm)
                        /\ WF_liveVars(calm /\ ModelsGood(n) /\ UNCHANGED calm)
    /\ WF_liveVars(calm /\ LeaseFree /\ UNCHANGED calm)
    /\ WF_liveVars(calm /\ Elapse /\ UNCHANGED calm)
    /\ \A r \in Requests : WF_liveVars(calm /\ GoodAnswer(r) /\ UNCHANGED calm)

LiveSpec == LiveInit /\ [][LiveNext]_liveVars /\ Fairness

-----------------------------------------------------------------------------
\* Whatever state it was in (a refused key, a wrong model, DOWN, LOADING, a
\* stale check in flight), a deployment on a good engine becomes READY again
\* and stays so: no state of the health machine is a trap.
ReadyAgain ==
    \A d \in Deployments :
        calm ~> [](d \in cfg.deps => health[d].state = "READY")

\* ... and it may be given a request again: the breaker reopens and its trial
\* slot comes back, whatever was in flight when it opened.
AdmitsAgain ==
    \A d \in Deployments :
        calm ~> (d \in cfg.deps => MayAdmit(health[d]))

\* The docs (BEAST_HYDRA_PLAN.md 6.5): a lease check that exits 0 or 3 leaves
\* the node not drained, so a free lease drains nothing.
FreeLeaseUndrains == calm ~> (leaseDrain = {})

=============================================================================
