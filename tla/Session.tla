------------------------------ MODULE Session ------------------------------
(***************************************************************************)
(* What the ledger promises of one session, without files, readers or      *)
(* threads: what it says of the session and of which process, and what of  *)
(* the steering ops the model was given.  A later process takes the        *)
(* session over, a guess gives way to a verdict and a verdict to nothing   *)
(* but a later process; the ops come in order, each once, and none to a    *)
(* session that is given up as lost.                                       *)
(***************************************************************************)
EXTENDS Naturals

CONSTANTS Runs,        \* the processes, one after the other
          Ops          \* the steering ops, one after the other

VARIABLES says,        \* the state of the session
          run,         \* the process it is about
          given        \* how often each op was given to the model
vars == <<says, run, given>>

Final == {"done", "failed", "stopped"}

Init == says = "none" /\ run = 0 /\ given = [k \in Ops |-> 0]

Begin(i) ==
    /\ i > run
    /\ says' = "running" /\ run' = i
    /\ UNCHANGED given

\* Nobody has heard of the process for long enough
Presume ==
    /\ says = "running" /\ says' = "lost"
    /\ UNCHANGED <<run, given>>

End ==
    /\ says \in {"running", "lost"} /\ says' \in Final
    /\ UNCHANGED <<run, given>>

\* The model is given what follows all it was given
Give ==
    /\ says \notin {"none", "lost"}
    /\ \E K \in SUBSET Ops :
         /\ \A k \in K, j \in Ops : given[j] > 0 => j < k
         /\ given' = [k \in Ops |-> IF k \in K THEN 1 ELSE given[k]]
    /\ UNCHANGED <<says, run>>

Next == Presume \/ End \/ Give \/ \E i \in Runs : Begin(i)

Spec == Init /\ [][Next]_vars
=============================================================================
