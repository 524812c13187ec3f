------------------------------- MODULE Router -------------------------------
(***************************************************************************)
(* What beast-hydra promises of the requests it proxies, without health,   *)
(* breakers, drains or reloads: a request is at one deployment at a time,  *)
(* goes on to another only before the first byte of an answer was sent,    *)
(* never back to one it has tried, and at most Budget times in all; and    *)
(* the load of a deployment is the number of requests at it.               *)
(***************************************************************************)
EXTENDS Naturals

CONSTANTS Requests, Deployments,
          Nobody,          \* where a request is that is nowhere
          Budget           \* attempts a request may take

VARIABLES at,              \* each request: the deployment it is at
          sent,            \* ... the client was sent a byte of its answer
          ahead,           \* ... the deployments it may still try
          left,            \* ... the attempts it may still take
          load             \* each deployment: its requests
vars == <<at, sent, ahead, left, load>>

Init ==
    /\ at = [r \in Requests |-> Nobody] /\ sent = [r \in Requests |-> FALSE]
    /\ ahead = [r \in Requests |-> {}] /\ left = [r \in Requests |-> 0]
    /\ load = [d \in Deployments |-> 0]

One(b) == IF b THEN 1 ELSE 0

Go(r, d) ==
    /\ at' = [at EXCEPT ![r] = d]
    /\ load' = [e \in Deployments |-> load[e] - One(e = at[r]) + One(e = d)]

Hopes(r, D, m) ==
    /\ ahead' = [ahead EXCEPT ![r] = D]
    /\ left' = [left EXCEPT ![r] = m]

Arrive(r) ==
    /\ at[r] = Nobody
    /\ \E d \in Deployments : \E D \in SUBSET (Deployments \ {d}) :
         Go(r, d) /\ \E m \in 0 .. Budget - 1 : Hopes(r, D, m)
    /\ UNCHANGED sent

Retry(r) ==
    /\ at[r] # Nobody /\ ~sent[r]
    /\ \E d \in ahead[r] : \E D \in SUBSET (ahead[r] \ {d}) :
         Go(r, d) /\ \E m \in 0 .. left[r] - 1 : Hopes(r, D, m)
    /\ UNCHANGED sent

Commit(r) ==
    /\ at[r] # Nobody /\ ~sent[r]
    /\ sent' = [sent EXCEPT ![r] = TRUE]
    /\ Hopes(r, {}, 0)
    /\ UNCHANGED <<at, load>>

Leave(r) ==
    /\ at[r] # Nobody
    /\ Go(r, Nobody)
    /\ sent' = [sent EXCEPT ![r] = FALSE]
    /\ Hopes(r, {}, 0)

Next == \E r \in Requests : Arrive(r) \/ Retry(r) \/ Commit(r) \/ Leave(r)

Spec == Init /\ [][Next]_vars
=============================================================================
