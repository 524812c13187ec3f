-------------------------------- MODULE Card --------------------------------
(***************************************************************************)
(* What the GPU lease promises: those who use the card, and those of them  *)
(* whose use somebody ended with acquire --force.  A use starts only when  *)
(* every other user has been robbed, and only a use that robs is allowed   *)
(* to start earlier.                                                       *)
(***************************************************************************)
CONSTANT Procs
VARIABLES users, robbed
vars == <<users, robbed>>

Init == users = {} /\ robbed = {}

Take(p) ==
    /\ users \subseteq robbed
    /\ users' = users \cup {p}
    /\ robbed' = robbed \ {p}

Seize(p) ==                              \* acquire --force
    /\ users' = users \cup {p}
    /\ robbed' = users \ {p}

Rob ==                                   \* ... by a shell that is gone by then
    /\ robbed' = users
    /\ UNCHANGED users

Leave(p) ==
    /\ p \in users
    /\ users' = users \ {p}
    /\ robbed' = robbed \ {p}

Next == Rob \/ \E p \in Procs : Take(p) \/ Seize(p) \/ Leave(p)

Spec == Init /\ [][Next]_vars
=============================================================================
