------------------------------ MODULE Turnstile ------------------------------
(***************************************************************************)
(* What the gate promises of the requests it lets through, without keys,   *)
(* registry, rates, clock or closers: an enrollment never holds more units *)
(* than the limit; a request takes all of its own before it is forwarded   *)
(* and gives all of them back at once; and one that was forwarded is over  *)
(* only when it holds nothing and its one row is written, or broken off    *)
(* without a row.                                                          *)
(***************************************************************************)
EXTENDS Naturals

CONSTANTS Requests, Enrollments,
          Limit            \* units that an enrollment may hold

VARIABLES at,              \* each request: "out", "in", "through", "closing"
                           \* or "broken", which is out
          units,           \* ... its units of each enrollment
          rows,            \* ... its rows in the audit
          used             \* each enrollment: the units that are held of it
vars == <<at, units, rows, used>>

None == [u \in Enrollments |-> 0]
Of(u, n) == [v \in Enrollments |-> IF v = u THEN n ELSE 0]

Init ==
    /\ at = [r \in Requests |-> "out"] /\ units = [r \in Requests |-> None]
    /\ rows = [r \in Requests |-> 0] /\ used = None

Goes(r, place) == at' = [at EXCEPT ![r] = place]
Holds(r, h) ==
    /\ units' = [units EXCEPT ![r] = h]
    /\ used' = [u \in Enrollments |-> used[u] - units[r][u] + h[u]]
Tells(r, n) == rows' = [rows EXCEPT ![r] = n]

Enter(r) ==
    /\ at[r] \in {"out", "broken"} /\ Goes(r, "in")
    /\ \E u \in Enrollments : used[u] + 1 <= Limit /\ Holds(r, Of(u, 1))
    /\ Tells(r, 0)

TurnAway(r) ==                           \* ... with a row
    /\ at[r] \in {"out", "broken"} /\ Goes(r, "out") /\ Tells(r, 1)
    /\ UNCHANGED <<units, used>>

Drop(r) ==                               \* before it was forwarded
    /\ at[r] = "in" /\ Goes(r, "out") /\ Holds(r, None)
    /\ \E n \in {0, 1} : Tells(r, n)

Forward(r) ==
    /\ at[r] = "in" /\ Goes(r, "through")
    /\ \E u \in Enrollments, n \in 0 .. Limit - 1 :
          units[r] = Of(u, 1) /\ used[u] + n <= Limit /\ Holds(r, Of(u, n + 1))
    /\ UNCHANGED rows

Answer(r) ==                             \* in one piece
    /\ at[r] = "through" /\ Goes(r, "out") /\ Holds(r, None) /\ Tells(r, 1)

Break(r) ==                              \* an error of the gate's own
    /\ at[r] = "through" /\ Goes(r, "broken") /\ Holds(r, None)
    /\ UNCHANGED rows

Leave(r) ==
    /\ at[r] = "through" /\ Goes(r, "closing")
    /\ Holds(r, None) \/ UNCHANGED <<units, used>>
    /\ UNCHANGED rows

Release(r) ==
    /\ at[r] = "closing" /\ Holds(r, None)
    /\ UNCHANGED <<at, rows>>

Record(r) ==
    /\ at[r] = "closing" /\ units[r] = None /\ rows[r] = 0 /\ Tells(r, 1)
    /\ \E place \in {"closing", "out"} : Goes(r, place)
    /\ UNCHANGED <<units, used>>

Close(r) ==
    /\ at[r] = "closing" /\ units[r] = None /\ rows[r] = 1 /\ Goes(r, "out")
    /\ UNCHANGED <<units, rows, used>>

Restart ==
    /\ at' = [r \in Requests |-> "out"] /\ units' = [r \in Requests |-> None]
    /\ rows' = [r \in Requests |-> 0] /\ used' = None

Next == \/ Restart
        \/ \E r \in Requests :
              \/ Enter(r) \/ TurnAway(r) \/ Drop(r) \/ Forward(r) \/ Answer(r) \/ Break(r)
              \/ Leave(r) \/ Release(r) \/ Record(r) \/ Close(r)

Spec == Init /\ [][Next]_vars
=============================================================================
