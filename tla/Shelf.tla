------------------------------- MODULE Shelf -------------------------------
(***************************************************************************)
(* What the artifact store promises of one page, without files, locks or   *)
(* crashes: each operation happens in one step and changes one thing.      *)
(* Nothing that was published goes away but by the operation that says so, *)
(* and an operation that fails, or dies, has not happened.                 *)
(***************************************************************************)
EXTENDS Naturals

CONSTANTS Principals, Numbers, Pages

VARIABLE shelf
vars == <<shelf>>

Absent == [owner |-> "nobody", visibility |-> "private", current |-> 0,
           pages |-> [n \in {} |-> 0], pinned |-> FALSE]

Shared == {"private", "tailnet"}
Init == shelf = Absent

\* The first version makes the page, of any visibility
Create ==
    /\ shelf = Absent
    /\ \E o \in Principals, v \in Shared, n \in Numbers, b \in Pages :
          shelf' = [owner |-> o, visibility |-> v, current |-> n,
                    pages |-> [k \in {n} |-> b], pinned |-> FALSE]

\* Another one gets a number above every number in use, and is served
Publish ==
    /\ shelf # Absent
    /\ \E b \in Pages, n \in Numbers :
         /\ \A k \in DOMAIN shelf.pages : k < n
         /\ shelf' = [shelf EXCEPT
                !.current = n,
                !.pages = [k \in DOMAIN shelf.pages \cup {n} |->
                             IF k = n THEN b ELSE shelf.pages[k]]]

Drop ==
    /\ shelf # Absent
    /\ \E n \in DOMAIN shelf.pages \ {shelf.current} :
          shelf' = [shelf EXCEPT
              !.pages = [k \in DOMAIN shelf.pages \ {n} |-> shelf.pages[k]]]

Point ==
    /\ shelf # Absent
    /\ \E n \in DOMAIN shelf.pages : shelf' = [shelf EXCEPT !.current = n]

Share ==
    /\ shelf # Absent
    /\ \E v \in Shared : shelf' = [shelf EXCEPT !.visibility = v]

Pin ==
    /\ shelf # Absent
    /\ \E b \in BOOLEAN : shelf' = [shelf EXCEPT !.pinned = b]

Give ==
    /\ shelf # Absent
    /\ \E o \in Principals : shelf' = [shelf EXCEPT !.owner = o]

Clear == shelf' = Absent

Next == Create \/ Publish \/ Drop \/ Point \/ Share \/ Pin \/ Give \/ Clear

Spec == Init /\ [][Next]_vars
=============================================================================
