----------------------------- MODULE MC_EdgeGate -----------------------------
\* Four instances of the gate in one run: requests against each other; a device
\* that is cut off in the middle of one; a rate limit that is changed; and the
\* registry with its commands, damage and restarts
EXTENDS EdgeGate

Traffic == [requests |-> Requests, asked |-> {1, 2}, rates |-> {2},
            ops |-> {}, faults |-> {}, changes |-> 0]
CutOffs == [requests |-> {"r1"}, asked |-> {1}, rates |-> {2},
            ops |-> {"enroll", "revoke", "remove"}, faults |-> {}, changes |-> 2]
Retunes == [requests |-> {"r1"}, asked |-> {1, 2}, rates |-> {1, 2},
            ops |-> {"rotate"}, faults |-> {"restart", "cancel"}, changes |-> 1]
Registry == [requests |-> {"r1"}, asked |-> {4}, rates |-> {2},
             ops |-> Ops, faults |-> Faults, changes |-> 3]
MCMenus == {Traffic, CutOffs, Retunes, Registry}
=============================================================================
