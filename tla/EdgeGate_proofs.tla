---------------------------- MODULE EdgeGate_proofs ----------------------------
(***************************************************************************)
(* Theorems about the gate, for any requests, runs of clients.sh, limits   *)
(* and rates: its types, that the units in flight are those that requests  *)
(* hold, that what was forwarded is audited once, that a device that was   *)
(* cut off is soon cut off, that a key that was taken away stays out, and  *)
(* that the gate implements Turnstile.                                     *)
(***************************************************************************)
EXTENDS EdgeGate, FiniteSetTheorems, TLAPS

\* What a request has done with its units, its row and its clock
Sound(q) ==
    /\ q.rows <= 1
    /\ q.at = "over" =>
          q.done /\ (q.sent /\ q.cause # "cancelled" => q.rows = 1 /\ q.told = q.cause)
    /\ q.cause = "cancelled" => q.at = "over"
    /\ q.at = "body" => ~q.done /\ q.held = 1 /\ ~q.sent /\ q.rows = 0
    /\ q.at \in {"body", "sent", "ready", "relay"} => q.finally = "none" /\ q.sweep = "none"
    /\ q.at \in {"sent", "ready", "relay"} => ~q.done /\ q.rows = 0
    /\ q.at = "ending" =>
          /\ q.rows = 1 => q.told = q.cause
          /\ q.finally = "done" \/ q.sweep = "done" => q.rows = 1
          /\ q.sweep \in {"due", "closing", "done"} /\ q.rows = 0
                => q.cause = "client_disconnect"
          /\ q.finally \in {"closing", "done"} \/ q.sweep \in {"closing", "done"}
                => q.done
    /\ q.at = "sent" => q.lapsed <= q.age
    /\ q.at = "ready" \/ (q.at = "relay" /\ q.age = 0) => q.lapsed <= 1

Serving(row) == row # NoRow /\ ~row.revoked => row.key \notin banned

\* A command that runs is one of them, and has a key if it needs one
Asked(c) == c.at # "idle" => c.op \in Ops /\ (c.op \in WithKey => c.key # NoKey)

\* The registry and its writers: who has loaded it has the lock, and a key
\* that is on its way in is nobody's yet
RegistryInv ==
    /\ banned \subseteq 1 .. keys /\ file.row.key <= keys /\ Serving(file.row)
    /\ \A w \in Writers :
          /\ Asked(cli[w]) /\ cli[w].key <= keys /\ cli[w].copy.key <= keys
          /\ cli[w].at = "loaded" => flocked = w /\ Serving(cli[w].copy)
          /\ cli[w].key # NoKey =>
                /\ cli[w].key \notin banned /\ cli[w].key # file.row.key
                /\ \A v \in Writers : /\ cli[w].key # cli[v].copy.key
                                      /\ v # w => cli[w].key # cli[v].key

\* The inductive invariant
IInv == /\ EdgeTypeOK /\ SlotsExact /\ RegistryInv
        /\ \A r \in Requests : Sound(req[r])

-----------------------------------------------------------------------------
LEMMA Basics ==
  /\ NoRow \notin Rows /\ NoRow.key = NoKey /\ NoRow.rate \in Rates
  /\ Over \in States /\ Sound(Over) /\ IdleCli \in Commands
  /\ NoBucket \in Buckets /\ Fresh \in Registries /\ Absent \in Files /\ Bad \in Files
  /\ Anon \notin Keys /\ Anon \in Uids /\ \A k \in Keys : k \in Uids /\ k \in Nat /\ k # NoKey
  <1> USE GateAssumption
  <1>1. NoRow \notin Rows /\ NoRow.key = NoKey /\ NoRow.rate \in Rates
    BY DEF NoRow, Rows, Keys, NoKey
  <1>2. Anon \notin Keys /\ Anon \in Uids
        /\ \A k \in Keys : k \in Uids /\ k \in Nat /\ k # NoKey
    BY DEF Anon, Keys, Uids, NoKey
  <1>3. Over \in States
    BY <1>2 DEF Over, States, Closer, Causes
  <1>4. Sound(Over)
    BY DEF Sound, Over
  <1>5. IdleCli \in Commands
    BY DEF IdleCli, Commands, Ops
  <1>6. NoBucket \in Buckets
    BY DEF NoBucket, Buckets
  <1>7. Fresh \in Registries /\ Absent \in Files /\ Bad \in Files
    BY DEF Fresh, Registries, Absent, Bad, Files
  <1> QED BY <1>1, <1>2, <1>3, <1>4, <1>5, <1>6, <1>7

-----------------------------------------------------------------------------
(* The units of a request, and how their number changes *)

Own(r, q, u) == {r} \X (IF q.uid = u /\ ~q.done THEN 1 .. q.held ELSE {})

LEMMA OwnCount ==
  ASSUME NEW r \in Requests, NEW q \in States, NEW u
  PROVE  IsFiniteSet(Own(r, q, u)) /\ Cardinality(Own(r, q, u)) = Holds(q, u)
  <1> DEFINE S == IF q.uid = u /\ ~q.done THEN 1 .. q.held ELSE {}
  <1>1. q.held \in Nat
    BY GateAssumption DEF States
  <1>2. IsFiniteSet(S) /\ Cardinality(S) = Holds(q, u)
    <2>1. CASE q.uid = u /\ ~q.done
      <3>1. S = 1 .. q.held /\ Holds(q, u) = q.held
        BY <2>1 DEF Holds
      <3>2. IsFiniteSet(1 .. q.held)
            /\ Cardinality(1 .. q.held) = IF 1 > q.held THEN 0 ELSE q.held - 1 + 1
        BY <1>1, FS_Interval
      <3>3. (IF 1 > q.held THEN 0 ELSE q.held - 1 + 1) = q.held
        BY <1>1
      <3> QED BY <3>1, <3>2, <3>3
    <2>2. CASE ~(q.uid = u /\ ~q.done)
      BY <2>2, FS_EmptySet DEF Holds
    <2> QED BY <2>1, <2>2
  <1>3. IsFiniteSet({r}) /\ Cardinality({r}) = 1
    BY FS_Singleton
  <1>4. /\ IsFiniteSet({r} \X S)
        /\ Cardinality({r} \X S) = Cardinality({r}) * Cardinality(S)
    BY <1>2, <1>3, FS_Product
  <1>5. Holds(q, u) \in Nat /\ 1 * Holds(q, u) = Holds(q, u)
    BY <1>1 DEF Holds
  <1> QED BY <1>2, <1>3, <1>4, <1>5 DEF Own

LEMMA UnitsFinite ==
  ASSUME EdgeTypeOK, NEW u
  PROVE  IsFiniteSet(Units(u)) /\ Cardinality(Units(u)) \in Nat
  <1>1. IsFiniteSet(1 .. MaxInflight)
    BY GateAssumption, FS_Interval
  <1>2. IsFiniteSet(Requests \X (1 .. MaxInflight))
    BY <1>1, GateAssumption, FS_Product
  <1>3. Units(u) \in SUBSET (Requests \X (1 .. MaxInflight))
    BY DEF Units
  <1> QED BY <1>2, <1>3, FS_Subset, FS_CardinalityType

LEMMA OwnCounted ==
  ASSUME EdgeTypeOK, NEW r \in Requests, NEW u
  PROVE  /\ Own(r, req[r], u) \subseteq Units(u)
         /\ Holds(req[r], u) \in Nat /\ Holds(req[r], u) <= Cardinality(Units(u))
  <1> DEFINE A == Own(r, req[r], u)
  <1>t. req[r] \in States
    BY DEF EdgeTypeOK
  <1>1. req[r].held \in 0 .. MaxInflight /\ MaxInflight \in Nat
    BY <1>t, GateAssumption DEF States
  <1>2. A \subseteq Units(u)
    <2> SUFFICES ASSUME NEW x \in A PROVE x \in Units(u)
      OBVIOUS
    <2>1. PICK i \in IF req[r].uid = u /\ ~req[r].done THEN 1 .. req[r].held ELSE {} :
             x = <<r, i>>
      BY DEF Own
    <2>2. req[r].uid = u /\ ~req[r].done /\ i \in 1 .. req[r].held
      BY <2>1
    <2>3. i \in 1 .. MaxInflight /\ i <= req[r].held
      BY <2>2, <1>1
    <2> QED BY <2>1, <2>2, <2>3 DEF Units
  <1>3. Cardinality(A) <= Cardinality(Units(u))
    BY <1>2, UnitsFinite, FS_Subset
  <1>4. Cardinality(A) = Holds(req[r], u)
    BY <1>t, OwnCount
  <1>5. Holds(req[r], u) \in Nat
    BY <1>1 DEF Holds
  <1> QED BY <1>2, <1>3, <1>4, <1>5

\* One request changes: the units of u change by its own
LEMMA UnitsChange ==
  ASSUME EdgeTypeOK, NEW r \in Requests, NEW q \in States, NEW u,
         req' = [req EXCEPT ![r] = q]
  PROVE  Cardinality(Units(u)') = Cardinality(Units(u)) - Holds(req[r], u) + Holds(q, u)
  <1> DEFINE A == Own(r, req[r], u)
             B == Own(r, q, u)
             Rest == Units(u) \ A
  <1>t. req[r] \in States /\ req \in [Requests -> States]
    BY DEF EdgeTypeOK
  <1>1. /\ IsFiniteSet(A) /\ Cardinality(A) = Holds(req[r], u)
        /\ IsFiniteSet(B) /\ Cardinality(B) = Holds(q, u)
    BY <1>t, OwnCount
  <1>2. /\ req[r].held \in 0 .. MaxInflight /\ q.held \in 0 .. MaxInflight
        /\ MaxInflight \in Nat
    BY <1>t, GateAssumption DEF States
  <1>3. Units(u) = Rest \cup A /\ Rest \cap A = {}
    <2>1. A \subseteq Units(u)
      BY OwnCounted
    <2> QED BY <2>1
  <1>4. Units(u)' = Rest \cup B /\ Rest \cap B = {}
    <2>1. req'[r] = q /\ \A s \in Requests \ {r} : req'[s] = req[s]
      BY <1>t
    <2>2. \A s \in Requests, i \in 1 .. MaxInflight :
             <<s, i>> \in Units(u)' <=> req'[s].uid = u /\ ~req'[s].done /\ i <= req'[s].held
      BY DEF Units
    <2>3. \A s \in Requests, i \in 1 .. MaxInflight :
             <<s, i>> \in Units(u) <=> req[s].uid = u /\ ~req[s].done /\ i <= req[s].held
      BY DEF Units
    <2>4. \A s, i : <<s, i>> \in B <=> s = r /\ q.uid = u /\ ~q.done /\ i \in 1 .. q.held
      BY DEF Own
    <2>5. \A s, i : <<s, i>> \in A <=>
             s = r /\ req[r].uid = u /\ ~req[r].done /\ i \in 1 .. req[r].held
      BY DEF Own
    <2>6. \A i \in 1 .. MaxInflight : /\ i <= q.held <=> i \in 1 .. q.held
                                      /\ i <= req[r].held <=> i \in 1 .. req[r].held
      BY <1>2
    <2>7. \A i \in 1 .. q.held : i \in 1 .. MaxInflight
      BY <1>2
    <2>8. \A s \in Requests, i \in 1 .. MaxInflight :
             <<s, i>> \in Units(u)' <=> <<s, i>> \in Rest \cup B
      BY <2>1, <2>2, <2>3, <2>4, <2>5, <2>6
    <2>9. Units(u)' \subseteq Requests \X (1 .. MaxInflight)
          /\ Rest \subseteq Requests \X (1 .. MaxInflight)
      BY DEF Units
    <2>10. B \subseteq Requests \X (1 .. MaxInflight)
      BY <2>7 DEF Own
    <2>11. \A i : <<r, i>> \notin Rest
      <3> SUFFICES ASSUME NEW i, <<r, i>> \in Units(u) PROVE <<r, i>> \in A
        OBVIOUS
      <3>1. i \in 1 .. MaxInflight
        BY DEF Units
      <3> QED BY <3>1, <2>3, <2>5, <2>6
    <2>12. \A x \in B : \E i : x = <<r, i>>
      BY DEF Own
    <2> QED BY <2>8, <2>9, <2>10, <2>11, <2>12
  <1>5. IsFiniteSet(Rest)
    BY UnitsFinite, FS_Subset
  <1>6. Cardinality(Units(u)) = Cardinality(Rest) + Holds(req[r], u)
    <2>1. Cardinality(Rest \cup A) =
             Cardinality(Rest) + Cardinality(A) - Cardinality(Rest \cap A)
      BY <1>1, <1>5, FS_Union
    <2>2. Cardinality({}) = 0 /\ Cardinality(Rest) \in Nat
      BY <1>5, FS_EmptySet, FS_CardinalityType
    <2>3. Holds(req[r], u) \in Nat
      BY <1>2 DEF Holds
    <2>4. Cardinality(Rest \cap A) = 0 /\ Cardinality(Units(u)) = Cardinality(Rest \cup A)
      BY <1>3, <2>2
    <2>5. Cardinality(A) = Holds(req[r], u)
      BY <1>1
    <2> HIDE DEF A, Rest
    <2> QED BY <2>1, <2>2, <2>3, <2>4, <2>5
  <1>7. Cardinality(Units(u)') = Cardinality(Rest) + Holds(q, u)
    <2>1. Cardinality(Rest \cup B) =
             Cardinality(Rest) + Cardinality(B) - Cardinality(Rest \cap B)
      BY <1>1, <1>5, FS_Union
    <2>2. Cardinality({}) = 0 /\ Cardinality(Rest) \in Nat
      BY <1>5, FS_EmptySet, FS_CardinalityType
    <2>3. Holds(q, u) \in Nat
      BY <1>2 DEF Holds
    <2>4. Cardinality(Rest \cap B) = 0 /\ Cardinality(Units(u)') = Cardinality(Rest \cup B)
      BY <1>4, <2>2
    <2>5. Cardinality(B) = Holds(q, u)
      BY <1>1
    <2> HIDE DEF B, Rest
    <2> QED BY <2>1, <2>2, <2>3, <2>4, <2>5
  <1>8. Cardinality(Rest) \in Nat
    BY <1>5, FS_CardinalityType
  <1>9. Holds(req[r], u) \in Nat /\ Holds(q, u) \in Nat
    BY <1>2 DEF Holds
  <1> QED BY <1>6, <1>7, <1>8, <1>9

-----------------------------------------------------------------------------
(* The steps of one request *)

\* The registry and its writers are left alone
Quiet == UNCHANGED <<file, flocked, cli, keys, banned>> /\ changes' \in Nat

LEMMA Quietly == IInv /\ UNCHANGED registryVars => Quiet
  BY DEF Quiet, registryVars, IInv, EdgeTypeOK

\* A request moves: the buckets must follow the units that it holds
LEMMA RequestStep ==
  ASSUME IInv, NEW r \in Requests, NEW q \in States, Sound(q),
         req' = [req EXCEPT ![r] = q],
         bucket' \in [Uids -> Buckets],
         \A u \in Uids : bucket'[u].inflight =
                            bucket[u].inflight - Holds(req[r], u) + Holds(q, u),
         reg' \in Registries, Quiet, menu' = menu
  PROVE  IInv'
  <1> USE DEF Quiet
  <1>t. EdgeTypeOK
    BY DEF IInv
  <1>1. EdgeTypeOK'
    BY <1>t DEF EdgeTypeOK
  <1>2. SlotsExact'
    <2> SUFFICES ASSUME NEW u \in Uids
                 PROVE  bucket'[u].inflight = Cardinality(Units(u)')
      BY DEF SlotsExact
    <2>1. bucket[u].inflight = Cardinality(Units(u))
      BY DEF IInv, SlotsExact
    <2> QED BY <1>t, <2>1, UnitsChange
  <1>3. RegistryInv'
    BY DEF IInv, RegistryInv, Serving
  <1>4. \A s \in Requests : Sound(req'[s])
    BY <1>t DEF IInv, EdgeTypeOK
  <1> QED BY <1>1, <1>2, <1>3, <1>4 DEF IInv

LEMMA SameUnits ==
  ASSUME IInv, NEW r \in Requests, NEW q \in States, Sound(q),
         req' = [req EXCEPT ![r] = q], bucket' = bucket,
         \A u \in Uids : Holds(req[r], u) = Holds(q, u),
         reg' \in Registries, UNCHANGED registryVars, menu' = menu
  PROVE  IInv'
  <1>t. EdgeTypeOK
    BY DEF IInv
  <1>1. bucket' \in [Uids -> Buckets]
    BY <1>t DEF EdgeTypeOK
  <1>2. \A u \in Uids : bucket'[u].inflight =
                           bucket[u].inflight - Holds(req[r], u) + Holds(q, u)
    <2> SUFFICES ASSUME NEW u \in Uids
                 PROVE  bucket[u].inflight = bucket[u].inflight - Holds(req[r], u) + Holds(q, u)
      OBVIOUS
    <2>1. Holds(req[r], u) \in Nat
      BY <1>t, OwnCounted
    <2>2. bucket[u].inflight \in Nat
      BY <1>t, GateAssumption DEF EdgeTypeOK, Buckets
    <2> QED BY <2>1, <2>2
  <1> QED BY <1>1, <1>2, Quietly, RequestStep

\* What is given back is what was held: release() never has to guard
LEMMA Releases ==
  ASSUME IInv, NEW r \in Requests, ~req[r].done,
         bucket' = [bucket EXCEPT ![req[r].uid] = Released(@, req[r].held)]
  PROVE  /\ bucket' \in [Uids -> Buckets]
         /\ \A u \in Uids : bucket'[u].inflight = bucket[u].inflight - Holds(req[r], u)
  <1> DEFINE v == req[r].uid
  <1>t. /\ EdgeTypeOK /\ req[r] \in States /\ bucket \in [Uids -> Buckets]
        /\ v \in Uids /\ req[r].held \in 0 .. MaxInflight /\ MaxInflight \in Nat
    BY GateAssumption DEF IInv, EdgeTypeOK, States
  <1>1. bucket[v].inflight = Cardinality(Units(v))
    BY <1>t DEF IInv, SlotsExact
  <1>2. Holds(req[r], v) = req[r].held
    BY DEF Holds
  <1>3. req[r].held <= bucket[v].inflight
    BY <1>t, <1>1, <1>2, OwnCounted
  <1>4. Released(bucket[v], req[r].held) = [bucket[v] EXCEPT !.inflight = @ - req[r].held]
    <2>1. ~(bucket[v].inflight < req[r].held)
      BY <1>3, <1>t DEF Buckets
    <2> QED BY <2>1 DEF Released
  <1>5. /\ Released(bucket[v], req[r].held) \in Buckets
        /\ Released(bucket[v], req[r].held).inflight = bucket[v].inflight - req[r].held
    BY <1>3, <1>4, <1>t DEF Buckets
  <1>6. bucket' \in [Uids -> Buckets]
    BY <1>5, <1>t
  <1>7. \A u \in Uids : bucket'[u].inflight = bucket[u].inflight - Holds(req[r], u)
    <2> SUFFICES ASSUME NEW u \in Uids
                 PROVE  bucket'[u].inflight = bucket[u].inflight - Holds(req[r], u)
      OBVIOUS
    <2>1. CASE u = v
      BY <2>1, <1>2, <1>5, <1>t
    <2>2. CASE u # v
      <3>1. Holds(req[r], u) = 0 /\ bucket'[u] = bucket[u] /\ bucket[u].inflight \in Nat
        BY <2>2, <1>t DEF Holds, Buckets
      <3> QED BY <3>1
    <2> QED BY <2>1, <2>2
  <1> QED BY <1>6, <1>7

\* ... and then the request holds nothing
LEMMA ReleaseStep ==
  ASSUME IInv, NEW r \in Requests, ~req[r].done,
         bucket' = [bucket EXCEPT ![req[r].uid] = Released(@, req[r].held)],
         NEW q \in States, Sound(q), q.done,
         req' = [req EXCEPT ![r] = q],
         reg' \in Registries, Quiet, menu' = menu
  PROVE  IInv'
  <1>t. EdgeTypeOK
    BY DEF IInv
  <1>1. /\ bucket' \in [Uids -> Buckets]
        /\ \A u \in Uids : bucket'[u].inflight = bucket[u].inflight - Holds(req[r], u)
    BY Releases
  <1>2. \A u \in Uids : bucket'[u].inflight =
                           bucket[u].inflight - Holds(req[r], u) + Holds(q, u)
    <2> SUFFICES ASSUME NEW u \in Uids
                 PROVE  bucket'[u].inflight =
                           bucket[u].inflight - Holds(req[r], u) + Holds(q, u)
      OBVIOUS
    <2>1. Holds(q, u) = 0
      BY DEF Holds
    <2>2. bucket'[u].inflight \in Nat /\ bucket'[u].inflight + 0 = bucket'[u].inflight
      BY <1>1, GateAssumption DEF Buckets
    <2> QED BY <1>1, <2>1, <2>2
  <1> QED BY <1>1, <1>2, RequestStep

\* What the gate has read of the registry
LEMMA ReloadType ==
  ASSUME NEW g \in Registries, NEW f \in Files
  PROVE  Reload(g, f) \in Registries
  <1>1. f.at \in {"absent", "bad", "good"} /\ f.row \in Rows \cup {NoRow}
    BY DEF Files
  <1>2. CASE f.at = "absent"
    BY <1>2, Basics DEF Reload
  <1>3. CASE f.at = "bad"
    BY <1>3 DEF Reload, Registries
  <1>4. CASE f.at = "good"
    BY <1>1, <1>4 DEF Reload, Registries
  <1> QED BY <1>1, <1>2, <1>3, <1>4

LEMMA ReadType ==
  ASSUME EdgeTypeOK
  PROVE  Read \in Registries
  BY ReloadType DEF EdgeTypeOK, Read

LEMMA IdentifyType ==
  ASSUME NEW g \in Registries, NEW key, Identify(g, key) # Refused
  PROVE  Identify(g, key) \in Uids /\ RateOf(g, Identify(g, key)) \in Rates
  <1>1. CASE Configured(g)
    <2>1. g.row \in Rows
      BY <1>1 DEF Registries, Configured
    <2>2. Identify(g, key) = g.row.uid
      BY <1>1 DEF Identify
    <2> QED BY <2>1, <2>2, Basics, GateAssumption DEF Rows, RateOf
  <1>2. CASE ~Configured(g)
    <2>1. Identify(g, key) = Anon
      BY <1>2 DEF Identify
    <2> QED BY <2>1, Basics, GateAssumption DEF RateOf
  <1> QED BY <1>1, <1>2

-----------------------------------------------------------------------------
LEMMA FinishedSound ==
  ASSUME NEW q \in States, q.rows <= 1,
         q.sent /\ q.cause # "cancelled" => q.rows = 1 /\ q.told = q.cause
  PROVE  Finished(q) \in States /\ Sound(Finished(q)) /\ Finished(q).done
  <1>1. Finished(q) \in States
    BY Basics DEF Finished, States
  <1>2. Finished(q).done /\ Sound(Finished(q))
    BY DEF Finished, Over, Sound
  <1> QED BY <1>1, <1>2

LEMMA EndsInv ==
  ASSUME IInv, NEW r \in Requests, NEW rows \in 0 .. 1, NEW cause \in Causes,
         Ends(r, rows, cause),
         Is(r, "body") \/ (Is(r, "sent") /\ (rows = 1 \/ cause = "cancelled")),
         reg' \in Registries, Quiet, menu' = menu
  PROVE  IInv'
  <1> DEFINE q == [req[r] EXCEPT !.rows = rows, !.cause = cause, !.told = cause]
  <1>t. req[r] \in States /\ Sound(req[r])
    BY DEF IInv, EdgeTypeOK
  <1>1. q \in States /\ q.rows <= 1 /\ (q.sent /\ q.cause # "cancelled" => q.rows = 1 /\ q.told = q.cause)
    <2>1. rows \in 0 .. 2 /\ rows <= 1 /\ req[r].rows \in 0 .. 2
      BY <1>t DEF States
    <2>2. q \in States
      BY <2>1, <1>t DEF States
    <2>3. q.sent = req[r].sent /\ q.rows = rows /\ q.told = q.cause /\ q.cause = cause
      BY <1>t DEF States
    <2>4. q.sent /\ cause # "cancelled" => rows = 1
      BY <2>3, <1>t DEF Sound, Is
    <2> QED BY <2>1, <2>2, <2>3, <2>4
  <1>2. Finished(q) \in States /\ Sound(Finished(q)) /\ Finished(q).done
    <2> HIDE DEF q
    <2> QED BY <1>1, FinishedSound
  <1>3. ~req[r].done
    BY <1>t DEF Sound, Is
  <1>4. /\ req' = [req EXCEPT ![r] = Finished(q)]
        /\ bucket' = [bucket EXCEPT ![req[r].uid] = Released(@, req[r].held)]
    BY DEF Ends, Goes
  <1> HIDE DEF q
  <1> QED BY <1>2, <1>3, <1>4, ReleaseStep

LEMMA BucketType ==
  ASSUME NEW b \in Buckets
  PROVE  /\ b \in [cap : Rates \cup {0}, tokens : Nat, inflight : 0 .. MaxInflight]
         /\ b.cap \in Nat /\ b.tokens \in Nat /\ b.inflight \in Nat
         /\ b.tokens <= b.cap /\ b.inflight <= MaxInflight /\ MaxInflight \in Nat
  <1>1. \A c \in Rates \cup {0} : c \in Nat
    BY GateAssumption
  <1>2. b \in [cap : Rates \cup {0}, tokens : Nat, inflight : 0 .. MaxInflight]
        /\ b.tokens <= b.cap
    BY DEF Buckets
  <1>3. MaxInflight \in Nat
    BY GateAssumption
  <1>4. b.cap \in Rates \cup {0} /\ b.tokens \in Nat /\ b.inflight \in 0 .. MaxInflight
    BY <1>2
  <1> QED BY <1>1, <1>2, <1>3, <1>4

LEMMA TunedType ==
  ASSUME NEW b \in Buckets, NEW rate \in Rates
  PROVE  Tuned(b, rate) \in Buckets /\ Tuned(b, rate).inflight = b.inflight
  <1>1. rate \in Nat /\ 0 \in 0 .. MaxInflight
    BY GateAssumption
  <1>2. CASE b = NoBucket
    <2>1. Tuned(b, rate) = [cap |-> rate, tokens |-> rate, inflight |-> 0] /\ b.inflight = 0
      BY <1>2 DEF Tuned, NoBucket
    <2> QED BY <1>1, <2>1 DEF Buckets
  <1>3. CASE b # NoBucket
    <2>1. AtMost(b.tokens, rate) \in Nat /\ AtMost(b.tokens, rate) <= rate
      BY <1>1, BucketType DEF AtMost
    <2>2. Tuned(b, rate) = [b EXCEPT !.cap = rate, !.tokens = AtMost(b.tokens, rate)]
      BY <1>3 DEF Tuned
    <2> QED BY <2>1, <2>2, BucketType DEF Buckets
  <1> QED BY <1>2, <1>3

LEMMA ReservedType ==
  ASSUME NEW b \in Buckets, NEW n \in Nat, n = 0 \/ MayReserve(b, n)
  PROVE  Reserved(b, n) \in Buckets /\ Reserved(b, n).inflight = b.inflight + n
  <1>1. n <= b.tokens /\ b.inflight + n <= MaxInflight
    BY BucketType DEF MayReserve
  <1>2. /\ b.tokens - n \in Nat /\ b.tokens - n <= b.cap
        /\ b.inflight + n \in 0 .. MaxInflight
    BY <1>1, BucketType
  <1>3. Reserved(b, n) = [b EXCEPT !.tokens = b.tokens - n, !.inflight = b.inflight + n]
    BY DEF Reserved
  <1> QED BY <1>2, <1>3, BucketType DEF Buckets

LEMMA ArriveInv ==
  ASSUME IInv, NEW r \in Requests, Arrive(r), menu' = menu
  PROVE  IInv'
  <1>t. EdgeTypeOK /\ req[r] \in States /\ Sound(req[r]) /\ bucket \in [Uids -> Buckets]
    BY DEF IInv, EdgeTypeOK
  <1>r. reg' \in Registries /\ UNCHANGED registryVars
    BY <1>t, ReadType DEF Arrive
  <1> PICK key \in {NoKey} \cup 1 .. keys :
        LET u == Identify(reg', key)
            b == Tuned(bucket[u], RateOf(reg', u))
        IN /\ u # Refused
           /\ IF MayReserve(b, 1)
              THEN /\ bucket' = [bucket EXCEPT ![u] = Reserved(b, 1)]
                   /\ Goes(r, [Over EXCEPT !.at = "body", !.key = key, !.uid = u,
                                           !.held = 1, !.done = FALSE])
              ELSE /\ bucket' = [bucket EXCEPT ![u] = b]
                   /\ Goes(r, [Over EXCEPT !.cause = "refused", !.rows = 1,
                                           !.told = "refused"])
    BY DEF Arrive
  <1> DEFINE u == Identify(reg', key)
             b == Tuned(bucket[u], RateOf(reg', u))
  <1>1. u \in Uids /\ RateOf(reg', u) \in Rates
    BY <1>r, IdentifyType
  <1>2. b \in Buckets /\ b.inflight = bucket[u].inflight
    BY <1>1, <1>t, TunedType
  <1>3. \A v : Holds(req[r], v) = 0
    BY <1>t DEF Holds, Sound, Arrive, Is
  <1>n. \A v \in Uids : bucket[v].inflight \in Nat
    BY <1>t, GateAssumption DEF Buckets
  <1>4. CASE MayReserve(b, 1)
    <2> DEFINE q == [Over EXCEPT !.at = "body", !.key = key, !.uid = u,
                                 !.held = 1, !.done = FALSE]
    <2>1. bucket' = [bucket EXCEPT ![u] = Reserved(b, 1)] /\ req' = [req EXCEPT ![r] = q]
      BY <1>4 DEF Goes
    <2>2. q \in States
      <3>1. key \in Keys \cup {NoKey} /\ 1 \in 0 .. MaxInflight
        BY <1>t, GateAssumption DEF EdgeTypeOK, Keys
      <3> QED BY <3>1, <1>1, Basics DEF States
    <2>3. Sound(q)
      BY DEF Sound, Over
    <2>4. Reserved(b, 1) \in Buckets /\ Reserved(b, 1).inflight = bucket[u].inflight + 1
      BY <1>2, <1>4, ReservedType
    <2>5. Holds(q, u) = 1 /\ \A v \in Uids \ {u} : Holds(q, v) = 0
      BY DEF Holds, Over
    <2>6. bucket' \in [Uids -> Buckets]
      BY <2>1, <2>4, <1>1, <1>t
    <2>7. \A v \in Uids : bucket'[v].inflight =
                             bucket[v].inflight - Holds(req[r], v) + Holds(q, v)
      <3> SUFFICES ASSUME NEW v \in Uids
                   PROVE  bucket'[v].inflight =
                             bucket[v].inflight - Holds(req[r], v) + Holds(q, v)
        OBVIOUS
      <3>1. CASE v = u
        BY <3>1, <2>1, <2>4, <2>5, <1>3, <1>n, <1>t
      <3>2. CASE v # u
        <4>1. bucket'[v] = bucket[v] /\ Holds(q, v) = 0
          BY <3>2, <2>1, <2>5, <1>t
        <4> QED BY <4>1, <1>3, <1>n
      <3> QED BY <3>1, <3>2
    <2> HIDE DEF q, b, u
    <2> QED BY <2>1, <2>2, <2>3, <2>6, <2>7, <1>r, Quietly, RequestStep
  <1>5. CASE ~MayReserve(b, 1)
    <2> DEFINE q == [Over EXCEPT !.cause = "refused", !.rows = 1, !.told = "refused"]
    <2>1. bucket' = [bucket EXCEPT ![u] = b] /\ req' = [req EXCEPT ![r] = q]
      BY <1>5 DEF Goes
    <2>2. q \in States
      <3>1. 1 \in 0 .. 2 /\ "refused" \in Causes
        BY DEF Causes
      <3> QED BY <3>1, Basics DEF States
    <2>3. Sound(q) /\ \A v : Holds(q, v) = 0
      BY DEF Sound, Over, Holds
    <2>6. bucket' \in [Uids -> Buckets] /\ \A v \in Uids : bucket'[v].inflight = bucket[v].inflight
      BY <2>1, <1>1, <1>2, <1>t
    <2>7. \A v \in Uids : bucket'[v].inflight =
                             bucket[v].inflight - Holds(req[r], v) + Holds(q, v)
      BY <2>3, <2>6, <1>3, <1>n
    <2> HIDE DEF q, b, u
    <2> QED BY <2>1, <2>2, <2>3, <2>6, <2>7, <1>r, Quietly, RequestStep
  <1> QED BY <1>4, <1>5

LEMMA BodyArrivesInv ==
  ASSUME IInv, NEW r \in Requests, BodyArrives(r), menu' = menu
  PROVE  IInv'
  <1>t. /\ EdgeTypeOK /\ req[r] \in States /\ Sound(req[r]) /\ bucket \in [Uids -> Buckets]
        /\ req[r].uid \in Uids
    BY DEF IInv, EdgeTypeOK, States
  <1>r. reg' \in Registries /\ UNCHANGED registryVars
    BY <1>t DEF BodyArrives, EdgeTypeOK
  <1>b. Is(r, "body") /\ ~req[r].done /\ req[r].held = 1
    BY <1>t DEF BodyArrives, Sound, Is
  <1> PICK inputs \in menu.asked, n \in menu.asked :
        LET gens == Generations(inputs, n)
            more == gens - 1
            b == bucket[req[r].uid]
        IN CASE gens > MaxInflight -> Ends(r, 1, "fanout")
             [] gens <= MaxInflight /\ more > 0 /\ ~MayReserve(b, more) ->
                   Ends(r, 1, "refused")
             [] OTHER ->
                   /\ bucket' = [bucket EXCEPT ![req[r].uid] = Reserved(b, more)]
                   /\ Goes(r, [req[r] EXCEPT !.at = "sent", !.sent = TRUE,
                                  !.held = gens, !.age = 0, !.lapsed = 0])
    BY DEF BodyArrives
  <1> DEFINE gens == Generations(inputs, n)
             more == gens - 1
             u == req[r].uid
  <1>1. gens \in Nat \ {0}
    <2>1. inputs \in Nat \ {0} /\ n \in Nat \ {0}
      BY <1>t, GateAssumption DEF EdgeTypeOK
    <2>2. \A i, j \in Nat \ {0} : i * j \in Nat \ {0}
      OBVIOUS
    <2> QED BY <2>1, <2>2 DEF Generations
  <1>2. MaxInflight \in Nat /\ "fanout" \in Causes /\ "refused" \in Causes /\ 1 \in 0 .. 1
    BY GateAssumption DEF Causes
  <1>3. CASE Ends(r, 1, "fanout") \/ Ends(r, 1, "refused")
    BY <1>3, <1>2, <1>r, <1>b, Quietly, EndsInv
  <1>4. CASE ~(Ends(r, 1, "fanout") \/ Ends(r, 1, "refused"))
    <2> DEFINE q == [req[r] EXCEPT !.at = "sent", !.sent = TRUE,
                                   !.held = gens, !.age = 0, !.lapsed = 0]
    <2>1. /\ gens <= MaxInflight /\ (more > 0 => MayReserve(bucket[u], more))
          /\ bucket' = [bucket EXCEPT ![u] = Reserved(bucket[u], more)]
          /\ req' = [req EXCEPT ![r] = q]
      BY <1>1, <1>2, <1>4 DEF Goes
    <2>2. more \in Nat /\ gens \in 0 .. MaxInflight /\ more + 1 = gens
      BY <2>1, <1>1, <1>2
    <2>3. q \in States
      <3>1. 0 \in 0 .. 2 /\ 0 \in {0, 1}
        OBVIOUS
      <3> HIDE DEF gens
      <3> QED BY <3>1, <2>2, <1>t DEF States
    <2>4. Sound(q)
      <3>1. /\ q.rows = 0 /\ ~q.done /\ q.at = "sent" /\ q.lapsed = 0 /\ q.age = 0
            /\ q.finally = "none" /\ q.sweep = "none" /\ q.cause # "cancelled"
        BY <1>t, <1>b DEF Sound, Is, States
      <3> QED BY <3>1 DEF Sound
    <2>5. /\ Reserved(bucket[u], more) \in Buckets
          /\ Reserved(bucket[u], more).inflight = bucket[u].inflight + more
      <3>1. more = 0 \/ MayReserve(bucket[u], more)
        BY <2>1, <2>2
      <3> QED BY <3>1, <2>2, <1>t, ReservedType
    <2>6. bucket' \in [Uids -> Buckets]
      BY <2>1, <2>5, <1>t
    <2>7. /\ Holds(req[r], u) = 1 /\ Holds(q, u) = gens
          /\ \A v \in Uids \ {u} : Holds(req[r], v) = 0 /\ Holds(q, v) = 0
      BY <1>b, <1>t DEF Holds, States
    <2>8. \A v \in Uids : bucket'[v].inflight =
                             bucket[v].inflight - Holds(req[r], v) + Holds(q, v)
      <3> SUFFICES ASSUME NEW v \in Uids
                   PROVE  bucket'[v].inflight =
                             bucket[v].inflight - Holds(req[r], v) + Holds(q, v)
        OBVIOUS
      <3>n. bucket[v].inflight \in Nat
        BY <1>t, BucketType
      <3>1. CASE v = u
        <4>1. bucket'[v].inflight = bucket[v].inflight + more
          BY <3>1, <2>1, <2>5, <1>t
        <4>2. Holds(req[r], v) = 1 /\ Holds(q, v) = gens
          BY <3>1, <2>7
        <4> HIDE DEF q, gens
        <4> QED BY <4>1, <4>2, <3>n, <2>2
      <3>2. CASE v # u
        <4>1. bucket'[v] = bucket[v] /\ Holds(q, v) = 0 /\ Holds(req[r], v) = 0
          BY <3>2, <2>1, <2>7, <1>t
        <4> QED BY <4>1, <3>n
      <3> QED BY <3>1, <3>2
    <2> HIDE DEF q, gens, u
    <2> QED BY <2>1, <2>3, <2>4, <2>6, <2>8, <1>r, Quietly, RequestStep
  <1> QED BY <1>3, <1>4

LEMMA ReadsInv ==
  ASSUME IInv, NEW r \in Requests, Reads(r), menu' = menu
  PROVE  IInv'
  <1>1. reg \in Registries
    BY DEF IInv, EdgeTypeOK
  <1>2. CASE BodyEnds(r)
    <2>1. 0 \in 0 .. 1 /\ "none" \in Causes
      BY DEF Causes
    <2> QED BY <1>1, <1>2, <2>1, Quietly, EndsInv DEF BodyEnds
  <1>3. CASE BadBody(r)
    <2>1. 1 \in 0 .. 1 /\ "bad_request" \in Causes
      BY DEF Causes
    <2> QED BY <1>1, <1>3, <2>1, Quietly, EndsInv DEF BadBody
  <1> QED BY <1>2, <1>3, BodyArrivesInv DEF Reads

LEMMA WaitsInv ==
  ASSUME IInv, NEW r \in Requests, Waits(r), menu' = menu
  PROVE  IInv'
  <1>t. /\ EdgeTypeOK /\ reg \in Registries /\ Read \in Registries
        /\ req[r] \in States /\ Sound(req[r])
    BY ReadType DEF IInv, EdgeTypeOK
  <1>c. 1 \in 0 .. 1 /\ {"revoked", "client_disconnect", "upstream_timeout"} \subseteq Causes
    BY DEF Causes
  <1>1. CASE Recheck(r)
    <2>1. reg' \in Registries /\ UNCHANGED registryVars
      BY <1>1, <1>t DEF Recheck
    <2>2. CASE StillEnrolled(r)
      <3> DEFINE q == [req[r] EXCEPT !.age = 0, !.lapsed = 0]
      <3>1. req' = [req EXCEPT ![r] = q] /\ bucket' = bucket
        BY <1>1, <2>2 DEF Recheck, Goes
      <3>2. q \in States /\ Sound(q)
        <4>1. 0 \in {0, 1} /\ 0 \in 0 .. 2 /\ 0 <= 1
          OBVIOUS
        <4>2. q \in States
          BY <4>1, <1>t DEF States
        <4>3. /\ q.at = "sent" /\ ~q.done /\ q.rows = 0 /\ q.lapsed = 0 /\ q.age = 0
               /\ q.finally = "none" /\ q.sweep = "none" /\ q.cause # "cancelled"
          BY <1>t, <1>1 DEF Recheck, Is, States, Sound
        <4> HIDE DEF q
        <4> QED BY <4>2, <4>3 DEF Sound
      <3>3. \A u \in Uids : Holds(req[r], u) = Holds(q, u)
        BY <1>t DEF Holds, States
      <3> HIDE DEF q
      <3> QED BY <3>1, <3>2, <3>3, <2>1, SameUnits
    <2>3. CASE ~StillEnrolled(r)
      BY <1>1, <2>1, <2>3, <1>c, Quietly, EndsInv DEF Recheck
    <2> QED BY <2>2, <2>3
  <1>2. CASE GoneWaiting(r)
    BY <1>2, <1>t, <1>c, Quietly, EndsInv DEF GoneWaiting
  <1>3. CASE TimesOut(r)
    BY <1>3, <1>t, <1>c, Quietly, EndsInv DEF TimesOut
  <1>4. CASE Headers(r)
    <2> DEFINE q == [req[r] EXCEPT !.at = "ready"]
    <2>1. /\ req' = [req EXCEPT ![r] = q] /\ bucket' = bucket
          /\ reg' = reg /\ UNCHANGED registryVars
      BY <1>4 DEF Headers, Goes
    <2>2. q \in States
      BY <1>t DEF States
    <2>3. Sound(q)
      <3>1. req[r].at = "sent" /\ req[r].age \in {0, 1} /\ req[r].lapsed \in 0 .. 2
        BY <1>4, <1>t DEF Headers, Is, States
      <3> QED BY <3>1, <1>t DEF States, Sound
    <2>4. \A u \in Uids : Holds(req[r], u) = Holds(q, u)
      BY <1>t DEF Holds, States
    <2> HIDE DEF q
    <2> QED BY <2>1, <2>2, <2>3, <2>4, <1>t, SameUnits
  <1>5. CASE Cancelled(r)
    <2>1. Quiet
      BY <1>5, <1>t DEF Cancelled, Change, Quiet, EdgeTypeOK
    <2>2. Is(r, "sent") /\ Ends(r, 0, "cancelled") /\ reg' = reg
          /\ 0 \in 0 .. 1 /\ "cancelled" \in Causes
      BY <1>5 DEF Cancelled, Causes
    <2> QED BY <2>1, <2>2, <1>t, EndsInv
  <1> QED BY <1>1, <1>2, <1>3, <1>4, <1>5 DEF Waits

-----------------------------------------------------------------------------
(* The answer *)

\* A closer, or the end of the loop, gives the units back unless it was done
LEMMA GivesBackStep ==
  ASSUME IInv, NEW r \in Requests, GivesBack(r),
         NEW q \in States, Sound(q), q.done, req' = [req EXCEPT ![r] = q],
         reg' \in Registries, UNCHANGED registryVars, menu' = menu
  PROVE  IInv'
  <1>1. CASE req[r].done
    <2>1. bucket' = bucket /\ \A u \in Uids : Holds(req[r], u) = Holds(q, u)
      BY <1>1 DEF GivesBack, Holds
    <2> QED BY <2>1, SameUnits
  <1>2. CASE ~req[r].done
    <2>1. bucket' = [bucket EXCEPT ![req[r].uid] = Released(@, req[r].held)]
      BY <1>2 DEF GivesBack
    <2> QED BY <1>2, <2>1, Quietly, ReleaseStep
  <1> QED BY <1>1, <1>2

LEMMA LeavesInv ==
  ASSUME IInv, NEW r \in Requests, Is(r, "relay"), NEW cause \in Causes \ {"cancelled"},
         NEW sweep \in {"none", "next"}, Leaves(r, cause, sweep),
         reg' \in Registries, UNCHANGED registryVars, menu' = menu
  PROVE  IInv'
  <1> DEFINE q == [req[r] EXCEPT !.at = "ending", !.done = TRUE, !.cause = cause,
                                 !.finally = "closing", !.sweep = sweep, !.left = FALSE]
  <1>t. req[r] \in States /\ Sound(req[r])
    BY DEF IInv, EdgeTypeOK
  <1>1. GivesBack(r) /\ req' = [req EXCEPT ![r] = q]
    BY DEF Leaves, Goes
  <1>2. q \in States
    BY <1>t DEF States, Closer
  <1>3. /\ q.at = "ending" /\ q.rows = 0 /\ q.done
        /\ q.finally = "closing" /\ q.sweep \in {"none", "next"}
        /\ q.cause # "cancelled"
    BY <1>t DEF States, Sound, Is
  <1>4. Sound(q)
    <2> HIDE DEF q
    <2> QED BY <1>3 DEF Sound
  <1> HIDE DEF q
  <1> QED BY <1>1, <1>2, <1>3, <1>4, GivesBackStep

\* A request moves on without touching its units
LEMMA MovesOn ==
  ASSUME IInv, NEW r \in Requests, NEW q \in States, Sound(q),
         q.uid = req[r].uid, q.held = req[r].held, q.done = req[r].done,
         req' = [req EXCEPT ![r] = q], UNCHANGED <<bucket, registryVars, menu>>,
         reg' \in Registries
  PROVE  IInv'
  <1>1. \A u \in Uids : Holds(req[r], u) = Holds(q, u)
    BY DEF Holds
  <1> QED BY <1>1, SameUnits

\* The client hangs up: the request does not know it yet
LEMMA HangsInv ==
  ASSUME IInv, NEW r \in Requests, Hangs(r), menu' = menu
  PROVE  IInv'
  <1> DEFINE q == [req[r] EXCEPT !.left = TRUE]
  <1>t. req[r] \in States /\ Sound(req[r]) /\ reg \in Registries
    BY DEF IInv, EdgeTypeOK
  <1>1. /\ req' = [req EXCEPT ![r] = q] /\ UNCHANGED <<bucket, registryVars>> /\ reg' = reg
    BY DEF Hangs, Goes
  <1>2. /\ q \in States /\ q.uid = req[r].uid /\ q.held = req[r].held
        /\ q.done = req[r].done
    BY <1>t DEF States
  <1>3. Sound(q)
    <2>1. /\ q.at = req[r].at /\ q.done = req[r].done /\ q.held = req[r].held
          /\ q.sent = req[r].sent /\ q.rows = req[r].rows /\ q.told = req[r].told
          /\ q.cause = req[r].cause /\ q.finally = req[r].finally
          /\ q.sweep = req[r].sweep /\ q.lapsed = req[r].lapsed /\ q.age = req[r].age
      BY <1>t DEF States
    <2> HIDE DEF q
    <2> QED BY <2>1, <1>t, Zenon DEF Sound
  <1> HIDE DEF q
  <1> QED BY <1>1, <1>2, <1>3, <1>t, MovesOn

LEMMA ChunkInv ==
  ASSUME IInv, NEW r \in Requests, Chunk(r), menu' = menu
  PROVE  IInv'
  <1>t. /\ req[r] \in States /\ Sound(req[r]) /\ reg \in Registries /\ Read \in Registries
        /\ req[r].at = "relay" /\ ~req[r].done /\ req[r].rows = 0
        /\ req[r].chunks + 1 \in 0 .. MaxChunks
    <2>1. EdgeTypeOK /\ req[r] \in States /\ Sound(req[r]) /\ reg \in Registries
      BY DEF IInv, EdgeTypeOK
    <2>2. req[r].chunks \in 0 .. MaxChunks /\ req[r].chunks < MaxChunks /\ MaxChunks \in Nat
      BY <2>1, GateAssumption DEF Chunk, States
    <2> QED BY <2>1, <2>2, ReadType DEF Chunk, Is, Sound
  <1>1. CASE ~Due(r)
    <2> DEFINE q == [req[r] EXCEPT !.chunks = @ + 1]
    <2>1. /\ req' = [req EXCEPT ![r] = q] /\ UNCHANGED <<bucket, registryVars>> /\ reg' = reg
      BY <1>1 DEF Chunk, Goes
    <2>2. /\ q \in States /\ q.uid = req[r].uid /\ q.held = req[r].held
          /\ q.done = req[r].done
      BY <1>t DEF States
    <2>3. Sound(q)
      <3>1. /\ q.at = "relay" /\ ~q.done /\ q.rows = 0 /\ q.age = req[r].age
            /\ q.lapsed = req[r].lapsed /\ q.finally = "none" /\ q.sweep = "none"
            /\ q.cause # "cancelled"
        BY <1>t DEF States, Sound
      <3>2. req[r].age = 0 => req[r].lapsed <= 1
        BY <1>t DEF Sound
      <3> HIDE DEF q
      <3> QED BY <3>1, <3>2 DEF Sound
    <2> HIDE DEF q
    <2> QED BY <2>1, <2>2, <2>3, <1>t, MovesOn
  <1>2. CASE Due(r) /\ StillEnrolled(r)
    <2> DEFINE q == [req[r] EXCEPT !.chunks = @ + 1, !.age = 0, !.lapsed = 0]
    <2>1. /\ req' = [req EXCEPT ![r] = q] /\ UNCHANGED <<bucket, registryVars>>
          /\ reg' = Read
      BY <1>2 DEF Chunk, Goes
    <2>2. /\ q \in States /\ q.uid = req[r].uid /\ q.held = req[r].held
          /\ q.done = req[r].done
      <3>1. 0 \in 0 .. 2 /\ 0 \in {0, 1}
        OBVIOUS
      <3> QED BY <3>1, <1>t DEF States
    <2>3. Sound(q)
      <3>1. /\ q.at = "relay" /\ ~q.done /\ q.rows = 0 /\ q.lapsed = 0
            /\ q.finally = "none" /\ q.sweep = "none" /\ q.cause # "cancelled"
        BY <1>t DEF States, Sound
      <3> HIDE DEF q
      <3> QED BY <3>1 DEF Sound
    <2> HIDE DEF q
    <2> QED BY <2>1, <2>2, <2>3, <1>t, MovesOn
  <1>3. CASE Due(r) /\ ~StillEnrolled(r)
    <2>1. Leaves(r, "revoked", "next") /\ reg' = Read /\ UNCHANGED registryVars /\ Is(r, "relay")
      BY <1>3 DEF Chunk
    <2> QED BY <2>1, <1>t, LeavesInv DEF Causes
  <1> QED BY <1>1, <1>2, <1>3

LEMMA GoneStreamingInv ==
  ASSUME IInv, NEW r \in Requests, GoneStreaming(r), menu' = menu
  PROVE  IInv'
  <1>t. /\ req[r] \in States /\ Sound(req[r]) /\ reg \in Registries /\ reg' = reg
        /\ UNCHANGED registryVars /\ "client_disconnect" \in Causes
    BY DEF IInv, EdgeTypeOK, GoneStreaming, Causes
  <1>1. ASSUME Is(r, "ready"), UNCHANGED bucket,
               Goes(r, [req[r] EXCEPT !.at = "ending", !.cause = "client_disconnect",
                                      !.sweep = "due", !.left = FALSE])
        PROVE  IInv'
    <2> DEFINE q == [req[r] EXCEPT !.at = "ending", !.cause = "client_disconnect",
                                   !.sweep = "due", !.left = FALSE]
    <2>1. req' = [req EXCEPT ![r] = q]
      BY <1>1 DEF Goes
    <2>2. /\ q \in States /\ q.uid = req[r].uid /\ q.held = req[r].held
          /\ q.done = req[r].done
      BY <1>t DEF States, Closer
    <2>3. Sound(q)
      <3>1. /\ q.at = "ending" /\ q.rows = 0 /\ q.sweep = "due"
            /\ q.finally = req[r].finally /\ q.cause = "client_disconnect"
        BY <1>1, <1>t DEF States, Sound, Is
      <3>2. req[r].finally = "none"
        BY <1>1, <1>t DEF Sound, Is
      <3> HIDE DEF q
      <3> QED BY <3>1, <3>2 DEF Sound
    <2> HIDE DEF q
    <2> QED BY <2>1, <2>2, <2>3, <1>1, <1>t, MovesOn
  <1>2. CASE Is(r, "relay") /\ Leaves(r, "client_disconnect", "next")
    BY <1>2, <1>t, LeavesInv
  <1>3. ASSUME Is(r, "relay"), UNCHANGED bucket,
               Goes(r, [req[r] EXCEPT !.at = "ending", !.cause = "client_disconnect",
                                      !.finally = "due", !.sweep = "due", !.left = FALSE])
        PROVE  IInv'
    <2> DEFINE q == [req[r] EXCEPT !.at = "ending", !.cause = "client_disconnect",
                                   !.finally = "due", !.sweep = "due", !.left = FALSE]
    <2>1. req' = [req EXCEPT ![r] = q]
      BY <1>3 DEF Goes
    <2>2. /\ q \in States /\ q.uid = req[r].uid /\ q.held = req[r].held
          /\ q.done = req[r].done
      BY <1>t DEF States, Closer
    <2>3. Sound(q)
      <3>1. /\ q.at = "ending" /\ q.rows = 0 /\ q.sweep = "due" /\ q.finally = "due"
            /\ q.cause = "client_disconnect"
        BY <1>3, <1>t DEF States, Sound, Is
      <3> HIDE DEF q
      <3> QED BY <3>1 DEF Sound
    <2> HIDE DEF q
    <2> QED BY <2>1, <2>2, <2>3, <1>3, <1>t, MovesOn
  <1> QED BY <1>1, <1>2, <1>3 DEF GoneStreaming

LEMMA StreamsInv ==
  ASSUME IInv, NEW r \in Requests, Streams(r), menu' = menu
  PROVE  IInv'
  <1>t. req[r] \in States /\ Sound(req[r]) /\ reg \in Registries
    BY DEF IInv, EdgeTypeOK
  <1>c. {"ok", "upstream_timeout", "upstream_error"} \subseteq Causes \ {"cancelled"}
    BY DEF Causes
  <1>1. CASE StartRelay(r)
    <2> DEFINE q == [req[r] EXCEPT !.at = "relay", !.age = 0]
    <2>1. /\ req' = [req EXCEPT ![r] = q] /\ UNCHANGED <<bucket, registryVars>> /\ reg' = reg
          /\ req[r].at = "ready"
      BY <1>1 DEF StartRelay, Goes, Is
    <2>2. /\ q \in States /\ q.uid = req[r].uid /\ q.held = req[r].held
          /\ q.done = req[r].done
      <3>1. 0 \in {0, 1}
        OBVIOUS
      <3> QED BY <3>1, <1>t DEF States
    <2>3. Sound(q)
      <3>1. /\ q.at = "relay" /\ ~q.done /\ q.rows = 0 /\ q.lapsed <= 1
            /\ q.finally = "none" /\ q.sweep = "none" /\ q.cause # "cancelled"
        BY <2>1, <1>t DEF States, Sound
      <3> HIDE DEF q
      <3> QED BY <3>1 DEF Sound
    <2> HIDE DEF q
    <2> QED BY <2>1, <2>2, <2>3, <1>t, MovesOn
  <1>2. CASE Completes(r)
    BY <1>2, <1>t, <1>c, LeavesInv DEF Completes
  <1>3. CASE StreamFails(r)
    BY <1>3, <1>t, <1>c, LeavesInv DEF StreamFails
  <1> QED BY <1>1, <1>2, <1>3, ChunkInv, GoneStreamingInv DEF Streams

LEMMA SettledSound ==
  ASSUME NEW q \in States, Sound(q), q.at = "ending", q.rows = 1, q.done
  PROVE  /\ Settled(q) \in States /\ Sound(Settled(q)) /\ Settled(q).done
  <1>1. CASE q.finally \in Closing \/ q.sweep \in Closing
    BY <1>1 DEF Settled
  <1>2. CASE ~(q.finally \in Closing \/ q.sweep \in Closing)
    <2>1. Settled(q) = Finished(q)
      BY <1>2 DEF Settled
    <2>2. q.told = q.cause
      BY DEF Sound
    <2> QED BY <2>1, <2>2, FinishedSound
  <1> QED BY <1>1, <1>2

\* The row that a closer writes tells how the request ended
LEMMA AuditedSound ==
  ASSUME NEW q \in States, Sound(q), q.at = "ending", NEW cause \in Causes,
         q.rows = 0 => cause = q.cause
  PROVE  /\ Audited(q, cause) \in States
         /\ Audited(q, cause).rows = 1 /\ Audited(q, cause).told = q.cause
         /\ \E rows \in 0 .. 2, told \in Causes :
               Audited(q, cause) = [q EXCEPT !.rows = rows, !.told = told]
  <1>1. q.rows \in {0, 1}
    <2>1. q.rows \in 0 .. 2 /\ q.rows <= 1
      BY DEF States, Sound
    <2> QED BY <2>1
  <1>2. CASE q.rows = 0
    <2>1. Audited(q, cause) = [q EXCEPT !.rows = 1, !.told = cause] /\ 1 \in 0 .. 2
      BY <1>2 DEF Audited
    <2>2. q.cause = cause
      BY <1>2
    <2>3. [q EXCEPT !.rows = 1, !.told = cause] \in States
      BY <2>1 DEF States
    <2>4. /\ [q EXCEPT !.rows = 1, !.told = cause].rows = 1
          /\ [q EXCEPT !.rows = 1, !.told = cause].told = cause
      BY DEF States
    <2> QED BY <2>1, <2>2, <2>3, <2>4
  <1>3. CASE q.rows = 1
    <2>1. Audited(q, cause) = q /\ q.told = q.cause /\ q.told \in Causes /\ 1 \in 0 .. 2
      BY <1>3 DEF Audited, Sound, States
    <2>2. q = [q EXCEPT !.rows = 1, !.told = q.told]
      BY <1>3 DEF States
    <2> QED BY <2>1, <2>2, <1>3
  <1> QED BY <1>1, <1>2, <1>3

LEMMA ClosesInv ==
  ASSUME IInv, NEW r \in Requests, Closes(r), menu' = menu
  PROVE  IInv'
  <1>t. req[r] \in States /\ Sound(req[r]) /\ reg \in Registries
    BY DEF IInv, EdgeTypeOK
  <1>c. req[r].cause \in Causes /\ "client_disconnect" \in Causes
    BY <1>t DEF States, Causes
  <1>1. CASE FinallyStarts(r)
    <2> DEFINE q == [req[r] EXCEPT !.finally = "closing", !.done = TRUE]
    <2>1. /\ GivesBack(r) /\ req' = [req EXCEPT ![r] = q] /\ reg' = reg
          /\ UNCHANGED registryVars /\ req[r].at = "ending" /\ req[r].finally = "due"
      BY <1>1 DEF FinallyStarts, Goes, Is
    <2>2. q \in States /\ q.done
      BY <1>t DEF States, Closer
    <2>3. Sound(q)
      <3>1. /\ q.at = "ending" /\ q.done /\ q.finally = "closing" /\ q.sweep = req[r].sweep
            /\ q.rows = req[r].rows /\ q.told = req[r].told /\ q.cause = req[r].cause
        BY <2>1, <1>t DEF States
      <3> HIDE DEF q
      <3> QED BY <3>1, <2>1, <1>t DEF Sound
    <2> HIDE DEF q
    <2> QED BY <2>1, <2>2, <2>3, <1>t, GivesBackStep
  <1>2. CASE SweepStarts(r)
    <2> DEFINE q == [req[r] EXCEPT !.sweep = "closing", !.done = TRUE]
    <2>1. /\ GivesBack(r) /\ req' = [req EXCEPT ![r] = q] /\ reg' = reg
          /\ UNCHANGED registryVars /\ req[r].at = "ending" /\ req[r].sweep = "due"
      BY <1>2 DEF SweepStarts, Goes, Is
    <2>2. q \in States /\ q.done
      BY <1>t DEF States, Closer
    <2>3. Sound(q)
      <3>1. /\ q.at = "ending" /\ q.done /\ q.sweep = "closing" /\ q.finally = req[r].finally
            /\ q.rows = req[r].rows /\ q.told = req[r].told /\ q.cause = req[r].cause
        BY <2>1, <1>t DEF States
      <3> HIDE DEF q
      <3> QED BY <3>1, <2>1, <1>t DEF Sound
    <2> HIDE DEF q
    <2> QED BY <2>1, <2>2, <2>3, <1>t, GivesBackStep
  <1>3. CASE FinallyCloses(r)
    <2> DEFINE p == Audited(req[r], req[r].cause)
               q == [p EXCEPT !.finally = "done",
                              !.sweep = IF @ = "next" THEN "due" ELSE @]
    <2>1. /\ req' = [req EXCEPT ![r] = Settled(q)] /\ reg' = reg
          /\ UNCHANGED <<bucket, registryVars>>
          /\ req[r].at = "ending" /\ req[r].finally = "closing" /\ req[r].done
      BY <1>3, <1>t DEF FinallyCloses, Goes, Is, Sound
    <2>2. p \in States /\ p.rows = 1 /\ p.told = req[r].cause
      BY <2>1, <1>t, <1>c, AuditedSound
    <2>3. PICK rows \in 0 .. 2, told \in Causes :
             p = [req[r] EXCEPT !.rows = rows, !.told = told]
      BY <2>1, <1>t, <1>c, AuditedSound
    <2>4. /\ p.at = "ending" /\ p.done /\ p.cause = req[r].cause
          /\ p.sweep \in Closer
      BY <2>1, <2>3, <1>t DEF States
    <2>5. /\ q \in States /\ q.rows = 1 /\ q.told = q.cause /\ q.at = "ending" /\ q.done
          /\ q.cause # "cancelled"
      <3>1. req[r].cause # "cancelled"
        BY <2>1, <1>t DEF Sound
      <3> HIDE DEF p
      <3> QED BY <3>1, <2>2, <2>4 DEF States, Closer
    <2>6. Sound(q)
      <3> HIDE DEF q
      <3> QED BY <2>5 DEF Sound
    <2>7. /\ Settled(q) \in States /\ Sound(Settled(q)) /\ Settled(q).done
      <3> HIDE DEF q
      <3> QED BY <2>5, <2>6, SettledSound
    <2>8. GivesBack(r)
      BY <2>1 DEF GivesBack
    <2> HIDE DEF q
    <2> QED BY <2>1, <2>7, <2>8, <1>t, GivesBackStep
  <1>4. CASE SweepCloses(r)
    <2> DEFINE p == Audited(req[r], "client_disconnect")
               q == [p EXCEPT !.sweep = "done"]
    <2>1. /\ req' = [req EXCEPT ![r] = Settled(q)] /\ reg' = reg
          /\ UNCHANGED <<bucket, registryVars>>
          /\ req[r].at = "ending" /\ req[r].sweep = "closing" /\ req[r].done
          /\ (req[r].rows = 0 => "client_disconnect" = req[r].cause)
      BY <1>4, <1>t DEF SweepCloses, Goes, Is, Sound
    <2>2. p \in States /\ p.rows = 1 /\ p.told = req[r].cause
      BY <2>1, <1>t, <1>c, AuditedSound
    <2>3. PICK rows \in 0 .. 2, told \in Causes :
             p = [req[r] EXCEPT !.rows = rows, !.told = told]
      BY <2>1, <1>t, <1>c, AuditedSound
    <2>4. p.at = "ending" /\ p.done /\ p.cause = req[r].cause
      BY <2>1, <2>3, <1>t DEF States
    <2>5. /\ q \in States /\ q.rows = 1 /\ q.told = q.cause /\ q.at = "ending" /\ q.done
          /\ q.cause # "cancelled"
      <3>1. req[r].cause # "cancelled"
        BY <2>1, <1>t DEF Sound
      <3> HIDE DEF p
      <3> QED BY <3>1, <2>2, <2>4 DEF States, Closer
    <2>6. Sound(q)
      <3> HIDE DEF q
      <3> QED BY <2>5 DEF Sound
    <2>7. /\ Settled(q) \in States /\ Sound(Settled(q)) /\ Settled(q).done
      <3> HIDE DEF q
      <3> QED BY <2>5, <2>6, SettledSound
    <2>8. GivesBack(r)
      BY <2>1 DEF GivesBack
    <2> HIDE DEF q
    <2> QED BY <2>1, <2>7, <2>8, <1>t, GivesBackStep
  <1> QED BY <1>1, <1>2, <1>3, <1>4 DEF Closes

-----------------------------------------------------------------------------
(* The clock, the buckets and the registry *)

\* Whatever leaves requests and units alone
LEMMA Beside ==
  ASSUME IInv, EdgeTypeOK', req' = req,
         \A u \in Uids : bucket'[u].inflight = bucket[u].inflight, RegistryInv'
  PROVE  IInv'
  <1>1. SlotsExact'
    BY DEF IInv, SlotsExact, Units
  <1> QED BY <1>1 DEF IInv

LEMMA UnauthorizedInv ==
  ASSUME IInv, NEW r \in Requests, Unauthorized(r), menu' = menu
  PROVE  IInv'
  <1>1. EdgeTypeOK'
    BY ReadType DEF Unauthorized, registryVars, IInv, EdgeTypeOK
  <1>2. RegistryInv'
    BY DEF Unauthorized, registryVars, IInv, RegistryInv, Serving
  <1> QED BY <1>1, <1>2, Beside DEF Unauthorized

LEMMA RefillInv ==
  ASSUME IInv, NEW u \in Uids, Refill(u), menu' = menu
  PROVE  IInv'
  <1>t. EdgeTypeOK /\ bucket \in [Uids -> Buckets] /\ bucket[u].tokens < bucket[u].cap
    BY DEF IInv, EdgeTypeOK, Refill
  <1>1. /\ [bucket[u] EXCEPT !.tokens = @ + 1] \in Buckets
        /\ [bucket[u] EXCEPT !.tokens = @ + 1].inflight = bucket[u].inflight
    <2>1. bucket[u].tokens + 1 \in Nat /\ bucket[u].tokens + 1 <= bucket[u].cap
      BY <1>t, BucketType
    <2> QED BY <2>1, <1>t, BucketType DEF Buckets
  <1>2. EdgeTypeOK'
    <2>1. bucket' = [bucket EXCEPT ![u] = [bucket[u] EXCEPT !.tokens = @ + 1]]
      BY DEF Refill
    <2>2. bucket' \in [Uids -> Buckets]
      BY <2>1, <1>1, <1>t
    <2> QED BY <2>2, <1>t DEF Refill, registryVars, EdgeTypeOK
  <1>3. RegistryInv'
    BY DEF Refill, registryVars, IInv, RegistryInv, Serving
  <1>4. \A v \in Uids : bucket'[v].inflight = bucket[v].inflight
    BY <1>1, <1>t DEF Refill
  <1> QED BY <1>2, <1>3, <1>4, Beside DEF Refill

LEMMA TickInv ==
  ASSUME IInv, Tick, menu' = menu
  PROVE  IInv'
  <1> DEFINE Older(r) == [req[r] EXCEPT !.age = 1,
                  !.lapsed = IF StillEnrolled(r) \/ @ = 2 THEN @ ELSE @ + 1]
  <1>t. /\ EdgeTypeOK /\ req \in [Requests -> States] /\ \A r \in Requests : Sound(req[r])
        /\ UNCHANGED <<registryVars, reg, bucket>>
    BY DEF IInv, EdgeTypeOK, Tick
  <1>1. ASSUME NEW r \in Requests
        PROVE  /\ req'[r] \in States /\ Sound(req'[r])
               /\ req'[r].uid = req[r].uid /\ req'[r].held = req[r].held
               /\ req'[r].done = req[r].done
    <2>t. req[r] \in States /\ Sound(req[r])
      BY <1>t
    <2>1. CASE req[r].at \notin {"sent", "relay"}
      <3>1. req'[r] = req[r]
        BY <2>1 DEF Tick
      <3> QED BY <3>1, <2>t
    <2>2. CASE req[r].at \in {"sent", "relay"}
      <3>1. req'[r] = Older(r)
        BY <2>2 DEF Tick
      <3>2. req[r].lapsed \in 0 .. 2 /\ req[r].age \in {0, 1}
        BY <2>t DEF States
      <3> DEFINE l == IF StillEnrolled(r) \/ req[r].lapsed = 2 THEN req[r].lapsed
                      ELSE req[r].lapsed + 1
      <3>3. l \in 0 .. 2 /\ 1 \in {0, 1} /\ (req[r].lapsed <= 0 => l <= 1)
        BY <3>2
      <3>4. Older(r) = [req[r] EXCEPT !.age = 1, !.lapsed = l]
        OBVIOUS
      <3>5. /\ Older(r) \in States /\ Older(r).lapsed = l /\ Older(r).age = 1
            /\ Older(r).at = req[r].at
            /\ Older(r).uid = req[r].uid /\ Older(r).held = req[r].held
            /\ Older(r).done = req[r].done /\ Older(r).rows = req[r].rows
            /\ Older(r).finally = req[r].finally /\ Older(r).sweep = req[r].sweep
            /\ Older(r).cause = req[r].cause
        <4> HIDE DEF l
        <4> QED BY <3>3, <3>4, <2>t DEF States
      <3>6. req[r].at = "sent" => req[r].lapsed <= 0
        BY <2>t, <3>2 DEF Tick, Is, Due, Sound
      <3>7. Sound(Older(r))
        <4> HIDE DEF Older, l
        <4> QED BY <3>3, <3>5, <3>6, <2>2, <2>t DEF Sound
      <3> HIDE DEF Older
      <3> QED BY <3>1, <3>5, <3>7
    <2> QED BY <2>1, <2>2
  <1>2. req' \in [Requests -> States]
    <2>1. req' = [r \in Requests |-> req'[r]]
      BY DEF Tick
    <2> QED BY <2>1, <1>1
  <1>3. EdgeTypeOK'
    BY <1>2, <1>t DEF EdgeTypeOK, registryVars
  <1>4. SlotsExact'
    <2>1. \A u : Units(u)' = Units(u)
      BY <1>1 DEF Units
    <2> QED BY <2>1, <1>t DEF SlotsExact, IInv
  <1>5. RegistryInv'
    BY <1>t DEF registryVars, IInv, RegistryInv, Serving
  <1> QED BY <1>1, <1>3, <1>4, <1>5 DEF IInv

\* Nothing is held and nothing is counted
Empty == bucket = [u \in Uids |-> NoBucket] /\ req = [r \in Requests |-> Over]
Idle == SlotsExact /\ \A r \in Requests : Sound(req[r])
LEMMA NothingHeld == Empty => Idle
  <1> SUFFICES ASSUME Empty PROVE Idle
    OBVIOUS
  <1> USE DEF Empty
  <1>1. \A u : Units(u) = {}
    BY DEF Units, Over
  <1>2. \A u \in Uids : bucket[u].inflight = 0
    BY DEF NoBucket
  <1>3. Cardinality({}) = 0
    BY FS_EmptySet
  <1> QED BY <1>1, <1>2, <1>3, Basics DEF SlotsExact, Idle

LEMMA RestartInv ==
  ASSUME IInv, Restart, menu' = menu
  PROVE  IInv'
  <1>t. EdgeTypeOK
    BY DEF IInv
  <1>1. EdgeTypeOK'
    <2>1. reg' \in Registries
      BY <1>t, Basics, ReloadType DEF Restart, EdgeTypeOK
    <2>2. changes' \in Nat
      BY <1>t DEF Restart, Change, EdgeTypeOK
    <2>3. bucket' \in [Uids -> Buckets] /\ req' \in [Requests -> States]
      BY Basics DEF Restart
    <2> QED BY <2>1, <2>2, <2>3, <1>t DEF Restart, EdgeTypeOK
  <1>2. SlotsExact' /\ \A r \in Requests : Sound(req'[r])
    <2>1. Empty' => Idle'
      BY NothingHeld, PTL
    <2>2. Empty'
      BY DEF Restart, Empty
    <2> QED BY <2>1, <2>2 DEF Idle
  <1>3. RegistryInv'
    BY DEF Restart, IInv, RegistryInv, Serving
  <1> QED BY <1>1, <1>2, <1>3 DEF IInv

LEMMA DamageInv ==
  ASSUME IInv, Damage, menu' = menu
  PROVE  IInv'
  <1>t. EdgeTypeOK
    BY DEF IInv
  <1>1. file' \in Files /\ file'.row = NoRow
    BY Basics DEF Damage, Bad, Absent
  <1>2. EdgeTypeOK'
    BY <1>t, <1>1 DEF Damage, Change, EdgeTypeOK
  <1>3. RegistryInv'
    <2>1. UNCHANGED <<cli, keys, banned, flocked>> /\ keys \in Nat
      BY <1>t, GateAssumption DEF Damage, EdgeTypeOK
    <2> QED BY <1>1, <2>1, Basics DEF IInv, RegistryInv, Serving, NoKey
  <1> QED BY <1>2, <1>3, Beside DEF Damage

-----------------------------------------------------------------------------
(* The commands *)

LEMMA CliAskInv ==
  ASSUME IInv, NEW w \in Writers, NEW op \in Ops \ WithKey, CliAsk(w, op), menu' = menu
  PROVE  IInv'
  <1> DEFINE c == [IdleCli EXCEPT !.at = "asked", !.op = op]
  <1>t. EdgeTypeOK /\ cli \in [Writers -> Commands]
    BY DEF IInv, EdgeTypeOK
  <1>1. /\ cli' = [cli EXCEPT ![w] = c] /\ c \in Commands
        /\ c.at = "asked" /\ c.key = NoKey /\ c.copy = NoRow /\ c.op = op
    BY Basics DEF CliAsk, Commands, IdleCli
  <1>2. EdgeTypeOK'
    BY <1>1, <1>t DEF CliAsk, Change, EdgeTypeOK
  <1>3. RegistryInv'
    <2> HIDE DEF c
    <2>1. keys \in Nat /\ NoKey <= keys
      BY <1>t, GateAssumption DEF EdgeTypeOK, NoKey
    <2>2. /\ cli'[w].key = NoKey /\ cli'[w].copy.key = NoKey /\ cli'[w].at = "asked"
          /\ \A v \in Writers \ {w} : cli'[v] = cli[v]
      BY <1>1, <1>t, Basics
    <2>3. UNCHANGED <<banned, file, flocked, keys>>
      BY DEF CliAsk
    <2>4. \A v \in Writers :
             /\ Asked(cli'[v]) /\ cli'[v].key <= keys /\ cli'[v].copy.key <= keys
             /\ cli'[v].at = "loaded" => flocked = v /\ Serving(cli'[v].copy)
      <3>1. Asked(cli'[w])
        BY <1>1, <2>2, <1>t DEF Asked
      <3> QED BY <3>1, <2>1, <2>2 DEF IInv, RegistryInv
    <2>5. ASSUME NEW v \in Writers, cli'[v].key # NoKey
          PROVE  /\ cli'[v].key \notin banned /\ cli'[v].key # file.row.key
                 /\ \A x \in Writers : /\ cli'[v].key # cli'[x].copy.key
                                       /\ x # v => cli'[v].key # cli'[x].key
      BY <2>2, <2>5 DEF IInv, RegistryInv
    <2> QED BY <2>3, <2>4, <2>5 DEF IInv, RegistryInv, Serving
  <1> QED BY <1>2, <1>3, Beside DEF CliAsk

LEMMA CliAskKeyInv ==
  ASSUME IInv, NEW w \in Writers, NEW op \in Ops, CliAskKey(w, op), menu' = menu
  PROVE  IInv'
  <1>t. EdgeTypeOK /\ cli \in [Writers -> Commands] /\ keys \in Nat /\ menu.rates \subseteq Rates
    BY GateAssumption DEF IInv, EdgeTypeOK
  <1> PICK c \in menu.rates :
         cli' = [cli EXCEPT ![w] = [IdleCli EXCEPT !.at = "asked", !.op = op,
                                                   !.key = keys + 1, !.rate = c]]
    BY DEF CliAskKey
  <1> DEFINE d == [IdleCli EXCEPT !.at = "asked", !.op = op, !.key = keys + 1, !.rate = c]
  <1>0. keys + 1 \in Keys /\ keys' = keys + 1 /\ keys' \in 0 .. MaxKeys
    BY <1>t, GateAssumption DEF CliAskKey, Keys
  <1>1. /\ cli' = [cli EXCEPT ![w] = d] /\ d \in Commands
        /\ d.at = "asked" /\ d.key = keys + 1 /\ d.copy = NoRow /\ d.op = op
    BY <1>0, <1>t, Basics DEF Commands, IdleCli
  <1>2. EdgeTypeOK'
    BY <1>0, <1>1, <1>t DEF CliAskKey, Change, EdgeTypeOK
  <1>3. RegistryInv'
    <2> HIDE DEF d
    <2>1. \A v \in Writers \ {w} : cli'[v] = cli[v]
      BY <1>1, <1>t
    <2>2. cli'[w] = d /\ cli'[w].copy.key = NoKey /\ NoKey \in Nat /\ NoKey <= keys
      <3>1. cli'[w] = d /\ cli'[w].copy.key = NoKey
        BY <1>1, <1>t, Basics
      <3>2. NoKey \in Nat /\ NoKey <= keys
        BY <1>t DEF NoKey
      <3> QED BY <3>1, <3>2
    <2>3. /\ file.row.key \in Nat /\ file.row.key <= keys
          /\ \A v \in Writers : /\ cli[v].key \in Nat /\ cli[v].copy.key \in Nat
                                /\ cli[v].key <= keys /\ cli[v].copy.key <= keys
      BY <1>t, Basics DEF IInv, RegistryInv, EdgeTypeOK, Files, Rows, Commands, Keys, NoKey, NoRow
    <2>4. banned \subseteq 1 .. keys /\ 1 .. keys \subseteq 1 .. keys' /\ keys + 1 \notin banned
      BY <1>0, <1>t DEF IInv, RegistryInv
    <2>5. \A v \in Writers : cli'[v].key <= keys' /\ cli'[v].copy.key <= keys'
      <3>1. cli'[w].key <= keys' /\ cli'[w].copy.key <= keys'
        BY <2>2, <1>0, <1>1, <1>t
      <3>2. \A v \in Writers \ {w} : cli'[v].key <= keys' /\ cli'[v].copy.key <= keys'
        BY <2>1, <2>3, <1>0, <1>t
      <3> QED BY <3>1, <3>2
    <2>6. \A v \in Writers : cli'[v].at = "loaded" => flocked = v /\ Serving(cli'[v].copy)
      BY <2>1, <2>2, <1>1 DEF IInv, RegistryInv
    <2>a. \A v \in Writers : Asked(cli'[v])
      <3>1. Asked(cli'[w])
        BY <2>2, <1>0, <1>1, Basics DEF Asked
      <3> QED BY <3>1, <2>1 DEF IInv, RegistryInv
    <2>7. ASSUME NEW v \in Writers, cli'[v].key # NoKey
          PROVE  /\ cli'[v].key \notin banned /\ cli'[v].key # file.row.key
                 /\ \A x \in Writers : /\ cli'[v].key # cli'[x].copy.key
                                       /\ x # v => cli'[v].key # cli'[x].key
      <3>1. CASE v = w
        <4>1. cli'[v].key = keys + 1
          BY <3>1, <2>2, <1>1
        <4>2. \A x \in Writers : cli'[x].copy.key <= keys /\ cli'[x].copy.key \in Nat
          BY <2>1, <2>2, <2>3
        <4>3. \A x \in Writers : x # v => cli'[x].key <= keys /\ cli'[x].key \in Nat
          BY <3>1, <2>1, <2>3
        <4> QED BY <4>1, <4>2, <4>3, <2>3, <2>4, <1>t
      <3>2. CASE v # w
        <4>1. cli'[v] = cli[v] /\ cli[v].key <= keys /\ cli[v].key \in Nat
          BY <3>2, <2>1, <2>3
        <4>2. cli[v].key # keys + 1
          BY <4>1, <1>t
        <4>3. \A x \in Writers \ {w} : /\ cli[v].key # cli[x].copy.key
                                       /\ x # v => cli[v].key # cli[x].key
          BY <4>1, <2>7 DEF IInv, RegistryInv
        <4>4. cli'[v].key # cli'[w].copy.key /\ cli'[v].key # cli'[w].key
          BY <4>1, <4>2, <2>2, <2>7, <1>1
        <4>5. cli[v].key \notin banned /\ cli[v].key # file.row.key
          BY <4>1, <2>7 DEF IInv, RegistryInv
        <4> QED BY <4>1, <4>3, <4>4, <4>5, <2>1
      <3> QED BY <3>1, <3>2
    <2>8. UNCHANGED <<banned, file, flocked>> /\ file.row.key <= keys'
      BY <2>3, <1>0, <1>t DEF CliAskKey
    <2>9. Serving(file.row)
      BY DEF IInv, RegistryInv
    <2> QED BY <2>4, <2>5, <2>6, <2>a, <2>7, <2>8, <2>9 DEF RegistryInv, Serving
  <1> QED BY <1>2, <1>3, Beside DEF CliAskKey

LEMMA CliLoadInv ==
  ASSUME IInv, NEW w \in Writers, CliLoad(w), menu' = menu
  PROVE  IInv'
  <1> DEFINE c == [cli[w] EXCEPT !.at = "loaded", !.copy = file.row]
  <1>t. EdgeTypeOK /\ cli \in [Writers -> Commands] /\ file \in Files /\ RegistryInv
    BY DEF IInv, EdgeTypeOK
  <1>1. /\ cli' = [cli EXCEPT ![w] = c] /\ c \in Commands
        /\ c.at = "loaded" /\ c.key = cli[w].key /\ c.copy = file.row
        /\ c.op = cli[w].op /\ cli[w].at = "asked"
    BY <1>t DEF CliLoad, LoadDoc, Commands, Files
  <1>2. /\ cli'[w] = c /\ \A v \in Writers \ {w} : cli'[v] = cli[v]
        /\ \A v \in Writers : cli'[v].key = cli[v].key
    BY <1>1, <1>t
  <1>3. UNCHANGED <<banned, file, keys>> /\ flocked = Free /\ flocked' = w
    BY DEF CliLoad
  <1>4. EdgeTypeOK'
    BY <1>1, <1>3, <1>t DEF CliLoad, EdgeTypeOK
  <1>5. RegistryInv'
    <2> HIDE DEF c
    <2>1. \A v \in Writers : /\ Asked(cli'[v]) /\ cli'[v].key <= keys
                            /\ cli'[v].copy.key <= keys
      BY <1>1, <1>2, <1>t DEF RegistryInv, Asked
    <2>2. \A v \in Writers : cli'[v].at = "loaded" => w = v /\ Serving(cli'[v].copy)
      BY <1>1, <1>2, <1>3, <1>t, GateAssumption DEF RegistryInv, Free
    <2>3. \A v \in Writers : cli'[v].key # NoKey =>
             /\ cli'[v].key \notin banned /\ cli'[v].key # file.row.key
             /\ \A x \in Writers : /\ cli'[v].key # cli'[x].copy.key
                                   /\ x # v => cli'[v].key # cli'[x].key
      BY <1>1, <1>2, <1>t DEF RegistryInv
    <2> QED BY <2>1, <2>2, <2>3, <1>3, <1>t DEF RegistryInv, Serving
  <1> QED BY <1>4, <1>5, Beside DEF CliLoad

\* A command that is over leaves nothing behind
LEMMA IdleWriter ==
  ASSUME EdgeTypeOK, NEW w \in Writers, cli' = [cli EXCEPT ![w] = IdleCli]
  PROVE  /\ cli' \in [Writers -> Commands]
         /\ cli'[w].at = "idle" /\ cli'[w].key = NoKey /\ cli'[w].copy.key = NoKey
         /\ \A v \in Writers \ {w} : cli'[v] = cli[v]
         /\ keys \in Nat /\ NoKey <= keys
  <1>1. IdleCli.at = "idle" /\ IdleCli.key = NoKey /\ IdleCli.copy = NoRow
    BY DEF IdleCli
  <1>2. cli \in [Writers -> Commands]
    BY DEF EdgeTypeOK
  <1>3. keys \in Nat /\ NoKey <= keys
    BY GateAssumption DEF EdgeTypeOK, NoKey
  <1> QED BY <1>1, <1>2, <1>3, Basics

LEMMA CliFailsInv ==
  ASSUME IInv, NEW w \in Writers, CliFails(w), menu' = menu
  PROVE  IInv'
  <1>t. EdgeTypeOK /\ RegistryInv
    BY DEF IInv
  <1>1. /\ UNCHANGED <<banned, file, keys>> /\ cli' = [cli EXCEPT ![w] = IdleCli]
        /\ flocked' = (IF flocked = w THEN Free ELSE flocked)
    BY DEF CliFails
  <1>2. EdgeTypeOK'
    BY <1>1, <1>t, IdleWriter DEF CliFails, EdgeTypeOK
  <1>3. RegistryInv'
    <2>1. \A v \in Writers : /\ Asked(cli'[v]) /\ cli'[v].key <= keys
                            /\ cli'[v].copy.key <= keys
      BY <1>1, <1>t, IdleWriter DEF RegistryInv, Asked
    <2>2. \A v \in Writers : cli'[v].at = "loaded" => flocked' = v /\ Serving(cli'[v].copy)
      BY <1>1, <1>t, IdleWriter DEF RegistryInv
    <2>3. \A v \in Writers : cli'[v].key # NoKey =>
             /\ cli'[v].key \notin banned /\ cli'[v].key # file.row.key
             /\ \A x \in Writers : /\ cli'[v].key # cli'[x].copy.key
                                   /\ x # v => cli'[v].key # cli'[x].key
      BY <1>1, <1>t, IdleWriter DEF RegistryInv
    <2> QED BY <2>1, <2>2, <2>3, <1>1, <1>t DEF RegistryInv, Serving
  <1> QED BY <1>2, <1>3, Beside DEF CliFails

\* The row that a command leaves is the one that it loaded, with its key or the
\* new one: a new key is nobody's, and one that was taken away serves no more
LEMMA AppliedRow ==
  ASSUME IInv, NEW w \in Writers, cli[w].at = "loaded", Applies(cli[w])
  PROVE  /\ Applied(cli[w]) \in Rows \cup {NoRow}
         /\ Applied(cli[w]).key \in {NoKey, cli[w].key, cli[w].copy.key}
         /\ LET row == Applied(cli[w])
            IN row # NoRow /\ ~row.revoked =>
                 row.key \notin (banned \cup TakenAway(cli[w])) \ GivenBack(cli[w])
  <1> DEFINE c == cli[w]
             row == Applied(cli[w])
             taken == (banned \cup TakenAway(cli[w])) \ GivenBack(cli[w])
  <1>t. /\ c \in Commands /\ c.copy \in Rows \cup {NoRow} /\ c.key \in Keys \cup {NoKey}
        /\ c.rate \in Rates /\ Serving(c.copy) /\ c.op \in Ops
        /\ c.op \in WithKey => c.key # NoKey
        /\ c.key # NoKey => c.key \notin banned /\ c.key # c.copy.key
    BY DEF IInv, EdgeTypeOK, RegistryInv, Commands, Asked
  <1>0. Ops = {"enroll", "rotate", "scope", "revoke", "unrevoke", "remove"}
        /\ WithKey = {"enroll", "rotate"}
    BY DEF Ops, WithKey
  <1> HIDE DEF c
  <1>1. CASE c.op \in {"enroll", "rotate"} /\ c.copy = NoRow
    <2>1. row = [uid |-> c.key, key |-> c.key, revoked |-> FALSE, rate |-> c.rate]
      BY <1>1 DEF Applied, c
    <2>2. c.key \in Keys /\ c.key \notin banned
      BY <1>1, <1>0, <1>t DEF c
    <2>3. TakenAway(c) = {}
      BY <1>1 DEF TakenAway
    <2> QED BY <2>1, <2>2, <2>3, <1>t DEF Rows, c
  <1>2. CASE c.op = "rotate" /\ c.copy # NoRow
    <2>1. row = [c.copy EXCEPT !.key = c.key, !.rate = c.rate]
      BY <1>2 DEF Applied, c
    <2>2. c.key \in Keys /\ c.key \notin banned /\ c.copy \in Rows /\ c.key # c.copy.key
      BY <1>2, <1>0, <1>t DEF c
    <2>3. TakenAway(c) = {c.copy.key}
      BY <1>2 DEF TakenAway
    <2>4. row.key = c.key /\ row \in Rows
      BY <2>1, <2>2, <1>t DEF Rows
    <2> QED BY <2>2, <2>3, <2>4 DEF c
  <1>3. CASE c.op = "scope"
    <2>1. row = c.copy /\ TakenAway(c) = {}
      BY <1>3 DEF Applied, TakenAway, c
    <2> QED BY <2>1, <1>t DEF Serving, c
  <1>4. CASE c.op = "revoke"
    <2>1. row = [c.copy EXCEPT !.revoked = TRUE] /\ c.copy \in Rows
      BY <1>4, <1>t DEF Applied, Applies, c
    <2>2. row.revoked /\ row.key = c.copy.key /\ row \in Rows
      BY <2>1 DEF Rows
    <2> QED BY <2>2 DEF c
  <1>5. CASE c.op = "unrevoke"
    <2>1. row = [c.copy EXCEPT !.revoked = FALSE] /\ c.copy \in Rows
      BY <1>5, <1>t DEF Applied, Applies, c
    <2>2. row.key = c.copy.key /\ row \in Rows
      BY <2>1 DEF Rows
    <2>3. GivenBack(c) = {c.copy.key}
      BY <1>5 DEF GivenBack
    <2> QED BY <2>2, <2>3 DEF c
  <1>6. CASE c.op = "remove"
    <2>1. row = NoRow
      BY <1>6 DEF Applied, c
    <2> QED BY <2>1, Basics
  <1>7. c.op \in {"enroll", "rotate", "scope", "revoke", "unrevoke", "remove"}
    BY <1>0, <1>t
  <1>8. c.op = "enroll" => c.copy = NoRow
    BY DEF Applies, c
  <1> QED BY <1>1, <1>2, <1>3, <1>4, <1>5, <1>6, <1>7, <1>8 DEF c

LEMMA CliSaveInv ==
  ASSUME IInv, NEW w \in Writers, CliSave(w), menu' = menu
  PROVE  IInv'
  <1> DEFINE c == cli[w]
             row == Applied(cli[w])
             taken == (banned \cup TakenAway(cli[w])) \ GivenBack(cli[w])
  <1>t. /\ EdgeTypeOK /\ RegistryInv /\ c \in Commands /\ keys \in Nat
        /\ c.at = "loaded" /\ Applies(c)
    BY GateAssumption DEF IInv, EdgeTypeOK, CliSave
  <1>1. /\ UNCHANGED keys /\ cli' = [cli EXCEPT ![w] = IdleCli] /\ flocked' = Free
        /\ file' = Good(row) /\ banned' = taken
    BY DEF CliSave
  <1>2. /\ row \in Rows \cup {NoRow} /\ row.key \in {NoKey, c.key, c.copy.key}
        /\ (row # NoRow /\ ~row.revoked => row.key \notin taken)
    BY <1>t, AppliedRow
  <1>3. /\ TakenAway(c) \subseteq {c.copy.key} /\ taken \subseteq banned \cup {c.copy.key}
        /\ TakenAway(c) \subseteq Keys
    <2>1. c.copy \in Rows \cup {NoRow}
      BY <1>t DEF Commands
    <2>2. c.copy # NoRow => c.copy.key \in Keys
      BY <2>1 DEF Rows
    <2> QED BY <2>2 DEF TakenAway
  <1>4. file'.row = row /\ file' \in Files
    BY <1>1, <1>2 DEF Good, Files
  <1>5. EdgeTypeOK'
    <2>1. banned' \subseteq Keys
      BY <1>1, <1>3, <1>t DEF EdgeTypeOK
    <2> QED BY <2>1, <1>1, <1>4, <1>t, IdleWriter DEF CliSave, EdgeTypeOK
  <1>6. RegistryInv'
    <2> HIDE DEF row, taken
    <2>1. \A v \in Writers : /\ Asked(cli'[v]) /\ cli'[v].key <= keys
                            /\ cli'[v].copy.key <= keys
      BY <1>1, <1>t, IdleWriter DEF RegistryInv, Asked
    <2>2. \A v \in Writers : cli'[v].at # "loaded"
      <3>1. ASSUME NEW v \in Writers, v # w PROVE cli[v].at # "loaded"
        BY <3>1, <1>t DEF RegistryInv
      <3> QED BY <3>1, <1>1, <1>t, IdleWriter
    <2>3. \A v \in Writers : cli'[v].key # NoKey =>
             /\ cli'[v].key \notin taken /\ cli'[v].key # row.key
             /\ \A x \in Writers : /\ cli'[v].key # cli'[x].copy.key
                                   /\ x # v => cli'[v].key # cli'[x].key
      <3> SUFFICES ASSUME NEW v \in Writers, cli'[v].key # NoKey
                   PROVE  /\ cli'[v].key \notin taken /\ cli'[v].key # row.key
                          /\ \A x \in Writers : /\ cli'[v].key # cli'[x].copy.key
                                                /\ x # v => cli'[v].key # cli'[x].key
        OBVIOUS
      <3>1. v # w /\ cli'[v] = cli[v]
        BY <1>1, <1>t, IdleWriter
      <3>2. /\ cli[v].key \notin banned /\ cli[v].key # c.copy.key /\ cli[v].key # c.key
            /\ \A x \in Writers : /\ cli[v].key # cli[x].copy.key
                                  /\ x # v => cli[v].key # cli[x].key
        BY <3>1, <1>t DEF RegistryInv
      <3> QED BY <3>1, <3>2, <1>1, <1>2, <1>3, <1>t, IdleWriter
    <2>4. row.key <= keys
      BY <1>2, <1>t DEF RegistryInv, NoKey
    <2>5. taken \subseteq 1 .. keys
      <3>1. banned \subseteq 1 .. keys
        BY <1>t DEF RegistryInv
      <3>2. TakenAway(c) \subseteq 1 .. keys
        <4>1. c.copy.key <= keys
          BY <1>t DEF RegistryInv
        <4>2. \A k \in Keys : k <= keys => k \in 1 .. keys
          BY <1>t, GateAssumption DEF Keys
        <4> QED BY <4>1, <4>2, <1>3
      <3> QED BY <3>1, <3>2 DEF taken
    <2> QED BY <2>1, <2>2, <2>3, <2>4, <2>5, <1>1, <1>2, <1>4 DEF RegistryInv, Serving
  <1> QED BY <1>5, <1>6, Beside DEF CliSave

-----------------------------------------------------------------------------
LEMMA InitInv == Init => IInv
  <1> SUFFICES ASSUME Init PROVE IInv
    OBVIOUS
  <1>1. /\ file \in Files /\ file.row.key \in 0 .. MaxKeys
    <2>1. CASE file = Absent
      BY <2>1, Basics, GateAssumption DEF Absent, NoKey
    <2>2. ASSUME NEW c \in menu.rates,
                 file = Good([uid |-> 1, key |-> 1, revoked |-> FALSE, rate |-> c])
          PROVE  /\ file \in Files /\ file.row.key \in 0 .. MaxKeys
      <3>1. 1 \in Keys /\ c \in Rates
        BY GateAssumption DEF Init, Keys
      <3> QED BY <3>1, <2>2 DEF Good, Files, Rows, Keys
    <2> QED BY <2>1, <2>2 DEF Init
  <1>2. cli \in [Writers -> Commands] /\ bucket \in [Uids -> Buckets]
        /\ req \in [Requests -> States] /\ reg \in Registries
    BY <1>1, Basics, ReloadType DEF Init
  <1>3. EdgeTypeOK
    BY <1>1, <1>2 DEF Init, EdgeTypeOK
  <1>4. SlotsExact /\ \A r \in Requests : Sound(req[r])
    BY NothingHeld DEF Init, Empty, Idle
  <1>5. RegistryInv
    <2>1. \A w \in Writers : /\ cli[w].at = "idle" /\ cli[w].key = NoKey
                            /\ cli[w].copy.key = NoKey
      BY Basics DEF Init, IdleCli
    <2>2. keys \in Nat /\ keys = file.row.key /\ NoKey <= keys /\ file.row.key <= keys
      BY <1>1, GateAssumption DEF Init, NoKey
    <2> QED BY <2>1, <2>2 DEF Init, RegistryInv, Serving, Asked
  <1> QED BY <1>3, <1>4, <1>5 DEF IInv

LEMMA NextInv == IInv /\ [Next]_vars => IInv'
  <1> SUFFICES ASSUME IInv, [Next]_vars PROVE IInv'
    OBVIOUS
  <1>1. CASE UNCHANGED vars
    <2>1. EdgeTypeOK'
      BY <1>1 DEF vars, registryVars, IInv, EdgeTypeOK
    <2>2. RegistryInv'
      BY <1>1 DEF vars, registryVars, IInv, RegistryInv, Serving
    <2> QED BY <1>1, <2>1, <2>2, Beside DEF vars
  <1>2. ASSUME NEW r \in Requests, Serves(r), menu' = menu PROVE IInv'
    BY <1>2, ArriveInv, UnauthorizedInv, HangsInv, ReadsInv, WaitsInv, StreamsInv, ClosesInv DEF Serves
  <1>3. ASSUME NEW w \in Writers, Operates(w), menu' = menu PROVE IInv'
    BY <1>3, CliAskInv, CliAskKeyInv, CliLoadInv, CliSaveInv, CliFailsInv DEF Operates, WithKey, Ops
  <1>4. ASSUME NEW u \in Uids, Refill(u), menu' = menu PROVE IInv'
    BY <1>4, RefillInv
  <1> QED BY <1>1, <1>2, <1>3, <1>4, DamageInv, TickInv, RestartInv DEF Next

LEMMA SpecInv == Spec => []IInv
  BY InitInv, NextInv, PTL DEF Spec

-----------------------------------------------------------------------------
\* The registry, the buckets and the requests keep to their types: no bucket is
\* overdrawn and none has more in flight than its limit
THEOREM TypesCorrect == Spec => []EdgeTypeOK
  <1>1. IInv => EdgeTypeOK
    BY DEF IInv
  <1> QED BY <1>1, SpecInv, PTL

\* The units in flight of an enrollment are those that its requests hold
\* (reserve, reserve_more, _release, _sweep)
THEOREM UnitsExact == Spec => []SlotsExact
  <1>1. IInv => SlotsExact
    BY DEF IInv
  <1> QED BY <1>1, SpecInv, PTL

\* What was forwarded has one row when it is over, and it tells how it ended
\* (_audit_reply and its two callers)
THEOREM OneRow == Spec => []AuditedOnce
  <1>1. IInv => AuditedOnce
    BY DEF IInv, AuditedOnce, Sound, Is
  <1> QED BY <1>1, SpecInv, PTL

-----------------------------------------------------------------------------
\* What a step of a request does that neither admits it nor sends a chunk
Mild(q, p) == q.chunks \in {0, p.chunks} /\ (q.at = "body" => p.at = "body")
Mildly(r) == \E q : req' = [req EXCEPT ![r] = q] /\ Mild(q, req[r])

LEMMA FinishedMild ==
  ASSUME NEW q, NEW p
  PROVE  Mild(Finished(q), p)
  BY DEF Mild, Finished, Over

LEMMA GoesMild ==
  ASSUME NEW r \in Requests, NEW q, Goes(r, q), q.chunks = req[r].chunks, q.at # "body"
  PROVE  Mildly(r)
  BY DEF Goes, Mildly, Mild

LEMMA EndsMild ==
  ASSUME NEW r \in Requests, NEW rows, NEW cause, Ends(r, rows, cause)
  PROVE  Mildly(r)
  BY FinishedMild DEF Ends, Goes, Mildly

LEMMA LeavesMild ==
  ASSUME EdgeTypeOK, NEW r \in Requests, NEW cause, NEW sweep, Leaves(r, cause, sweep)
  PROVE  Mildly(r)
  <1> DEFINE q == [req[r] EXCEPT !.at = "ending", !.done = TRUE, !.cause = cause,
                                 !.finally = "closing", !.sweep = sweep, !.left = FALSE]
  <1>1. req' = [req EXCEPT ![r] = q] /\ req[r] \in States
    BY DEF Leaves, Goes, EdgeTypeOK
  <1>2. Mild(q, req[r])
    BY <1>1 DEF Mild, States
  <1> QED BY <1>1, <1>2 DEF Mildly

LEMMA ServesMild ==
  ASSUME EdgeTypeOK, NEW r \in Requests, Serves(r)
  PROVE  Arrive(r) \/ Chunk(r) \/ Mildly(r)
  <1>t. req[r] \in States /\ req \in [Requests -> States]
    BY DEF EdgeTypeOK
  <1>1. CASE Unauthorized(r)
    <2>1. req' = [req EXCEPT ![r] = req[r]] /\ Mild(req[r], req[r])
      BY <1>1, <1>t DEF Unauthorized, Is, Mild
    <2> QED BY <2>1 DEF Mildly
  <1>2. CASE Reads(r)
    <2>1. CASE BodyEnds(r) \/ BadBody(r)
      BY <2>1, EndsMild DEF BodyEnds, BadBody
    <2>2. CASE BodyArrives(r)
      <3>1. \/ \E cause : Ends(r, 1, cause)
            \/ \E gens : Goes(r, [req[r] EXCEPT !.at = "sent", !.sent = TRUE,
                                      !.held = gens, !.age = 0, !.lapsed = 0])
        BY <2>2 DEF BodyArrives
      <3>2. ASSUME NEW gens, Goes(r, [req[r] EXCEPT !.at = "sent", !.sent = TRUE,
                                      !.held = gens, !.age = 0, !.lapsed = 0])
            PROVE  Mildly(r)
        <4> DEFINE q == [req[r] EXCEPT !.at = "sent", !.sent = TRUE,
                                      !.held = gens, !.age = 0, !.lapsed = 0]
        <4>1. q.chunks = req[r].chunks /\ q.at # "body"
          BY <1>t DEF States
        <4> HIDE DEF q
        <4> QED BY <3>2, <4>1, GoesMild DEF q
      <3> QED BY <3>1, <3>2, EndsMild
    <2> QED BY <1>2, <2>1, <2>2 DEF Reads
  <1>8. CASE Hangs(r)
    <2> DEFINE q == [req[r] EXCEPT !.left = TRUE]
    <2>1. req' = [req EXCEPT ![r] = q] /\ q.chunks = req[r].chunks /\ q.at = req[r].at
      BY <1>8, <1>t DEF Hangs, Goes, States
    <2> HIDE DEF q
    <2> QED BY <2>1 DEF Mildly, Mild
  <1>3. CASE Waits(r)
    <2>1. \/ \E rows, cause : Ends(r, rows, cause)
          \/ Is(r, "sent") /\ Goes(r, [req[r] EXCEPT !.age = 0, !.lapsed = 0])
          \/ Goes(r, [req[r] EXCEPT !.at = "ready"])
      BY <1>3 DEF Waits, Recheck, GoneWaiting, TimesOut, Cancelled, Headers
    <2>2. CASE Is(r, "sent") /\ Goes(r, [req[r] EXCEPT !.age = 0, !.lapsed = 0])
      <3> DEFINE q == [req[r] EXCEPT !.age = 0, !.lapsed = 0]
      <3>1. q.chunks = req[r].chunks /\ q.at # "body"
        BY <2>2, <1>t DEF States, Is
      <3>2. Goes(r, q)
        BY <2>2
      <3> HIDE DEF q
      <3> QED BY <3>1, <3>2, GoesMild
    <2>3. CASE Goes(r, [req[r] EXCEPT !.at = "ready"])
      <3> DEFINE q == [req[r] EXCEPT !.at = "ready"]
      <3>1. q.chunks = req[r].chunks /\ q.at # "body"
        BY <1>t DEF States, Is
      <3>2. Goes(r, q)
        BY <2>3
      <3> HIDE DEF q
      <3> QED BY <3>1, <3>2, GoesMild
    <2> QED BY <2>1, <2>2, <2>3, EndsMild
  <1>4. CASE StartRelay(r)
    <2> DEFINE q == [req[r] EXCEPT !.at = "relay", !.age = 0]
    <2>1. q.chunks = req[r].chunks /\ q.at # "body"
      BY <1>t DEF States, Is
    <2>2. Goes(r, q)
      BY <1>4 DEF StartRelay
    <2> HIDE DEF q
    <2> QED BY <2>1, <2>2, GoesMild
  <1>5. CASE Completes(r) \/ StreamFails(r)
    BY <1>5, LeavesMild DEF Completes, StreamFails
  <1>6. CASE GoneStreaming(r)
    <2>1. \/ Leaves(r, "client_disconnect", "next")
          \/ Goes(r, [req[r] EXCEPT !.at = "ending", !.cause = "client_disconnect",
                                    !.sweep = "due", !.left = FALSE])
          \/ Goes(r, [req[r] EXCEPT !.at = "ending", !.cause = "client_disconnect",
                                    !.finally = "due", !.sweep = "due", !.left = FALSE])
      BY <1>6 DEF GoneStreaming
    <2>2. CASE Goes(r, [req[r] EXCEPT !.at = "ending", !.cause = "client_disconnect",
                                      !.sweep = "due", !.left = FALSE])
      <3> DEFINE q == [req[r] EXCEPT !.at = "ending", !.cause = "client_disconnect",
                                     !.sweep = "due", !.left = FALSE]
      <3>1. q.chunks = req[r].chunks /\ q.at # "body"
        BY <1>t DEF States, Is
      <3>2. Goes(r, q)
        BY <2>2
      <3> HIDE DEF q
      <3> QED BY <3>1, <3>2, GoesMild
    <2>3. CASE Goes(r, [req[r] EXCEPT !.at = "ending", !.cause = "client_disconnect",
                                      !.finally = "due", !.sweep = "due", !.left = FALSE])
      <3> DEFINE q == [req[r] EXCEPT !.at = "ending", !.cause = "client_disconnect",
                                     !.finally = "due", !.sweep = "due", !.left = FALSE]
      <3>1. q.chunks = req[r].chunks /\ q.at # "body"
        BY <1>t DEF States, Is
      <3>2. Goes(r, q)
        BY <2>3
      <3> HIDE DEF q
      <3> QED BY <3>1, <3>2, GoesMild
    <2> QED BY <2>1, <2>2, <2>3, LeavesMild
  <1>7. CASE Closes(r)
    <2>1. CASE FinallyStarts(r)
      <3> DEFINE q == [req[r] EXCEPT !.finally = "closing", !.done = TRUE]
      <3>1. q.chunks = req[r].chunks /\ q.at # "body"
        BY <2>1, <1>t DEF States, Is, FinallyStarts
      <3>2. Goes(r, q)
        BY <2>1 DEF FinallyStarts
      <3> HIDE DEF q
      <3> QED BY <3>1, <3>2, GoesMild
    <2>4. CASE SweepStarts(r)
      <3> DEFINE q == [req[r] EXCEPT !.sweep = "closing", !.done = TRUE]
      <3>1. q.chunks = req[r].chunks /\ q.at # "body"
        BY <2>4, <1>t DEF States, Is, SweepStarts
      <3>2. Goes(r, q)
        BY <2>4 DEF SweepStarts
      <3> HIDE DEF q
      <3> QED BY <3>1, <3>2, GoesMild
    <2>2. CASE FinallyCloses(r)
      <3> DEFINE q == [Audited(req[r], req[r].cause) EXCEPT !.finally = "done",
                          !.sweep = IF @ = "next" THEN "due" ELSE @]
      <3>1. q.at = "ending" /\ q.chunks = req[r].chunks
        BY <2>2, <1>t DEF FinallyCloses, Is, Audited, States
      <3>2. req' = [req EXCEPT ![r] = Settled(q)] /\ Settled(q) \in {q, Finished(q)}
        BY <2>2 DEF FinallyCloses, Goes, Settled
      <3> HIDE DEF q
      <3> QED BY <3>1, <3>2, FinishedMild DEF Mildly, Mild
    <2>3. CASE SweepCloses(r)
      <3> DEFINE q == [Audited(req[r], "client_disconnect") EXCEPT !.sweep = "done"]
      <3>1. q.at = "ending" /\ q.chunks = req[r].chunks
        BY <2>3, <1>t DEF SweepCloses, Is, Audited, States
      <3>2. req' = [req EXCEPT ![r] = Settled(q)] /\ Settled(q) \in {q, Finished(q)}
        BY <2>3 DEF SweepCloses, Goes, Settled
      <3> HIDE DEF q
      <3> QED BY <3>1, <3>2, FinishedMild DEF Mildly, Mild
    <2> QED BY <1>7, <2>1, <2>2, <2>3, <2>4 DEF Closes
  <1> QED BY <1>1, <1>2, <1>3, <1>4, <1>5, <1>6, <1>7, <1>8 DEF Serves, Streams

\* Who arrives is admitted for the key that he shows
LEMMA ArriveWay ==
  ASSUME EdgeTypeOK, NEW r \in Requests, Arrive(r)
  PROVE  /\ req'[r].chunks = 0
         /\ req'[r].at = "body" =>
               \E key : /\ Identify(Read, key) # Refused
                       /\ req'[r].key = key /\ req'[r].uid = Identify(Read, key)
  <1>t. req \in [Requests -> States] /\ reg' = Read
    BY DEF EdgeTypeOK, Arrive
  <1>1. PICK key \in {NoKey} \cup 1 .. keys :
        LET u == Identify(reg', key)
            b == Tuned(bucket[u], RateOf(reg', u))
        IN /\ u # Refused
           /\ IF MayReserve(b, 1)
              THEN /\ bucket' = [bucket EXCEPT ![u] = Reserved(b, 1)]
                   /\ Goes(r, [Over EXCEPT !.at = "body", !.key = key, !.uid = u,
                                           !.held = 1, !.done = FALSE])
              ELSE /\ bucket' = [bucket EXCEPT ![u] = b]
                   /\ Goes(r, [Over EXCEPT !.cause = "refused", !.rows = 1,
                                           !.told = "refused"])
    BY DEF Arrive
  <1> DEFINE u == Identify(reg', key)
             q == [Over EXCEPT !.at = "body", !.key = key, !.uid = u,
                               !.held = 1, !.done = FALSE]
             x == [Over EXCEPT !.cause = "refused", !.rows = 1, !.told = "refused"]
  <1>2. u # Refused /\ (req'[r] = q \/ req'[r] = x)
    BY <1>1, <1>t DEF Goes
  <1>3. q.chunks = 0 /\ q.key = key /\ q.uid = u /\ x.chunks = 0 /\ x.at = "over"
    BY DEF Over
  <1> HIDE DEF q, x
  <1> QED BY <1>2, <1>3, <1>t

\* Only a chunk adds to the chunks, and only an arrival admits
LEMMA WhoMoves ==
  ASSUME EdgeTypeOK, [Next]_vars, NEW r \in Requests
  PROVE  /\ req'[r].chunks > req[r].chunks => Chunk(r)
         /\ Is(r, "over") /\ req'[r].at = "body" => Arrive(r)
  <1>t. req \in [Requests -> States] /\ \A s \in Requests : req[s].chunks \in Nat
    BY GateAssumption DEF EdgeTypeOK, States
  <1>1. CASE req'[r] = req[r]
    BY <1>1, <1>t DEF Is
  <1>2. ASSUME NEW s \in Requests, Serves(s)
        PROVE  req'[r] = req[r] \/ (s = r /\ Serves(r))
    <2>1. \E q : req' = [req EXCEPT ![s] = q]
      BY <1>2, ServesMild, <1>t DEF Arrive, Chunk, Leaves, Goes, Mildly
    <2> QED BY <2>1, <1>2, <1>t
  <1>3. CASE Serves(r)
    <2>1. CASE Mildly(r)
      <3>1. PICK q : req' = [req EXCEPT ![r] = q] /\ Mild(q, req[r])
        BY <2>1 DEF Mildly
      <3>2. /\ req'[r].chunks \in {0, req[r].chunks}
            /\ req'[r].at = "body" => req[r].at = "body"
        BY <3>1, <1>t DEF Mild
      <3> QED BY <3>2, <1>t DEF Is
    <2>2. CASE Arrive(r)
      <3>1. req'[r].chunks = 0
        BY <2>2, ArriveWay
      <3> QED BY <2>2, <3>1, <1>t
    <2>3. CASE Chunk(r)
      BY <2>3 DEF Chunk, Is
    <2> QED BY <1>3, <2>1, <2>2, <2>3, ServesMild
  <1>4. CASE Tick
    <2>1. req'[r].chunks = req[r].chunks /\ req'[r].at = req[r].at
      BY <1>4, <1>t DEF Tick, States
    <2> QED BY <2>1, <1>t DEF Is
  <1>5. CASE Restart
    <2>1. req'[r].chunks = 0 /\ req'[r].at = "over"
      BY <1>5 DEF Restart, Over
    <2> QED BY <2>1, <1>t
  <1>6. ASSUME NEW w \in Writers, Operates(w) PROVE req' = req
    BY <1>6 DEF Operates, CliAsk, CliAskKey, CliLoad, CliSave, CliFails
  <1>7. Damage \/ (\E u \in Uids : Refill(u)) \/ UNCHANGED vars => req' = req
    BY DEF Damage, Refill, vars
  <1> QED BY <1>1, <1>2, <1>3, <1>4, <1>5, <1>6, <1>7 DEF Next

\* A device that was cut off is sent nothing after two intervals
\* (_send_watched, body_iter, _still_enrolled)
THEOREM SoonCutOff == Spec => CutOff
  <1>1. IInv /\ [Next]_vars =>
           [\A r \in Requests : req'[r].chunks > req[r].chunks => req'[r].lapsed < 2]_vars
    <2> SUFFICES ASSUME IInv, [Next]_vars, NEW r \in Requests,
                        req'[r].chunks > req[r].chunks
                 PROVE  req'[r].lapsed < 2
      OBVIOUS
    <2>t. /\ EdgeTypeOK /\ req \in [Requests -> States] /\ req[r] \in States /\ Sound(req[r])
          /\ req[r].chunks \in Nat /\ req[r].lapsed \in 0 .. 2 /\ req[r].age \in {0, 1}
      BY GateAssumption DEF IInv, EdgeTypeOK, States
    <2>1. Chunk(r)
      BY <2>t, WhoMoves
    <2>2. CASE ~Due(r)
      <3>1. req[r].lapsed <= 1
        BY <2>1, <2>2, <2>t DEF Chunk, Is, Due, Sound
      <3>2. req'[r].lapsed = req[r].lapsed
        BY <2>1, <2>2, <2>t DEF Chunk, Goes, States
      <3> QED BY <3>1, <3>2, <2>t
    <2>3. CASE Due(r) /\ StillEnrolled(r)
      <3>1. req'[r].lapsed = 0
        BY <2>1, <2>3, <2>t DEF Chunk, Goes, States
      <3> QED BY <3>1
    <2>4. CASE Due(r) /\ ~StillEnrolled(r)
      <3> DEFINE q == [req[r] EXCEPT !.at = "ending", !.done = TRUE, !.cause = "revoked",
                                     !.finally = "closing", !.sweep = "next", !.left = FALSE]
      <3>2. req' = [req EXCEPT ![r] = q]
        BY <2>1, <2>4 DEF Chunk, Leaves, Goes
      <3>3. q.chunks = req[r].chunks
        BY <2>t DEF States
      <3>1. req'[r].chunks = req[r].chunks
        BY <3>2, <3>3, <2>t
      <3> QED BY <3>1, <2>t
    <2> QED BY <2>2, <2>3, <2>4
  <1> QED BY <1>1, SpecInv, PTL DEF Spec, CutOff

\* A key that was taken away does not come in, whatever commands overlap, are
\* killed or find damaged, and nobody comes in without one where a registry is
\* (lock, save, reload, exists, _identify)
THEOREM BannedKeyStaysOut == Spec => BannedStaysOut
  <1>1. IInv /\ [Next]_vars =>
           [\A r \in Requests :
              Is(r, "over") /\ req'[r].at = "body" =>
                 /\ file.at = "good" => req'[r].key \notin banned
                 /\ file.at # "absent" => req'[r].uid # Anon]_vars
    <2> SUFFICES ASSUME IInv, [Next]_vars, NEW r \in Requests,
                        Is(r, "over"), req'[r].at = "body"
                 PROVE  /\ file.at = "good" => req'[r].key \notin banned
                        /\ file.at # "absent" => req'[r].uid # Anon
      OBVIOUS
    <2>t. /\ EdgeTypeOK /\ req \in [Requests -> States] /\ file \in Files /\ reg \in Registries
          /\ Serving(file.row)
      BY DEF IInv, EdgeTypeOK, RegistryInv
    <2>1. Arrive(r)
      BY <2>t, WhoMoves
    <2>2. PICK key : /\ Identify(Read, key) # Refused
                     /\ req'[r].key = key /\ req'[r].uid = Identify(Read, key)
      BY <2>1, <2>t, ArriveWay
    <2>3. file.at # "absent" => Read.exists
      BY <2>t DEF Read, Reload, Files
    <2>4. file.at = "good" => Read.row = file.row
      BY DEF Read, Reload
    <2>5. CASE Configured(Read)
      <3>1. /\ Read.row \in Rows /\ key = Read.row.key /\ ~Read.row.revoked
            /\ Identify(Read, key) = Read.row.uid
        BY <2>2, <2>5, <2>t, ReadType DEF Identify, Configured, Registries
      <3>2. Read.row.uid \in Keys /\ Read.row # NoRow
        BY <3>1, Basics DEF Rows
      <3> QED BY <2>2, <2>4, <2>t, <3>1, <3>2, Basics DEF Serving
    <2>6. CASE ~Configured(Read)
      <3>1. ~Read.exists
        BY <2>2, <2>6 DEF Identify
      <3> QED BY <3>1, <2>3, <2>t DEF Files
    <2> QED BY <2>5, <2>6
  <1> QED BY <1>1, SpecInv, PTL DEF Spec, BannedStaysOut

-----------------------------------------------------------------------------
(* The gate keeps the promise of Turnstile *)

\* What a step of a request does to its place, its units and its rows
Same(q, s) == s.uid = q.uid /\ s.held = q.held /\ s.done = q.done
Enters(q, s) == /\ q.at = "over" /\ s.at = "body"
                /\ s.uid \in Uids /\ s.held = 1 /\ ~s.done /\ s.rows = 0
Out(s) == s.at = "over" /\ s.cause # "cancelled"
TurnedAway(q, s) == q.at = "over" /\ Out(s) /\ s.rows = 1
Drops(q, s) == q.at = "body" /\ Out(s) /\ s.rows \in {0, 1}
Forwards(q, s) == /\ q.at = "body" /\ s.at = "sent"
                  /\ s.uid = q.uid /\ s.rows = q.rows
                  /\ s.held - 1 \in 0 .. MaxInflight - 1
Open == {"sent", "ready", "relay"}
GoesOn(q, s) == q.at \in Open /\ s.at \in Open /\ Same(q, s) /\ s.rows = q.rows
Answers(q, s) == q.at \in Open /\ Out(s) /\ s.rows = 1
GivesUp(q, s) == /\ q.at \in Open /\ s.at = "over" /\ s.cause = "cancelled"
                 /\ s.rows = q.rows
Breaks(q, s) == /\ q.at \in Open /\ s.at = "ending" /\ s.rows = q.rows
                /\ s.done \/ Same(q, s)
Frees(q, s) == q.at = "ending" /\ s.at = "ending" /\ s.done /\ s.rows = q.rows
Records(q, s) == /\ q.at = "ending" /\ (s.at = "ending" \/ Out(s))
                 /\ q.done /\ s.done /\ s.rows = 1
Passes(q, s) == \/ Enters(q, s) \/ TurnedAway(q, s) \/ Drops(q, s) \/ Forwards(q, s)
                \/ GoesOn(q, s) \/ Answers(q, s) \/ GivesUp(q, s) \/ Breaks(q, s)
                \/ Frees(q, s) \/ Records(q, s)
PassesOn(r) == \E s : req' = [req EXCEPT ![r] = s] /\ Passes(req[r], s)

LEMMA EndsPasses ==
  ASSUME NEW r \in Requests, NEW rows \in {0, 1}, NEW cause, Ends(r, rows, cause),
         req[r] \in States, cause # "cancelled",
         Is(r, "body") \/ (req[r].at \in Open /\ rows = 1)
  PROVE  PassesOn(r)
  <1> DEFINE q == [req[r] EXCEPT !.rows = rows, !.cause = cause, !.told = cause]
             s == Finished(q)
  <1>1. req' = [req EXCEPT ![r] = s]
    BY DEF Ends, Goes
  <1>2. s.at = "over" /\ s.rows = q.rows /\ s.cause = q.cause
    BY DEF Finished, Over
  <1>3. q.rows = rows /\ q.cause = cause
    BY DEF States
  <1> HIDE DEF s, q
  <1>4. Drops(req[r], s) \/ Answers(req[r], s)
    BY <1>2, <1>3 DEF Drops, Answers, Out, Is
  <1> QED BY <1>1, <1>4 DEF PassesOn, Passes

LEMMA CancelledPasses ==
  ASSUME NEW r \in Requests, Ends(r, 0, "cancelled"), req[r] \in States,
         req[r].at \in Open, req[r].rows = 0
  PROVE  PassesOn(r)
  <1> DEFINE q == [req[r] EXCEPT !.rows = 0, !.cause = "cancelled", !.told = "cancelled"]
             s == Finished(q)
  <1>1. req' = [req EXCEPT ![r] = s]
    BY DEF Ends, Goes
  <1>2. s.at = "over" /\ s.rows = 0 /\ s.cause = "cancelled"
    BY DEF Finished, Over, States
  <1> HIDE DEF s, q
  <1> QED BY <1>1, <1>2 DEF GivesUp, PassesOn, Passes

LEMMA ArrivePasses ==
  ASSUME IInv, NEW r \in Requests, Arrive(r)
  PROVE  PassesOn(r)
  <1>t. EdgeTypeOK
    BY DEF IInv
  <1>r. reg' \in Registries /\ Is(r, "over")
    BY <1>t, ReadType DEF Arrive
  <1>1. PICK key \in {NoKey} \cup 1 .. keys :
        LET u == Identify(reg', key)
            b == Tuned(bucket[u], RateOf(reg', u))
        IN /\ u # Refused
           /\ IF MayReserve(b, 1)
              THEN /\ bucket' = [bucket EXCEPT ![u] = Reserved(b, 1)]
                   /\ Goes(r, [Over EXCEPT !.at = "body", !.key = key, !.uid = u,
                                           !.held = 1, !.done = FALSE])
              ELSE /\ bucket' = [bucket EXCEPT ![u] = b]
                   /\ Goes(r, [Over EXCEPT !.cause = "refused", !.rows = 1,
                                           !.told = "refused"])
    BY DEF Arrive
  <1> DEFINE u == Identify(reg', key)
             q == [Over EXCEPT !.at = "body", !.key = key, !.uid = u,
                               !.held = 1, !.done = FALSE]
             x == [Over EXCEPT !.cause = "refused", !.rows = 1, !.told = "refused"]
  <1>2. u # Refused /\ (Goes(r, q) \/ Goes(r, x))
    BY <1>1
  <1>3. u \in Uids
    BY <1>2, <1>r, IdentifyType
  <1>4. /\ q.at = "body" /\ q.uid = u /\ q.held = 1 /\ ~q.done /\ q.rows = 0
        /\ x.at = "over" /\ x.rows = 1 /\ x.cause = "refused"
    BY DEF Over
  <1> HIDE DEF q, x, u
  <1>5. Enters(req[r], q) /\ TurnedAway(req[r], x)
    BY <1>r, <1>3, <1>4 DEF Enters, TurnedAway, Out, Is
  <1> QED BY <1>2, <1>5 DEF Goes, PassesOn, Passes

LEMMA BodyArrivesPasses ==
  ASSUME IInv, NEW r \in Requests, BodyArrives(r)
  PROVE  PassesOn(r)
  <1>t. EdgeTypeOK /\ req[r] \in States /\ Is(r, "body")
    BY DEF IInv, EdgeTypeOK, BodyArrives
  <1>1. PICK inputs \in menu.asked, n \in menu.asked :
        LET gens == Generations(inputs, n)
            more == gens - 1
            b == bucket[req[r].uid]
        IN CASE gens > MaxInflight -> Ends(r, 1, "fanout")
             [] gens <= MaxInflight /\ more > 0 /\ ~MayReserve(b, more) ->
                   Ends(r, 1, "refused")
             [] OTHER ->
                   /\ bucket' = [bucket EXCEPT ![req[r].uid] = Reserved(b, more)]
                   /\ Goes(r, [req[r] EXCEPT !.at = "sent", !.sent = TRUE,
                                  !.held = gens, !.age = 0, !.lapsed = 0])
    BY DEF BodyArrives
  <1> DEFINE gens == Generations(inputs, n)
             q == [req[r] EXCEPT !.at = "sent", !.sent = TRUE,
                                 !.held = gens, !.age = 0, !.lapsed = 0]
  <1>2. gens \in Nat \ {0} /\ MaxInflight \in Nat
    <2>1. inputs \in Nat \ {0} /\ n \in Nat \ {0}
      BY <1>t, GateAssumption DEF EdgeTypeOK
    <2>2. \A i, j \in Nat \ {0} : i * j \in Nat \ {0}
      OBVIOUS
    <2> QED BY <2>1, <2>2, GateAssumption DEF Generations
  <1>3. \/ Ends(r, 1, "fanout") \/ Ends(r, 1, "refused")
        \/ gens <= MaxInflight /\ Goes(r, q)
    BY <1>1, <1>2
  <1>4. CASE Ends(r, 1, "fanout") \/ Ends(r, 1, "refused")
    BY <1>4, <1>t, EndsPasses
  <1>5. CASE gens <= MaxInflight /\ Goes(r, q)
    <2>1. q.at = "sent" /\ q.uid = req[r].uid /\ q.rows = req[r].rows /\ q.held = gens
      BY <1>t DEF States
    <2>2. gens - 1 \in 0 .. MaxInflight - 1
      <3> HIDE DEF gens
      <3> QED BY <1>2, <1>5
    <2> HIDE DEF q, gens
    <2>3. Forwards(req[r], q)
      BY <2>1, <2>2, <1>t DEF Forwards, Is
    <2> QED BY <1>5, <2>3 DEF Goes, PassesOn, Passes
  <1> QED BY <1>3, <1>4, <1>5

\* A step that only turns the clock, or goes on to the next part of the answer
LEMMA GoesOnPasses ==
  ASSUME NEW r \in Requests, NEW q, Goes(r, q), req[r].at \in Open, q.at \in Open,
         Same(req[r], q), q.rows = req[r].rows
  PROVE  PassesOn(r)
  BY DEF Goes, PassesOn, Passes, GoesOn

LEMMA BreaksPasses ==
  ASSUME NEW r \in Requests, NEW q, Goes(r, q), req[r].at \in Open, q.at = "ending",
         q.done \/ Same(req[r], q), q.rows = req[r].rows
  PROVE  PassesOn(r)
  BY DEF Goes, PassesOn, Passes, Breaks

LEMMA LeavesPasses ==
  ASSUME IInv, NEW r \in Requests, Is(r, "relay"), NEW cause, NEW sweep,
         Leaves(r, cause, sweep)
  PROVE  PassesOn(r)
  <1> DEFINE q == [req[r] EXCEPT !.at = "ending", !.done = TRUE, !.cause = cause,
                                 !.finally = "closing", !.sweep = sweep, !.left = FALSE]
  <1>1. Goes(r, q) /\ req[r] \in States
    BY DEF Leaves, IInv, EdgeTypeOK
  <1>2. q.at = "ending" /\ q.done /\ q.rows = req[r].rows
    BY <1>1 DEF States
  <1> HIDE DEF q
  <1> QED BY <1>1, <1>2, BreaksPasses DEF Is, Open

LEMMA WaitsPasses ==
  ASSUME IInv, NEW r \in Requests, Waits(r)
  PROVE  PassesOn(r)
  <1>t. req[r] \in States /\ req[r].at = "sent" /\ req[r].rows = 0
    BY DEF IInv, EdgeTypeOK, Sound, Waits, Recheck, GoneWaiting, TimesOut, Cancelled, Headers, Is
  <1>1. \/ \E cause : Ends(r, 1, cause) /\ cause # "cancelled"
        \/ Ends(r, 0, "cancelled")
        \/ Goes(r, [req[r] EXCEPT !.age = 0, !.lapsed = 0])
        \/ Goes(r, [req[r] EXCEPT !.at = "ready"])
    BY DEF Waits, Recheck, GoneWaiting, TimesOut, Cancelled, Headers
  <1>2. ASSUME NEW cause, Ends(r, 1, cause), cause # "cancelled" PROVE PassesOn(r)
    BY <1>2, <1>t, EndsPasses DEF Open
  <1>5. CASE Ends(r, 0, "cancelled")
    BY <1>5, <1>t, CancelledPasses DEF Open
  <1>3. CASE Goes(r, [req[r] EXCEPT !.age = 0, !.lapsed = 0])
    <2> DEFINE q == [req[r] EXCEPT !.age = 0, !.lapsed = 0]
    <2>1. q.at = "sent" /\ Same(req[r], q) /\ q.rows = req[r].rows /\ Goes(r, q)
      BY <1>3, <1>t DEF States, Same
    <2> HIDE DEF q
    <2> QED BY <2>1, <1>t, GoesOnPasses DEF Open
  <1>4. CASE Goes(r, [req[r] EXCEPT !.at = "ready"])
    <2> DEFINE q == [req[r] EXCEPT !.at = "ready"]
    <2>1. q.at = "ready" /\ Same(req[r], q) /\ q.rows = req[r].rows /\ Goes(r, q)
      BY <1>4, <1>t DEF States, Same
    <2> HIDE DEF q
    <2> QED BY <2>1, <1>t, GoesOnPasses DEF Open
  <1> QED BY <1>1, <1>2, <1>3, <1>4, <1>5

LEMMA StreamsPasses ==
  ASSUME IInv, NEW r \in Requests, Streams(r)
  PROVE  PassesOn(r)
  <1>t. req[r] \in States
    BY DEF IInv, EdgeTypeOK
  <1>1. CASE StartRelay(r)
    <2> DEFINE q == [req[r] EXCEPT !.at = "relay", !.age = 0]
    <2>1. /\ q.at = "relay" /\ Same(req[r], q) /\ q.rows = req[r].rows /\ Goes(r, q)
          /\ req[r].at = "ready"
      BY <1>1, <1>t DEF States, Same, StartRelay, Is
    <2> HIDE DEF q
    <2> QED BY <2>1, GoesOnPasses DEF Open
  <1>2. CASE Chunk(r)
    <2>1. CASE ~Due(r)
      <3> DEFINE q == [req[r] EXCEPT !.chunks = @ + 1]
      <3>1. /\ q.at = "relay" /\ Same(req[r], q) /\ q.rows = req[r].rows /\ Goes(r, q)
            /\ req[r].at = "relay"
        BY <1>2, <2>1, <1>t DEF States, Same, Chunk, Is
      <3> HIDE DEF q
      <3> QED BY <3>1, GoesOnPasses DEF Open
    <2>2. CASE Due(r) /\ StillEnrolled(r)
      <3> DEFINE q == [req[r] EXCEPT !.chunks = @ + 1, !.age = 0, !.lapsed = 0]
      <3>1. /\ q.at = "relay" /\ Same(req[r], q) /\ q.rows = req[r].rows /\ Goes(r, q)
            /\ req[r].at = "relay"
        BY <1>2, <2>2, <1>t DEF States, Same, Chunk, Is
      <3> HIDE DEF q
      <3> QED BY <3>1, GoesOnPasses DEF Open
    <2>3. CASE Due(r) /\ ~StillEnrolled(r)
      BY <1>2, <2>3, LeavesPasses DEF Chunk
    <2> QED BY <2>1, <2>2, <2>3
  <1>3. CASE Completes(r) \/ StreamFails(r)
    BY <1>3, LeavesPasses DEF Completes, StreamFails
  <1>4. CASE GoneStreaming(r)
    <2>1. \/ Is(r, "relay") /\ Leaves(r, "client_disconnect", "next")
          \/ /\ req[r].at \in Open
             /\ Goes(r, [req[r] EXCEPT !.at = "ending", !.cause = "client_disconnect",
                                       !.sweep = "due", !.left = FALSE])
          \/ /\ req[r].at \in Open
             /\ Goes(r, [req[r] EXCEPT !.at = "ending", !.cause = "client_disconnect",
                                       !.finally = "due", !.sweep = "due", !.left = FALSE])
      BY <1>4 DEF GoneStreaming, Is, Open
    <2>2. ASSUME req[r].at \in Open,
                 Goes(r, [req[r] EXCEPT !.at = "ending", !.cause = "client_disconnect",
                                        !.sweep = "due", !.left = FALSE])
          PROVE  PassesOn(r)
      <3> DEFINE q == [req[r] EXCEPT !.at = "ending", !.cause = "client_disconnect",
                                     !.sweep = "due", !.left = FALSE]
      <3>1. q.at = "ending" /\ Same(req[r], q) /\ q.rows = req[r].rows /\ Goes(r, q)
        BY <2>2, <1>t DEF States, Same
      <3> HIDE DEF q
      <3> QED BY <3>1, <2>2, BreaksPasses
    <2>3. ASSUME req[r].at \in Open,
                 Goes(r, [req[r] EXCEPT !.at = "ending", !.cause = "client_disconnect",
                                        !.finally = "due", !.sweep = "due", !.left = FALSE])
          PROVE  PassesOn(r)
      <3> DEFINE q == [req[r] EXCEPT !.at = "ending", !.cause = "client_disconnect",
                                     !.finally = "due", !.sweep = "due", !.left = FALSE]
      <3>1. q.at = "ending" /\ Same(req[r], q) /\ q.rows = req[r].rows /\ Goes(r, q)
        BY <2>3, <1>t DEF States, Same
      <3> HIDE DEF q
      <3> QED BY <3>1, <2>3, BreaksPasses
    <2> QED BY <2>1, <2>2, <2>3, LeavesPasses
  <1> QED BY <1>1, <1>2, <1>3, <1>4 DEF Streams

\* What a closer leaves of a request that it has audited
LEMMA SettledPasses ==
  ASSUME NEW q, q.at = "ending", q.done, q.rows = 1, q.cause # "cancelled"
  PROVE  /\ Settled(q).at = "ending" \/ Out(Settled(q))
         /\ Settled(q).done /\ Settled(q).rows = 1
  <1>1. /\ Finished(q).at = "over" /\ Finished(q).done /\ Finished(q).rows = q.rows
        /\ Finished(q).cause = q.cause
    BY DEF Finished, Over
  <1> QED BY <1>1 DEF Settled, Out

LEMMA ClosesPasses ==
  ASSUME IInv, NEW r \in Requests, Closes(r)
  PROVE  PassesOn(r)
  <1>t. req[r] \in States /\ Sound(req[r]) /\ req[r].at = "ending"
    BY DEF IInv, EdgeTypeOK, Closes, FinallyStarts, SweepStarts, FinallyCloses, SweepCloses, Is
  <1>1. CASE FinallyStarts(r)
    <2> DEFINE q == [req[r] EXCEPT !.finally = "closing", !.done = TRUE]
    <2>1. q.at = "ending" /\ q.done /\ q.rows = req[r].rows /\ Goes(r, q)
      BY <1>1, <1>t DEF States, FinallyStarts
    <2> HIDE DEF q
    <2> QED BY <2>1, <1>t DEF Goes, PassesOn, Passes, Frees
  <1>2. CASE SweepStarts(r)
    <2> DEFINE q == [req[r] EXCEPT !.sweep = "closing", !.done = TRUE]
    <2>1. q.at = "ending" /\ q.done /\ q.rows = req[r].rows /\ Goes(r, q)
      BY <1>2, <1>t DEF States, SweepStarts
    <2> HIDE DEF q
    <2> QED BY <2>1, <1>t DEF Goes, PassesOn, Passes, Frees
  <1>c. req[r].cause \in Causes /\ "client_disconnect" \in Causes
    BY <1>t DEF States, Causes
  <1>3. CASE FinallyCloses(r)
    <2> DEFINE p == Audited(req[r], req[r].cause)
               q == [p EXCEPT !.finally = "done",
                              !.sweep = IF @ = "next" THEN "due" ELSE @]
    <2>1. Goes(r, Settled(q)) /\ req[r].done
      BY <1>3, <1>t DEF FinallyCloses, Sound
    <2>2. p \in States /\ p.rows = 1 /\ p.at = "ending" /\ p.done /\ p.cause # "cancelled"
      <3>1. PICK rows \in 0 .. 2, told \in Causes :
               p = [req[r] EXCEPT !.rows = rows, !.told = told]
        BY <1>t, <1>c, AuditedSound
      <3> QED BY <3>1, <2>1, <1>t, <1>c, AuditedSound DEF States, Sound
    <2>3. q.at = "ending" /\ q.done /\ q.rows = 1 /\ q.cause # "cancelled"
      <3> HIDE DEF p
      <3> QED BY <2>2 DEF States
    <2> HIDE DEF q
    <2>4. /\ Settled(q).at = "ending" \/ Out(Settled(q))
          /\ Settled(q).done /\ Settled(q).rows = 1
      BY <2>3, SettledPasses
    <2> QED BY <2>1, <2>4, <1>t DEF Goes, PassesOn, Passes, Records
  <1>4. CASE SweepCloses(r)
    <2> DEFINE p == Audited(req[r], "client_disconnect")
               q == [p EXCEPT !.sweep = "done"]
    <2>1. Goes(r, Settled(q)) /\ req[r].done
          /\ (req[r].rows = 0 => "client_disconnect" = req[r].cause)
      BY <1>4, <1>t DEF SweepCloses, Sound
    <2>2. p \in States /\ p.rows = 1 /\ p.at = "ending" /\ p.done /\ p.cause # "cancelled"
      <3>1. PICK rows \in 0 .. 2, told \in Causes :
               p = [req[r] EXCEPT !.rows = rows, !.told = told]
        BY <2>1, <1>t, <1>c, AuditedSound
      <3> QED BY <3>1, <2>1, <1>t, <1>c, AuditedSound DEF States, Sound
    <2>3. q.at = "ending" /\ q.done /\ q.rows = 1 /\ q.cause # "cancelled"
      <3> HIDE DEF p
      <3> QED BY <2>2 DEF States
    <2> HIDE DEF q
    <2>4. /\ Settled(q).at = "ending" \/ Out(Settled(q))
          /\ Settled(q).done /\ Settled(q).rows = 1
      BY <2>3, SettledPasses
    <2> QED BY <2>1, <2>4, <1>t DEF Goes, PassesOn, Passes, Records
  <1> QED BY <1>1, <1>2, <1>3, <1>4 DEF Closes

LEMMA ServesPasses ==
  ASSUME IInv, NEW r \in Requests, Serves(r)
  PROVE  PassesOn(r) \/ Unauthorized(r) \/ (Hangs(r) /\ Is(r, "body"))
  <1>t. req[r] \in States
    BY DEF IInv, EdgeTypeOK
  <1>1. CASE BodyEnds(r) \/ BadBody(r)
    BY <1>1, <1>t, EndsPasses DEF BodyEnds, BadBody
  <1>2. CASE Hangs(r) /\ ~Is(r, "body")
    <2> DEFINE q == [req[r] EXCEPT !.left = TRUE]
    <2>1. /\ Goes(r, q) /\ req[r].at \in Open /\ q.at = req[r].at
          /\ Same(req[r], q) /\ q.rows = req[r].rows
      BY <1>2, <1>t DEF Hangs, Is, Open, States, Same
    <2> HIDE DEF q
    <2> QED BY <2>1, GoesOnPasses
  <1> QED BY <1>1, <1>2, ArrivePasses, BodyArrivesPasses, WaitsPasses, StreamsPasses, ClosesPasses
          DEF Serves, Reads

-----------------------------------------------------------------------------
\* A step of one request is a step of Turnstile, or none
LEMMA PassStep ==
  ASSUME IInv, IInv', NEW r \in Requests, PassesOn(r)
  PROVE  Promised!Next \/ UNCHANGED Promised!vars
  <1> DEFINE at == [w \in Requests |-> Stage(req[w])]
             units == [w \in Requests |-> [u \in Uids |-> Holds(req[w], u)]]
             rows == [w \in Requests |-> req[w].rows]
             used == [u \in Uids |-> bucket[u].inflight]
             q == req[r]
             s == req'[r]
             mine == [u \in Uids |-> Holds(s, u)]
             none == [u \in Uids |-> 0]
  <1>t. /\ q \in States /\ s \in States /\ Sound(q) /\ Sound(s) /\ EdgeTypeOK
        /\ req \in [Requests -> States] /\ MaxInflight \in Nat \ {0}
    BY GateAssumption DEF IInv, EdgeTypeOK
  <1>1. req' = [req EXCEPT ![r] = s] /\ Passes(q, s)
    <2>1. PICK p : req' = [req EXCEPT ![r] = p] /\ Passes(req[r], p)
      BY DEF PassesOn
    <2>2. p = s
      BY <2>1, <1>t
    <2> QED BY <2>1, <2>2
  <1>2. \A u \in Uids : /\ used'[u] = used[u] - units[r][u] + mine[u]
                        /\ used[u] \in Nat /\ units[r][u] \in Nat
                        /\ used'[u] <= MaxInflight
    <2> SUFFICES ASSUME NEW u \in Uids
                 PROVE  /\ bucket'[u].inflight = bucket[u].inflight - Holds(q, u) + Holds(s, u)
                        /\ bucket[u].inflight \in Nat /\ Holds(q, u) \in Nat
                        /\ bucket'[u].inflight <= MaxInflight
      OBVIOUS
    <2>1. /\ bucket'[u].inflight = Cardinality(Units(u)')
          /\ bucket[u].inflight = Cardinality(Units(u))
      BY DEF IInv, SlotsExact
    <2>2. Cardinality(Units(u)') = Cardinality(Units(u)) - Holds(q, u) + Holds(s, u)
      BY <1>1, <1>t, UnitsChange
    <2>3. bucket'[u] \in Buckets /\ bucket[u] \in Buckets
      BY DEF IInv, EdgeTypeOK
    <2>4. bucket'[u].inflight \in 0 .. MaxInflight /\ bucket[u].inflight \in 0 .. MaxInflight
      BY <2>3 DEF Buckets
    <2>5. Holds(q, u) \in Nat
      BY <1>t, OwnCounted
    <2> QED BY <2>1, <2>2, <2>4, <2>5, <1>t
  <1>3. /\ at' = [at EXCEPT ![r] = Stage(s)] /\ units' = [units EXCEPT ![r] = mine]
        /\ rows' = [rows EXCEPT ![r] = s.rows]
        /\ at[r] = Stage(q) /\ units[r] = [u \in Uids |-> Holds(q, u)] /\ rows[r] = q.rows
    BY <1>1, <1>t
  <1>4. Promised!Holds(r, mine)
    <2>1. used' = [u \in Uids |-> used[u] - units[r][u] + mine[u]]
      BY <1>2
    <2> HIDE DEF q, s, mine
    <2> QED BY <1>3, <2>1 DEF Promised!Holds
  <1>5. s.done => Promised!Holds(r, none) /\ mine = none
    <2> SUFFICES ASSUME s.done PROVE Promised!Holds(r, none) /\ mine = none
      OBVIOUS
    <2>1. mine = none
      BY DEF Holds
    <2> QED BY <1>4, <2>1 DEF Promised!Holds
  <1>6. none = Promised!None
    BY DEF Promised!None
  <1>7. q.done => units[r] = none
    BY DEF Holds
  <1>8. Same(q, s) => UNCHANGED <<units, used>>
    <2> SUFFICES ASSUME Same(q, s) PROVE units' = units /\ used' = used
      OBVIOUS
    <2>1. \A u \in Uids : Holds(s, u) = Holds(q, u)
      BY DEF Same, Holds
    <2>2. units' = units
      BY <1>1, <1>t, <2>1
    <2>3. \A u \in Uids : used'[u] = used[u]
      BY <2>1, <1>2
    <2> QED BY <2>2, <2>3
  <1>9. s.rows = q.rows => rows' = rows
    BY <1>1, <1>t
  <1>10. Stage(s) = Stage(q) => at' = at
    BY <1>1, <1>t
  <1> HIDE DEF at, units, rows, used, q, s, mine, none
  <1>11. CASE Enters(q, s)
    <2>1. PICK u \in Uids : u = s.uid
      BY <1>11 DEF Enters
    <2>2. mine = Promised!Of(u, 1)
      BY <2>1, <1>11 DEF Enters, mine, Holds, Promised!Of
    <2>3. Promised!Holds(r, Promised!Of(u, 1))
      BY <1>4, <2>2 DEF Promised!Holds
    <2>4. used[u] + 1 <= MaxInflight
      <3>1. units[r][u] = 0 /\ mine[u] = 1
        BY <1>3, <1>7, <1>11, <2>1, <1>t DEF Sound, Enters, mine, none, Holds
      <3> QED BY <3>1, <1>2, <1>t
    <2>5. \E v \in Uids : used[v] + 1 <= MaxInflight /\ Promised!Holds(r, Promised!Of(v, 1))
      BY <2>3, <2>4
    <2>6. at[r] \in {"out", "broken"} /\ Promised!Goes(r, "in")
      BY <1>3, <1>11 DEF Enters, Stage, Promised!Goes, at
    <2>7. Promised!Tells(r, 0)
      BY <1>3, <1>11 DEF Enters, Promised!Tells, rows
    <2>8. Promised!Enter(r)
      BY <2>5, <2>6, <2>7 DEF Promised!Enter, used, at
    <2> QED BY <2>8 DEF Promised!Next
  <1>12. CASE TurnedAway(q, s)
    <2>1. at[r] \in {"out", "broken"} /\ Promised!Tells(r, 1) /\ Promised!Goes(r, "out")
      BY <1>3, <1>12 DEF TurnedAway, Out, Stage, Promised!Tells, Promised!Goes, at, rows
    <2>2. UNCHANGED <<units, used>>
      <3>1. q.done /\ s.done
        BY <1>12, <1>t DEF Sound, Out, TurnedAway
      <3>2. \A u \in Uids : units[r][u] = 0 /\ mine[u] = 0
        BY <3>1, <1>5, <1>7 DEF none
      <3>3. units' = units
        BY <3>1, <1>3, <1>5, <1>7 DEF units
      <3>4. \A u \in Uids : used'[u] = used[u]
        BY <3>2, <1>2
      <3> QED BY <3>3, <3>4 DEF used
    <2>3. Promised!TurnAway(r)
      BY <2>1, <2>2, Zenon DEF Promised!TurnAway, at, units, used
    <2> QED BY <2>3 DEF Promised!Next
  <1>13. CASE Drops(q, s)
    <2>1. at[r] = "in" /\ Promised!Goes(r, "out")
      BY <1>3, <1>13 DEF Drops, Out, Stage, Promised!Goes, at
    <2>2. Promised!Holds(r, Promised!None)
      BY <1>5, <1>6, <1>13, <1>t DEF Drops, Out, Sound
    <2>3. \E n \in {0, 1} : Promised!Tells(r, n)
      BY <1>3, <1>13 DEF Drops, Promised!Tells, rows
    <2>4. Promised!Drop(r)
      BY <2>1, <2>2, <2>3, Zenon DEF Promised!Drop, at
    <2> QED BY <2>4 DEF Promised!Next
  <1>14. CASE Forwards(q, s)
    <2>1. PICK u \in Uids, n \in 0 .. MaxInflight - 1 : u = s.uid /\ n = s.held - 1
      BY <1>14, <1>t DEF Forwards, States
    <2>2. ~q.done /\ ~s.done /\ q.held = 1 /\ s.held = n + 1 /\ s.uid = q.uid
      <3>1. s.held \in 0 .. MaxInflight
        BY <1>t DEF States
      <3> QED BY <3>1, <2>1, <1>14, <1>t DEF Sound, Forwards
    <2>3. mine = Promised!Of(u, n + 1)
      BY <2>1, <2>2 DEF mine, Holds, Promised!Of
    <2>4. units[r] = Promised!Of(u, 1)
      BY <2>1, <2>2, <1>3 DEF Holds, Promised!Of
    <2>5. Promised!Holds(r, Promised!Of(u, n + 1))
      BY <1>4, <2>3 DEF Promised!Holds
    <2>6. used[u] + n <= MaxInflight
      <3>1. units[r][u] = 1 /\ mine[u] = n + 1
        BY <1>3, <2>1, <2>2 DEF mine, Holds
      <3> QED BY <3>1, <1>2, <1>t
    <2>7. \E v \in Uids, m \in 0 .. MaxInflight - 1 :
             /\ units[r] = Promised!Of(v, 1) /\ used[v] + m <= MaxInflight
             /\ Promised!Holds(r, Promised!Of(v, m + 1))
      BY <2>4, <2>5, <2>6
    <2>8. at[r] = "in" /\ Promised!Goes(r, "through")
      BY <1>3, <1>14 DEF Forwards, Stage, Promised!Goes, at
    <2>9. rows' = rows
      BY <1>9, <1>14 DEF Forwards
    <2>10. Promised!Forward(r)
      BY <2>7, <2>8, <2>9, Zenon DEF Promised!Forward, at, units, rows, used
    <2> QED BY <2>10 DEF Promised!Next
  <1>15. CASE GoesOn(q, s)
    <2>1. at' = at /\ rows' = rows /\ UNCHANGED <<units, used>>
      BY <1>8, <1>9, <1>10, <1>15 DEF GoesOn, Stage, Open
    <2> QED BY <2>1, Zenon DEF Promised!vars, at, units, rows, used
  <1>16. CASE Answers(q, s)
    <2>1. at[r] = "through" /\ Promised!Goes(r, "out")
      BY <1>3, <1>16 DEF Answers, Out, Stage, Open, Promised!Goes, at
    <2>2. Promised!Holds(r, Promised!None)
      BY <1>5, <1>6, <1>16, <1>t DEF Answers, Out, Sound
    <2>3. Promised!Tells(r, 1)
      BY <1>3, <1>16 DEF Answers, Promised!Tells, rows
    <2>4. Promised!Answer(r)
      BY <2>1, <2>2, <2>3, Zenon DEF Promised!Answer, at
    <2> QED BY <2>4 DEF Promised!Next
  <1>20. CASE GivesUp(q, s)
    <2>1. at[r] = "through" /\ Promised!Goes(r, "broken")
      BY <1>3, <1>20 DEF GivesUp, Stage, Open, Promised!Goes, at
    <2>2. Promised!Holds(r, Promised!None)
      BY <1>5, <1>6, <1>20, <1>t DEF GivesUp, Sound
    <2>3. rows' = rows
      BY <1>9, <1>20 DEF GivesUp
    <2>4. Promised!Break(r)
      BY <2>1, <2>2, <2>3, Zenon DEF Promised!Break, at, rows
    <2> QED BY <2>4 DEF Promised!Next
  <1>17. CASE Breaks(q, s)
    <2>1. at[r] = "through" /\ Promised!Goes(r, "closing")
      BY <1>3, <1>17 DEF Breaks, Stage, Open, Promised!Goes, at
    <2>2. Promised!Holds(r, Promised!None) \/ UNCHANGED <<units, used>>
      BY <1>5, <1>6, <1>8, <1>17 DEF Breaks
    <2>3. rows' = rows
      BY <1>9, <1>17 DEF Breaks
    <2>4. Promised!Leave(r)
      BY <2>1, <2>2, <2>3, Zenon DEF Promised!Leave, at, units, rows, used
    <2> QED BY <2>4 DEF Promised!Next
  <1>18. CASE Frees(q, s)
    <2>1. at[r] = "closing" /\ at' = at /\ rows' = rows
      BY <1>3, <1>9, <1>10, <1>18 DEF Frees, Stage
    <2>2. Promised!Holds(r, Promised!None)
      BY <1>5, <1>6, <1>18 DEF Frees
    <2>3. Promised!Release(r)
      BY <2>1, <2>2, Zenon DEF Promised!Release, at, rows
    <2> QED BY <2>3 DEF Promised!Next
  <1>19. CASE Records(q, s)
    <2>1. at[r] = "closing" /\ units[r] = Promised!None
      BY <1>3, <1>6, <1>7, <1>19 DEF Records, Stage
    <2>2. Promised!Goes(r, "closing") \/ Promised!Goes(r, "out")
      BY <1>3, <1>19 DEF Records, Out, Stage, Promised!Goes, at
    <2>3. UNCHANGED <<units, used>>
      <3>1. \A u \in Uids : units[r][u] = 0 /\ mine[u] = 0
        BY <1>5, <1>7, <1>19 DEF none, Records
      <3>2. units' = units
        BY <1>3, <1>5, <1>7, <1>19 DEF units, Records
      <3>3. \A u \in Uids : used'[u] = used[u]
        BY <3>1, <1>2
      <3> QED BY <3>2, <3>3 DEF used
    <2>4. CASE q.rows = 0
      <3>1. rows[r] = 0 /\ Promised!Tells(r, 1)
        BY <1>3, <1>19, <2>4 DEF Records, Promised!Tells, rows
      <3>2. \E place \in {"closing", "out"} : Promised!Goes(r, place)
        BY <2>2
      <3>3. Promised!Record(r)
        BY <2>1, <2>3, <3>1, <3>2, Zenon DEF Promised!Record, at, units, rows, used
      <3> QED BY <3>3 DEF Promised!Next
    <2>5. CASE q.rows = 1
      <3>1. rows[r] = 1 /\ rows' = rows
        BY <1>3, <1>9, <1>19, <2>5 DEF Records
      <3>2. CASE s.at = "ending"
        <4>1. at' = at
          BY <3>2, <1>10, <1>19 DEF Records, Stage
        <4> QED BY <2>3, <3>1, <4>1, Zenon DEF Promised!vars, at, units, rows, used
      <3>3. CASE s.at = "over"
        <4>1. Promised!Goes(r, "out")
          BY <3>3, <1>3, <1>19 DEF Records, Out, Stage, Promised!Goes, at
        <4>2. Promised!Close(r)
          BY <2>1, <2>3, <3>1, <4>1, Zenon DEF Promised!Close, at, units, rows, used
        <4> QED BY <4>2 DEF Promised!Next
      <3> QED BY <1>19, <3>2, <3>3 DEF Records, Out
    <2>6. q.rows \in {0, 1}
      <3>1. q.rows \in 0 .. 2 /\ q.rows <= 1
        BY <1>t DEF States, Sound
      <3> QED BY <3>1
    <2> QED BY <2>4, <2>5, <2>6
  <1> QED BY <1>1, <1>11, <1>12, <1>13, <1>14, <1>15, <1>16, <1>17, <1>18, <1>19, <1>20 DEF Passes

\* The steps that are of no request, and an arrival that is sent away, move none
LEMMA BesidePasses ==
  ASSUME IInv, [Next]_vars, ~Restart, \A r \in Requests : ~PassesOn(r)
  PROVE  UNCHANGED Promised!vars
  <1>t. req \in [Requests -> States] /\ bucket \in [Uids -> Buckets]
    BY DEF IInv, EdgeTypeOK
  <1>1. CASE UNCHANGED <<req, bucket>>
    BY <1>1 DEF Promised!vars
  <1>2. ASSUME NEW r \in Requests, Serves(r) PROVE UNCHANGED Promised!vars
    <2>1. CASE Unauthorized(r)
      BY <1>1, <2>1 DEF Unauthorized
    <2>2. CASE Hangs(r) /\ Is(r, "body")
      <3> DEFINE q == [req[r] EXCEPT !.left = TRUE]
      <3>1. bucket' = bucket /\ req' = [req EXCEPT ![r] = q]
        BY <2>2 DEF Hangs, Goes
      <3>2. q.at = req[r].at /\ q.rows = req[r].rows /\ Same(req[r], q) /\ q.cause = req[r].cause
        BY <1>t DEF States, Same
      <3> HIDE DEF q
      <3>3. ASSUME NEW s \in Requests
            PROVE  /\ req'[s].at = req[s].at /\ req'[s].rows = req[s].rows
                   /\ req'[s].cause = req[s].cause /\ Same(req[s], req'[s])
        BY <3>1, <3>2, <1>t DEF Same
      <3>4. /\ \A s \in Requests : Stage(req'[s]) = Stage(req[s])
            /\ \A s \in Requests : req'[s].rows = req[s].rows
            /\ \A s \in Requests, u \in Uids : Holds(req'[s], u) = Holds(req[s], u)
        BY <3>3 DEF Stage, Same, Holds
      <3> QED BY <3>1, <3>4 DEF Promised!vars
    <2> QED BY <1>2, <2>1, <2>2, ServesPasses
  <1>3. ASSUME NEW w \in Writers, Operates(w) PROVE UNCHANGED <<req, bucket>>
    BY <1>3 DEF Operates, CliAsk, CliAskKey, CliLoad, CliSave, CliFails
  <1>4. CASE Damage \/ UNCHANGED vars
    BY <1>1, <1>4 DEF Damage, vars
  <1>5. ASSUME NEW u \in Uids, Refill(u) PROVE UNCHANGED Promised!vars
    <2>1. req' = req /\ \A v \in Uids : bucket'[v].inflight = bucket[v].inflight
      BY <1>5, <1>t DEF Refill, Buckets
    <2> QED BY <2>1 DEF Promised!vars
  <1>6. CASE Tick
    <2>1. bucket' = bucket
      BY <1>6 DEF Tick
    <2>2. ASSUME NEW r \in Requests
          PROVE  /\ req'[r].at = req[r].at /\ req'[r].rows = req[r].rows
                 /\ req'[r].cause = req[r].cause /\ Same(req[r], req'[r])
      BY <1>6, <1>t DEF Tick, States, Same
    <2>3. /\ \A r \in Requests : Stage(req'[r]) = Stage(req[r])
          /\ \A r \in Requests : req'[r].rows = req[r].rows
          /\ \A r \in Requests, u \in Uids : Holds(req'[r], u) = Holds(req[r], u)
      BY <2>2 DEF Stage, Same, Holds
    <2> QED BY <2>1, <2>3 DEF Promised!vars
  <1> QED BY <1>1, <1>2, <1>3, <1>4, <1>5, <1>6 DEF Next

LEMMA RestartPasses ==
  ASSUME Restart
  PROVE  Promised!Next
  <1>1. req' = [r \in Requests |-> Over] /\ bucket' = [u \in Uids |-> NoBucket]
    BY DEF Restart
  <1>2. Stage(Over) = "out" /\ Over.rows = 0 /\ NoBucket.inflight = 0
        /\ \A u \in Uids : Holds(Over, u) = 0
    BY DEF Stage, Over, NoBucket, Holds
  <1> HIDE DEF Over
  <1>3. Promised!Restart
    BY <1>1, <1>2 DEF Promised!Restart, Promised!None
  <1> QED BY <1>3 DEF Promised!Next

\* Whatever requests, closers, clock, commands, damage and restarts do in any
\* order, the gate is a turnstile: no enrollment is over its limit, units are
\* given back once and before the row is written, and what was forwarded is
\* over only with its row (gate, _release, body_iter, _sweep, _audit_reply)
THEOREM GateKeepsPromise == Spec => ImplementsTurnstile
  <1>1. ASSUME Init PROVE Promised!Init
    <2>1. req = [r \in Requests |-> Over] /\ bucket = [u \in Uids |-> NoBucket]
      BY <1>1 DEF Init
    <2>2. Stage(Over) = "out" /\ Over.rows = 0 /\ NoBucket.inflight = 0
          /\ \A u \in Uids : Holds(Over, u) = 0
      BY DEF Stage, Over, NoBucket, Holds
    <2> HIDE DEF Over
    <2> QED BY <2>1, <2>2 DEF Promised!Init, Promised!None
  <1>2. ASSUME IInv, IInv', [Next]_vars PROVE [Promised!Next]_Promised!vars
    <2>1. CASE Restart
      BY <2>1, RestartPasses
    <2>2. ASSUME NEW r \in Requests, PassesOn(r) PROVE [Promised!Next]_Promised!vars
      BY <1>2, <2>2, PassStep
    <2> QED BY <1>2, <2>1, <2>2, BesidePasses
  <1> QED BY <1>1, <1>2, SpecInv, PTL DEF Spec, ImplementsTurnstile, Promised!Spec

\* Requests of one enrollment never hold more units than EDGE_MAX_INFLIGHT,
\* counted at the requests and not in the bucket (reserve, reserve_more)
THEOREM NeverOverLimit == Spec => [](\A u \in Uids : Cardinality(Units(u)) <= MaxInflight)
  <1>1. IInv => \A u \in Uids : Cardinality(Units(u)) <= MaxInflight
    <2> SUFFICES ASSUME IInv, NEW u \in Uids PROVE Cardinality(Units(u)) <= MaxInflight
      OBVIOUS
    <2>1. bucket[u] \in Buckets /\ bucket[u].inflight = Cardinality(Units(u))
      BY DEF IInv, EdgeTypeOK, SlotsExact
    <2> QED BY <2>1, BucketType
  <1> QED BY <1>1, SpecInv, PTL

=============================================================================
