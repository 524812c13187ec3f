------------------------ MODULE SessionLedger_proofs ------------------------
(***************************************************************************)
(* Theorems about one session of the ledger, for any number of readers,    *)
(* runs and ops: its types, that a verdict stands, that lost is said of    *)
(* the dead only and that an op is given to the model once per process;    *)
(* and, where a reader judges the record as it is (Calm) or nobody resumed *)
(* the session, that an op is given once, that a reaped child has a        *)
(* verdict and that what a stop signalled is filed.  Under Calm the ledger *)
(* implements Session.                                                     *)
(***************************************************************************)
EXTENDS SessionLedger, TLAPS

\* One run after the other
Ordered == \A i, j \in Runs : j < i /\ proc[i] # "none" => proc[j] \in Dead

\* A run that has not registered yet
Fresh(i) == \/ proc[i] = "none"
            \/ proc[i] = "up" /\ pc[i] \in {"get", "register"}

\* A record was written by a run older than those still to register
Older(r) == \A i \in Runs : Fresh(i) => r.owner < i

\* A run reads the ledger before it registers, and then never again
Reading == \A i \in Runs : look[i].at # "idle" => proc[i] = "up" /\ pc[i] = "get"

Judged == \A l \in Lookers : look[l].at = "persist" => look[l].copy.state = "running"

\* What the reaper knows
Reaped ==
    /\ reaper \notin {"off", "wait"} => proc[1] = "gone"
    /\ proc[1] \in Dead => status \in Verdicts
    /\ reaper = "file" => rec = NoRecord
    /\ rec = NoRecord => \A i \in Runs : i > 1 => proc[i] = "none"

\* The inductive invariant
IInv == /\ LedgerTypeOK /\ Ordered /\ Reading /\ Judged /\ Reaped
        /\ Older(rec)
        /\ \A l \in Lookers : Older(look[l].copy)

-----------------------------------------------------------------------------
LEMMA OneIsARun == 1 \in Runs /\ \A i \in Runs : i \in Nat /\ i >= 1
  BY LedgerAssumption DEF Runs

LEMMA InitInv == Init => IInv
  <1> SUFFICES ASSUME Init PROVE IInv
    OBVIOUS
  <1> USE DEF Init
  <1>1. LedgerTypeOK
    BY LedgerAssumption DEF LedgerTypeOK, Away, NoRecord, Calmed, Stopper, Record
  <1>2. Ordered /\ Reading /\ Judged /\ Reaped
    BY OneIsARun DEF Ordered, Reading, Judged, Reaped, Away, Dead, Lookers
  <1>3. Older(rec) /\ \A l \in Lookers : Older(look[l].copy)
    BY OneIsARun DEF Older, Away, NoRecord
  <1> QED BY <1>1, <1>2, <1>3 DEF IInv

-----------------------------------------------------------------------------
(* Types *)

LEMMA FinalizedType ==
  ASSUME LedgerTypeOK, NEW v \in Verdicts, NEW o \in BOOLEAN
  PROVE  /\ Finalized(v, o) \in Record \cup {NoRecord}
         /\ Finalized(v, o) = rec \/ Finalized(v, o).state \in Verdicts
         /\ Finalized(v, o).owner = rec.owner
         /\ Finalized(v, o) = NoRecord <=> rec = NoRecord
  <1>1. CASE rec = NoRecord
    BY <1>1 DEF Finalized, NoRecord
  <1>2. CASE rec \in Record
    <2>1. [rec EXCEPT !.state = v] \in Record /\ v \in Verdicts
      BY <1>2 DEF Record
    <2>2. rec # NoRecord /\ Finalized(v, o) # NoRecord
      BY <1>2 DEF Record, NoRecord, Finalized, Verdicts
    <2> QED BY <1>2, <2>1, <2>2 DEF Finalized, Record
  <1> QED BY <1>1, <1>2 DEF LedgerTypeOK

\* What a reader's state may be
Looks == [at : {"idle", "judge", "persist", "answer"}, copy : Record \cup {NoRecord}]

LEMMA LookTypes ==
  /\ Away \in Looks /\ [Away EXCEPT !.at = "answer"] \in Looks
  /\ \A r \in Record \cup {NoRecord} : /\ [at |-> "judge", copy |-> r] \in Looks
                                       /\ [at |-> "persist", copy |-> r] \in Looks
  BY DEF Looks, Away

LEMMA StopperTypes ==
  /\ Calmed \in Stopper
  /\ \A s \in Stopper :
       /\ \A p \in {"watch", "signal", "finalize"} : [s EXCEPT !.at = p] \in Stopper
       /\ [s EXCEPT !.at = "watch", !.kill = TRUE] \in Stopper
       /\ \A b \in BOOLEAN : [s EXCEPT !.at = "watch", !.term = b] \in Stopper
  BY DEF Stopper, Calmed

LEMMA LostType ==
  ASSUME NEW r \in Record \cup {NoRecord}, r.state = "running"
  PROVE  /\ Lost(r) \in Record /\ Lost(r).state = "lost"
         /\ Lost(r).owner = r.owner /\ Lost(r) # NoRecord
  BY DEF Lost, Record, NoRecord, Verdicts

LEMMA ReturnType ==
  ASSUME LedgerTypeOK, NEW l \in Lookers, NEW r \in Record \cup {NoRecord},
         Return(l, r), rec' \in Record \cup {NoRecord}
  PROVE  LedgerTypeOK'
  <1>1. r.cursor \in 0 .. MaxOps
    <2>1. CASE r \in Record
      BY <2>1 DEF Record
    <2>2. CASE r = NoRecord
      <3>1. r.cursor = 0 /\ 0 \in 0 .. MaxOps
        BY <2>2, LedgerAssumption DEF NoRecord
      <3> QED BY <3>1
    <2> QED BY <2>1, <2>2
  <1> USE DEF LedgerTypeOK, Return, procVars
  <1>2. look' \in [Lookers -> Looks]
    BY LookTypes DEF Looks
  <1>3. cursor' \in [Runs -> 0 .. MaxOps]
    BY <1>1
  <1> QED BY <1>2, <1>3 DEF Looks

LEMMA GoesType ==
  ASSUME LedgerTypeOK, NEW i \in Runs, NEW p, NEW q, Goes(i, p, q),
         q \in {"get", "register", "turn", "save", "apply", "work", "exit 0",
                "exit 1"} \cup Verdicts,
         rec' \in Record \cup {NoRecord}, cursor' \in [Runs -> 0 .. MaxOps],
         from' \in [Runs -> 0 .. MaxOps], applied' \in [1 .. MaxOps -> Nat]
  PROVE  LedgerTypeOK'
  BY DEF LedgerTypeOK, Goes, procVars

LEMMA TypeStep == IInv /\ [Next]_vars => LedgerTypeOK'
  <1> SUFFICES ASSUME IInv, [Next]_vars PROVE LedgerTypeOK'
    OBVIOUS
  <1>t. LedgerTypeOK /\ Judged /\ Reaped
    BY DEF IInv
  <1>u. look \in [Lookers -> Looks]
    BY <1>t DEF LedgerTypeOK, Looks
  <1> USE LedgerAssumption
  <1>1. ASSUME NEW l \in Lookers, Look(l) PROVE LedgerTypeOK'
    BY <1>t, <1>1 DEF Look, LedgerTypeOK, runVars, procVars, loopVars
  <1>2. ASSUME NEW l \in Lookers, Judge(l) PROVE LedgerTypeOK'
    <2>1. look[l].copy \in Record \cup {NoRecord} /\ rec \in Record \cup {NoRecord}
      BY <1>t DEF LedgerTypeOK
    <2> DEFINE copy == IF Calm THEN rec ELSE look[l].copy
    <2>2. copy \in Record \cup {NoRecord}
      BY <2>1
    <2>3. CASE Stale(copy)
      <3>1. look' \in [Lookers -> Looks]
        <4>1. look' = [look EXCEPT ![l] = [at |-> "persist", copy |-> copy]]
          BY <1>2, <2>3 DEF Judge
        <4> QED BY <1>u, <2>2, <4>1, LookTypes
      <3> QED BY <1>t, <1>2, <2>3, <3>1
              DEF Judge, LedgerTypeOK, Looks, runVars, procVars, loopVars
    <2>4. CASE ~Stale(copy)
      <3>1. Return(l, copy) /\ rec' = rec
        BY <1>2, <2>4 DEF Judge
      <3> QED BY <1>t, <2>1, <2>2, <3>1, ReturnType
    <2> QED BY <2>3, <2>4
  <1>3. ASSUME NEW l \in Lookers, Persist(l) PROVE LedgerTypeOK'
    <2>1. look[l].copy \in Record \cup {NoRecord} /\ look[l].copy.state = "running"
      BY <1>t, <1>3 DEF LedgerTypeOK, Judged, Persist
    <2>2. rec' \in Record \cup {NoRecord}
      BY <1>t, <1>3, <2>1, LostType DEF Persist, LedgerTypeOK
    <2> QED BY <1>t, <1>3, <2>2, ReturnType DEF Persist
  <1>4. ASSUME NEW l \in Readers, Send(l) \/ Stop(l) \/ Show(l) PROVE LedgerTypeOK'
    <2>1. look' \in [Lookers -> Looks]
      BY <1>u, <1>4, LookTypes DEF Send, Stop, Show, Answer
    <2>2. inbox' \in Seq({"say", "stop"}) /\ Len(inbox') <= MaxOps
      <3>1. inbox' = inbox \/ \E op \in {"say", "stop"} :
                                Len(inbox) < MaxOps /\ inbox' = Append(inbox, op)
        BY <1>4 DEF Send, Stop, Show
      <3>2. inbox \in Seq({"say", "stop"}) /\ Len(inbox) <= MaxOps
        BY <1>t DEF LedgerTypeOK
      <3>3. ASSUME NEW op \in {"say", "stop"}, Len(inbox) < MaxOps
            PROVE  /\ Append(inbox, op) \in Seq({"say", "stop"})
                   /\ Len(Append(inbox, op)) <= MaxOps
        <4>1. Len(inbox) \in Nat /\ Len(Append(inbox, op)) = Len(inbox) + 1
          BY <3>2
        <4> QED BY <3>2, <3>3, <4>1
      <3> QED BY <3>1, <3>2, <3>3
    <2>3. stopper' \in Stopper
      BY <1>t, <1>4, StopperTypes DEF Send, Stop, Show, LedgerTypeOK
    <2> QED BY <1>t, <1>4, <2>1, <2>2, <2>3
            DEF Looks, Send, Stop, Show, LedgerTypeOK, runVars, procVars, loopVars
  <1>5. CASE Spawn \/ ConsoleDies
    <2>1. proc' \in [Runs -> {"none", "up", "zombie", "gone"}]
      BY <1>t, <1>5, OneIsARun DEF Spawn, ConsoleDies, LedgerTypeOK
    <2> QED BY <1>t, <1>5, <2>1, StopperTypes
            DEF Spawn, ConsoleDies, LedgerTypeOK, loopVars
  <1>6. ASSUME NEW i \in Runs, Resume(i) PROVE LedgerTypeOK'
    BY <1>t, <1>6 DEF Resume, LedgerTypeOK, loopVars
  <1>7. ASSUME NEW i \in Runs, Register(i) PROVE LedgerTypeOK'
    <2>1. rec' \in Record
      BY <1>t, <1>7 DEF Register, Registered, Record, LedgerTypeOK
    <2> QED BY <1>t, <1>7, <2>1, GoesType DEF Register, LedgerTypeOK
  <1>8. ASSUME NEW i \in Runs, Read(i) PROVE LedgerTypeOK'
    <2>1. cursor' \in [Runs -> 0 .. MaxOps] /\ from' \in [Runs -> 0 .. MaxOps]
      <3>1. Least(cursor[i] + MaxBatch, Len(inbox)) \in 0 .. MaxOps
        <4>1. cursor[i] \in 0 .. MaxOps /\ Len(inbox) <= MaxOps
          BY <1>t DEF LedgerTypeOK
        <4>2. Len(inbox) \in Nat
          <5>1. inbox \in Seq({"say", "stop"})
            BY <1>t DEF LedgerTypeOK
          <5> QED BY <5>1
        <4> QED BY <4>1, <4>2 DEF Least
      <3> QED BY <1>t, <1>8, <3>1 DEF Read, LedgerTypeOK
    <2> QED BY <1>t, <1>8, <2>1, GoesType DEF Read, LedgerTypeOK
  <1>9. ASSUME NEW i \in Runs, Save(i) PROVE LedgerTypeOK'
    <2>1. rec' \in Record \cup {NoRecord}
      BY <1>t, <1>9 DEF Save, Record, LedgerTypeOK
    <2> QED BY <1>t, <1>9, <2>1, GoesType DEF Save, LedgerTypeOK
  <1>10. ASSUME NEW i \in Runs, Apply(i) PROVE LedgerTypeOK'
    <2>1. applied' \in [1 .. MaxOps -> Nat]
      <3>1. \A k \in 1 .. MaxOps :
              applied[k] + (IF k \in InHand(i) THEN 1 ELSE 0) \in Nat
        <4>1. \A k \in 1 .. MaxOps : applied[k] \in Nat
          BY <1>t DEF LedgerTypeOK
        <4> QED BY <4>1
      <3>2. DOMAIN applied = 1 .. MaxOps
        BY <1>t DEF LedgerTypeOK
      <3> QED BY <1>10, <3>1, <3>2 DEF Apply
    <2>2. Goes(i, "apply", "stopped") \/ Goes(i, "apply", "work")
      BY <1>10 DEF Apply
    <2> QED BY <1>t, <1>10, <2>1, <2>2, GoesType DEF Apply, LedgerTypeOK, Verdicts
  <1>11. ASSUME NEW i \in Runs, Work(i) \/ Crash(i) PROVE LedgerTypeOK'
    BY <1>t, <1>11, GoesType DEF Work, Crash, LedgerTypeOK, Verdicts
  <1>12. ASSUME NEW i \in Runs, Conclude(i) PROVE LedgerTypeOK'
    <2>1. PICK v \in Verdicts :
            /\ Goes(i, v, IF v = "failed" THEN "exit 1" ELSE "exit 0")
            /\ rec' = Finalized(v, FALSE)
      BY <1>12 DEF Conclude
    <2>2. rec' \in Record \cup {NoRecord}
      BY <1>t, <2>1, FinalizedType
    <2> QED BY <1>t, <1>12, <2>1, <2>2, GoesType DEF Conclude, LedgerTypeOK
  <1>13. ASSUME NEW i \in Runs, Exit(i) \/ Killed(i) PROVE LedgerTypeOK'
    <2>1. PICK s \in Verdicts : Dies(i, s)
      BY <1>13 DEF Exit, Killed, Verdicts
    <2>2. look' \in [Lookers -> Looks]
      BY <1>u, <2>1, LookTypes DEF Dies
    <2>3. proc' \in [Runs -> {"none", "up", "zombie", "gone"}]
      BY <1>t, <2>1 DEF Dies, LedgerTypeOK
    <2>4. cursor' \in [Runs -> 0 .. MaxOps] /\ from' \in [Runs -> 0 .. MaxOps]
      <3>1. 0 \in 0 .. MaxOps
        OBVIOUS
      <3> QED BY <1>t, <2>1, <3>1 DEF Dies, LedgerTypeOK
    <2> QED BY <1>t, <2>1, <2>2, <2>3, <2>4 DEF Dies, LedgerTypeOK, Looks
  <1>14. CASE Reaper
    <2>2. rec' \in Record \cup {NoRecord}
      <3>1. CASE Reap \/ ReapRead
        BY <1>t, <3>1 DEF Reap, ReapRead, LedgerTypeOK
      <3>2. CASE ReapSettle \/ ReapFail
        <4>1. status \in Verdicts /\ "failed" \in Verdicts
          BY <1>t, <3>2 DEF ReapSettle, ReapFail, Reaping, Reaped, Dead, Verdicts
        <4> QED BY <1>t, <3>2, <4>1, FinalizedType DEF ReapSettle, ReapFail
      <3>3. CASE ReapFile
        BY <1>t, <3>3, OneIsARun DEF ReapFile, Registered, Record
      <3> QED BY <1>14, <3>1, <3>2, <3>3 DEF Reaper
    <2>3. proc' \in [Runs -> {"none", "up", "zombie", "gone"}]
      BY <1>t, <1>14, OneIsARun
      DEF Reaper, Reap, ReapRead, ReapSettle, ReapFile, ReapFail, LedgerTypeOK
    <2> QED BY <1>t, <1>14, <2>2, <2>3
            DEF Reaper, Reap, ReapRead, ReapSettle, ReapFile, ReapFail, Reaping,
                LedgerTypeOK, loopVars
  <1>15. CASE Escalation
    <2>1. rec' \in Record \cup {NoRecord}
      BY <1>t, <1>15, FinalizedType
      DEF Escalation, Watch, NotYet, Term, Kill, GiveUp, FinalizeStopped,
          LedgerTypeOK, Verdicts
    <2>2. stopper' \in Stopper
      <3>1. Signallable \in BOOLEAN /\ stopper \in Stopper
        BY <1>t DEF Signallable, LedgerTypeOK
      <3> QED BY <1>15, <3>1, StopperTypes
              DEF Escalation, Watch, NotYet, Term, Kill, GiveUp, FinalizeStopped
    <2>3. struck' \subseteq Runs
      BY <1>t, <1>15
      DEF Escalation, Watch, NotYet, Term, Kill, GiveUp, FinalizeStopped,
          LedgerTypeOK, Struck, Signallable
    <2> QED BY <1>t, <1>15, <2>1, <2>2, <2>3
            DEF Escalation, Watch, NotYet, Term, Kill, GiveUp, FinalizeStopped,
                Stopping, LedgerTypeOK, loopVars
  <1>16. CASE UNCHANGED vars
    BY <1>t, <1>16 DEF vars, runVars, procVars, loopVars, LedgerTypeOK
  <1> QED
    BY <1>1, <1>2, <1>3, <1>4, <1>5, <1>6, <1>7, <1>8, <1>9, <1>10, <1>11, <1>12,
       <1>13, <1>14, <1>15, <1>16
    DEF Next, Runner

-----------------------------------------------------------------------------
(* Processes *)

\* A process is born once, after all before it are dead, and dies once
LEMMA ProcStep ==
  ASSUME IInv, [Next]_vars, NEW i \in Runs
  PROVE  /\ proc'[i] = "none" => proc[i] = "none"
         /\ proc[i] \in Dead => proc'[i] \in Dead
         /\ proc[i] = "gone" => proc'[i] = "gone"
         /\ proc'[i] = "up" => proc[i] \in {"none", "up"}
         /\ proc[i] = "none" /\ proc'[i] # "none"
            => /\ proc'[i] = "up" /\ (i = 1 \/ rec # NoRecord)
               /\ \A j \in Runs : j < i => proc[j] \in Dead
         /\ proc[i] = "up" /\ proc'[i] # "up" => look'[i] = Away
  <1> DEFINE Goal == /\ proc'[i] = "none" => proc[i] = "none"
                     /\ proc[i] \in Dead => proc'[i] \in Dead
                     /\ proc[i] = "gone" => proc'[i] = "gone"
                     /\ proc'[i] = "up" => proc[i] \in {"none", "up"}
                     /\ proc[i] = "none" /\ proc'[i] # "none"
                        => /\ proc'[i] = "up" /\ (i = 1 \/ rec # NoRecord)
                           /\ \A j \in Runs : j < i => proc[j] \in Dead
                     /\ proc[i] = "up" /\ proc'[i] # "up" => look'[i] = Away
  <1>t. proc \in [Runs -> {"none", "up", "zombie", "gone"}]
    BY DEF IInv, LedgerTypeOK
  <1>1. CASE proc' = proc
    BY <1>1, <1>t DEF Dead
  <1>2. CASE Spawn
    BY <1>2, <1>t, OneIsARun DEF Spawn, Dead
  <1>3. CASE ConsoleDies \/ Reap
    BY <1>3, <1>t, OneIsARun DEF ConsoleDies, Reap, Dead
  <1>4. ASSUME NEW k \in Runs, Resume(k) PROVE Goal
    <2>1. k > 1 /\ k - 1 \in Runs /\ proc[k - 1] \in Dead
      BY <1>4, LedgerAssumption DEF Resume, Runs, Dead
    <2>2. \A j \in Runs : j < k - 1 => proc[j] \in Dead
      BY <2>1 DEF IInv, Ordered, Dead
    <2>3. \A j \in Runs : j < k => proc[j] \in Dead
      BY <2>1, <2>2, OneIsARun
    <2> QED BY <1>4, <1>t, <2>3 DEF Resume, Dead
  <1>5. ASSUME NEW k \in Runs, NEW s, Dies(k, s) PROVE Goal
    <2>1. look \in [Lookers -> Looks] /\ i \in Lookers
      BY DEF IInv, LedgerTypeOK, Looks, Lookers
    <2> QED BY <1>5, <1>t, <2>1 DEF Dies, Dead
  <1>6. proc' = proc \/ Spawn \/ ConsoleDies \/ Reap
        \/ \E k \in Runs : Resume(k) \/ \E s \in Verdicts : Dies(k, s)
    <2>1. ASSUME NEW l \in Lookers, Look(l) \/ Judge(l) \/ Persist(l) PROVE proc' = proc
      BY <2>1 DEF Look, Judge, Persist, Return, runVars, procVars
    <2>2. ASSUME NEW l \in Readers, Send(l) \/ Stop(l) \/ Show(l) PROVE proc' = proc
      BY <2>2 DEF Send, Stop, Show, runVars, procVars
    <2>3. ASSUME NEW k \in Runs, Runner(k)
          PROVE  proc' = proc \/ Resume(k) \/ \E s \in Verdicts : Dies(k, s)
      BY <2>3 DEF Runner, Register, Read, Save, Apply, Work, Crash, Conclude, Exit,
                  Killed, Goes, procVars, Verdicts
    <2>4. Reaper => proc' = proc \/ Reap
      BY DEF Reaper, ReapRead, ReapSettle, ReapFile, ReapFail
    <2>5. Escalation => proc' = proc
      BY DEF Escalation, Watch, NotYet, Term, Kill, GiveUp, FinalizeStopped, Stopping
    <2>6. UNCHANGED vars => proc' = proc
      BY DEF vars, runVars, procVars
    <2> QED BY <2>1, <2>2, <2>3, <2>4, <2>5, <2>6 DEF Next
  <1> QED BY <1>1, <1>2, <1>3, <1>4, <1>5, <1>6

LEMMA OrderedStep == IInv /\ [Next]_vars => Ordered'
  <1> SUFFICES ASSUME IInv, [Next]_vars, NEW i \in Runs, NEW j \in Runs,
                      j < i, proc'[i] # "none"
               PROVE  proc'[j] \in Dead
    BY DEF Ordered
  <1>1. proc[j] \in Dead
    BY ProcStep DEF IInv, Ordered
  <1> QED BY <1>1, ProcStep

\* Two runs are never up at once
LEMMA OneUp ==
  ASSUME IInv, NEW i \in Runs, NEW j \in Runs, proc[i] = "up", proc[j] = "up"
  PROVE  i = j
  BY OneIsARun DEF IInv, Ordered, Dead

-----------------------------------------------------------------------------
(* Where a run is *)

\* What a step does to the place and the read of a run
LEMMA PlaceStep ==
  ASSUME IInv, [Next]_vars, NEW i \in Runs
  PROVE  \/ pc'[i] = pc[i] /\ look'[i] = look[i]
         \/ /\ proc[i] = "up" /\ pc[i] = "get" /\ UNCHANGED proc
            /\ \/ look'[i] = Away /\ pc'[i] = "register"
               \/ pc'[i] = "get"
         \/ look'[i] = Away /\ pc'[i] = pc[i]
         \/ /\ pc[i] # "get" /\ look'[i] = look[i]
            /\ pc'[i] \notin {"get", "register"}
            /\ pc[i] = "register" => Register(i)
  <1> DEFINE Goal ==
         \/ pc'[i] = pc[i] /\ look'[i] = look[i]
         \/ /\ proc[i] = "up" /\ pc[i] = "get" /\ UNCHANGED proc
            /\ \/ look'[i] = Away /\ pc'[i] = "register"
               \/ pc'[i] = "get"
         \/ look'[i] = Away /\ pc'[i] = pc[i]
         \/ /\ pc[i] # "get" /\ look'[i] = look[i]
            /\ pc'[i] \notin {"get", "register"}
            /\ pc[i] = "register" => Register(i)
  <1>t. /\ pc \in [Runs -> {"get", "register", "turn", "save", "apply", "work",
                            "exit 0", "exit 1"} \cup Verdicts]
        /\ look \in [Lookers -> Looks] /\ i \in Lookers
    BY DEF IInv, LedgerTypeOK, Looks, Lookers
  <1>r. \A k \in Runs : look[k].at # "idle" => proc[k] = "up" /\ pc[k] = "get"
    BY DEF IInv, Reading
  <1>d. Readers \cap Runs = {}
    BY LedgerAssumption
  <1>1. ASSUME NEW l \in Lookers, Look(l) PROVE Goal
    BY <1>1, <1>t DEF Look, runVars, procVars, loopVars
  <1>2. ASSUME NEW l \in Lookers, NEW r, look[l].at # "idle", Return(l, r) PROVE Goal
    <2>1. CASE l = i
      BY <1>2, <1>t, <1>r, <1>d, <2>1 DEF Return, procVars
    <2>2. CASE l # i
      BY <1>2, <1>t, <2>2 DEF Return
    <2> QED BY <2>1, <2>2
  <1>3. ASSUME NEW l \in Lookers, Judge(l) PROVE Goal
    <2>1. \/ \E r : Return(l, r)
          \/ /\ \E x : look' = [look EXCEPT ![l] = x]
             /\ UNCHANGED <<pc, proc>>
      BY <1>3 DEF Judge, runVars, procVars, loopVars
    <2>2. look[l].at # "idle"
      BY <1>3 DEF Judge
    <2>3. CASE \E r : Return(l, r)
      BY <1>2, <2>2, <2>3
    <2>4. CASE (\E x : look' = [look EXCEPT ![l] = x]) /\ UNCHANGED <<pc, proc>>
      BY <1>t, <1>r, <2>2, <2>4
    <2> QED BY <2>1, <2>3, <2>4
  <1>4. ASSUME NEW l \in Lookers, Persist(l) PROVE Goal
    BY <1>2, <1>4 DEF Persist
  <1>5. ASSUME NEW l \in Readers, Send(l) \/ Stop(l) \/ Show(l) PROVE Goal
    <2>1. l \in Lookers /\ l # i
      BY <1>d DEF Lookers
    <2> QED BY <1>5, <1>t, <2>1
            DEF Send, Stop, Show, Answer, runVars, loopVars
  <1>6. ASSUME NEW k \in Runs, NEW p, NEW q, Goes(k, p, q), p # "get",
               q \notin {"get", "register"}, p = "register" => Register(k)
        PROVE  Goal
    <2>1. pc[k] = p /\ pc' = [pc EXCEPT ![k] = q] /\ look' = look
      BY <1>6 DEF Goes
    <2> QED BY <1>6, <1>t, <2>1
  <1>7. ASSUME NEW k \in Runs, Runner(k) PROVE Goal
    <2>1. CASE Resume(k)
      BY <2>1 DEF Resume, loopVars
    <2>2. CASE Register(k)
      <3>1. Goes(k, "register", "turn")
        BY <2>2 DEF Register
      <3> QED BY <1>6, <2>2, <3>1
    <2>6. CASE Read(k) \/ Save(k) \/ Apply(k) \/ Work(k)
      BY <1>6, <2>6 DEF Read, Save, Apply, Work
    <2>3. CASE Crash(k)
      BY <1>6, <2>3 DEF Crash
    <2>4. CASE Conclude(k)
      BY <1>6, <2>4 DEF Conclude, Verdicts
    <2>5. CASE Exit(k) \/ Killed(k)
      <3>1. pc' = pc /\ look' = [look EXCEPT ![k] = Away]
        BY <2>5 DEF Exit, Killed, Dies
      <3> QED BY <1>t, <3>1
    <2> QED BY <1>7, <2>1, <2>2, <2>3, <2>4, <2>5, <2>6 DEF Runner
  <1>8. CASE Spawn \/ ConsoleDies \/ Reaper \/ Escalation
    BY <1>8 DEF Spawn, ConsoleDies, Reaper, Reap, ReapRead, ReapSettle, ReapFile,
                ReapFail, Reaping, Escalation, Watch, NotYet, Term, Kill, GiveUp,
                FinalizeStopped, Stopping, loopVars
  <1>9. CASE UNCHANGED vars
    BY <1>9 DEF vars, runVars, loopVars
  <1> QED BY <1>1, <1>3, <1>4, <1>5, <1>7, <1>8, <1>9 DEF Next

\* A run that has registered is never fresh again
LEMMA FreshStep ==
  ASSUME IInv, [Next]_vars, NEW i \in Runs, Fresh(i)'
  PROVE  Fresh(i)
  <1>1. CASE proc'[i] = "none"
    BY <1>1, ProcStep DEF Fresh
  <1>2. CASE proc'[i] = "up" /\ pc'[i] \in {"get", "register"}
    <2>1. proc[i] \in {"none", "up"}
      BY <1>2, ProcStep
    <2>2. pc[i] \in {"get", "register"}
      BY <1>2, PlaceStep
    <2> QED BY <2>1, <2>2 DEF Fresh
  <1> QED BY <1>1, <1>2 DEF Fresh

-----------------------------------------------------------------------------
(* Copies and owners *)

\* Where a reader's copy comes from, and what makes it write
LEMMA CopyStep ==
  ASSUME IInv, [Next]_vars, NEW m \in Lookers
  PROVE  \/ look'[m] = look[m]
         \/ look'[m].copy = NoRecord /\ look'[m].at # "persist"
         \/ look'[m].copy = rec /\ look'[m].at # "persist"
         \/ /\ look'[m].copy = (IF Calm THEN rec ELSE look[m].copy)
            /\ Stale(look'[m].copy) /\ UNCHANGED <<rec, proc, pc>>
  <1> DEFINE Goal ==
         \/ look'[m] = look[m]
         \/ look'[m].copy = NoRecord /\ look'[m].at # "persist"
         \/ look'[m].copy = rec /\ look'[m].at # "persist"
         \/ /\ look'[m].copy = (IF Calm THEN rec ELSE look[m].copy)
            /\ Stale(look'[m].copy) /\ UNCHANGED <<rec, proc, pc>>
  <1>t. look \in [Lookers -> Looks]
    BY DEF IInv, LedgerTypeOK, Looks
  <1>a. /\ Away.copy = NoRecord /\ Away.at = "idle"
        /\ [Away EXCEPT !.at = "answer"].copy = NoRecord
        /\ [Away EXCEPT !.at = "answer"].at = "answer"
    BY DEF Away
  <1>1. ASSUME NEW l \in Lookers, Look(l) PROVE Goal
    BY <1>1, <1>t DEF Look
  <1>2. ASSUME NEW l \in Lookers, NEW r, Return(l, r) PROVE Goal
    BY <1>2, <1>t, <1>a DEF Return
  <1>3. ASSUME NEW l \in Lookers, Judge(l) PROVE Goal
    <2> DEFINE copy == IF Calm THEN rec ELSE look[l].copy
    <2>1. CASE Stale(copy)
      <3>1. /\ look' = [look EXCEPT ![l] = [at |-> "persist", copy |-> copy]]
            /\ UNCHANGED <<rec, proc, pc>>
        BY <1>3, <2>1 DEF Judge, runVars, procVars, loopVars
      <3> QED BY <1>t, <2>1, <3>1
    <2>2. CASE ~Stale(copy)
      BY <1>2, <1>3, <2>2 DEF Judge
    <2> QED BY <2>1, <2>2
  <1>4. ASSUME NEW l \in Lookers, Persist(l) PROVE Goal
    BY <1>2, <1>4 DEF Persist
  <1>5. ASSUME NEW l \in Readers, Send(l) \/ Stop(l) \/ Show(l) PROVE Goal
    BY <1>5, <1>t, <1>a DEF Send, Stop, Show, Answer
  <1>6. ASSUME NEW k \in Runs, Runner(k) PROVE Goal
    <2>1. CASE Exit(k) \/ Killed(k)
      BY <1>t, <1>a, <2>1 DEF Exit, Killed, Dies
    <2>2. CASE ~(Exit(k) \/ Killed(k))
      BY <1>6, <2>2 DEF Runner, Resume, Register, Read, Save, Apply, Work, Crash,
                        Conclude, Goes
    <2> QED BY <2>1, <2>2
  <1>7. CASE Spawn \/ ConsoleDies \/ Reaper \/ Escalation
    BY <1>7 DEF Spawn, ConsoleDies, Reaper, Reap, ReapRead, ReapSettle, ReapFile,
                ReapFail, Reaping, Escalation, Watch, NotYet, Term, Kill, GiveUp,
                FinalizeStopped, Stopping
  <1>8. CASE UNCHANGED vars
    BY <1>8 DEF vars
  <1> QED BY <1>1, <1>3, <1>4, <1>5, <1>6, <1>7, <1>8 DEF Next

\* What may become of the record
LEMMA RecordStep ==
  ASSUME IInv, [Next]_vars
  PROVE  \/ rec' = rec
         \/ /\ rec # NoRecord /\ \E k \in Runs : Save(k)
            /\ \E c \in 0 .. MaxOps : rec' = [rec EXCEPT !.cursor = c]
         \/ \E v \in Verdicts, o \in BOOLEAN : rec' = Finalized(v, o)
         \/ /\ rec.state = "running"
            /\ \E l \in Lookers : Persist(l) /\ rec' = Lost(look[l].copy)
         \/ \E i \in Runs : Register(i)
         \/ ReapFile
  <1> DEFINE Goal ==
         \/ rec' = rec
         \/ /\ rec # NoRecord /\ \E k \in Runs : Save(k)
            /\ \E c \in 0 .. MaxOps : rec' = [rec EXCEPT !.cursor = c]
         \/ \E v \in Verdicts, o \in BOOLEAN : rec' = Finalized(v, o)
         \/ /\ rec.state = "running"
            /\ \E l \in Lookers : Persist(l) /\ rec' = Lost(look[l].copy)
         \/ \E i \in Runs : Register(i)
         \/ ReapFile
  <1>1. ASSUME NEW l \in Lookers, Look(l) \/ Judge(l) \/ Persist(l) PROVE Goal
    BY <1>1 DEF Look, Judge, Persist
  <1>2. ASSUME NEW l \in Readers, Send(l) \/ Stop(l) \/ Show(l) PROVE rec' = rec
    BY <1>2 DEF Send, Stop, Show
  <1>3. ASSUME NEW k \in Runs, Runner(k) PROVE Goal
    <2>1. CASE Save(k)
      <3>1. cursor[k] \in 0 .. MaxOps
        BY DEF IInv, LedgerTypeOK
      <3> QED BY <2>1, <3>1 DEF Save
    <2>2. CASE Conclude(k)
      BY <2>2 DEF Conclude
    <2>3. CASE ~(Save(k) \/ Conclude(k))
      BY <1>3, <2>3 DEF Runner, Resume, Read, Apply, Work, Crash, Exit, Killed, Dies
    <2> QED BY <2>1, <2>2, <2>3
  <1>4. CASE Spawn \/ ConsoleDies
    BY <1>4 DEF Spawn, ConsoleDies
  <1>5. CASE Reaper
    <2>1. reaper \in {"settle", "fail"} => status \in Verdicts
      BY DEF IInv, Reaped, Dead
    <2>2. CASE ReapSettle
      BY <2>1, <2>2 DEF ReapSettle, Reaping
    <2>3. CASE ReapFail
      <3>1. (IF status = "done" THEN "failed" ELSE status) \in Verdicts
        BY <2>1, <2>3 DEF ReapFail, Reaping, Verdicts
      <3> QED BY <2>3, <3>1 DEF ReapFail
    <2> QED BY <1>5, <2>2, <2>3 DEF Reaper, Reap, ReapRead
  <1>6. CASE Escalation
    BY <1>6 DEF Escalation, Watch, NotYet, Term, Kill, GiveUp, FinalizeStopped, Verdicts
  <1>7. CASE UNCHANGED vars
    BY <1>7 DEF vars
  <1> QED BY <1>1, <1>2, <1>3, <1>4, <1>5, <1>6, <1>7 DEF Next

\* The run that registers is the first that is fresh
LEMMA FirstFresh ==
  ASSUME IInv, [Next]_vars, NEW k \in Runs, Register(k), NEW i \in Runs, Fresh(i)'
  PROVE  k < i
  <1>1. proc[k] = "up" /\ proc'[k] = "up" /\ pc'[k] = "turn"
    BY DEF Register, Goes, procVars, IInv, LedgerTypeOK
  <1>2. i # k
    BY <1>1 DEF Fresh
  <1>3. Fresh(i)
    BY FreshStep
  <1>4. i < k => proc[i] \in Dead
    BY <1>1 DEF IInv, Ordered
  <1>5. ~(i < k)
    BY <1>3, <1>4 DEF Fresh, Dead
  <1> QED BY <1>2, <1>5, OneIsARun

LEMMA OlderStep ==
  ASSUME IInv, [Next]_vars
  PROVE  Older(rec)' /\ \A l \in Lookers : Older(look[l].copy)'
  <1>1. ASSUME NEW i \in Runs, Fresh(i)' PROVE rec'.owner < i
    <2>1. Fresh(i) /\ rec.owner < i /\ \A l \in Lookers : look[l].copy.owner < i
      BY <1>1, FreshStep DEF IInv, Older
    <2>2. CASE rec' = rec
      BY <2>1, <2>2
    <2>3. ASSUME NEW c \in 0 .. MaxOps, rec # NoRecord, rec' = [rec EXCEPT !.cursor = c]
          PROVE  rec'.owner < i
      <3>1. rec \in Record
        BY <2>3 DEF IInv, LedgerTypeOK
      <3>2. rec'.owner = rec.owner
        BY <2>3, <3>1 DEF Record
      <3> QED BY <2>1, <3>2
    <2>4. ASSUME NEW v \in Verdicts, NEW o \in BOOLEAN, rec' = Finalized(v, o)
          PROVE  rec'.owner < i
      BY <2>1, <2>4, FinalizedType DEF IInv
    <2>5. ASSUME NEW l \in Lookers, Persist(l), rec' = Lost(look[l].copy)
          PROVE  rec'.owner < i
      <3>1. look[l].copy \in Record \cup {NoRecord} /\ look[l].copy.state = "running"
        BY <2>5 DEF IInv, LedgerTypeOK, Judged, Persist
      <3> QED BY <2>1, <2>5, <3>1, LostType
    <2>6. ASSUME NEW k \in Runs, Register(k) PROVE rec'.owner < i
      BY <1>1, <2>6, FirstFresh DEF Register, Registered
    <2>7. CASE ReapFile
      <3>1. proc[1] = "gone" /\ rec'.owner = 1
        BY <2>7 DEF IInv, Reaped, ReapFile, Reaping, Registered
      <3>2. i # 1
        BY <2>1, <3>1 DEF Fresh
      <3> QED BY <3>1, <3>2, OneIsARun
    <2> QED BY <2>2, <2>3, <2>4, <2>5, <2>6, <2>7, RecordStep
  <1>2. ASSUME NEW i \in Runs, Fresh(i)', NEW l \in Lookers
        PROVE  look'[l].copy.owner < i
    <2>1. Fresh(i) /\ rec.owner < i /\ look[l].copy.owner < i
      BY <1>2, FreshStep DEF IInv, Older
    <2>2. NoRecord.owner < i
      BY OneIsARun DEF NoRecord
    <2> QED BY <2>1, <2>2, CopyStep
  <1> QED BY <1>1, <1>2 DEF Older

LEMMA JudgedStep == IInv /\ [Next]_vars => Judged'
  <1> SUFFICES ASSUME IInv, [Next]_vars, NEW l \in Lookers, look'[l].at = "persist"
               PROVE  look'[l].copy.state = "running"
    BY DEF Judged
  <1> QED BY CopyStep DEF Stale, IInv, Judged

LEMMA ReadingStep == IInv /\ [Next]_vars => Reading'
  <1> SUFFICES ASSUME IInv, [Next]_vars, NEW i \in Runs, look'[i].at # "idle"
               PROVE  proc'[i] = "up" /\ pc'[i] = "get"
    BY DEF Reading
  <1>a. Away.at = "idle"
    BY DEF Away
  <1>1. CASE proc[i] = "up" /\ pc[i] = "get" /\ UNCHANGED proc
    BY <1>1, <1>a, PlaceStep DEF IInv, Reading
  <1>2. CASE ~(proc[i] = "up" /\ pc[i] = "get" /\ UNCHANGED proc)
    <2>1. pc'[i] = "get" /\ pc[i] = "get" /\ look'[i] = look[i] /\ proc[i] = "up"
      BY <1>2, <1>a, PlaceStep DEF IInv, Reading
    <2>2. proc'[i] # "up" => look'[i] = Away
      BY <2>1, ProcStep
    <2> QED BY <1>a, <2>1, <2>2
  <1> QED BY <1>1, <1>2

-----------------------------------------------------------------------------
(* What the reaper knows *)

LEMMA ReaperStep ==
  ASSUME IInv, [Next]_vars
  PROVE  /\ reaper' \notin {"off", "wait"}
            => reaper \notin {"off", "wait"} \/ proc'[1] = "gone"
         /\ reaper' = "file" => reaper = "file" \/ rec' = NoRecord
         /\ ReapFile => reaper' # "file"
  <1> DEFINE Goal == /\ reaper' \notin {"off", "wait"}
                        => reaper \notin {"off", "wait"} \/ proc'[1] = "gone"
                     /\ reaper' = "file" => reaper = "file" \/ rec' = NoRecord
                     /\ ReapFile => reaper' # "file"
  <1>f. ReapFile => reaper' = "fail"
    BY DEF ReapFile, Reaping
  <1>1. CASE reaper' = reaper
    BY <1>1, <1>f
  <1>2. CASE Spawn \/ ConsoleDies
    BY <1>2, <1>f DEF Spawn, ConsoleDies
  <1>3. CASE Reap
    BY <1>3, OneIsARun DEF Reap, Reaping, ReapFile, IInv, LedgerTypeOK
  <1>4. CASE ReapRead
    BY <1>4, <1>f DEF ReapRead, Reaping
  <1>5. CASE ReapSettle \/ ReapFile \/ ReapFail
    BY <1>5, <1>f DEF ReapSettle, ReapFile, ReapFail, Reaping
  <1>6. reaper' = reaper \/ Spawn \/ ConsoleDies \/ Reaper
    <2>1. ASSUME NEW l \in Lookers, Look(l) \/ Judge(l) \/ Persist(l)
          PROVE  reaper' = reaper
      BY <2>1 DEF Look, Judge, Persist, Return
    <2>2. ASSUME NEW l \in Readers, Send(l) \/ Stop(l) \/ Show(l)
          PROVE  reaper' = reaper
      BY <2>2 DEF Send, Stop, Show
    <2>3. ASSUME NEW k \in Runs, Runner(k) PROVE reaper' = reaper
      BY <2>3 DEF Runner, Resume, Register, Read, Save, Apply, Work, Crash, Conclude,
                  Exit, Killed, Dies, Goes
    <2>4. Escalation => reaper' = reaper
      BY DEF Escalation, Watch, NotYet, Term, Kill, GiveUp, FinalizeStopped, Stopping
    <2>5. UNCHANGED vars => reaper' = reaper
      BY DEF vars
    <2> QED BY <2>1, <2>2, <2>3, <2>4, <2>5 DEF Next
  <1> QED BY <1>1, <1>2, <1>3, <1>4, <1>5, <1>6 DEF Reaper

LEMMA StatusStep ==
  ASSUME IInv, [Next]_vars, proc'[1] \in Dead
  PROVE  status' \in Verdicts
  <1> DEFINE Goal == status' \in Verdicts
  <1>t. proc \in [Runs -> {"none", "up", "zombie", "gone"}]
    BY DEF IInv, LedgerTypeOK
  <1>d. proc[1] \in Dead => status \in Verdicts
    BY DEF IInv, Reaped
  <1>1. CASE UNCHANGED <<proc, status>>
    BY <1>1, <1>d
  <1>2. CASE UNCHANGED status /\ (Spawn \/ ConsoleDies \/ Reap)
    BY <1>2, <1>t, <1>d, OneIsARun DEF Spawn, ConsoleDies, Reap, Dead
  <1>3. ASSUME NEW k \in Runs, Resume(k) PROVE Goal
    BY <1>3, <1>t, <1>d, OneIsARun DEF Resume
  <1>4. ASSUME NEW k \in Runs, NEW s \in Verdicts, Dies(k, s) PROVE Goal
    <2>1. CASE k = 1
      BY <1>4, <2>1 DEF Dies
    <2>2. CASE k # 1
      BY <1>4, <1>t, <1>d, <2>2, OneIsARun DEF Dies
    <2> QED BY <2>1, <2>2
  <1>5. \/ UNCHANGED <<proc, status>>
        \/ UNCHANGED status /\ (Spawn \/ ConsoleDies \/ Reap)
        \/ \E k \in Runs : Resume(k) \/ \E s \in Verdicts : Dies(k, s)
    <2>1. ASSUME NEW l \in Lookers, Look(l) \/ Judge(l) \/ Persist(l)
          PROVE  UNCHANGED <<proc, status>>
      BY <2>1 DEF Look, Judge, Persist, Return, runVars, procVars
    <2>2. ASSUME NEW l \in Readers, Send(l) \/ Stop(l) \/ Show(l)
          PROVE  UNCHANGED <<proc, status>>
      BY <2>2 DEF Send, Stop, Show, runVars, procVars
    <2>3. ASSUME NEW k \in Runs, Runner(k)
          PROVE  \/ UNCHANGED <<proc, status>>
                 \/ Resume(k) \/ \E s \in Verdicts : Dies(k, s)
      BY <2>3 DEF Runner, Register, Read, Save, Apply, Work, Crash, Conclude, Exit,
                  Killed, Goes, procVars, Verdicts
    <2>4. Reaper => UNCHANGED <<proc, status>> \/ (UNCHANGED status /\ Reap)
      BY DEF Reaper, Reap, ReapRead, ReapSettle, ReapFile, ReapFail, Reaping
    <2>5. Escalation => UNCHANGED <<proc, status>>
      BY DEF Escalation, Watch, NotYet, Term, Kill, GiveUp, FinalizeStopped, Stopping
    <2>6. Spawn \/ ConsoleDies => UNCHANGED status
      BY DEF Spawn, ConsoleDies
    <2>7. UNCHANGED vars => UNCHANGED <<proc, status>>
      BY DEF vars, runVars, procVars
    <2> QED BY <2>1, <2>2, <2>3, <2>4, <2>5, <2>6, <2>7 DEF Next
  <1> QED BY <1>1, <1>2, <1>3, <1>4, <1>5

\* A record never goes away
LEMMA RecordStays ==
  ASSUME IInv, [Next]_vars, rec' = NoRecord PROVE rec = NoRecord
  <1>1. ASSUME NEW k \in Runs, Register(k) PROVE rec' # NoRecord
    BY <1>1 DEF Register, Registered, NoRecord
  <1>2. ReapFile => rec' # NoRecord
    BY DEF ReapFile, Registered, NoRecord
  <1>3. ASSUME NEW l \in Lookers, Persist(l), rec' = Lost(look[l].copy)
        PROVE  rec' # NoRecord
    <2>1. look[l].copy \in Record \cup {NoRecord} /\ look[l].copy.state = "running"
      BY <1>3 DEF IInv, LedgerTypeOK, Judged, Persist
    <2> QED BY <1>3, <2>1, LostType
  <1>4. ASSUME NEW c \in 0 .. MaxOps, rec # NoRecord, rec' = [rec EXCEPT !.cursor = c]
        PROVE  rec' # NoRecord
    <2>1. rec \in Record
      BY <1>4 DEF IInv, LedgerTypeOK
    <2> QED BY <1>4, <2>1, OneIsARun DEF Record, NoRecord
  <1>5. ASSUME NEW v \in Verdicts, NEW o \in BOOLEAN, rec' = Finalized(v, o)
        PROVE  rec' = NoRecord <=> rec = NoRecord
    BY <1>5, FinalizedType DEF IInv
  <1> QED BY <1>1, <1>2, <1>3, <1>4, <1>5, RecordStep

LEMMA ReapedStep == IInv /\ [Next]_vars => Reaped'
  <1> SUFFICES ASSUME IInv, [Next]_vars PROVE Reaped'
    OBVIOUS
  <1>t. Reaped /\ LedgerTypeOK
    BY DEF IInv
  <1>1. reaper' \notin {"off", "wait"} => proc'[1] = "gone"
    BY <1>t, ReaperStep, ProcStep, OneIsARun DEF Reaped
  <1>2. proc'[1] \in Dead => status' \in Verdicts
    BY StatusStep
  <1>3. rec' = NoRecord => rec = NoRecord
    BY RecordStays
  <1>4. reaper' = "file" => rec' = NoRecord
    <2> SUFFICES ASSUME reaper' = "file", rec' # NoRecord PROVE FALSE
      OBVIOUS
    <2>1. reaper = "file" /\ rec = NoRecord /\ proc[1] = "gone" /\ ~ReapFile
      BY <1>t, ReaperStep DEF Reaped
    <2>2. \A v \in Verdicts, o \in BOOLEAN : rec' # Finalized(v, o)
      BY <1>t, <2>1, FinalizedType
    <2>3. PICK k \in Runs : Register(k)
      BY <2>1, <2>2, RecordStep DEF NoRecord
    <2>4. proc[k] = "up"
      BY <2>3 DEF Register, Goes
    <2> QED BY <1>t, <2>1, <2>4, OneIsARun DEF Reaped
  <1>5. rec' = NoRecord => \A i \in Runs : i > 1 => proc'[i] = "none"
    BY <1>t, <1>3, ProcStep, OneIsARun DEF Reaped
  <1> QED BY <1>1, <1>2, <1>4, <1>5 DEF Reaped

-----------------------------------------------------------------------------
(* Theorems *)

LEMMA InvStep == IInv /\ [Next]_vars => IInv'
  BY TypeStep, OrderedStep, ReadingStep, JudgedStep, ReapedStep, OlderStep DEF IInv

THEOREM LedgerInvariant == Spec => []IInv
  BY InitInv, InvStep, PTL DEF Spec

\* Every record, copy and thread of the session has its type
THEOREM LedgerTypeCorrect == Spec => []LedgerTypeOK
  <1>1. IInv => LedgerTypeOK
    BY DEF IInv
  <1> QED BY <1>1, LedgerInvariant, PTL

\* A verdict stands until a later run registers, also where readers judge old
\* copies and a resume waits for nobody
THEOREM VerdictsStand == Spec => VerdictStands
  <1> DEFINE Stands == rec.state \in Verdicts /\ rec'.state # rec.state
                       => rec'.state = "running" /\ rec'.owner > rec.owner
  <1>1. IInv /\ [Next]_vars => [Stands]_vars
    <2> SUFFICES ASSUME IInv, [Next]_vars, rec.state \in Verdicts,
                        rec'.state # rec.state
                 PROVE  rec'.state = "running" /\ rec'.owner > rec.owner
      OBVIOUS
    <2>0. rec # NoRecord
      <3>1. NoRecord.state \notin Verdicts
        BY DEF NoRecord, Verdicts
      <3> QED BY <3>1
    <2>1. rec \in Record /\ rec # NoRecord
      BY <2>0 DEF IInv, LedgerTypeOK
    <2>2. ~\E c \in 0 .. MaxOps : rec' = [rec EXCEPT !.cursor = c]
      BY <2>1 DEF Record
    <2>3. ASSUME NEW v \in Verdicts, NEW o \in BOOLEAN PROVE rec' # Finalized(v, o)
      BY DEF Finalized, Verdicts
    <2>4. ~ReapFile /\ rec.state # "running"
      BY <2>1 DEF ReapFile, Reaping, IInv, Reaped, Verdicts
    <2>5. PICK k \in Runs : Register(k)
      BY <2>2, <2>3, <2>4, RecordStep
    <2>6. Fresh(k) /\ rec' = Registered(k, cursor[k])
      BY <2>5 DEF Register, Goes, Fresh
    <2>7. rec.owner < k /\ rec.owner \in Nat /\ k \in Nat
      BY <2>1, <2>6, OneIsARun DEF IInv, Older, Record
    <2> QED BY <2>6, <2>7 DEF Registered
  <1> QED BY <1>1, LedgerInvariant, PTL DEF Spec, VerdictStands

-----------------------------------------------------------------------------
(* A live run is not lost, under Calm *)

Live(i) == proc[i] = "up" /\ pc[i] \notin {"get", "register"}
LiveNotLost == rec.state = "lost" => \A i \in Runs : ~Live(i)

\* A run goes through `get' before all else
Unborn == \A i \in Runs : proc[i] = "none" => pc[i] = "get"

\* A record that says running names the live run
Owns ==
    \A i \in Runs :
        Live(i) => rec \in Record /\ (rec.state = "running" => rec.owner = i)

\* Nobody is about to write `lost' while a run is live
NoWriter == \A l \in Lookers : look[l].at = "persist" => \A i \in Runs : ~Live(i)

CalmInv == Calm /\ IInv /\ Unborn /\ Owns /\ NoWriter /\ LiveNotLost

LEMMA UnbornStep == IInv /\ Unborn /\ [Next]_vars => Unborn'
  <1> SUFFICES ASSUME IInv, Unborn, [Next]_vars, NEW i \in Runs, proc'[i] = "none"
               PROVE  pc'[i] = "get"
    BY DEF Unborn
  <1>1. proc[i] = "none" /\ pc[i] = "get"
    BY ProcStep DEF Unborn
  <1> QED BY <1>1, PlaceStep

\* A run becomes live by registering
LEMMA LiveStep ==
  ASSUME IInv, Unborn, [Next]_vars, NEW i \in Runs, Live(i)', ~Register(i)
  PROVE  Live(i)
  <1>1. proc'[i] = "up" /\ pc'[i] \notin {"get", "register"}
    BY DEF Live
  <1>2. proc[i] = "up"
    <2>1. proc[i] \in {"none", "up"}
      BY <1>1, ProcStep
    <2>2. proc[i] # "none"
      BY <1>1, PlaceStep DEF Unborn
    <2> QED BY <2>1, <2>2
  <1>3. pc[i] \notin {"get", "register"}
    BY <1>1, PlaceStep
  <1> QED BY <1>2, <1>3 DEF Live

\* While a run is live nobody registers, and no record is filed
LEMMA LiveAlone ==
  ASSUME CalmInv, [Next]_vars, NEW i \in Runs, Live(i)
  PROVE  (\A k \in Runs : ~Register(k)) /\ ~ReapFile
  <1>1. ASSUME NEW k \in Runs, Register(k) PROVE FALSE
    <2>1. proc[k] = "up" /\ pc[k] = "register"
      BY <1>1 DEF Register, Goes
    <2>2. i = k
      BY <2>1, OneUp DEF CalmInv, Live
    <2> QED BY <2>1, <2>2 DEF Live
  <1>2. ASSUME ReapFile PROVE FALSE
    <2>1. rec = NoRecord
      BY <1>2 DEF ReapFile, Reaping, CalmInv, IInv, Reaped
    <2>2. rec \in Record
      BY DEF CalmInv, Owns
    <2> QED BY <2>1, <2>2, OneIsARun DEF NoRecord, Record
  <1> QED BY <1>1, <1>2

LEMMA OwnsStep == CalmInv /\ [Next]_vars => Owns'
  <1> SUFFICES ASSUME CalmInv, [Next]_vars, NEW i \in Runs, Live(i)'
               PROVE  rec' \in Record /\ (rec'.state = "running" => rec'.owner = i)
    BY DEF Owns
  <1>t. LedgerTypeOK'
    BY TypeStep DEF CalmInv
  <1>1. CASE Register(i)
    <2>1. rec' = Registered(i, cursor[i]) /\ cursor[i] \in 0 .. MaxOps
      BY <1>1 DEF Register, CalmInv, IInv, LedgerTypeOK
    <2> QED BY <2>1 DEF Registered, Record
  <1>2. CASE ~Register(i)
    <2>1. Live(i)
      BY <1>2, LiveStep DEF CalmInv
    <2>2. rec \in Record /\ (rec.state = "running" => rec.owner = i)
      BY <2>1 DEF CalmInv, Owns
    <2>n. rec # NoRecord
      BY <2>2, OneIsARun DEF Record, NoRecord
    <2>3. ASSUME NEW c \in 0 .. MaxOps, rec' = [rec EXCEPT !.cursor = c]
          PROVE  rec' \in Record /\ (rec'.state = "running" => rec'.owner = i)
      BY <2>2, <2>3 DEF Record
    <2>4. ASSUME NEW v \in Verdicts, NEW o \in BOOLEAN, rec' = Finalized(v, o)
          PROVE  rec' \in Record /\ (rec'.state = "running" => rec'.owner = i)
      <3>1. rec' \in Record \cup {NoRecord} /\ rec' # NoRecord /\ rec'.owner = rec.owner
            /\ (rec' = rec \/ rec'.state \in Verdicts)
        BY <2>4, <2>n, FinalizedType DEF CalmInv, IInv
      <3> QED BY <2>2, <3>1 DEF Verdicts
    <2>5. ASSUME NEW l \in Lookers, Persist(l), rec' = Lost(look[l].copy)
          PROVE  rec' \in Record /\ (rec'.state = "running" => rec'.owner = i)
      <3>1. look[l].copy \in Record \cup {NoRecord} /\ look[l].copy.state = "running"
        BY <2>5 DEF CalmInv, IInv, LedgerTypeOK, Judged, Persist
      <3> QED BY <2>5, <3>1, LostType
    <2> QED BY <2>1, <2>2, <2>3, <2>4, <2>5, RecordStep, LiveAlone DEF CalmInv
  <1> QED BY <1>1, <1>2

LEMMA NoWriterStep == CalmInv /\ [Next]_vars => NoWriter'
  <1> SUFFICES ASSUME CalmInv, [Next]_vars, NEW l \in Lookers,
                      look'[l].at = "persist", NEW i \in Runs, Live(i)'
               PROVE  FALSE
    BY DEF NoWriter
  <1>1. CASE look'[l] = look[l]
    <2>1. Register(i)
      BY <1>1, LiveStep DEF CalmInv, NoWriter
    <2>2. proc[i] = "up" /\ pc[i] = "register" /\ l \notin Readers
      BY <1>1, <2>1 DEF Register, Goes, CalmInv
    <2>3. proc[l] = "up" /\ pc[l] = "get" /\ l \in Runs
      BY <1>1, <2>2 DEF Lookers, CalmInv, IInv, Reading
    <2> QED BY <2>2, <2>3, OneUp DEF CalmInv
  <1>2. CASE Stale(rec) /\ UNCHANGED <<rec, proc, pc>>
    <2>1. Live(i)
      BY <1>2 DEF Live
    <2>2. rec.state = "running" /\ rec.owner = i
      BY <1>2, <2>1 DEF Stale, CalmInv, Owns
    <2> QED BY <1>2, <2>1, <2>2 DEF Stale, OwnerAlive, Live
  <1> QED BY <1>1, <1>2, CopyStep DEF CalmInv

LEMMA NotLostStep == CalmInv /\ [Next]_vars => LiveNotLost'
  <1> SUFFICES ASSUME CalmInv, [Next]_vars, rec'.state = "lost", NEW i \in Runs,
                      Live(i)'
               PROVE  FALSE
    BY DEF LiveNotLost
  <1>1. \A k \in Runs : ~Register(k)
    BY DEF Register, Registered
  <1>2. Live(i)
    BY <1>1, LiveStep DEF CalmInv
  <1>3. rec \in Record /\ rec.state # "lost"
    BY <1>2 DEF CalmInv, Owns, LiveNotLost
  <1>4. ASSUME NEW c \in 0 .. MaxOps, rec' = [rec EXCEPT !.cursor = c] PROVE FALSE
    BY <1>3, <1>4 DEF Record
  <1>5. ASSUME NEW v \in Verdicts, NEW o \in BOOLEAN, rec' = Finalized(v, o) PROVE FALSE
    BY <1>3, <1>5, FinalizedType DEF CalmInv, IInv, Verdicts
  <1>6. ASSUME NEW l \in Lookers, Persist(l) PROVE FALSE
    BY <1>2, <1>6 DEF Persist, CalmInv, NoWriter
  <1> QED BY <1>1, <1>2, <1>3, <1>4, <1>5, <1>6, RecordStep, LiveAlone DEF CalmInv

LEMMA CalmStep == CalmInv /\ [Next]_vars => CalmInv'
  BY InvStep, UnbornStep, OwnsStep, NoWriterStep, NotLostStep DEF CalmInv

-----------------------------------------------------------------------------
(* An op is given to the model once, under Calm *)

\* What the model was given is below c
Below(c) == \A k \in 1 .. MaxOps : applied[k] > 0 => k <= c

\* A reader that writes has the record as it is
Copied == \A l \in Lookers : look[l].at = "persist" =>
              rec # NoRecord /\ (rec.state = "running" => look[l].copy = rec)

\* Nobody is beyond the end of the inbox
Within == rec.cursor <= Len(inbox) /\ \A i \in Runs : cursor[i] <= Len(inbox)

\* A run that is up was given nothing it will apply
Sure(i) ==
    proc[i] = "up" =>
        /\ pc[i] \in {"register", "turn", "work"} => Below(cursor[i])
        /\ pc[i] \in {"save", "apply"} => Below(from[i]) /\ from[i] <= cursor[i]
        /\ pc[i] = "apply" => rec.cursor = cursor[i]

OnceInv == /\ CalmInv /\ AtMostOnce /\ Below(rec.cursor) /\ Copied /\ Within
           /\ \A i \in Runs : Sure(i)

LEMMA OnceTypes ==
  ASSUME LedgerTypeOK
  PROVE  /\ rec.cursor \in Nat /\ Len(inbox) \in Nat
         /\ DOMAIN applied = 1 .. MaxOps /\ \A k \in 1 .. MaxOps : applied[k] \in Nat
         /\ \A i \in Runs : cursor[i] \in Nat /\ from[i] \in Nat
  <1>1. rec.cursor \in Nat
    <2>1. CASE rec \in Record
      BY <2>1, LedgerAssumption DEF Record
    <2>2. CASE rec = NoRecord
      BY <2>2 DEF NoRecord
    <2> QED BY <2>1, <2>2 DEF LedgerTypeOK
  <1>2. Len(inbox) \in Nat
    <2>1. inbox \in Seq({"say", "stop"})
      BY DEF LedgerTypeOK
    <2> QED BY <2>1
  <1>3. DOMAIN applied = 1 .. MaxOps /\ \A k \in 1 .. MaxOps : applied[k] \in Nat
    BY DEF LedgerTypeOK
  <1>4. ASSUME NEW i \in Runs PROVE cursor[i] \in Nat /\ from[i] \in Nat
    <2>1. cursor[i] \in 0 .. MaxOps /\ from[i] \in 0 .. MaxOps
      BY DEF LedgerTypeOK
    <2> QED BY <2>1, LedgerAssumption
  <1> QED BY <1>1, <1>2, <1>3, <1>4

LEMMA CopiedStep ==
  ASSUME OnceInv, [Next]_vars, NEW l \in Lookers, look'[l].at = "persist"
  PROVE  rec' # NoRecord /\ (rec'.state = "running" => look'[l].copy = rec')
  <1>i. IInv /\ Calm /\ NoWriter /\ Copied /\ LedgerTypeOK
    BY DEF OnceInv, CalmInv, IInv
  <1>1. CASE look'[l] = look[l]
    <2>1. rec # NoRecord /\ rec \in Record /\ (rec.state = "running" => look[l].copy = rec)
      BY <1>1, <1>i DEF Copied, LedgerTypeOK
    <2>2. rec' # NoRecord
      BY <1>i, <2>1, RecordStays
    <2>3. ~\E k \in Runs : Save(k)
      BY <1>1, <1>i DEF NoWriter, Save, Goes, Live
    <2>4. ASSUME NEW v \in Verdicts, NEW o \in BOOLEAN, rec' = Finalized(v, o),
                 rec'.state = "running"
          PROVE  rec' = rec
      BY <1>i, <2>4, FinalizedType DEF Verdicts
    <2>5. ASSUME NEW m \in Lookers, Persist(m), rec' = Lost(look[m].copy)
          PROVE  rec'.state = "lost"
      <3>1. look[m].copy \in Record \cup {NoRecord} /\ look[m].copy.state = "running"
        BY <1>i, <2>5 DEF IInv, LedgerTypeOK, Judged, Persist
      <3> QED BY <2>5, <3>1, LostType
    <2>6. ASSUME NEW k \in Runs, Register(k) PROVE FALSE
      <3>1. l \notin Readers /\ proc[k] = "up" /\ pc[k] = "register"
        BY <1>1, <1>i, <2>6 DEF Register, Goes
      <3>2. l \in Runs /\ proc[l] = "up" /\ pc[l] = "get"
        BY <1>1, <1>i, <3>1 DEF Lookers, IInv, Reading
      <3> QED BY <1>i, <3>1, <3>2, OneUp
    <2>7. ~ReapFile
      BY <1>i, <2>1 DEF IInv, Reaped, ReapFile, Reaping
    <2> QED BY <1>1, <1>i, <2>1, <2>2, <2>3, <2>4, <2>5, <2>6, <2>7, RecordStep
  <1>2. CASE /\ look'[l].copy = rec /\ Stale(look'[l].copy) /\ UNCHANGED rec
    BY <1>2 DEF Stale, NoRecord
  <1> QED BY <1>1, <1>2, <1>i, CopyStep

\* What the rest of the invariant needs of a step
Once == AtMostOnce /\ Below(rec.cursor) /\ Within /\ \A i \in Runs : Sure(i)

\* A step that moves no cursor, and after which only who was up is
LEMMA QuietOnce ==
  ASSUME OnceInv, UNCHANGED <<loopVars, applied>>, rec'.cursor = rec.cursor,
         Len(inbox') >= Len(inbox), Len(inbox') \in Nat,
         \A i \in Runs : proc'[i] = "up" => proc[i] = "up" \/ pc[i] = "get"
  PROVE  Once'
  <1>t. LedgerTypeOK
    BY DEF OnceInv, CalmInv, IInv
  <1>1. AtMostOnce' /\ Below(rec.cursor)'
    BY DEF OnceInv, AtMostOnce, Below
  <1>2. Within'
    BY <1>t, OnceTypes DEF OnceInv, Within, loopVars
  <1>3. ASSUME NEW i \in Runs PROVE Sure(i)'
    <2>1. UNCHANGED <<pc, cursor, from, applied>>
      BY DEF loopVars
    <2> QED BY <2>1 DEF OnceInv, Sure, Below
  <1> QED BY <1>1, <1>2, <1>3 DEF Once

\* A read returns: a run takes over the cursor of the record
LEMMA ReturnOnce ==
  ASSUME OnceInv, NEW l \in Lookers, NEW r, Return(l, r), look[l].at # "idle",
         r.cursor = rec.cursor, rec'.cursor = rec.cursor
  PROVE  Once'
  <1>t. LedgerTypeOK
    BY DEF OnceInv, CalmInv, IInv
  <1>c. cursor \in [Runs -> 0 .. MaxOps] /\ \A i \in Runs : pc[i] = pc[i]
        /\ pc \in [Runs -> {"get", "register", "turn", "save", "apply", "work",
                            "exit 0", "exit 1"} \cup Verdicts]
    BY <1>t DEF LedgerTypeOK
  <1>0. UNCHANGED <<inbox, proc, from, applied>>
    BY DEF Return, procVars
  <1>1. CASE l \notin Runs
    BY <1>1, <1>0, <1>t, OnceTypes, QuietOnce DEF Return, loopVars
  <1>2. CASE l \in Runs
    <2>1. /\ cursor' = [cursor EXCEPT ![l] = rec.cursor]
          /\ pc' = [pc EXCEPT ![l] = "register"]
      BY <1>2 DEF Return
    <2>2. AtMostOnce' /\ Below(rec.cursor)'
      BY <1>0 DEF OnceInv, AtMostOnce, Below
    <2>3. Within'
      BY <1>0, <1>c, <2>1 DEF OnceInv, Within
    <2>4. ASSUME NEW i \in Runs PROVE Sure(i)'
      <3>1. CASE i = l
        <4>1. pc'[i] = "register" /\ cursor'[i] = rec.cursor
          BY <1>c, <2>1, <3>1
        <4>2. Below(cursor[i])'
          BY <1>0, <4>1 DEF OnceInv, Below
        <4> QED BY <4>1, <4>2 DEF Sure
      <3>2. CASE i # l
        <4>1. pc'[i] = pc[i] /\ cursor'[i] = cursor[i]
          BY <1>c, <2>1, <3>2
        <4> QED BY <1>0, <4>1 DEF OnceInv, Sure, Below
      <3> QED BY <3>1, <3>2
    <2> QED BY <2>2, <2>3, <2>4 DEF Once
  <1> QED BY <1>1, <1>2

\* A run's own step, if what it leaves is right for itself
LEMMA RunOnce ==
  ASSUME OnceInv, NEW k \in Runs, proc[k] = "up", UNCHANGED <<proc, inbox>>,
         \A i \in Runs \ {k} : cursor'[i] = cursor[i],
         AtMostOnce', Below(rec.cursor)', rec'.cursor <= Len(inbox),
         cursor'[k] <= Len(inbox), Sure(k)'
  PROVE  Once'
  <1>1. Within'
    BY DEF OnceInv, Within
  <1>2. ASSUME NEW i \in Runs PROVE Sure(i)'
    <2>1. i # k => proc'[i] # "up"
      BY OneUp DEF OnceInv, CalmInv
    <2> QED BY <2>1 DEF Sure
  <1> QED BY <1>1, <1>2 DEF Once

LEMMA RunnerOnce ==
  ASSUME OnceInv, NEW k \in Runs, Runner(k), ~Resume(k), ~Exit(k), ~Killed(k)
  PROVE  Once'
  <1>t. LedgerTypeOK /\ Calm
    BY DEF OnceInv, CalmInv, IInv
  <1>c. /\ cursor \in [Runs -> 0 .. MaxOps] /\ from \in [Runs -> 0 .. MaxOps]
        /\ pc \in [Runs -> {"get", "register", "turn", "save", "apply", "work",
                            "exit 0", "exit 1"} \cup Verdicts]
    BY <1>t DEF LedgerTypeOK
  <1>n. /\ rec.cursor \in Nat /\ Len(inbox) \in Nat
        /\ DOMAIN applied = 1 .. MaxOps /\ \A j \in 1 .. MaxOps : applied[j] \in Nat
        /\ cursor[k] \in Nat /\ from[k] \in Nat
    BY <1>t, OnceTypes
  <1>o. /\ AtMostOnce /\ Below(rec.cursor) /\ rec.cursor <= Len(inbox)
        /\ cursor[k] <= Len(inbox) /\ Sure(k)
    BY DEF OnceInv, Within
  <1>g. ASSUME NEW p, NEW q, Goes(k, p, q)
        PROVE  /\ proc[k] = "up" /\ pc[k] = p /\ pc'[k] = q
               /\ UNCHANGED <<proc, inbox>>
    BY <1>g, <1>c DEF Goes, procVars
  <1>1. CASE Register(k)
    <2>1. /\ proc[k] = "up" /\ pc[k] = "register" /\ pc'[k] = "turn"
          /\ UNCHANGED <<proc, inbox, cursor, from, applied>>
          /\ rec'.cursor = cursor[k]
      BY <1>1, <1>g DEF Register, Registered
    <2>2. Below(cursor[k])
      BY <1>o, <2>1 DEF Sure
    <2>3. AtMostOnce' /\ Below(rec.cursor)' /\ Sure(k)'
      BY <1>o, <2>1, <2>2 DEF AtMostOnce, Below, Sure
    <2> QED BY <1>o, <2>1, <2>3, RunOnce
  <1>2. CASE Read(k)
    <2> DEFINE c == Least(cursor[k] + MaxBatch, Len(inbox))
    <2>1. /\ proc[k] = "up" /\ pc[k] = "turn" /\ UNCHANGED <<proc, inbox, rec, applied>>
          /\ pc'[k] = IF cursor[k] < Len(inbox) THEN "save" ELSE "work"
          /\ from'[k] = cursor[k] /\ cursor'[k] = c
          /\ \A i \in Runs \ {k} : cursor'[i] = cursor[i]
      BY <1>2, <1>c, <1>g DEF Read
    <2>2. c <= Len(inbox) /\ cursor[k] <= c
      BY <1>n, <1>o, LedgerAssumption DEF Least
    <2> HIDE DEF c
    <2>3. Below(cursor[k])
      BY <1>o, <2>1 DEF Sure
    <2>4. c \in Nat /\ Below(c)
      <3>1. c \in Nat
        BY <1>n, LedgerAssumption DEF c, Least
      <3> QED BY <1>n, <2>2, <2>3, <3>1 DEF Below
    <2>5. AtMostOnce' /\ Below(rec.cursor)' /\ Sure(k)'
      BY <1>o, <2>1, <2>2, <2>3, <2>4 DEF AtMostOnce, Below, Sure
    <2> QED BY <1>o, <2>1, <2>2, <2>5, RunOnce
  <1>3. CASE Save(k)
    <2>1. /\ proc[k] = "up" /\ pc[k] = "save" /\ pc'[k] = "apply"
          /\ UNCHANGED <<proc, inbox, cursor, from, applied>>
          /\ rec' = IF rec = NoRecord THEN rec ELSE [rec EXCEPT !.cursor = cursor[k]]
      BY <1>3, <1>g DEF Save
    <2>2. rec \in Record
      BY <2>1 DEF OnceInv, CalmInv, Owns, Live
    <2>3. rec # NoRecord
      BY <2>2, OneIsARun DEF Record, NoRecord
    <2>4. rec'.cursor = cursor[k]
      BY <2>1, <2>2, <2>3 DEF Record
    <2>5. Below(from[k]) /\ from[k] <= cursor[k]
      BY <1>o, <2>1 DEF Sure
    <2>6. Below(cursor[k])
      BY <1>n, <2>5 DEF Below
    <2>7. AtMostOnce' /\ Below(rec.cursor)' /\ Sure(k)'
      BY <1>o, <2>1, <2>4, <2>5, <2>6 DEF AtMostOnce, Below, Sure
    <2> QED BY <1>o, <2>1, <2>4, <2>7, RunOnce
  <1>4. CASE Apply(k)
    <2>1. /\ proc[k] = "up" /\ pc[k] = "apply" /\ pc'[k] \in {"stopped", "work"}
          /\ UNCHANGED <<proc, inbox, cursor, rec>> /\ from' = cursor
          /\ applied' = [j \in 1 .. MaxOps |->
                            applied[j] + IF j \in InHand(k) THEN 1 ELSE 0]
      BY <1>4, <1>g, <1>n DEF Apply
    <2>2. Below(from[k]) /\ from[k] <= cursor[k] /\ rec.cursor = cursor[k]
      BY <1>o, <2>1 DEF Sure
    <2>3. ASSUME NEW j \in 1 .. MaxOps
          PROVE  applied'[j] <= 1 /\ (applied'[j] > 0 => j <= cursor[k])
      <3>1. j \in Nat /\ applied[j] \in Nat /\ applied[j] <= 1
        BY <1>n, <1>o, LedgerAssumption DEF AtMostOnce
      <3>2. CASE j \in InHand(k)
        <4>1. from[k] < j /\ j <= cursor[k]
          BY <1>n, <3>1, <3>2 DEF InHand
        <4>2. applied[j] = 0
          BY <1>n, <2>2, <3>1, <4>1 DEF Below
        <4> QED BY <2>1, <3>2, <4>1, <4>2
      <3>3. CASE j \notin InHand(k)
        <4>1. applied'[j] = applied[j]
          BY <2>1, <3>1, <3>3
        <4> QED BY <1>n, <2>2, <3>1, <4>1 DEF Below
      <3> QED BY <3>2, <3>3
    <2>4. DOMAIN applied' = 1 .. MaxOps
      BY <2>1
    <2>5. AtMostOnce' /\ Below(rec.cursor)' /\ Below(cursor[k])'
      BY <2>1, <2>2, <2>3, <2>4 DEF AtMostOnce, Below
    <2>6. Sure(k)'
      BY <2>1, <2>5 DEF Sure
    <2> QED BY <1>o, <2>1, <2>5, <2>6, RunOnce
  <1>5. CASE Work(k) \/ Crash(k) \/ Conclude(k)
    <2>1. /\ proc[k] = "up" /\ UNCHANGED <<proc, inbox, cursor, from, applied>>
          /\ \/ pc[k] = "work" /\ pc'[k] = "turn"
             \/ pc'[k] \in Verdicts \cup {"exit 0", "exit 1"}
      BY <1>5, <1>g DEF Work, Crash, Conclude, Verdicts
    <2>2. rec'.cursor = rec.cursor
      <3>1. CASE Conclude(k)
        <4>1. rec = NoRecord \/ rec \in Record
          BY <1>t DEF LedgerTypeOK
        <4> QED BY <3>1, <4>1 DEF Conclude, Finalized, Record, NoRecord
      <3>2. CASE ~Conclude(k)
        BY <1>5, <3>2 DEF Work, Crash
      <3> QED BY <3>1, <3>2
    <2>3. AtMostOnce' /\ Below(rec.cursor)' /\ Sure(k)'
      BY <1>o, <2>1, <2>2 DEF AtMostOnce, Below, Sure, Verdicts
    <2> QED BY <1>o, <2>1, <2>2, <2>3, RunOnce
  <1> QED BY <1>1, <1>2, <1>3, <1>4, <1>5 DEF Runner

LEMMA OnceStep == OnceInv /\ [Next]_vars => OnceInv'
  <1>0. OnceInv /\ [Next]_vars => CalmInv'
    BY CalmStep DEF OnceInv
  <1>c. OnceInv /\ [Next]_vars => Copied'
    BY CopiedStep DEF Copied
  <1> SUFFICES ASSUME OnceInv, [Next]_vars PROVE Once'
    BY <1>0, <1>c DEF OnceInv, Once
  <1>t. LedgerTypeOK /\ Calm /\ IInv /\ Unborn
    BY DEF OnceInv, CalmInv, IInv
  <1>n. rec.cursor \in Nat /\ Len(inbox) \in Nat
    BY <1>t, OnceTypes
  <1>1. ASSUME NEW l \in Lookers, Look(l) PROVE Once'
    BY <1>1, <1>n, QuietOnce DEF Look, runVars, procVars
  <1>2. ASSUME NEW l \in Lookers, Judge(l) PROVE Once'
    <2>1. look[l].at # "idle" /\ rec' = rec
      BY <1>2 DEF Judge
    <2>2. CASE Stale(rec)
      BY <1>2, <1>t, <1>n, <2>2, QuietOnce DEF Judge, runVars, procVars
    <2>3. CASE ~Stale(rec)
      BY <1>2, <1>t, <2>1, <2>3, ReturnOnce DEF Judge
    <2> QED BY <2>2, <2>3
  <1>3. ASSUME NEW l \in Lookers, Persist(l) PROVE Once'
    <2>1. look[l].at # "idle" /\ Return(l, rec')
      BY <1>3 DEF Persist
    <2>2. rec'.cursor = rec.cursor
      <3>1. rec.state = "running" => look[l].copy = rec /\ rec \in Record
        BY <1>3, <1>t DEF Persist, OnceInv, Copied, LedgerTypeOK
      <3> QED BY <1>3, <3>1 DEF Persist, Lost, Record
    <2> QED BY <2>1, <2>2, ReturnOnce
  <1>4. ASSUME NEW l \in Readers, Send(l) \/ Stop(l) \/ Show(l) PROVE Once'
    <2>1. Len(inbox') >= Len(inbox) /\ Len(inbox') \in Nat
      <3>1. inbox \in Seq({"say", "stop"})
        BY <1>t DEF LedgerTypeOK
      <3>2. inbox' = inbox \/ \E op \in {"say", "stop"} : inbox' = Append(inbox, op)
        BY <1>4 DEF Send, Stop, Show
      <3>3. \A op \in {"say", "stop"} : Len(Append(inbox, op)) = Len(inbox) + 1
        BY <3>1
      <3> QED BY <1>n, <3>2, <3>3
    <2> QED BY <1>4, <2>1, QuietOnce DEF Send, Stop, Show, runVars, procVars
  <1>5. ASSUME NEW k \in Runs, Resume(k) PROVE Once'
    <2>1. \A i \in Runs : proc'[i] = "up" => proc[i] = "up" \/ pc[i] = "get"
      BY <1>5, <1>t DEF Resume, Unborn, LedgerTypeOK
    <2> QED BY <1>5, <1>n, <2>1, QuietOnce DEF Resume
  <1>6. ASSUME NEW k \in Runs, NEW s, Dies(k, s) PROVE Once'
    <2>1. /\ UNCHANGED <<pc, inbox, rec, applied>> /\ proc'[k] # "up"
          /\ \A i \in Runs \ {k} : /\ proc'[i] = proc[i] /\ cursor'[i] = cursor[i]
                                   /\ from'[i] = from[i]
          /\ cursor'[k] = 0
      BY <1>6, <1>t DEF Dies, LedgerTypeOK
    <2>2. AtMostOnce' /\ Below(rec.cursor)' /\ Within'
      BY <1>n, <2>1 DEF OnceInv, AtMostOnce, Below, Within
    <2>3. ASSUME NEW i \in Runs PROVE Sure(i)'
      <3>1. CASE i = k
        BY <2>1, <3>1 DEF Sure
      <3>2. CASE i # k
        BY <2>1, <3>2 DEF OnceInv, Sure, Below
      <3> QED BY <3>1, <3>2
    <2> QED BY <2>2, <2>3 DEF Once
  <1>7. ASSUME NEW k \in Runs, Runner(k) PROVE Once'
    BY <1>5, <1>6, <1>7, RunnerOnce DEF Exit, Killed
  <1>8. ASSUME Spawn \/ ConsoleDies \/ Reaper \/ Escalation PROVE Once'
    <2>1. UNCHANGED <<loopVars, applied, inbox>>
      BY <1>8 DEF Spawn, ConsoleDies, Reaper, Reap, ReapRead, ReapSettle, ReapFile,
                  ReapFail, Reaping, Escalation, Watch, NotYet, Term, Kill, GiveUp,
                  FinalizeStopped, Stopping
    <2>2. rec'.cursor = rec.cursor
      <3>1. rec' = rec \/ ReapFile \/ \E v, o : rec' = Finalized(v, o)
        BY <1>8 DEF Spawn, ConsoleDies, Reaper, Reap, ReapRead, ReapSettle,
                    ReapFail, Escalation, Watch, NotYet, Term, Kill, GiveUp,
                    FinalizeStopped
      <3>2. ReapFile => rec = NoRecord /\ rec'.cursor = 0
        BY <1>t DEF ReapFile, Reaping, IInv, Reaped, Registered
      <3>3. ASSUME NEW v, NEW o, rec' = Finalized(v, o) PROVE rec'.cursor = rec.cursor
        <4>1. rec = NoRecord \/ rec \in Record
          BY <1>t DEF LedgerTypeOK
        <4> QED BY <3>3, <4>1 DEF Finalized, Record, NoRecord
      <3> QED BY <3>1, <3>2, <3>3 DEF NoRecord
    <2>3. \A i \in Runs : proc'[i] = "up" => proc[i] = "up" \/ pc[i] = "get"
      BY <1>t, ProcStep DEF Unborn
    <2> QED BY <1>n, <2>1, <2>2, <2>3, QuietOnce
  <1>9. CASE UNCHANGED vars
    BY <1>9, <1>n, QuietOnce DEF vars, runVars, procVars
  <1> QED BY <1>1, <1>2, <1>3, <1>4, <1>7, <1>8, <1>9 DEF Next

LEMMA InitOnce == Calm /\ Init => OnceInv
  <1> SUFFICES ASSUME Calm, Init PROVE OnceInv
    OBVIOUS
  <1>1. CalmInv
    <2>1. Unborn /\ \A i \in Runs : ~Live(i)
      BY DEF Init, Unborn, Live
    <2> QED BY <2>1, InitInv DEF Init, CalmInv, Owns, NoWriter, LiveNotLost
  <1>2. AtMostOnce /\ Below(rec.cursor)
    BY DEF Init, AtMostOnce, Below
  <1>3. Copied /\ \A i \in Runs : Sure(i)
    BY DEF Init, Copied, Away, Sure
  <1>4. Within
    <2>1. Len(inbox) = 0
      BY DEF Init
    <2> QED BY <2>1 DEF Init, Within, NoRecord
  <1> QED BY <1>1, <1>2, <1>3, <1>4 DEF OnceInv

LEMMA OnceInvariant == Calm /\ Spec => []OnceInv
  BY InitOnce, OnceStep, PTL DEF Spec

\* Where a read is judged on the record as it is, an op is given to the model
\* once, over all the processes of the session
THEOREM GivenOnce == Calm /\ Spec => []AtMostOnce
  <1>1. OnceInv => AtMostOnce
    BY DEF OnceInv
  <1> QED BY <1>1, OnceInvariant, PTL

-----------------------------------------------------------------------------
(* What the reaper leaves of a child, under Calm *)

Unregistered == pc[1] \in {"get", "register"}

Child == /\ rec = NoRecord \/ reaper \in {"file", "fail"} => Unregistered
         /\ ChildHasVerdict

\* How the reaper came to where it is
LEMMA ReaperPath ==
  ASSUME [Next]_vars
  PROVE  /\ reaper' = "file" => reaper = "file" \/ (reaper = "read" /\ rec = NoRecord)
         /\ reaper' = "fail" => reaper \in {"file", "fail"}
         /\ reaper' = "done" => \/ reaper = "done"
                                \/ ReapSettle \/ ReapFail
                                \/ (UNCHANGED rec /\ rec.state \in Verdicts)
  <1> DEFINE Goal ==
         /\ reaper' = "file" => reaper = "file" \/ (reaper = "read" /\ rec = NoRecord)
         /\ reaper' = "fail" => reaper \in {"file", "fail"}
         /\ reaper' = "done" => \/ reaper = "done"
                                \/ ReapSettle \/ ReapFail
                                \/ (UNCHANGED rec /\ rec.state \in Verdicts)
  <1>1. CASE reaper' = reaper
    BY <1>1
  <1>2. CASE Spawn \/ ConsoleDies \/ Reap
    BY <1>2 DEF Spawn, ConsoleDies, Reap, Reaping
  <1>3. CASE ReapRead
    BY <1>3 DEF ReapRead, Reaping
  <1>4. CASE ReapSettle \/ ReapFile \/ ReapFail
    BY <1>4 DEF ReapSettle, ReapFile, ReapFail, Reaping
  <1>5. reaper' = reaper \/ Spawn \/ ConsoleDies \/ Reaper
    <2>1. ASSUME NEW l \in Lookers, Look(l) \/ Judge(l) \/ Persist(l)
          PROVE  reaper' = reaper
      BY <2>1 DEF Look, Judge, Persist, Return
    <2>2. ASSUME NEW l \in Readers, Send(l) \/ Stop(l) \/ Show(l)
          PROVE  reaper' = reaper
      BY <2>2 DEF Send, Stop, Show
    <2>3. ASSUME NEW k \in Runs, Runner(k) PROVE reaper' = reaper
      BY <2>3 DEF Runner, Resume, Register, Read, Save, Apply, Work, Crash, Conclude,
                  Exit, Killed, Dies, Goes
    <2>4. Escalation => reaper' = reaper
      BY DEF Escalation, Watch, NotYet, Term, Kill, GiveUp, FinalizeStopped, Stopping
    <2>5. UNCHANGED vars => reaper' = reaper
      BY DEF vars
    <2> QED BY <2>1, <2>2, <2>3, <2>4, <2>5 DEF Next
  <1> QED BY <1>1, <1>2, <1>3, <1>4, <1>5 DEF Reaper

\* A run moves by its own steps and when it has the answer of its read
LEMMA PcChanges ==
  ASSUME [Next]_vars
  PROVE  \/ pc' = pc
         \/ \E k \in Runs : \E p, q : Goes(k, p, q) /\ p \notin {"exit 0", "exit 1"}
         \/ \E l \in Lookers : \E r : /\ Return(l, r) /\ Running(l)
                                     /\ look[l].at # "idle"
  <1>1. ASSUME NEW l \in Lookers, Look(l) \/ Judge(l) \/ Persist(l)
        PROVE  pc' = pc \/ \E r : Return(l, r) /\ Running(l) /\ look[l].at # "idle"
    BY <1>1 DEF Look, Judge, Persist, runVars, loopVars
  <1>2. ASSUME NEW l \in Readers, Send(l) \/ Stop(l) \/ Show(l) PROVE pc' = pc
    BY <1>2 DEF Send, Stop, Show, runVars, loopVars
  <1>3. ASSUME NEW k \in Runs, Runner(k)
        PROVE  pc' = pc \/ \E p, q : Goes(k, p, q) /\ p \notin {"exit 0", "exit 1"}
    <2>1. ASSUME NEW p, NEW q, Goes(k, p, q), p \notin {"exit 0", "exit 1"}
          PROVE  \E a, b : Goes(k, a, b) /\ a \notin {"exit 0", "exit 1"}
      BY <2>1
    <2>2. CASE Register(k) \/ Read(k) \/ Save(k) \/ Apply(k)
      BY <2>1, <2>2 DEF Register, Read, Save, Apply
    <2>3. CASE Work(k) \/ Crash(k) \/ Conclude(k)
      BY <2>1, <2>3 DEF Work, Crash, Conclude, Verdicts
    <2>4. CASE Resume(k) \/ Exit(k) \/ Killed(k)
      BY <2>4 DEF Resume, Exit, Killed, Dies, loopVars
    <2> QED BY <1>3, <2>2, <2>3, <2>4 DEF Runner
  <1>4. Spawn \/ ConsoleDies \/ Reaper \/ Escalation \/ UNCHANGED vars => pc' = pc
    BY DEF Spawn, ConsoleDies, Reaper, Reap, ReapRead, ReapSettle, ReapFile,
           ReapFail, Reaping, Escalation, Watch, NotYet, Term, Kill, GiveUp,
           FinalizeStopped, Stopping, vars, runVars, loopVars
  <1> QED BY <1>1, <1>2, <1>3, <1>4 DEF Next

\* A run that is dead, or has had its word, is where it was
LEMMA PlaceKept ==
  ASSUME IInv, [Next]_vars, NEW i \in Runs, proc[i] \in Dead \/ HadItsWord(i)
  PROVE  pc'[i] = pc[i]
  <1>1. ASSUME NEW k \in Runs, NEW p, NEW q, Goes(k, p, q),
               p \notin {"exit 0", "exit 1"}
        PROVE  pc'[i] = pc[i]
    <2>1. k # i /\ pc' = [pc EXCEPT ![k] = q]
      BY <1>1 DEF Goes, Dead, HadItsWord
    <2> QED BY <2>1 DEF IInv, LedgerTypeOK
  <1>2. ASSUME NEW l \in Lookers, NEW r, Return(l, r), Running(l), look[l].at # "idle"
        PROVE  pc'[i] = pc[i]
    <2>1. l # i
      BY <1>2 DEF Running, Dead, HadItsWord, IInv, Reading
    <2> QED BY <1>2, <2>1 DEF Return, IInv, LedgerTypeOK
  <1> QED BY <1>1, <1>2, PcChanges

\* A run that the reaper has buried is where it was
LEMMA GoneStays ==
  ASSUME IInv, [Next]_vars, reaper \notin {"off", "wait"}
  PROVE  proc[1] = "gone" /\ pc'[1] = pc[1] /\ ~Register(1)
  <1>1. proc[1] = "gone"
    BY DEF IInv, Reaped
  <1>2. ~Register(1)
    BY <1>1 DEF Register, Goes
  <1> QED BY <1>1, <1>2, PlaceKept, OneIsARun DEF Dead

LEMMA UnregisteredStep ==
  ASSUME IInv, Child, [Next]_vars,
         rec' = NoRecord \/ reaper' \in {"file", "fail"}
  PROVE  Unregistered'
  <1>1. CASE rec' = NoRecord
    <2>1. rec = NoRecord /\ Unregistered
      BY <1>1, RecordStays DEF Child
    <2>2. ~Register(1)
      BY <1>1 DEF Register, Registered, NoRecord
    <2> QED BY <2>1, <2>2, PlaceStep, OneIsARun DEF Unregistered
  <1>2. CASE reaper' \in {"file", "fail"}
    <2>1. reaper \in {"file", "fail"} \/ (reaper = "read" /\ rec = NoRecord)
      BY <1>2, ReaperPath
    <2> QED BY <2>1, GoneStays DEF Child, Unregistered
  <1> QED BY <1>1, <1>2

\* The session has had one process
NotResumed == \A i \in Runs : i > 1 => proc[i] = "none"

LEMMA NotResumedOwner ==
  ASSUME IInv, NotResumed, rec.owner \in Runs PROVE rec.owner = 1
  <1>1. CASE MaxRuns = 1
    BY <1>1 DEF Runs
  <1>2. CASE MaxRuns > 1
    <2>1. 2 \in Runs /\ Fresh(2)
      BY <1>2, LedgerAssumption DEF Runs, NotResumed, Fresh
    <2>2. rec.owner < 2
      BY <2>1 DEF IInv, Older
    <2> QED BY <2>2, OneIsARun
  <1> QED BY <1>1, <1>2, LedgerAssumption

LEMMA VerdictStep ==
  ASSUME IInv, Child, [Next]_vars, Copied \/ NotResumed,
         reaper' = "done", rec'.owner = 1, pc'[1] \notin {"get", "register"}
  PROVE  rec'.state \in Verdicts
  <1>t. rec \in Record \cup {NoRecord} /\ NoRecord.owner = 0
    BY DEF IInv, LedgerTypeOK, NoRecord
  <1>1. CASE ReapSettle
    <2>1. status \in Verdicts /\ rec' = Finalized(status, TRUE)
      BY <1>1 DEF ReapSettle, Reaping, IInv, Reaped, Dead
    <2>2. rec.owner = 1
      BY <2>1, FinalizedType DEF IInv
    <2>3. rec \in Record
      BY <1>t, <2>2
    <2> QED BY <2>1, <2>3 DEF Finalized, Record, Verdicts
  <1>2. CASE ReapFail
    <2>1. reaper = "fail" /\ pc' = pc
      BY <1>2 DEF ReapFail, Reaping, loopVars
    <2> QED BY <2>1 DEF Child, Unregistered
  <1>3. CASE reaper = "done"
    <2>1. ~Register(1) /\ pc[1] \notin {"get", "register"}
      BY <1>3, GoneStays
    <2>2. rec.owner = 1 => rec.state \in Verdicts /\ rec \in Record
      BY <1>t, <1>3, <2>1 DEF Child, ChildHasVerdict
    <2>3. ASSUME NEW c \in 0 .. MaxOps, rec # NoRecord, rec' = [rec EXCEPT !.cursor = c]
          PROVE  rec'.state \in Verdicts
      <3>1. rec'.owner = rec.owner /\ rec'.state = rec.state
        BY <1>t, <2>3 DEF Record
      <3> QED BY <2>2, <3>1
    <2>4. ASSUME NEW v \in Verdicts, NEW o \in BOOLEAN, rec' = Finalized(v, o)
          PROVE  rec'.state \in Verdicts
      <3>1. rec.owner = 1 /\ (rec' = rec \/ rec'.state \in Verdicts)
        BY <2>4, FinalizedType DEF IInv
      <3> QED BY <2>2, <3>1
    <2>5. ASSUME NEW l \in Lookers, Persist(l), rec.state = "running",
                 rec' = Lost(look[l].copy)
          PROVE  FALSE
      <3>1. rec \in Record
        BY <1>t, <2>5 DEF NoRecord
      <3>2. rec.owner = 1
        <4>1. CASE Copied
          <5>1. look[l].copy = rec
            BY <2>5, <4>1 DEF Copied, Persist
          <5> QED BY <2>5, <3>1, <5>1 DEF Lost, Record
        <4>2. CASE NotResumed
          BY <3>1, <4>2, NotResumedOwner DEF Record
        <4> QED BY <4>1, <4>2
      <3> QED BY <2>2, <2>5, <3>2 DEF Verdicts
    <2>6. ASSUME NEW k \in Runs, Register(k) PROVE FALSE
      BY <2>1, <2>6 DEF Register, Registered
    <2>7. ~ReapFile
      BY <1>3 DEF ReapFile, Reaping
    <2> QED BY <2>2, <2>3, <2>4, <2>5, <2>6, <2>7, RecordStep
  <1> QED BY <1>1, <1>2, <1>3, ReaperPath

\* Once the console has reaped a child that had registered, its session ends
\* with what the child or its exit status said
THEOREM ChildrenHaveVerdicts == Calm /\ Spec => []ChildHasVerdict
  <1>1. Init => Child
    BY OneIsARun DEF Init, Child, Unregistered, ChildHasVerdict
  <1>2. OnceInv /\ Child /\ [Next]_vars => Child'
    <2> SUFFICES ASSUME OnceInv, Child, [Next]_vars PROVE Child'
      OBVIOUS
    <2>1. IInv /\ Copied
      BY DEF OnceInv, CalmInv
    <2>2. ChildHasVerdict'
      BY <2>1, VerdictStep DEF ChildHasVerdict
    <2>3. rec' = NoRecord \/ reaper' \in {"file", "fail"} => Unregistered'
      BY <2>1, UnregisteredStep
    <2> QED BY <2>2, <2>3 DEF Child
  <1>3. Child => ChildHasVerdict
    BY DEF Child
  <1> QED BY <1>1, <1>2, <1>3, OnceInvariant, PTL DEF Spec

-----------------------------------------------------------------------------
(* What a stop has signalled is filed, under Calm *)

\* While the console waits for its child, nobody resumes the session
ReaperFirst == reaper \notin {"off", "done"} => NotResumed

\* A verdict other than stopped is the run's own word, or says how it exited
Worded ==
    \A i \in Runs :
        /\ rec.owner = i /\ rec.state \in Verdicts /\ pc[i] \notin {"get", "register"}
        => rec.state = "stopped" \/ HadItsWord(i)

StatusSaid ==
    proc[1] \in Dead
    => status = "stopped" \/ HadItsWord(1) \/ pc[1] \in {"get", "register"}

\* Whoever can be signalled by the record has registered
Known(i) == pc[i] \notin {"get", "register"}
OwnerKnown == \A i \in Runs : rec.owner = i /\ proc[i] # "gone" => Known(i)

\* A signalled run that has no verdict yet has its stop still at work
Pending ==
    \A i \in struck :
        /\ Known(i)
        /\ rec.owner = i /\ rec.state \notin Verdicts
           => stopper.at # "off" /\ (stopper.term \/ stopper.kill)

FiledInv == /\ ReaperFirst /\ Worded /\ StatusSaid /\ OwnerKnown /\ Pending
            /\ Child

LEMMA KnownStays ==
  ASSUME IInv, [Next]_vars, NEW i \in Runs
  PROVE  /\ Known(i) => Known(i)'
         /\ Known(i)' => Known(i) \/ Register(i)
  BY PlaceStep DEF Known

\* The record keeps its owner but for a run that registers and a record filed
\* for a child
LEMMA OwnerStep ==
  ASSUME OnceInv, [Next]_vars
  PROVE  \/ rec'.owner = rec.owner /\ (rec'.state = rec.state \/ rec'.state \in Verdicts)
         \/ rec'.owner = rec.owner /\ rec.state = "running" /\ rec'.state = "lost"
         \/ \E k \in Runs : Register(k)
         \/ ReapFile
  <1>i. IInv /\ Copied
    BY DEF OnceInv, CalmInv
  <1>t. rec \in Record \cup {NoRecord}
    BY <1>i DEF IInv, LedgerTypeOK
  <1>1. ASSUME NEW c \in 0 .. MaxOps, rec # NoRecord, rec' = [rec EXCEPT !.cursor = c]
        PROVE  rec'.owner = rec.owner /\ rec'.state = rec.state
    BY <1>t, <1>1 DEF Record
  <1>2. ASSUME NEW v \in Verdicts, NEW o \in BOOLEAN, rec' = Finalized(v, o)
        PROVE  rec'.owner = rec.owner /\ (rec'.state = rec.state \/ rec'.state \in Verdicts)
    BY <1>i, <1>2, FinalizedType DEF IInv
  <1>3. ASSUME NEW l \in Lookers, Persist(l), rec.state = "running",
               rec' = Lost(look[l].copy)
        PROVE  rec'.owner = rec.owner /\ rec'.state = "lost"
    <2>1. look[l].copy = rec
      BY <1>i, <1>3 DEF Copied, Persist
    <2> QED BY <1>t, <1>3, <2>1, LostType
  <1> QED BY <1>i, <1>1, <1>2, <1>3, RecordStep

\* Who gives a verdict
LEMMA WriterStep ==
  ASSUME IInv, [Next]_vars, rec'.state \in Verdicts, rec'.state # rec.state
  PROVE  \/ \E k \in Runs : Conclude(k)
         \/ ReapSettle \/ ReapFail \/ FinalizeStopped
  <1> DEFINE Goal == \/ \E k \in Runs : Conclude(k)
                     \/ ReapSettle \/ ReapFail \/ FinalizeStopped
  <1>1. ASSUME NEW l \in Lookers, Look(l) \/ Judge(l) \/ Persist(l) PROVE Goal
    <2>1. CASE Persist(l)
      <3>1. look[l].copy \in Record \cup {NoRecord} /\ look[l].copy.state = "running"
        BY <2>1 DEF IInv, LedgerTypeOK, Judged, Persist
      <3> QED BY <2>1, <3>1, LostType DEF Persist, Verdicts
    <2> QED BY <1>1, <2>1 DEF Look, Judge
  <1>2. ASSUME NEW l \in Readers, Send(l) \/ Stop(l) \/ Show(l) PROVE Goal
    BY <1>2 DEF Send, Stop, Show
  <1>3. ASSUME NEW k \in Runs, Runner(k) PROVE Goal
    <2>1. CASE Save(k)
      <3>1. rec = NoRecord => rec' = rec
        BY <2>1 DEF Save
      <3>2. rec \in Record => rec'.state = rec.state
        BY <2>1 DEF Save, Record
      <3> QED BY <3>1, <3>2 DEF IInv, LedgerTypeOK
    <2>2. CASE Register(k)
      BY <2>2 DEF Register, Registered, Verdicts
    <2> QED BY <1>3, <2>1, <2>2
            DEF Runner, Resume, Read, Apply, Work, Crash, Exit, Killed, Dies
  <1>4. CASE Reaper
    BY <1>4 DEF Reaper, Reap, ReapRead, ReapFile, Registered, Verdicts
  <1>5. CASE Escalation
    BY <1>5 DEF Escalation, Watch, NotYet, Term, Kill, GiveUp
  <1>6. CASE Spawn \/ ConsoleDies \/ UNCHANGED vars
    BY <1>6 DEF Spawn, ConsoleDies, vars
  <1> QED BY <1>1, <1>2, <1>3, <1>4, <1>5, <1>6 DEF Next

LEMMA ReaperFirstStep ==
  OnceInv /\ FiledInv /\ [Next]_vars => ReaperFirst'
  <1> SUFFICES ASSUME OnceInv, FiledInv, [Next]_vars, reaper' \notin {"off", "done"}
               PROVE  NotResumed'
    BY DEF ReaperFirst
  <1>i. IInv /\ Calm
    BY DEF OnceInv, CalmInv
  <1>1. CASE Spawn
    <2>1. \A k \in Runs : k > 1 => proc[k] = "none"
      BY <1>i, <1>1, OneIsARun DEF Spawn, IInv, Ordered, Dead
    <2>2. proc' = [proc EXCEPT ![1] = "up"]
      BY <1>1 DEF Spawn
    <2>3. proc \in [Runs -> {"none", "up", "zombie", "gone"}]
      BY <1>i DEF IInv, LedgerTypeOK
    <2>4. ASSUME NEW k \in Runs, k > 1 PROVE proc'[k] = "none"
      <3>1. k # 1
        BY <2>4, OneIsARun
      <3> QED BY <2>1, <2>2, <2>3, <2>4, <3>1
    <2> QED BY <2>4 DEF NotResumed
  <1>2. CASE ~Spawn
    <2>1. reaper \notin {"off", "done"} /\ \A k \in Runs : ~Resume(k)
      <3>1. ASSUME NEW l \in Lookers, Look(l) \/ Judge(l) \/ Persist(l)
            PROVE  reaper' = reaper /\ proc' = proc
        BY <3>1 DEF Look, Judge, Persist, Return, runVars, procVars
      <3>2. ASSUME NEW l \in Readers, Send(l) \/ Stop(l) \/ Show(l)
            PROVE  reaper' = reaper /\ proc' = proc
        BY <3>2 DEF Send, Stop, Show, runVars, procVars
      <3>3. ASSUME NEW k \in Runs, Runner(k) PROVE reaper' = reaper
        BY <3>3 DEF Runner, Resume, Register, Read, Save, Apply, Work, Crash, Conclude,
                    Exit, Killed, Dies, Goes
      <3>4. Escalation \/ UNCHANGED vars => reaper' = reaper
        BY DEF Escalation, Watch, NotYet, Term, Kill, GiveUp, FinalizeStopped,
               Stopping, vars
      <3>5. Reaper => reaper \notin {"off", "done"}
        BY DEF Reaper, Reap, ReapRead, ReapSettle, ReapFile, ReapFail, Reaping
      <3>6. ~ConsoleDies
        BY DEF ConsoleDies
      <3>7. reaper \notin {"off", "done"}
        BY <1>2, <3>1, <3>2, <3>3, <3>4, <3>5, <3>6 DEF Next
      <3> QED BY <1>i, <3>7 DEF Resume
    <2>2. NotResumed
      BY <2>1 DEF FiledInv, ReaperFirst
    <2>3. ASSUME NEW i \in Runs, i > 1 PROVE proc'[i] = "none"
      <3>1. proc[i] = "none" /\ i # 1
        BY <2>2, <2>3, OneIsARun DEF NotResumed
      <3>t. proc \in [Runs -> {"none", "up", "zombie", "gone"}]
        BY <1>i DEF IInv, LedgerTypeOK
      <3>2. ASSUME NEW l \in Lookers, Look(l) \/ Judge(l) \/ Persist(l) PROVE proc' = proc
        BY <3>2 DEF Look, Judge, Persist, Return, runVars, procVars
      <3>3. ASSUME NEW l \in Readers, Send(l) \/ Stop(l) \/ Show(l) PROVE proc' = proc
        BY <3>3 DEF Send, Stop, Show, runVars, procVars
      <3>4. ASSUME NEW k \in Runs, Runner(k) PROVE proc'[i] = "none"
        <4>1. CASE Exit(k) \/ Killed(k)
          <5>1. k # i /\ \E x \in {"zombie", "gone"} : proc' = [proc EXCEPT ![k] = x]
            BY <3>1, <4>1 DEF Exit, Killed, Dies
          <5> QED BY <3>t, <3>1, <5>1
        <4> QED BY <2>1, <3>1, <3>4, <4>1
                DEF Runner, Register, Read, Save, Apply, Work, Crash, Conclude, Goes,
                    procVars
      <3>5. Reaper \/ ConsoleDies => proc'[i] = proc[i]
        BY <3>t, <3>1 DEF Reaper, Reap, ReapRead, ReapSettle, ReapFile, ReapFail,
                          ConsoleDies
      <3>6. Escalation \/ UNCHANGED vars => proc' = proc
        BY DEF Escalation, Watch, NotYet, Term, Kill, GiveUp, FinalizeStopped,
               Stopping, vars, runVars, procVars
      <3> QED BY <1>2, <3>1, <3>2, <3>3, <3>4, <3>5, <3>6 DEF Next
    <2> QED BY <2>3 DEF NotResumed
  <1> QED BY <1>1, <1>2

LEMMA WordedStep == OnceInv /\ FiledInv /\ [Next]_vars => Worded'
  <1> SUFFICES ASSUME OnceInv, FiledInv, [Next]_vars, NEW i \in Runs,
                      rec'.owner = i, rec'.state \in Verdicts, Known(i)'
               PROVE  rec'.state = "stopped" \/ HadItsWord(i)'
    BY DEF Worded, Known
  <1>i. IInv /\ Owns /\ ReaperFirst /\ StatusSaid /\ Child
    BY DEF OnceInv, CalmInv, FiledInv
  <1>0. (\A k \in Runs : ~Register(k)) /\ ~ReapFile
    BY DEF Register, ReapFile, Registered, Verdicts
  <1>1. rec.owner = i /\ Known(i)
    BY <1>i, <1>0, KnownStays, OwnerStep DEF Verdicts
  <1>2. CASE rec'.state = rec.state
    BY <1>i, <1>1, <1>2, PlaceKept DEF FiledInv, Worded, Known, HadItsWord
  <1>3. ASSUME NEW k \in Runs, Conclude(k), rec'.state # rec.state
        PROVE  HadItsWord(i)'
    <2>1. PICK v \in Verdicts :
            /\ Goes(k, v, IF v = "failed" THEN "exit 1" ELSE "exit 0")
            /\ rec' = Finalized(v, FALSE)
      BY <1>3 DEF Conclude
    <2>2. rec.state = "running" /\ Live(k)
      BY <1>3, <2>1 DEF Finalized, Goes, Live, Verdicts
    <2>3. k = i
      BY <1>i, <1>1, <2>2 DEF Owns
    <2> QED BY <1>i, <2>1, <2>3 DEF Goes, HadItsWord, IInv, LedgerTypeOK
  <1>4. CASE FinalizeStopped /\ rec'.state # rec.state
    <2>1. rec' = [rec EXCEPT !.state = "stopped"] /\ rec \in Record \cup {NoRecord}
      BY <1>i, <1>4 DEF FinalizeStopped, Finalized, IInv, LedgerTypeOK
    <2> QED BY <2>1 DEF Record, NoRecord
  <1>5. CASE ReapSettle /\ rec'.state # rec.state
    <2>1. NotResumed /\ proc[1] \in Dead /\ pc' = pc
      BY <1>i, <1>5
      DEF ReapSettle, Reaping, ReaperFirst, IInv, Reaped, Dead, loopVars
    <2>2. i = 1
      BY <1>i, <1>1, <2>1, NotResumedOwner
    <2>3. rec'.state = status
      <3>1. rec' = [rec EXCEPT !.state = status] /\ rec \in Record \cup {NoRecord}
        BY <1>i, <1>5 DEF ReapSettle, Finalized, IInv, LedgerTypeOK
      <3> QED BY <3>1 DEF Record, NoRecord
    <2> QED BY <1>i, <1>1, <2>1, <2>2, <2>3 DEF StatusSaid, HadItsWord, Known
  <1>6. CASE ReapFail
    <2>1. NotResumed /\ Unregistered
      BY <1>i, <1>6 DEF ReapFail, Reaping, ReaperFirst, Child
    <2>2. i = 1
      BY <1>i, <1>1, <2>1, NotResumedOwner
    <2> QED BY <1>1, <2>1, <2>2 DEF Unregistered, Known
  <1> QED BY <1>i, <1>2, <1>3, <1>4, <1>5, <1>6, WriterStep

LEMMA StatusSaidStep == OnceInv /\ FiledInv /\ [Next]_vars => StatusSaid'
  <1> SUFFICES ASSUME OnceInv, FiledInv, [Next]_vars, proc'[1] \in Dead
               PROVE  status' = "stopped" \/ HadItsWord(1)' \/ pc'[1] \in {"get", "register"}
    BY DEF StatusSaid
  <1>i. IInv /\ StatusSaid
    BY DEF OnceInv, CalmInv, FiledInv
  <1>t. proc \in [Runs -> {"none", "up", "zombie", "gone"}]
    BY <1>i DEF IInv, LedgerTypeOK
  <1>1. ASSUME NEW s, Dies(1, s), \/ s = "stopped" \/ HadItsWord(1)
                                 \/ pc[1] \in {"get", "register"}
        PROVE  status' = "stopped" \/ HadItsWord(1)' \/ pc'[1] \in {"get", "register"}
    BY <1>1 DEF Dies, HadItsWord
  <1>2. CASE Exit(1)
    BY <1>1, <1>2 DEF Exit, HadItsWord
  <1>3. CASE Killed(1)
    BY <1>1, <1>3 DEF Killed
  <1>4. CASE ~Exit(1) /\ ~Killed(1)
    <2>1. status' = status /\ proc[1] \in Dead
      <3>1. ASSUME NEW l \in Lookers, Look(l) \/ Judge(l) \/ Persist(l)
            PROVE  status' = status /\ proc' = proc
        BY <3>1 DEF Look, Judge, Persist, Return, runVars, procVars
      <3>2. ASSUME NEW l \in Readers, Send(l) \/ Stop(l) \/ Show(l)
            PROVE  status' = status /\ proc' = proc
        BY <3>2 DEF Send, Stop, Show, runVars, procVars
      <3>3. ASSUME NEW k \in Runs, Runner(k) PROVE status' = status /\ proc'[1] = proc[1]
        <4>1. CASE Exit(k) \/ Killed(k)
          <5>1. k # 1
            BY <1>4, <4>1
          <5> QED BY <1>t, <4>1, <5>1, OneIsARun DEF Exit, Killed, Dies
        <4>2. CASE Resume(k)
          <5>1. k # 1
            BY <4>2, OneIsARun DEF Resume
          <5> QED BY <1>t, <4>2, <5>1, OneIsARun DEF Resume
        <4> QED BY <3>3, <4>1, <4>2
                DEF Runner, Register, Read, Save, Apply, Work, Crash, Conclude, Goes,
                    procVars
      <3>4. CASE Spawn
        BY <1>t, <3>4, OneIsARun DEF Spawn, Dead
      <3>5. Reaper \/ ConsoleDies => status' = status /\ proc[1] \in Dead
        BY <1>t, OneIsARun DEF Reaper, Reap, ReapRead, ReapSettle, ReapFile, ReapFail,
                               Reaping, ConsoleDies, Dead
      <3>6. Escalation \/ UNCHANGED vars => status' = status /\ proc' = proc
        BY DEF Escalation, Watch, NotYet, Term, Kill, GiveUp, FinalizeStopped,
               Stopping, vars, runVars, procVars
      <3> QED BY <3>1, <3>2, <3>3, <3>4, <3>5, <3>6 DEF Next
    <2>2. pc'[1] = pc[1]
      BY <1>i, <2>1, PlaceKept, OneIsARun
    <2> QED BY <1>i, <2>1, <2>2 DEF StatusSaid, HadItsWord
  <1> QED BY <1>2, <1>3, <1>4

LEMMA OwnerKnownStep == OnceInv /\ FiledInv /\ [Next]_vars => OwnerKnown'
  <1> SUFFICES ASSUME OnceInv, FiledInv, [Next]_vars, NEW i \in Runs,
                      rec'.owner = i, proc'[i] # "gone"
               PROVE  Known(i)'
    BY DEF OwnerKnown
  <1>i. IInv
    BY DEF OnceInv, CalmInv
  <1>1. CASE rec.owner = i
    <2>1. proc[i] # "gone"
      BY <1>i, ProcStep
    <2> QED BY <1>i, <1>1, <2>1, KnownStays DEF FiledInv, OwnerKnown
  <1>2. ASSUME NEW k \in Runs, Register(k) PROVE Known(i)'
    <2>1. i = k /\ pc'[k] = "turn"
      BY <1>i, <1>2 DEF Register, Registered, Goes, IInv, LedgerTypeOK
    <2> QED BY <2>1 DEF Known
  <1>3. ~ReapFile
    <2>1. CASE ReapFile
      BY <1>i, <2>1 DEF ReapFile, Reaping, Registered, IInv, Reaped
    <2> QED BY <2>1
  <1> QED BY <1>1, <1>2, <1>3, OwnerStep

\* What a stop does while it has signalled a run and not filed it
LEMMA StopGoesOn ==
  ASSUME IInv, [Next]_vars, ~ConsoleDies, stopper.at # "off",
         stopper.term \/ stopper.kill, rec # NoRecord
  PROVE  \/ stopper'.at # "off" /\ (stopper'.term \/ stopper'.kill)
         \/ rec'.state \in Verdicts
  <1> DEFINE Goal == \/ stopper'.at # "off" /\ (stopper'.term \/ stopper'.kill)
                     \/ rec'.state \in Verdicts
  <1>t. stopper \in Stopper /\ rec \in Record
    BY DEF IInv, LedgerTypeOK
  <1>1. stopper' = stopper => Goal
    OBVIOUS
  <1>2. CASE FinalizeStopped
    BY <1>t, <1>2 DEF FinalizeStopped, Finalized, Record, Verdicts
  <1>3. CASE Watch \/ NotYet \/ Kill \/ GiveUp
    BY <1>t, <1>3 DEF Watch, NotYet, Kill, GiveUp, Stopper
  <1>4. ~Term \/ stopper'.kill \/ stopper'.term \/ Goal
    BY <1>t DEF Term, Stopper
  <1>5. CASE Term
    BY <1>t, <1>5 DEF Term, Stopper
  <1>6. ASSUME NEW l \in Lookers, Look(l) \/ Judge(l) \/ Persist(l)
        PROVE  stopper' = stopper
    BY <1>6 DEF Look, Judge, Persist, Return
  <1>7. ASSUME NEW l \in Readers, Send(l) \/ Stop(l) \/ Show(l)
        PROVE  stopper' = stopper
    BY <1>7 DEF Send, Stop, Show, Calmed
  <1>8. ASSUME NEW k \in Runs, Runner(k) PROVE stopper' = stopper
    BY <1>8 DEF Runner, Resume, Register, Read, Save, Apply, Work, Crash, Conclude,
                Exit, Killed, Dies, Goes
  <1>9. Spawn \/ Reaper \/ UNCHANGED vars => stopper' = stopper
    BY DEF Spawn, Reaper, Reap, ReapRead, ReapSettle, ReapFile, ReapFail, Reaping, vars
  <1> QED BY <1>1, <1>2, <1>3, <1>5, <1>6, <1>7, <1>8, <1>9 DEF Next, Escalation

LEMMA StruckStep ==
  ASSUME [Next]_vars
  PROVE  \/ struck' = struck
         \/ struck' = {} /\ ConsoleDies
         \/ /\ Term \/ Kill
            /\ struck' = IF Signallable THEN struck \cup {rec.owner} ELSE struck
  <1>1. ASSUME NEW l \in Lookers, Look(l) \/ Judge(l) \/ Persist(l)
        PROVE  struck' = struck
    BY <1>1 DEF Look, Judge, Persist, Return, runVars, procVars
  <1>2. ASSUME NEW l \in Readers, Send(l) \/ Stop(l) \/ Show(l)
        PROVE  struck' = struck
    BY <1>2 DEF Send, Stop, Show, runVars, procVars
  <1>3. ASSUME NEW k \in Runs, Runner(k) PROVE struck' = struck
    BY <1>3 DEF Runner, Resume, Register, Read, Save, Apply, Work, Crash, Conclude,
                Exit, Killed, Dies, Goes, procVars
  <1>4. Spawn \/ Reaper \/ UNCHANGED vars => struck' = struck
    BY DEF Spawn, Reaper, Reap, ReapRead, ReapSettle, ReapFile, ReapFail, Reaping,
           vars, runVars, procVars
  <1>5. Watch \/ NotYet \/ GiveUp \/ FinalizeStopped => struck' = struck
    BY DEF Watch, NotYet, GiveUp, FinalizeStopped
  <1>6. Term \/ Kill => struck' = IF Signallable THEN struck \cup {rec.owner} ELSE struck
    BY DEF Term, Kill, Struck
  <1>7. ConsoleDies => struck' = {}
    BY DEF ConsoleDies
  <1> QED BY <1>1, <1>2, <1>3, <1>4, <1>5, <1>6, <1>7 DEF Next, Escalation

LEMMA PendingStep == OnceInv /\ FiledInv /\ [Next]_vars => Pending'
  <1> SUFFICES ASSUME OnceInv, FiledInv, [Next]_vars, NEW i \in struck'
               PROVE  /\ Known(i)'
                      /\ rec'.owner = i /\ rec'.state \notin Verdicts
                         => stopper'.at # "off" /\ (stopper'.term \/ stopper'.kill)
    BY DEF Pending
  <1>i. IInv /\ Pending /\ OwnerKnown /\ Child
    BY DEF OnceInv, CalmInv, FiledInv
  <1>t. struck \subseteq Runs /\ stopper \in Stopper
    BY <1>i DEF IInv, LedgerTypeOK
  <1>1. CASE i \in struck
    <2>1. Known(i) /\ Known(i)' /\ ~ConsoleDies /\ i \in Runs
      BY <1>i, <1>t, <1>1, KnownStays DEF Pending, ConsoleDies
    <2>2. ASSUME rec'.owner = i, rec'.state \notin Verdicts
          PROVE  stopper'.at # "off" /\ (stopper'.term \/ stopper'.kill)
      <3>1. ~ReapFile /\ \A k \in Runs : ~Register(k)
        <4>1. ReapFile => Unregistered /\ rec'.owner = 1
          BY <1>i DEF ReapFile, Reaping, Registered, Child
        <4>2. ASSUME NEW k \in Runs, Register(k) PROVE FALSE
          BY <2>1, <2>2, <4>2 DEF Register, Registered, Goes, Known
        <4> QED BY <2>1, <2>2, <4>1, <4>2 DEF Unregistered, Known
      <3>2. rec.owner = i /\ rec.state \notin Verdicts
        BY <2>2, <3>1, OwnerStep DEF Verdicts
      <3>3. rec # NoRecord
        BY <2>1, <3>2, OneIsARun DEF NoRecord
      <3> QED BY <1>i, <1>1, <2>1, <2>2, <3>2, <3>3, StopGoesOn DEF Pending
    <2> QED BY <2>1, <2>2
  <1>2. CASE i \notin struck
    <2>1. (Term \/ Kill) /\ Signallable /\ i = rec.owner
      BY <1>2, StruckStep
    <2>2. Known(i) /\ i \in Runs
      BY <1>i, <2>1 DEF Signallable, OwnerKnown
    <2>3. stopper'.at # "off" /\ (stopper'.term \/ stopper'.kill)
      BY <1>t, <2>1 DEF Term, Kill, Stopper, Signallable
    <2> QED BY <1>i, <2>2, <2>3, KnownStays
  <1> QED BY <1>1, <1>2

\* A run that a stop has signalled is filed as stopped once the stop is through,
\* unless it had a last word of its own
THEOREM SignalledIsStopped == Calm /\ Spec => []SignalledIsFiled
  <1>1. Init => FiledInv
    <2> SUFFICES ASSUME Init PROVE FiledInv
      OBVIOUS
    <2>1. Child /\ ReaperFirst /\ Pending
      BY OneIsARun DEF Init, Child, Unregistered, ChildHasVerdict, ReaperFirst, Pending
    <2>2. Worded /\ OwnerKnown
      <3>1. \A i \in Runs : rec.owner # i
        BY OneIsARun DEF Init, NoRecord
      <3> QED BY <3>1 DEF Worded, OwnerKnown
    <2>3. StatusSaid
      BY OneIsARun DEF Init, StatusSaid, Dead
    <2> QED BY <2>1, <2>2, <2>3 DEF FiledInv
  <1>2. OnceInv /\ FiledInv /\ [Next]_vars => FiledInv'
    <2> SUFFICES ASSUME OnceInv, FiledInv, [Next]_vars PROVE Child'
      BY ReaperFirstStep, WordedStep, StatusSaidStep, OwnerKnownStep, PendingStep
      DEF FiledInv
    <2>1. IInv /\ Copied /\ Child
      BY DEF OnceInv, CalmInv, FiledInv
    <2>2. ChildHasVerdict'
      BY <2>1, VerdictStep DEF ChildHasVerdict
    <2>3. rec' = NoRecord \/ reaper' \in {"file", "fail"} => Unregistered'
      BY <2>1, UnregisteredStep
    <2> QED BY <2>2, <2>3 DEF Child
  <1>3. OnceInv /\ FiledInv => SignalledIsFiled
    <2> SUFFICES ASSUME OnceInv, FiledInv, stopper.at = "off", rec.owner \in struck
                 PROVE  \/ rec.state = "stopped"
                        \/ rec.state \in Verdicts /\ HadItsWord(rec.owner)
      BY DEF SignalledIsFiled
    <2>1. rec.owner \in Runs
      BY DEF OnceInv, CalmInv, IInv, LedgerTypeOK
    <2>2. rec.state \in Verdicts /\ Known(rec.owner)
      BY DEF FiledInv, Pending
    <2> QED BY <2>1, <2>2 DEF FiledInv, Worded, Known
  <1> QED BY <1>1, <1>2, <1>3, OnceInvariant, PTL DEF Spec

-----------------------------------------------------------------------------
(* What holds of every read, however old its copy *)

\* A reader that writes `lost' has a copy whose process is dead
JudgedDead ==
    \A l \in Lookers : look[l].at = "persist" =>
        look[l].copy.owner \in Runs /\ proc[look[l].copy.owner] \in Dead

LEMMA JudgedDeadStep == IInv /\ JudgedDead /\ [Next]_vars => JudgedDead'
  <1> SUFFICES ASSUME IInv, JudgedDead, [Next]_vars, NEW l \in Lookers,
                      look'[l].at = "persist"
               PROVE  look'[l].copy.owner \in Runs /\ proc'[look'[l].copy.owner] \in Dead
    BY DEF JudgedDead
  <1>1. CASE look'[l] = look[l]
    BY <1>1, ProcStep DEF JudgedDead
  <1>2. CASE /\ look'[l].copy = (IF Calm THEN rec ELSE look[l].copy)
             /\ Stale(look'[l].copy) /\ UNCHANGED <<rec, proc, pc>>
    <2> DEFINE r == look'[l].copy
    <2>1. r \in Record \cup {NoRecord} /\ r.state = "running" /\ ~OwnerAlive(r)
      BY <1>2 DEF IInv, LedgerTypeOK, Stale
    <2>2. r.owner \in Runs
      BY <2>1 DEF Record, NoRecord
    <2>3. Older(r)
      BY <1>2 DEF IInv
    <2>4. ~Fresh(r.owner) /\ proc[r.owner] # "up"
      BY <2>1, <2>2, <2>3, OneIsARun DEF Older, OwnerAlive
    <2>5. proc[r.owner] \in {"none", "up", "zombie", "gone"}
      BY <2>2 DEF IInv, LedgerTypeOK
    <2> QED BY <1>2, <2>2, <2>4, <2>5 DEF Fresh, Dead
  <1> QED BY <1>1, <1>2, CopyStep

LEMMA LostIsDeadStep == IInv /\ JudgedDead /\ LostIsDead /\ [Next]_vars => LostIsDead'
  <1> SUFFICES ASSUME IInv, JudgedDead, LostIsDead, [Next]_vars, rec'.state = "lost"
               PROVE  rec'.owner \in Runs /\ proc'[rec'.owner] \in Dead
    BY DEF LostIsDead
  <1>t. rec \in Record \cup {NoRecord} /\ NoRecord.state # "lost"
    BY DEF IInv, LedgerTypeOK, NoRecord
  <1>1. CASE rec.state = "lost" /\ rec'.owner = rec.owner
    BY <1>1, ProcStep DEF LostIsDead
  <1>2. ASSUME NEW c \in 0 .. MaxOps, rec # NoRecord, rec' = [rec EXCEPT !.cursor = c]
        PROVE  rec.state = "lost" /\ rec'.owner = rec.owner
    BY <1>t, <1>2 DEF Record
  <1>3. ASSUME NEW v \in Verdicts, NEW o \in BOOLEAN, rec' = Finalized(v, o)
        PROVE  rec.state = "lost" /\ rec'.owner = rec.owner
    BY <1>3, FinalizedType DEF IInv, Verdicts
  <1>4. ASSUME NEW l \in Lookers, Persist(l), rec' = Lost(look[l].copy)
        PROVE  rec'.owner \in Runs /\ proc'[rec'.owner] \in Dead
    <2>1. /\ look[l].copy \in Record \cup {NoRecord} /\ look[l].copy.state = "running"
          /\ look[l].at = "persist"
      BY <1>4 DEF IInv, LedgerTypeOK, Judged, Persist
    <2>2. rec'.owner = look[l].copy.owner
      BY <1>4, <2>1, LostType
    <2> QED BY <2>1, <2>2, ProcStep DEF JudgedDead
  <1>5. ~ReapFile /\ \A k \in Runs : ~Register(k)
    BY DEF ReapFile, Register, Registered
  <1> QED BY <1>1, <1>2, <1>3, <1>4, <1>5, RecordStep

\* However reads, registrations and deaths interleave, a record that says lost
\* names a process that is dead: what a stale copy can do is to bring such a
\* process back over a live one, never to call a live process dead
THEOREM LostNamesTheDead == Spec => []LostIsDead
  <1>1. Init => JudgedDead /\ LostIsDead
    BY DEF Init, JudgedDead, LostIsDead, Away, NoRecord
  <1> QED BY <1>1, JudgedDeadStep, LostIsDeadStep, LedgerInvariant, PTL DEF Spec

-----------------------------------------------------------------------------
(* How often an op is given to the model, however old the reads *)

\* With n runs born, no op was given to the model more than n times
OncePerRun ==
    \A n \in 0 .. MaxRuns : (\A i \in Runs : i > n => proc[i] = "none")
                            => \A k \in 1 .. MaxOps : applied[k] <= n

Fed(n) == \A k \in 1 .. MaxOps : applied[k] <= n

\* Run i was given no op above c
FedUpTo(i, c) == Fed(i) /\ \A k \in 1 .. MaxOps : k > c => applied[k] <= i - 1

\* What a run that is up was given
Hungry(i) ==
    proc[i] = "up" =>
        /\ pc[i] \in {"get", "register"} => Fed(i - 1)
        /\ pc[i] \in {"turn", "work"} => FedUpTo(i, cursor[i])
        /\ pc[i] \in {"save", "apply"} => FedUpTo(i, from[i]) /\ from[i] <= cursor[i]

\* No copy of the cursor is beyond the end of the inbox
AllWithin == /\ rec.cursor <= Len(inbox)
             /\ \A i \in Runs : cursor[i] <= Len(inbox)
             /\ \A l \in Lookers : look[l].copy.cursor <= Len(inbox)

FedInv == Unborn /\ AllWithin /\ OncePerRun /\ \A i \in Runs : Hungry(i)

\* The inbox only grows
LEMMA InboxGrows ==
  ASSUME IInv, [Next]_vars
  PROVE  Len(inbox') \in Nat /\ Len(inbox') >= Len(inbox)
  <1>1. inbox \in Seq({"say", "stop"}) /\ Len(inbox) \in Nat
    <2>1. inbox \in Seq({"say", "stop"})
      BY DEF IInv, LedgerTypeOK
    <2> QED BY <2>1
  <1>2. inbox' = inbox \/ \E op \in {"say", "stop"} : inbox' = Append(inbox, op)
    <2>1. ASSUME NEW l \in Lookers, Look(l) \/ Judge(l) \/ Persist(l) PROVE inbox' = inbox
      BY <2>1 DEF Look, Judge, Persist, Return
    <2>2. ASSUME NEW l \in Readers, Send(l) \/ Stop(l) \/ Show(l)
          PROVE  inbox' = inbox \/ \E op \in {"say", "stop"} : inbox' = Append(inbox, op)
      BY <2>2 DEF Send, Stop, Show
    <2>3. ASSUME NEW k \in Runs, Runner(k) PROVE inbox' = inbox
      BY <2>3 DEF Runner, Resume, Register, Read, Save, Apply, Work, Crash, Conclude,
                  Exit, Killed, Dies, Goes
    <2>4. Spawn \/ ConsoleDies \/ Reaper \/ Escalation \/ UNCHANGED vars => inbox' = inbox
      BY DEF Spawn, ConsoleDies, Reaper, Reap, ReapRead, ReapSettle, ReapFile,
             ReapFail, Reaping, Escalation, Watch, NotYet, Term, Kill, GiveUp,
             FinalizeStopped, Stopping, vars
    <2> QED BY <2>1, <2>2, <2>3, <2>4 DEF Next
  <1>3. \A op \in {"say", "stop"} : Len(Append(inbox, op)) = Len(inbox) + 1
    BY <1>1
  <1> QED BY <1>1, <1>2, <1>3

\* The steps of a run that is up and registered
Steps(i) == \/ Register(i) \/ Read(i) \/ Save(i) \/ Apply(i) \/ Work(i)
            \/ Crash(i) \/ Conclude(i)

\* What a step does to the cursors of a run, and to what it was given
LEMMA LoopStep ==
  ASSUME IInv, [Next]_vars, NEW i \in Runs, proc'[i] = "up"
  PROVE  \/ Steps(i)
         \/ /\ UNCHANGED applied /\ pc'[i] = pc[i]
            /\ cursor'[i] = cursor[i] /\ from'[i] = from[i]
         \/ UNCHANGED applied /\ pc[i] = "get" /\ pc'[i] = "register"
  <1> DEFINE Same == /\ UNCHANGED applied /\ pc'[i] = pc[i]
                     /\ cursor'[i] = cursor[i] /\ from'[i] = from[i]
             Got == UNCHANGED applied /\ pc[i] = "get" /\ pc'[i] = "register"
  <1>t. /\ pc \in [Runs -> {"get", "register", "turn", "save", "apply", "work",
                            "exit 0", "exit 1"} \cup Verdicts]
        /\ cursor \in [Runs -> 0 .. MaxOps] /\ from \in [Runs -> 0 .. MaxOps]
        /\ proc \in [Runs -> {"none", "up", "zombie", "gone"}]
    BY DEF IInv, LedgerTypeOK
  <1>r. \A k \in Runs : look[k].at # "idle" => pc[k] = "get"
    BY DEF IInv, Reading
  <1>1. ASSUME NEW l \in Lookers, NEW r, look[l].at # "idle", Return(l, r)
        PROVE  Same \/ Got
    <2>1. CASE l \notin Runs \/ l # i
      BY <1>1, <1>t, <2>1 DEF Return
    <2>2. CASE l \in Runs /\ l = i
      BY <1>1, <1>t, <1>r, <2>2 DEF Return
    <2> QED BY <2>1, <2>2
  <1>2. ASSUME NEW l \in Lookers, Look(l) PROVE Same
    BY <1>2 DEF Look, runVars, loopVars
  <1>3. ASSUME NEW l \in Lookers, Judge(l) PROVE Same \/ Got
    <2>1. Same \/ \E r : Return(l, r)
      BY <1>3 DEF Judge, runVars, loopVars
    <2>2. look[l].at # "idle"
      BY <1>3 DEF Judge
    <2> QED BY <1>1, <2>1, <2>2
  <1>4. ASSUME NEW l \in Lookers, Persist(l) PROVE Same \/ Got
    BY <1>1, <1>4 DEF Persist
  <1>5. ASSUME NEW l \in Readers, Send(l) \/ Stop(l) \/ Show(l) PROVE Same
    BY <1>5 DEF Send, Stop, Show, runVars, loopVars
  <1>6. ASSUME NEW k \in Runs, Runner(k) PROVE Same \/ Steps(i)
    <2>1. CASE Resume(k)
      BY <2>1 DEF Resume, loopVars
    <2>2. CASE Exit(k) \/ Killed(k)
      <3>1. k # i
        BY <1>t, <2>2 DEF Exit, Killed, Dies
      <3> QED BY <1>t, <2>2, <3>1 DEF Exit, Killed, Dies
    <2>3. CASE Steps(k)
      <3>1. proc[k] = "up" /\ proc'[i] = proc[i]
        BY <2>3 DEF Steps, Register, Read, Save, Apply, Work, Crash, Conclude, Goes,
                    procVars
      <3>2. k = i
        BY <3>1, OneUp
      <3> QED BY <2>3, <3>2
    <2> QED BY <1>6, <2>1, <2>2, <2>3 DEF Runner, Steps
  <1>7. Spawn \/ ConsoleDies \/ Reaper \/ Escalation \/ UNCHANGED vars => Same
    BY DEF Spawn, ConsoleDies, Reaper, Reap, ReapRead, ReapSettle, ReapFile,
           ReapFail, Reaping, Escalation, Watch, NotYet, Term, Kill, GiveUp,
           FinalizeStopped, Stopping, vars, runVars, loopVars
  <1> QED BY <1>2, <1>3, <1>4, <1>5, <1>6, <1>7 DEF Next

\* Where a cursor is from
LEMMA CursorStep ==
  ASSUME IInv, [Next]_vars, NEW i \in Runs
  PROVE  \/ cursor'[i] = cursor[i]
         \/ cursor'[i] = 0
         \/ cursor'[i] = rec.cursor \/ cursor'[i] = rec'.cursor
         \/ cursor'[i] <= Len(inbox)
         \/ \E l \in Lookers : cursor'[i] = look[l].copy.cursor
  <1> DEFINE Goal == \/ cursor'[i] = cursor[i]
                     \/ cursor'[i] = 0
                     \/ cursor'[i] = rec.cursor \/ cursor'[i] = rec'.cursor
                     \/ cursor'[i] <= Len(inbox)
                     \/ \E l \in Lookers : cursor'[i] = look[l].copy.cursor
  <1>t. cursor \in [Runs -> 0 .. MaxOps]
    BY DEF IInv, LedgerTypeOK
  <1>1. ASSUME NEW l \in Lookers, NEW r, Return(l, r)
        PROVE  cursor'[i] = cursor[i] \/ cursor'[i] = r.cursor
    BY <1>1, <1>t DEF Return
  <1>2. ASSUME NEW l \in Lookers, Look(l) PROVE Goal
    BY <1>2 DEF Look, runVars, loopVars
  <1>3. ASSUME NEW l \in Lookers, Judge(l) PROVE Goal
    <2>1. \/ cursor' = cursor
          \/ \E r : Return(l, r) /\ (r = rec \/ r = look[l].copy)
      BY <1>3 DEF Judge, runVars, loopVars
    <2> QED BY <1>1, <2>1
  <1>4. ASSUME NEW l \in Lookers, Persist(l) PROVE Goal
    BY <1>1, <1>4 DEF Persist
  <1>5. ASSUME NEW l \in Readers, Send(l) \/ Stop(l) \/ Show(l) PROVE Goal
    BY <1>5 DEF Send, Stop, Show, runVars, loopVars
  <1>6. ASSUME NEW k \in Runs, Runner(k) PROVE Goal
    <2>1. CASE Read(k)
      <3>1. cursor' = [cursor EXCEPT ![k] = Least(@ + MaxBatch, Len(inbox))]
        BY <2>1 DEF Read
      <3>2. cursor[k] \in Nat /\ Len(inbox) \in Nat
        BY OnceTypes DEF IInv
      <3>3. Least(cursor[k] + MaxBatch, Len(inbox)) <= Len(inbox)
        BY <3>2, LedgerAssumption DEF Least
      <3> QED BY <1>t, <3>1, <3>3
    <2>2. CASE Exit(k) \/ Killed(k)
      BY <1>t, <2>2 DEF Exit, Killed, Dies
    <2>3. CASE ~(Read(k) \/ Exit(k) \/ Killed(k))
      BY <1>6, <2>3 DEF Runner, Resume, Register, Save, Apply, Work, Crash, Conclude,
                        loopVars
    <2> QED BY <2>1, <2>2, <2>3
  <1>7. Spawn \/ ConsoleDies \/ Reaper \/ Escalation \/ UNCHANGED vars => cursor' = cursor
    BY DEF Spawn, ConsoleDies, Reaper, Reap, ReapRead, ReapSettle, ReapFile,
           ReapFail, Reaping, Escalation, Watch, NotYet, Term, Kill, GiveUp,
           FinalizeStopped, Stopping, vars, runVars, loopVars
  <1> QED BY <1>2, <1>3, <1>4, <1>5, <1>6, <1>7 DEF Next

\* ... and where the one on disk is from
LEMMA RecCursorStep ==
  ASSUME IInv, [Next]_vars
  PROVE  \/ rec'.cursor = rec.cursor \/ rec'.cursor = 0
         \/ \E k \in Runs : rec'.cursor = cursor[k]
         \/ \E l \in Lookers : rec'.cursor = look[l].copy.cursor
  <1>t. rec \in Record \cup {NoRecord}
    BY DEF IInv, LedgerTypeOK
  <1>1. ASSUME NEW k \in Runs, Save(k), rec # NoRecord PROVE rec'.cursor = cursor[k]
    <2>1. rec \in Record
      BY <1>t, <1>1
    <2> QED BY <1>1, <2>1 DEF Save, Record
  <1>2. ASSUME NEW v \in Verdicts, NEW o \in BOOLEAN, rec' = Finalized(v, o)
        PROVE  rec'.cursor = rec.cursor
    BY <1>t, <1>2 DEF Finalized, Record, NoRecord
  <1>3. ASSUME NEW l \in Lookers, Persist(l), rec' = Lost(look[l].copy)
        PROVE  rec'.cursor = look[l].copy.cursor
    <2>1. look[l].copy \in Record \cup {NoRecord}
      BY DEF IInv, LedgerTypeOK
    <2> QED BY <1>3, <2>1 DEF Lost, Record, NoRecord
  <1>4. ASSUME NEW k \in Runs, Register(k) PROVE rec'.cursor = cursor[k]
    BY <1>4 DEF Register, Registered
  <1>5. ReapFile => rec'.cursor = 0
    BY DEF ReapFile, Registered
  <1> QED BY <1>1, <1>2, <1>3, <1>4, <1>5, RecordStep

LEMMA AllWithinStep == IInv /\ AllWithin /\ [Next]_vars => AllWithin'
  <1> SUFFICES ASSUME IInv, AllWithin, [Next]_vars PROVE AllWithin'
    OBVIOUS
  <1> DEFINE Fits(c) == c <= Len(inbox)
  <1>n. Len(inbox) \in Nat
    BY OnceTypes DEF IInv
  <1>g. Len(inbox') \in Nat /\ Len(inbox') >= Len(inbox)
    BY InboxGrows
  <1>c. /\ Fits(rec.cursor) /\ Fits(0) /\ \A i \in Runs : Fits(cursor[i])
        /\ \A l \in Lookers : Fits(look[l].copy.cursor)
    BY <1>n DEF AllWithin
  <1>1. Fits(rec'.cursor)
    BY <1>c, RecCursorStep
  <1>2. ASSUME NEW i \in Runs PROVE Fits(cursor'[i])
    BY <1>c, <1>1, CursorStep
  <1>3. ASSUME NEW l \in Lookers PROVE Fits(look'[l].copy.cursor)
    <2>1. NoRecord.cursor = 0
      BY DEF NoRecord
    <2> QED BY <1>c, <2>1, CopyStep
  <1>4. LedgerTypeOK'
    BY TypeStep
  <1>5. /\ rec'.cursor \in Nat /\ \A i \in Runs : cursor'[i] \in Nat
        /\ \A l \in Lookers : look'[l].copy.cursor \in Nat
    <2>1. \A r \in Record \cup {NoRecord} : r.cursor \in Nat
      BY LedgerAssumption DEF Record, NoRecord
    <2>2. /\ rec' \in Record \cup {NoRecord} /\ cursor' \in [Runs -> 0 .. MaxOps]
          /\ \A l \in Lookers : look'[l].copy \in Record \cup {NoRecord}
      BY <1>4 DEF LedgerTypeOK
    <2> QED BY <2>1, <2>2, LedgerAssumption
  <1> QED BY <1>n, <1>g, <1>1, <1>2, <1>3, <1>5 DEF AllWithin


\* What a run's own step does to what it was given
LEMMA StepsHungry ==
  ASSUME IInv, AllWithin, NEW i \in Runs, Hungry(i), Steps(i)
  PROVE  Hungry(i)' /\ (applied' = applied \/ Fed(i)')
  <1>t. LedgerTypeOK
    BY DEF IInv
  <1>c. /\ cursor \in [Runs -> 0 .. MaxOps] /\ from \in [Runs -> 0 .. MaxOps]
        /\ pc \in [Runs -> {"get", "register", "turn", "save", "apply", "work",
                            "exit 0", "exit 1"} \cup Verdicts]
    BY <1>t DEF LedgerTypeOK
  <1>n. /\ Len(inbox) \in Nat /\ cursor[i] \in Nat /\ from[i] \in Nat /\ i \in Nat
        /\ DOMAIN applied = 1 .. MaxOps /\ \A j \in 1 .. MaxOps : applied[j] \in Nat
        /\ cursor[i] <= Len(inbox)
    BY <1>t, OnceTypes, OneIsARun DEF AllWithin
  <1>g. ASSUME NEW p, NEW q, Goes(i, p, q)
        PROVE  /\ proc[i] = "up" /\ pc[i] = p /\ pc'[i] = q /\ UNCHANGED inbox
    BY <1>g, <1>c DEF Goes
  <1>1. CASE Register(i)
    <2>1. /\ proc[i] = "up" /\ pc[i] = "register" /\ pc'[i] = "turn"
          /\ UNCHANGED applied
      BY <1>1, <1>g DEF Register
    <2>2. Fed(i - 1)
      BY <2>1 DEF Hungry
    <2>3. FedUpTo(i, cursor[i])'
      BY <1>n, <2>1, <2>2 DEF Fed, FedUpTo
    <2> QED BY <2>1, <2>3 DEF Hungry
  <1>2. CASE Read(i)
    <2> DEFINE c == Least(cursor[i] + MaxBatch, Len(inbox))
    <2>1. /\ proc[i] = "up" /\ pc[i] = "turn" /\ UNCHANGED applied
          /\ pc'[i] = IF cursor[i] < Len(inbox) THEN "save" ELSE "work"
          /\ from'[i] = cursor[i] /\ cursor'[i] = c
      BY <1>2, <1>c, <1>g DEF Read
    <2>2. cursor[i] <= c /\ (~(cursor[i] < Len(inbox)) => c = cursor[i])
      BY <1>n, LedgerAssumption DEF Least
    <2> HIDE DEF c
    <2>3. FedUpTo(i, cursor[i])
      BY <2>1 DEF Hungry
    <2> QED BY <2>1, <2>2, <2>3 DEF Hungry, FedUpTo, Fed
  <1>3. CASE Save(i)
    <2>1. /\ proc[i] = "up" /\ pc[i] = "save" /\ pc'[i] = "apply"
          /\ UNCHANGED <<cursor, from, applied>>
      BY <1>3, <1>g DEF Save
    <2> QED BY <2>1 DEF Hungry, FedUpTo, Fed
  <1>4. CASE Apply(i)
    <2>1. /\ proc[i] = "up" /\ pc[i] = "apply" /\ pc'[i] \in {"stopped", "work"}
          /\ cursor' = cursor
          /\ applied' = [j \in 1 .. MaxOps |->
                            applied[j] + IF j \in InHand(i) THEN 1 ELSE 0]
      BY <1>4, <1>g, <1>n DEF Apply
    <2>2. FedUpTo(i, from[i]) /\ from[i] <= cursor[i]
      BY <2>1 DEF Hungry
    <2>3. ASSUME NEW j \in 1 .. MaxOps
          PROVE  applied'[j] <= i /\ (j > cursor[i] => applied'[j] <= i - 1)
      <3>1. j \in Nat /\ applied[j] \in Nat /\ applied[j] <= i
            /\ (j > from[i] => applied[j] <= i - 1)
        BY <1>n, <2>2, LedgerAssumption DEF FedUpTo, Fed
      <3>2. CASE j \in InHand(i)
        <4>1. from[i] < j /\ j <= cursor[i]
          BY <1>n, <3>1, <3>2 DEF InHand
        <4> QED BY <1>n, <2>1, <3>1, <3>2, <4>1
      <3>3. CASE j \notin InHand(i)
        <4>1. applied'[j] = applied[j]
          BY <2>1, <3>1, <3>3
        <4> QED BY <1>n, <2>2, <3>1, <4>1
      <3> QED BY <3>2, <3>3
    <2>4. FedUpTo(i, cursor[i])'
      BY <2>1, <2>3 DEF FedUpTo, Fed
    <2> QED BY <2>1, <2>4 DEF Hungry, FedUpTo
  <1>5. CASE Work(i) \/ Crash(i) \/ Conclude(i)
    <2>1. /\ UNCHANGED <<cursor, from, applied>> /\ proc[i] = "up"
          /\ \/ pc[i] = "work" /\ pc'[i] = "turn"
             \/ pc'[i] \in Verdicts \cup {"exit 0", "exit 1"}
      BY <1>5, <1>g DEF Work, Crash, Conclude, Verdicts
    <2> QED BY <2>1 DEF Hungry, FedUpTo, Fed, Verdicts
  <1> QED BY <1>1, <1>2, <1>3, <1>4, <1>5 DEF Steps

\* Only a run that is up gives ops
LEMMA GivenStep ==
  ASSUME IInv, [Next]_vars
  PROVE  applied' = applied \/ \E i \in Runs : Steps(i) /\ proc[i] = "up" /\ UNCHANGED proc
  <1>1. ASSUME NEW l \in Lookers, Look(l) \/ Judge(l) \/ Persist(l) PROVE applied' = applied
    BY <1>1 DEF Look, Judge, Persist, Return
  <1>2. ASSUME NEW l \in Readers, Send(l) \/ Stop(l) \/ Show(l) PROVE applied' = applied
    BY <1>2 DEF Send, Stop, Show
  <1>3. ASSUME NEW k \in Runs, Runner(k)
        PROVE  applied' = applied \/ (Steps(k) /\ proc[k] = "up" /\ UNCHANGED proc)
    BY <1>3 DEF Runner, Steps, Resume, Register, Read, Save, Apply, Work, Crash,
                Conclude, Exit, Killed, Dies, Goes, procVars
  <1>4. Spawn \/ ConsoleDies \/ Reaper \/ Escalation \/ UNCHANGED vars => applied' = applied
    BY DEF Spawn, ConsoleDies, Reaper, Reap, ReapRead, ReapSettle, ReapFile,
           ReapFail, Reaping, Escalation, Watch, NotYet, Term, Kill, GiveUp,
           FinalizeStopped, Stopping, vars
  <1> QED BY <1>1, <1>2, <1>3, <1>4 DEF Next

LEMMA OncePerRunStep == IInv /\ FedInv /\ [Next]_vars => OncePerRun'
  <1> SUFFICES ASSUME IInv, FedInv, [Next]_vars, NEW n \in 0 .. MaxRuns,
                      \A i \in Runs : i > n => proc'[i] = "none",
                      NEW k \in 1 .. MaxOps
               PROVE  applied'[k] <= n
    BY DEF OncePerRun
  <1>1. \A i \in Runs : i > n => proc[i] = "none"
    BY ProcStep
  <1>2. CASE applied' = applied
    BY <1>1, <1>2 DEF FedInv, OncePerRun
  <1>3. ASSUME NEW i \in Runs, Steps(i), proc[i] = "up", applied' # applied
        PROVE  applied'[k] <= n
    <2>1. applied'[k] <= i
      BY <1>3, StepsHungry DEF FedInv, Fed
    <2>2. i <= n
      BY <1>1, <1>3, OneIsARun
    <2>3. applied'[k] \in Nat
      BY TypeStep DEF LedgerTypeOK
    <2> QED BY <2>1, <2>2, <2>3, OneIsARun
  <1> QED BY <1>2, <1>3, GivenStep

\* A run is born before it was given anything
LEMMA BornHungry ==
  ASSUME IInv, FedInv, [Next]_vars, NEW i \in Runs, proc[i] = "none", proc'[i] = "up"
  PROVE  Hungry(i)'
  <1>1. pc[i] = "get" /\ (pc'[i] = "get" \/ pc'[i] = "register")
    BY PlaceStep DEF FedInv, Unborn
  <1>2. \A j \in Runs : j >= i => proc[j] = "none"
    BY OneIsARun DEF IInv, Ordered, Dead
  <1>3. applied' = applied
    <2>1. ASSUME NEW k \in Runs, proc[k] = "up", UNCHANGED proc PROVE FALSE
      BY <2>1
    <2> QED BY <2>1, GivenStep
  <1>4. i - 1 \in 0 .. MaxRuns /\ \A j \in Runs : j > i - 1 => proc[j] = "none"
    BY <1>2, LedgerAssumption DEF Runs
  <1>5. Fed(i - 1)
    BY <1>4 DEF FedInv, OncePerRun, Fed
  <1>6. Fed(i - 1)'
    BY <1>3, <1>5 DEF Fed
  <1> QED BY <1>1, <1>6 DEF Hungry

LEMMA FedStep == IInv /\ FedInv /\ [Next]_vars => FedInv'
  <1> SUFFICES ASSUME IInv, FedInv, [Next]_vars PROVE FedInv'
    OBVIOUS
  <1>1. Unborn' /\ AllWithin' /\ OncePerRun'
    BY UnbornStep, AllWithinStep, OncePerRunStep DEF FedInv
  <1>2. ASSUME NEW i \in Runs, proc'[i] = "up" PROVE Hungry(i)'
    <2>1. CASE proc[i] = "none"
      BY <1>2, <2>1, BornHungry
    <2>2. CASE proc[i] = "up" /\ Steps(i)
      BY <2>2, StepsHungry DEF FedInv
    <2>3. CASE /\ proc[i] = "up" /\ UNCHANGED applied /\ pc'[i] = pc[i]
               /\ cursor'[i] = cursor[i] /\ from'[i] = from[i]
      BY <2>3 DEF FedInv, Hungry, FedUpTo, Fed
    <2>4. CASE /\ proc[i] = "up" /\ UNCHANGED applied
               /\ pc[i] = "get" /\ pc'[i] = "register"
      BY <2>4 DEF FedInv, Hungry, Fed
    <2>5. proc[i] \in {"none", "up"}
      BY <1>2, ProcStep
    <2> QED BY <1>2, <2>1, <2>2, <2>3, <2>4, <2>5, LoopStep
  <1>3. \A i \in Runs : Hungry(i)'
    BY <1>2 DEF Hungry
  <1> QED BY <1>1, <1>3 DEF FedInv

\* However reads, registrations and deaths interleave, no op is given to the
\* model more often than the session had processes: a replay takes a resume,
\* and a process never repeats what it was given itself
THEOREM GivenOncePerRun == Spec => []OncePerRun
  <1>1. Init => FedInv
    <2> SUFFICES ASSUME Init PROVE FedInv
      OBVIOUS
    <2>1. Unborn /\ \A i \in Runs : Hungry(i)
      BY DEF Init, Unborn, Hungry
    <2>2. OncePerRun
      <3>1. \A k \in 1 .. MaxOps : applied[k] = 0
        BY DEF Init
      <3>2. \A n \in 0 .. MaxRuns : 0 <= n
        OBVIOUS
      <3> QED BY <3>1, <3>2 DEF OncePerRun
    <2>3. AllWithin
      <3>1. Len(inbox) = 0
        BY DEF Init
      <3> QED BY <3>1 DEF Init, AllWithin, NoRecord, Away
    <2> QED BY <2>1, <2>2, <2>3 DEF FedInv
  <1>2. FedInv => OncePerRun
    BY DEF FedInv
  <1> QED BY <1>1, <1>2, FedStep, LedgerInvariant, PTL DEF Spec

-----------------------------------------------------------------------------
(* A session that was not resumed *)

\* As long as nobody has resumed the session, its reads may be as old as they
\* like: no live run is lost, no op is repeated, and a reaped child that had
\* registered has its verdict
THEOREM FirstRunIsSafe ==
  Spec => [](NotResumed => LiveNotLost /\ AtMostOnce /\ ChildHasVerdict)
  <1>1. IInv /\ LostIsDead /\ NotResumed => LiveNotLost
    <2> SUFFICES ASSUME IInv, LostIsDead, NotResumed, rec.state = "lost",
                        NEW i \in Runs, Live(i)
                 PROVE  FALSE
      BY DEF LiveNotLost
    <2>1. rec.owner = 1 /\ proc[1] \in Dead
      BY NotResumedOwner DEF LostIsDead
    <2>2. i = 1
      BY OneIsARun DEF NotResumed, Live
    <2> QED BY <2>1, <2>2 DEF Live, Dead
  <1>2. IInv /\ OncePerRun /\ NotResumed => AtMostOnce
    <2> SUFFICES ASSUME IInv, OncePerRun, NotResumed PROVE AtMostOnce
      OBVIOUS
    <2>1. 1 \in 0 .. MaxRuns
      BY LedgerAssumption
    <2>3. DOMAIN applied = 1 .. MaxOps
      BY OnceTypes DEF IInv
    <2>2. \A k \in 1 .. MaxOps : applied[k] <= 1
      BY <2>1 DEF OncePerRun, NotResumed
    <2> QED BY <2>2, <2>3 DEF AtMostOnce
  <1>3. Init => (NotResumed => Child)
    BY OneIsARun DEF Init, Child, Unregistered, ChildHasVerdict
  <1>4. IInv /\ (NotResumed => Child) /\ [Next]_vars => (NotResumed => Child)'
    <2> SUFFICES ASSUME IInv, NotResumed => Child, [Next]_vars, NotResumed'
                 PROVE  Child'
      OBVIOUS
    <2>1. NotResumed /\ Child
      BY ProcStep DEF NotResumed
    <2>2. ChildHasVerdict'
      BY <2>1, VerdictStep DEF ChildHasVerdict
    <2>3. rec' = NoRecord \/ reaper' \in {"file", "fail"} => Unregistered'
      BY <2>1, UnregisteredStep
    <2> QED BY <2>2, <2>3 DEF Child
  <1>5. Child => ChildHasVerdict
    BY DEF Child
  <1> QED BY <1>1, <1>2, <1>3, <1>4, <1>5, LedgerInvariant, LostNamesTheDead,
             GivenOncePerRun, PTL DEF Spec

-----------------------------------------------------------------------------
(* What the ledger promises of a session, under Calm *)

\* A batch is what follows all that was given, and goes to a session that is
\* not given up
LEMMA ApplyPromised ==
  ASSUME OnceInv, NEW i \in Runs, Apply(i)
  PROVE  Promised!Give
  <1>t. LedgerTypeOK /\ Owns /\ LiveNotLost
    BY DEF OnceInv, CalmInv, IInv
  <1>n. /\ DOMAIN applied = 1 .. MaxOps /\ \A j \in 1 .. MaxOps : applied[j] \in Nat
        /\ cursor[i] \in Nat /\ from[i] \in Nat
    BY <1>t, OnceTypes
  <1>1. /\ proc[i] = "up" /\ pc[i] = "apply" /\ UNCHANGED rec
        /\ applied' = [j \in 1 .. MaxOps |->
                          applied[j] + IF j \in InHand(i) THEN 1 ELSE 0]
    BY <1>n DEF Apply, Goes
  <1>2. Below(from[i])
    BY <1>1 DEF OnceInv, Sure
  <1>3. rec.state \notin {"none", "lost"}
    <2>1. Live(i) /\ rec \in Record
      BY <1>1, <1>t DEF Live, Owns
    <2> QED BY <1>t, <2>1 DEF LiveNotLost, Record, Verdicts
  <1> DEFINE K == InHand(i) \cap 1 .. MaxOps
  <1>4. \A k \in K, j \in 1 .. MaxOps : applied[j] > 0 => j < k
    BY <1>n, <1>2 DEF Below, InHand
  <1>5. applied' = [j \in 1 .. MaxOps |-> IF j \in K THEN 1 ELSE applied[j]]
    <2>1. ASSUME NEW j \in 1 .. MaxOps
          PROVE  applied[j] + (IF j \in InHand(i) THEN 1 ELSE 0)
                 = IF j \in K THEN 1 ELSE applied[j]
      <3>1. j \in K => applied[j] = 0
        BY <1>n, <1>4
      <3> QED BY <1>n, <3>1
    <2> QED BY <1>1, <2>1
  <1>6. K \in SUBSET (1 .. MaxOps)
    OBVIOUS
  <1> HIDE DEF K
  <1> QED BY <1>1, <1>3, <1>4, <1>5, <1>6 DEF Promised!Give

\* A step that gives nothing says what the session may be said to be
LEMMA RecordPromised ==
  ASSUME OnceInv, [Next]_vars, applied' = applied
  PROVE  Promised!Next \/ UNCHANGED Promised!vars
  <1>i. IInv /\ Copied
    BY DEF OnceInv, CalmInv
  <1>t. rec \in Record \cup {NoRecord} /\ NoRecord.state = "none" /\ NoRecord.owner = 0
    BY <1>i DEF IInv, LedgerTypeOK, NoRecord
  <1> USE DEF Promised!Next, Promised!vars
  <1>1. CASE rec' = rec
    BY <1>1
  <1>2. ASSUME NEW c \in 0 .. MaxOps, rec # NoRecord, rec' = [rec EXCEPT !.cursor = c]
        PROVE  UNCHANGED <<rec.state, rec.owner, applied>>
    BY <1>t, <1>2 DEF Record
  <1>3. ASSUME NEW v \in Verdicts, NEW o \in BOOLEAN, rec' = Finalized(v, o)
        PROVE  UNCHANGED <<rec.state, rec.owner, applied>> \/ Promised!End
    <2>1. rec' = rec \/ (rec.state \in {"running", "lost"} /\ rec'.state \in Verdicts)
      BY <1>i, <1>3, FinalizedType DEF Finalized, IInv
    <2>2. rec'.owner = rec.owner
      BY <1>i, <1>3, FinalizedType DEF IInv
    <2> QED BY <2>1, <2>2 DEF Promised!End, Promised!Final, Verdicts
  <1>4. ASSUME NEW l \in Lookers, Persist(l), rec.state = "running",
               rec' = Lost(look[l].copy)
        PROVE  Promised!Presume
    <2>1. look[l].copy = rec
      BY <1>i, <1>4 DEF Copied, Persist
    <2> QED BY <1>t, <1>4, <2>1, LostType DEF Promised!Presume
  <1>5. ASSUME NEW k \in Runs, Register(k) PROVE Promised!Begin(k)
    <2>1. Fresh(k) /\ rec' = Registered(k, cursor[k])
      BY <1>5 DEF Register, Goes, Fresh
    <2>2. rec.owner < k
      BY <1>i, <2>1 DEF IInv, Older
    <2>3. rec.owner \in Nat
      BY <1>t, OneIsARun DEF Record
    <2> QED BY <2>1, <2>2, <2>3, OneIsARun DEF Promised!Begin, Registered
  <1>6. CASE ReapFile
    <2>1. rec.owner = 0 /\ rec' = Registered(1, 0)
      BY <1>i, <1>t, <1>6 DEF ReapFile, Reaping, IInv, Reaped
    <2>2. Promised!Begin(1)
      BY <2>1 DEF Promised!Begin, Registered
    <2> QED BY <2>2, OneIsARun
  <1> QED BY <1>i, <1>1, <1>2, <1>3, <1>4, <1>5, <1>6, RecordStep

\* Where a read is judged on the record as it is, the record, its readers, its
\* runs and the console's threads keep the promise of Session
THEOREM LedgerKeepsPromise == Calm /\ Spec => ImplementsSession
  <1>1. Init => Promised!Init
    BY DEF Init, Promised!Init, NoRecord
  <1>2. OnceInv /\ [Next]_vars => [Promised!Next]_Promised!vars
    <2> SUFFICES ASSUME OnceInv, [Next]_vars
                 PROVE  Promised!Next \/ UNCHANGED Promised!vars
      OBVIOUS
    <2>1. IInv
      BY DEF OnceInv, CalmInv
    <2>2. CASE applied' = applied
      BY <2>2, RecordPromised
    <2>3. ASSUME NEW i \in Runs, Steps(i), applied' # applied PROVE Promised!Next
      <3>1. Apply(i)
        BY <2>3 DEF Steps, Register, Read, Save, Work, Crash, Conclude
      <3> QED BY <3>1, ApplyPromised DEF Promised!Next
    <2> QED BY <2>1, <2>2, <2>3, GivenStep
  <1> QED BY <1>1, <1>2, OnceInvariant, PTL DEF Spec, ImplementsSession, Promised!Spec

=============================================================================
