---------------------------- MODULE SessionLedger ----------------------------
(***************************************************************************)
(* One agent session of the ledger (agents/sessions.py) and everybody who  *)
(* writes its record: the runner that owns it and the runners that resume  *)
(* it later, the readers that infer `lost', the console's reaper of the    *)
(* child it spawned and its escalating stop.                               *)
(*                                                                         *)
(* Runs 1 .. MaxRuns are the processes of the session, one after the       *)
(* other: the console or an operator starts the first, the others are      *)
(* `runner.py --resume'.  A record names its process by pid, start time    *)
(* and boot, which is the number of the run here: no later process is      *)
(* mistaken for it.                                                        *)
(*                                                                         *)
(* Every write of a record is a read-modify-write under its flock and is   *)
(* one step.  Reads take no lock: a reader keeps the copy it read.         *)
(***************************************************************************)
EXTENDS Naturals, Sequences

CONSTANTS Readers,     \* requests and commands that read the session
          MaxRuns,     \* bound: processes of the session
          MaxOps,      \* bound: steering ops sent to it
          MaxBatch,    \* INBOX_MAX_OPS
          Calm         \* bound: a verdict is about the record as it is, and a
                       \* resume waits for what still watches the last run

Runs == 1 .. MaxRuns

ASSUME LedgerAssumption ==
    /\ MaxRuns \in Nat \ {0} /\ MaxOps \in Nat /\ MaxBatch \in Nat \ {0}
    /\ Calm \in BOOLEAN
    /\ Readers \cap Runs = {}

VARIABLES
    rec,        \* the record on disk
    inbox,      \* inbox.jsonl, a sequence of ops
    proc,       \* each run: none, up, zombie or gone
    pc,         \* ... where it is, or was when it died
    cursor,     \* ... steer_cursor
    from,       \* ... the cursor before the ops it has in hand
    struck,     \* history: the runs a stop of this console has signalled
    status,     \* what the exit status of run 1 says
    look,       \* each reader: where its read is, and the copy it read
    reaper,     \* the thread that waits for run 1
    stopper,    \* the escalation thread of a stop
    applied     \* history: how often each op was given to the model

procVars == <<proc, struck, status>>
loopVars == <<pc, cursor, from>>
runVars == <<procVars, loopVars>>
vars == <<rec, inbox, runVars, look, reaper, stopper, applied>>

Verdicts == {"done", "failed", "stopped"}
NoRecord == [state |-> "none", owner |-> 0, cursor |-> 0]
Record == [state : Verdicts \cup {"lost", "running"},
           owner : Runs, cursor : 0 .. MaxOps]
Lookers == Readers \cup Runs
Away == [at |-> "idle", copy |-> NoRecord]
Stopper == [at : {"off", "watch", "signal", "finalize"},
            term : BOOLEAN, kill : BOOLEAN]
Calmed == [at |-> "off", term |-> FALSE, kill |-> FALSE]

LedgerTypeOK ==
    /\ rec \in Record \cup {NoRecord}
    /\ inbox \in Seq({"say", "stop"}) /\ Len(inbox) <= MaxOps
    /\ proc \in [Runs -> {"none", "up", "zombie", "gone"}]
    /\ pc \in [Runs -> {"get", "register", "turn", "save", "apply", "work",
                        "exit 0", "exit 1"} \cup Verdicts]
    /\ cursor \in [Runs -> 0 .. MaxOps] /\ from \in [Runs -> 0 .. MaxOps]
    /\ struck \subseteq Runs /\ status \in Verdicts \cup {"none"}
    /\ look \in [Lookers -> [at : {"idle", "judge", "persist", "answer"},
                             copy : Record \cup {NoRecord}]]
    /\ reaper \in {"off", "wait", "read", "settle", "file", "fail", "done"}
    /\ stopper \in Stopper
    /\ applied \in [1 .. MaxOps -> Nat]

Init ==
    /\ rec = NoRecord /\ inbox = <<>>
    /\ proc = [i \in Runs |-> "none"] /\ pc = [i \in Runs |-> "get"]
    /\ cursor = [i \in Runs |-> 0] /\ from = [i \in Runs |-> 0]
    /\ struck = {} /\ status = "none"
    /\ look = [l \in Lookers |-> Away]
    /\ reaper = "off" /\ stopper = Calmed
    /\ applied = [k \in 1 .. MaxOps |-> 0]

-----------------------------------------------------------------------------
\* The ledger's operations

Registered(i, c) == [state |-> "running", owner |-> i, cursor |-> c]

\* Mutant: `lost' is a verdict like any other
FinalizedFirst(state, override) ==
    IF rec.state = "running" THEN [rec EXCEPT !.state = state] ELSE rec
\* finalize: compare and set, the first verdict wins
Finalized(state, override) ==
    IF rec.state = "running" \/ (override /\ rec.state = "lost")
    THEN [rec EXCEPT !.state = state] ELSE rec

OwnerAlive(r) == r.owner \in Runs /\ proc[r.owner] = "up"

\* Mutant: a probe that fails says that the process is dead
StaleOnDoubt(r) == r.state = "running"
\* reconcile
Stale(r) == r.state = "running" /\ ~OwnerAlive(r)
Lost(r) == [r EXCEPT !.state = "lost"]

-----------------------------------------------------------------------------
\* sessions.get, by a reader or by a run that wants the last run's cursor

\* Mutant: a resumed run reads its inbox from the start
ReturnAfresh(l, r) ==
    /\ look' = [look EXCEPT ![l] = IF l \in Readers /\ r.state = "running"
                                   THEN [Away EXCEPT !.at = "answer"] ELSE Away]
    /\ pc' = IF l \in Runs THEN [pc EXCEPT ![l] = "register"] ELSE pc
    /\ UNCHANGED <<inbox, procVars, cursor, from, reaper, stopper, applied>>
\* What becomes of the read: a run takes the cursor over and registers next
Return(l, r) ==
    /\ look' = [look EXCEPT ![l] = IF l \in Readers /\ r.state = "running"
                                   THEN [Away EXCEPT !.at = "answer"] ELSE Away]
    /\ IF l \in Runs
       THEN /\ cursor' = [cursor EXCEPT ![l] = r.cursor]
            /\ pc' = [pc EXCEPT ![l] = "register"]
       ELSE UNCHANGED <<cursor, pc>>
    /\ UNCHANGED <<inbox, procVars, from, reaper, stopper, applied>>

Running(l) == l \in Runs => proc[l] = "up"

Look(l) ==
    /\ look[l].at = "idle"
    /\ IF l \in Runs THEN proc[l] = "up" /\ pc[l] = "get" ELSE rec # NoRecord
    /\ look' = [look EXCEPT ![l] = [at |-> "judge",
                                    copy |-> IF Calm THEN NoRecord ELSE rec]]
    /\ UNCHANGED <<rec, inbox, runVars, reaper, stopper, applied>>

Judge(l) ==
    LET copy == IF Calm THEN rec ELSE look[l].copy IN
    /\ look[l].at = "judge" /\ Running(l)
    /\ IF Stale(copy)
       THEN /\ look' = [look EXCEPT ![l] = [at |-> "persist", copy |-> copy]]
            /\ UNCHANGED <<inbox, runVars, reaper, stopper, applied>>
       ELSE Return(l, copy)
    /\ UNCHANGED rec

\* Mutant: write what was judged, whatever the record says by now
PersistBlind(l) ==
    /\ look[l].at = "persist" /\ Running(l)
    /\ rec' = Lost(look[l].copy)
    /\ Return(l, rec')
\* Mutant: `lost' is shown and not written
PersistNothing(l) ==
    /\ look[l].at = "persist" /\ Running(l)
    /\ Return(l, Lost(look[l].copy))
    /\ UNCHANGED rec
\* Under the flock: only a record that still says running is made lost, and
\* what is written then is the reader's copy
Persist(l) ==
    /\ look[l].at = "persist" /\ Running(l)
    /\ rec' = IF rec.state = "running" THEN Lost(look[l].copy) ELSE rec
    /\ Return(l, rec')

-----------------------------------------------------------------------------
\* The console, for a reader that found the session running

Answer(l) == look[l].at = "answer" /\ look' = [look EXCEPT ![l] = Away]

Send(l) ==                                          \* /send, /pause, /resume
    /\ Answer(l) /\ Len(inbox) < MaxOps
    /\ inbox' = Append(inbox, "say")
    /\ UNCHANGED <<rec, runVars, reaper, stopper, applied>>

Stop(l) ==                                          \* /stop
    /\ Answer(l) /\ stopper = Calmed
    /\ inbox' = IF Len(inbox) < MaxOps THEN Append(inbox, "stop") ELSE inbox
    /\ stopper' = [stopper EXCEPT !.at = "watch"]
    /\ UNCHANGED <<rec, runVars, reaper, applied>>

Show(l) == Answer(l) /\ UNCHANGED <<rec, inbox, runVars, reaper, stopper, applied>>

Spawn ==
    /\ proc[1] = "none"
    /\ proc' = [proc EXCEPT ![1] = "up"]
    /\ reaper' \in {"off", "wait"}                  \* by hand, by the console
    /\ UNCHANGED <<rec, inbox, struck, status, loopVars, look, stopper, applied>>

\* Its threads are daemons; its child outlives it, and init reaps it then
ConsoleDies ==
    /\ reaper' = "off" /\ stopper' = Calmed /\ struck' = {}
    /\ proc' = [proc EXCEPT ![1] = IF @ = "zombie" THEN "gone" ELSE @]
    /\ UNCHANGED <<rec, inbox, status, loopVars, look, applied>>

-----------------------------------------------------------------------------
\* A run (agents/runner.py)

Resume(i) ==
    /\ i > 1 /\ proc[i] = "none" /\ proc[i - 1] \in {"zombie", "gone"}
    /\ rec # NoRecord
    /\ Calm => reaper \in {"off", "done"} /\ stopper = Calmed
    /\ proc' = [proc EXCEPT ![i] = "up"]
    /\ UNCHANGED <<rec, inbox, struck, status, loopVars, look, reaper, stopper,
                   applied>>

\* Run i, at p, goes on to q
Goes(i, p, q) ==
    /\ proc[i] = "up" /\ pc[i] = p
    /\ pc' = [pc EXCEPT ![i] = q]
    /\ UNCHANGED <<procVars, look, reaper, stopper, inbox>>

Register(i) ==
    /\ Goes(i, "register", "turn")
    /\ Calm => \A l \in Readers : look[l].at # "persist"
    /\ rec' = Registered(i, cursor[i])
    /\ UNCHANGED <<cursor, from, applied>>

Least(a, b) == IF a < b THEN a ELSE b

\* The turn boundary: read_new_ops
Read(i) ==
    /\ Goes(i, "turn", IF cursor[i] < Len(inbox) THEN "save" ELSE "work")
    /\ from' = [from EXCEPT ![i] = cursor[i]]
    /\ cursor' = [cursor EXCEPT ![i] = Least(@ + MaxBatch, Len(inbox))]
    /\ UNCHANGED <<rec, applied>>

\* Mutant: the cursor is kept to oneself
SaveNothing(i) == Goes(i, "save", "apply") /\ UNCHANGED <<rec, cursor, from, applied>>
\* touch: merged into whatever the record is by now
Save(i) ==
    /\ Goes(i, "save", "apply")
    /\ rec' = IF rec = NoRecord THEN rec ELSE [rec EXCEPT !.cursor = cursor[i]]
    /\ UNCHANGED <<cursor, from, applied>>

InHand(i) == (from[i] + 1) .. cursor[i]

\* Every op of the batch is applied, those that follow a stop too
Apply(i) ==
    /\ Goes(i, "apply", IF \E k \in InHand(i) : inbox[k] = "stop"
                        THEN "stopped" ELSE "work")
    /\ applied' = [k \in DOMAIN applied |->
                      applied[k] + IF k \in InHand(i) THEN 1 ELSE 0]
    /\ from' = cursor
    /\ UNCHANGED <<rec, cursor>>

\* The turn: another one follows, or task_done, max_iter or a full context
Work(i) ==
    /\ \E q \in {"turn", "done"} : Goes(i, "work", q)
    /\ UNCHANGED <<rec, cursor, from, applied>>

\* An exception that nobody handles: atexit files it
Crash(i) ==
    /\ \E p \in {"turn", "save", "apply", "work"} : Goes(i, p, "failed")
    /\ UNCHANGED <<rec, cursor, from, applied>>

Conclude(i) ==
    /\ \E v \in Verdicts : /\ Goes(i, v, IF v = "failed" THEN "exit 1" ELSE "exit 0")
                           /\ rec' = Finalized(v, FALSE)
    /\ UNCHANGED <<cursor, from, applied>>

\* A child of the console that waits for it is a zombie until it is reaped
Dies(i, s) ==
    /\ proc[i] = "up"
    /\ proc' = [proc EXCEPT ![i] = IF i = 1 /\ reaper = "wait"
                                   THEN "zombie" ELSE "gone"]
    /\ status' = IF i = 1 THEN s ELSE status
    /\ look' = [look EXCEPT ![i] = Away]
    /\ cursor' = [cursor EXCEPT ![i] = 0] /\ from' = [from EXCEPT ![i] = 0]
    /\ UNCHANGED <<rec, inbox, pc, struck, reaper, stopper, applied>>

Exit(i) ==
    \/ pc[i] = "exit 0" /\ Dies(i, "done")
    \/ pc[i] \in {"get", "register", "exit 1"} /\ Dies(i, "failed")

\* By a signal: the stop's, or the kernel's.  No atexit
Killed(i) == Dies(i, "stopped")

-----------------------------------------------------------------------------
\* The reaper of run 1 (reap_session)

Reaping(p, q) ==
    /\ reaper = p /\ reaper' = q
    /\ UNCHANGED <<inbox, struck, status, loopVars, look, stopper, applied>>

Reap ==
    /\ Reaping("wait", "read")
    /\ proc[1] = "zombie" /\ proc' = [proc EXCEPT ![1] = "gone"]
    /\ UNCHANGED rec

ReapRead ==
    /\ Reaping("read", IF rec = NoRecord THEN "file"
                       ELSE IF rec.state \in Verdicts THEN "done" ELSE "settle")
    /\ UNCHANGED <<rec, proc>>

ReapSettle ==
    /\ Reaping("settle", "done")
    /\ rec' = Finalized(status, TRUE)
    /\ UNCHANGED proc

\* The child never registered: its record is filed for it, and failed
ReapFile ==
    /\ Reaping("file", "fail")
    /\ rec' = Registered(1, 0)
    /\ UNCHANGED proc
ReapFail ==
    /\ Reaping("fail", "done")
    /\ rec' = Finalized(IF status = "done" THEN "failed" ELSE status, FALSE)
    /\ UNCHANGED proc

-----------------------------------------------------------------------------
\* The escalation of a stop (start_escalation, signal_session)

Stopping(p) ==
    /\ stopper.at = p
    /\ UNCHANGED <<inbox, proc, status, loopVars, look, reaper, applied>>

\* Mutant: only a SIGKILL makes it ours
WatchKill ==
    /\ Stopping("watch")
    /\ stopper' =
         IF rec.state = "running" /\ OwnerAlive(rec)
         THEN [stopper EXCEPT !.at = "signal"]
         ELSE IF stopper.kill THEN [stopper EXCEPT !.at = "finalize"] ELSE Calmed
    /\ UNCHANGED <<rec, struck>>
\* _still_running: a gone session is ours to file if we signalled it
Watch ==
    /\ Stopping("watch")
    /\ stopper' =
         IF rec.state = "running" /\ OwnerAlive(rec)
         THEN [stopper EXCEPT !.at = "signal"]
         ELSE IF stopper.term \/ stopper.kill
              THEN [stopper EXCEPT !.at = "finalize"] ELSE Calmed
    /\ UNCHANGED <<rec, struck>>

\* signal_identity_ok: a zombie still has its start time
Signallable == rec.owner \in Runs /\ proc[rec.owner] \in {"up", "zombie"}
Struck == IF Signallable THEN struck \cup {rec.owner} ELSE struck

\* Neither term_after nor kill_after has passed, or nothing is left to send
NotYet ==
    /\ Stopping("signal")
    /\ stopper' = [stopper EXCEPT !.at = "watch"]
    /\ UNCHANGED <<rec, struck>>

Term ==
    /\ Stopping("signal") /\ ~stopper.term /\ ~stopper.kill
    /\ stopper' = [stopper EXCEPT !.at = "watch", !.term = Signallable]
    /\ struck' = Struck
    /\ UNCHANGED rec

Kill ==
    /\ Stopping("signal") /\ ~stopper.kill
    /\ stopper' = [stopper EXCEPT !.at = "watch", !.kill = TRUE]
    /\ struck' = Struck
    /\ UNCHANGED rec

\* Mutant: it waits for the process to go
GiveUpPatient ==
    /\ Stopping("signal") /\ stopper.kill /\ ~OwnerAlive(rec)
    /\ stopper' = [stopper EXCEPT !.at = "finalize"]
    /\ UNCHANGED <<rec, struck>>
\* kill_deadline has passed, and nobody has reaped it
GiveUp ==
    /\ Stopping("signal") /\ stopper.kill
    /\ stopper' = [stopper EXCEPT !.at = "finalize"]
    /\ UNCHANGED <<rec, struck>>

FinalizeStopped ==
    /\ Stopping("finalize")
    /\ rec' = Finalized("stopped", TRUE)
    /\ stopper' = Calmed
    /\ UNCHANGED struck

-----------------------------------------------------------------------------
Reader(l) == Look(l) \/ Judge(l) \/ Persist(l) \/ Show(l)

Runner(i) == \/ Resume(i) \/ Register(i) \/ Read(i) \/ Save(i) \/ Apply(i)
             \/ Work(i) \/ Crash(i) \/ Conclude(i) \/ Exit(i) \/ Killed(i)

Reaper == Reap \/ ReapRead \/ ReapSettle \/ ReapFile \/ ReapFail

Escalation == Watch \/ NotYet \/ Term \/ Kill \/ GiveUp \/ FinalizeStopped

Next ==
    \/ \E l \in Lookers : Look(l) \/ Judge(l) \/ Persist(l)
    \/ \E l \in Readers : Send(l) \/ Stop(l) \/ Show(l)
    \/ \E i \in Runs : Runner(i)
    \/ Spawn \/ ConsoleDies \/ Reaper \/ Escalation

\* Somebody reads the session again and again, the stop's thread goes on, and
\* its clock passes kill_after and then kill_deadline
Fairness ==
    /\ \A l \in Readers : WF_vars(Reader(l))
    /\ WF_vars(Watch \/ FinalizeStopped)
    /\ SF_vars(Kill \/ GiveUp)

Spec == Init /\ [][Next]_vars /\ Fairness

-----------------------------------------------------------------------------
\* A verdict stands until another run registers: `lost' and the verdicts of
\* the reaper, of atexit and of the stop come too late (finalize, touch,
\* _reconciled)
VerdictStands ==
    [][rec.state \in Verdicts /\ rec'.state # rec.state
       => rec'.state = "running" /\ rec'.owner > rec.owner]_vars

\* `lost' is said of the dead: a record that says it names a registered
\* process that is gone, although the probe, the flock and the write of a
\* reader are moments apart and other processes register meanwhile
\* (reconcile, _reconciled)
Dead == {"zombie", "gone"}
LostIsDead == rec.state = "lost" => rec.owner \in Runs /\ proc[rec.owner] \in Dead

\* An op is given to the model once, over all the processes of the session:
\* the cursor outlives a process that dies between saving it and acting
\* (runner.py, register, touch)
AtMostOnce == \A k \in DOMAIN applied : applied[k] <= 1

\* Once the console has reaped a child that had registered, its session ends
\* with what the child or its exit status said, never as a guess
\* (reap_session)
ChildHasVerdict ==
    reaper = "done" /\ rec.owner = 1 /\ pc[1] \notin {"get", "register"}
    => rec.state \in Verdicts

\* `Whatever we signalled, the record lands on stopped': once a stop is through,
\* a run it signalled is filed as stopped, whoever else writes the record
\* meanwhile or later -- unless the run had a last word of its own.  It does not
\* stay running, and does not read as a crash (start_escalation)
HadItsWord(i) == pc[i] \in {"exit 0", "exit 1"}
SignalledIsFiled ==
    stopper.at = "off" /\ rec.owner \in struck =>
        \/ rec.state = "stopped"
        \/ rec.state \in Verdicts /\ HadItsWord(rec.owner)

\* The record, its readers, its runs and the console's threads keep the promise
\* of Session (sessions.py, runner.py)
Promised == INSTANCE Session WITH
    says <- rec.state, run <- rec.owner, given <- applied, Ops <- 1 .. MaxOps
ImplementsSession == Promised!Spec

\* A stop ends, whatever the run does and whoever dies
StopEnds == stopper.at # "off" ~> stopper.at = "off"

\* A session whose process is gone does not stay running: it is lost, has a
\* verdict, or another process carries it on (get, list_sessions)
NoGhost == Stale(rec) ~> ~Stale(rec)

=============================================================================
