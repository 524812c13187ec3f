------------------------------ MODULE GpuLease ------------------------------
(***************************************************************************)
(* scripts/gpu-lease.sh: one lease file, one flock, and the processes that *)
(* use them.  A shell runs `acquire' and `release' and holds the lease     *)
(* itself; a `run' wrapper holds it for as long as its command lives.  A   *)
(* pid is an element of Procs: when its process dies the kernel may give   *)
(* it to a stranger, the next birth of that pid.                           *)
(*                                                                         *)
(* pc[p] is where the gpu-lease.sh command of p is: for a run the wrapper  *)
(* itself, for a shell the child it is waiting for, which outlives it: an  *)
(* orphan then, that still writes the lease for the pid of its shell.      *)
(* Only the first flock of acquire must succeed: after a sleep of --wait,  *)
(* and in the trap, the command goes on without the lock when it has to    *)
(* wait too long.                                                          *)
(*                                                                         *)
(* `claim', `robbed' and `made' are history: the shells whose acquire      *)
(* succeeded, the users somebody took the card from with --force, and how  *)
(* the lease that is there was written.                                    *)
(***************************************************************************)
EXTENDS Naturals, FiniteSets

CONSTANTS Shells, Runs,
          Parent,      \* the pid that started each run ($PPID)
          Options,     \* what acquire is called with
          MaxBirths,   \* bound: processes a pid is given to
          Calm         \* the windows without the lock are not interleaved

Procs == Shells \cup Runs

ASSUME ProcAssumption ==
    /\ Shells \cap Runs = {}
    /\ "none" \notin Procs /\ "unlocked" \notin Procs
    /\ Parent \in [Runs -> Shells]
    /\ "plain" \in Options /\ Options \subseteq {"plain", "wait", "force"}
    /\ MaxBirths \in Nat
    /\ Calm \in BOOLEAN

VARIABLES lease, lock, up, birth, pc, opt,
          bare,        \* commands that went on without the lock
          orphans,     \* shells that died while their command runs
          claim, robbed, made
vars == <<lease, lock, up, birth, pc, opt, bare, orphans, claim, robbed, made>>

NoLease == [pid |-> "none", start |-> 0]
Unlocked == "unlocked"
Steps == {"idle", "lock", "relock", "look", "write", "rewrite", "use",
          "traplock", "trapread", "traprm", "rm"}

LeaseTypeOK ==
    /\ lease \in [pid : Procs, start : 0 .. MaxBirths] \cup {NoLease}
    /\ lock \in Procs \cup {Unlocked}
    /\ up \in [Procs -> BOOLEAN]
    /\ birth \in [Procs -> 0 .. MaxBirths]
    /\ pc \in [Procs -> Steps]
    /\ opt \in [Procs -> {"plain", "wait", "force"}]
    /\ bare \subseteq Procs /\ orphans \subseteq Shells
    /\ claim \subseteq Shells
    /\ robbed \subseteq Procs
    /\ made \subseteq {"unlocked", "stranger"}

Init ==
    /\ lease = NoLease /\ lock = Unlocked
    /\ up = [p \in Procs |-> FALSE] /\ birth = [p \in Procs |-> 0]
    /\ pc = [p \in Procs |-> "idle"] /\ opt = [p \in Procs |-> "plain"]
    /\ bare = {} /\ orphans = {}
    /\ claim = {} /\ robbed = {} /\ made = {}

-----------------------------------------------------------------------------
\* Who is who

StartOf(p) == IF up[p] THEN birth[p] ELSE 0          \* 0 is the code's "?"

\* Mutant: a pid is a process
PidAlive(l) == l.pid \in Procs /\ up[l.pid]
HolderAlive(l) == l.pid \in Procs /\ up[l.pid] /\ birth[l.pid] = l.start
Held == HolderAlive(lease)

HolderOf(p) == IF p \in Shells THEN p ELSE Parent[p]  \* HOLDER_PID in acquire
Users == claim \cup {r \in Runs : pc[r] = "use"}
Finishing == {r \in Runs : pc[r] \in {"traplock", "trapread", "traprm"}}

\* gpu-lease.sh check, asked by a process with these ancestors
CheckSays(ancestors) ==
    IF ~Held THEN "free" ELSE IF lease.pid \in ancestors THEN "ours" ELSE "held"

-----------------------------------------------------------------------------
\* The command of p takes a step

Between(q) == pc[q] \in {"rewrite", "rm"}
Window(q) == Between(q) \/ q \in bare
Moves(p) == Calm => \A q \in Procs \ {p} : ~Window(q)

Goto(p, l) ==
    /\ pc' = [pc EXCEPT ![p] = l]
    /\ orphans' = IF l = "idle" THEN orphans \ {p} ELSE orphans

\* The command of p ends: a run's wrapper is gone with it
Exit(p) ==
    /\ Goto(p, "idle")
    /\ up' = IF p \in Runs THEN [up EXCEPT ![p] = FALSE] ELSE up

\* The descriptor is closed: a lock that p has goes with it
Unlock(p) ==
    /\ lock' = IF lock = p THEN Unlocked ELSE lock
    /\ bare' = bare \ {p}

Ask(p, o) ==
    /\ Moves(p) /\ up[p] /\ pc[p] = "idle"
    /\ p \in Runs => o = "plain"
    /\ opt' = [opt EXCEPT ![p] = o]
    /\ Goto(p, "lock")
    /\ UNCHANGED <<lease, lock, up, birth, bare, claim, robbed, made>>

AfterLock(p) == Goto(p, IF pc[p] = "traplock" THEN "trapread" ELSE "look")

\* Mutant: no flock(1), everybody passes
LockShared(p) ==
    /\ Moves(p) /\ pc[p] \in {"lock", "relock", "traplock"}
    /\ lock' = p
    /\ AfterLock(p)
    /\ UNCHANGED <<lease, up, birth, opt, bare, claim, robbed, made>>
Lock(p) ==
    /\ Moves(p) /\ pc[p] \in {"lock", "relock", "traplock"}
    /\ lock = Unlocked /\ lock' = p
    /\ AfterLock(p)
    /\ UNCHANGED <<lease, up, birth, opt, bare, claim, robbed, made>>

LockTimesOut(p) ==                                  \* flock -w 30 || die
    /\ Moves(p) /\ pc[p] = "lock" /\ lock /= Unlocked
    /\ Exit(p)
    /\ UNCHANGED <<lease, lock, birth, opt, bare, claim, robbed, made>>

\* flock -w 30 || true, flock -w 10 || true.  Calm: a round of --wait does not
\* go on while another is about to write
LockGivenUp(p) ==
    /\ Moves(p) /\ pc[p] \in {"relock", "traplock"} /\ lock /= Unlocked
    /\ Calm /\ pc[p] = "relock" => pc[lock] /= "write"
    /\ bare' = bare \cup {p}
    /\ AfterLock(p)
    /\ UNCHANGED <<lease, lock, up, birth, opt, claim, robbed, made>>

\* Write over a free, stale or forced lease
GoAhead(p) ==
    /\ Moves(p) /\ pc[p] = "look"
    /\ Held => opt[p] = "force"
    /\ Goto(p, "write")
    /\ UNCHANGED <<lease, lock, up, birth, opt, bare, claim, robbed, made>>

\* ... refuse: held (4), or memory nobody claimed is in use (5)
Refuse(p) ==
    /\ Moves(p) /\ pc[p] = "look" /\ opt[p] /= "force"
    /\ Unlock(p)
    /\ Exit(p)
    /\ UNCHANGED <<lease, birth, opt, claim, robbed, made>>

\* Mutant: sleep with the lock
WaitHolding(p) ==
    /\ Moves(p) /\ pc[p] = "look" /\ opt[p] = "wait" /\ Held
    /\ Goto(p, "relock")
    /\ UNCHANGED <<lease, lock, up, birth, opt, bare, claim, robbed, made>>
\* ... or let the lock go, sleep and look again
Wait(p) ==
    /\ Moves(p) /\ pc[p] = "look" /\ opt[p] = "wait" /\ Held
    /\ Unlock(p)
    /\ Goto(p, "relock")
    /\ UNCHANGED <<lease, up, birth, opt, claim, robbed, made>>

\* The lease is for the shell that asked, or for a stranger with its pid
Asker(p) == up[p] /\ p \notin orphans

\* _write_lease by acquire.  A shell that is there is told it has the card; a
\* run has the lease of its parent until it writes again
Write(p) ==
    LET h == HolderOf(p) IN
    /\ Moves(p) /\ pc[p] = "write"
    /\ lease' = [pid |-> h, start |-> StartOf(h)]
    /\ made' = (IF p \in bare THEN {"unlocked"} ELSE {})
                 \cup (IF p \in orphans THEN {"stranger"} ELSE {})
    /\ Unlock(p)
    /\ claim' = IF p \in Shells /\ Asker(p) THEN claim \cup {p} ELSE claim
    /\ robbed' = IF opt[p] = "force" THEN Users \ {p}
                 ELSE IF p \in claim' THEN robbed \ {p} ELSE robbed
    /\ Goto(p, IF p \in Runs THEN "rewrite" ELSE "idle")
    /\ UNCHANGED <<up, birth, opt>>

Rewrite(r) ==                                       \* run: _write_lease "$$"
    /\ Moves(r) /\ pc[r] = "rewrite"
    /\ lease' = [pid |-> r, start |-> birth[r]] /\ made' = {"unlocked"}
    /\ Goto(r, "use")
    /\ UNCHANGED <<lock, up, birth, opt, bare, claim, robbed>>

\* The command, its group and every process with its token are gone
Done(r) ==
    /\ Moves(r) /\ pc[r] = "use"
    /\ Goto(r, "traplock")
    /\ robbed' = robbed \ {r}
    /\ UNCHANGED <<lease, lock, up, birth, opt, bare, claim, made>>

\* Mutant: the trap of before, a bare rm
TrapReadAny(r) ==
    /\ Moves(r) /\ pc[r] = "trapread"
    /\ Goto(r, "traprm")
    /\ UNCHANGED <<lease, lock, up, birth, opt, bare, claim, robbed, made>>
TrapRead(r) ==
    /\ Moves(r) /\ pc[r] = "trapread"
    /\ IF lease = [pid |-> r, start |-> birth[r]]
       THEN Goto(r, "traprm") /\ UNCHANGED <<lock, bare, up>>
       ELSE Exit(r) /\ Unlock(r)
    /\ UNCHANGED <<lease, birth, opt, claim, robbed, made>>

TrapRemove(r) ==
    /\ Moves(r) /\ pc[r] = "traprm"
    /\ lease' = NoLease /\ made' = {}
    /\ Unlock(r)
    /\ Exit(r)
    /\ UNCHANGED <<birth, opt, claim, robbed>>

\* release: nothing to remove, or go on to the rm.  It refuses (no step) the
\* lease of another live process, and it never takes the lock
\* Mutant: whoever asks, the lease goes
ReleaseAny(s) ==
    /\ Moves(s) /\ up[s] /\ pc[s] = "idle" /\ lease /= NoLease
    /\ Goto(s, "rm")
    /\ UNCHANGED <<lease, lock, up, birth, opt, bare, claim, robbed, made>>
Release(s) ==
    /\ Moves(s) /\ up[s] /\ pc[s] = "idle"
    /\ IF lease = NoLease
       THEN /\ claim' = claim \ {s} /\ robbed' = robbed \ {s}
            /\ UNCHANGED <<pc, orphans>>
       ELSE /\ lease.pid = s \/ ~Held
            /\ Goto(s, "rm")
            /\ UNCHANGED <<claim, robbed>>
    /\ UNCHANGED <<lease, lock, up, birth, opt, bare, made>>

Remove(s) ==
    /\ Moves(s) /\ pc[s] = "rm"
    /\ lease' = NoLease /\ made' = {}
    /\ claim' = claim \ {s} /\ robbed' = robbed \ {s}
    /\ Goto(s, "idle")
    /\ UNCHANGED <<lock, up, birth, opt, bare>>

-----------------------------------------------------------------------------
\* The kernel: births, deaths, and the file descriptor that goes with them

Born(p) ==
    /\ ~up[p] /\ birth[p] < MaxBirths
    /\ up' = [up EXCEPT ![p] = TRUE]
    /\ birth' = [birth EXCEPT ![p] = @ + 1]
    /\ UNCHANGED <<lease, lock, pc, opt, bare, orphans, claim, robbed, made>>

ShellDies(s) ==                 \* the command it was waiting for runs on
    /\ up[s] /\ (Calm => ~Between(s))
    /\ up' = [up EXCEPT ![s] = FALSE]
    /\ orphans' = IF pc[s] = "idle" THEN orphans ELSE orphans \cup {s}
    /\ claim' = claim \ {s} /\ robbed' = robbed \ {s}
    /\ UNCHANGED <<lease, lock, birth, pc, opt, bare, made>>

Killed(p) ==                    \* the command of p, with SIGKILL: no trap
    /\ (p \in Runs => up[p]) /\ (p \in Shells => pc[p] /= "idle")
    /\ Calm => ~Between(p)
    /\ Unlock(p)
    /\ robbed' = IF p \in Runs THEN robbed \ {p} ELSE robbed
    /\ Exit(p)
    /\ UNCHANGED <<lease, birth, opt, claim, made>>

-----------------------------------------------------------------------------
Acquire(p) ==
    \/ \E o \in Options : Ask(p, o)
    \/ Lock(p) \/ LockTimesOut(p) \/ LockGivenUp(p) \/ GoAhead(p) \/ Refuse(p) \/ Wait(p)
    \/ Write(p)
RunOn(r) == Rewrite(r) \/ Done(r) \/ TrapRead(r) \/ TrapRemove(r)
LetGo(s) == Release(s) \/ Remove(s)
Kernel ==
    \/ \E p \in Procs : Born(p) \/ Killed(p)
    \/ \E s \in Shells : ShellDies(s)

Next ==
    \/ \E p \in Procs : Acquire(p)
    \/ \E r \in Runs : RunOn(r)
    \/ \E s \in Shells : LetGo(s)
    \/ Kernel

Spec == Init /\ [][Next]_vars

-----------------------------------------------------------------------------
\* The flock is held by the command that is between a look and what follows
\* from it, and by nobody else: not by one that sleeps, refused, died or gave
\* it up; a command that is there without it is one that gave it up
Critical == {"look", "write", "trapread", "traprm"}
LockOwned == \A p \in Procs : lock = p <=> pc[p] \in Critical /\ p \notin bare

\* Whoever uses the card and was not robbed of it is named by the lease: a
\* check made from inside says "ours", from anywhere else "held"
AnswersTruthful ==
    \A p \in Users \ robbed :
        CheckSays({p}) = "ours" /\ CheckSays(Procs \ {p}) = "held"

\* A lease that turns anybody away names a process that uses the card or is
\* about to release it, never a stranger that was given its pid later.  The
\* code can tell no stranger that had it already when the lease was written:
\* acquire asks for the start of whatever has the pid then (lines 172, 233-243)
HeldBySomebody ==
    Held /\ (\A q \in Procs : ~Window(q)) /\ "stranger" \notin made
        => lease.pid \in Users \cup Finishing

\* The exit of a run that has the lock removes the lease of that run and no
\* other that was written with the lock: no takeover with --force, which always
\* has it (the comment at 256-258; it is false of a trap that gave the lock up)
TrapRemovesOwn ==
    [][\A r \in Runs :
         pc[r] = "traprm" /\ r \notin bare /\ lease' = NoLease /\ lease /= NoLease
            => lease = [pid |-> r, start |-> birth[r]] \/ "unlocked" \in made]_vars

\* The lease, the lock and the pids together keep the promise of module Card
LeasedCard == INSTANCE Card WITH users <- Users
ImplementsCard == LeasedCard!Spec

\* "An exclusive lease on the GPU, so two things cannot measure at once"
OneHolder == Cardinality(Users \ robbed) <= 1
=============================================================================
