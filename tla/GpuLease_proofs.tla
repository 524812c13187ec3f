--------------------------- MODULE GpuLease_proofs ---------------------------
(***************************************************************************)
(* Theorems about the GPU lease, for any shells, runs, parents and births: *)
(* who has the flock and, while the two windows without it are calm, that  *)
(* the lease names the one who uses the card.                              *)
(***************************************************************************)
EXTENDS GpuLease, TLAPS, FiniteSetTheorems

Uses(p) == p \in claim \/ (p \in Runs /\ pc[p] = "use")

\* Shells do not wrap commands, and runs do not release by hand
Kinds ==
    /\ \A s \in Shells : pc[s] \in {"idle", "lock", "relock", "look", "write", "rm"}
    /\ \A r \in Runs : pc[r] # "rm" /\ opt[r] = "plain" /\ (pc[r] # "idle" => up[r])

\* Only a round of --wait, or a trap, goes on without the lock
Bare ==
    /\ \A p \in Procs : pc[p] = "relock" => opt[p] = "wait"
    /\ \A p \in bare : /\ p \in Shells => pc[p] \in {"look", "write"} /\ opt[p] = "wait"
                       /\ p \in Runs => pc[p] \in {"trapread", "traprm"}

\* A shell that claims the card is alive, and the one that asked
Claims == \A s \in claim : Asker(s)

\* A lease names a birth its pid has had, and not one it is still to have
Stamped == lease # NoLease => lease.start <= birth[lease.pid]

\* Nobody is robbed of what he does not use
RobbedUse == \A p \in robbed : Uses(p)

BaseInv == LeaseTypeOK /\ Kinds /\ Bare /\ Claims /\ Stamped /\ LockOwned /\ RobbedUse

-----------------------------------------------------------------------------
LEMMA Basics ==
  /\ Shells \subseteq Procs /\ Runs \subseteq Procs
  /\ \A p \in Procs : p \in Shells \/ p \in Runs
  /\ \A p \in Procs : ~(p \in Shells /\ p \in Runs)
  /\ \A r \in Runs : Parent[r] \in Shells
  /\ \A p \in Procs : HolderOf(p) \in Procs
  /\ NoLease.pid \notin Procs /\ NoLease.pid = "none" /\ Unlocked \notin Procs
  BY ProcAssumption DEF Procs, NoLease, Unlocked, HolderOf

LEMMA BaseInit == Init => BaseInv
  <1> SUFFICES ASSUME Init PROVE BaseInv
    OBVIOUS
  <1> USE Basics, ProcAssumption DEF Init
  <1>1. LeaseTypeOK
    BY DEF LeaseTypeOK, Steps
  <1>2. Kinds /\ Bare /\ Claims /\ Stamped /\ RobbedUse
    BY DEF Kinds, Bare, Claims, Stamped, RobbedUse
  <1>3. LockOwned
    BY DEF LockOwned, Critical
  <1> QED BY <1>1, <1>2, <1>3 DEF BaseInv

\* A step of p: what it does to its own command, the lock, claims and thefts
LEMMA BaseFrame ==
  ASSUME BaseInv, NEW p \in Procs,
         NEW a \in Steps, pc' = [pc EXCEPT ![p] = a],
         lease' = lease \/ lease' = NoLease
            \/ \E q \in Procs : lease' = [pid |-> q, start |-> StartOf(q)],
         lock' \in {lock, p, Unlocked}, lock' = lock \/ lock \in {p, Unlocked},
         a \in Critical /\ p \notin bare' <=> lock' = p,
         \A q \in Procs \ {p} : q \in bare' <=> q \in bare, bare' \subseteq Procs,
         p \in bare' => /\ p \in Shells => a \in {"look", "write"} /\ opt'[p] = "wait"
                        /\ p \in Runs => a \in {"trapread", "traprm"},
         a = "relock" => opt'[p] = "wait",
         orphans' \subseteq orphans, made' \subseteq {"unlocked", "stranger"},
         up' = up \/ (p \in Runs /\ a = "idle" /\ up' = [up EXCEPT ![p] = FALSE]),
         birth' = birth,
         opt' = opt \/ \E o \in {"plain", "wait", "force"} :
                          opt' = [opt EXCEPT ![p] = o] /\ (p \in Runs => o = "plain"),
         p \in Shells => a \in {"idle", "lock", "relock", "look", "write", "rm"},
         p \in Runs => a # "rm" /\ (a # "idle" => up[p]),
         claim' \subseteq Shells, \A s \in claim' : s \in claim \/ (s = p /\ Asker(p)),
         \A s \in claim : s \in claim' \/ s = p,
         robbed' \subseteq Procs,
         \A q \in robbed' : q \in robbed \/ Uses(q),
         p \in robbed' => p \in claim' \/ (p \in Runs /\ a = "use")
  PROVE  BaseInv'
  <1> USE Basics
  <1>t. LeaseTypeOK /\ Kinds /\ Bare /\ Claims /\ Stamped /\ LockOwned /\ RobbedUse
    BY DEF BaseInv
  <1>1. LeaseTypeOK'
    <2>1. lease' \in [pid : Procs, start : 0 .. MaxBirths] \cup {NoLease}
      <3>1. \A q \in Procs : StartOf(q) \in 0 .. MaxBirths
        BY <1>t, ProcAssumption DEF LeaseTypeOK, StartOf
      <3> QED BY <1>t, <3>1 DEF LeaseTypeOK
    <2>2. birth' \in [Procs -> 0 .. MaxBirths] /\ pc' \in [Procs -> Steps]
      BY <1>t DEF LeaseTypeOK
    <2>4. up' \in [Procs -> BOOLEAN]
      BY <1>t DEF LeaseTypeOK
    <2>5. lock' \in Procs \cup {Unlocked}
      BY <1>t DEF LeaseTypeOK
    <2>3. opt' \in [Procs -> {"plain", "wait", "force"}]
      BY <1>t DEF LeaseTypeOK
    <2>6. bare' \subseteq Procs /\ orphans' \subseteq Shells
      BY <1>t DEF LeaseTypeOK
    <2> QED BY <2>1, <2>2, <2>3, <2>4, <2>5, <2>6 DEF LeaseTypeOK
  <1>2. Kinds'
    BY <1>t DEF Kinds, LeaseTypeOK
  <1>7. Bare'
    <2>1. \A q \in Procs \ {p} : pc'[q] = pc[q] /\ opt'[q] = opt[q]
      BY <1>t DEF LeaseTypeOK
    <2>2. pc'[p] = a
      BY <1>t DEF LeaseTypeOK
    <2> QED BY <1>t, <2>1, <2>2 DEF Bare
  <1>3. Claims'
    BY <1>t DEF Claims, Asker, LeaseTypeOK
  <1>4. Stamped'
    <2>1. \A q \in Procs : birth[q] \in Nat /\ StartOf(q) \in Nat /\ StartOf(q) <= birth[q]
      BY <1>t DEF LeaseTypeOK, StartOf
    <2> QED BY <1>t, <2>1 DEF Stamped
  <1>5. LockOwned'
    <2>1. \A q \in Procs \ {p} : pc'[q] = pc[q]
      BY <1>t DEF LeaseTypeOK
    <2>2. pc'[p] = a
      BY <1>t DEF LeaseTypeOK
    <2> QED BY <1>t, <2>1, <2>2 DEF LockOwned
  <1>6. RobbedUse'
    <2>1. \A q \in Procs \ {p} : pc'[q] = pc[q] /\ (Uses(q) => Uses(q)')
      BY <1>t DEF LeaseTypeOK, Uses
    <2>2. p \in robbed' => Uses(p)'
      BY <1>t DEF LeaseTypeOK, Uses
    <2> QED BY <1>t, <2>1, <2>2 DEF RobbedUse
  <1> QED BY <1>1, <1>2, <1>3, <1>4, <1>5, <1>6, <1>7 DEF BaseInv

\* The kernel: a birth, and a shell that dies
LEMMA BaseBorn == ASSUME BaseInv, NEW p \in Procs, Born(p) PROVE BaseInv'
  <1> USE Basics
  <1>t. LeaseTypeOK /\ Kinds /\ Bare /\ Claims /\ Stamped /\ LockOwned /\ RobbedUse
    BY DEF BaseInv
  <1>1. /\ \A q \in Procs : up[q] => up'[q]
        /\ \A q \in Procs : birth'[q] \in 0 .. MaxBirths /\ birth[q] <= birth'[q]
        /\ UNCHANGED <<lease, lock, pc, opt, bare, orphans, claim, robbed, made>>
    BY <1>t, ProcAssumption DEF Born, LeaseTypeOK
  <1>2. LeaseTypeOK'
    BY <1>1, <1>t, ProcAssumption DEF Born, LeaseTypeOK
  <1>3. Kinds' /\ Bare' /\ Claims' /\ LockOwned' /\ RobbedUse'
    BY <1>1, <1>t DEF Kinds, Bare, Claims, Asker, LockOwned, RobbedUse, Uses, LeaseTypeOK
  <1>4. Stamped'
    <2>1. \A q \in Procs : birth[q] \in Nat /\ birth'[q] \in Nat
      BY <1>1, <1>t DEF LeaseTypeOK
    <2>2. lease # NoLease => lease.pid \in Procs /\ lease.start \in Nat
      BY <1>t DEF LeaseTypeOK
    <2> QED BY <1>1, <1>t, <2>1, <2>2 DEF Stamped
  <1> QED BY <1>2, <1>3, <1>4 DEF BaseInv

LEMMA BaseShellDies == ASSUME BaseInv, NEW s \in Shells, ShellDies(s) PROVE BaseInv'
  <1> USE Basics
  <1>t. LeaseTypeOK /\ Kinds /\ Bare /\ Claims /\ Stamped /\ LockOwned /\ RobbedUse
    BY DEF BaseInv
  <1>1. /\ up' = [up EXCEPT ![s] = FALSE]
        /\ UNCHANGED <<lease, lock, birth, pc, opt, bare, made>>
        /\ claim' = claim \ {s} /\ robbed' = robbed \ {s}
        /\ orphans' \subseteq orphans \cup {s}
    BY DEF ShellDies
  <1>2. LeaseTypeOK' /\ Kinds' /\ Bare' /\ Claims'
    BY <1>1, <1>t DEF LeaseTypeOK, Kinds, Bare, Claims, Asker
  <1>3. Stamped' /\ LockOwned' /\ RobbedUse'
    BY <1>1, <1>t DEF Stamped, LockOwned, RobbedUse, Uses
  <1> QED BY <1>2, <1>3 DEF BaseInv

LEMMA BaseAcquire == ASSUME BaseInv, NEW p \in Procs, Acquire(p) PROVE BaseInv'
  <1> USE Basics DEF Steps, Critical
  <1>t. LeaseTypeOK /\ Kinds /\ Bare /\ Claims /\ LockOwned /\ RobbedUse
    BY DEF BaseInv
  <1>l. (lock = p <=> pc[p] \in Critical /\ p \notin bare)
        /\ claim \subseteq Shells /\ robbed \subseteq Procs /\ bare \subseteq Procs
        /\ made \subseteq {"unlocked", "stranger"}
        /\ (p \in bare /\ p \in Shells => pc[p] \in {"look", "write"} /\ opt[p] = "wait")
        /\ (p \in bare /\ p \in Runs => pc[p] \in {"trapread", "traprm"})
        /\ (pc[p] = "relock" => opt[p] = "wait")
        /\ (p \in robbed => p \in claim \/ (p \in Runs /\ pc[p] = "use"))
        /\ (p \in Shells => pc[p] \in {"idle", "lock", "relock", "look", "write", "rm"})
        /\ (p \in Runs => pc[p] # "rm" /\ opt[p] = "plain" /\ (pc[p] # "idle" => up[p]))
    BY <1>t DEF LeaseTypeOK, LockOwned, Bare, RobbedUse, Uses, Kinds
  <1>1. ASSUME NEW o \in Options, Ask(p, o) PROVE BaseInv'
    <2>1. o \in {"plain", "wait", "force"}
      BY ProcAssumption
    <2> QED BY <1>1, <1>l, <2>1, BaseFrame DEF Ask, Goto
  <1>2. CASE Lock(p)
    BY <1>2, <1>l, BaseFrame DEF Lock, AfterLock, Goto
  <1>3. CASE LockTimesOut(p)
    BY <1>3, <1>l, BaseFrame DEF LockTimesOut, Exit, Goto
  <1>8. CASE LockGivenUp(p)
    BY <1>8, <1>l, BaseFrame DEF LockGivenUp, AfterLock, Goto
  <1>4. CASE GoAhead(p)
    BY <1>4, <1>l, BaseFrame DEF GoAhead, Goto
  <1>5. CASE Refuse(p)
    BY <1>5, <1>l, BaseFrame DEF Refuse, Unlock, Exit, Goto
  <1>6. CASE Wait(p)
    BY <1>6, <1>l, BaseFrame DEF Wait, Unlock, Goto
  <1>7. CASE Write(p)
    <2>1. \A q \in Procs : q \in Users <=> Uses(q)
      BY <1>t DEF Users, Uses
    <2>2. Users \subseteq Procs
      BY <1>l DEF Users
    <2> QED BY <1>7, <1>l, <2>1, <2>2, BaseFrame DEF Write, Unlock, Goto
  <1> QED BY <1>1, <1>2, <1>3, <1>4, <1>5, <1>6, <1>7, <1>8 DEF Acquire

LEMMA BaseRunOn == ASSUME BaseInv, NEW r \in Runs, RunOn(r) PROVE BaseInv'
  <1> USE Basics DEF Steps, Critical
  <1>t. LeaseTypeOK /\ Kinds /\ Bare /\ Claims /\ LockOwned /\ RobbedUse
    BY DEF BaseInv
  <1>l. (lock = r <=> pc[r] \in Critical /\ r \notin bare)
        /\ claim \subseteq Shells /\ robbed \subseteq Procs /\ bare \subseteq Procs
        /\ made \subseteq {"unlocked", "stranger"}
        /\ (r \in bare => pc[r] \in {"trapread", "traprm"})
        /\ (r \in robbed => pc[r] = "use")
        /\ opt[r] = "plain" /\ (pc[r] # "idle" => up[r])
    BY <1>t DEF LeaseTypeOK, LockOwned, Bare, RobbedUse, Uses, Kinds
  <1>1. CASE Rewrite(r)
    <2>1. birth[r] = StartOf(r)
      BY <1>1, <1>l DEF Rewrite, StartOf
    <2> QED BY <1>1, <1>l, <2>1, BaseFrame DEF Rewrite, Goto
  <1>2. CASE Done(r)
    BY <1>2, <1>l, BaseFrame DEF Done, Goto
  <1>3. CASE TrapRead(r)
    <2>1. CASE lease = [pid |-> r, start |-> birth[r]]
      <3>1. pc' = [pc EXCEPT ![r] = "traprm"] /\ orphans' = orphans /\ pc[r] = "trapread"
            /\ UNCHANGED <<lease, lock, up, birth, opt, bare, claim, robbed, made>>
        BY <1>3, <2>1 DEF TrapRead, Goto
      <3> QED BY <3>1, <1>l, BaseFrame
    <2>2. CASE lease # [pid |-> r, start |-> birth[r]]
      BY <1>3, <2>2, <1>l, BaseFrame DEF TrapRead, Unlock, Exit, Goto
    <2> QED BY <2>1, <2>2
  <1>4. CASE TrapRemove(r)
    BY <1>4, <1>l, BaseFrame DEF TrapRemove, Unlock, Exit, Goto
  <1> QED BY <1>1, <1>2, <1>3, <1>4 DEF RunOn

LEMMA BaseLetGo == ASSUME BaseInv, NEW s \in Shells, LetGo(s) PROVE BaseInv'
  <1> USE Basics DEF Steps, Critical
  <1>t. LeaseTypeOK /\ Kinds /\ Bare /\ Claims /\ LockOwned /\ RobbedUse
    BY DEF BaseInv
  <1>l. (lock = s <=> pc[s] \in Critical /\ s \notin bare)
        /\ claim \subseteq Shells /\ robbed \subseteq Procs /\ bare \subseteq Procs
        /\ made \subseteq {"unlocked", "stranger"}
        /\ (s \in bare /\ s \in Shells => pc[s] \in {"look", "write"} /\ opt[s] = "wait")
        /\ (s \in robbed => s \in claim) /\ pc = [pc EXCEPT ![s] = pc[s]]
    BY <1>t DEF LeaseTypeOK, LockOwned, Bare, RobbedUse, Uses, Kinds
  <1>1. CASE Release(s)
    BY <1>1, <1>l, BaseFrame DEF Release, Goto
  <1>2. CASE Remove(s)
    BY <1>2, <1>l, BaseFrame DEF Remove, Goto
  <1> QED BY <1>1, <1>2 DEF LetGo

LEMMA BaseKilled == ASSUME BaseInv, NEW p \in Procs, Killed(p) PROVE BaseInv'
  <1> USE Basics DEF Steps, Critical
  <1>t. LeaseTypeOK /\ Kinds /\ Bare /\ Claims /\ LockOwned /\ RobbedUse
    BY DEF BaseInv
  <1>l. (lock = p <=> pc[p] \in Critical /\ p \notin bare)
        /\ claim \subseteq Shells /\ robbed \subseteq Procs /\ bare \subseteq Procs
        /\ made \subseteq {"unlocked", "stranger"}
        /\ (p \in bare /\ p \in Shells => pc[p] \in {"look", "write"} /\ opt[p] = "wait")
        /\ (p \in robbed => p \in claim \/ (p \in Runs /\ pc[p] = "use"))
    BY <1>t DEF LeaseTypeOK, LockOwned, Bare, RobbedUse, Uses, Kinds
  <1> QED BY <1>l, BaseFrame DEF Killed, Unlock, Exit, Goto

LEMMA BaseNext == BaseInv /\ [Next]_vars => BaseInv'
  <1> SUFFICES ASSUME BaseInv, [Next]_vars PROVE BaseInv'
    OBVIOUS
  <1>1. CASE UNCHANGED vars
    BY <1>1 DEF vars, BaseInv, LeaseTypeOK, Kinds, Bare, Claims, Asker, Stamped, LockOwned,
       RobbedUse, Uses
  <1> QED BY <1>1, Basics, BaseBorn, BaseShellDies, BaseAcquire, BaseRunOn, BaseLetGo,
             BaseKilled DEF Next, Kernel

LEMMA BaseSpec == Spec => []BaseInv
  BY BaseInit, BaseNext, PTL DEF Spec

-----------------------------------------------------------------------------
(* The lease while the two windows without the lock are calm *)

\* Whoever uses the card and was not robbed of it has the lease
Named == \A p \in Procs : Uses(p) /\ p \notin robbed
            => up[p] /\ lease = [pid |-> p, start |-> birth[p]]
\* Nobody does while a run takes the lease over from its parent
Rewriting == \A q \in Procs : pc[q] = "rewrite"
                => lock = Unlocked /\ bare = {} /\ \A p \in Procs : Uses(p) => p \in robbed
\* Who goes on without the lock meets nobody in a window, and a round of --wait
\* nobody who is about to write
Rounds == \A p \in bare : \A q \in Procs \ {p} :
             ~Window(q) /\ (p \in Shells => pc[q] # "write")
\* Who goes ahead unforced has seen that the lease is free, and it still is
Seen == \A p \in Procs : pc[p] = "write" /\ opt[p] # "force" => ~Held
\* A release has the lease of its shell, or one that is free
Releasing == \A s \in Procs : pc[s] = "rm"
                => /\ \A p \in Procs : Uses(p) /\ p \notin robbed => p = s
                   /\ \A r \in Runs : pc[r] # "traprm"
\* The trap of a run is about to remove the lease of that run
Trapped == \A r \in Runs : pc[r] = "traprm" => lease = [pid |-> r, start |-> birth[r]]
\* A lease that is held names a user, but while a run takes it over, or when the
\* shell it was for died before it was written
Ending(p) == p \in Runs /\ pc[p] \in {"traplock", "trapread", "traprm"}
Somebody == Held /\ (\A q \in Procs : pc[q] # "rewrite") /\ "stranger" \notin made
            => Uses(lease.pid) \/ Ending(lease.pid)

CalmInv == Named /\ Rewriting /\ Rounds /\ Seen /\ Releasing /\ Trapped /\ Somebody

LEMMA CalmInit == Init => CalmInv
  BY Basics DEF Init, CalmInv, Named, Rewriting, Rounds, Seen, Releasing, Trapped, Somebody,
     Held, HolderAlive, Uses

\* A command that does not enter a window, nor is about to write, disturbs no round
LEMMA RoundsLess ==
  ASSUME BaseInv, CalmInv, NEW p \in Procs, NEW a, pc' = [pc EXCEPT ![p] = a],
         a \notin {"rewrite", "rm", "write"}, bare' \subseteq bare
  PROVE  Rounds'
  <1>1. \A q \in Procs : pc'[q] = pc[q] \/ pc'[q] = a
    BY DEF BaseInv, LeaseTypeOK
  <1> QED BY <1>1 DEF CalmInv, Rounds, Window, Between

\* ... nor does one that moves, when there is no round but its own
LEMMA RoundsStay ==
  ASSUME BaseInv, CalmInv, Calm, NEW p \in Procs, NEW a, pc' = [pc EXCEPT ![p] = a],
         Moves(p), bare' \subseteq bare
  PROVE  Rounds'
  <1>1. \A q \in Procs \ {p} : pc'[q] = pc[q]
    BY DEF BaseInv, LeaseTypeOK
  <1>2. \A q \in bare' : q = p
    BY DEF Moves, Window, BaseInv, LeaseTypeOK
  <1> QED BY <1>1, <1>2 DEF CalmInv, Rounds, Window, Between

\* A step that leaves the lease alone, and gives the card to nobody
LEMMA CalmQuiet ==
  ASSUME CalmInv, UNCHANGED <<lease, made>>, Held' => Held, Rounds',
         \A q \in Procs : Uses(q)' => /\ Uses(q) /\ (q \in robbed => q \in robbed')
                                      /\ up'[q] = up[q] /\ birth'[q] = birth[q],
         \A q \in Procs : pc'[q] = "rewrite" <=> pc[q] = "rewrite",
         \A q \in Procs : pc[q] = "rewrite" => lock' = lock /\ bare' = bare,
         \A q \in Procs : pc'[q] = "write" /\ opt'[q] # "force"
                          => (pc[q] = "write" /\ opt[q] # "force") \/ ~Held,
         \A r \in Runs : pc'[r] = "traprm"
                         => lease = [pid |-> r, start |-> birth[r]] /\ birth'[r] = birth[r],
         Held' => Uses(lease.pid)' \/ Ending(lease.pid)'
                  \/ ~(Uses(lease.pid) \/ Ending(lease.pid)),
         Releasing'
  PROVE  CalmInv'
  <1>0. Named /\ Rewriting /\ Seen /\ Somebody
    BY DEF CalmInv
  <1>1. Named'
    BY <1>0 DEF Named
  <1>2. Rewriting'
    BY <1>0 DEF Rewriting
  <1>3. Seen'
    BY <1>0 DEF Seen
  <1>4. Trapped'
    BY DEF Trapped
  <1>5. Somebody'
    BY <1>0 DEF Somebody
  <1> QED BY <1>1, <1>2, <1>3, <1>4, <1>5 DEF CalmInv

\* ... of one command, which does not start to release either
LEMMA CalmStep ==
  ASSUME BaseInv, CalmInv, NEW p \in Procs, NEW a, pc' = [pc EXCEPT ![p] = a],
         UNCHANGED <<lease, birth, made>>, Rounds',
         a \notin {"rewrite", "rm", "traprm"}, pc[p] # "rewrite",
         a = "write" => opt'[p] = "force" \/ ~Held,
         p \in Runs /\ a = "use" => pc[p] = "use",
         p \in Runs => pc[p] \notin {"use", "traplock", "trapread", "traprm"}
                       \/ a \in {"use", "traplock", "trapread"}
                       \/ ~(Held' /\ lease.pid = p),
         \A q \in Procs \ {p} : opt'[q] = opt[q],
         \A q \in Procs : pc[q] = "rewrite" => lock' = lock /\ bare' = bare,
         up' = up \/ (p \in Runs /\ a = "idle" /\ up' = [up EXCEPT ![p] = FALSE]),
         claim' = claim \/ (claim' = claim \ {p} /\ ~Held),
         robbed' = robbed \/ (robbed' = robbed \ {p} /\ ~Uses(p)')
  PROVE  CalmInv'
  <1> USE Basics
  <1>t. LeaseTypeOK /\ Claims /\ Kinds
    BY DEF BaseInv
  <1>1. /\ pc'[p] = a /\ \A q \in Procs \ {p} : pc'[q] = pc[q]
        /\ \A q \in Procs : up'[q] => up[q]
    BY <1>t DEF LeaseTypeOK
  <1>2. \A q \in Procs : Uses(q)' => Uses(q) /\ (q \in robbed => q \in robbed')
    BY <1>1 DEF Uses
  <1>3. \A q \in Procs : Uses(q)' => up'[q] = up[q]
    BY <1>1, <1>t DEF Uses, LeaseTypeOK
  <1>4. Held' => Held
    BY <1>1 DEF Held, HolderAlive
  <1>5. Held' => Uses(lease.pid)' \/ Ending(lease.pid)'
                 \/ ~(Uses(lease.pid) \/ Ending(lease.pid))
    BY <1>1, <1>4 DEF Uses, Ending, Held, HolderAlive
  <1>6. \A r \in Runs : pc'[r] = "traprm"
          => lease = [pid |-> r, start |-> birth[r]] /\ birth'[r] = birth[r]
    BY <1>1 DEF CalmInv, Trapped
  <1>7. Releasing'
    BY <1>1, <1>2 DEF CalmInv, Releasing
  <1> QED BY <1>1, <1>2, <1>3, <1>4, <1>5, <1>6, <1>7, CalmQuiet

LEMMA CalmBorn == ASSUME BaseInv, CalmInv, NEW p \in Procs, Born(p) PROVE CalmInv'
  <1> USE Basics
  <1>t. LeaseTypeOK /\ Claims /\ Kinds /\ Stamped
    BY DEF BaseInv
  <1>1. /\ ~up[p] /\ up' = [up EXCEPT ![p] = TRUE] /\ birth' = [birth EXCEPT ![p] = @ + 1]
        /\ UNCHANGED <<lease, lock, pc, opt, bare, claim, robbed, made>>
    BY DEF Born
  <1>2. Held' => Held
    <2>1. lease.pid = p => lease.start # birth'[p]
      BY <1>1, <1>t DEF LeaseTypeOK, Stamped
    <2> QED BY <1>1, <1>t, <2>1 DEF Held, HolderAlive, LeaseTypeOK
  <1>3. \A q \in Procs : Uses(q)' => up[q] /\ Uses(q) /\ q # p
    BY <1>1, <1>t DEF Uses, Claims, Asker, Kinds
  <1>4. \A r \in Runs : pc'[r] = "traprm" => up[r]
    BY <1>1, <1>t DEF Kinds
  <1>5. \A q \in Procs \ {p} : up'[q] = up[q] /\ birth'[q] = birth[q]
    BY <1>1, <1>t DEF LeaseTypeOK
  <1>6. Releasing' /\ Rounds'
    BY <1>1 DEF CalmInv, Releasing, Rounds, Window, Between, Uses
  <1> QED BY <1>1, <1>2, <1>3, <1>4, <1>5, <1>6, CalmQuiet DEF CalmInv, Seen, Trapped, Uses, Ending

LEMMA CalmShellDies ==
  ASSUME BaseInv, CalmInv, Calm, NEW s \in Shells, ShellDies(s) PROVE CalmInv'
  <1> USE Basics
  <1>t. LeaseTypeOK /\ Claims /\ Kinds
    BY DEF BaseInv
  <1>1. /\ up' = [up EXCEPT ![s] = FALSE] /\ UNCHANGED <<lease, lock, birth, pc, opt, bare, made>>
        /\ claim' = claim \ {s} /\ robbed' = robbed \ {s}
    BY DEF ShellDies
  <1>2. \A q \in Procs \ {s} : up'[q] = up[q]
    BY <1>1, <1>t DEF LeaseTypeOK
  <1>3. ~up'[s]
    BY <1>1, <1>t DEF LeaseTypeOK
  <1>4. Held' => Held /\ lease.pid # s
    BY <1>1, <1>2, <1>3 DEF Held, HolderAlive
  <1>5. \A q \in Procs : Uses(q)' => Uses(q) /\ q # s
    BY <1>1 DEF Uses
  <1>6. Releasing' /\ Rounds'
    BY <1>1, <1>5 DEF CalmInv, Releasing, Rounds, Window, Between
  <1>7. Held' => Uses(lease.pid)' \/ Ending(lease.pid)'
                 \/ ~(Uses(lease.pid) \/ Ending(lease.pid))
    BY <1>1, <1>4 DEF Uses, Ending
  <1> QED BY <1>1, <1>2, <1>4, <1>5, <1>6, <1>7, CalmQuiet DEF CalmInv, Trapped, Seen

LEMMA Alone ==
  ASSUME Calm, NEW p \in Procs, Moves(p)
  PROVE  \A q \in Procs \ {p} : pc[q] # "rewrite" /\ pc[q] # "rm" /\ q \notin bare
  BY DEF Moves, Window, Between

\* Two traps cannot both be about to remove the one lease
LEMMA OneTrap ==
  ASSUME CalmInv, NEW r \in Runs, pc[r] = "traprm"
  PROVE  \A q \in Runs \ {r} : pc[q] # "traprm"
  BY DEF CalmInv, Trapped

\* Who writes is alone between a look and what follows from it, whether the others
\* lack the lock or, in a round without it, the lease
LEMMA WritesAlone ==
  ASSUME BaseInv, CalmInv, Calm, NEW p \in Procs, pc[p] = "write", Moves(p)
  PROVE  \A q \in Procs \ {p} : pc[q] \notin {"write", "traprm", "rewrite", "rm"}
  <1> USE Basics
  <1>1. \A q \in Procs \ {p} : pc[q] # "rewrite" /\ pc[q] # "rm" /\ q \notin bare
    BY Alone
  <1>2. CASE p \notin bare
    BY <1>1, <1>2 DEF BaseInv, LockOwned, Critical
  <1>3. CASE p \in bare
    <2>1. p \in Shells /\ opt[p] = "wait"
      BY <1>3 DEF BaseInv, Bare
    <2>2. ~Held
      BY <2>1 DEF CalmInv, Seen
    <2>3. \A r \in Runs : pc[r] # "traprm"
      BY <2>2 DEF CalmInv, Trapped, Held, HolderAlive, BaseInv, Kinds
    <2>4. \A q \in Procs : pc[q] = "traprm" => q \in Runs
      BY DEF BaseInv, Kinds
    <2>5. \A q \in Procs \ {p} : pc[q] # "write"
      BY <1>3, <2>1 DEF CalmInv, Rounds
    <2> QED BY <1>1, <2>3, <2>4, <2>5
  <1> QED BY <1>2, <1>3

LEMMA CalmWaits ==
  ASSUME BaseInv, CalmInv, Calm, NEW p \in Procs,
         (\E o \in Options : Ask(p, o)) \/ Lock(p) \/ LockTimesOut(p) \/ LockGivenUp(p)
         \/ GoAhead(p) \/ Refuse(p) \/ Wait(p)
  PROVE  CalmInv'
  <1> USE Basics
  <1>t. LeaseTypeOK /\ Kinds /\ Bare
    BY DEF BaseInv
  <1>p. p \in Runs \/ p \in Shells
    OBVIOUS
  <1>k. p \in Shells => pc[p] \notin {"rewrite", "traplock"}
    BY <1>t DEF Kinds
  <1>1. ASSUME NEW o \in Options, Ask(p, o) PROVE CalmInv'
    <2>1. \A q \in Procs \ {p} : opt'[q] = opt[q] /\ pc[q] # "rewrite"
      BY <1>1, <1>t, Alone DEF Ask, LeaseTypeOK
    <2>2. pc' = [pc EXCEPT ![p] = "lock"] /\ pc[p] = "idle"
          /\ UNCHANGED <<lease, lock, up, birth, bare, claim, robbed, made>>
      BY <1>1 DEF Ask, Goto
    <2>3. Rounds'
      BY <2>2, RoundsLess
    <2> QED BY <2>1, <2>2, <2>3, CalmStep
  <1>2. CASE Lock(p)
    <2>1. \A q \in Procs : pc[q] # "rewrite"
      BY <1>2, Alone DEF Lock
    <2>2. PICK a \in {"look", "trapread"} : /\ pc' = [pc EXCEPT ![p] = a]
                                            /\ a = "look" => pc[p] # "traplock"
      BY <1>2 DEF Lock, AfterLock, Goto
    <2>3. Rounds'
      BY <1>2, <2>2, RoundsLess DEF Lock
    <2> QED BY <1>2, <2>1, <2>2, <2>3, CalmStep DEF Lock
  <1>3. CASE LockTimesOut(p)
    <2>1. pc' = [pc EXCEPT ![p] = "idle"] /\ pc[p] = "lock"
          /\ UNCHANGED <<lease, lock, birth, opt, bare, claim, robbed, made>>
      BY <1>3 DEF LockTimesOut, Exit, Goto
    <2>2. Rounds'
      BY <2>1, RoundsLess
    <2> QED BY <1>3, <2>1, <2>2, CalmStep DEF LockTimesOut, Exit
  <1>8. CASE LockGivenUp(p)
    <2>1. \A q \in Procs \ {p} : pc[q] # "rewrite" /\ ~Window(q)
      BY <1>8 DEF LockGivenUp, Moves, Window, Between
    <2>2. PICK a \in {"look", "trapread"} : /\ pc' = [pc EXCEPT ![p] = a]
                                            /\ a = "look" => pc[p] = "relock"
      BY <1>8 DEF LockGivenUp, AfterLock, Goto
    <2>3. \A q \in Procs \ {p} : pc'[q] = pc[q]
      BY <2>2, <1>t DEF LeaseTypeOK
    <2>4. ASSUME p \in Shells, NEW q \in Procs \ {p} PROVE pc[q] # "write"
      <3>1. pc[p] = "relock" /\ pc[lock] # "write"
        BY <1>8, <2>4, <1>k DEF LockGivenUp
      <3>2. pc[q] = "write" => lock = q
        BY <2>1 DEF Window, BaseInv, LockOwned, Critical
      <3> QED BY <3>1, <3>2
    <2>5. Rounds'
      <3> SUFFICES ASSUME NEW x \in bare', NEW q \in Procs \ {x}
                   PROVE  ~Window(q)' /\ (x \in Shells => pc'[q] # "write")
        BY DEF Rounds
      <3>1. bare' = bare \cup {p} /\ bare \subseteq Procs
        BY <1>8, <1>t DEF LockGivenUp, LeaseTypeOK
      <3>2. x = p
        BY <2>1, <3>1 DEF Window
      <3> QED BY <2>1, <2>3, <2>4, <3>1, <3>2 DEF Window, Between
    <2>6. pc[p] \in {"relock", "traplock"} /\ lock' = lock
          /\ UNCHANGED <<lease, up, birth, opt, claim, robbed, made>>
      BY <1>8 DEF LockGivenUp
    <2> QED BY <2>1, <2>2, <2>5, <2>6, CalmStep
  <1>4. CASE GoAhead(p)
    <2>1. pc' = [pc EXCEPT ![p] = "write"] /\ pc[p] = "look" /\ Moves(p)
          /\ UNCHANGED <<lease, lock, up, birth, opt, bare, claim, robbed, made>>
      BY <1>4 DEF GoAhead, Goto
    <2>2. Rounds'
      BY <2>1, RoundsStay
    <2> QED BY <1>4, <2>1, <2>2, CalmStep DEF GoAhead
  <1>5. CASE Refuse(p)
    <2>1. \A q \in Procs : pc[q] # "rewrite"
      BY <1>5, Alone DEF Refuse
    <2>2. pc' = [pc EXCEPT ![p] = "idle"] /\ pc[p] = "look" /\ bare' \subseteq bare
          /\ UNCHANGED <<lease, birth, opt, claim, robbed, made>>
      BY <1>5 DEF Refuse, Unlock, Exit, Goto
    <2>3. Rounds'
      BY <2>2, RoundsLess
    <2> QED BY <1>5, <2>1, <2>2, <2>3, CalmStep DEF Refuse, Exit
  <1>6. CASE Wait(p)
    <2>1. \A q \in Procs : pc[q] # "rewrite"
      BY <1>6, Alone DEF Wait
    <2>2. pc' = [pc EXCEPT ![p] = "relock"] /\ pc[p] = "look" /\ bare' \subseteq bare
          /\ UNCHANGED <<lease, up, birth, opt, claim, robbed, made>>
      BY <1>6 DEF Wait, Unlock, Goto
    <2>3. Rounds'
      BY <2>2, RoundsLess
    <2> QED BY <2>1, <2>2, <2>3, CalmStep
  <1> QED BY <1>1, <1>2, <1>3, <1>4, <1>5, <1>6, <1>8

\* A run unwinds, or is killed: its pid is gone, whatever the lease says
LEMMA CalmDone == ASSUME BaseInv, CalmInv, NEW r \in Runs, Done(r) PROVE CalmInv'
  <1>1. ~Uses(r)'
    BY Basics DEF Done, Goto, Uses, BaseInv, LeaseTypeOK
  <1>2. Rounds'
    BY Basics, RoundsLess DEF Done, Goto
  <1> QED BY <1>1, <1>2, Basics, CalmStep DEF Done, Goto

LEMMA CalmKilled ==
  ASSUME BaseInv, CalmInv, Calm, NEW p \in Procs, Killed(p) PROVE CalmInv'
  <1> USE Basics
  <1>t. LeaseTypeOK /\ Kinds /\ LockOwned
    BY DEF BaseInv
  <1>1. pc[p] # "rewrite" /\ pc' = [pc EXCEPT ![p] = "idle"]
        /\ UNCHANGED <<lease, birth, opt, claim, made>>
    BY DEF Killed, Between, Exit, Goto
  <1>2. \A q \in Procs : pc[q] = "rewrite" => lock' = lock /\ bare' = bare
    BY DEF Killed, Unlock, CalmInv, Rewriting
  <1>5. Rounds'
    BY <1>1, RoundsLess DEF Killed, Unlock
  <1>3. CASE p \in Runs
    <2>1. up' = [up EXCEPT ![p] = FALSE] /\ robbed' = robbed \ {p}
      BY <1>3 DEF Killed, Exit
    <2>2. ~up'[p]
      BY <2>1, <1>t DEF LeaseTypeOK
    <2>3. ~Uses(p)'
      BY <1>1, <1>3, <1>t DEF Uses, LeaseTypeOK
    <2>4. ~(Held' /\ lease.pid = p)
      BY <1>1, <2>2 DEF Held, HolderAlive
    <2> QED BY <1>1, <1>2, <1>3, <1>5, <2>1, <2>3, <2>4, CalmStep
  <1>4. CASE p \notin Runs
    <2>1. up' = up /\ robbed' = robbed
      BY <1>4 DEF Killed, Exit
    <2> QED BY <1>1, <1>2, <1>4, <1>5, <2>1, CalmStep
  <1> QED BY <1>3, <1>4

LEMMA CalmTrapRead ==
  ASSUME BaseInv, CalmInv, Calm, NEW r \in Runs, TrapRead(r) PROVE CalmInv'
  <1> USE Basics
  <1>t. LeaseTypeOK /\ Kinds
    BY DEF BaseInv
  <1>a. pc[r] = "trapread" /\ \A q \in Procs : pc[q] # "rewrite" /\ pc[q] # "rm"
    BY Alone DEF TrapRead
  <1>1. CASE lease = [pid |-> r, start |-> birth[r]]
    <2>1. pc' = [pc EXCEPT ![r] = "traprm"]
          /\ UNCHANGED <<lease, lock, up, birth, opt, bare, claim, robbed, made>>
      BY <1>1 DEF TrapRead, Goto
    <2>2. pc'[r] = "traprm" /\ \A q \in Procs \ {r} : pc'[q] = pc[q]
      BY <2>1, <1>t DEF LeaseTypeOK
    <2>3. \A q \in Procs : Uses(q)' <=> Uses(q)
      BY <1>a, <2>1, <2>2 DEF Uses
    <2>4. Held' <=> Held
      BY <2>1 DEF Held, HolderAlive
    <2>5. Releasing'
      BY <1>a, <2>2 DEF Releasing
    <2>6. Ending(lease.pid)'
      BY <1>1, <2>1, <2>2 DEF Ending
    <2>7. Rounds'
      BY <2>1, RoundsLess
    <2> QED BY <1>1, <1>a, <2>1, <2>2, <2>3, <2>4, <2>5, <2>6, <2>7, CalmQuiet
       DEF CalmInv, Trapped
  <1>2. CASE lease # [pid |-> r, start |-> birth[r]]
    <2>1. /\ pc' = [pc EXCEPT ![r] = "idle"] /\ up' = [up EXCEPT ![r] = FALSE]
          /\ bare' \subseteq bare /\ UNCHANGED <<lease, birth, opt, claim, robbed, made>>
      BY <1>2 DEF TrapRead, Unlock, Exit, Goto
    <2>2. ~up'[r]
      BY <2>1, <1>t DEF LeaseTypeOK
    <2>3. ~(Held' /\ lease.pid = r)
      BY <2>1, <2>2 DEF Held, HolderAlive
    <2>4. Rounds'
      BY <2>1, RoundsLess
    <2> QED BY <1>a, <2>1, <2>3, <2>4, CalmStep
  <1> QED BY <1>1, <1>2

LEMMA CalmRelease ==
  ASSUME BaseInv, CalmInv, Calm, NEW s \in Shells, Release(s) PROVE CalmInv'
  <1> USE Basics
  <1>t. LeaseTypeOK /\ Kinds /\ Claims
    BY DEF BaseInv
  <1>a. pc[s] = "idle" /\ \A q \in Procs : pc[q] # "rewrite" /\ pc[q] # "rm"
        /\ UNCHANGED <<lease, lock, up, birth, opt, bare, made>>
    BY Alone DEF Release
  <1>1. CASE lease = NoLease
    <2>1. claim' = claim \ {s} /\ robbed' = robbed \ {s} /\ pc' = pc
      BY <1>1 DEF Release
    <2>2. ~Held /\ ~Held'
      BY <1>1, <1>a DEF Held, HolderAlive
    <2>3. \A q \in Procs : Uses(q)' => Uses(q) /\ (q \in robbed => q \in robbed')
      BY <2>1 DEF Uses
    <2>4. Releasing' /\ Rounds'
      BY <1>a, <2>1 DEF CalmInv, Releasing, Rounds, Window, Between
    <2> QED BY <1>a, <2>1, <2>2, <2>3, <2>4, CalmQuiet DEF CalmInv, Trapped
  <1>2. CASE lease # NoLease
    <2>1. /\ lease.pid = s \/ ~Held
          /\ pc' = [pc EXCEPT ![s] = "rm"] /\ UNCHANGED <<claim, robbed>>
      BY <1>2 DEF Release, Goto
    <2>2. pc'[s] = "rm" /\ \A q \in Procs \ {s} : pc'[q] = pc[q]
      BY <2>1, <1>t DEF LeaseTypeOK
    <2>3. \A q \in Procs : (Uses(q)' <=> Uses(q)) /\ (Ending(q)' <=> Ending(q))
      BY <1>a, <2>1, <2>2 DEF Uses, Ending
    <2>4. Held' <=> Held
      BY <1>a DEF Held, HolderAlive
    <2>5. ASSUME NEW q \in Procs, Uses(q), q \notin robbed PROVE q = s
      <3>1. up[q] /\ lease = [pid |-> q, start |-> birth[q]]
        BY <2>5 DEF CalmInv, Named
      <3> QED BY <3>1, <2>1 DEF Held, HolderAlive
    <2>6. ASSUME NEW r \in Runs PROVE pc'[r] # "traprm"
      <3>1. CASE pc[r] = "traprm"
        <4>1. up[r] /\ lease = [pid |-> r, start |-> birth[r]]
          BY <3>1, <1>t DEF CalmInv, Trapped, Kinds
        <4> QED BY <4>1, <2>1 DEF Held, HolderAlive
      <3> QED BY <3>1, <2>2
    <2>7. Releasing'
      BY <1>a, <2>1, <2>2, <2>3, <2>5, <2>6 DEF Releasing
    <2>8. Held' => Uses(lease.pid)' \/ Ending(lease.pid)'
                   \/ ~(Uses(lease.pid) \/ Ending(lease.pid))
      BY <1>a, <2>3, <2>4 DEF Held, HolderAlive
    <2>9. Rounds'
      BY <1>a, <2>1, RoundsStay DEF Release
    <2> QED BY <1>a, <2>1, <2>2, <2>3, <2>4, <2>7, <2>8, <2>9, CalmQuiet DEF CalmInv, Trapped
  <1> QED BY <1>1, <1>2

\* The lease is removed: nobody but the one who is through uses the card
LEMMA CalmGone ==
  ASSUME BaseInv, CalmInv, Calm, NEW p \in Procs, pc' = [pc EXCEPT ![p] = "idle"],
         pc[p] \in {"rm", "traprm"}, Moves(p),
         lease' = NoLease, bare' \subseteq bare,
         \A q \in Procs : Uses(q)' => Uses(q) /\ q # p /\ (q \in robbed => q \in robbed'),
         \A q \in Procs : Uses(q) /\ q \notin robbed => q = p,
         \A r \in Runs \ {p} : pc[r] # "traprm"
  PROVE  CalmInv'
  <1> USE Basics
  <1>t. LeaseTypeOK
    BY DEF BaseInv
  <1>1. /\ pc'[p] = "idle" /\ \A q \in Procs \ {p} : pc'[q] = pc[q]
        /\ \A q \in Procs : pc'[q] # "rewrite" /\ pc'[q] # "rm"
    BY <1>t, Alone DEF LeaseTypeOK
  <1>2. ~Held'
    BY DEF Held, HolderAlive
  <1>3. Named'
    BY DEF Named
  <1>4. Rewriting' /\ Releasing' /\ Seen' /\ Somebody'
    BY <1>1, <1>2 DEF Rewriting, Releasing, Seen, Somebody
  <1>5. Trapped' /\ Rounds'
    BY <1>1, RoundsLess DEF Trapped
  <1> QED BY <1>3, <1>4, <1>5 DEF CalmInv

LEMMA CalmTrapRemove ==
  ASSUME BaseInv, CalmInv, Calm, NEW r \in Runs, TrapRemove(r) PROVE CalmInv'
  <1> USE Basics
  <1>t. LeaseTypeOK
    BY DEF BaseInv
  <1>1. /\ pc[r] = "traprm" /\ pc' = [pc EXCEPT ![r] = "idle"] /\ Moves(r)
        /\ lease' = NoLease /\ bare' \subseteq bare /\ UNCHANGED <<claim, robbed>>
    BY DEF TrapRemove, Unlock, Exit, Goto
  <1>2. lease.pid = r /\ ~Uses(r)
    BY <1>1, <1>t DEF CalmInv, Trapped, Uses, LeaseTypeOK
  <1>3. \A q \in Procs : Uses(q) => q \in robbed
    BY <1>2 DEF CalmInv, Named
  <1>4. \A q \in Procs : Uses(q)' => Uses(q) /\ q # r
    BY <1>1, <1>2, <1>t DEF Uses, LeaseTypeOK
  <1>5. \A q \in Runs \ {r} : pc[q] # "traprm"
    BY <1>1, OneTrap
  <1> QED BY <1>1, <1>3, <1>4, <1>5, CalmGone

LEMMA CalmRemove ==
  ASSUME BaseInv, CalmInv, Calm, NEW s \in Shells, Remove(s) PROVE CalmInv'
  <1> USE Basics
  <1>1. /\ pc[s] = "rm" /\ pc' = [pc EXCEPT ![s] = "idle"] /\ Moves(s)
        /\ lease' = NoLease /\ bare' = bare
        /\ claim' = claim \ {s} /\ robbed' = robbed \ {s}
    BY DEF Remove, Goto
  <1>2. \A q \in Procs : Uses(q)' => Uses(q) /\ q # s
    BY <1>1 DEF Uses, BaseInv, LeaseTypeOK
  <1> QED BY <1>1, <1>2, CalmGone DEF CalmInv, Releasing

\* Before an unforced write nobody has the card
LEMMA NobodyNamed ==
  ASSUME CalmInv, ~Held, NEW q \in Procs, Uses(q)
  PROVE  q \in robbed
  BY DEF CalmInv, Named, Held, HolderAlive

\* What a write does to those who use the card
LEMMA WriteUsers ==
  ASSUME BaseInv, CalmInv, NEW p \in Procs, Write(p)
  PROVE  /\ \A q \in Procs : Uses(q)' <=> Uses(q) \/ (q = p /\ p \in Shells /\ Asker(p))
         /\ \A q \in Procs : Uses(q)' /\ q \notin robbed'
                => q = p /\ p \in Shells /\ Asker(p)
  <1> USE Basics
  <1>t. LeaseTypeOK /\ Kinds /\ Claims /\ RobbedUse
    BY DEF BaseInv
  <1>1. \A q \in Procs \ {p} : pc'[q] = pc[q]
    BY <1>t DEF Write, Goto, LeaseTypeOK
  <1>2. pc[p] = "write" /\ pc'[p] \in {"rewrite", "idle"}
    BY <1>t DEF Write, Goto, LeaseTypeOK
  <1>3. \A q \in Procs : Uses(q)' <=> Uses(q) \/ (q = p /\ p \in Shells /\ Asker(p))
    BY <1>1, <1>2 DEF Write, Uses
  <1>4. \A q \in Procs : q \in Users <=> Uses(q)
    BY DEF Users, Uses
  <1>5. p \in claim' <=> p \in Shells /\ Asker(p)
    BY <1>t DEF Write, Claims, LeaseTypeOK
  <1>6. CASE opt[p] = "force"
    <2>1. robbed' = Users \ {p}
      BY <1>6 DEF Write
    <2>2. Uses(p)' => p \in Shells /\ Asker(p)
      BY <1>2, <1>5 DEF Uses
    <2> QED BY <1>3, <1>4, <2>1, <2>2
  <1>7. CASE opt[p] # "force"
    <2>1. ~Held
      BY <1>2, <1>7 DEF CalmInv, Seen
    <2>2. \A q \in Procs : Uses(q) => q \in robbed
      BY <2>1, NobodyNamed
    <2>3. robbed' = IF p \in Shells /\ Asker(p) THEN robbed \ {p} ELSE robbed
      BY <1>5, <1>7 DEF Write
    <2> QED BY <1>3, <2>2, <2>3
  <1> QED BY <1>3, <1>6, <1>7

LEMMA CalmWrite ==
  ASSUME BaseInv, CalmInv, Calm, NEW p \in Procs, Write(p) PROVE CalmInv'
  <1> USE Basics
  <1>t. LeaseTypeOK /\ Kinds /\ Claims /\ RobbedUse
    BY DEF BaseInv
  <1>1. /\ pc[p] = "write" /\ Moves(p) /\ Unlock(p)
        /\ lease' = [pid |-> HolderOf(p), start |-> StartOf(HolderOf(p))]
        /\ UNCHANGED <<up, birth, opt>>
    BY DEF Write
  <1>2. /\ pc'[p] = IF p \in Runs THEN "rewrite" ELSE "idle"
        /\ \A q \in Procs \ {p} : pc'[q] = pc[q]
    BY <1>t DEF Write, Goto, LeaseTypeOK
  <1>3. \A q \in Procs \ {p} : pc[q] \notin {"write", "traprm", "rewrite", "rm"}
    BY <1>1, WritesAlone
  <1>4. p \in Shells => HolderOf(p) = p
    BY DEF HolderOf
  <1>5. Named'
    <2> SUFFICES ASSUME NEW q \in Procs, Uses(q)', q \notin robbed'
                 PROVE  up'[q] /\ lease' = [pid |-> q, start |-> birth'[q]]
      BY DEF Named
    <2>1. q = p /\ p \in Shells /\ Asker(p)
      BY WriteUsers
    <2> QED BY <2>1, <1>1, <1>4 DEF StartOf, Asker
  <1>6. Rewriting'
    <2>1. \A q \in Procs : pc'[q] = "rewrite" => p \in Runs
      BY <1>2, <1>3
    <2>2. p \in Runs => \A q \in Procs : Uses(q)' => q \in robbed'
      BY WriteUsers
    <2>3. p \in Runs => p \notin bare
      BY <1>1 DEF BaseInv, Bare
    <2>4. p \in Runs => lock = p
      BY <1>1, <2>3 DEF BaseInv, LockOwned, Critical
    <2>5. p \in Runs => lock' = Unlocked /\ bare' = {}
      BY <1>1, <2>3, <2>4, Alone, <1>t DEF Unlock, LeaseTypeOK
    <2> QED BY <2>1, <2>2, <2>5 DEF Rewriting
  <1>9. Rounds'
    BY <1>1, RoundsStay DEF Write, Goto, Unlock
  <1>7. Seen' /\ Releasing' /\ Trapped'
    BY <1>2, <1>3 DEF Seen, Releasing, Trapped
  <1>8. Somebody'
    <2>1. CASE p \in Runs
      BY <1>2, <2>1 DEF Somebody
    <2>2. CASE p \in Shells
      <3>1. Held' /\ "stranger" \notin made' => Asker(p)
        BY <1>1, <1>4, <2>2 DEF Held, HolderAlive, Write, Asker
      <3>2. Asker(p) => Uses(p)'
        BY <2>2, WriteUsers
      <3>3. lease'.pid = p
        BY <1>1, <1>4, <2>2
      <3>4. Uses(p)' => Uses(lease.pid)'
        BY <3>3 DEF Uses
      <3> QED BY <3>1, <3>2, <3>4 DEF Somebody
    <2> QED BY <2>1, <2>2
  <1> QED BY <1>5, <1>6, <1>7, <1>8, <1>9 DEF CalmInv

LEMMA CalmRewrite ==
  ASSUME BaseInv, CalmInv, Calm, NEW r \in Runs, Rewrite(r) PROVE CalmInv'
  <1> USE Basics
  <1>t. LeaseTypeOK /\ Kinds
    BY DEF BaseInv
  <1>1. /\ pc[r] = "rewrite" /\ Moves(r) /\ lease' = [pid |-> r, start |-> birth[r]]
        /\ UNCHANGED <<lock, up, birth, opt, bare, claim, robbed>>
    BY DEF Rewrite
  <1>2. pc'[r] = "use" /\ \A q \in Procs \ {r} : pc'[q] = pc[q]
    BY <1>t DEF Rewrite, Goto, LeaseTypeOK
  <1>3. lock = Unlocked /\ bare = {} /\ \A q \in Procs : Uses(q) => q \in robbed
    BY <1>1 DEF CalmInv, Rewriting
  <1>4. \A q \in Procs : pc[q] \notin Critical
    BY <1>3 DEF BaseInv, LockOwned
  <1>5. \A q \in Procs \ {r} : pc[q] # "rewrite" /\ pc[q] # "rm"
    BY <1>1, Alone
  <1>6. Named'
    <2>1. \A q \in Procs : Uses(q)' => Uses(q) \/ q = r
      BY <1>1, <1>2 DEF Uses
    <2>2. up[r]
      BY <1>1, <1>t DEF Kinds
    <2> QED BY <1>1, <1>3, <2>1, <2>2 DEF Named
  <1>7. Rewriting' /\ Seen' /\ Releasing' /\ Trapped' /\ Rounds'
    BY <1>1, <1>2, <1>3, <1>4, <1>5 DEF Rewriting, Seen, Releasing, Trapped, Rounds, Critical
  <1>8. Somebody'
    BY <1>1, <1>2 DEF Somebody, Uses
  <1> QED BY <1>6, <1>7, <1>8 DEF CalmInv

LEMMA CalmNext == ASSUME Calm PROVE BaseInv /\ CalmInv /\ [Next]_vars => CalmInv'
  <1> SUFFICES ASSUME BaseInv, CalmInv, [Next]_vars PROVE CalmInv'
    OBVIOUS
  <1>1. CASE UNCHANGED vars
    BY <1>1 DEF vars, CalmInv, Named, Rewriting, Rounds, Window, Between, Seen, Releasing,
       Trapped, Somebody, Uses, Ending, Held, HolderAlive
  <1>2. ASSUME NEW p \in Procs, Acquire(p) PROVE CalmInv'
    BY <1>2, CalmWaits, CalmWrite DEF Acquire
  <1>3. ASSUME NEW r \in Runs, RunOn(r) PROVE CalmInv'
    BY <1>3, CalmRewrite, CalmDone, CalmTrapRead, CalmTrapRemove DEF RunOn
  <1>4. ASSUME NEW s \in Shells, LetGo(s) PROVE CalmInv'
    BY <1>4, CalmRelease, CalmRemove DEF LetGo
  <1>5. CASE Kernel
    BY <1>5, CalmBorn, CalmKilled, CalmShellDies DEF Kernel
  <1> QED BY <1>1, <1>2, <1>3, <1>4, <1>5 DEF Next

LEMMA CalmSpec == ASSUME Calm PROVE Spec => []CalmInv
  <1>1. BaseInv /\ CalmInv /\ [Next]_vars => CalmInv'
    BY CalmNext
  <1> QED BY <1>1, CalmInit, BaseSpec, PTL DEF Spec

-----------------------------------------------------------------------------
(* The lease keeps the promise of module Card while the windows are calm *)

Promised == LeasedCard!Next \/ (Users' = Users /\ robbed' = robbed)

LEMMA UsersUse ==
  ASSUME BaseInv
  PROVE  /\ Users \subseteq Procs /\ robbed \subseteq Users
         /\ \A q \in Procs : q \in Users <=> Uses(q)
  <1>1. claim \subseteq Shells /\ robbed \subseteq Procs /\ \A q \in robbed : Uses(q)
    BY DEF BaseInv, LeaseTypeOK, RobbedUse
  <1> QED BY <1>1, Basics DEF Users, Uses

LEMMA NextUsersUse ==
  ASSUME BaseInv'
  PROVE  Users' \subseteq Procs /\ \A q \in Procs : q \in Users' <=> Uses(q)'
  <1>1. claim' \subseteq Shells
    BY DEF BaseInv, LeaseTypeOK
  <1> QED BY <1>1, Basics DEF Users, Uses

LEMMA Stays ==
  ASSUME BaseInv, BaseInv', \A q \in Procs : Uses(q)' <=> Uses(q), robbed' = robbed
  PROVE  Promised
  <1>1. Users' = Users
    BY UsersUse, NextUsersUse
  <1> QED BY <1>1 DEF Promised

LEMMA Leaves ==
  ASSUME BaseInv, BaseInv', NEW p \in Procs,
         \A q \in Procs : Uses(q)' <=> Uses(q) /\ q # p, robbed' = robbed \ {p}
  PROVE  Promised
  <1>1. Users' = Users \ {p}
    BY UsersUse, NextUsersUse
  <1>2. CASE p \in Users
    BY <1>1, <1>2 DEF Promised, LeasedCard!Next, LeasedCard!Leave
  <1>3. CASE p \notin Users
    <2>1. Users' = Users /\ robbed' = robbed
      BY <1>1, <1>3, UsersUse
    <2> QED BY <2>1 DEF Promised
  <1> QED BY <1>2, <1>3

LEMMA Takes ==
  ASSUME BaseInv, BaseInv', NEW p \in Procs,
         \A q \in Procs : Uses(q)' <=> Uses(q) \/ q = p,
         \A q \in Procs : Uses(q) => q \in robbed, robbed' = robbed \ {p}
  PROVE  Promised
  <1>1. Users' = Users \cup {p} /\ Users \subseteq robbed
    BY UsersUse, NextUsersUse
  <1> QED BY <1>1 DEF Promised, LeasedCard!Next, LeasedCard!Take

LEMMA WritePromised ==
  ASSUME BaseInv, CalmInv, BaseInv', NEW p \in Procs, Write(p)
  PROVE  Promised
  <1>1. CASE p \in Shells /\ Asker(p)
    <2>1. p \in claim'
      BY <1>1 DEF Write
    <2>2. CASE opt[p] = "force"
      <3>1. robbed' = Users \ {p} /\ Users' = Users \cup {p}
        BY <1>1, <2>2, WriteUsers, UsersUse, NextUsersUse DEF Write
      <3> QED BY <3>1 DEF Promised, LeasedCard!Next, LeasedCard!Seize
    <2>3. CASE opt[p] # "force"
      <3>1. ~Held
        BY <2>3 DEF Write, CalmInv, Seen
      <3>2. robbed' = robbed \ {p}
        BY <2>1, <2>3 DEF Write
      <3> QED BY <1>1, <3>1, <3>2, NobodyNamed, WriteUsers, Takes
    <2> QED BY <2>2, <2>3
  <1>2. CASE ~(p \in Shells /\ Asker(p))
    <2>1. Users' = Users
      BY <1>2, WriteUsers, UsersUse, NextUsersUse
    <2>2. p \notin claim'
      BY <1>2 DEF Write, BaseInv, Claims, LeaseTypeOK
    <2>3. CASE opt[p] # "force"
      BY <2>1, <2>2, <2>3 DEF Write, Promised
    <2>4. CASE opt[p] = "force"
      <3>1. p \notin Users
        <4>1. p \in Shells
          BY <2>4, Basics DEF BaseInv, Kinds
        <4> QED BY <1>2, <4>1, Basics DEF Users, BaseInv, Claims
      <3>2. robbed' = Users
        BY <2>4, <3>1 DEF Write
      <3> QED BY <2>1, <3>2 DEF Promised, LeasedCard!Next, LeasedCard!Rob
    <2> QED BY <2>3, <2>4
  <1> QED BY <1>1, <1>2

\* A step of a command that does not use the card, then or now
LEMMA Idles ==
  ASSUME BaseInv, BaseInv', NEW p \in Procs, NEW a, pc' = [pc EXCEPT ![p] = a],
         p \in Runs => pc[p] # "use" /\ a # "use", UNCHANGED <<claim, robbed>>
  PROVE  Promised
  <1>1. \A q \in Procs : Uses(q)' <=> Uses(q)
    BY DEF Uses, BaseInv, LeaseTypeOK
  <1> QED BY <1>1, Stays

LEMMA StepPromised ==
  ASSUME Calm, BaseInv, CalmInv, BaseInv', [Next]_vars
  PROVE  Promised
  <1> USE Basics
  <1>t. LeaseTypeOK /\ RobbedUse
    BY DEF BaseInv
  <1>1. CASE UNCHANGED vars
    BY <1>1, Stays DEF vars, Uses
  <1>2. ASSUME NEW p \in Procs, Acquire(p) PROVE Promised
    <2>1. CASE Write(p)
      BY <2>1, WritePromised
    <2>2. CASE ~Write(p)
      BY <1>2, <2>2, Idles DEF Acquire, Ask, Lock, LockTimesOut, LockGivenUp, AfterLock,
         GoAhead, Refuse, Wait, Exit, Goto
    <2> QED BY <2>1, <2>2
  <1>3. ASSUME NEW r \in Runs, RunOn(r) PROVE Promised
    <2>1. CASE Rewrite(r)
      <3>1. pc[r] = "rewrite" /\ pc' = [pc EXCEPT ![r] = "use"] /\ UNCHANGED <<claim, robbed>>
        BY <2>1 DEF Rewrite, Goto
      <3>2. \A q \in Procs : Uses(q) => q \in robbed
        BY <3>1 DEF CalmInv, Rewriting
      <3>3. \A q \in Procs : Uses(q)' <=> Uses(q) \/ q = r
        BY <3>1, <1>t DEF Uses, LeaseTypeOK
      <3>4. ~Uses(r)
        BY <3>1, <1>t DEF Uses, LeaseTypeOK
      <3>5. robbed' = robbed \ {r}
        BY <3>1, <3>4, <1>t DEF RobbedUse
      <3> QED BY <3>2, <3>3, <3>5, Takes
    <2>2. CASE Done(r)
      <3>1. \A q \in Procs : Uses(q)' <=> Uses(q) /\ q # r
        BY <2>2, <1>t DEF Done, Goto, Uses, LeaseTypeOK
      <3> QED BY <2>2, <3>1, Leaves DEF Done
    <2>3. CASE TrapRead(r) \/ TrapRemove(r)
      BY <2>3, Idles DEF TrapRead, TrapRemove, Exit, Goto
    <2> QED BY <1>3, <2>1, <2>2, <2>3 DEF RunOn
  <1>4. ASSUME NEW s \in Shells, LetGo(s) PROVE Promised
    <2>1. CASE claim' = claim \ {s} /\ robbed' = robbed \ {s}
      <3>1. \A q \in Procs : Uses(q)' <=> Uses(q) /\ q # s
        BY <1>4, <2>1, <1>t DEF LetGo, Release, Remove, Goto, Uses, LeaseTypeOK
      <3> QED BY <2>1, <3>1, Leaves
    <2>2. CASE UNCHANGED <<claim, robbed>> /\ pc' = [pc EXCEPT ![s] = "rm"]
      BY <2>2, Idles
    <2> QED BY <1>4, <2>1, <2>2 DEF LetGo, Release, Remove, Goto
  <1>5. CASE Kernel
    <2>1. ASSUME NEW p \in Procs, Born(p) PROVE Promised
      BY <2>1, Stays DEF Born, Uses
    <2>2. ASSUME NEW s \in Shells, ShellDies(s) PROVE Promised
      <3>1. \A q \in Procs : Uses(q)' <=> Uses(q) /\ q # s
        BY <2>2 DEF ShellDies, Uses
      <3> QED BY <2>2, <3>1, Leaves DEF ShellDies
    <2>3. ASSUME NEW p \in Procs, Killed(p) PROVE Promised
      <3>1. pc' = [pc EXCEPT ![p] = "idle"] /\ claim' = claim
        BY <2>3 DEF Killed, Exit, Goto
      <3>2. CASE p \in Runs
        <4>1. \A q \in Procs : Uses(q)' <=> Uses(q) /\ q # p
          BY <3>1, <3>2, <1>t DEF Uses, LeaseTypeOK
        <4> QED BY <2>3, <3>2, <4>1, Leaves DEF Killed
      <3>3. CASE p \notin Runs
        BY <2>3, <3>1, <3>3, Idles DEF Killed
      <3> QED BY <3>2, <3>3
    <2> QED BY <1>5, <2>1, <2>2, <2>3 DEF Kernel
  <1> QED BY <1>1, <1>2, <1>3, <1>4, <1>5 DEF Next

-----------------------------------------------------------------------------
\* The lock belongs to the command that is between a look and what follows from
\* it, and to nobody else, in the windows too
THEOREM LockAlwaysOwned == Spec => []LockOwned
  <1>1. BaseInv => LockOwned
    BY DEF BaseInv
  <1> QED BY <1>1, BaseSpec, PTL

\* A check made by whoever uses the card says so, and to everybody else that it
\* is held, while nobody moves in the windows without the lock
THEOREM AnswersAlwaysTrue == ASSUME Calm PROVE Spec => []AnswersTruthful
  <1>1. BaseInv /\ CalmInv => AnswersTruthful
    <2> SUFFICES ASSUME BaseInv, CalmInv, NEW p \in Users \ robbed
                 PROVE  CheckSays({p}) = "ours" /\ CheckSays(Procs \ {p}) = "held"
      BY DEF AnswersTruthful
    <2>1. p \in Procs /\ Uses(p)
      BY Basics DEF Users, Uses, BaseInv, LeaseTypeOK
    <2>2. up[p] /\ lease = [pid |-> p, start |-> birth[p]]
      BY <2>1 DEF CalmInv, Named
    <2>3. Held /\ lease.pid = p
      BY <2>1, <2>2 DEF Held, HolderAlive
    <2> QED BY <2>1, <2>3 DEF CheckSays
  <1> QED BY <1>1, BaseSpec, CalmSpec, PTL

\* A lease that turns anybody away names a process that uses the card or is
\* about to release it
THEOREM AlwaysHeldBySomebody == ASSUME Calm PROVE Spec => []HeldBySomebody
  <1>1. BaseInv /\ CalmInv => HeldBySomebody
    <2> SUFFICES ASSUME BaseInv, CalmInv, Held, \A q \in Procs : ~Window(q),
                        "stranger" \notin made
                 PROVE  lease.pid \in Users \cup Finishing
      BY DEF HeldBySomebody
    <2>1. Uses(lease.pid) \/ Ending(lease.pid)
      BY DEF CalmInv, Somebody, Window, Between
    <2> QED BY <2>1 DEF Uses, Ending, Users, Finishing
  <1> QED BY <1>1, BaseSpec, CalmSpec, PTL

\* A trap that has the lock is about to remove the lease of its run, unless that is
\* gone or somebody wrote over it without the lock
Exits == \A r \in Runs : pc[r] = "traprm" /\ r \notin bare
           => lease = NoLease \/ lease = [pid |-> r, start |-> birth[r]] \/ "unlocked" \in made

\* Whoever writes or removes the lease meanwhile had no lock
LEMMA ExitsNext == BaseInv /\ BaseInv' /\ Exits /\ [Next]_vars => Exits'
  <1> SUFFICES ASSUME BaseInv, BaseInv', Exits, [Next]_vars, NEW r \in Runs,
                      pc'[r] = "traprm", r \notin bare'
               PROVE  \/ lease' = NoLease \/ lease' = [pid |-> r, start |-> birth'[r]]
                      \/ "unlocked" \in made'
    BY DEF Exits
  <1> USE Basics
  <1>t. LeaseTypeOK /\ Kinds /\ LockOwned
    BY DEF BaseInv
  \* It was there before, and what it saw is as it was
  <1> DEFINE Still == /\ pc[r] = "traprm" /\ r \notin bare /\ birth'[r] = birth[r]
                      /\ lease' = lease /\ made' = made
  <1>s. Still \/ lease' = NoLease \/ "unlocked" \in made'
        \/ lease' = [pid |-> r, start |-> birth'[r]]
    <2>1. ASSUME NEW p \in Procs, Acquire(p) PROVE Still \/ "unlocked" \in made'
      <3>1. CASE ~Write(p)
        BY <2>1, <3>1, <1>t DEF Acquire, Ask, Lock, LockTimesOut, LockGivenUp, AfterLock,
           GoAhead, Refuse, Wait, Unlock, Exit, Goto, LeaseTypeOK
      <3>2. CASE Write(p)
        <4>1. p # r /\ pc[r] = "traprm"
          BY <3>2, <1>t DEF Write, Goto, LeaseTypeOK
        <4>2. r \notin bare
          BY <3>2, <4>1 DEF Write, Unlock
        <4>3. lock = r /\ pc[p] = "write"
          BY <3>2, <4>1, <4>2, <1>t DEF Write, LockOwned, Critical
        <4>4. p \in bare
          BY <4>1, <4>3, <1>t DEF LockOwned, Critical
        <4> QED BY <3>2, <4>4 DEF Write
      <3> QED BY <3>1, <3>2
    <2>2. ASSUME NEW q \in Runs, RunOn(q)
          PROVE  Still \/ lease' = NoLease \/ "unlocked" \in made'
                 \/ lease' = [pid |-> r, start |-> birth'[r]]
      <3>1. CASE Rewrite(q)
        BY <3>1 DEF Rewrite
      <3>2. CASE Done(q)
        BY <3>2, <1>t DEF Done, Goto, LeaseTypeOK
      <3>3. CASE TrapRead(q)
        BY <3>3, <1>t DEF TrapRead, Unlock, Exit, Goto, LeaseTypeOK
      <3>4. CASE TrapRemove(q)
        BY <3>4 DEF TrapRemove
      <3> QED BY <2>2, <3>1, <3>2, <3>3, <3>4 DEF RunOn
    <2>3. ASSUME NEW s \in Shells, LetGo(s) PROVE Still \/ lease' = NoLease
      <3>1. CASE Release(s)
        BY <3>1, <1>t DEF Release, Goto, LeaseTypeOK
      <3>2. CASE Remove(s)
        BY <3>2 DEF Remove
      <3> QED BY <2>3, <3>1, <3>2 DEF LetGo
    <2>4. CASE Kernel
      <3>1. ASSUME NEW p \in Procs, Born(p) PROVE Still
        BY <3>1, <1>t DEF Born, Kinds, LeaseTypeOK
      <3>2. ASSUME NEW p \in Procs, Killed(p) PROVE Still
        BY <3>2, <1>t DEF Killed, Unlock, Exit, Goto, LeaseTypeOK
      <3>3. ASSUME NEW s \in Shells, ShellDies(s) PROVE Still
        BY <3>3 DEF ShellDies
      <3> QED BY <2>4, <3>1, <3>2, <3>3 DEF Kernel
    <2>5. CASE UNCHANGED vars
      BY <2>5 DEF vars
    <2> QED BY <2>1, <2>2, <2>3, <2>4, <2>5 DEF Next
  <1> QED BY <1>s DEF Exits

\* The exit of a run that has the lock removes the lease of that run and no other
\* that was written with the lock, in the windows too
THEOREM TrapsRemoveOwn == Spec => TrapRemovesOwn
  <1> DEFINE Own == \A r \in Runs :
                 pc[r] = "traprm" /\ r \notin bare /\ lease' = NoLease /\ lease /= NoLease
                    => lease = [pid |-> r, start |-> birth[r]] \/ "unlocked" \in made
  <1>1. Init => Exits
    BY Basics DEF Init, Exits
  <1>2. Exits => [Own]_vars
    BY DEF Exits
  <1>3. Spec => [][Own]_vars
    BY <1>1, <1>2, BaseSpec, ExitsNext, PTL DEF Spec
  <1> QED BY <1>3 DEF TrapRemovesOwn

\* The lease, the lock and the pids keep the promise of module Card: a use of the
\* card starts when every other user has been robbed, or robs them
THEOREM LeaseKeepsPromise == ASSUME Calm PROVE Spec => ImplementsCard
  <1>1. Init => LeasedCard!Init
    <2> SUFFICES ASSUME Init PROVE LeasedCard!Init
      OBVIOUS
    <2>1. Users = {} /\ robbed = {}
      BY Basics DEF Init, Users
    <2> QED BY <2>1 DEF LeasedCard!Init
  <1>2. BaseInv /\ CalmInv /\ BaseInv' /\ [Next]_vars => [LeasedCard!Next]_LeasedCard!vars
    BY StepPromised DEF Promised, LeasedCard!vars
  <1> QED BY <1>1, <1>2, BaseSpec, CalmSpec, PTL DEF Spec, ImplementsCard, LeasedCard!Spec

\* At most one process uses the card without having been robbed of it by a
\* --force, while nobody moves in the windows without the lock: what the script's
\* header promises, and what gpu_two_holders refutes without Calm
THEOREM OneHolderWhenCalm == ASSUME Calm PROVE Spec => []OneHolder
  <1>1. BaseInv /\ CalmInv => OneHolder
    <2> SUFFICES ASSUME BaseInv, CalmInv PROVE OneHolder
      OBVIOUS
    <2>1. \A p \in Users \ robbed : lease.pid = p
      <3> SUFFICES ASSUME NEW p \in Users \ robbed PROVE lease.pid = p
        OBVIOUS
      <3>1. p \in Procs /\ Uses(p)
        BY Basics DEF Users, Uses, BaseInv, LeaseTypeOK
      <3> QED BY <3>1 DEF CalmInv, Named
    <2>2. Users \ robbed \subseteq {lease.pid}
      BY <2>1
    <2>3. IsFiniteSet({lease.pid}) /\ Cardinality({lease.pid}) = 1
      BY FS_Singleton
    <2>4. Cardinality(Users \ robbed) <= Cardinality({lease.pid})
      BY <2>2, <2>3, FS_Subset
    <2> QED BY <2>3, <2>4 DEF OneHolder
  <1> QED BY <1>1, BaseSpec, CalmSpec, PTL

=============================================================================
