------------------------ MODULE ArtifactStore_proofs ------------------------
(***************************************************************************)
(* Theorems about one page of the artifact store, for any processes,       *)
(* readers, principals and numbers of operations and faults: its types,    *)
(* that a version the record names is never half written and never         *)
(* another's, that a publish is never stopped by what others left, that a  *)
(* reader is served what was published, that owners decide and that a      *)
(* sweep spares what is pinned, and that the store implements the Shelf.   *)
(***************************************************************************)
EXTENDS ArtifactStore, TLAPS

Held == Steps \ {"idle", "listed", "wait"}

\* Whoever is past the lock has it, and his copy is the record
Locked == \A p \in Procs : job[p].at \in Held => lock = p
Fresh == {"locked", "mkdir", "write", "record"}
Current == \A p \in Procs : job[p].at \in Fresh => job[p].copy = meta

\* What a publish and a removal of a version have in hand is not named
Hands(p) ==
    /\ job[p].at = "mkdir" =>
          /\ job[p].n \in Numbers \ Named(meta) /\ job[p].page \in Pages
          /\ disk[job[p].n] = Nothing
    /\ job[p].at = "write" =>
          job[p].n \in Numbers \ Named(meta) /\ job[p].page \in Pages
    /\ job[p].at = "record" =>
          /\ job[p].n \in Numbers \ Named(meta) /\ job[p].page \in Pages
          /\ disk[job[p].n] = job[p].page
    /\ job[p].at = "recorded" => job[p].n \in Numbers
    /\ job[p].at = "unwind" => torn
    /\ job[p].at = "rmdir" => job[p].n \in Numbers \ Named(meta)
    /\ job[p].at = "locked" /\ job[p].op = "publish" => job[p].page \in Pages

\* The inductive invariant
IInv == /\ StoreTypeOK /\ Locked /\ Current /\ NamedBytes /\ NeverWedged
        /\ \A p \in Procs : Hands(p)

-----------------------------------------------------------------------------
LEMMA Basics ==
  /\ Named(NoMeta) = {} /\ IsJob(Idle) /\ Idle.copy = NoMeta /\ NoRead \in Reading
  /\ Half \notin Pages /\ Half # Nothing /\ Half \in 0 .. Half
  /\ \A n \in Numbers : n \in Nat /\ n # 0 /\ n \in 0 .. MaxOps
  /\ \A b \in Pages : b \in 0 .. MaxOps /\ b \in 0 .. Half /\ b # Nothing
  <1> USE StoreAssumption
  <1>1. Named(NoMeta) = {}
    BY DEF Named, NoMeta
  <1>2. IsJob(Idle) /\ Idle.copy = NoMeta
    BY DEF IsJob, Idle, Steps
  <1>3. Half \notin Pages /\ Half # Nothing /\ Half \in 0 .. Half
    BY DEF Half, Pages, Nothing
  <1>4. \A b \in Pages : b \in 0 .. MaxOps /\ b \in 0 .. Half /\ b # Nothing
    BY DEF Pages, Half, Nothing
  <1>5. NoRead \in Reading
    BY DEF NoRead, Reading, Half
  <1> QED BY <1>1, <1>2, <1>3, <1>4, <1>5 DEF Numbers

LEMMA InitInv == Init => IInv
  <1> SUFFICES ASSUME Init PROVE IInv
    OBVIOUS
  <1> USE Basics, StoreAssumption DEF Init
  <1>1. StoreTypeOK
    <2>1. job = [p \in Procs |-> job[p]] /\ \A p \in Procs : IsJob(job[p])
      BY DEF Idle
    <2>2. disk \in [Numbers -> {Nothing, Half} \cup Pages]
      OBVIOUS
    <2>3. read \in [Readers -> Reading] /\ lock \in Procs \cup {Free}
      OBVIOUS
    <2>4. now \in 1 .. MaxNow /\ ops \in 0 .. MaxOps /\ faults \in 0 .. MaxFaults
      OBVIOUS
    <2> QED BY <2>1, <2>2, <2>3, <2>4 DEF StoreTypeOK
  <1>2. Locked /\ Current /\ NeverWedged /\ \A p \in Procs : Hands(p)
    BY DEF Locked, Current, NeverWedged, Hands, Idle, Held
  <1>3. NamedBytes
    BY DEF NamedBytes
  <1> QED BY <1>1, <1>2, <1>3 DEF IInv

-----------------------------------------------------------------------------
(* The processes that do not move have nothing in hand *)

\* What every process but p has stays as it was, but for the sweep's history
Still(p) ==
    /\ job' = [q \in Procs |-> job'[q]]
    /\ \A q \in Procs \ {p} : job'[q] = job[q] \/ job'[q] = [job[q] EXCEPT !.touched = TRUE]

LEMMA TouchedJob ==
  ASSUME NEW j, IsJob(j)
  PROVE  IsJob([j EXCEPT !.touched = TRUE]) /\ [j EXCEPT !.touched = TRUE].at = j.at
  BY DEF IsJob

LEMMA OthersType ==
  ASSUME StoreTypeOK, NEW p \in Procs, Still(p), IsJob(job'[p])
  PROVE  /\ \A q \in Procs : IsJob(job'[q])
         /\ \A q \in Procs \ {p} : job'[q].at = job[q].at
  <1>1. \A q \in Procs : IsJob(job[q])
    BY DEF StoreTypeOK
  <1>2. ASSUME NEW q \in Procs \ {p}
        PROVE  IsJob(job'[q]) /\ job'[q].at = job[q].at
    <2>1. CASE job'[q] = job[q]
      BY <1>1, <2>1
    <2>2. CASE job'[q] = [job[q] EXCEPT !.touched = TRUE]
      BY <1>1, <2>2, TouchedJob
    <2> QED BY <2>1, <2>2 DEF Still
  <1> QED BY <1>2

LEMMA ExceptStill ==
  ASSUME StoreTypeOK, NEW p \in Procs, NEW j, job' = [job EXCEPT ![p] = j]
  PROVE  Still(p) /\ job'[p] = j
  BY DEF StoreTypeOK, Still

LEMMA EndsStill ==
  ASSUME StoreTypeOK, NEW p \in Procs, EndsTouching(p)
  PROVE  Still(p) /\ job'[p] = Idle
  BY DEF StoreTypeOK, Still, EndsTouching

\* A step of the process p that has, or gets, the lock
LEMMA HolderStep ==
  ASSUME IInv, NEW p \in Procs, lock = p \/ lock = Free, Still(p),
         meta' = NoMeta \/ IsRecord(meta'),
         disk' \in [Numbers -> {Nothing, Half} \cup Pages],
         lock' \in Procs \cup {Free}, IsJob(job'[p]),
         read' \in [Readers -> Reading], now' = now, torn' \in BOOLEAN,
         menu' = menu, ops' \in 0 .. MaxOps, faults' \in 0 .. MaxFaults,
         job'[p].at \in Held => lock' = p,
         job'[p].at \in Fresh => job'[p].copy = meta',
         Hands(p)', job'[p].at # "collided",
         NamedBytes'
  PROVE  IInv'
  <1>1. StoreTypeOK'
    BY OthersType DEF IInv, StoreTypeOK, Still
  <1>2. \A q \in Procs \ {p} : job'[q].at = job[q].at /\ job[q].at \notin Held
    BY OthersType, StoreAssumption DEF IInv, Locked
  <1>3. Locked' /\ Current' /\ NeverWedged'
    BY <1>2 DEF Fresh, Locked, Current, NeverWedged, Held, Steps
  <1>4. \A q \in Procs \ {p} : Hands(q)'
    BY <1>2 DEF Hands, Held, Steps
  <1> QED BY <1>1, <1>3, <1>4 DEF IInv

\* A step of a process without the lock
LEMMA OutsideStep ==
  ASSUME IInv, NEW p \in Procs, NEW j, job' = [job EXCEPT ![p] = j],
         IsJob(j), job[p].at \notin Held, j.at \notin Held,
         UNCHANGED <<storeVars, lock, read, now, torn, menu, ops>>,
         faults' \in 0 .. MaxFaults
  PROVE  IInv'
  <1>1. Still(p) /\ job'[p] = j
    BY ExceptStill DEF IInv
  <1>2. StoreTypeOK'
    BY <1>1, OthersType DEF IInv, StoreTypeOK, Still, storeVars
  <1>3. \A q \in Procs \ {p} : job'[q] = job[q]
    BY DEF IInv, StoreTypeOK
  <1>4. Locked' /\ Current' /\ NeverWedged' /\ \A q \in Procs : Hands(q)'
    BY <1>1, <1>3 DEF Fresh, IInv, Locked, Current, NeverWedged, Hands, Held, Steps, storeVars
  <1>5. NamedBytes'
    <2>1. \A q \in Procs : job[q].at = "rmtree" => job'[q].at = "rmtree"
      BY <1>1, <1>3 DEF Held, Steps
    <2> QED BY <2>1 DEF IInv, NamedBytes, storeVars
  <1> QED BY <1>2, <1>4, <1>5 DEF IInv

\* What is named stays good while the files and the record stay as they are
LEMMA NamedStays ==
  ASSUME IInv, NEW p \in Procs, Still(p), IsJob(job'[p]), UNCHANGED storeVars,
         torn => torn',
         job[p].at = "rmtree" => job'[p].at = "rmtree" \/ meta = NoMeta \/ torn'
  PROVE  NamedBytes'
  <1>1. \A q \in Procs \ {p} : job'[q].at = job[q].at
    BY OthersType DEF IInv
  <1>2. CASE meta = NoMeta
    BY <1>2, Basics DEF NamedBytes, storeVars
  <1>3. CASE meta # NoMeta
    <2>1. \A q \in Procs : job[q].at = "rmtree" => job'[q].at = "rmtree" \/ torn'
      BY <1>1, <1>3
    <2> QED BY <2>1 DEF IInv, NamedBytes, storeVars
  <1> QED BY <1>2, <1>3

\* The types of a step that leaves most of a job alone
LEMMA JobTypes ==
  ASSUME NEW j, IsJob(j)
  PROVE  /\ \A a \in Steps : IsJob([j EXCEPT !.at = a])
         /\ \A a \in Steps : \A m : m = NoMeta \/ IsRecord(m)
               => IsJob([j EXCEPT !.at = a, !.copy = m])
         /\ \A a \in Steps, n \in 0 .. MaxOps, e \in BOOLEAN :
               IsJob([j EXCEPT !.at = a, !.n = n, !.existed = e])
  BY DEF IsJob

LEMMA FaultType == StoreTypeOK /\ Fault => faults' \in 0 .. MaxFaults
  BY StoreAssumption DEF StoreTypeOK, Fault

\* A step that ends the operation of p and touches only what is given
LEMMA EndStep ==
  ASSUME IInv, NEW p \in Procs, lock = p, lock' = Free, Still(p), job'[p] = Idle,
         meta' = NoMeta \/ IsRecord(meta'),
         disk' \in [Numbers -> {Nothing, Half} \cup Pages],
         read' \in [Readers -> Reading], now' = now, torn' \in BOOLEAN,
         menu' = menu, ops' = ops, faults' \in 0 .. MaxFaults, NamedBytes'
  PROVE  IInv'
  <1>1. job'[p].at = "idle" /\ "idle" \notin Held /\ IsJob(job'[p])
    BY Basics DEF Idle, Held
  <1>2. Hands(p)'
    BY <1>1 DEF Hands
  <1>3. ops' \in 0 .. MaxOps
    BY DEF IInv, StoreTypeOK
  <1> QED BY <1>1, <1>2, <1>3, HolderStep DEF Fresh

-----------------------------------------------------------------------------
(* One lemma per action *)

LEMMA TakeInv == ASSUME IInv, NEW p \in Procs, Take(p), menu' = menu PROVE IInv'
  <1> USE StoreAssumption
  <1>t. StoreTypeOK /\ IsJob(job[p]) /\ lock = Free /\ lock' = p
    BY DEF IInv, StoreTypeOK, Take
  <1>1. ASSUME TakeToSweep(p) PROVE IInv'
    <2> DEFINE j == [job[p] EXCEPT !.at = "locked", !.copy = meta]
    <2>1. job' = [job EXCEPT ![p] = j]
      BY <1>1, <1>t DEF TakeToSweep, StoreTypeOK
    <2>2. IsJob(j) /\ j.at = "locked" /\ j.copy = meta /\ j.op = "sweep"
      <3>1. IsJob(j)
        BY <1>t, JobTypes DEF StoreTypeOK, Steps
      <3>2. j.at = "locked" /\ j.copy = meta /\ j.op = "sweep"
        BY <1>1, <1>t DEF TakeToSweep, IsJob
      <3> QED BY <3>1, <3>2
    <2> HIDE DEF j
    <2>3. Still(p) /\ job'[p] = j
      BY <2>1, <1>t, ExceptStill
    <2>4. UNCHANGED <<storeVars, read, now, torn, ops, faults>> /\ job[p].at = "wait"
      BY <1>1 DEF TakeToSweep
    <2>5. NamedBytes'
      BY <2>2, <2>3, <2>4, NamedStays
    <2>6. Hands(p)'
      BY <2>2, <2>3 DEF Hands
    <2> QED BY <1>t, <2>2, <2>3, <2>4, <2>5, <2>6, HolderStep DEF StoreTypeOK, storeVars
  <1>2. ASSUME NEW op \in Kinds \ {"sweep"}, NEW who \in Principals,
               NEW n \in 0 .. MaxOps, TakeFor(p, op, who, n)
        PROVE  IInv'
    <2> DEFINE j == [Idle EXCEPT !.at = "locked", !.op = op, !.who = who, !.n = n,
                                 !.page = ops + 1, !.copy = meta]
    <2>1. job' = [job EXCEPT ![p] = j]
      BY <1>2 DEF TakeFor
    <2>2. ops + 1 \in Pages /\ ops + 1 \in 0 .. MaxOps
      <3>1. menu.ops \in 0 .. MaxOps /\ ops < menu.ops /\ ops \in 0 .. MaxOps
        BY <1>2, <1>t DEF TakeFor, StoreTypeOK
      <3> QED BY <3>1 DEF Pages
    <2>3. IsJob(j) /\ j.at = "locked" /\ j.copy = meta /\ j.page = ops + 1
      <3>1. (meta = NoMeta \/ IsRecord(meta)) /\ op \in Kinds \cup {"none"}
            /\ "locked" \in Steps
        BY <1>t DEF StoreTypeOK, Steps
      <3>2. Idle \in [at : Steps, op : Kinds \cup {"none"}, who : Principals,
                      n : 0 .. MaxOps, page : 0 .. MaxOps, copy : {NoMeta, meta},
                      existed : BOOLEAN, cutoff : 0 .. MaxNow, touched : BOOLEAN]
        BY Basics DEF IsJob
      <3>3. j \in [at : Steps, op : Kinds \cup {"none"}, who : Principals,
                   n : 0 .. MaxOps, page : 0 .. MaxOps, copy : {NoMeta, meta},
                   existed : BOOLEAN, cutoff : 0 .. MaxNow, touched : BOOLEAN]
            /\ j.at = "locked" /\ j.copy = meta /\ j.page = ops + 1
        BY <3>1, <3>2, <2>2
      <3> HIDE DEF j
      <3> QED BY <3>1, <3>3 DEF IsJob
    <2> HIDE DEF j
    <2>4. Still(p) /\ job'[p] = j
      BY <2>1, <1>t, ExceptStill
    <2>5. UNCHANGED <<storeVars, read, now, torn, faults>> /\ job[p].at = "wait"
          /\ ops' \in 0 .. MaxOps
      BY <1>2, <2>2 DEF TakeFor
    <2>6. NamedBytes'
      BY <2>3, <2>4, <2>5, NamedStays
    <2>7. Hands(p)'
      BY <2>2, <2>3, <2>4 DEF Hands
    <2> QED BY <1>t, <2>3, <2>4, <2>5, <2>6, <2>7, HolderStep DEF StoreTypeOK, storeVars
  <1> QED BY <1>1, <1>2 DEF Take, TakeAny

\* What the processes past the lock know
LEMMA HolderKnows ==
  ASSUME IInv, NEW p \in Procs, job[p].at \in Held
  PROVE  /\ StoreTypeOK /\ IsJob(job[p]) /\ lock = p /\ Hands(p) /\ NamedBytes
         /\ job[p].at \in Fresh => job[p].copy = meta
         /\ job[p].at # "collided"
  BY DEF IInv, Locked, Current, NeverWedged, StoreTypeOK

LEMMA EndsIdle ==
  ASSUME IInv, NEW p \in Procs, Ends(p)
  PROVE  Still(p) /\ job'[p] = Idle /\ lock' = Free
  BY ExceptStill DEF Ends, IInv

\* The operation ends and nothing was done
LEMMA NothingDone ==
  ASSUME IInv, NEW p \in Procs, job[p].at \in Held, lock' = Free, Still(p),
         job'[p] = Idle, UNCHANGED <<storeVars, read, now, menu, ops>>,
         faults' \in 0 .. MaxFaults, torn' \in BOOLEAN, torn => torn',
         job[p].at = "rmtree" => meta = NoMeta \/ torn'
  PROVE  IInv'
  <1>1. NamedBytes'
    BY Basics, NamedStays
  <1> QED BY <1>1, HolderKnows, EndStep DEF StoreTypeOK, storeVars

LEMMA RefuseInv == ASSUME IInv, NEW p \in Procs, Refuse(p), menu' = menu PROVE IInv'
  <1>1. job[p].at = "locked" /\ "locked" \in Held
    BY DEF Refuse, Held, Steps
  <1> QED BY <1>1, EndsIdle, NothingDone DEF Refuse, IInv, StoreTypeOK

LEMMA DiedInv == ASSUME IInv, NEW p \in Procs, Died(p), menu' = menu PROVE IInv'
  <1>t. StoreTypeOK /\ faults' \in 0 .. MaxFaults
    BY FaultType DEF IInv, Died
  <1>1. Still(p) /\ job'[p] = Idle
    BY <1>t, ExceptStill DEF Died
  <1>2. CASE job[p].at \in Held
    <2>1. lock' = Free
      BY <1>2, HolderKnows DEF Died
    <2> QED BY <1>2, <1>t, <1>1, <2>1, NothingDone DEF Died, StoreTypeOK
  <1>3. CASE job[p].at \notin Held /\ lock # p
    <2>1. torn' = torn
      BY <1>3, <1>t DEF Died, Held, Steps, StoreTypeOK
    <2> QED BY <1>3, <2>1, <1>t, Basics, OutsideStep DEF Died, Held, Idle
  <1>4. CASE job[p].at \notin Held /\ lock = p
    <2>1. torn' = torn /\ lock' = Free
      BY <1>4, <1>t DEF Died, Held, Steps, StoreTypeOK
    <2>2. NamedBytes'
      BY <1>1, <2>1, <1>4, Basics, NamedStays DEF Died, Held, Steps
    <2> QED BY <1>1, <1>4, <2>1, <2>2, <1>t, EndStep DEF Died, StoreTypeOK, storeVars
  <1> QED BY <1>2, <1>3, <1>4

LEMMA PickNumberInv ==
  ASSUME IInv, NEW p \in Procs, PickNumber(p), menu' = menu PROVE IInv'
  <1>h. job[p].at = "locked" /\ job[p].at \in Held /\ job[p].op = "publish"
    BY DEF PickNumber, May, Held, Steps
  <1>t. StoreTypeOK /\ IsJob(job[p]) /\ lock = p /\ job[p].copy = meta
        /\ job[p].page \in Pages
    BY <1>h, HolderKnows DEF Hands, Fresh
  <1>1. PICK n \in Numbers :
          /\ NextNumber(meta, n)
          /\ job' = [job EXCEPT ![p].at = "mkdir", ![p].n = n, ![p].existed = Exists]
    BY <1>t DEF PickNumber
  <1>2. n \notin Named(meta) /\ disk[n] = Nothing
    <2>1. \A k \in Named(meta) \cup OnDisk : k < n
      BY <1>1 DEF NextNumber
    <2> QED BY <2>1, Basics DEF OnDisk
  <1> DEFINE j == [job[p] EXCEPT !.at = "mkdir", !.n = n, !.existed = Exists]
  <1>3. job' = [job EXCEPT ![p] = j]
    BY <1>1, <1>t DEF StoreTypeOK
  <1>4. IsJob(j) /\ j.at = "mkdir" /\ j.n = n /\ j.copy = meta /\ j.page \in Pages
    <2>1. IsJob(j)
      BY <1>t, Basics, JobTypes DEF Steps, Exists
    <2>2. j.at = "mkdir" /\ j.n = n /\ j.copy = meta /\ j.page \in Pages
      BY <1>t DEF IsJob
    <2> QED BY <2>1, <2>2
  <1> HIDE DEF j
  <1>5. Still(p) /\ job'[p] = j
    BY <1>3, <1>t, ExceptStill
  <1>6. UNCHANGED <<storeVars, lock, read, now, torn, ops, faults>>
    BY DEF PickNumber
  <1>7. NamedBytes'
    BY <1>h, <1>4, <1>5, <1>6, NamedStays
  <1>8. Hands(p)'
    BY <1>2, <1>4, <1>5, <1>6 DEF Hands, storeVars
  <1> QED BY <1>t, <1>4, <1>5, <1>6, <1>7, <1>8, HolderStep DEF StoreTypeOK, storeVars

LEMMA ClaimInv == ASSUME IInv, NEW p \in Procs, Claim(p), menu' = menu PROVE IInv'
  <1>h. job[p].at = "mkdir" /\ job[p].at \in Held
    BY DEF Claim, Held, Steps
  <1>t. StoreTypeOK /\ IsJob(job[p]) /\ lock = p /\ job[p].copy = meta
        /\ job[p].page \in Pages /\ NamedBytes
    BY <1>h, HolderKnows DEF Hands, Fresh
  <1>2. job[p].n \in Numbers \ Named(meta) /\ disk[job[p].n] = Nothing
    BY <1>h, HolderKnows DEF Hands
  <1> DEFINE j == [job[p] EXCEPT !.at = "write"]
  <1>3. job' = [job EXCEPT ![p] = j] /\ disk' = [disk EXCEPT ![job[p].n] = Half]
    BY <1>2, <1>t DEF Claim, Goes, StoreTypeOK
  <1>4. IsJob(j) /\ j.at = "write" /\ j.n = job[p].n /\ j.copy = meta /\ j.page \in Pages
    <2>1. IsJob(j)
      BY <1>t, JobTypes DEF Steps
    <2> QED BY <2>1, <1>t DEF IsJob
  <1> HIDE DEF j
  <1>5. Still(p) /\ job'[p] = j
    BY <1>3, <1>t, ExceptStill
  <1>6. UNCHANGED <<meta, lock, read, now, torn, ops, faults>>
    BY DEF Claim
  <1>7. NamedBytes'
    <2>1. \A q \in Procs : job[q].at = "rmtree" => job'[q].at = "rmtree"
      BY <1>h, <1>4, <1>5, OthersType, <1>t
    <2> QED BY <2>1, <1>2, <1>3, <1>6, <1>t DEF NamedBytes, StoreTypeOK
  <1>8. Hands(p)'
    BY <1>2, <1>4, <1>5, <1>6 DEF Hands
  <1>9. disk' \in [Numbers -> {Nothing, Half} \cup Pages]
    BY <1>3, <1>t, Basics DEF StoreTypeOK
  <1> QED BY <1>t, <1>4, <1>5, <1>6, <1>7, <1>8, <1>9, HolderStep DEF StoreTypeOK

LEMMA MkdirFailsInv ==
  ASSUME IInv, NEW p \in Procs, MkdirFails(p), menu' = menu PROVE IInv'
  <1>1. job[p].at = "mkdir" /\ "mkdir" \in Held
    BY DEF MkdirFails, Held, Steps
  <1> QED BY <1>1, EndsIdle, NothingDone, FaultType DEF MkdirFails, IInv, StoreTypeOK

LEMMA WriteFilesInv ==
  ASSUME IInv, NEW p \in Procs, WriteFiles(p), menu' = menu PROVE IInv'
  <1>h. job[p].at = "write" /\ job[p].at \in Held
    BY DEF WriteFiles, Held, Steps
  <1>t. StoreTypeOK /\ IsJob(job[p]) /\ lock = p /\ job[p].copy = meta
        /\ job[p].page \in Pages /\ job[p].n \in Numbers \ Named(meta) /\ NamedBytes
    BY <1>h, HolderKnows DEF Fresh, Hands
  <1> DEFINE j == [job[p] EXCEPT !.at = "record"]
  <1>1. job' = [job EXCEPT ![p] = j] /\ disk' = [disk EXCEPT ![job[p].n] = job[p].page]
        /\ UNCHANGED <<meta, lock, read, now, torn, ops, faults>>
    BY <1>t DEF WriteFiles, Goes, StoreTypeOK
  <1>2. IsJob(j) /\ j.at = "record" /\ j.n = job[p].n /\ j.copy = meta
        /\ j.page = job[p].page
    <2>1. IsJob(j)
      BY <1>t, JobTypes DEF Steps
    <2> QED BY <2>1, <1>t DEF IsJob
  <1> HIDE DEF j
  <1>3. Still(p) /\ job'[p] = j
    BY <1>1, <1>t, ExceptStill
  <1>4. NamedBytes'
    <2>1. \A q \in Procs : job[q].at = "rmtree" => job'[q].at = "rmtree"
      BY <1>h, <1>3, OthersType, <1>t, <1>2
    <2> QED BY <2>1, <1>1, <1>t DEF NamedBytes, StoreTypeOK
  <1>5. Hands(p)' /\ disk' \in [Numbers -> {Nothing, Half} \cup Pages]
    BY <1>1, <1>2, <1>3, <1>t DEF Hands, StoreTypeOK
  <1> QED BY <1>t, <1>1, <1>2, <1>3, <1>4, <1>5, HolderStep DEF StoreTypeOK

LEMMA WriteFailsInv ==
  ASSUME IInv, NEW p \in Procs, WriteFails(p), menu' = menu PROVE IInv'
  <1>h. job[p].at \in {"write", "record"} /\ job[p].at \in Held
    BY DEF WriteFails, Held, Steps
  <1>t. StoreTypeOK /\ lock = p /\ job[p].n \in Numbers \ Named(meta) /\ NamedBytes
    BY <1>h, HolderKnows DEF Hands
  <1>1. Still(p) /\ job'[p] = Idle /\ lock' = Free
    BY EndsIdle DEF WriteFails
  <1>2. disk' = [disk EXCEPT ![job[p].n] = Nothing]
        /\ UNCHANGED <<meta, read, now, torn, ops>> /\ faults' \in 0 .. MaxFaults
    BY <1>t, FaultType DEF WriteFails
  <1>3. NamedBytes'
    <2>1. \A q \in Procs : job[q].at = "rmtree" => job'[q].at = "rmtree"
      BY <1>h, <1>1, <1>t, OthersType, Basics
    <2> QED BY <2>1, <1>2, <1>t DEF NamedBytes, StoreTypeOK
  <1>4. disk' \in [Numbers -> {Nothing, Half} \cup Pages]
    BY <1>2, <1>t DEF StoreTypeOK
  <1> QED BY <1>t, <1>1, <1>2, <1>3, <1>4, EndStep DEF StoreTypeOK

LEMMA PublishedRecord ==
  ASSUME StoreTypeOK, NEW j, IsJob(j), j.n \in Numbers \ Named(j.copy), j.page \in Pages,
         NEW v \in Shared
  PROVE  /\ IsRecord(Published(j, v))
         /\ Named(Published(j, v)) = Named(j.copy) \cup {j.n}
         /\ Published(j, v).pages[j.n] = j.page
         /\ \A k \in Named(j.copy) : Published(j, v).pages[k] = j.copy.pages[k]
  <1> DEFINE base == IF j.copy = NoMeta
                     THEN [NoMeta EXCEPT !.owner = j.who, !.visibility = v]
                     ELSE j.copy
             pages == [k \in Named(base) \cup {j.n} |->
                         IF k = j.n THEN j.page ELSE base.pages[k]]
             q == [base EXCEPT !.pages = pages, !.current = j.n, !.updated = now]
  <1>1. q = Published(j, v)
    BY DEF Published
  <1> DEFINE Loose(c, g, t) == [owner : Principals, visibility : Shared, current : c,
                                pages : g, pinned : BOOLEAN, updated : t,
                                unpinned : 0 .. MaxNow]
  <1>2. /\ base \in Loose(0 .. MaxOps, {j.copy.pages}, 0 .. MaxNow)
        /\ Named(j.copy) \subseteq Numbers
        /\ j.copy.pages \in [Named(j.copy) -> Pages]
    <2>1. CASE j.copy = NoMeta
      <3>1. NoMeta \in [owner : {"nobody"}, visibility : Shared, current : 0 .. MaxOps,
                        pages : {j.copy.pages}, pinned : BOOLEAN, updated : 0 .. MaxNow,
                        unpinned : 0 .. MaxNow]
        BY <2>1, StoreAssumption DEF NoMeta, Shared
      <3>2. j.who \in Principals /\ base = [NoMeta EXCEPT !.owner = j.who, !.visibility = v]
        BY <2>1 DEF IsJob
      <3>3. base \in Loose(0 .. MaxOps, {j.copy.pages}, 0 .. MaxNow)
        <4> HIDE DEF base
        <4> QED BY <3>1, <3>2
      <3>4. Named(NoMeta) = {} /\ NoMeta.pages \in [Named(NoMeta) -> Pages]
        BY DEF Named, NoMeta
      <3> HIDE DEF base
      <3> QED BY <2>1, <3>3, <3>4
    <2>2. CASE j.copy # NoMeta
      <3>1. base = j.copy /\ IsRecord(j.copy)
        BY <2>2 DEF IsJob
      <3> HIDE DEF base
      <3> QED BY <3>1, StoreAssumption DEF IsRecord, Numbers
    <2> QED BY <2>1, <2>2
  <1>3. pages \in [Named(base) \cup {j.n} -> Pages] /\ pages[j.n] = j.page
        /\ \A k \in Named(base) : k # j.n => pages[k] = base.pages[k]
    <2>1. base.pages = j.copy.pages /\ Named(base) = Named(j.copy)
      <3> HIDE DEF base
      <3> QED BY <1>2 DEF Named
    <2> HIDE DEF base
    <2> QED BY <1>2, <2>1
  <1>4. now \in 1 .. MaxNow /\ j.n \in Numbers
    BY DEF StoreTypeOK
  <1> HIDE DEF base, pages
  <1>5. q \in Loose({j.n}, {pages}, {now})
    BY <1>2, <1>4
  <1>6. Named(base) = Named(j.copy) /\ Named(q) = Named(base) \cup {j.n} /\ q.pages = pages
    <2>1. base.pages = j.copy.pages /\ q.pages = pages /\ DOMAIN pages = Named(base) \cup {j.n}
      BY <1>2, <1>3, <1>5
    <2> HIDE DEF q
    <2> QED BY <2>1 DEF Named
  <1>7. IsRecord(q)
    <2>1. Named(q) \subseteq Numbers /\ q.current \in Named(q)
      BY <1>2, <1>4, <1>5, <1>6
    <2>2. q \in [owner : Principals, visibility : Shared, current : Numbers,
                 pages : [Named(q) -> Pages], pinned : BOOLEAN, updated : 1 .. MaxNow,
                 unpinned : 0 .. MaxNow]
      BY <1>2, <1>3, <1>4, <1>5, <1>6
    <2> QED BY <2>1, <2>2 DEF IsRecord
  <1> HIDE DEF q
  <1>8. q.pages[j.n] = j.page
        /\ \A k \in Named(j.copy) : q.pages[k] = j.copy.pages[k]
    BY <1>2, <1>3, <1>6
  <1> QED BY <1>1, <1>6, <1>7, <1>8

LEMMA OfferedShared == Offered \subseteq Shared
  BY DEF Offered, Shared

LEMMA RenamedRecord ==
  ASSUME IInv, NEW p \in Procs, Rename(p)
  PROVE  /\ job[p].at = "record" /\ lock = p /\ job[p].copy = meta
         /\ job[p].n \in Numbers \ Named(meta)
         /\ IsRecord(meta') /\ Named(meta') = Named(meta) \cup {job[p].n}
         /\ meta'.pages[job[p].n] = job[p].page
         /\ \A k \in Named(meta) : meta'.pages[k] = meta.pages[k]
  <1>h. job[p].at = "record" /\ job[p].at \in Held
    BY DEF Rename, Held, Steps
  <1>t. StoreTypeOK /\ IsJob(job[p]) /\ lock = p /\ job[p].copy = meta
        /\ job[p].page \in Pages /\ job[p].n \in Numbers \ Named(meta)
    BY <1>h, HolderKnows DEF Fresh, Hands
  <1> QED BY <1>h, <1>t, PublishedRecord, OfferedShared DEF Rename

LEMMA RenameInv == ASSUME IInv, NEW p \in Procs, Rename(p), menu' = menu PROVE IInv'
  <1>h. job[p].at = "record" /\ job[p].at \in Held
    BY DEF Rename, Held, Steps
  <1>t. StoreTypeOK /\ IsJob(job[p]) /\ lock = p /\ job[p].copy = meta
        /\ job[p].page \in Pages /\ job[p].n \in Numbers \ Named(meta)
        /\ disk[job[p].n] = job[p].page /\ NamedBytes
    BY <1>h, HolderKnows DEF Fresh, Hands
  <1> DEFINE j == [job[p] EXCEPT !.at = "recorded"]
  <1>1. job' = [job EXCEPT ![p] = j]
        /\ UNCHANGED <<disk, lock, read, now, torn, ops, faults>>
    BY <1>t DEF Rename, Goes, StoreTypeOK
  <1>2. IsJob(j) /\ j.at = "recorded" /\ j.n = job[p].n
    <2>1. IsJob(j)
      BY <1>t, JobTypes DEF Steps
    <2> QED BY <2>1, <1>t DEF IsJob
  <1> HIDE DEF j
  <1>3. Still(p) /\ job'[p] = j
    BY <1>1, <1>t, ExceptStill
  <1>4. /\ IsRecord(meta') /\ Named(meta') = Named(meta) \cup {job[p].n}
        /\ meta'.pages[job[p].n] = job[p].page
        /\ \A k \in Named(meta) : meta'.pages[k] = meta.pages[k]
    BY RenamedRecord
  <1>5. NamedBytes'
    <2>1. \A q \in Procs : job[q].at = "rmtree" => job'[q].at = "rmtree"
      BY <1>h, <1>3, OthersType, <1>t, <1>2
    <2> QED BY <2>1, <1>1, <1>4, <1>t DEF NamedBytes
  <1>6. Hands(p)'
    BY <1>2, <1>3, <1>t DEF Hands
  <1> QED BY <1>t, <1>1, <1>2, <1>3, <1>4, <1>5, <1>6, HolderStep DEF Fresh, StoreTypeOK

LEMMA ReturnInv == ASSUME IInv, NEW p \in Procs, Return(p), menu' = menu PROVE IInv'
  <1>1. job[p].at = "recorded" /\ "recorded" \in Held
    BY DEF Return, Held, Steps
  <1> QED BY <1>1, EndsIdle, NothingDone DEF Return, IInv, StoreTypeOK

LEMMA UnnameType ==
  ASSUME StoreTypeOK, NEW S, Unname(S) PROVE read' \in [Readers -> Reading]
  <1>1. \A r \in Readers : [read[r] EXCEPT !.gone = TRUE] \in Reading /\ read[r] \in Reading
    BY DEF StoreTypeOK, Reading
  <1> QED BY <1>1 DEF Unname

LEMMA UnwindInv == ASSUME IInv, NEW p \in Procs, Unwind(p), menu' = menu PROVE IInv'
  <1>h. job[p].at = "recorded" /\ job[p].at \in Held
    BY DEF Unwind, Held, Steps
  <1>t. StoreTypeOK /\ IsJob(job[p]) /\ lock = p /\ job[p].n \in Numbers /\ NamedBytes
    BY <1>h, HolderKnows DEF Hands
  <1>2. disk' = [disk EXCEPT ![job[p].n] = Nothing] /\ torn' = TRUE
        /\ UNCHANGED <<meta, read, now, ops>> /\ faults' \in 0 .. MaxFaults
    BY <1>t, FaultType DEF Unwind
  <1>3. NamedBytes'
    BY <1>2, <1>t DEF NamedBytes, StoreTypeOK
  <1>4. disk' \in [Numbers -> {Nothing, Half} \cup Pages]
    BY <1>2, <1>t DEF StoreTypeOK
  <1>5. CASE Ends(p)
    <2>1. Still(p) /\ job'[p] = Idle /\ lock' = Free
      BY <1>5, EndsIdle
    <2> QED BY <1>t, <2>1, <1>2, <1>3, <1>4, EndStep DEF StoreTypeOK
  <1>6. CASE Goes(p, "unwind") /\ lock' = lock
    <2> DEFINE j == [job[p] EXCEPT !.at = "unwind"]
    <2>1. job' = [job EXCEPT ![p] = j]
      BY <1>6, <1>t DEF Goes, StoreTypeOK
    <2>2. IsJob(j) /\ j.at = "unwind"
      <3>1. IsJob(j)
        BY <1>t, JobTypes DEF Steps
      <3> QED BY <3>1, <1>t DEF IsJob
    <2> HIDE DEF j
    <2>3. Still(p) /\ job'[p] = j
      BY <2>1, <1>t, ExceptStill
    <2>4. Hands(p)' /\ job'[p].at \notin Fresh
      BY <1>2, <2>2, <2>3 DEF Hands, Fresh
    <2> QED BY <1>t, <1>2, <1>3, <1>4, <1>6, <2>2, <2>3, <2>4, HolderStep DEF StoreTypeOK
  <1> QED BY <1>5, <1>6 DEF Unwind

LEMMA ForgetPageInv ==
  ASSUME IInv, NEW p \in Procs, ForgetPage(p), menu' = menu PROVE IInv'
  <1>h. job[p].at = "unwind" /\ job[p].at \in Held
    BY DEF ForgetPage, Held, Steps
  <1>t. StoreTypeOK /\ lock = p /\ torn /\ NamedBytes
    BY <1>h, HolderKnows DEF Hands
  <1>1. Still(p) /\ job'[p] = Idle /\ lock' = Free
    BY EndsIdle DEF ForgetPage
  <1>2. UNCHANGED <<disk, now, ops, faults>> /\ torn' \in BOOLEAN
        /\ (meta' = NoMeta \/ IsRecord(meta')) /\ read' \in [Readers -> Reading]
    BY <1>t, UnnameType DEF ForgetPage, StoreTypeOK
  <1>3. NamedBytes'
    <2>1. CASE meta' = NoMeta
      BY <2>1, Basics DEF NamedBytes
    <2>2. CASE meta' = meta /\ torn' = torn
      BY <2>2, <1>2, <1>t DEF NamedBytes, StoreTypeOK
    <2> QED BY <2>1, <2>2 DEF ForgetPage
  <1> QED BY <1>t, <1>1, <1>2, <1>3, EndStep DEF StoreTypeOK

LEMMA RewriteInv ==
  ASSUME IInv, NEW p \in Procs, job[p].at = "locked", menu' = menu,
         NEW m, IsRecord(m), m.pages = meta.pages, Rewrite(p, m)
  PROVE  IInv'
  <1>h. job[p].at \in Held
    BY DEF Held, Steps
  <1>t. StoreTypeOK /\ lock = p /\ NamedBytes
    BY <1>h, HolderKnows
  <1>1. Still(p) /\ job'[p] = Idle /\ lock' = Free
    BY <1>t, EndsStill DEF Rewrite, EndsTouching
  <1>2. meta' = m /\ UNCHANGED <<disk, read, now, torn, ops, faults>>
    BY DEF Rewrite
  <1>3. NamedBytes'
    <2>1. \A q \in Procs : job[q].at = "rmtree" => job'[q].at = "rmtree"
      BY <1>1, <1>t, OthersType, Basics
    <2> QED BY <2>1, <1>2, <1>t DEF NamedBytes, Named
  <1> QED BY <1>t, <1>1, <1>2, <1>3, EndStep DEF StoreTypeOK

\* Each change of the record alone leaves a record of the same versions
LEMMA SameVersions ==
  ASSUME NEW m, IsRecord(m), NEW r,
         r \in [owner : Principals, visibility : Shared, current : Named(m),
                pages : {m.pages}, pinned : BOOLEAN, updated : 1 .. MaxNow,
                unpinned : 0 .. MaxNow]
  PROVE  IsRecord(r) /\ r.pages = m.pages
  BY DEF IsRecord, Named

LEMMA Edits ==
  ASSUME NEW m, IsRecord(m), NEW t \in 1 .. MaxNow
  PROVE  /\ \A n \in Named(m) : LET r == [m EXCEPT !.current = n, !.updated = t]
                                IN  IsRecord(r) /\ r.pages = m.pages
         /\ \A v \in Shared : LET r == [m EXCEPT !.visibility = v, !.updated = t]
                              IN  IsRecord(r) /\ r.pages = m.pages
         /\ LET r == [m EXCEPT !.updated = t]
            IN  IsRecord(r) /\ r.pages = m.pages
         /\ LET r == [m EXCEPT !.pinned = TRUE, !.unpinned = 0]
            IN  IsRecord(r) /\ r.pages = m.pages
         /\ \A u \in 0 .. MaxNow : LET r == [m EXCEPT !.pinned = FALSE, !.unpinned = u]
                                   IN  IsRecord(r) /\ r.pages = m.pages
         /\ \A o \in Principals : LET r == [m EXCEPT !.owner = o]
                                  IN  IsRecord(r) /\ r.pages = m.pages
  <1> DEFINE Same == [owner : Principals, visibility : Shared, current : Named(m),
                      pages : {m.pages}, pinned : BOOLEAN, updated : 1 .. MaxNow,
                      unpinned : 0 .. MaxNow]
  <1>1. m \in Same /\ 0 \in 0 .. MaxNow
    BY StoreAssumption DEF IsRecord
  <1>2. /\ \A n \in Named(m) : [m EXCEPT !.current = n, !.updated = t] \in Same
        /\ \A v \in Shared : [m EXCEPT !.visibility = v, !.updated = t] \in Same
        /\ [m EXCEPT !.updated = t] \in Same
        /\ [m EXCEPT !.pinned = TRUE, !.unpinned = 0] \in Same
        /\ \A u \in 0 .. MaxNow : [m EXCEPT !.pinned = FALSE, !.unpinned = u] \in Same
        /\ \A o \in Principals : [m EXCEPT !.owner = o] \in Same
    BY <1>1
  <1>3. \A r \in Same : IsRecord(r) /\ r.pages = m.pages
    BY SameVersions
  <1> HIDE DEF Same
  <1> QED BY <1>2, <1>3

LEMMA EditedRecord ==
  ASSUME IInv, NEW p \in Procs, Editing(p)
  PROVE  /\ job[p].at = "locked" /\ job[p].op # "sweep" /\ meta # NoMeta
         /\ Manages(job[p].who, meta)
         /\ \E m : IsRecord(m) /\ m.pages = meta.pages /\ Rewrite(p, m)
  <1>h. job[p].at = "locked" /\ job[p].at \in Held /\ Allowed(job[p])
        /\ job[p].op \in {"current", "visibility", "describe", "pin", "unpin", "owner"}
    BY DEF Editing, SetCurrent, SetVisibility, SetDescription, Pin, Unpin, SetOwner,
           May, Held, Steps
  <1> DEFINE Edited == \E m : IsRecord(m) /\ m.pages = meta.pages /\ Rewrite(p, m)
  <1>t. StoreTypeOK /\ IsJob(job[p]) /\ job[p].copy = meta /\ now \in 1 .. MaxNow
    BY <1>h, HolderKnows DEF Fresh, StoreTypeOK
  <1>r. IsRecord(meta) /\ meta # NoMeta /\ Manages(job[p].who, meta)
    BY <1>h, <1>t DEF Allowed, EditAllowed, StoreTypeOK
  <1>1. ASSUME SetCurrent(p) PROVE Edited
    <2>1. job[p].n \in Named(meta)
      BY <1>1, <1>h, <1>t, <1>r DEF SetCurrent, May, Allowed, EditAllowed, Resolvable, IsRecord
    <2> QED BY <1>1, <1>h, <1>t, <1>r, <2>1, Edits DEF SetCurrent
  <1>2. ASSUME SetVisibility(p) PROVE Edited
    BY <1>2, <1>h, <1>t, <1>r, Edits DEF SetVisibility
  <1>3. ASSUME SetDescription(p) PROVE Edited
    BY <1>3, <1>h, <1>t, <1>r, Edits DEF SetDescription
  <1>4. ASSUME Pin(p) PROVE Edited
    BY <1>4, <1>h, <1>t, <1>r, Edits DEF Pin
  <1>5. ASSUME Unpin(p) PROVE Edited
    <2> DEFINE u == IF meta.pinned THEN now ELSE meta.unpinned
    <2>1. u \in 0 .. MaxNow
      BY <1>t, <1>r DEF IsRecord
    <2>2. Rewrite(p, [meta EXCEPT !.pinned = FALSE, !.unpinned = u])
      BY <1>5, <1>t, <1>r DEF Unpin, IsRecord
    <2> HIDE DEF u
    <2> QED BY <2>1, <2>2, <1>h, <1>t, <1>r, Edits
  <1>6. ASSUME SetOwner(p) PROVE Edited
    BY <1>6, <1>h, <1>t, <1>r, Edits DEF SetOwner
  <1> QED BY <1>1, <1>2, <1>3, <1>4, <1>5, <1>6, <1>h, <1>r DEF Editing

LEMMA EditingInv == ASSUME IInv, NEW p \in Procs, Editing(p), menu' = menu PROVE IInv'
  BY EditedRecord, RewriteInv

\* remove_version names one version less, and never the one that is served
LEMMA DroppedRecord ==
  ASSUME NEW m, IsRecord(m), NEW n, n # m.current,
         NEW fewer, fewer \in [Named(m) \ {n} -> Pages],
         \A k \in Named(m) \ {n} : fewer[k] = m.pages[k],
         NEW d, d = [m EXCEPT !.pages = fewer]
  PROVE  /\ IsRecord(d) /\ Named(d) = Named(m) \ {n}
         /\ \A k \in Named(d) : d.pages[k] = m.pages[k]
  <1>2. d \in [owner : Principals, visibility : Shared, current : {m.current},
               pages : {fewer}, pinned : BOOLEAN, updated : 1 .. MaxNow,
               unpinned : 0 .. MaxNow]
    BY DEF IsRecord
  <1>3. DOMAIN fewer = Named(m) \ {n}
    OBVIOUS
  <1>4. Named(d) = Named(m) \ {n}
    BY <1>2, <1>3 DEF Named
  <1>5. m.current \in Numbers /\ m.current \in Named(d) /\ Named(d) \subseteq Numbers
    BY <1>4 DEF IsRecord
  <1>6. IsRecord(d)
    BY <1>2, <1>4, <1>5 DEF IsRecord
  <1> QED BY <1>2, <1>3, <1>4, <1>6

LEMMA DroppedStep ==
  ASSUME IInv, NEW p \in Procs, RemoveVersion(p)
  PROVE  /\ lock = p /\ meta # NoMeta /\ Manages(job[p].who, meta)
         /\ IsRecord(meta') /\ Named(meta') = Named(meta) \ {job[p].n}
         /\ \A k \in Named(meta') : meta'.pages[k] = meta.pages[k]
  <1>h. job[p].at = "locked" /\ job[p].at \in Held /\ DropAllowed(job[p])
    BY DEF RemoveVersion, May, Allowed, Held, Steps
  <1>t. StoreTypeOK /\ IsJob(job[p]) /\ lock = p /\ job[p].copy = meta
    BY <1>h, HolderKnows DEF Fresh
  <1>m. meta # NoMeta /\ Manages(job[p].who, meta)
    BY <1>h, <1>t DEF DropAllowed
  <1>r. IsRecord(meta) /\ job[p].n \in Named(meta) /\ job[p].n # meta.current
    BY <1>h, <1>t, <1>m DEF DropAllowed, StoreTypeOK
  <1> DEFINE fewer == [k \in Named(meta) \ {job[p].n} |-> meta.pages[k]]
  <1>f. /\ fewer \in [Named(meta) \ {job[p].n} -> Pages]
        /\ \A k \in Named(meta) \ {job[p].n} : fewer[k] = meta.pages[k]
    BY <1>r DEF IsRecord
  <1>d. meta' = [meta EXCEPT !.pages = fewer]
    BY <1>t DEF RemoveVersion
  <1> HIDE DEF fewer
  <1>1. /\ IsRecord(meta') /\ Named(meta') = Named(meta) \ {job[p].n}
        /\ \A k \in Named(meta') : meta'.pages[k] = meta.pages[k]
    BY <1>d, <1>f, <1>r, DroppedRecord
  <1> QED BY <1>t, <1>m, <1>1

LEMMA RemoveVersionInv ==
  ASSUME IInv, NEW p \in Procs, RemoveVersion(p), menu' = menu PROVE IInv'
  <1>h. job[p].at = "locked" /\ job[p].at \in Held /\ DropAllowed(job[p])
    BY DEF RemoveVersion, May, Allowed, Held, Steps
  <1>t. StoreTypeOK /\ IsJob(job[p]) /\ lock = p /\ job[p].copy = meta /\ NamedBytes
    BY <1>h, HolderKnows DEF Fresh
  <1>r. IsRecord(meta) /\ job[p].n \in Named(meta) /\ job[p].n # meta.current
        /\ job[p].n \in Numbers
    BY <1>h, <1>t DEF DropAllowed, StoreTypeOK, IsRecord
  <1> DEFINE j == [job[p] EXCEPT !.at = "rmdir"]
  <1>1. job' = [job EXCEPT ![p] = j] /\ UNCHANGED <<disk, lock, now, torn, ops, faults>>
    BY <1>t DEF RemoveVersion, Goes, StoreTypeOK
  <1>2. IsJob(j) /\ j.at = "rmdir" /\ j.n = job[p].n
    <2>1. IsJob(j)
      BY <1>t, JobTypes DEF Steps
    <2> QED BY <2>1, <1>t DEF IsJob
  <1> HIDE DEF j
  <1>3. Still(p) /\ job'[p] = j
    BY <1>1, <1>t, ExceptStill
  <1>4. /\ IsRecord(meta') /\ Named(meta') = Named(meta) \ {job[p].n}
        /\ \A k \in Named(meta') : meta'.pages[k] = meta.pages[k]
    BY DroppedStep
  <1>5. NamedBytes'
    <2>1. \A q \in Procs : job[q].at = "rmtree" => job'[q].at = "rmtree"
      BY <1>h, <1>3, OthersType, <1>t, <1>2
    <2> QED BY <2>1, <1>1, <1>4, <1>t DEF NamedBytes
  <1>6. Hands(p)' /\ read' \in [Readers -> Reading]
    BY <1>2, <1>3, <1>4, <1>r, <1>t, UnnameType DEF Hands, RemoveVersion
  <1> QED BY <1>t, <1>1, <1>2, <1>3, <1>4, <1>5, <1>6, HolderStep DEF Fresh, StoreTypeOK

LEMMA RmdirInv == ASSUME IInv, NEW p \in Procs, Rmdir(p), menu' = menu PROVE IInv'
  <1>h. job[p].at = "rmdir" /\ job[p].at \in Held
    BY DEF Rmdir, Held, Steps
  <1>t. StoreTypeOK /\ lock = p /\ job[p].n \in Numbers \ Named(meta) /\ NamedBytes
    BY <1>h, HolderKnows DEF Hands
  <1>1. Still(p) /\ job'[p] = Idle /\ lock' = Free
    BY EndsIdle DEF Rmdir
  <1>2. disk' = [disk EXCEPT ![job[p].n] = Nothing]
        /\ UNCHANGED <<meta, read, now, torn, ops, faults>>
    BY DEF Rmdir
  <1>3. NamedBytes'
    <2>1. \A q \in Procs : job[q].at = "rmtree" => job'[q].at = "rmtree"
      BY <1>h, <1>1, <1>t, OthersType, Basics
    <2> QED BY <2>1, <1>2, <1>t DEF NamedBytes, StoreTypeOK
  <1>4. disk' \in [Numbers -> {Nothing, Half} \cup Pages]
    BY <1>2, <1>t DEF StoreTypeOK
  <1> QED BY <1>t, <1>1, <1>2, <1>3, <1>4, EndStep DEF StoreTypeOK

LEMMA RemoveInv == ASSUME IInv, NEW p \in Procs, Remove(p), menu' = menu PROVE IInv'
  <1>h. job[p].at = "locked" /\ job[p].at \in Held
    BY DEF Remove, May, Held, Steps
  <1>t. StoreTypeOK /\ IsJob(job[p]) /\ lock = p
    BY <1>h, HolderKnows
  <1> DEFINE j == [job[p] EXCEPT !.at = "rmtree"]
  <1>1. job' = [job EXCEPT ![p] = j]
        /\ UNCHANGED <<storeVars, lock, read, now, torn, ops, faults>>
    BY <1>t DEF Remove, Goes, StoreTypeOK
  <1>2. IsJob(j) /\ j.at = "rmtree"
    <2>1. IsJob(j)
      BY <1>t, JobTypes DEF Steps
    <2> QED BY <2>1, <1>t DEF IsJob
  <1> HIDE DEF j
  <1>3. Still(p) /\ job'[p] = j
    BY <1>1, <1>t, ExceptStill
  <1>4. NamedBytes'
    BY <1>1, <1>2, <1>3, NamedStays
  <1>5. Hands(p)'
    BY <1>2, <1>3 DEF Hands
  <1> QED BY <1>t, <1>1, <1>2, <1>3, <1>4, <1>5, HolderStep DEF Fresh, StoreTypeOK, storeVars

\* A removal of the page goes on
LEMMA ErasingInv ==
  ASSUME IInv, NEW p \in Procs, job[p].at = "rmtree", menu' = menu,
         UNCHANGED <<lock, job, now, ops, faults>>,
         meta' = NoMeta \/ (meta' = meta /\ torn' = torn), torn' \in BOOLEAN,
         disk' = disk \/ \E n \in Numbers : disk' = [disk EXCEPT ![n] = Nothing],
         read' \in [Readers -> Reading]
  PROVE  IInv'
  <1>t. StoreTypeOK /\ lock = p /\ NamedBytes /\ IsJob(job[p])
    BY HolderKnows DEF Held, Steps
  <1>1. Still(p) /\ job'[p].at = "rmtree"
    BY <1>t DEF Still, StoreTypeOK
  <1>2. disk' \in [Numbers -> {Nothing, Half} \cup Pages]
        /\ \A n \in Numbers : disk'[n] = disk[n] \/ disk'[n] = Nothing
    BY <1>t DEF StoreTypeOK
  <1>3. NamedBytes'
    <2>1. CASE meta' = NoMeta
      BY <2>1, Basics DEF NamedBytes
    <2>2. CASE meta' = meta
      <3>1. Named(meta) \subseteq Numbers
        BY <1>t, Basics DEF StoreTypeOK, IsRecord
      <3> QED BY <2>2, <3>1, <1>1, <1>2, <1>t DEF NamedBytes
    <2> QED BY <2>1, <2>2
  <1>4. Hands(p)'
    BY <1>1 DEF Hands
  <1> QED BY <1>t, <1>1, <1>2, <1>3, <1>4, HolderStep DEF Fresh, StoreTypeOK

LEMMA RemovedInv == ASSUME IInv, NEW p \in Procs, Removed(p), menu' = menu PROVE IInv'
  <1>1. job[p].at = "rmtree" /\ "rmtree" \in Held /\ meta = NoMeta
    BY DEF Removed, Exists, Held, Steps
  <1> QED BY <1>1, EndsIdle, NothingDone DEF Removed, IInv, StoreTypeOK

LEMMA AskInv == ASSUME IInv, NEW p \in Procs, Ask(p), menu' = menu PROVE IInv'
  <1> DEFINE j == [job[p] EXCEPT !.at = "wait"]
  <1>t. StoreTypeOK /\ IsJob(job[p])
    BY DEF IInv, StoreTypeOK
  <1>1. IsJob(j) /\ j.at = "wait"
    <2>1. IsJob(j)
      BY <1>t, JobTypes DEF Steps
    <2> QED BY <2>1, <1>t DEF IsJob
  <1>2. job' = [job EXCEPT ![p] = j] /\ job[p].at = "idle"
        /\ UNCHANGED <<storeVars, lock, read, now, torn, ops, faults>>
    BY <1>t DEF Ask, Goes, StoreTypeOK
  <1> HIDE DEF j
  <1> QED BY <1>1, <1>2, <1>t, OutsideStep DEF Held, StoreTypeOK

LEMMA BusyInv == ASSUME IInv, NEW p \in Procs, Busy(p), menu' = menu PROVE IInv'
  BY Basics, OutsideStep DEF Busy, Held, Idle, IInv, StoreTypeOK

LEMMA SweepListInv == ASSUME IInv, SweepList, menu' = menu PROVE IInv'
  <1> DEFINE j == [Idle EXCEPT !.at = "listed", !.op = "sweep", !.cutoff = now]
  <1>t. StoreTypeOK /\ Sweeper \in Procs /\ now \in 0 .. MaxNow
    BY StoreAssumption DEF IInv, StoreTypeOK
  <1>1. IsJob(j) /\ j.at = "listed"
    <2>1. Idle \in [at : Steps, op : Kinds \cup {"none"}, who : Principals,
                    n : 0 .. MaxOps, page : 0 .. MaxOps, copy : {NoMeta},
                    existed : BOOLEAN, cutoff : 0 .. MaxNow, touched : BOOLEAN]
      BY Basics DEF IsJob
    <2>2. "listed" \in Steps /\ "sweep" \in Kinds \cup {"none"}
      BY DEF Steps, Kinds
    <2>3. j \in [at : Steps, op : Kinds \cup {"none"}, who : Principals,
                 n : 0 .. MaxOps, page : 0 .. MaxOps, copy : {NoMeta},
                 existed : BOOLEAN, cutoff : 0 .. MaxNow, touched : BOOLEAN]
          /\ j.at = "listed"
      BY <2>1, <2>2, <1>t
    <2> HIDE DEF j
    <2> QED BY <2>3 DEF IsJob
  <1>2. job' = [job EXCEPT ![Sweeper] = j] /\ job[Sweeper].at = "idle"
        /\ UNCHANGED <<storeVars, lock, read, now, torn, ops, faults>>
    BY DEF SweepList
  <1> HIDE DEF j
  <1> QED BY <1>1, <1>2, <1>t, OutsideStep DEF Held, StoreTypeOK

LEMMA SweepRecheckInv == ASSUME IInv, SweepRecheck, menu' = menu PROVE IInv'
  <1> DEFINE j == [job[Sweeper] EXCEPT !.at = "wait"]
  <1>t. StoreTypeOK /\ Sweeper \in Procs /\ IsJob(job[Sweeper])
    BY StoreAssumption DEF IInv, StoreTypeOK
  <1>1. IsJob(j) /\ j.at = "wait"
    <2>1. IsJob(j)
      BY <1>t, JobTypes DEF Steps
    <2> QED BY <2>1, <1>t DEF IsJob
  <1>2. job' = [job EXCEPT ![Sweeper] = Idle] \/ job' = [job EXCEPT ![Sweeper] = j]
    BY <1>t DEF SweepRecheck, StoreTypeOK
  <1>3. job[Sweeper].at = "listed" /\ UNCHANGED <<storeVars, lock, read, now, torn, ops, faults>>
    BY DEF SweepRecheck
  <1> HIDE DEF j
  <1>4. CASE job' = [job EXCEPT ![Sweeper] = Idle]
    BY <1>3, <1>4, <1>t, Basics, OutsideStep DEF Held, Idle, StoreTypeOK
  <1>5. CASE job' = [job EXCEPT ![Sweeper] = j]
    BY <1>1, <1>3, <1>5, <1>t, OutsideStep DEF Held, StoreTypeOK
  <1> QED BY <1>2, <1>4, <1>5

\* Readers and the clock change nothing that the store is made of
LEMMA BesideInv ==
  ASSUME IInv, UNCHANGED <<storeVars, lock, job, torn, menu, ops, faults>>,
         read' \in [Readers -> Reading], now' \in 1 .. MaxNow
  PROVE  IInv'
  BY DEF IInv, StoreTypeOK, Locked, Current, Hands, NamedBytes, NeverWedged, storeVars

LEMMA ReadsInv == ASSUME IInv, NEW r \in Readers, Reads(r), menu' = menu PROVE IInv'
  <1>t. StoreTypeOK /\ read[r] \in Reading
    BY DEF IInv, StoreTypeOK
  <1>1. UNCHANGED <<storeVars, lock, job, now, torn, ops, faults>>
    BY DEF Reads, Look, Resolve, Open, Answered
  <1>2. Resolvable(meta) \subseteq Numbers
    BY <1>t, Basics DEF Resolvable, OnDisk, StoreTypeOK, IsRecord
  <1>3. \E x \in Reading : read' = [read EXCEPT ![r] = x]
    <2>1. CASE Look(r)
      <3>1. PICK n \in Numbers :
              read' = [read EXCEPT ![r] = [NoRead EXCEPT !.at = "look", !.n = n]]
        BY <2>1, <1>2 DEF Look
      <3>2. [NoRead EXCEPT !.at = "look", !.n = n] \in Reading
        BY Basics DEF Reading, NoRead
      <3> QED BY <3>1, <3>2
    <2>2. CASE Resolve(r)
      <3>1. CASE read' = [read EXCEPT ![r] = NoRead]
        BY <3>1, Basics
      <3>2. CASE /\ meta # NoMeta /\ read[r].n \in Resolvable(meta)
                 /\ read' = [read EXCEPT ![r].at = "open", ![r].gone = FALSE,
                                         ![r].saw = meta.pages[read[r].n]]
        <4> DEFINE x == [read[r] EXCEPT !.at = "open", !.gone = FALSE,
                                        !.saw = meta.pages[read[r].n]]
        <4>1. meta.pages[read[r].n] \in 0 .. MaxOps
          BY <3>2, <1>t, Basics DEF StoreTypeOK, IsRecord, Resolvable
        <4>2. x \in Reading
          BY <2>2, <4>1, <1>t DEF Resolve, Reading
        <4>3. read' = [read EXCEPT ![r] = x]
          BY <3>2, <1>t DEF StoreTypeOK
        <4> HIDE DEF x
        <4> QED BY <4>2, <4>3
      <3> QED BY <2>2, <3>1, <3>2 DEF Resolve
    <2>3. CASE Open(r)
      <3>1. CASE read' = [read EXCEPT ![r] = NoRead]
        BY <3>1, Basics
      <3>2. CASE /\ disk[read[r].n] # Nothing
                 /\ read' = [read EXCEPT ![r].at = "served", ![r].got = disk[read[r].n]]
        <4> DEFINE x == [read[r] EXCEPT !.at = "served", !.got = disk[read[r].n]]
        <4>1. disk[read[r].n] \in 0 .. Half
          BY <2>3, <1>t, Basics DEF Open, StoreTypeOK, Reading, Half, Pages, Nothing
        <4>2. x \in Reading
          BY <2>3, <4>1, <1>t DEF Open, Reading
        <4>3. read' = [read EXCEPT ![r] = x]
          BY <3>2, <1>t DEF StoreTypeOK
        <4> HIDE DEF x
        <4> QED BY <4>2, <4>3
      <3> QED BY <2>3, <3>1, <3>2 DEF Open
    <2>4. CASE Answered(r)
      BY <2>4, Basics DEF Answered
    <2> QED BY <2>1, <2>2, <2>3, <2>4 DEF Reads
  <1>4. read' \in [Readers -> Reading]
    BY <1>3, <1>t DEF StoreTypeOK
  <1> QED BY <1>1, <1>4, <1>t, BesideInv DEF StoreTypeOK

LEMMA NextInv == IInv /\ [Next]_vars => IInv'
  <1> SUFFICES ASSUME IInv, [Next]_vars PROVE IInv'
    OBVIOUS
  <1>t. StoreTypeOK
    BY DEF IInv
  <1>1. CASE UNCHANGED vars
    BY <1>1, <1>t, BesideInv DEF vars, storeVars, StoreTypeOK
  <1>2. ASSUME NEW p \in Procs, Works(p), menu' = menu PROVE IInv'
    <2>1. CASE Ask(p) \/ Take(p) \/ Busy(p) \/ Refuse(p) \/ Died(p)
      BY <1>2, <2>1, AskInv, TakeInv, BusyInv, RefuseInv, DiedInv
    <2>2. CASE Publishing(p)
      <3>1. ~Collided(p)
        BY DEF Collided, IInv, NeverWedged
      <3> QED BY <1>2, <2>2, <3>1, PickNumberInv, ClaimInv, MkdirFailsInv, ForgetPageInv, WriteFilesInv, WriteFailsInv, RenameInv,
                 ReturnInv, UnwindInv DEF Publishing
    <2>3. CASE Editing(p)
      BY <1>2, <2>3, EditingInv
    <2>4. CASE EraseMeta(p)
      <3>1. read' \in [Readers -> Reading]
        BY <2>4, <1>t, UnnameType DEF EraseMeta
      <3>2. /\ job[p].at = "rmtree" /\ meta' = NoMeta /\ torn' = FALSE /\ disk' = disk
            /\ UNCHANGED <<lock, job, now, ops, faults>>
        BY <2>4 DEF EraseMeta
      <3> QED BY <1>2, <3>1, <3>2, ErasingInv
    <2>5. CASE \E n \in Numbers : EraseVersion(p, n)
      BY <1>2, <2>5, <1>t, ErasingInv DEF EraseVersion, StoreTypeOK
    <2> QED BY <1>2, <2>1, <2>2, <2>3, <2>4, <2>5, RemoveVersionInv, RmdirInv,
               RemoveInv, RemovedInv DEF Works, Removing
  <1>3. ASSUME NEW r \in Readers, Reads(r), menu' = menu PROVE IInv'
    BY <1>3, ReadsInv
  <1>4. ASSUME Age, menu' = menu PROVE IInv'
    BY <1>4, <1>t, StoreAssumption, BesideInv DEF Age, StoreTypeOK
  <1> QED BY <1>1, <1>2, <1>3, <1>4, SweepListInv, SweepRecheckInv DEF Next

LEMMA SpecInv == Spec => []IInv
  BY InitInv, NextInv, PTL DEF Spec

-----------------------------------------------------------------------------
(* What the readers are served *)

\* What a step leaves of the versions the record names: all of them, but for
\* those whose readers are told
LEMMA NamesStep ==
  ASSUME IInv, [Next]_vars
  PROVE  \/ \E r \in Readers : Reads(r) /\ UNCHANGED storeVars
         \/ \E S : /\ (read' = read /\ S = {}) \/ Unname(S)
                   /\ \A n \in Named(meta) \ S :
                         n \in Named(meta') /\ meta'.pages[n] = meta.pages[n]
  <1> DEFINE Kept(S) == \A n \in Named(meta) \ S :
                           n \in Named(meta') /\ meta'.pages[n] = meta.pages[n]
             Told == \E S : /\ (read' = read /\ S = {}) \/ Unname(S)
                            /\ Kept(S)
  <1>1. CASE UNCHANGED <<meta, read>>
    BY <1>1
  <1>2. CASE \E r \in Readers : Reads(r)
    BY <1>2 DEF Reads, Look, Resolve, Open, Answered
  <1>3. ASSUME NEW p \in Procs, Rename(p) PROVE Told
    <2>1. read' = read
      BY <1>3 DEF Rename
    <2> QED BY <1>3, <2>1, RenamedRecord
  <1>4. ASSUME NEW p \in Procs, ForgetPage(p) PROVE Told
    <2>1. CASE meta' = NoMeta /\ Unname(Named(meta))
      BY <2>1
    <2> QED BY <1>4, <2>1, <1>1 DEF ForgetPage
  <1>5. ASSUME NEW p \in Procs, Editing(p) PROVE Told
    <2>1. meta'.pages = meta.pages /\ read' = read
      BY <1>5, EditedRecord DEF Rewrite
    <2> QED BY <2>1 DEF Named
  <1>6. ASSUME NEW p \in Procs, RemoveVersion(p) PROVE Told
    <2>1. Unname({job[p].n})
      BY <1>6 DEF RemoveVersion
    <2> QED BY <1>6, <2>1, DroppedStep
  <1>7. ASSUME NEW p \in Procs, EraseMeta(p) PROVE Told
    BY <1>7 DEF EraseMeta
  <1>8. ASSUME NEW p \in Procs, Works(p) PROVE Told
    <2>1. \/ UNCHANGED <<meta, read>> \/ Rename(p) \/ ForgetPage(p) \/ Editing(p)
          \/ RemoveVersion(p) \/ EraseMeta(p)
      BY <1>8 DEF Works, Ask, Take, TakeAny, TakeToSweep, TakeFor, Busy, Refuse, Died,
         Publishing, PickNumber, Claim, MkdirFails,
       Collided, WriteFiles, WriteFails, Return, Unwind, Removing, Rmdir,
         Remove, EraseVersion, Removed, storeVars
    <2> QED BY <2>1, <1>1, <1>3, <1>4, <1>5, <1>6, <1>7
  <1>9. CASE SweepList \/ SweepRecheck \/ Age
    BY <1>9, <1>1 DEF SweepList, SweepRecheck, Age, storeVars
  <1> QED BY <1>1, <1>2, <1>8, <1>9 DEF Next, vars

\* What a reader saw is still what the record says, unless he was told
Seen(x) ==
    /\ x.at = "open" /\ ~x.gone => x.n \in Named(meta) /\ meta.pages[x.n] = x.saw
    /\ x.at = "served" /\ ~x.gone => x.got = x.saw

LEMMA SeenStep ==
  ASSUME IInv, \A r \in Readers : Seen(read[r]), [Next]_vars
  PROVE  (\A r \in Readers : Seen(read[r]))'
  <1>t. StoreTypeOK /\ NamedBytes /\ \A r \in Readers : read[r] \in Reading
    BY DEF IInv, StoreTypeOK
  <1>1. ASSUME NEW r \in Readers, Reads(r), UNCHANGED storeVars
        PROVE  (\A q \in Readers : Seen(read[q]))'
    <2>1. meta' = meta /\ \A q \in Readers \ {r} : read'[q] = read[q]
      BY <1>1, <1>t DEF Reads, Look, Resolve, Open, Answered, storeVars, StoreTypeOK
    <2>2. NoRead.at = "idle"
      BY DEF NoRead
    <2>3. CASE Look(r) \/ Answered(r)
      <3>1. read'[r].at \in {"idle", "look"}
        BY <2>2, <2>3, <1>t DEF Look, Answered, StoreTypeOK, NoRead
      <3> QED BY <2>1, <3>1 DEF Seen
    <2>4. CASE Resolve(r)
      <3>1. CASE read'[r] = NoRead
        BY <2>1, <2>2, <3>1 DEF Seen
      <3>2. CASE /\ meta # NoMeta /\ read[r].n \in Resolvable(meta)
                 /\ read' = [read EXCEPT ![r].at = "open", ![r].gone = FALSE,
                                         ![r].saw = meta.pages[read[r].n]]
        <4>1. read[r].n \in Named(meta)
          BY <3>2, <1>t DEF StoreTypeOK, IsRecord, Resolvable
        <4>2. read'[r].at = "open" /\ read'[r].n = read[r].n
              /\ read'[r].saw = meta.pages[read[r].n]
          BY <3>2, <1>t DEF StoreTypeOK, Reading
        <4> QED BY <2>1, <4>1, <4>2 DEF Seen
      <3> QED BY <2>4, <3>1, <3>2, <1>t DEF Resolve, StoreTypeOK
    <2>5. CASE Open(r)
      <3>1. CASE read'[r] = NoRead
        BY <2>1, <2>2, <3>1 DEF Seen
      <3>2. CASE /\ disk[read[r].n] # Nothing
                 /\ read' = [read EXCEPT ![r].at = "served", ![r].got = disk[read[r].n]]
        <4>1. read'[r].at = "served" /\ read'[r].saw = read[r].saw
              /\ read'[r].gone = read[r].gone /\ read'[r].got = disk[read[r].n]
          BY <3>2, <1>t DEF StoreTypeOK, Reading
        <4>2. ~read[r].gone => disk[read[r].n] = read[r].saw
          BY <2>5, <3>2, <1>t DEF Open, Seen, NamedBytes
        <4> QED BY <2>1, <4>1, <4>2 DEF Seen
      <3> QED BY <2>5, <3>1, <3>2, <1>t DEF Open, StoreTypeOK
    <2> QED BY <1>1, <2>3, <2>4, <2>5 DEF Reads
  <1>2. ASSUME NEW S, (read' = read /\ S = {}) \/ Unname(S),
               \A n \in Named(meta) \ S :
                  n \in Named(meta') /\ meta'.pages[n] = meta.pages[n]
        PROVE  (\A q \in Readers : Seen(read[q]))'
    <2> SUFFICES ASSUME NEW q \in Readers PROVE Seen(read[q])'
      OBVIOUS
    <2>1. CASE read'[q] = read[q] /\ read[q].n \notin S
      BY <1>2, <2>1 DEF Seen
    <2>2. CASE read'[q] = [read[q] EXCEPT !.gone = TRUE]
      <3>1. read'[q].gone
        BY <2>2, <1>t DEF Reading
      <3> QED BY <3>1 DEF Seen
    <2> QED BY <1>2, <2>1, <2>2 DEF Unname
  <1> QED BY <1>1, <1>2, NamesStep

-----------------------------------------------------------------------------
(* Whose page is changed *)

\* A process that is under way may do what it does: to the record it read, to
\* the page it made, or to the record that is still there
Entitled(j) ==
    /\ j.at \in {"mkdir", "write", "record"} =>
          j.op = "publish" /\ (j.copy # NoMeta => Republishes(j.who, j.copy))
    /\ j.at = "unwind" => j.op = "publish" /\ meta.owner = j.who
    /\ j.at = "recorded" => j.op = "publish" /\ (j.copy = NoMeta => meta.owner = j.who)
    /\ j.at = "rmtree" /\ meta # NoMeta => Manages(j.who, meta)

Busied == {"mkdir", "write", "record", "recorded", "unwind", "rmtree"}

\* The processes that do not move go on as they were
LEMMA OthersStay ==
  ASSUME IInv, NEW p \in Procs, Works(p), NEW q \in Procs \ {p}
  PROVE  \/ job'[q] = job[q]
         \/ Editing(p) /\ job[q].at = "wait" /\ job'[q].at = "wait"
  <1>t. StoreTypeOK /\ IsJob(job[q])
    BY DEF IInv, StoreTypeOK
  <1>1. ASSUME EndsTouching(p)
        PROVE  job'[q] = job[q] \/ (job[q].at = "wait" /\ job'[q].at = "wait")
    BY <1>1, <1>t, TouchedJob DEF EndsTouching
  <1>2. CASE \E j : job' = [job EXCEPT ![p] = j]
    BY <1>2, <1>t DEF StoreTypeOK
  <1>3. CASE UNCHANGED job
    BY <1>3
  <1>4. CASE Publishing(p)
    BY <1>4, <1>2 DEF Publishing, PickNumber, Claim, MkdirFails,
       Collided, WriteFiles, WriteFails, Rename,
       Return, Unwind, ForgetPage, Ends, Goes
  <1>5. CASE Editing(p)
    BY <1>5, <1>1, EditedRecord DEF Rewrite
  <1>6. CASE Removing(p)
    BY <1>6, <1>2, <1>3 DEF Removing, RemoveVersion, Rmdir, Remove, EraseMeta,
       EraseVersion, Removed, Ends, Goes
  <1>7. CASE Ask(p) \/ Take(p) \/ Busy(p) \/ Refuse(p) \/ Died(p)
    BY <1>7, <1>2 DEF Ask, Take, TakeAny, TakeToSweep, TakeFor, Busy, Refuse, Died,
       Ends, Goes
  <1> QED BY <1>4, <1>5, <1>6, <1>7 DEF Works

\* The record is changed by the process that has the lock
LEMMA HolderWrites ==
  ASSUME IInv, NEW p \in Procs, Works(p), lock # p
  PROVE  meta' = meta
  <1>1. job[p].at \notin Held
    BY DEF IInv, Locked
  <1>2. Ask(p) \/ Take(p) \/ Busy(p) \/ Died(p)
    BY <1>1 DEF Works, Publishing, PickNumber, Claim, MkdirFails,
       Collided, WriteFiles, WriteFails, Rename,
       Return, Unwind, ForgetPage, Editing, SetCurrent, SetVisibility, SetDescription, Pin, Unpin,
       SetOwner, Removing, RemoveVersion, Rmdir, Remove, EraseMeta, EraseVersion,
       Removed, Refuse, May, Held, Steps
  <1> QED BY <1>2 DEF Ask, Take, TakeAny, TakeToSweep, TakeFor, Busy, Died, storeVars

LEMMA EntitledHolder ==
  ASSUME IInv, NEW p \in Procs, Works(p), Entitled(job[p])
  PROVE  Entitled(job[p])'
  <1>t. StoreTypeOK /\ IsJob(job[p])
    BY DEF IInv, StoreTypeOK
  <1>i. Idle.at = "idle"
    BY DEF Idle
  <1>1. CASE job'[p].at \notin Busied
    BY <1>1 DEF Entitled, Busied
  <1>2. CASE PickNumber(p)
    <2>1. job[p].op = "publish" /\ PublishAllowed(job[p])
      BY <1>2 DEF PickNumber, May, Allowed
    <2>2. job'[p].at = "mkdir" /\ job'[p].op = job[p].op
          /\ job'[p].copy = job[p].copy /\ job'[p].who = job[p].who
      BY <1>2, <1>t DEF PickNumber, StoreTypeOK, IsJob
    <2> QED BY <2>1, <2>2 DEF Entitled, PublishAllowed
  <1>c. CASE Claim(p)
    <2>1. job'[p].at \in {"write", "collided"} /\ job'[p].op = job[p].op
          /\ job'[p].copy = job[p].copy /\ job'[p].who = job[p].who /\ job[p].at = "mkdir"
      BY <1>c, <1>t DEF Claim, Goes, StoreTypeOK, IsJob
    <2> QED BY <2>1 DEF Entitled
  <1>u. CASE Unwind(p)
    <2>1. CASE Ends(p)
      BY <2>1, <1>1, <1>i, <1>t DEF Ends, StoreTypeOK, Busied
    <2>2. CASE job[p].copy = NoMeta /\ Goes(p, "unwind")
      <3>1. job'[p].at = "unwind" /\ job'[p].op = job[p].op /\ job'[p].who = job[p].who
        BY <2>2, <1>t DEF Goes, StoreTypeOK, IsJob
      <3> QED BY <1>u, <2>2, <3>1 DEF Unwind, Entitled
    <2> QED BY <1>u, <2>1, <2>2 DEF Unwind
  <1>3. CASE WriteFiles(p)
    BY <1>3, <1>t DEF WriteFiles, Goes, Entitled, StoreTypeOK, IsJob
  <1>4. CASE Rename(p)
    <2>1. job'[p].at = "recorded" /\ job'[p].op = job[p].op
          /\ job'[p].copy = job[p].copy /\ job'[p].who = job[p].who
      BY <1>4, <1>t DEF Rename, Goes, StoreTypeOK, IsJob
    <2>2. job[p].copy = NoMeta => meta'.owner = job[p].who
      BY <1>4 DEF Rename, Published, NoMeta
    <2> QED BY <1>4, <2>1, <2>2 DEF Rename, Entitled
  <1>5. CASE Remove(p)
    <2>1. job[p].at = "locked" /\ RemovalAllowed(job[p]) /\ job[p].at \in Held
      BY <1>5 DEF Remove, May, Allowed, Held, Steps
    <2>2. job[p].copy = meta
      BY <2>1, HolderKnows DEF Fresh
    <2>3. job'[p].at = "rmtree" /\ job'[p].who = job[p].who /\ meta' = meta
      BY <1>5, <1>t DEF Remove, Goes, StoreTypeOK, IsJob, storeVars
    <2> QED BY <2>1, <2>2, <2>3 DEF RemovalAllowed, Entitled
  <1>6. CASE EraseMeta(p) \/ \E n \in Numbers : EraseVersion(p, n)
    BY <1>6 DEF EraseMeta, EraseVersion, Entitled
  <1>7. CASE Publishing(p)
    <2>1. CASE Collided(p) \/ MkdirFails(p) \/ WriteFails(p) \/ Return(p) \/ ForgetPage(p)
      BY <2>1, <1>1, <1>i, <1>t DEF Collided, MkdirFails, WriteFails, Return, ForgetPage,
         Ends, StoreTypeOK, Busied
    <2> QED BY <1>7, <1>2, <1>c, <1>u, <1>3, <1>4, <2>1 DEF Publishing
  <1>8. CASE Editing(p)
    BY <1>8, <1>1, <1>i, <1>t, EditedRecord DEF Rewrite, EndsTouching, Busied
  <1>9. CASE Removing(p)
    <2>1. CASE RemoveVersion(p) \/ Rmdir(p) \/ Removed(p)
      BY <2>1, <1>1, <1>i, <1>t DEF RemoveVersion, Rmdir, Removed, Ends, Goes,
         StoreTypeOK, IsJob, Busied
    <2> QED BY <1>9, <1>5, <1>6, <2>1 DEF Removing
  <1>10. CASE Ask(p) \/ Take(p) \/ Busy(p) \/ Refuse(p) \/ Died(p)
    <2>1. CASE Take(p)
      <3>1. CASE TakeToSweep(p)
        <4>1. job'[p].at = "locked"
          BY <3>1, <1>t DEF TakeToSweep, StoreTypeOK, IsJob
        <4> QED BY <4>1, <1>1 DEF Busied
      <3>2. ASSUME NEW op, NEW who, NEW n, TakeFor(p, op, who, n)
            PROVE  Entitled(job[p])'
        <4>1. job'[p].at = "locked"
          BY <3>2, <1>t DEF TakeFor, StoreTypeOK, Idle
        <4> QED BY <4>1, <1>1 DEF Busied
      <3> QED BY <2>1, <3>1, <3>2 DEF Take, TakeAny
    <2>2. CASE Ask(p) \/ Busy(p) \/ Refuse(p) \/ Died(p)
      BY <2>2, <1>1, <1>i, <1>t DEF Ask, Busy, Refuse, Died, Ends, Goes, StoreTypeOK,
         IsJob, Busied
    <2> QED BY <1>10, <2>1, <2>2
  <1> QED BY <1>7, <1>8, <1>9, <1>10 DEF Works

LEMMA EntitledStep ==
  ASSUME IInv, \A p \in Procs : Entitled(job[p]), [Next]_vars
  PROVE  (\A p \in Procs : Entitled(job[p]))'
  <1>1. CASE UNCHANGED <<job, meta>>
    BY <1>1 DEF Entitled
  <1>2. ASSUME NEW p \in Procs, Works(p), NEW q \in Procs
        PROVE  Entitled(job[q])'
    <2>1. CASE q = p
      BY <1>2, <2>1, EntitledHolder
    <2>2. CASE q # p /\ job[q].at \in Held
      <3>1. (lock = q /\ job'[q] = job[q]) \/ job'[q].at = "wait"
        BY <1>2, <2>2, OthersStay, HolderKnows
      <3>2. lock = q => meta' = meta
        BY <1>2, <2>2, HolderWrites
      <3> QED BY <3>1, <3>2 DEF Entitled
    <2>3. CASE q # p /\ job[q].at \notin Held
      <3>1. job'[q].at \notin Busied
        BY <1>2, <2>3, OthersStay DEF Busied, Held, Steps
      <3> QED BY <3>1 DEF Entitled, Busied
    <2> QED BY <2>1, <2>2, <2>3
  <1>3. ASSUME NEW r \in Readers, Reads(r) PROVE UNCHANGED <<job, meta>>
    BY <1>3 DEF Reads, Look, Resolve, Open, Answered, storeVars
  <1>4. CASE SweepList \/ SweepRecheck
    <2>1. meta' = meta /\ \A q \in Procs : job'[q] = job[q] \/ job'[q].at \notin Busied
      <3>1. StoreTypeOK /\ Sweeper \in Procs
        BY StoreAssumption DEF IInv
      <3>2. meta' = meta /\ \A q \in Procs \ {Sweeper} : job'[q] = job[q]
        BY <1>4, <3>1 DEF SweepList, SweepRecheck, StoreTypeOK, storeVars
      <3>3. job'[Sweeper].at \in {"idle", "listed", "wait"}
        <4>1. SweepList => job'[Sweeper].at = "listed"
          BY <3>1 DEF SweepList, StoreTypeOK, Idle
        <4>2. CASE job' = [job EXCEPT ![Sweeper] = Idle]
          BY <4>2, <3>1 DEF StoreTypeOK, Idle
        <4>3. CASE job' = [job EXCEPT ![Sweeper].at = "wait"]
          BY <4>3, <3>1 DEF StoreTypeOK, IsJob
        <4> QED BY <1>4, <4>1, <4>2, <4>3 DEF SweepRecheck
      <3> QED BY <3>1, <3>2, <3>3 DEF Busied
    <2> QED BY <2>1 DEF Entitled, Busied
  <1>5. CASE Age
    BY <1>5, <1>1 DEF Age, storeVars
  <1> QED BY <1>1, <1>2, <1>3, <1>4, <1>5 DEF Next, vars

\* Who changes the record of a page
LEMMA OwnerStep ==
  ASSUME IInv, \A p \in Procs : Entitled(job[p]), [Next]_vars
  PROVE  meta # NoMeta /\ meta' # meta /\ lock # Free
         => \/ Manages(job[lock].who, meta)
            \/ job[lock].op = "publish" /\ Republishes(job[lock].who, meta)
  <1> SUFFICES ASSUME meta # NoMeta, meta' # meta
               PROVE  \/ Manages(job[lock].who, meta)
                      \/ job[lock].op = "publish" /\ Republishes(job[lock].who, meta)
    OBVIOUS
  <1>1. PICK p \in Procs : Works(p) /\ lock = p
    <2>1. \E p \in Procs : Works(p)
      BY DEF Next, vars, Reads, Look, Resolve, Open, Answered, SweepList, SweepRecheck,
         Age, storeVars
    <2> QED BY <2>1, HolderWrites
  <1>2. CASE Rename(p)
    BY <1>1, <1>2, RenamedRecord DEF Entitled
  <1>3. CASE ForgetPage(p)
    BY <1>1, <1>3 DEF ForgetPage, Entitled, Republishes
  <1>4. CASE Editing(p)
    BY <1>1, <1>4, EditedRecord
  <1>5. CASE RemoveVersion(p)
    BY <1>1, <1>5, DroppedStep
  <1>6. CASE EraseMeta(p)
    BY <1>1, <1>6 DEF EraseMeta, Entitled
  <1> QED BY <1>1, <1>2, <1>3, <1>4, <1>5, <1>6 DEF Works, Ask, Take, TakeAny,
     TakeToSweep, TakeFor, Busy, Refuse, Died, Publishing, PickNumber, Claim, MkdirFails,
       Collided, WriteFiles,
     WriteFails, Return, Unwind, Removing, Rmdir, Remove, EraseVersion, Removed, storeVars

-----------------------------------------------------------------------------
(* What the sweep removes *)

Unspared(c) == meta = NoMeta \/ ~Spared(meta, c)

\* The sweep after its second look: nothing spares the page, or somebody has
\* edited it since
Watched(j) ==
    j.op = "sweep" =>
       /\ j.at # "idle" /\ j.cutoff \in 1 .. MaxNow
       /\ j.at \in {"wait", "locked"} /\ ~j.touched => Unspared(j.cutoff)

\* But for the edits no operation pins a page or keeps the time it was unpinned
LEMMA PinsKept ==
  ASSUME IInv, NEW p \in Procs, Works(p), ~Editing(p),
         NEW c \in 1 .. MaxNow, Unspared(c)
  PROVE  Unspared(c)'
  <1>1. CASE meta' = meta \/ meta' = NoMeta
    BY <1>1 DEF Unspared, Spared
  <1>2. CASE Rename(p)
    <2>1. job[p].copy = meta
      BY <1>2, RenamedRecord
    <2>2. PICK v \in Offered : meta' = Published(job[p], v)
      BY <1>2 DEF Rename
    <2>3. CASE meta = NoMeta
      <3>1. ~meta'.pinned /\ meta'.unpinned = 0
        BY <2>1, <2>2, <2>3 DEF Published, NoMeta
      <3>2. ~(0 >= c)
        BY StoreAssumption
      <3> QED BY <3>1, <3>2 DEF Unspared, Spared
    <2>4. CASE meta # NoMeta
      <3>1. IsRecord(meta)
        BY <2>4 DEF IInv, StoreTypeOK
      <3>2. meta'.pinned = meta.pinned /\ meta'.unpinned = meta.unpinned
        BY <2>1, <2>2, <2>4, <3>1 DEF Published, IsRecord
      <3> QED BY <2>4, <3>2 DEF Unspared, Spared
    <2> QED BY <2>3, <2>4
  <1>3. CASE RemoveVersion(p)
    <2>1. meta # NoMeta /\ IsRecord(meta) /\ job[p].at \in Held /\ job[p].at = "locked"
      BY <1>3, DroppedStep DEF IInv, StoreTypeOK, RemoveVersion, May, Held, Steps
    <2>2. job[p].copy = meta
      BY <2>1, HolderKnows DEF Fresh
    <2>3. meta'.pinned = meta.pinned /\ meta'.unpinned = meta.unpinned
      BY <1>3, <2>1, <2>2 DEF RemoveVersion, IsRecord
    <2> QED BY <2>1, <2>3 DEF Unspared, Spared
  <1> QED BY <1>1, <1>2, <1>3 DEF Works, Ask, Take, TakeAny, TakeToSweep, TakeFor,
     Busy, Refuse, Died, Publishing, PickNumber, Claim, MkdirFails,
       Collided, WriteFiles, WriteFails, Return,
     Unwind, ForgetPage, Removing, Rmdir, Remove, EraseMeta, EraseVersion, Removed, storeVars

\* The process that moves: the sweep gets the lock, or starts to remove
LEMMA WatchedMover ==
  ASSUME IInv, NEW p \in Procs, Works(p), Watched(job[p])
  PROVE  Watched(job[p])'
  <1>t. StoreTypeOK /\ IsJob(job[p])
    BY DEF IInv, StoreTypeOK
  <1>i. Idle.op = "none"
    BY DEF Idle
  <1>1. CASE job'[p].op # "sweep"
    BY <1>1 DEF Watched
  <1>2. CASE job'[p] = Idle
    BY <1>2, <1>i DEF Watched
  <1>3. ASSUME NEW a, Goes(p, a), job[p].at # "idle", a \notin {"idle", "wait", "locked"}
        PROVE  Watched(job[p])'
    <2>1. job'[p].at = a /\ job'[p].op = job[p].op /\ job'[p].cutoff = job[p].cutoff
      BY <1>3, <1>t DEF Goes, StoreTypeOK, IsJob
    <2> QED BY <2>1, <1>3 DEF Watched
  <1>4. CASE Ask(p)
    <2>1. job[p].at = "idle" /\ job'[p].op = job[p].op
      BY <1>4, <1>t DEF Ask, Goes, StoreTypeOK, IsJob
    <2> QED BY <2>1, <1>1 DEF Watched
  <1>5. CASE TakeToSweep(p)
    <2>1. /\ job[p].at = "wait" /\ job'[p].at = "locked" /\ job'[p].op = job[p].op
          /\ job'[p].cutoff = job[p].cutoff /\ job'[p].touched = job[p].touched
          /\ meta' = meta
      BY <1>5, <1>t DEF TakeToSweep, StoreTypeOK, IsJob, storeVars
    <2> QED BY <2>1 DEF Watched, Unspared
  <1>6. ASSUME NEW op \in Kinds \ {"sweep"}, NEW who, NEW n, TakeFor(p, op, who, n)
        PROVE  Watched(job[p])'
    <2>1. job'[p].op = op
      BY <1>6, <1>t DEF TakeFor, StoreTypeOK, Idle
    <2> QED BY <2>1, <1>1
  <1>7. CASE PickNumber(p)
    <2>1. job[p].op = "publish"
      BY <1>7 DEF PickNumber, May
    <2>2. job'[p].op = job[p].op
      BY <1>7, <1>t DEF PickNumber, StoreTypeOK, IsJob
    <2> QED BY <2>1, <2>2, <1>1
  <1>8. CASE EraseMeta(p) \/ \E n \in Numbers : EraseVersion(p, n)
    BY <1>8 DEF EraseMeta, EraseVersion, Watched
  <1>9. CASE Ends(p) \/ EndsTouching(p) \/ job' = [job EXCEPT ![p] = Idle]
    BY <1>9, <1>2, <1>t DEF Ends, EndsTouching, StoreTypeOK
  <1>10. CASE Claim(p) \/ WriteFiles(p) \/ Rename(p) \/ RemoveVersion(p) \/ Remove(p)
    BY <1>10, <1>3 DEF Claim, WriteFiles, Rename, RemoveVersion, Remove, May
  <1>11. CASE Editing(p)
    BY <1>11, <1>9, EditedRecord DEF Rewrite
  <1>12. CASE Take(p)
    BY <1>12, <1>5, <1>6 DEF Take, TakeAny
  <1>13. CASE Unwind(p)
    BY <1>13, <1>3, <1>9 DEF Unwind
  <1> QED BY <1>4, <1>7, <1>8, <1>9, <1>10, <1>11, <1>12, <1>13 DEF Works, Busy, Refuse,
     Died, Publishing, MkdirFails, Collided, WriteFails, Return, ForgetPage, Removing,
     Rmdir, Removed

\* The processes that do not move: an edit is noticed, and nothing else matters
LEMMA WatchedOther ==
  ASSUME IInv, NEW p \in Procs, Works(p), NEW q \in Procs \ {p}, Watched(job[q])
  PROVE  Watched(job[q])'
  <1>t. StoreTypeOK /\ IsJob(job[q])
    BY DEF IInv, StoreTypeOK
  <1>1. CASE Editing(p)
    <2>1. EndsTouching(p) /\ lock = p /\ job[p].at \in Held
      BY <1>1, EditedRecord, HolderKnows DEF Rewrite, Held, Steps
    <2>2. job[q].at # "locked"
      BY <2>1 DEF IInv, Locked, Held, Steps
    <2>3. CASE job[q].op = "sweep" /\ job[q].at = "wait"
      <3>1. job'[q] = [job[q] EXCEPT !.touched = TRUE]
        BY <2>1, <2>3 DEF EndsTouching
      <3>2. job'[q].touched /\ job'[q].at = "wait" /\ job'[q].cutoff = job[q].cutoff
        BY <3>1, <2>3, <1>t DEF IsJob
      <3> QED BY <2>3, <3>2 DEF Watched
    <2>4. CASE ~(job[q].op = "sweep" /\ job[q].at = "wait")
      <3>1. job'[q] = job[q]
        BY <2>1, <2>4 DEF EndsTouching
      <3> QED BY <2>2, <2>4, <3>1 DEF Watched
    <2> QED BY <2>3, <2>4
  <1>2. CASE ~Editing(p) /\ job'[q] = job[q]
    BY <1>2, PinsKept DEF Watched
  <1> QED BY <1>1, <1>2, OthersStay

LEMMA WatchedStep ==
  ASSUME IInv, \A p \in Procs : Watched(job[p]), [Next]_vars
  PROVE  (\A p \in Procs : Watched(job[p]))'
  <1>t. StoreTypeOK /\ Sweeper \in Procs
    BY StoreAssumption DEF IInv
  <1>1. CASE UNCHANGED <<job, meta>>
    BY <1>1 DEF Watched, Unspared
  <1>2. ASSUME NEW p \in Procs, Works(p) PROVE (\A q \in Procs : Watched(job[q]))'
    BY <1>2, WatchedMover, WatchedOther
  <1>3. ASSUME NEW r \in Readers, Reads(r) PROVE UNCHANGED <<job, meta>>
    BY <1>3 DEF Reads, Look, Resolve, Open, Answered, storeVars
  <1>4. CASE SweepList \/ SweepRecheck
    <2>1. meta' = meta /\ \A q \in Procs \ {Sweeper} : job'[q] = job[q]
      BY <1>4, <1>t DEF SweepList, SweepRecheck, StoreTypeOK, storeVars
    <2>2. Watched(job[Sweeper])'
      <3>1. CASE SweepList
        <4>1. job'[Sweeper].at = "listed" /\ job'[Sweeper].cutoff = now
          BY <3>1, <1>t DEF SweepList, StoreTypeOK, Idle
        <4> QED BY <4>1, <1>t DEF Watched, StoreTypeOK
      <3>2. CASE job' = [job EXCEPT ![Sweeper] = Idle]
        <4>1. job'[Sweeper].op = "none"
          BY <3>2, <1>t DEF StoreTypeOK, Idle
        <4> QED BY <4>1 DEF Watched
      <3>3. CASE /\ ~Spared(meta, job[Sweeper].cutoff)
                 /\ job' = [job EXCEPT ![Sweeper].at = "wait"]
        <4>1. job'[Sweeper].at = "wait" /\ job'[Sweeper].op = job[Sweeper].op
              /\ job'[Sweeper].cutoff = job[Sweeper].cutoff
          BY <3>3, <1>t DEF StoreTypeOK, IsJob
        <4> QED BY <1>t, <2>1, <3>3, <4>1 DEF Watched, Unspared
      <3> QED BY <1>4, <3>1, <3>2, <3>3 DEF SweepRecheck
    <2> QED BY <2>1, <2>2 DEF Watched, Unspared
  <1>5. CASE Age
    BY <1>5, <1>1 DEF Age, storeVars
  <1> QED BY <1>1, <1>2, <1>3, <1>4, <1>5 DEF Next, vars

-----------------------------------------------------------------------------
(* The page keeps the promise of module Shelf *)

\* A publish goes above every number that is named
Above(j) == j.at \in {"mkdir", "write", "record"} => \A k \in Named(meta) : k < j.n

LEMMA AboveStep ==
  ASSUME IInv, \A p \in Procs : Above(job[p]), [Next]_vars
  PROVE  (\A p \in Procs : Above(job[p]))'
  <1>t. StoreTypeOK /\ \A q \in Procs : IsJob(job[q])
    BY DEF IInv, StoreTypeOK
  <1>i. Idle.at = "idle"
    BY DEF Idle
  <1>1. CASE UNCHANGED <<job, meta>>
    BY <1>1 DEF Above
  <1>2. ASSUME NEW p \in Procs, Works(p), NEW q \in Procs
        PROVE  Above(job[q])'
    <2>1. CASE job'[q].at \notin {"mkdir", "write", "record"}
      BY <2>1 DEF Above
    <2>2. CASE q # p /\ job[q].at \in Held
      <3>1. (lock = q /\ job'[q] = job[q]) \/ job'[q].at = "wait"
        BY <1>2, <2>2, OthersStay, HolderKnows
      <3>2. lock = q => meta' = meta
        BY <1>2, <2>2, HolderWrites
      <3> QED BY <3>1, <3>2, <2>1 DEF Above
    <2>3. CASE q # p /\ job[q].at \notin Held
      <3>1. job'[q].at \notin {"mkdir", "write", "record"}
        BY <1>2, <2>3, OthersStay DEF Held, Steps
      <3> QED BY <3>1, <2>1
    <2>4. CASE q = p /\ PickNumber(p)
      <3>1. job[p].at = "locked" /\ job[p].at \in Held
        BY <2>4 DEF PickNumber, May, Held, Steps
      <3>2. job[p].copy = meta /\ meta' = meta
        BY <2>4, <3>1, HolderKnows DEF PickNumber, Fresh, storeVars
      <3>3. PICK n \in Numbers : NextNumber(meta, n)
               /\ job' = [job EXCEPT ![p].at = "mkdir", ![p].n = n, ![p].existed = Exists]
        BY <2>4, <3>2 DEF PickNumber
      <3>4. job'[p].n = n
        BY <3>3, <1>t DEF StoreTypeOK, IsJob
      <3> QED BY <2>4, <3>2, <3>3, <3>4 DEF Above, NextNumber
    <2>5. CASE q = p /\ (Claim(p) \/ WriteFiles(p))
      BY <2>5, <1>t DEF Claim, WriteFiles, Goes, Above, StoreTypeOK, IsJob
    <2>6. CASE q = p /\ (EraseMeta(p) \/ \E n \in Numbers : EraseVersion(p, n))
      BY <2>6 DEF EraseMeta, EraseVersion, Above
    <2>7. ASSUME q = p, NEW a, Goes(p, a), a \notin {"mkdir", "write", "record"} PROVE Above(job[q])'
      <3>1. job'[p].at = a
        BY <2>7, <1>t DEF Goes, StoreTypeOK, IsJob
      <3> QED BY <3>1, <2>1, <2>7
    <2>8. CASE q = p /\ (Ends(p) \/ EndsTouching(p) \/ job' = [job EXCEPT ![p] = Idle])
      BY <2>8, <2>1, <1>i, <1>t DEF Ends, EndsTouching, StoreTypeOK
    <2>9. CASE q = p /\ Take(p)
      <3>1. CASE TakeToSweep(p)
        <4>1. job'[p].at = "locked"
          BY <3>1, <1>t DEF TakeToSweep, StoreTypeOK, IsJob
        <4> QED BY <4>1, <2>1, <2>9
      <3>2. ASSUME NEW op, NEW who, NEW n, TakeFor(p, op, who, n)
            PROVE  Above(job[q])'
        <4>1. job'[p].at = "locked"
          BY <3>2, <1>t DEF TakeFor, StoreTypeOK, Idle
        <4> QED BY <4>1, <2>1, <2>9
      <3> QED BY <2>9, <3>1, <3>2 DEF Take, TakeAny
    <2>10. CASE q = p /\ Editing(p)
      BY <2>10, <2>8, EditedRecord DEF Rewrite
    <2>11. CASE q = p /\ (Ask(p) \/ Rename(p) \/ RemoveVersion(p) \/ Remove(p))
      BY <2>11, <2>7 DEF Ask, Rename, RemoveVersion, Remove
    <2>12. CASE q = p /\ Unwind(p)
      BY <2>12, <2>7, <2>8 DEF Unwind
    <2> QED BY <1>2, <2>2, <2>3, <2>4, <2>5, <2>6, <2>8, <2>9, <2>10, <2>11, <2>12
       DEF Works, Busy, Refuse, Died, Publishing, MkdirFails, Collided, WriteFails, Return,
       ForgetPage, Removing, Rmdir, Removed
  <1>3. ASSUME NEW r \in Readers, Reads(r) PROVE UNCHANGED <<job, meta>>
    BY <1>3 DEF Reads, Look, Resolve, Open, Answered, storeVars
  <1>4. CASE SweepList \/ SweepRecheck
    <2>1. StoreTypeOK /\ Sweeper \in Procs
      BY <1>t, StoreAssumption
    <2>2. meta' = meta /\ \A q \in Procs \ {Sweeper} : job'[q] = job[q]
      BY <1>4, <2>1 DEF SweepList, SweepRecheck, StoreTypeOK, storeVars
    <2>3. job'[Sweeper].at \in {"idle", "listed", "wait"}
      <3>1. SweepList => job'[Sweeper].at = "listed"
        BY <2>1 DEF SweepList, StoreTypeOK, Idle
      <3>2. CASE job' = [job EXCEPT ![Sweeper] = Idle]
        BY <3>2, <2>1 DEF StoreTypeOK, Idle
      <3>3. CASE job' = [job EXCEPT ![Sweeper].at = "wait"]
        BY <3>3, <2>1 DEF StoreTypeOK, IsJob
      <3> QED BY <1>4, <3>1, <3>2, <3>3 DEF SweepRecheck
    <2> QED BY <2>1, <2>2, <2>3 DEF Above
  <1>5. CASE Age
    BY <1>5, <1>1 DEF Age, storeVars
  <1> QED BY <1>1, <1>2, <1>3, <1>4, <1>5 DEF Next, vars


\* What a record says of the page
Book(m) == [owner |-> m.owner, visibility |-> m.visibility, current |-> m.current,
            pages |-> m.pages, pinned |-> m.pinned]

LEMMA BookThere ==
  ASSUME NEW m, IsRecord(m)
  PROVE  Book(m) # Shelved!Absent
  BY DEF IsRecord, Book, Shelved!Absent, Numbers

LEMMA CreateRefines ==
  ASSUME IInv, NEW p \in Procs, Rename(p), meta = NoMeta
  PROVE  Shelved!Create
  <1>1. /\ job[p].copy = NoMeta /\ job[p].n \in Numbers /\ job[p].page \in Pages
        /\ job[p].who \in Principals
    <2>1. job[p].at = "record" /\ job[p].at \in Held
      BY DEF Rename, Held, Steps
    <2> QED BY <2>1, HolderKnows DEF Fresh, Hands, IsJob
  <1>2. PICK v \in Shared : meta' = Published(job[p], v)
    BY OfferedShared DEF Rename
  <1> DEFINE one == [k \in {job[p].n} |-> job[p].page]
             got == [k \in Named(NoMeta) \cup {job[p].n} |->
                        IF k = job[p].n THEN job[p].page ELSE NoMeta.pages[k]]
  <1>3. got = one
    BY Basics
  <1>4. /\ meta'.owner = job[p].who /\ meta'.visibility = v /\ meta'.current = job[p].n
        /\ meta'.pages = one /\ meta'.pinned = FALSE
    <2>1. [NoMeta EXCEPT !.owner = job[p].who, !.visibility = v].pages = NoMeta.pages
      BY DEF NoMeta
    <2>2. /\ meta'.owner = job[p].who /\ meta'.visibility = v /\ meta'.current = job[p].n
          /\ meta'.pinned = FALSE
      BY <1>1, <1>2 DEF Published, NoMeta
    <2>3. meta'.pages = got
      <3> DEFINE base == [NoMeta EXCEPT !.owner = job[p].who, !.visibility = v]
                 pages == [k \in Named(base) \cup {job[p].n} |->
                             IF k = job[p].n THEN job[p].page ELSE base.pages[k]]
      <3>1. meta' = [base EXCEPT !.pages = pages, !.current = job[p].n, !.updated = now]
        BY <1>1, <1>2 DEF Published
      <3>2. pages = got
        BY <2>1 DEF Named
      <3>3. base \in [owner : {job[p].who}, visibility : {v}, current : {0},
                      pages : {NoMeta.pages}, pinned : BOOLEAN, updated : {0}, unpinned : {0}]
        BY DEF NoMeta
      <3> HIDE DEF base, pages, got
      <3> QED BY <3>1, <3>2, <3>3
    <2> QED BY <2>2, <2>3, <1>3
  <1>5. Book(meta) = Shelved!Absent
    BY DEF Book, NoMeta, Shelved!Absent
  <1> HIDE DEF one, got
  <1>6. Book(meta') = [owner |-> job[p].who, visibility |-> v, current |-> job[p].n,
                       pages |-> one, pinned |-> FALSE]
    BY <1>4 DEF Book
  <1> QED BY <1>1, <1>2, <1>5, <1>6 DEF Shelved!Create, Book, one, Shelved!Shared, Shared

LEMMA PublishRefines ==
  ASSUME IInv, NEW p \in Procs, Rename(p), meta # NoMeta, Above(job[p])
  PROVE  Shelved!Publish
  <1> DEFINE n == job[p].n
             more == [k \in Named(meta) \cup {n} |->
                        IF k = n THEN job[p].page ELSE meta.pages[k]]
  <1>1. /\ job[p].at = "record" /\ job[p].copy = meta /\ n \in Numbers
        /\ job[p].page \in Pages /\ IsRecord(meta)
    <2>1. job[p].at = "record" /\ job[p].at \in Held
      BY DEF Rename, Held, Steps
    <2> QED BY <2>1, HolderKnows DEF Fresh, Hands, StoreTypeOK
  <1>2. \A k \in Named(meta) : k < n
    BY <1>1 DEF Above
  <1>3. meta' = [meta EXCEPT !.pages = more, !.current = n, !.updated = now]
    BY <1>1 DEF Rename, Published
  <1>4. Book(meta') = [Book(meta) EXCEPT !.current = n, !.pages = more]
    <2> HIDE DEF more, n
    <2>0. meta \in [owner : Principals, visibility : Shared, current : Numbers,
                    pages : {meta.pages}, pinned : BOOLEAN, updated : 1 .. MaxNow,
                    unpinned : 0 .. MaxNow]
      BY <1>1 DEF IsRecord
    <2>1. meta'.owner = meta.owner /\ meta'.visibility = meta.visibility
      BY <2>0, <1>3
    <2>2. meta'.pinned = meta.pinned
      BY <2>0, <1>3
    <2>3. meta'.current = n /\ meta'.pages = more
      BY <2>0, <1>3
    <2> DEFINE Only(c, g) == [owner : {meta.owner}, visibility : {meta.visibility},
                              current : {c}, pages : {g}, pinned : {meta.pinned}]
    <2>4. Book(meta') \in Only(n, more) /\ Book(meta) \in Only(meta.current, meta.pages)
      BY <2>1, <2>2, <2>3 DEF Book
    <2>5. [Book(meta) EXCEPT !.current = n, !.pages = more] \in Only(n, more)
      BY <2>4
    <2>6. \A x, y \in Only(n, more) : x = y
      OBVIOUS
    <2> HIDE DEF Only
    <2> QED BY <2>4, <2>5, <2>6
  <1>5. Book(meta).pages = meta.pages /\ Book(meta) # Shelved!Absent
    BY <1>1, BookThere DEF Book
  <1>6. Book(meta') = [Book(meta) EXCEPT !.current = n,
           !.pages = [k \in DOMAIN Book(meta).pages \cup {n} |->
                        IF k = n THEN job[p].page ELSE Book(meta).pages[k]]]
    BY <1>4, <1>5 DEF Named
  <1>7. \A k \in DOMAIN Book(meta).pages : k < n
    BY <1>2, <1>5 DEF Named
  <1> HIDE DEF n
  <1>8. \E b \in Pages, k \in Numbers :
           /\ \A l \in DOMAIN Book(meta).pages : l < k
           /\ Book(meta') = [Book(meta) EXCEPT !.current = k,
                 !.pages = [l \in DOMAIN Book(meta).pages \cup {k} |->
                              IF l = k THEN b ELSE Book(meta).pages[l]]]
    BY <1>1, <1>6, <1>7
  <1> QED BY <1>5, <1>8, Zenon DEF Shelved!Publish, Book

LEMMA DropRefines ==
  ASSUME IInv, NEW p \in Procs, RemoveVersion(p)
  PROVE  Shelved!Drop
  <1> DEFINE n == job[p].n
             fewer == [k \in Named(meta) \ {n} |-> meta.pages[k]]
  <1>1. /\ job[p].copy = meta /\ n \in Named(meta) /\ n # meta.current /\ IsRecord(meta)
    <2>1. job[p].at \in Held /\ job[p].at = "locked" /\ DropAllowed(job[p])
      BY DEF RemoveVersion, May, Allowed, Held, Steps
    <2> QED BY <2>1, HolderKnows DEF Fresh, DropAllowed, StoreTypeOK
  <1>2. meta' = [meta EXCEPT !.pages = fewer]
    BY <1>1 DEF RemoveVersion
  <1>3. Book(meta') = [Book(meta) EXCEPT !.pages = fewer]
    <2> HIDE DEF fewer
    <2>1. /\ meta'.owner = meta.owner /\ meta'.visibility = meta.visibility
          /\ meta'.current = meta.current /\ meta'.pages = fewer
          /\ meta'.pinned = meta.pinned
      BY <1>1, <1>2 DEF IsRecord
    <2> QED BY <2>1 DEF Book
  <1>4. Book(meta).pages = meta.pages /\ Book(meta) # Shelved!Absent
        /\ Book(meta).current = meta.current
    BY <1>1, BookThere DEF Book
  <1>5. Book(meta') = [Book(meta) EXCEPT
           !.pages = [k \in DOMAIN Book(meta).pages \ {n} |-> Book(meta).pages[k]]]
    BY <1>3, <1>4 DEF Named
  <1>6. n \in DOMAIN Book(meta).pages \ {Book(meta).current}
    BY <1>1, <1>4 DEF Named
  <1> HIDE DEF n
  <1> QED BY <1>4, <1>5, <1>6 DEF Shelved!Drop, Book

\* An edit changes one thing
LEMMA EditRefines ==
  ASSUME IInv, NEW p \in Procs, Editing(p)
  PROVE  \/ Shelved!Point \/ Shelved!Share \/ Shelved!Pin \/ Shelved!Give
         \/ Book(meta') = Book(meta)
  <1>1. job[p].copy = meta /\ IsRecord(meta) /\ EditAllowed(job[p])
    <2>1. /\ job[p].at \in Held /\ job[p].at = "locked" /\ Allowed(job[p])
          /\ job[p].op \in {"current", "visibility", "describe", "pin", "unpin", "owner"}
      BY DEF Editing, SetCurrent, SetVisibility, SetDescription, Pin, Unpin, SetOwner,
             May, Held, Steps
    <2>2. meta # NoMeta
      BY EditedRecord
    <2> QED BY <2>1, <2>2, HolderKnows DEF Fresh, Allowed, StoreTypeOK
  <1>2. Book(meta) # Shelved!Absent
    BY <1>1, BookThere
  <1>3. CASE SetCurrent(p)
    <2>1. job[p].n \in Named(meta)
      BY <1>1, <1>3 DEF SetCurrent, May, EditAllowed, Resolvable, IsRecord
    <2>2. meta' = [meta EXCEPT !.current = job[p].n, !.updated = now]
      BY <1>1, <1>3 DEF SetCurrent, Rewrite
    <2>3. Book(meta') = [Book(meta) EXCEPT !.current = job[p].n]
      BY <1>1, <2>2 DEF IsRecord, Book
    <2>4. job[p].n \in DOMAIN Book(meta).pages
      BY <2>1 DEF Book, Named
    <2> QED BY <1>2, <2>3, <2>4 DEF Shelved!Point, Book
  <1>4. CASE SetVisibility(p)
    <2>1. PICK v \in Shared : meta' = [meta EXCEPT !.visibility = v, !.updated = now]
      BY <1>1, <1>4 DEF SetVisibility, Rewrite
    <2>2. Book(meta') = [Book(meta) EXCEPT !.visibility = v]
      BY <1>1, <2>1 DEF IsRecord, Book
    <2> QED BY <1>2, <2>2 DEF Shelved!Share, Shelved!Shared, Shared, Book
  <1>5. CASE SetDescription(p)
    <2>1. meta' = [meta EXCEPT !.updated = now]
      BY <1>1, <1>5 DEF SetDescription, Rewrite
    <2> QED BY <1>1, <2>1 DEF IsRecord, Book
  <1>6. CASE Pin(p) \/ Unpin(p)
    <2>1. \E b \in BOOLEAN : \E u : meta' = [meta EXCEPT !.pinned = b, !.unpinned = u]
      BY <1>1, <1>6 DEF Pin, Unpin, Rewrite
    <2>2. PICK b \in BOOLEAN : Book(meta') = [Book(meta) EXCEPT !.pinned = b]
      BY <1>1, <2>1 DEF IsRecord, Book
    <2> QED BY <1>2, <2>2 DEF Shelved!Pin, Book
  <1>7. CASE SetOwner(p)
    <2>1. PICK o \in Principals : meta' = [meta EXCEPT !.owner = o]
      BY <1>1, <1>7 DEF SetOwner, Rewrite
    <2>2. Book(meta') = [Book(meta) EXCEPT !.owner = o]
      BY <1>1, <2>1 DEF IsRecord, Book
    <2> QED BY <1>2, <2>2 DEF Shelved!Give, Book
  <1> QED BY <1>3, <1>4, <1>5, <1>6, <1>7 DEF Editing

\* Every step is one of the promised ones, or changes nothing that is promised
LEMMA StepRefines ==
  ASSUME IInv, \A p \in Procs : Above(job[p]), [Next]_vars
  PROVE  Shelved!Next \/ Book(meta') = Book(meta)
  <1>1. CASE meta' = meta
    BY <1>1 DEF Book
  <1>2. CASE meta' = NoMeta
    <2>1. Book(meta') = Shelved!Absent
      BY <1>2 DEF Book, NoMeta, Shelved!Absent
    <2> QED BY <2>1 DEF Shelved!Next, Shelved!Clear, Book
  <1>3. ASSUME NEW p \in Procs, Rename(p) PROVE Shelved!Next
    BY <1>3, CreateRefines, PublishRefines DEF Shelved!Next
  <1>4. ASSUME NEW p \in Procs, Works(p)
        PROVE  Shelved!Next \/ Book(meta') = Book(meta)
    <2>1. \/ meta' = meta \/ meta' = NoMeta \/ Rename(p) \/ Editing(p) \/ RemoveVersion(p)
      BY <1>4 DEF Works, Ask, Take, TakeAny, TakeToSweep, TakeFor, Busy, Refuse, Died,
         Publishing, PickNumber, Claim, MkdirFails,
       Collided, WriteFiles, WriteFails, Return, Unwind, ForgetPage, Removing,
         Rmdir, Remove, EraseMeta, EraseVersion, Removed, storeVars
    <2> QED BY <2>1, <1>1, <1>2, <1>3, EditRefines, DropRefines DEF Shelved!Next
  <1>5. meta' = meta \/ \E p \in Procs : Works(p)
    BY DEF Next, vars, Reads, Look, Resolve, Open, Answered, SweepList, SweepRecheck,
       Age, storeVars
  <1> QED BY <1>1, <1>4, <1>5

-----------------------------------------------------------------------------
\* Pages, processes and readers keep to their types: a record serves a version
\* it names, whatever is asked for, refused or cut short
THEOREM TypesCorrect == Spec => []StoreTypeOK
  <1>1. IInv => StoreTypeOK
    BY DEF IInv
  <1> QED BY <1>1, SpecInv, PTL

\* What a record names is whole and is its own, but while the page is removed
\* or after a publish or a removal of it was cut short
THEOREM VersionsWhole == Spec => []NamedBytes
  <1>1. IInv => NamedBytes
    BY DEF IInv
  <1> QED BY <1>1, SpecInv, PTL

\* The number a publish picked is free when it makes its directory, whatever
\* dead processes left on disk and whoever else publishes
THEOREM NeverStuck == Spec => []NeverWedged
  <1>1. IInv => NeverWedged
    BY DEF IInv
  <1> QED BY <1>1, SpecInv, PTL

\* A reader, who takes no lock, is served what was published under the number
\* he asked for, unless that version was removed meanwhile
THEOREM ReadersServed == Spec => []ReadsPublished
  <1> DEFINE AllSeen == \A r \in Readers : Seen(read[r])
  <1>1. Init => AllSeen
    BY DEF Init, Seen, NoRead
  <1>2. IInv /\ AllSeen /\ [Next]_vars => AllSeen'
    BY SeenStep
  <1>3. AllSeen => ReadsPublished
    BY DEF Seen, ReadsPublished
  <1> HIDE DEF AllSeen
  <1> QED BY <1>1, <1>2, <1>3, SpecInv, PTL DEF Spec

\* A page is changed for those who own it, or may publish to it, at the moment
\* the change lands, whoever owned it when they asked
THEOREM OwnersDecide == Spec => OwnerActs
  <1> DEFINE AllEntitled == \A p \in Procs : Entitled(job[p])
  <1>1. Init => AllEntitled
    BY DEF Init, Entitled, Idle
  <1>2. IInv /\ AllEntitled /\ [Next]_vars => AllEntitled'
    BY EntitledStep
  <1> DEFINE Owned == meta # NoMeta /\ meta' # meta /\ lock # Free
                      => \/ Manages(job[lock].who, meta)
                         \/ job[lock].op = "publish" /\ Republishes(job[lock].who, meta)
  <1>3. IInv /\ AllEntitled /\ [Next]_vars => [Owned]_vars
    BY OwnerStep
  <1>4. (\A p \in Procs : Entitled(job[p])) = AllEntitled
    OBVIOUS
  <1> HIDE DEF AllEntitled
  <1>5. Spec => [][Owned]_vars
    BY <1>1, <1>2, <1>3, SpecInv, PTL DEF Spec
  <1> QED BY <1>5 DEF OwnerActs

\* The sweep removes no page that is pinned, or was until after the cutoff, but
\* one that somebody edited after its second look
THEOREM PinsRespected == Spec => SweepSpares
  <1> DEFINE AllWatched == \A p \in Procs : Watched(job[p])
  <1>1. Init => AllWatched
    BY DEF Init, Watched, Idle
  <1>2. IInv /\ AllWatched /\ [Next]_vars => AllWatched'
    BY WatchedStep
  <1> DEFINE Spares ==
        \A p \in Procs :
           job[p].op = "sweep" /\ job[p].at = "locked" /\ job'[p].at = "rmtree"
           => meta = NoMeta \/ ~Spared(meta, job[p].cutoff) \/ job[p].touched
  <1>3. AllWatched => [Spares]_vars
    BY DEF Watched, Unspared
  <1> HIDE DEF AllWatched
  <1>4. Spec => [][Spares]_vars
    BY <1>1, <1>2, <1>3, SpecInv, PTL DEF Spec
  <1> QED BY <1>4 DEF SweepSpares

\* The files, the lock and the processes that die keep the promise of Shelf:
\* each operation happens in one step, or has not happened
THEOREM KeepsPromise == Spec => ImplementsShelf
  <1> DEFINE AllAbove == \A p \in Procs : Above(job[p])
  <1>1. Init => AllAbove
    BY DEF Init, Above, Idle
  <1>2. IInv /\ AllAbove /\ [Next]_vars => AllAbove'
    BY AboveStep
  <1>3. Init => Shelved!Init
    BY DEF Init, NoMeta, Shelved!Init, Shelved!Absent
  <1>4. IInv /\ AllAbove /\ [Next]_vars => [Shelved!Next]_Shelved!vars
    <2> SUFFICES ASSUME IInv, AllAbove, [Next]_vars PROVE [Shelved!Next]_Shelved!vars
      OBVIOUS
    <2>1. Shelved!Next \/ Book(meta') = Book(meta)
      BY StepRefines
    <2> QED BY <2>1 DEF Shelved!vars, Book
  <1> HIDE DEF AllAbove
  <1> QED BY <1>1, <1>2, <1>3, <1>4, SpecInv, PTL DEF Spec, ImplementsShelf, Shelved!Spec
=============================================================================
