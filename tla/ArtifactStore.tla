---------------------------- MODULE ArtifactStore ----------------------------
(***************************************************************************)
(* One page of the artifact store (agents/artifact.py) and the processes   *)
(* that work on it: threads of the artifact server, the MCP server and the *)
(* command line.  Locks and directories are per id, so one page is enough. *)
(*                                                                         *)
(* meta is the page's meta.json; version n of it names the bytes published *)
(* as n (their sha256).  disk[n] stands for a file in the directory vn:    *)
(* nothing, half written, or the bytes of publish number b.  A directory   *)
(* <id>/ with nothing in it counts as none.                                *)
(*                                                                         *)
(* Every change is made under the page's lock by a process that has read   *)
(* meta.json into `copy' after it got the lock.  Readers take no lock.     *)
(* Processes die at any step and leave behind what they had written.       *)
(* The lock is one that works: a store on a filesystem without flock, or   *)
(* whose lock file cannot be opened, has only each process's own mutex     *)
(* (_flock_nb goes on without), and nothing here speaks of it.             *)
(* now and the stamps count retention periods: a stamp below now is older  *)
(* than the cutoff of the sweep.                                           *)
(***************************************************************************)
EXTENDS Naturals, FiniteSets

CONSTANTS Procs, Sweeper,     \* processes; the one that also runs the sweep
          Readers,            \* requests for a version's bytes
          Principals, Rig,    \* who asks; the rig may manage every page
          FirstOperators,     \* whose pages the rig may publish to
          Cap,                \* CAPS["versions"]
          Menus,              \* bound: sets of operations that are asked for
                              \* in one behaviour, and how many of them
          MaxOps,             \* bound: ... at most
          MaxFaults,          \* bound: deaths and failed writes
          MaxNow              \* bound: retention periods that pass

Kinds == {"publish", "current", "visibility", "describe", "pin", "unpin",
          "owner", "remove", "remove_version", "sweep"}
Free == "free"

ASSUME StoreAssumption ==
    /\ Free \notin Procs
    /\ Sweeper \in Procs /\ Rig \in Principals /\ FirstOperators \subseteq Principals
    /\ Cap \in Nat \ {0} /\ MaxOps \in Nat /\ MaxFaults \in Nat
    /\ MaxNow \in Nat \ {0}
    /\ Menus \subseteq [kinds : SUBSET Kinds, who : SUBSET Principals, ops : 0 .. MaxOps]

VARIABLES
    meta,       \* meta.json
    disk,       \* the version directories
    lock,       \* who holds the page's flock
    job,        \* each process: its operation and where it is in it
    read,       \* each reader, the same
    now,        \* retention periods since the store was made
    torn,       \* history: a removal or a publish of this page was cut short
    menu, ops, faults   \* for the bounds

storeVars == <<meta, disk>>
vars == <<meta, disk, lock, job, read, now, torn, menu, ops, faults>>

Numbers == 1 .. MaxOps            \* a number is used once, or freed by a removal
Shared == {"private", "tailnet"}  \* VISIBILITIES
Nothing == 0
Half == MaxOps + 1                \* a file that is being written
Pages == 1 .. MaxOps              \* publish b brings the bytes b
NoMeta == [owner |-> "nobody", visibility |-> "private", current |-> 0,
           pages |-> [n \in {} |-> 0], pinned |-> FALSE, updated |-> 0,
           unpinned |-> 0]
Steps == {"idle", "listed", "wait", "locked", "mkdir", "write", "record",
          "recorded", "unwind", "rmtree", "rmdir", "collided"}
Idle == [at |-> "idle", op |-> "none", who |-> Rig, n |-> 0, page |-> 0,
         copy |-> NoMeta, existed |-> FALSE, cutoff |-> 0, touched |-> FALSE]
NoRead == [at |-> "idle", n |-> 0, saw |-> 0, got |-> 0, gone |-> FALSE]

Named(m) == DOMAIN m.pages                        \* _version_numbers
OnDisk == {n \in Numbers : disk[n] # Nothing}     \* _disk_versions
\* What a reader may address (_resolvable_versions)
Resolvable(m) == IF Named(m) # {} THEN Named(m) ELSE OnDisk
\* A record names versions and serves one of them
IsRecord(m) ==
    /\ Named(m) \subseteq Numbers /\ m.current \in Named(m)
    /\ m \in [owner : Principals, visibility : Shared, current : Numbers,
             pages : [Named(m) -> Pages], pinned : BOOLEAN, updated : 1 .. MaxNow,
             unpinned : 0 .. MaxNow]
Exists == meta # NoMeta \/ OnDisk # {}            \* os.path.isdir

Init ==
    /\ meta = NoMeta /\ disk = [n \in Numbers |-> Nothing]
    /\ lock = Free /\ job = [p \in Procs |-> Idle]
    /\ read = [r \in Readers |-> NoRead]
    /\ now = 1 /\ torn = FALSE
    /\ menu \in Menus /\ ops = 0 /\ faults = 0

-----------------------------------------------------------------------------
\* Who may do what, and what is refused

Manages(who, m) == who = Rig \/ who = m.owner     \* _require_owner
Republishes(who, m) ==                            \* ... _rig_may_republish
    who = m.owner \/ (who = Rig /\ m.owner \in FirstOperators)

PublishAllowed(j) ==
    j.copy # NoMeta => /\ Republishes(j.who, j.copy)
                       /\ Cardinality(Named(j.copy)) < Cap
EditAllowed(j) ==
    /\ j.copy # NoMeta /\ Manages(j.who, j.copy)
    /\ j.op = "current" => j.n \in Resolvable(j.copy)
\* Mutant: the version that is being served may be removed
DropServedAllowed(j) ==
    /\ j.copy # NoMeta /\ Manages(j.who, j.copy)
    /\ j.n \in Named(j.copy) /\ Cardinality(Named(j.copy)) > 1
DropAllowed(j) ==
    /\ j.copy # NoMeta /\ Manages(j.who, j.copy)
    /\ j.n \in Named(j.copy) /\ Cardinality(Named(j.copy)) > 1
    /\ j.n # j.copy.current
\* Mutant: the removal of a page asks nobody (as the code once did)
RemovalForAll(j) == TRUE
RemovalAllowed(j) == j.copy # NoMeta => Manages(j.who, j.copy)
Allowed(j) == CASE j.op = "publish" -> PublishAllowed(j)
                [] j.op = "remove_version" -> DropAllowed(j)
                [] j.op \in {"remove", "sweep"} -> RemovalAllowed(j)
                [] OTHER -> EditAllowed(j)

-----------------------------------------------------------------------------
\* Getting the lock

Goes(p, at) == job' = [job EXCEPT ![p].at = at]
Ends(p) == job' = [job EXCEPT ![p] = Idle] /\ lock' = Free
Fault == faults < MaxFaults /\ faults' = faults + 1

Ask(p) ==
    /\ job[p].at = "idle" /\ ops < menu.ops
    /\ Goes(p, "wait")
    /\ UNCHANGED <<storeVars, lock, read, now, torn, ops, faults>>

\* With the lock: read meta.json.  What was asked for matters from here on
TakeFor(p, op, who, n) ==
    /\ job[p].at = "wait" /\ job[p].op = "none" /\ ops < menu.ops
    /\ op \in menu.kinds /\ who \in menu.who
    /\ op = "owner" => who = Rig                  \* set_owner: admin only
    /\ op = "remove" => Exists
    /\ n # 0 <=> op \in {"current", "remove_version"}
    /\ job' = [job EXCEPT ![p] = [Idle EXCEPT !.at = "locked", !.op = op,
                   !.who = who, !.n = n, !.page = ops + 1, !.copy = meta]]
    /\ ops' = ops + 1
    /\ UNCHANGED <<storeVars, read, now, torn, faults>>

TakeToSweep(p) ==
    /\ job[p].at = "wait" /\ job[p].op = "sweep"
    /\ job' = [job EXCEPT ![p].at = "locked", ![p].copy = meta]
    /\ UNCHANGED <<storeVars, read, now, torn, ops, faults>>

TakeAny(p) == \/ TakeToSweep(p)
              \/ \E op \in Kinds \ {"sweep"}, who \in Principals, n \in 0 .. MaxOps :
                    TakeFor(p, op, who, n)
\* Mutant: no lock between two processes
TakeUnlocked(p) == lock' = p /\ TakeAny(p)
Take(p) == lock = Free /\ lock' = p /\ TakeAny(p)

Busy(p) ==                                        \* the wait is bounded
    /\ job[p].at = "wait" /\ lock # Free
    /\ job' = [job EXCEPT ![p] = Idle]
    /\ UNCHANGED <<storeVars, lock, read, now, torn, ops, faults>>

Refuse(p) ==
    /\ job[p].at = "locked" /\ ~Allowed(job[p])
    /\ Ends(p)
    /\ UNCHANGED <<storeVars, read, now, torn, ops, faults>>

May(p, op) == job[p].at = "locked" /\ job[p].op = op /\ Allowed(job[p])

\* Dead processes hold no lock, and their last words are lost
Died(p) ==
    /\ job[p].at # "idle" /\ Fault
    /\ job' = [job EXCEPT ![p] = Idle]
    /\ lock' = IF lock = p THEN Free ELSE lock
    /\ torn' = (torn \/ (job[p].at = "rmtree" /\ meta # NoMeta))
    /\ UNCHANGED <<storeVars, read, now, ops>>

-----------------------------------------------------------------------------
\* What the changes do to a sweep and to the readers that are under way

\* Readers whose version is named no more
Unname(S) == read' = [r \in Readers |-> IF read[r].n \in S
                        THEN [read[r] EXCEPT !.gone = TRUE] ELSE read[r]]

\* p is done, and the sweep's second look, if it has had it, is out of date
EndsTouching(p) ==
    /\ lock' = Free
    /\ job' = [q \in Procs |->
          CASE q = p -> Idle
            [] q # p /\ job[q].op = "sweep" /\ job[q].at = "wait" ->
                  [job[q] EXCEPT !.touched = TRUE]
            [] OTHER -> job[q]]

-----------------------------------------------------------------------------
\* publish

\* The next number: above what meta names and what is on disk
NextNumberNamed(m, n) ==                          \* Mutant: of meta alone
    /\ \A k \in Named(m) : k < n
    /\ n = 1 \/ n - 1 \in Named(m)
NextNumber(m, n) ==
    /\ \A k \in Named(m) \cup OnDisk : k < n
    /\ n = 1 \/ n - 1 \in Named(m) \cup OnDisk

\* The number is read off a listing, and the directory is made afterwards
PickNumber(p) ==
    /\ May(p, "publish")
    /\ \E n \in Numbers :
         /\ NextNumber(job[p].copy, n)
         /\ job' = [job EXCEPT ![p].at = "mkdir", ![p].n = n, ![p].existed = Exists]
    /\ UNCHANGED <<storeVars, lock, read, now, torn, ops, faults>>

Claim(p) ==                                       \* mkdir vn, exclusively
    /\ job[p].at = "mkdir"
    /\ IF disk[job[p].n] = Nothing
       THEN disk' = [disk EXCEPT ![job[p].n] = Half] /\ Goes(p, "write")
       ELSE Goes(p, "collided") /\ UNCHANGED disk
    /\ UNCHANGED <<meta, lock, read, now, torn, ops, faults>>

MkdirFails(p) ==                                  \* a full disk, a bad mode
    /\ job[p].at = "mkdir" /\ Fault
    /\ Ends(p)
    /\ UNCHANGED <<storeVars, read, now, torn, ops>>

Collided(p) ==
    /\ job[p].at = "collided"
    /\ Ends(p)
    /\ UNCHANGED <<storeVars, read, now, torn, ops, faults>>

WriteFiles(p) ==
    /\ job[p].at = "write"
    /\ disk' = [disk EXCEPT ![job[p].n] = job[p].page]
    /\ Goes(p, "record")
    /\ UNCHANGED <<meta, lock, read, now, torn, ops, faults>>

\* A full disk, in a version's file or in the new meta.json: rmtree(vdir)
WriteFails(p) ==
    /\ job[p].at \in {"write", "record"} /\ Fault
    /\ disk' = [disk EXCEPT ![job[p].n] = Nothing]
    /\ Ends(p)
    /\ UNCHANGED <<meta, read, now, torn, ops>>

\* The visibility a new page is given; bound: where it can be changed
Offered == IF "visibility" \in menu.kinds THEN Shared ELSE {"private"}

Published(j, v) ==
    LET base == IF j.copy = NoMeta THEN [NoMeta EXCEPT !.owner = j.who, !.visibility = v]
                                   ELSE j.copy
    IN [base EXCEPT !.pages = [k \in Named(base) \cup {j.n} |->
                                 IF k = j.n THEN j.page ELSE base.pages[k]],
                    !.current = j.n, !.updated = now]

\* Mutant: the record is written before the files
RenameEarly(p) ==
    /\ job[p].at \in {"write", "record"}
    /\ \E v \in Offered : meta' = Published(job[p], v)
    /\ Goes(p, "recorded")
    /\ UNCHANGED <<disk, lock, read, now, torn, ops, faults>>
Rename(p) ==                                      \* os.replace
    /\ job[p].at = "record"
    /\ \E v \in Offered : meta' = Published(job[p], v)
    /\ Goes(p, "recorded")
    /\ UNCHANGED <<disk, lock, read, now, torn, ops, faults>>

Return(p) ==
    /\ job[p].at = "recorded"
    /\ Ends(p)
    /\ UNCHANGED <<storeVars, read, now, torn, ops, faults>>

\* An error or an interrupt after the rename: the directory goes ...
Unwind(p) ==
    /\ job[p].at = "recorded" /\ Fault
    /\ disk' = [disk EXCEPT ![job[p].n] = Nothing]
    /\ torn' = TRUE
    /\ IF job[p].copy = NoMeta /\ ~job[p].existed
       THEN Goes(p, "unwind") /\ UNCHANGED lock
       ELSE Ends(p)
    /\ UNCHANGED <<meta, read, now, ops>>

\* ... and then the record of a page that this call made, if no version of it
\* is on disk
ForgetPage(p) ==
    /\ job[p].at = "unwind"
    /\ IF OnDisk = {}
       THEN meta' = NoMeta /\ torn' = FALSE /\ Unname(Named(meta))
       ELSE UNCHANGED <<meta, torn, read>>
    /\ Ends(p)
    /\ UNCHANGED <<disk, now, ops, faults>>

-----------------------------------------------------------------------------
\* Changes of the record alone: one atomic rewrite

Rewrite(p, m) ==
    /\ meta' = m
    /\ EndsTouching(p)
    /\ UNCHANGED <<disk, read, now, torn, ops, faults>>

SetCurrent(p) ==
    /\ May(p, "current")
    /\ Rewrite(p, [job[p].copy EXCEPT !.current = job[p].n, !.updated = now])

SetVisibility(p) ==
    /\ May(p, "visibility")
    /\ \E v \in Shared :
          Rewrite(p, [job[p].copy EXCEPT !.visibility = v, !.updated = now])

SetDescription(p) ==
    /\ May(p, "describe")
    /\ Rewrite(p, [job[p].copy EXCEPT !.updated = now])

Pin(p) ==
    /\ May(p, "pin")
    /\ Rewrite(p, [job[p].copy EXCEPT !.pinned = TRUE, !.unpinned = 0])

Unpin(p) ==
    /\ May(p, "unpin")
    /\ Rewrite(p, [job[p].copy EXCEPT !.pinned = FALSE,
                       !.unpinned = IF job[p].copy.pinned THEN now ELSE @])

SetOwner(p) ==
    /\ May(p, "owner")
    /\ \E o \in Principals : Rewrite(p, [job[p].copy EXCEPT !.owner = o])

-----------------------------------------------------------------------------
\* remove_version: the record first, then the directory

RemoveVersion(p) ==
    /\ May(p, "remove_version")
    /\ LET m == job[p].copy
       IN meta' = [m EXCEPT !.pages = [k \in Named(m) \ {job[p].n} |-> m.pages[k]]]
    /\ Unname({job[p].n})
    /\ Goes(p, "rmdir")
    /\ UNCHANGED <<disk, lock, now, torn, ops, faults>>

Rmdir(p) ==
    /\ job[p].at = "rmdir"
    /\ disk' = [disk EXCEPT ![job[p].n] = Nothing]
    /\ Ends(p)
    /\ UNCHANGED <<meta, read, now, torn, ops, faults>>

\* remove: rmtree takes the entries of the directory in any order

Remove(p) ==
    /\ May(p, "remove") \/ May(p, "sweep")
    /\ Goes(p, "rmtree")
    /\ UNCHANGED <<storeVars, lock, read, now, torn, ops, faults>>

EraseMeta(p) ==
    /\ job[p].at = "rmtree" /\ meta # NoMeta
    /\ meta' = NoMeta /\ torn' = FALSE
    /\ Unname(Named(meta))
    /\ UNCHANGED <<disk, lock, job, now, ops, faults>>

EraseVersion(p, n) ==
    /\ job[p].at = "rmtree" /\ disk[n] # Nothing
    /\ disk' = [disk EXCEPT ![n] = Nothing]
    /\ UNCHANGED <<meta, lock, job, read, now, torn, ops, faults>>

Removed(p) ==
    /\ job[p].at = "rmtree" /\ ~Exists
    /\ Ends(p)
    /\ UNCHANGED <<storeVars, read, now, torn, ops, faults>>

-----------------------------------------------------------------------------
\* The retention sweep looks at a listing, then at the record, then removes

Stale(m, cutoff) == m.updated < cutoff

SweepList ==
    /\ job[Sweeper].at = "idle" /\ "sweep" \in menu.kinds
    /\ meta # NoMeta /\ ~meta.pinned /\ Stale(meta, now)
    /\ job' = [job EXCEPT ![Sweeper] =
                  [Idle EXCEPT !.at = "listed", !.op = "sweep", !.cutoff = now]]
    /\ UNCHANGED <<storeVars, lock, read, now, torn, ops, faults>>

Spared(m, cutoff) == m = NoMeta \/ m.pinned \/ m.unpinned >= cutoff

\* Mutant: what the listing said is enough
SweepRecheckOnce ==
    /\ job[Sweeper].at = "listed"
    /\ job' = IF ~Exists THEN [job EXCEPT ![Sweeper] = Idle]
              ELSE [job EXCEPT ![Sweeper].at = "wait"]
    /\ UNCHANGED <<storeVars, lock, read, now, torn, ops, faults>>
SweepRecheck ==
    /\ job[Sweeper].at = "listed"
    /\ job' = IF Spared(meta, job[Sweeper].cutoff) THEN [job EXCEPT ![Sweeper] = Idle]
              ELSE [job EXCEPT ![Sweeper].at = "wait"]
    /\ UNCHANGED <<storeVars, lock, read, now, torn, ops, faults>>

Age ==                                            \* a retention period passes
    /\ "sweep" \in menu.kinds
    /\ now < MaxNow /\ now' = now + 1
    /\ UNCHANGED <<storeVars, lock, job, read, torn, ops, faults>>

-----------------------------------------------------------------------------
\* A request for the bytes of a version: the page it may see and a version of
\* it, the record again, and then the file

Look(r) ==
    /\ read[r].at = "idle" /\ meta # NoMeta
    /\ \E n \in Resolvable(meta) :
          read' = [read EXCEPT ![r] = [NoRead EXCEPT !.at = "look", !.n = n]]
    /\ UNCHANGED <<storeVars, lock, job, now, torn, ops, faults>>

Resolve(r) ==
    /\ read[r].at = "look"
    /\ read' = IF meta # NoMeta /\ read[r].n \in Resolvable(meta)
               THEN [read EXCEPT ![r].at = "open", ![r].gone = FALSE,
                                 ![r].saw = meta.pages[read[r].n]]
               ELSE [read EXCEPT ![r] = NoRead]
    /\ UNCHANGED <<storeVars, lock, job, now, torn, ops, faults>>

Open(r) ==
    /\ read[r].at = "open"
    /\ read' = IF disk[read[r].n] # Nothing
               THEN [read EXCEPT ![r].at = "served", ![r].got = disk[read[r].n]]
               ELSE [read EXCEPT ![r] = NoRead]     \* no such file: 404
    /\ UNCHANGED <<storeVars, lock, job, now, torn, ops, faults>>

Answered(r) ==
    /\ read[r].at = "served"
    /\ read' = [read EXCEPT ![r] = NoRead]
    /\ UNCHANGED <<storeVars, lock, job, now, torn, ops, faults>>

-----------------------------------------------------------------------------
Publishing(p) == \/ PickNumber(p) \/ Claim(p) \/ MkdirFails(p) \/ Collided(p)
                 \/ WriteFiles(p) \/ WriteFails(p)
                 \/ Rename(p) \/ Return(p) \/ Unwind(p) \/ ForgetPage(p)
Editing(p) == \/ SetCurrent(p) \/ SetVisibility(p) \/ SetDescription(p)
              \/ Pin(p) \/ Unpin(p) \/ SetOwner(p)
Removing(p) == \/ RemoveVersion(p) \/ Rmdir(p) \/ Remove(p) \/ EraseMeta(p)
               \/ Removed(p) \/ \E n \in Numbers : EraseVersion(p, n)
Works(p) == \/ Ask(p) \/ Take(p) \/ Busy(p) \/ Refuse(p) \/ Died(p)
            \/ Publishing(p) \/ Editing(p) \/ Removing(p)
Reads(r) == Look(r) \/ Resolve(r) \/ Open(r) \/ Answered(r)

Next == /\ \/ \E p \in Procs : Works(p)
           \/ \E r \in Readers : Reads(r)
           \/ SweepList \/ SweepRecheck \/ Age
        /\ UNCHANGED menu

Spec == Init /\ [][Next]_vars

-----------------------------------------------------------------------------
IsJob(j) ==
    /\ j.copy = NoMeta \/ IsRecord(j.copy)
    /\ j \in [at : Steps, op : Kinds \cup {"none"}, who : Principals, n : 0 .. MaxOps,
             page : 0 .. MaxOps, copy : {j.copy}, existed : BOOLEAN,
             cutoff : 0 .. MaxNow, touched : BOOLEAN]

Reading == {x \in [at : {"idle", "look", "open", "served"}, n : 0 .. MaxOps,
                   saw : 0 .. MaxOps, got : 0 .. Half, gone : BOOLEAN] :
              x.at # "idle" => x.n \in Numbers}

\* What a process, a reader and a page may be; a record names versions, and
\* serves one of them (publish, set_current and remove_version)
StoreTypeOK ==
    /\ meta = NoMeta \/ IsRecord(meta)
    /\ disk \in [Numbers -> {Nothing, Half} \cup Pages]
    /\ lock \in Procs \cup {Free}
    /\ job = [p \in Procs |-> job[p]] /\ \A p \in Procs : IsJob(job[p])
    /\ read \in [Readers -> Reading]
    /\ now \in 1 .. MaxNow /\ torn \in BOOLEAN
    /\ menu \in Menus /\ ops \in 0 .. MaxOps /\ faults \in 0 .. MaxFaults

\* A version the record names is there, with the bytes that were published
\* under its number: never half written, never another's.  It can be missing
\* only while the page is being removed, or after a removal or a publish of
\* this page was cut short (publish, remove_version, remove)
NamedBytes ==
    \A n \in Named(meta) :
        \/ disk[n] = meta.pages[n]
        \/ disk[n] = Nothing /\ (torn \/ \E p \in Procs : job[p].at = "rmtree")

\* No publish finds that its number is taken: what dead publishes and removals
\* left on disk was stepped over when the number was picked (D14), and between
\* the listing and the mkdir the lock keeps every other process out
NeverWedged == \A p \in Procs : job[p].at # "collided"

\* A request is served whole bytes that were published under the number it
\* asked for, unless that version was removed while it was being read
\* (read_file, which takes no lock)
ReadsPublished ==
    \A r \in Readers : read[r].at = "served" => read[r].got = read[r].saw \/ read[r].gone

\* The page is changed for those who own it when the change lands, whoever
\* owned it when they asked (_require_owner, _rig_may_republish, set_owner)
OwnerActs ==
    [][meta # NoMeta /\ meta' # meta /\ lock # Free
       => \/ Manages(job[lock].who, meta)
          \/ job[lock].op = "publish" /\ Republishes(job[lock].who, meta)]_vars

\* The sweep removes no page that is pinned, or was until after the cutoff,
\* but one that was pinned or unpinned after its second look (sweep_retention)
SweepSpares ==
    [][\A p \in Procs :
         job[p].op = "sweep" /\ job[p].at = "locked" /\ job'[p].at = "rmtree"
         => meta = NoMeta \/ ~Spared(meta, job[p].cutoff) \/ job[p].touched]_vars

\* The files, the lock and the processes that die keep the promise of Shelf
Shelved == INSTANCE Shelf WITH
    shelf <- [owner |-> meta.owner, visibility |-> meta.visibility,
              current |-> meta.current, pages |-> meta.pages, pinned |-> meta.pinned]
ImplementsShelf == Shelved!Spec
=============================================================================
