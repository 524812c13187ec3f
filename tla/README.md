# A TLA+ model of OpenBeast

OpenBeast runs large language models on one workstation (the rig) and a few
nodes, and puts agents, a chat UI and devices in front of them. This directory
holds TLA+ modules that model the parts of it where concurrency, failure and
stale state decide correctness, the TLC configurations that check them on
small instances, and theorems about them that TLAPS checks for every instance.

Every module is translated from the code under `src/`; `PROJECT.json` maps each
definition to the lines it models, and lists the runs, the mutants that show
that each property can fail, the hazards and the theorems.

## Inventory

| Part | State | Operations | What is hard | What makes it correct |
|---|---|---|---|---|
| **hydra** `agents/hydra.py`, `hydra_core.py`: the router in front of the nodes | running config, health and breaker of each deployment, in-flight units, drains, affinity | proxy a request with failover, probe, check models, ask the GPU lease, reload, drain/undrain, explain, status | coroutines interleave at every await: plans, configurations and probe answers are stale when used; units are given back on many paths | no unit leaks; no request goes where it may not at that moment; only traffic closes a breaker; a refusal is cleared only by newer evidence; every state recovers |
| **GPU lease** `scripts/gpu-lease.sh` | the lease file, a flock, the holder's pid and start time | acquire, release, check, run | check and write race; the holder dies; a pid is reused | one live holder; a dead holder blocks nobody; release removes only what is one's own |
| **instinct** `agents/instinct/*`: cheap decisions by an engine cascade | demotions, ledger, shadow work, engine health, early answers | decide, feedback, shadow, demote, probe, reload | deadlines, background shadows, hooks that must not outlive their budget | one ledger row per call, counters exact, a decision below the bar always abstains |
| **edge** `agents/edge.py`: the gate devices reach, and `scripts/clients.sh`, which enrolls them | the registry file and the gate's copy of it, a bucket per enrollment, the requests | identify, reserve, widen, relay, release, audit, re-authenticate; enroll, rotate, scope, revoke, unrevoke, remove | many ways out of a stream and two closers of it; the registry changes, breaks or goes while requests are open; overlapping commands | what a bucket counts is what requests hold; one row for each forwarded request; a device that is cut off is soon silent and stays out |
| **island watcher** `agents/island.py` | per-service state, suspension file, heartbeat | tick, suspend, resume, restart | signals in the middle of a tick, files raced by the CLI | a suspended service is not restarted; no restart loop |
| **session ledger** `agents/sessions.py` | one record per session with its state, owner and inbox cursor; an inbox file | register, touch, finalize, reconcile on read, append and read ops, prune | reads without the lock, many writers of the last word, liveness by pid | the first verdict stands; a live session is never lost, a dead one never stays running |
| **agent runner** `agents/runner.py` | the loop, the cursor, ops in hand | turns, steering ops, resume, atexit | death between two writes, a resumed process | an op reaches the model at most once over all processes |
| **chat server** `agents/chat_server.py` | its children, threads that reap and stop | spawn, send, stop, reap, stream | the console dies first; a stop races the end of a run | a reaped child has a verdict; a stop ends and leaves nothing running |
| **artifact store** `agents/artifact.py`, `artifact_server.py` | per page: `meta.json`, a directory per version, a lock | publish, roll back, edit, pin, hand over, remove a version or the page, sweep, read | several processes; death in the middle of a publish or a removal; readers without the lock; a sweep that goes by a listing | what the record names is whole and is what was published; nobody but an owner changes a page; a dead publish wedges nothing |
| **jobs** `scripts/job.sh` | job files, pids, logs | start, stop, list | pid reuse, races of start and stop | one process per job |
| **lifecycle** `scripts/start.sh`, `stop.sh`, `healthcheck.sh`, `serve.sh`, `lib/proc.sh` | pid files, ports, units | start, stop, probe, restart | stopping what another start began | |
| **router** `agents/router.py` | route table | map a request to a tool set | | |
| **tools** `agents/tools.py`, `mcp_server.py`, `openapi_tools.py` | none that persists | tool calls | timeouts of subprocesses | |
| **evals** `evals/*.py` | run cache, results, leaderboard | run, resume, score | resuming after a crash | a unit is scored once, under the key that ran |
| **lang** `agents/lang/*` | catalog, claims | lookup, verify | | |
| **the rest**: dashboard, ntfy, client setup, updates, bundles, backends, research | | | mostly I/O and text | |

How they interact: devices reach `edge`, which forwards to `hydra` (or to one
engine); `hydra` asks `instinct` for a task class, `gpu-lease.sh` whether the
rig is lent out, and each node's `/health` and `/v1/models`; evals and training
take the lease; `island.py` and `healthcheck.sh` watch the services and restart
them; the chat server and runner start agents, which call `hydra` and the tools.

## Modules

### hydra

`HydraHealth` is one deployment's record (`DeploymentHealth`) and the functions
of `HealthState`: hysteresis over probes, verdicts of `/v1/models` checks, the
circuit breaker and its trial slot. It has no state of its own. Two clocks are
reduced to the comparison the code makes with them: `opened_at` to `elapsed`
(has `open_s` passed), `last_change` to `quiet` (which checks in flight were
sent after the last change of state). `opened_at` and `last_change` are read by
nothing else that is modelled.

`HydraFleet` is what all coroutines share: the running configuration, health,
in-flight counters, drains and the prober. Its actions are the admin handlers
(`Drain`, `Undrain`, `Status`, `ReloadFleet`), time (`OpenElapses`) and the
prober cut at its awaits: `TickStart` sends, `ProbeAnswer` handles a `/health`
answer and may send a models check, `ModelsAnswer` handles that, `LeaseAnswer`
ends the tick.

`HydraProxy` adds the requests. `Arrive` is everything from `decide()` to the
first admission, which has no await in it; the request may have taken its
configuration snapshot long before. `FailOver`, `GiveUp` and `EndUnjudged` end
an attempt before the commit point: release, record, and (for `FailOver`) the
admission of the next target, again without an await. `CommitBuffered`,
`CommitStream`, `RelayCompletes`, `RelayFails` and `CloseOut` are what follows
the first byte. `decide()` is abstracted to the set of plans it may return
(`Plans`): distinct targets that may be admitted now and that the snapshot's
family policy allows, in any order. What it prefers among them is not modelled.
The policy has two halves, as in the code: `allowed_families`, of which every
attempt asks the running configuration again (`Allowed`), and the `same_family`
of a route, which only the plan is made by. A configuration lists what the
anchors of its routes leave (`families`), and a request remembers its own
(`family`).

`Router` is what the requests promise together, without health, breakers, drains or
reloads: a request is at one deployment at a time, goes on only before a byte was
sent, never back to a deployment it has tried, at most `Budget` times, and each step
moves the load of the deployments it leaves and enters. `HydraProxy` implements it
(`ImplementsRouter`); the prober, the operator and reloads are stutters of it.

`MC_HydraProxy` gives TLC small fleets. `HydraLive` adds `calm`, the moment from
which engines answer well, and fairness. `HydraStaleCheck` and `HydraWins` add a
history each: the deployments a request saw refused since a check was sent, and how
many requests completed on a deployment since its breaker last opened (`wins`).

### GPU lease

`GpuLease` is `scripts/gpu-lease.sh`: the lease file, the flock, the processes.
A shell that runs `acquire` holds the lease itself; a `run` wrapper holds it
while its command lives, after `cmd_acquire` has first written the lease in the
name of the wrapper's parent (`Write`, then `Rewrite` without the lock). `Ask`,
`Lock`, `LockTimesOut`, `LockGivenUp`, `GoAhead`, `Refuse`, `Wait` and `Write` are
the path through `cmd_acquire`; `TrapRead` and `TrapRemove` the EXIT trap;
`Release` and `Remove` the command of that name. Of the three places that wait for
the flock only the first must get it: a round of `--wait` (206) and the trap (263)
go on without it when their time is up, and are then in `bare`. `Killed`,
`ShellDies` and `Born` are the world: processes end at any point, and their pids go
to strangers, the next `birth` of the pid. A command outlives the shell that waits
for it (`orphans`), and writes the lease for the pid of that shell, whoever has the
pid by then. `claim`, `robbed` and `made` (how the lease that is there was written:
without the lock, or for a stranger) are history.

`Card` is what the script promises, without files, pids or locks: a use of the
card starts when every earlier user has left or was robbed by `--force`.
`GpuLease` implements it with users mapped to those who hold a lease
(`ImplementsCard`).

### Sessions

`SessionLedger` is one session and everybody who writes its record. A record is
`[state, owner, cursor]`: the owner stands for pid, start time and boot id, which
is why no stranger is ever taken for it. The runs of the session come one after
the other. `Look`, `Judge` and `Persist` are the three moments of
`sessions.get()`: the read, the liveness probe, and the write under the flock;
a run goes through them too, for the cursor it carries over, before it
`Register`s. `Read`, `Save`, `Apply` and `Work` are the turn loop of the runner,
`Crash` and `Conclude` its ways to a verdict (the former through atexit),
`Exit` and `Killed` the death of the process. `Reap` to `ReapFail` are
`reap_session`, `Watch` to `FinalizeStopped` are the thread of
`start_escalation`. `ConsoleDies` takes both threads away and leaves the run.
`applied` is history: how often each op was given to the model; `struck` too: the
runs this console's stop has signalled.

`Session` is what the ledger promises of a session, without files, readers or
threads: a later process takes it over, a guess (lost) gives way to a verdict and a
verdict to nothing but a later process, and the model is given the ops in order,
each once, none while the session is given up as lost. `SessionLedger` implements it by
the record and `applied` (`ImplementsSession`).

### Artifact store

`ArtifactStore` is one page: locks and directories are per id. `meta` is
`meta.json`, whose version n is named with the bytes that were published as n
(their sha256); `disk[n]` is what the directory `vn` holds. A process asks for
the lock (`Ask`), and takes it and reads the record in one step (`Take`: nothing
else is done between), or gives up (`Busy`). `PickNumber` (from a listing), `Claim`
(the `mkdir`, which may find the number taken), `WriteFiles`, `Rename` and
`Return` are a publish; `MkdirFails`, `WriteFails` and `Unwind` the ways it fails,
the last after the record was renamed: the directory goes in one step, and the
record of a page that this call made in the next (`ForgetPage`).
`SetCurrent` to `SetOwner` are the mutators that only rewrite the record.
`RemoveVersion` and `Rmdir` are the two writes of `remove_version`; `Remove`,
`EraseMeta`, `EraseVersion` and `Removed` the `rmtree` of a page, which takes
its entries in any order. `SweepList` and `SweepRecheck` are the two looks of
`sweep_retention` before it calls `remove`. `Look`, `Resolve` and `Open` are a
request for a version's bytes, without a lock. `Died` ends a process at any
step. `torn`, `touched` and `gone` are history.

`Shelf` is what the store promises of a page, without files, locks or crashes:
each operation is one step, and one that fails has not happened.
`ArtifactStore` implements it by the record alone (`ImplementsShelf`); what the
record is worth is `NamedBytes`.

Two menus keep the run small: long sequences of the operations on versions, and
short ones of everything else with all principals and a sweep.

### Edge

`EdgeGate` is the gate with one device id, whose row in the registry can be
enrolled, given another key or limit, revoked, removed and enrolled anew. `file`
is `clients.json`, `reg` the gate's copy. A request is cut where `gate` awaits:
`Arrive` (identify and reserve), `BodyArrives` (the fan-out and `reserve_more`)
or `BadBody` or `BodyEnds`, then `Recheck`, `GoneWaiting`, `TimesOut`, `Cancelled`
or `Headers` in `_send_watched`, then `StartRelay`, `Chunk`, `Completes`,
`StreamFails`, `GoneStreaming` in `body_iter`. After that a stream has two
closers, the generator's finally clause and the background task: `FinallyStarts`
and `SweepStarts` release and close the upstream, `FinallyCloses` and
`SweepCloses` write the row. A client hangs up by `Hangs`; what it waits for
finds out later, by itself (`left`). When it goes while a chunk is sent, the
finally clause waits for the collector, and runs before, during or after the
background task. `Cancelled` is the wait that is left by any other exception or by
the cancellation of its task (939-942, 1181-1184): units come back, no row is written.

`CliAsk`, `CliAskKey`, `CliLoad`, `CliSave` and `CliFails` are a run of
`clients.sh`: what is looked at before the lock, load, the atomic replacement.
`Damage` puts something unreadable, or nothing, in the place of the registry. `Tick`
is an interval of `_REAUTH_INTERVAL_S`. Tokens are counted whole; an enrollment
has the number of its first key for its uid (the real one is a hash that
includes the second of the enrollment). `enroll --force` is a rotate that skips
the look before the lock. `banned` is history: the keys an operator took away.

`Turnstile` is what the gate promises of the requests it lets through, without keys,
registry, rates, clock or closers: no enrollment holds more units than the limit; a
request takes all of its own before it is forwarded and gives all of them back at
once; one that was forwarded is over only when it holds nothing and its one row is
written, unless its wait was broken off (`broken`). `EdgeGate` implements it (`ImplementsTurnstile`).

## Runs

| Run | Instance | Shows |
|---|---|---|
| `failover` | 2 deployments on one node, 2 requests, plans of 2, thresholds 1, the policy reloaded between "both" and "one", and a route that keeps to one family | `ImplementsRouter`, `InflightExact`, `NoStaleAdmission`, `PolicyHolds` |
| `breaker` | 1 deployment, 3 requests, 2 probes up, 2 successes to close, reloads that drop and restore it, streaming | `TrialHeld`, `ClosedByTraffic` (with `wins`), `RefusalOutlivesProbes` |
| `recovery` | 1 deployment on a leased node, 2 requests, `LiveSpec` | `ReadyAgain`, `AdmitsAgain` |
| `two_trials` | 1 deployment, 3 requests | `OneTrial` does not hold |
| `stale_check` | 1 deployment, 2 requests, history | `StaleOkNeverClears` does not hold |
| `lease_stuck` | a reload that clears `gpu_lease`, `LiveSpec` | `FreeLeaseUndrains` does not hold |
| `gpu_lease` | 2 shells, a run that one of them starts, plain, waiting and forced acquires, every pid given out at most twice, locks given up, `Calm` | `LockOwned`, `AnswersTruthful`, `HeldBySomebody`, `TrapRemovesOwn`, `ImplementsCard` |
| `gpu_two_holders` | the same without `Calm` and without `--force` | `OneHolder` does not hold |
| `session_ledger` | 1 reader, 2 runs, 2 ops read one at a time, a stop, a reaper, a console that dies, `Calm` | `ImplementsSession`, `VerdictStands`, `LostIsDead`, `AtMostOnce`, `ChildHasVerdict`, `SignalledIsFiled`, `StopEnds`, `NoGhost` |
| `session_replay` | the same without `Calm` | `AtMostOnce` does not hold |
| `artifact_store` | 2 processes, one of which sweeps, 1 reader, 2 principals, a cap of 2 versions, 5 operations on versions or 3 of the others, 1 death or failed write, 2 retention periods | `StoreTypeOK`, `NamedBytes`, `NeverWedged`, `ReadsPublished`, `OwnerActs`, `SweepSpares`, `ImplementsShelf` |
| `edge` | 2 requests, or 1 and up to 3 changes of the registry by 2 commands, damage and restarts; at most 2 in flight, 3 keys, streams of 2 chunks | `ImplementsTurnstile`, `SlotsExact`, `AuditedOnce`, `CutOff`, `BannedStaysOut`, `GoneEnds` |

The types of the proxy, the ledger and the gate (`ProxyTypeOK`, `LedgerTypeOK`,
`EdgeTypeOK`) are checked by no run but proved; the runs check the refinements
instead, which say more.

Bounds. Streaks and failure counts are capped at the threshold they are compared
with, which loses nothing. Two requests are enough for a failover to race
another request, three for an old request, a trial and a newcomer. `PreCommit`
is the bound of the `failover` run (a request that has committed is alone, streams
that overlap with others, and models checks that overlap with requests, are left to
`breaker`; one breaker open at a time; one deployment at a
time loading, down or refused, so that a plan always has somewhere else to go;
`AUTH_FAILED` stands for `MISMATCH`, which differs from it in nothing but its
name). Requests are
symmetric. `CHECK_DEADLOCK FALSE` because a fleet whose probes are all answered
and whose requests are all gone may be left alone. A session whose runs are over,
and a card nobody wants, may be left alone too.

`Calm` is a bound in both modules that have it. In `GpuLease` it keeps the
windows in which the script acts on the lease without the flock from being
interleaved with another process: between the two writes of `run`, between the read
and the `rm` of `release`, and what a command does after it gave the lock up. A
round of `--wait` does not give it up while its holder is about to write. Locks are
still given up, shells die and their pids are reused under a waiting command. In
`SessionLedger` it makes a reader judge the record as it is at that moment, lets a
resumed run register only when no reader is about to write `lost`, and lets a resume start only when the reaper and the
stop of the run before are done. The runs without it show what is lost:
`gpu_two_holders` and `session_replay`. Everything else, the interleaving of
verdict, atexit, reaper, stop and reader included, is free under `Calm`.

Two runs of a session are enough for a resume, and two ops for one that is
applied and one that is still unread when its run dies, or a message and the
stop behind it. One reader is enough for a write of `lost` between any two other
steps; a second one would find that write done.

Five operations on the versions of a page are enough to publish up to the cap,
free a number by removing the highest version and publish again under it, with
one death in between. One fault is enough for debris of each kind; two processes
for every pair of a holder and somebody who waits. `Age` is needed once for a
sweep. In `edge` the four menus are: two requests against one bucket; a device
cut off during a request; a limit that changes under a request; and the registry
with all its commands, damage and restarts, of which three follow each other
(revoke, lose the file, enroll anew). Four generations are asked for where two
are allowed, so that all three answers to a fan-out occur.

Both modules may stop: a page or a gate that nobody asks is left alone. In
`ArtifactStore` one action never fires, `Collided`: the property `NeverWedged`
says just that. It rests on two things that are apart in the code, the listing that
steps over what is on disk (972) and the lock that is held from there to the `mkdir`
(984): take away either, and it fires.

Fairness (`HydraLive`). From `calm` on: `probe_loop` ticks every 0.25 s and every
probe, check and lease call has a timeout, so `Tick`, `ProbeGood`, `ModelsGood`
and `LeaseFree` are weakly fair; `open_s` is a clock, so `Elapse` is; attempts
and relays have deadlines, so `GoodAnswer` is. Arrivals are not fair. Nothing is
assumed of what happened before `calm`.

Fairness (`SessionLedger`). Somebody reads the session again and again, which an
attached console does four times a second and a list of the sessions does on
demand: a `lost` that nobody reads is not written. The thread of a stop
goes on (`WF`), and its clock passes `kill_after` and then the deadline however
often it polled before (`SF` of `Kill` and `GiveUp`). The run itself is assumed
to do nothing: it may hang for ever, also when it has been sent SIGKILL.

Fairness (`EdgeGate`). What notices a client that is gone goes on: the read of its
body, the poll of the wait for headers (`GoneWaiting`) and Starlette's listener of
the stream (`GoneStreaming`); and a closer that was started, or that the event loop
or the collector owes, runs (`Closes`). No engine owes a step: `TimesOut` may happen
and need not, since `httpx.Timeout(None, connect, read)` (1400-1404) sets no deadline
to write the body or to get a connection. Nor does a client that is there: one that
stalls in its upload, or stops reading what it is sent, keeps its units for as long
as it likes, and so does an engine that stops reading the body while the client
waits. So `GoneEnds` says only that a client that hangs up gets its units back; the
rest is the note of the hazard at `edge.py:931`.

## What the runs found

* `two_trials`: the documents promise exactly one trial in flight, the code can
  have two. `breaker_state()` zeroes `trial_inflight` when an OPEN breaker turns
  HALF_OPEN, although the trial of an earlier HALF_OPEN may still be relaying: it
  is enough that an older request fails meanwhile and re-opens the breaker.
* `stale_check`: an `ok` of a models check clears a refusal that a request
  observed after the check was sent, when the deployment was already refused:
  `_set()` moves `last_change` only if the state changes.
* `lease_stuck`: a reload that clears `gpu_lease` on a node drained by the lease
  leaves it drained until a restart.
* `gpu_two_holders`: `run` records its parent's pid under the lock and its own
  without it. If the parent is gone by then, the first record is stale, a second
  acquire takes the lease over in between, and both hold the card.
* `session_replay`: `_reconciled()` checks the record it re-read under the flock
  but writes the copy it had read before. A cursor saved in between is undone,
  and a resumed run is told an op again.

While modelling, smaller things showed that no run is spent on:

* hydra: `policy_reason` promises that "no path can reach a family the policy
  forbids" (`hydra_core.py` 1559-1562), but the re-vet of an attempt calls it
  without the route (`hydra.py:1063`): a `same_family` that a reload sets does not
  bind a plan made before. `PolicyHolds` asks what the code does: the running
  `allowed_families`, and the `same_family` the plan was made by.
* hydra: while a breaker is HALF_OPEN, a request that was admitted before it opened
  counts towards `success_threshold` as a trial does.
* GPU lease: the comment at 256-258, that the trap removes nobody else's lease,
  is not true of a trap that waited 10 s for the flock and went on without it.
* GPU lease: an `acquire --wait` whose shell has died, and whose pid went to a
  stranger, writes the lease with the stranger's start time (172, 223, 233-243). The
  card is then held by a process that never asked for it.
* sessions: `_reconciled` looks only whether the record it re-read still says
  running. If a resumed run registered between the probe and the write, its record is
  overwritten by the old one, as lost: a live session reads as lost. `LostIsDead` is
  what remains true, and `FirstRunIsSafe` says it takes a resume.
* sessions: after a `stop` gave up waiting, the record says stopped although a
  process that SIGKILL has not ended yet may be there; `SignalledIsFiled` speaks of
  the record.
* edge: `docs/BEAST_SLOT.md` says of a revocation that "a stream already in flight
  runs to completion" (333-334), and, at 513, that it is cut at the next re-check. The
  code does the latter, and `CutOff` checks it: within two intervals, since the relay
  begins its own.
* edge: the warning of `clients.sh` after the last device is removed ("beast-gate
  admits EVERY tailnet caller", 485-492) is out of date: `Registry.exists` refuses
  them, as `BannedStaysOut` checks.
* artifact store: a version number is given again after a roll back, the removal of
  the highest version and another publish.
* artifact store: the sweep does not look at `updated_at` a second time: a page edited
  between the listing and the removal is removed.

## Proofs

`HydraHealth_proofs` shows, for every threshold, that each operator of
`HydraHealth` maps a record to a record and that none but `TakeUnit` takes a
trial slot. `HydraProxy_proofs` proves, for every fleet, set of configurations
and number of requests:

* `TypeCorrect`: `Spec => []ProxyTypeOK`,
* `TrialAlwaysHeld`: `Spec => []TrialHeld`,
* `InflightAlwaysExact`: `Spec => []InflightExact`,
* `PolicyAlways`: `Spec => PolicyHolds`,
* `NeverStale`: `Spec => NoStaleAdmission`,
* `RefusalsOutliveProbes`: `Settled` and `Spec` imply `RefusalOutlivesProbes`,
* `ProxyKeepsPromise`: `Spec => ImplementsRouter`,
* `OneTrialUnlessOneOutlives`: `Spec /\ TrialsEndFirst => []OneTrial`,
* `LeaseDrainsOnlyMarked`: `MarksStay` and `Spec` imply `[]DrainsAreAsked`.

The inductive invariant is `IInv == ProxyTypeOK /\ TrialHeld`. The two need each
other: that a slot never counts two (`trial_inflight \in {0, 1}`, part of the
type) follows only because a slot is taken where `MayAdmit` saw it free, and
that a released slot is not another's follows from its range. `OthersHold(h, r)`
is the form used inside a request's step, between its release and its next
admission: every slot taken in `h` is a trial of a request other than `r`.
The action properties follow from `AdmittedWhere` (an admission happens only on
arrival and failover), `TakenWell` (what both of them checked) and `FamilyInv` (what
is left of a plan is still what its route's anchor allowed). `InflightExact` is proved by cardinalities: a request that ends or moves on takes
itself out of one set of holders and puts itself into at most one other
(`CountApart`, `MoveKeepsExact`). `Gives` says that, apart from a success, no
operator of `HydraHealth` closes a breaker, adds to what it has won or makes a
deployment READY, and `RestGives` that no step but a request's uses a success.
`RefusalsOutliveProbes` assumes `Settled`: no reload moves a deployment to another
node. Then what a check in flight is about to judge is of the node it was sent
to (`Checked`). Where a reload does move one, an answer of its old node is
applied to it, which the hazard at `hydra.py:564` lists.

`ProxyKeepsPromise` adds one invariant, `PlanInv`: the targets a request has left are
distinct, fewer than `MaxAttempts`, and none of them is where it is; once committed
it has none. Each action of `Serve` then maps to one of Router (`ServeRoutes`,
`RouteStep`), with the counters from `InflightExact`'s lemmas, and every other action
to a stutter (`RestRoutes`).

Three theorems say how far three of the claims that runs refute do hold. `OneTrial`
fails in `two_trials` because `breaker_state()` frees a slot that is still held.
`OneTrialUnlessOneOutlives` shows that this is the only way: if every OPEN breaker
turns HALF_OPEN when no request holds a trial of it (`TrialsEndFirst`), whoever holds
a trial of a HALF_OPEN deployment has its slot, alone (`OneClaim`). Its proof
follows the breaker through a step of a request, which may record, release and admit,
by `Steady`: the map on the way is HALF_OPEN only where the breaker was, with the
same slot but for the one the request itself gave back, or where a cool-down is over.
`lease_stuck` needs a reload that changes a node's `gpu_lease` mark:
where none does (`MarksStay`), the nodes the lease drains are nodes it will be asked for.
`stale_check` needs a request that is refused again where the refusal was known
already: where every refusal a request observes while a check is out is news, i.e.
changes the deployment's state (`OnlyNews`), `OkSparesNews` proves
`StaleOkNeverClears`, in `HydraHistory_proofs`. Its invariant is `HistInv`: a
deployment that a request saw refused since the check was sent is not quiet, so
`on_models` keeps its hands off it; `RequestsStir` says that nothing a request does
makes a deployment quiet for a check that is out.

`HydraHistory_proofs` also proves `OnlyTrafficCloses`: `WinsSpec => ClosedByTraffic`.
Its invariant is `WinsInv`: what a HALF_OPEN breaker has counted is no more than the
requests that completed since it last opened, and an OPEN one has none. A breaker
closes only where `RecordSuccess` counts to `SuccessThreshold`, and the request that
it counts is the one that completes.

`HydraLive_proofs` proves the half of recovery that needs no fairness, for every
fleet and whatever calm finds in flight: `ReadyStays` (from calm on, what is READY
stays READY), `NothingOpens` (no breaker opens) and `LeaseDrainsNoMore`. So
`ReadyAgain` comes to each deployment being READY once, which the `recovery` run
checks.

`GpuLease_proofs` proves of the lease, for any shells, runs, parents and births of
pids:

* `LockAlwaysOwned`: `Spec => []LockOwned`, whether or not `Calm`,
* `AnswersAlwaysTrue`: `Spec => []AnswersTruthful`, under `Calm`,
* `AlwaysHeldBySomebody`: `Spec => []HeldBySomebody`, under `Calm`,
* `TrapsRemoveOwn`: `Spec => TrapRemovesOwn`, whether or not `Calm`,
* `OneHolderWhenCalm`: `Spec => []OneHolder`, under `Calm`,
* `LeaseKeepsPromise`: `Spec => ImplementsCard`, under `Calm`.

`BaseInv` holds always: the types, what shells and runs are each able to do
(`Kinds`), who may be without the lock (`Bare`), that only live shells claim the
card (`Claims`), that a lease names a birth its pid has had (`Stamped`) and
`LockOwned`. `TrapsRemoveOwn` adds that the lease a trap with the lock has found its
own is still its own, or was since written by somebody without the lock (`Exits`).
`CalmInv` is what the lease
says about the card: whoever uses it is named by it (`Named`), and nobody does
between the two writes of `run` (`Rewriting`); who goes on without the lock meets nobody in a
window (`Rounds`); who is about to write saw that
nobody live held it (`Seen`); and who is about to remove it robs nobody
(`Releasing`, `Trapped`). A lease that is held names a user, or a stranger that had
the pid when it was written (`Somebody`). Without `Calm` it is `Rewriting` and `Releasing` that
fail, and `gpu_two_holders` shows what follows.

`SessionLedger_proofs` proves of the ledger, for any number of readers, runs,
ops and any batch size:

* `LedgerTypeCorrect`: `Spec => []LedgerTypeOK`,
* `VerdictsStand`: `Spec => VerdictStands`, whether or not `Calm`,
* `SignalledIsStopped`: `Calm /\ Spec => []SignalledIsFiled`,
* `GivenOnce`: `Calm /\ Spec => []AtMostOnce`,
* `ChildrenHaveVerdicts`: `Calm /\ Spec => []ChildHasVerdict`,
* `LedgerKeepsPromise`: `Calm /\ Spec => ImplementsSession`,
* `LostNamesTheDead`: `Spec => []LostIsDead`, whether or not `Calm`,
* `GivenOncePerRun`: `Spec => []OncePerRun`, whether or not `Calm`,
* `FirstRunIsSafe`: without `Calm`, until the session is resumed, no live run is lost,
  no op is given twice and a reaped child that had registered has its verdict.

Its invariant `IInv` adds to the types what makes a late write harmless to a
verdict. Runs come one after the other (`Ordered`, hence `OneUp`: two are never up
at once). A record, and every copy of one, was written by a run older than those
still to register (`Older`): a registration that replaces a verdict therefore names
a later run. A run reads only before it registers (`Reading`), a reader writes only
a copy that said running (`Judged`), and the reaper settles only a child that is
gone, with a status (`Reaped`), so `ReapFile` finds no record to overwrite.
`RecordStep` lists what a step can do to the record; of these a
verdict admits only `Register`. Three facts more are inductive
under `Calm` alone: a record that says running names the live run (`Owns`), nobody
is about to write `lost' while a run is live (`NoWriter`), and a run becomes live
by registering (`Unborn`, `LiveStep`). Without `Calm`, `NoWriter` is what fails.
`GivenOnce` says where the ops given so far lie: below the cursor of the
record, below the cursor of a run that is between two batches, and below the
start of a batch that is read and not yet applied (`Below`, `Sure`); and that a
cursor is saved before its batch is applied, so a successor starts behind it.
It rests on `Copied`, that a reader about to write `lost` has the record as it
is: without `Calm` that fails, and `session_replay` shows what follows. `Copied`
also keeps the verdict of `ChildrenHaveVerdicts`; the rest of that is `ReaperPath`
and that a child whose record the reaper must file had never registered
(`Child`). `SignalledIsStopped` follows the runs a stop has signalled (`FiledInv`):
whom the record lets a stop signal has registered (`OwnerKnown`); until he has a
verdict the stop is at work and knows that it signalled somebody (`Pending`), so that
it will file him; and a verdict other than stopped is the run's own word, written by
itself or read off its exit status (`Worded`, `StatusSaid`), for as long as the reaper
waits nobody resumes the session (`ReaperFirst`).

The last three say what is left without `Calm`, where a reader may write a copy as
old as it likes. A copy that was judged dead names a process that is dead
(`JudgedDead`), and the dead stay so: what a stale write does is to bring such a
process back over a live one, never to call a live one dead. A run that reads on
from its cursor has given no op above it (`Hungry` in `FedInv`), so only a resume can
repeat an op, and once per process at most. And where there is one run, no copy names
another.
`LedgerKeepsPromise` takes the steps of the record (`RecordStep`) and of `applied`
together: a batch is new, and is given while the record does not say lost.

`ArtifactStore_proofs` proves of the store, for any processes, readers and
principals and any number of operations and faults:

* `TypesCorrect`: `Spec => []StoreTypeOK`,
* `VersionsWhole`: `Spec => []NamedBytes`,
* `NeverStuck`: `Spec => []NeverWedged`,
* `ReadersServed`: `Spec => []ReadsPublished`,
* `OwnersDecide`: `Spec => OwnerActs`,
* `PinsRespected`: `Spec => SweepSpares`,
* `KeepsPromise`: `Spec => ImplementsShelf`.

Its invariant `IInv` adds three facts about who is past the lock: he has it
(`Locked`), his copy is the record until he writes it (`Current`), and what he is
about to write or remove is a number no record names (`Hands`). So a directory that
changes is never a named one, except in a removal of the page or an `Unwind`,
and those leave `torn` behind. `NeverStuck` is the part of `Hands` about a publish
between its listing and its `mkdir`: the number it picked is still free, since every
step that fills a directory is made by whoever has the lock. For readers, `Seen` ties what a request has
resolved to what the record named then; `Entitled` that whoever is past the owner
check of an operation still passes it, for the record is his until he is done;
`Watched` that what the sweep saw at its second look is still so, unless somebody
has edited the page since. `KeepsPromise` maps the record alone
(`Above`, `Book`): a number is claimed above all others, so a publish is the one
step in which the record is renamed, and one that dies or is unwound before it
leaves the shelf as it was.

`EdgeGate_proofs` proves of the gate, for any number of requests and commands and
any limits:

* `TypesCorrect`: `Spec => []EdgeTypeOK`,
* `UnitsExact`: `Spec => []SlotsExact`,
* `OneRow`: `Spec => []AuditedOnce`,
* `SoonCutOff`: `Spec => CutOff`,
* `BannedKeyStaysOut`: `Spec => BannedStaysOut`,
* `NeverOverLimit`: no enrollment's requests hold more units than `MaxInflight`,
* `GateKeepsPromise`: `Spec => ImplementsTurnstile`.

`SlotsExact` is proved by cardinalities: a step of one request changes the set
`Units(u)` by the pairs of that request. `Sound` says what a request at each point
holds, has written and still owes, so that a release or a row is never a second
one. For the registry, `RegistryInv` says that no row that is served (there and not
revoked), in a readable file or in the copy of whoever has the lock, has a banned
key, and that keys are not issued twice; the lock is what keeps a stale copy from
coming back. For the refinement, `Passes` lists what a step can make of one request
(enter, be turned away, drop, forward, go on, answer, break off, free, record); every action
of a request is one of these (`EndsPasses` to `ServesPasses`), each a step or a stutter of
`Turnstile` (`PassStep`), where the sum of the units changes as the request's own do
(`UnitsChange`). Clock, commands, damage and reloads of the registry are stutters
(`BesidePasses`), and a restart is one of its own.

The assumptions are those the modules state on their constants
(`ThresholdAssumption`, `ConfigAssumption`, `SlotsAssumption`,
`RequestAssumption`, `ProcAssumption`, `LedgerAssumption`, `StoreAssumption`,
`GateAssumption`), which TLC evaluates in every run. `ProcAssumption` keeps the
two words of the lease file that are not pids apart from the pids, and says so
by name. `Calm`, `Settled`, `MarksStay`, `TrialsEndFirst` and `OnlyNews` are assumptions of the
theorems above that name them, and of no other.

Model-checked only: the liveness properties `ReadyAgain`, `AdmitsAgain`,
`StopEnds`, `NoGhost` and `GoneEnds`. Liveness under fairness and ENABLED are
out of TLAPS's reach, as are induction over data and RECURSIVE operators. Every
safety property that a passing run checks is a theorem.

## Plan

Done: hydra (health, fleet, proxy) and `Router`; the GPU lease and `Card`; the
session ledger with its runner, reaper and stop, and `Session`; the artifact store
and `Shelf`; the gate with its streams and its registry, and `Turnstile`. Each
implements the abstract module named with it, and that and all other safety
properties are proved.

Left, in order:

1. Island watcher: hysteresis of the offline decision, heartbeat and suspension
   files raced by the CLI.
2. Instinct: the client's breaker, the service's queue, the lifecycle of a
   demotion.
3. `decide()` as an operator over small configurations, checked against its
   documented rules.
4. Jobs: pid files and their reuse.

## Not modelled

Text, HTTP details, logging, metrics, audit rows, configuration parsing, the
clocks themselves, and the components `PROJECT.json` marks so. Most of the
code is of that kind: tools, evals, rendering, language packs and the scripts that
install and start things are text, I/O and subprocesses, with little state that
two actors share, so the modules cover a small share of its lines.

Of hydra: a reload that gives a deployment another family. Of the lease:
`nvidia-smi` (a refusal because of unclaimed memory may always happen), signal
forwarding and the wait for the processes of the command, a machine without
`flock(1)`. Of the ledger: `prune`, malformed or
half-written inbox lines, a lock that cannot be taken, a box without `/proc`,
jobs, and a pause (a paused run reads on). Of the artifact store: a lock file that cannot be opened or
a filesystem without flock, where `_flock_nb` (275-286) goes on with the process's own
mutex alone, `index.jsonl`,
`migrate_legacy_owners`, tags, titles and supporting files, records that are
corrupt or edited by hand, listings and who may view, and the rest of
`artifact_server.py`. Of the gate: the last-seen sidecar, the single flight of
`/gate/health`, `/gate/metrics`, the rewriting of `id_slot` and of headers, what
bodies hold, scopes, labels and slots (a change of scope is a rewrite of the
row), and the metering of usage.
