------------------------------- MODULE EdgeGate -------------------------------
(***************************************************************************)
(* The gate in front of the model server (agents/edge.py), the registry of *)
(* devices it reads, and the commands that write the registry              *)
(* (scripts/clients.sh).  One device id: it can be enrolled, given another *)
(* key, revoked, removed and enrolled anew.                                *)
(*                                                                         *)
(* A request is a coroutine: each action here is what it does between two  *)
(* awaits.  It is admitted and takes a unit of its enrollment's bucket     *)
(* before it reads its body, and gives its units back on every way out;    *)
(* after the headers two closers may do so, the stream's finally clause    *)
(* and the background task of the response.                                *)
(*                                                                         *)
(* Time passes in intervals of _REAUTH_INTERVAL_S.  Tokens are counted     *)
(* whole: the code compares them with whole numbers only.                  *)
(***************************************************************************)
EXTENDS Naturals, FiniteSets

CONSTANTS Requests, Writers,    \* requests; runs of clients.sh
          AllowAnon,            \* EDGE_ALLOW_ANON
          MaxInflight,          \* EDGE_MAX_INFLIGHT
          Rates, DefaultRate,   \* rate limits of devices; EDGE_RATE_LIMIT
          MaxKeys,              \* bound: keys that are issued
          MaxChunks,            \* bound: a generation is finite
          Menus                 \* bound: what happens in one behaviour

Ops == {"enroll", "rotate", "scope", "revoke", "unrevoke", "remove"}
Faults == {"damage", "unlink", "restart", "cancel"}

ASSUME GateAssumption ==
    /\ IsFiniteSet(Requests) /\ "free" \notin Writers
    /\ AllowAnon \in BOOLEAN /\ MaxInflight \in Nat \ {0}
    /\ Rates \subseteq Nat \ {0} /\ DefaultRate \in Rates
    /\ MaxKeys \in Nat \ {0} /\ MaxChunks \in Nat
    /\ Menus \subseteq [requests : SUBSET Requests, asked : SUBSET (Nat \ {0}),
                        rates : SUBSET Rates, ops : SUBSET Ops,
                        faults : SUBSET Faults, changes : Nat]

VARIABLES
    file,      \* clients.json
    flocked,   \* who holds clients.json.lock
    cli,       \* each run of clients.sh
    keys,      \* keys issued so far
    reg,       \* the gate's Registry
    bucket,    \* the gate's Limiter: enrollment -> Bucket
    req,       \* each request
    banned,    \* history: keys that an operator has taken away
    menu, changes   \* for the bounds

registryVars == <<file, flocked, cli, keys, banned, changes>>
vars == <<registryVars, reg, bucket, req, menu>>

Keys == 1 .. MaxKeys
NoKey == 0
Anon == MaxKeys + 1               \* the device of callers without a registry
Uids == 1 .. MaxKeys + 1          \* device_uid: an enrollment has the number
                                  \* of its first key
NoRow == [uid |-> 0, key |-> NoKey, revoked |-> FALSE, rate |-> DefaultRate]
Rows == [uid : Keys, key : Keys, revoked : BOOLEAN, rate : Rates]
Absent == [at |-> "absent", row |-> NoRow]
Bad == [at |-> "bad", row |-> NoRow]
Good(row) == [at |-> "good", row |-> row]
Free == "free"
NoBucket == [cap |-> 0, tokens |-> 0, inflight |-> 0]
Fresh == [present |-> FALSE, exists |-> FALSE, row |-> NoRow]
Over == [at |-> "over", key |-> NoKey, uid |-> Anon, held |-> 0, done |-> TRUE,
         age |-> 0, lapsed |-> 0, chunks |-> 0, sent |-> FALSE,
         finally |-> "none", sweep |-> "none", cause |-> "none", rows |-> 0,
         told |-> "none", left |-> FALSE]
IdleCli == [at |-> "idle", op |-> "none", key |-> NoKey, copy |-> NoRow,
            rate |-> DefaultRate]

-----------------------------------------------------------------------------
\* The registry as the gate reads it

\* A file that cannot be read leaves the last good copy
Reload(g, f) ==
    CASE f.at = "absent" -> Fresh
      [] f.at = "bad" -> [g EXCEPT !.exists = TRUE]
      [] f.at = "good" -> [present |-> TRUE, exists |-> TRUE, row |-> f.row]

Configured(g) == g.present /\ g.row # NoRow

Refused == 0
\* Mutant: a registry without devices is none
IdentifyConfigured(g, key) ==
    CASE Configured(g) /\ key = g.row.key /\ ~g.row.revoked -> g.row.uid
      [] ~Configured(g) /\ AllowAnon -> Anon
      [] OTHER -> Refused
\* The enrollment a key stands for, or Refused
Identify(g, key) ==
    CASE Configured(g) /\ key = g.row.key /\ ~g.row.revoked -> g.row.uid
      [] ~Configured(g) /\ ~g.exists /\ AllowAnon -> Anon
      [] OTHER -> Refused

Read == Reload(reg, file)
StillEnrolled(r) == Identify(Read, req[r].key) = req[r].uid

Init ==
    /\ menu \in Menus /\ changes = 0
    /\ file \in {Absent} \cup
          {Good([uid |-> 1, key |-> 1, revoked |-> FALSE, rate |-> c]) : c \in menu.rates}
    /\ keys = file.row.key
    /\ flocked = Free /\ cli = [w \in Writers |-> IdleCli]
    /\ reg = Reload(Fresh, file)
    /\ bucket = [u \in Uids |-> NoBucket]
    /\ req = [r \in Requests |-> Over]
    /\ banned = {}

-----------------------------------------------------------------------------
\* clients.sh: load, change, save under the lock of the registry

Change == changes < menu.changes /\ changes' = changes + 1

\* What is looked at before the lock
Precheck(op) == op # "enroll" => file.at # "absent"
                              /\ (op = "rotate" => file.row # NoRow)

CliAsk(w, op) ==
    /\ cli[w].at = "idle" /\ op \in menu.ops /\ Precheck(op) /\ Change
    /\ cli' = [cli EXCEPT ![w] = [IdleCli EXCEPT !.at = "asked", !.op = op]]
    /\ UNCHANGED <<file, flocked, keys, banned, reg, bucket, req>>

\* ... and with a new key, and a rate limit
CliAskKey(w, op) ==
    /\ cli[w].at = "idle" /\ op \in menu.ops /\ Precheck(op) /\ Change
    /\ keys < MaxKeys /\ keys' = keys + 1
    /\ \E c \in menu.rates :
          cli' = [cli EXCEPT ![w] = [IdleCli EXCEPT !.at = "asked", !.op = op,
                                                    !.key = keys + 1, !.rate = c]]
    /\ UNCHANGED <<file, flocked, banned, reg, bucket, req>>

LoadDoc(w) == cli' = [cli EXCEPT ![w].at = "loaded", ![w].copy = file.row]
\* Mutant: the commands are not serialized
CliLoadUnlocked(w) ==
    /\ cli[w].at = "asked" /\ file.at # "bad"
    /\ flocked' = w /\ LoadDoc(w)
    /\ UNCHANGED <<file, keys, banned, changes, reg, bucket, req>>
CliLoad(w) ==
    /\ cli[w].at = "asked" /\ flocked = Free /\ file.at # "bad"
    /\ flocked' = w /\ LoadDoc(w)
    /\ UNCHANGED <<file, keys, banned, changes, reg, bucket, req>>

\* The row that the command leaves; a rotate that finds no row enrolls one
Applied(c) ==
    CASE c.op \in {"enroll", "rotate"} /\ c.copy = NoRow ->
              [uid |-> c.key, key |-> c.key, revoked |-> FALSE, rate |-> c.rate]
      [] c.op = "rotate" /\ c.copy # NoRow ->
              [c.copy EXCEPT !.key = c.key, !.rate = c.rate]
      [] c.op = "scope" -> c.copy                 \* grants are not modelled
      [] c.op = "revoke" -> [c.copy EXCEPT !.revoked = TRUE]
      [] c.op = "unrevoke" -> [c.copy EXCEPT !.revoked = FALSE]
      [] c.op = "remove" -> NoRow
Applies(c) == CASE c.op = "enroll" -> c.copy = NoRow
                [] c.op = "rotate" -> TRUE
                [] c.op = "revoke" -> c.copy # NoRow /\ ~c.copy.revoked
                [] c.op = "unrevoke" -> c.copy # NoRow /\ c.copy.revoked
                [] c.op \in {"scope", "remove"} -> c.copy # NoRow
\* The key that the command takes away, or gives back
TakenAway(c) == IF c.op \in {"rotate", "revoke", "remove"} /\ c.copy # NoRow
                THEN {c.copy.key} ELSE {}
GivenBack(c) == IF c.op = "unrevoke" THEN {c.copy.key} ELSE {}

CliSave(w) ==                                     \* os.replace
    /\ cli[w].at = "loaded" /\ Applies(cli[w])
    /\ file' = Good(Applied(cli[w]))
    /\ banned' = (banned \cup TakenAway(cli[w])) \ GivenBack(cli[w])
    /\ cli' = [cli EXCEPT ![w] = IdleCli] /\ flocked' = Free
    /\ UNCHANGED <<keys, changes, reg, bucket, req>>

\* Nothing to do, a full disk, an unreadable registry, a kill
CliFails(w) ==
    /\ cli[w].at # "idle"
    /\ cli' = [cli EXCEPT ![w] = IdleCli]
    /\ flocked' = IF flocked = w THEN Free ELSE flocked
    /\ UNCHANGED <<file, keys, banned, changes, reg, bucket, req>>

\* A disk or a hand leaves something else there, or nothing
Damage ==
    /\ \/ "damage" \in menu.faults /\ file' = Bad /\ file.at # "absent"
       \/ "unlink" \in menu.faults /\ file' = Absent
    /\ file' # file /\ Change
    /\ UNCHANGED <<flocked, cli, keys, banned, reg, bucket, req>>

-----------------------------------------------------------------------------
\* Buckets

RateOf(g, u) == IF u = Anon THEN DefaultRate ELSE g.row.rate
AtMost(a, b) == IF a < b THEN a ELSE b

\* Limiter.bucket: made on first contact, retuned live
Tuned(b, rate) ==
    IF b = NoBucket THEN [cap |-> rate, tokens |-> rate, inflight |-> 0]
    ELSE [b EXCEPT !.cap = rate, !.tokens = AtMost(@, rate)]

\* Mutant: the two limits are looked at, the units are not counted
MayReserveNoCap(b, n) == b.tokens >= n
MayReserve(b, n) == b.tokens >= n /\ b.inflight + n <= MaxInflight
Reserved(b, n) == [b EXCEPT !.tokens = @ - n, !.inflight = @ + n]
Released(b, n) == [b EXCEPT !.inflight = IF @ < n THEN 0 ELSE @ - n]

Refill(u) ==
    /\ bucket[u].tokens < bucket[u].cap
    /\ bucket' = [bucket EXCEPT ![u].tokens = @ + 1]
    /\ UNCHANGED <<registryVars, reg, req>>

-----------------------------------------------------------------------------
\* A request, to the headers of its answer

Is(r, at) == req[r].at = at
Goes(r, q) == req' = [req EXCEPT ![r] = q]

\* What is kept of a request that is over: that it was forwarded, and its row
Finished(q) == [Over EXCEPT !.sent = q.sent, !.cause = q.cause, !.rows = q.rows,
                            !.told = q.told]

\* _release and one row, with nothing between them: the request is over
Ends(r, rows, cause) ==
    /\ bucket' = [bucket EXCEPT ![req[r].uid] = Released(@, req[r].held)]
    /\ Goes(r, Finished([req[r] EXCEPT !.rows = rows, !.cause = cause,
                                       !.told = cause]))

Arrive(r) ==
    /\ Is(r, "over") /\ r \in menu.requests
    /\ reg' = Read
    /\ \E key \in {NoKey} \cup 1 .. keys :
         LET u == Identify(reg', key)
             b == Tuned(bucket[u], RateOf(reg', u))
         IN /\ u # Refused
            /\ IF MayReserve(b, 1)
               THEN /\ bucket' = [bucket EXCEPT ![u] = Reserved(b, 1)]
                    /\ Goes(r, [Over EXCEPT !.at = "body", !.key = key, !.uid = u,
                                            !.held = 1, !.done = FALSE])
               ELSE /\ bucket' = [bucket EXCEPT ![u] = b]              \* 429
                    /\ Goes(r, [Over EXCEPT !.cause = "refused", !.rows = 1,
                                            !.told = "refused"])
    /\ UNCHANGED registryVars

Unauthorized(r) ==                                \* 401
    /\ Is(r, "over") /\ r \in menu.requests
    /\ reg' = Read /\ reg' # reg
    /\ \E key \in {NoKey} \cup 1 .. keys : Identify(reg', key) = Refused
    /\ UNCHANGED <<registryVars, bucket, req>>

\* The client closes its connection; whoever waits for it finds out by itself
Hangs(r) ==
    /\ req[r].at \in {"body", "sent", "ready", "relay"} /\ ~req[r].left
    /\ Goes(r, [req[r] EXCEPT !.left = TRUE])
    /\ UNCHANGED <<registryVars, reg, bucket>>

\* Too large a body, or a client that is gone while it is read: no row
BodyEnds(r) ==
    /\ Is(r, "body")
    /\ Ends(r, 0, "none")
    /\ UNCHANGED <<registryVars, reg>>

BadBody(r) ==                                     \* 400
    /\ Is(r, "body")
    /\ Ends(r, 1, "bad_request")
    /\ UNCHANGED <<registryVars, reg>>

\* A list of prompts times the choices that are asked of each
Generations(inputs, n) == inputs * n

BodyArrives(r) ==
    /\ Is(r, "body")
    /\ \E inputs, n \in menu.asked :
         LET gens == Generations(inputs, n)
             more == gens - 1
             b == bucket[req[r].uid]
         IN CASE gens > MaxInflight -> Ends(r, 1, "fanout")
              [] gens <= MaxInflight /\ more > 0 /\ ~MayReserve(b, more) ->
                    Ends(r, 1, "refused")
              [] OTHER ->
                    /\ bucket' = [bucket EXCEPT ![req[r].uid] = Reserved(b, more)]
                    /\ Goes(r, [req[r] EXCEPT !.at = "sent", !.sent = TRUE,
                                   !.held = gens, !.age = 0, !.lapsed = 0])
    /\ UNCHANGED <<registryVars, reg>>

Due(r) == req[r].age = 1

\* While nothing has come back: the poll for a client that has gone, and the
\* proof that the device is still enrolled
Recheck(r) ==
    /\ Is(r, "sent") /\ Due(r)
    /\ reg' = Read
    /\ IF StillEnrolled(r)
       THEN /\ Goes(r, [req[r] EXCEPT !.age = 0, !.lapsed = 0])
            /\ UNCHANGED bucket
       ELSE Ends(r, 1, "revoked")
    /\ UNCHANGED registryVars

\* Mutant: nobody looks whether the client is there (as it once was)
NoPoll(r) == FALSE
GoneWaiting(r) ==                                 \* 499
    /\ Is(r, "sent") /\ req[r].left
    /\ Ends(r, 1, "client_disconnect")
    /\ UNCHANGED <<registryVars, reg>>

\* The deadlines to connect and to read: 502, 504.  There is none to write the
\* body or to get a connection, so this may never come
TimesOut(r) ==
    /\ Is(r, "sent")
    /\ Ends(r, 1, "upstream_timeout")
    /\ UNCHANGED <<registryVars, reg>>

\* Any other exception of the wait, or the cancellation of its task when the
\* server goes down: released, raised again, and no row
Cancelled(r) ==
    /\ Is(r, "sent") /\ "cancel" \in menu.faults /\ Change
    /\ Ends(r, 0, "cancelled")
    /\ UNCHANGED <<file, flocked, cli, keys, banned, reg>>

Headers(r) ==
    /\ Is(r, "sent")
    /\ Goes(r, [req[r] EXCEPT !.at = "ready"])
    /\ UNCHANGED <<registryVars, reg, bucket>>

-----------------------------------------------------------------------------
\* The answer

\* _release: the first of the closers gives the units back
\* Mutant: each of them does
GivesBackAlways(r) ==
    bucket' = [bucket EXCEPT ![req[r].uid] = Released(@, req[r].held)]
GivesBack(r) ==
    bucket' = IF req[r].done THEN bucket
              ELSE [bucket EXCEPT ![req[r].uid] = Released(@, req[r].held)]

StartRelay(r) ==                                  \* body_iter begins
    /\ Is(r, "ready")
    /\ Goes(r, [req[r] EXCEPT !.at = "relay", !.age = 0])
    /\ UNCHANGED <<registryVars, reg, bucket>>

\* The loop of body_iter is left: its finally releases, then closes
Leaves(r, cause, sweep) ==
    /\ GivesBack(r)
    /\ Goes(r, [req[r] EXCEPT !.at = "ending", !.done = TRUE, !.cause = cause,
                              !.finally = "closing", !.sweep = sweep, !.left = FALSE])

\* Mutant: what is open stays open
ChunkUnchecked(r) ==
    /\ Is(r, "relay") /\ req[r].chunks < MaxChunks
    /\ Goes(r, [req[r] EXCEPT !.chunks = @ + 1])
    /\ UNCHANGED <<registryVars, reg, bucket>>
Chunk(r) ==
    /\ Is(r, "relay") /\ req[r].chunks < MaxChunks
    /\ IF ~Due(r)
       THEN /\ Goes(r, [req[r] EXCEPT !.chunks = @ + 1])
            /\ UNCHANGED <<reg, bucket>>
       ELSE /\ reg' = Read
            /\ IF StillEnrolled(r)
               THEN /\ Goes(r, [req[r] EXCEPT !.chunks = @ + 1, !.age = 0, !.lapsed = 0])
                    /\ UNCHANGED bucket
               ELSE Leaves(r, "revoked", "next")
    /\ UNCHANGED registryVars

Completes(r) ==
    /\ Is(r, "relay")
    /\ Leaves(r, "ok", "next")
    /\ UNCHANGED <<registryVars, reg>>

\* The stream breaks off: the exception leaves the response, no background
StreamFails(r) ==
    /\ Is(r, "relay")
    /\ \E cause \in {"upstream_timeout", "upstream_error"} : Leaves(r, cause, "none")
    /\ UNCHANGED <<registryVars, reg>>

\* The server hears that the client is gone: before the stream began, while it
\* waits for a chunk, or while a chunk is sent.  In the last case the finally
\* clause runs when the generator is collected, whenever that is
GoneStreaming(r) ==
    /\ req[r].left
    /\ \/ /\ Is(r, "ready")
          /\ Goes(r, [req[r] EXCEPT !.at = "ending", !.cause = "client_disconnect",
                                    !.sweep = "due", !.left = FALSE])
          /\ UNCHANGED bucket
       \/ Is(r, "relay") /\ Leaves(r, "client_disconnect", "next")
       \/ /\ Is(r, "relay") /\ req[r].chunks > 0
          /\ Goes(r, [req[r] EXCEPT !.at = "ending", !.cause = "client_disconnect",
                                    !.finally = "due", !.sweep = "due", !.left = FALSE])
          /\ UNCHANGED bucket
    /\ UNCHANGED <<registryVars, reg>>

FinallyStarts(r) ==
    /\ Is(r, "ending") /\ req[r].finally = "due"
    /\ GivesBack(r)
    /\ Goes(r, [req[r] EXCEPT !.finally = "closing", !.done = TRUE])
    /\ UNCHANGED <<registryVars, reg>>
SweepStarts(r) ==
    /\ Is(r, "ending") /\ req[r].sweep = "due"
    /\ GivesBack(r)
    /\ Goes(r, [req[r] EXCEPT !.sweep = "closing", !.done = TRUE])
    /\ UNCHANGED <<registryVars, reg>>

\* _audit_reply, once the upstream is closed: the first closer writes the row
\* Mutant: each of them does
AuditedAlways(q, cause) == [q EXCEPT !.rows = @ + 1, !.told = cause]
Audited(q, cause) ==
    IF q.rows > 0 THEN q ELSE [q EXCEPT !.rows = 1, !.told = cause]

Closing == {"next", "due", "closing"}
Settled(q) == IF q.finally \in Closing \/ q.sweep \in Closing THEN q ELSE Finished(q)

FinallyCloses(r) ==
    /\ Is(r, "ending") /\ req[r].finally = "closing"
    /\ Goes(r, Settled([Audited(req[r], req[r].cause) EXCEPT !.finally = "done",
                            !.sweep = IF @ = "next" THEN "due" ELSE @]))
    /\ UNCHANGED <<registryVars, reg, bucket>>
SweepCloses(r) ==
    /\ Is(r, "ending") /\ req[r].sweep = "closing"
    /\ Goes(r, Settled([Audited(req[r], "client_disconnect") EXCEPT !.sweep = "done"]))
    /\ UNCHANGED <<registryVars, reg, bucket>>

-----------------------------------------------------------------------------
\* An interval passes.  A wait is polled several times in each, and a stream
\* starts at once; lapsed counts the intervals that found the device gone since
\* it was forwarded or proved.  Bound: only where a device can be cut off
Tick ==
    /\ menu.ops # {}
    /\ \A r \in Requests : ~Is(r, "ready") /\ ~(Is(r, "sent") /\ Due(r))
    /\ req' = [r \in Requests |->
         IF req[r].at \notin {"sent", "relay"} THEN req[r]
         ELSE [req[r] EXCEPT !.age = 1,
                  !.lapsed = IF StillEnrolled(r) \/ @ = 2 THEN @ ELSE @ + 1]]
    /\ req' # req
    /\ UNCHANGED <<registryVars, reg, bucket>>

Restart ==
    /\ "restart" \in menu.faults /\ Change
    /\ reg' = Reload(Fresh, file)
    /\ bucket' = [u \in Uids |-> NoBucket]
    /\ req' = [r \in Requests |-> Over]
    /\ UNCHANGED <<file, flocked, cli, keys, banned>>

-----------------------------------------------------------------------------
Waits(r) == \/ Recheck(r) \/ GoneWaiting(r) \/ TimesOut(r) \/ Cancelled(r)
            \/ Headers(r)
Reads(r) == BodyEnds(r) \/ BadBody(r) \/ BodyArrives(r)
Streams(r) == \/ StartRelay(r) \/ Chunk(r) \/ Completes(r) \/ StreamFails(r)
              \/ GoneStreaming(r)
Closes(r) == \/ FinallyStarts(r) \/ SweepStarts(r)
             \/ FinallyCloses(r) \/ SweepCloses(r)
Serves(r) == \/ Arrive(r) \/ Unauthorized(r) \/ Hangs(r) \/ Reads(r) \/ Waits(r)
             \/ Streams(r) \/ Closes(r)
WithKey == {"enroll", "rotate"}
Operates(w) == \/ \E op \in Ops \ WithKey : CliAsk(w, op)
               \/ \E op \in WithKey : CliAskKey(w, op)
               \/ CliLoad(w) \/ CliSave(w) \/ CliFails(w)

Next == /\ \/ \E r \in Requests : Serves(r)
           \/ \E w \in Writers : Operates(w)
           \/ \E u \in Uids : Refill(u)
           \/ Damage \/ Tick \/ Restart
        /\ UNCHANGED menu

Spec == Init /\ [][Next]_vars

\* What notices a client that is gone: the read of its body, the poll of the
\* wait and the listener of the stream; and the closers run.  No engine and no
\* client that is still there owes a step
Fairness == \A r \in Requests :
    /\ WF_vars(req[r].left /\ Reads(r) /\ UNCHANGED menu)
    /\ WF_vars(GoneWaiting(r) /\ UNCHANGED menu)
    /\ WF_vars(GoneStreaming(r) /\ UNCHANGED menu)
    /\ WF_vars(Closes(r) /\ UNCHANGED menu)
FairSpec == Spec /\ Fairness

-----------------------------------------------------------------------------
Causes == {"none", "bad_request", "fanout", "refused", "revoked", "ok",
           "client_disconnect", "upstream_timeout", "upstream_error", "cancelled"}
Closer == {"none", "next", "due", "closing", "done"}
Files == [at : {"absent", "bad", "good"}, row : Rows \cup {NoRow}]
Registries == [present : BOOLEAN, exists : BOOLEAN, row : Rows \cup {NoRow}]
Commands == [at : {"idle", "asked", "loaded"}, op : Ops \cup {"none"},
             key : Keys \cup {NoKey}, copy : Rows \cup {NoRow}, rate : Rates]
Buckets == {b \in [cap : Rates \cup {0}, tokens : Nat, inflight : 0 .. MaxInflight] :
               b.tokens <= b.cap}
States == [at : {"over", "body", "sent", "ready", "relay", "ending"},
           key : Keys \cup {NoKey}, uid : Uids, held : 0 .. MaxInflight,
           done : BOOLEAN, age : {0, 1}, lapsed : 0 .. 2, chunks : 0 .. MaxChunks,
           sent : BOOLEAN, finally : Closer, sweep : Closer, cause : Causes,
           rows : 0 .. 2, told : Causes, left : BOOLEAN]

\* What the registry, a bucket and a request may be; no bucket is ever
\* overdrawn or over its limits (reserve, reserve_more, release, retune)
EdgeTypeOK ==
    /\ file \in Files /\ flocked \in Writers \cup {Free}
    /\ cli \in [Writers -> Commands]
    /\ keys \in 0 .. MaxKeys /\ banned \subseteq Keys
    /\ reg \in Registries /\ bucket \in [Uids -> Buckets]
    /\ req \in [Requests -> States]
    /\ menu \in Menus /\ changes \in Nat

\* The units of an enrollment that requests hold, counted one by one
Units(u) == {x \in Requests \X (1 .. MaxInflight) :
                req[x[1]].uid = u /\ ~req[x[1]].done /\ x[2] <= req[x[1]].held}
\* What a bucket counts as in flight is what its requests hold: no way out of
\* a request leaks a unit, and none gives back another's (gate, body_iter,
\* _sweep; release() would hide it)
SlotsExact == \A u \in Uids : bucket[u].inflight = Cardinality(Units(u))

\* Every request that was forwarded has one row in the audit when it is over,
\* and the row says how it ended, whichever closer wrote it (_audit_reply); but
\* a wait that was broken off by an error of its own leaves none
AuditedOnce ==
    \A r \in Requests :
        /\ req[r].rows <= 1
        /\ Is(r, "over") /\ req[r].sent /\ req[r].cause # "cancelled"
              => req[r].rows = 1 /\ req[r].told = req[r].cause

\* The requests and buckets keep the promise of Turnstile: units are taken in
\* one step and given back in one, before the row is written, by whichever
\* closer is first; the limit holds at every moment, across retunes and
\* restarts; nothing that was forwarded is over with a unit, or without a row
\* unless its wait was broken off
Stage(q) == CASE q.at = "over" -> IF q.cause = "cancelled" THEN "broken" ELSE "out"
              [] q.at = "body" -> "in"
              [] q.at \in {"sent", "ready", "relay"} -> "through"
              [] q.at = "ending" -> "closing"
Holds(q, u) == IF q.uid = u /\ ~q.done THEN q.held ELSE 0
Promised == INSTANCE Turnstile WITH
    Enrollments <- Uids, Limit <- MaxInflight,
    at <- [r \in Requests |-> Stage(req[r])],
    units <- [r \in Requests |-> [u \in Uids |-> Holds(req[r], u)]],
    rows <- [r \in Requests |-> req[r].rows],
    used <- [u \in Uids |-> bucket[u].inflight]
ImplementsTurnstile == Promised!Spec

\* A device that was cut off gets nothing when two intervals have passed since
\* then or since it was forwarded: a stream that is open is cut, as
\* BEAST_SLOT.md:513 says, and does not run to its end, as :333 says; two,
\* since the relay begins its own interval (_send_watched, body_iter)
CutOff ==
    [][\A r \in Requests : req'[r].chunks > req[r].chunks => req'[r].lapsed < 2]_vars

\* No key that an operator took away is let in while the registry can be read,
\* and nobody without one while there is a registry, readable or not: not after
\* overlapping commands, damage, or a restart (clients.sh, reload, _identify)
BannedStaysOut ==
    [][\A r \in Requests :
         Is(r, "over") /\ req'[r].at = "body" =>
            /\ file.at = "good" => req'[r].key \notin banned
            /\ file.at # "absent" => req'[r].uid # Anon]_vars

\* A client that hangs up gets its units back, wherever its request is: while
\* its body is read, while the engine has not answered and may never, with the
\* headers there and the stream not begun, or in the middle of it
\* (_send_watched, body_iter, _sweep)
GoneEnds == \A r \in Requests : req[r].left ~> Is(r, "over")
=============================================================================
