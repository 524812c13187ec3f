------------------------ MODULE HydraHealth_proofs ------------------------
(***************************************************************************)
(* What the operators of HydraHealth preserve, for every threshold: each   *)
(* maps a health record to a health record, and none but TakeUnit makes a  *)
(* trial slot taken.                                                       *)
(***************************************************************************)
EXTENDS HydraHealth, TLAPS

\* F may free a trial slot and never takes one
KeepsTrial(h, g) == g.trial_inflight = h.trial_inflight \/ g.trial_inflight = 0

\* The ranges of the counters hold their least values.
LEMMA Ranges ==
    /\ 0 \in 0 .. UpAfter
    /\ 0 \in 0 .. DownAfter
    /\ 0 \in 0 .. FailThreshold - 1
    /\ 0 \in 0 .. SuccessThreshold
BY ThresholdAssumption

\* The defaults of a deployment nothing is known about are a health record.
LEMMA FreshType == Fresh \in Health
BY Ranges DEF Fresh, Health, States, BreakerStates

\* A change of state (_set) changes nothing else that is typed here.
LEMMA SetType ==
    ASSUME NEW h \in Health, NEW s \in States
    PROVE  /\ Set(h, s) \in Health
           /\ Set(h, s).trial_inflight = h.trial_inflight
           /\ Set(h, s).breaker = h.breaker
           /\ Set(h, s).half_open_ok = h.half_open_ok
BY DEF Set, Health

\* Capped counting stays in its range.
LEMMA UptoType ==
    ASSUME NEW b \in Nat \ {0}, NEW x \in 0 .. b
    PROVE  Upto(x, b) \in 0 .. b
BY DEF Upto

\* A probe never touches the breaker nor the trial slot.
LEMMA OnProbeType ==
    ASSUME NEW h \in Health, NEW result \in {"ready", "loading", "down"}
    PROVE  /\ OnProbe(h, result) \in Health
           /\ OnProbe(h, result).trial_inflight = h.trial_inflight
           /\ OnProbe(h, result).breaker = h.breaker
           /\ OnProbe(h, result).half_open_ok = h.half_open_ok
<1>1. CASE result = "ready"
  <2> DEFINE g == [h EXCEPT !.ok_streak = Upto(@, UpAfter), !.fail_streak = 0]
  <2>1. Upto(h.ok_streak, UpAfter) \in 0 .. UpAfter
    BY UptoType, ThresholdAssumption DEF Health
  <2>2. /\ g \in Health /\ g.trial_inflight = h.trial_inflight
        /\ g.breaker = h.breaker /\ g.half_open_ok = h.half_open_ok
    BY <2>1, Ranges DEF Health
  <2> HIDE DEF g
  <2>3. "READY" \in States
    BY DEF States
  <2>4. ProbeReady(h) \in {g, Set(g, "READY")}
    BY DEF ProbeReady, g
  <2>5. OnProbe(h, result) = ProbeReady(h)
    BY <1>1 DEF OnProbe
  <2> QED BY <2>2, <2>3, <2>4, <2>5, SetType
<1>2. CASE result = "loading"
  <2> DEFINE g == [h EXCEPT !.ok_streak = 0, !.fail_streak = 0]
  <2>2. /\ g \in Health /\ g.trial_inflight = h.trial_inflight
        /\ g.breaker = h.breaker /\ g.half_open_ok = h.half_open_ok
    BY Ranges DEF Health
  <2> HIDE DEF g
  <2>3. "LOADING" \in States
    BY DEF States
  <2>4. ProbeLoading(h) \in {g, Set(g, "LOADING")}
    BY DEF ProbeLoading, g
  <2>5. OnProbe(h, result) = ProbeLoading(h)
    BY <1>2 DEF OnProbe
  <2> QED BY <2>2, <2>3, <2>4, <2>5, SetType
<1>3. CASE result = "down"
  <2> DEFINE g == [h EXCEPT !.fail_streak = Upto(@, DownAfter), !.ok_streak = 0]
  <2>1. Upto(h.fail_streak, DownAfter) \in 0 .. DownAfter
    BY UptoType, ThresholdAssumption DEF Health
  <2>2. /\ g \in Health /\ g.trial_inflight = h.trial_inflight
        /\ g.breaker = h.breaker /\ g.half_open_ok = h.half_open_ok
    BY <2>1, Ranges DEF Health
  <2> HIDE DEF g
  <2>3. "DOWN" \in States
    BY DEF States
  <2>4. ProbeDown(h) \in {g, Set(g, "DOWN")}
    BY DEF ProbeDown, g
  <2>5. OnProbe(h, result) = ProbeDown(h)
    BY <1>3 DEF OnProbe
  <2> QED BY <2>2, <2>3, <2>4, <2>5, SetType
<1> QED BY <1>1, <1>2, <1>3

\* A models verdict never touches the breaker nor the trial slot.
LEMMA OnModelsType ==
    ASSUME NEW h \in Health, NEW n \in Nodes,
           NEW result \in {"auth", "mismatch", "ok"}
    PROVE  /\ OnModels(h, n, result) \in Health
           /\ OnModels(h, n, result).trial_inflight = h.trial_inflight
           /\ OnModels(h, n, result).breaker = h.breaker
           /\ OnModels(h, n, result).half_open_ok = h.half_open_ok
<1>1. /\ "AUTH_FAILED" \in States /\ "MISMATCH" \in States
      /\ "READY" \in States /\ "UNKNOWN" \in States
  BY DEF States
<1>2. OnModels(h, n, result) \in
          {h, Set(h, "AUTH_FAILED"), Set(h, "MISMATCH"),
           Set(h, "READY"), Set(h, "UNKNOWN")}
  BY DEF OnModels
<1>3. \A s \in States : /\ Set(h, s) \in Health
                        /\ Set(h, s).trial_inflight = h.trial_inflight
                        /\ Set(h, s).breaker = h.breaker
                        /\ Set(h, s).half_open_ok = h.half_open_ok
  BY SetType
<1>4. PICK g : /\ g = OnModels(h, n, result)
               /\ g = h \/ \E s \in States : g = Set(h, s)
  BY <1>1, <1>2
<1> QED BY <1>3, <1>4

\* Reading the breaker can only free the trial slot, and leaves no breaker
\* OPEN whose time has passed.
LEMMA BreakerStateType ==
    ASSUME NEW h \in Health
    PROVE  /\ BreakerState(h) \in Health
           /\ KeepsTrial(h, BreakerState(h))
           /\ BreakerState(BreakerState(h)) = BreakerState(h)
           /\ BreakerState(h).state = h.state
BY Ranges DEF BreakerState, Health, BreakerStates, KeepsTrial

\* Opening resets the failure count.
LEMMA OpenType ==
    ASSUME NEW h \in Health
    PROVE  /\ Open(h) \in Health
           /\ Open(h).trial_inflight = h.trial_inflight
BY Ranges DEF Open, Health, BreakerStates

\* A recorded failure keeps the count below the threshold.
LEMMA RecordFailureType ==
    ASSUME NEW h \in Health
    PROVE  /\ RecordFailure(h) \in Health
           /\ KeepsTrial(h, RecordFailure(h))
<1> DEFINE g == BreakerState(h)
           more == [g EXCEPT !.fails = @ + 1]
<1>1. g \in Health /\ KeepsTrial(h, g)
  BY BreakerStateType
<1> HIDE DEF g
<1>2. CASE g.breaker = "HALF_OPEN" \/ g.fails + 1 >= FailThreshold
  <2>1. RecordFailure(h) = Open(g)
    BY <1>2 DEF RecordFailure, g
  <2> QED BY <1>1, <2>1, OpenType DEF KeepsTrial
<1>3. CASE ~(g.breaker = "HALF_OPEN" \/ g.fails + 1 >= FailThreshold)
  <2>1. RecordFailure(h) = more
    BY <1>3 DEF RecordFailure, g
  <2>2. more \in Health /\ more.trial_inflight = g.trial_inflight
    BY <1>1, <1>3, ThresholdAssumption DEF Health
  <2> QED BY <1>1, <2>1, <2>2 DEF KeepsTrial
<1> QED BY <1>2, <1>3

\* A recorded success keeps the count of won trials within the threshold.
LEMMA RecordSuccessType ==
    ASSUME NEW h \in Health
    PROVE  /\ RecordSuccess(h) \in Health
           /\ KeepsTrial(h, RecordSuccess(h))
<1> DEFINE g == BreakerState(h)
           won == [g EXCEPT !.half_open_ok = Upto(@, SuccessThreshold)]
<1>1. g \in Health /\ KeepsTrial(h, g)
  BY BreakerStateType
<1> HIDE DEF g
<1>2. Upto(g.half_open_ok, SuccessThreshold) \in 0 .. SuccessThreshold
  BY <1>1, UptoType, ThresholdAssumption DEF Health
<1>3. won \in Health /\ won.trial_inflight = g.trial_inflight
  BY <1>1, <1>2 DEF Health
<1>4. RecordSuccess(h) \in
          {[g EXCEPT !.fails = 0], won,
           [won EXCEPT !.breaker = "CLOSED", !.fails = 0]}
  BY DEF RecordSuccess, g
<1> HIDE DEF won
<1>5. /\ [g EXCEPT !.fails = 0] \in Health
      /\ [g EXCEPT !.fails = 0].trial_inflight = g.trial_inflight
  BY <1>1, Ranges DEF Health
<1>6. /\ [won EXCEPT !.breaker = "CLOSED", !.fails = 0] \in Health
      /\ [won EXCEPT !.breaker = "CLOSED", !.fails = 0].trial_inflight
            = won.trial_inflight
  BY <1>3, Ranges DEF Health, BreakerStates
<1> QED BY <1>1, <1>3, <1>4, <1>5, <1>6 DEF KeepsTrial

\* What a request teaches of the node leaves the breaker alone.
LEMMA RequestStateType ==
    ASSUME NEW h \in Health, NEW kind \in {"loading", "auth", "mismatch"}
    PROVE  /\ RequestState(h, kind) \in Health
           /\ KeepsTrial(h, RequestState(h, kind))
<1>1. /\ "AUTH_FAILED" \in States /\ "MISMATCH" \in States
      /\ "LOADING" \in States
  BY DEF States
<1> DEFINE g == Set(h, "LOADING")
<1>2. /\ g \in Health /\ g.trial_inflight = h.trial_inflight
  BY <1>1, SetType
<1>3. RequestState(h, kind) \in
          {[g EXCEPT !.ok_streak = 0], Set(h, "AUTH_FAILED"), Set(h, "MISMATCH")}
  BY DEF RequestState
<1> HIDE DEF g
<1>4. /\ [g EXCEPT !.ok_streak = 0] \in Health
      /\ [g EXCEPT !.ok_streak = 0].trial_inflight = g.trial_inflight
  BY <1>2, Ranges DEF Health
<1>5. \A s \in {"AUTH_FAILED", "MISMATCH"} :
         Set(h, s) \in Health /\ Set(h, s).trial_inflight = h.trial_inflight
  BY <1>1, SetType
<1> QED BY <1>2, <1>3, <1>4, <1>5 DEF KeepsTrial

\* Looking at a deployment is reading its breaker, or nothing.
LEMMA LookedType ==
    ASSUME NEW h \in Health
    PROVE  /\ Looked(h) \in Health
           /\ KeepsTrial(h, Looked(h))
           /\ MayAdmit(h) => MayAdmit(Looked(h))
BY BreakerStateType DEF Looked, KeepsTrial, MayAdmit

\* A unit taken on a vetted deployment keeps at most one trial, and the slot
\* is taken only if the breaker is HALF_OPEN.
LEMMA TakeUnitType ==
    ASSUME NEW h \in Health, MayAdmit(h)
    PROVE  /\ TakeUnit(h) \in Health
           /\ BreakerState(h).breaker # "HALF_OPEN" => KeepsTrial(h, TakeUnit(h))
           /\ TakeUnit(h).state = "READY"
           /\ TakeUnit(h).breaker = BreakerState(h).breaker
           /\ TakeUnit(h).breaker # "OPEN"
<1> DEFINE g == BreakerState(h)
<1>1. g \in Health /\ KeepsTrial(h, g) /\ g.state = "READY" /\ g.breaker # "OPEN"
  BY BreakerStateType DEF MayAdmit
<1>2. g.breaker = "HALF_OPEN" => g.trial_inflight = 0
  BY DEF MayAdmit
<1>3. TakeUnit(h) = IF g.breaker = "HALF_OPEN"
                    THEN [g EXCEPT !.trial_inflight = @ + 1] ELSE g
  BY DEF TakeUnit
<1> HIDE DEF g
<1>4. CASE g.breaker = "HALF_OPEN"
  <2>1. TakeUnit(h) = [g EXCEPT !.trial_inflight = 1]
    BY <1>2, <1>3, <1>4
  <2> QED BY <1>1, <1>4, <2>1 DEF Health, g
<1>5. CASE g.breaker # "HALF_OPEN"
  BY <1>1, <1>3, <1>5 DEF g
<1> QED BY <1>4, <1>5

\* Giving a trial back frees the slot; giving another unit back does not.
LEMMA DropUnitType ==
    ASSUME NEW h \in Health, NEW trial \in BOOLEAN
    PROVE  /\ DropUnit(h, trial) \in Health
           /\ KeepsTrial(h, DropUnit(h, trial))
           /\ trial => DropUnit(h, trial).trial_inflight = 0
BY DEF DropUnit, Less1, Health, KeepsTrial

\* Sending a models check, and its answer, change nothing but what is quiet.
LEMMA QuietType ==
    ASSUME NEW h \in Health, NEW n \in Nodes
    PROVE  /\ MarkSent(h, n) \in Health
           /\ MarkSent(h, n).trial_inflight = h.trial_inflight
           /\ MarkAnswered(h, n) \in Health
           /\ MarkAnswered(h, n).trial_inflight = h.trial_inflight
BY DEF MarkSent, MarkAnswered, Health

\* A unit taken where MayAdmit allowed it leaves a deployment that is READY,
\* not OPEN, and whose trial it is when HALF_OPEN.
LEMMA TakenWhereAllowed ==
    ASSUME NEW h \in Health, MayAdmit(h)
    PROVE  /\ TakeUnit(h).state = "READY"
           /\ TakeUnit(h).breaker # "OPEN"
           /\ TakeUnit(h).breaker = BreakerState(h).breaker
<1> DEFINE g == BreakerState(h)
<1>1. g \in Health /\ g.state = "READY" /\ g.breaker # "OPEN"
  BY BreakerStateType DEF MayAdmit
<1>2. TakeUnit(h) = g \/ TakeUnit(h) = [g EXCEPT !.trial_inflight = @ + 1]
  BY DEF TakeUnit
<1> HIDE DEF g
<1> QED BY <1>1, <1>2 DEF Health, g

-----------------------------------------------------------------------------
(***************************************************************************)
(* What gives nothing: a change that neither closes a breaker, nor counts  *)
(* a success towards it, nor makes a deployment READY; and what a success  *)
(* may change.                                                             *)
(***************************************************************************)
Gives(h, g) ==
    /\ g.breaker = "CLOSED" => h.breaker = "CLOSED"
    /\ g.state = "READY" => h.state = "READY"
    /\ g.breaker = "HALF_OPEN" =>
          \/ g.half_open_ok = 0
          \/ h.breaker = "HALF_OPEN" /\ g.half_open_ok = h.half_open_ok

\* The successes of the HALF_OPEN breaker, none of any other
Counted(h) == IF h.breaker = "HALF_OPEN" THEN h.half_open_ok ELSE 0

\* One success more is counted; the breaker closes if it was the last needed
Wins(h, g) ==
    /\ g.breaker = "HALF_OPEN" =>
          h.breaker # "CLOSED" /\ g.half_open_ok <= Counted(h) + 1
    /\ g.breaker = "CLOSED" =>
          h.breaker = "CLOSED" \/ Counted(h) + 1 >= SuccessThreshold

\* Whatever a request does but succeed gives nothing, nor does reading a
\* breaker.
LEMMA GivesNothing ==
    ASSUME NEW h \in Health
    PROVE  /\ Gives(h, h) /\ Gives(h, BreakerState(h)) /\ Gives(h, Looked(h))
           /\ Gives(h, TakeUnit(h)) /\ Gives(h, RecordFailure(h))
           /\ \A trial \in BOOLEAN : Gives(h, DropUnit(h, trial))
           /\ \A kind \in {"loading", "auth", "mismatch"} :
                 Gives(h, RequestState(h, kind))
<1>1. BreakerState(h) \in Health /\ Gives(h, BreakerState(h)) /\ Gives(h, h)
  BY BreakerStateType DEF BreakerState, Gives, Health
<1>2. Gives(h, Looked(h))
  BY <1>1 DEF Looked, Gives
<1> DEFINE g == BreakerState(h)
<1> HIDE DEF g
<1>3. g \in Health /\ Gives(h, g)
  BY <1>1 DEF g
<1>4. Gives(h, TakeUnit(h))
  <2>1. TakeUnit(h) = g \/ TakeUnit(h) = [g EXCEPT !.trial_inflight = @ + 1]
    BY DEF TakeUnit, g
  <2> QED BY <1>3, <2>1 DEF Gives, Health
<1>5. \A trial \in BOOLEAN : Gives(h, DropUnit(h, trial))
  BY DEF DropUnit, Gives, Health
<1>6. Gives(h, RecordFailure(h))
  <2>1. RecordFailure(h) = Open(g) \/ RecordFailure(h) = [g EXCEPT !.fails = @ + 1]
    BY DEF RecordFailure, g
  <2>2. Open(g).breaker = "OPEN" /\ Open(g).state = g.state
    BY <1>3 DEF Open, Health
  <2> QED BY <1>3, <2>1, <2>2 DEF Gives, Health
<1>7. \A kind \in {"loading", "auth", "mismatch"} : Gives(h, RequestState(h, kind))
  BY DEF RequestState, Set, Gives, Health
<1> QED BY <1>1, <1>2, <1>4, <1>5, <1>6, <1>7

\* A success counts one towards closing the breaker, closes it when enough
\* are counted, and does nothing to the state.
LEMMA SuccessWins ==
    ASSUME NEW h \in Health
    PROVE  RecordSuccess(h).state = h.state /\ Wins(h, RecordSuccess(h))
<1> DEFINE g == BreakerState(h)
           won == [g EXCEPT !.half_open_ok = Upto(@, SuccessThreshold)]
           shut == [won EXCEPT !.breaker = "CLOSED", !.fails = 0]
<1>1. g \in Health /\ g.state = h.state
  BY BreakerStateType
<1>2. /\ g.breaker = "CLOSED" => h.breaker = "CLOSED"
      /\ g.breaker = "HALF_OPEN" =>
            h.breaker # "CLOSED" /\ g.half_open_ok = Counted(h)
  BY DEF BreakerState, Counted, Health
<1>3. RecordSuccess(h) = IF g.breaker # "HALF_OPEN" THEN [g EXCEPT !.fails = 0]
                         ELSE IF won.half_open_ok = SuccessThreshold THEN shut ELSE won
  BY DEF RecordSuccess
<1> HIDE DEF g
<1>4. CASE g.breaker # "HALF_OPEN"
  BY <1>1, <1>2, <1>3, <1>4 DEF Wins, Health
<1>5. CASE g.breaker = "HALF_OPEN"
  <2>1. /\ Counted(h) \in Nat /\ SuccessThreshold \in Nat
        /\ Counted(h) <= SuccessThreshold
    BY <1>1, <1>2, <1>5, ThresholdAssumption DEF Health
  <2>2. won.half_open_ok = Upto(Counted(h), SuccessThreshold)
    BY <1>1, <1>2, <1>5 DEF Health
  <2>3. /\ won.half_open_ok <= Counted(h) + 1
        /\ won.half_open_ok = SuccessThreshold => Counted(h) + 1 >= SuccessThreshold
    BY <2>1, <2>2 DEF Upto
  <2>4. /\ won.state = g.state /\ won.breaker = "HALF_OPEN"
        /\ shut.state = g.state /\ shut.breaker = "CLOSED"
    BY <1>1, <1>5 DEF Health
  <2> HIDE DEF won, shut
  <2> QED BY <1>1, <1>2, <1>3, <1>5, <2>3, <2>4 DEF Wins
<1> QED BY <1>4, <1>5

\* A readiness probe makes no refused deployment READY.
LEMMA ProbeForgivesNothing ==
    ASSUME NEW h \in Health, NEW result \in {"ready", "loading", "down"},
           h.state \in Refused
    PROVE  OnProbe(h, result).state = h.state
<1>1. h.state \notin {"LOADING", "UNKNOWN", "DOWN", "READY"}
  BY DEF Refused
<1>2. CASE result = "ready"
  <2>1. OnProbe(h, result) =
            [h EXCEPT !.ok_streak = Upto(@, UpAfter), !.fail_streak = 0]
    BY <1>1, <1>2 DEF OnProbe, ProbeReady
  <2> QED BY <2>1 DEF Health
<1>3. CASE result = "loading"
  <2>1. OnProbe(h, result) = [h EXCEPT !.ok_streak = 0, !.fail_streak = 0]
    BY <1>3 DEF OnProbe, ProbeLoading
  <2> QED BY <2>1 DEF Health
<1>4. CASE result = "down"
  <2>1. OnProbe(h, result) =
            [h EXCEPT !.fail_streak = Upto(@, DownAfter), !.ok_streak = 0]
    BY <1>1, <1>4 DEF OnProbe, ProbeDown
  <2> QED BY <2>1 DEF Health
<1> QED BY <1>2, <1>3, <1>4
=============================================================================
