------------------------------ MODULE LoopCycle ------------------------------
(***************************************************************************)
(* One cycle of the three loops: LoopRuntimeCoordinator.run_cycle          *)
(* (app/services/loop_runtime.py) with LoopBRunner, MarketSchedule,        *)
(* TimeSyncService, LoopCMaintainer and the post-market backfill, run by   *)
(* LoopBackgroundRunner's task and by the requests that run a cycle        *)
(* themselves.  Loop A is an await here; TradingLoop opens it.  One action *)
(* runs from an await to the next.                                         *)
(*                                                                         *)
(* Times are minutes since a midnight, server clock; aligned is the        *)
(* broker's time as TimeSyncService estimates it.                          *)
(***************************************************************************)
EXTENDS Integers, FiniteSets

CONSTANTS
    Background,   \* the task of LoopBackgroundRunner
    Requests,     \* requests that call run_cycle
    Tickers,      \* what tickers_provider returns, sorted: codes as numbers
    Offsets,      \* broker time minus server time, as get_server_time shows it
    StartTime,    \* when the program starts
    MaxTime,      \* bound on the clock
    MaxCycles,    \* bound on completed cycles
    Faults        \* what may fail: an await ("loopA", "sync", "db", "scan"), and
                  \* whether the task is stopped ("stop") and /resume arrives
                  \* ("operator")

ASSUME TickersAssumption == Tickers \subseteq Nat
ASSUME OffsetsAssumption == Offsets \subseteq Int
ASSUME TimesAssumption == StartTime \in Nat /\ MaxTime \in Nat /\ MaxCycles \in Nat
ASSUME FaultsAssumption == Faults \subseteq {"loopA", "sync", "db", "scan", "stop", "operator"}

VARIABLES
    clock,      \* now_fn(), in minutes
    offset,     \* TimeSyncService._offset_seconds, in minutes
    synced,     \* _last_synced_date: the day, or None
    attempt,    \* _last_attempt_at, or None
    processed,  \* LoopBRunner._processed_slots, None where there is no entry
    done,       \* history: the bars <<ticker, timeframe, slot>> scanned
    again,      \* history: the bars scanned when they were already in done
    loopCSlot,  \* _last_loop_c_slot, or None
    loopCRuns,  \* history: loop C's runs per slot
    bfSlot,     \* _last_post_market_slot: the day, or None
    bfTask,     \* _post_market_task and its result: none, running, ok, failed
    bfRuns,     \* history: backfills started per day
    metrics,    \* LoopRuntimeMetrics: cycles, errors, consecutive
    halted,     \* RuntimeState.halted
    cleared,    \* history: metrics.errors at the operator's last /resume
    task,       \* LoopBackgroundRunner.is_running()
    pc,         \* pc[r]: the await coroutine r is in, or idle
    todo,       \* todo[r]: tickers r has still to visit
    cur,        \* cur[r]: the bar r fetches candles for, or NoBar
    left,       \* left[r]: due timeframes after cur's, of the same ticker
    at          \* at[r]: now, as run_once_for_ticker read it

time == <<clock, offset, synced, attempt>>
loopB == <<processed, done, again>>
loopC == <<loopCSlot, loopCRuns, bfSlot, bfTask, bfRuns>>
report == <<metrics, halted, cleared>>
locals == <<pc, todo, cur, left, at>>
vars == <<time, loopB, loopC, report, task, locals>>

Runners == {Background} \cup Requests
Timeframes == {"3m", "5m", "15m", "60m", "1d"}
Keys == Tickers \X Timeframes
None == -1
NoBar == <<>>
aligned == clock + offset
Minute(t) == t % 1440
Day(t) == t \div 1440
Times == StartTime..(MaxTime + 60)   \* every aligned time
Days == Day(StartTime)..Day(MaxTime)

Init ==
    /\ clock = StartTime
    /\ offset = 0
    /\ synced = None
    /\ attempt = None
    /\ processed = [k \in Keys |-> None]
    /\ done = {}
    /\ again = {}
    /\ loopCSlot = None
    /\ loopCRuns = [t \in Times |-> 0]
    /\ bfSlot = None
    /\ bfTask = "none"
    /\ bfRuns = [d \in Days |-> 0]
    /\ metrics = [cycles |-> 0, errors |-> 0, consecutive |-> 0]
    /\ halted = FALSE
    /\ cleared = 0
    /\ task = FALSE
    /\ pc = [r \in Runners |-> "idle"]
    /\ todo = [r \in Runners |-> {}]
    /\ cur = [r \in Runners |-> NoBar]
    /\ left = [r \in Runners |-> {}]
    /\ at = [r \in Runners |-> None]

-----------------------------------------------------------------------------
(* MarketSchedule.                                                         *)

\* The length of a bar; timeframes are visited from the shortest on.
Period(f) ==
    CASE f = "3m" -> 3 [] f = "5m" -> 5 [] f = "15m" -> 15
      [] f = "60m" -> 60 [] f = "1d" -> 1440

\* The call auctions (08:30-09:00, 15:20-15:30) and the night are skipped.
Open(m) ==
    /\ m \in 480..1200
    /\ m \notin 510..539 \cup 920..929

\* The daily bar ends at 15:30, the others at the multiples of their length.
due_timeframes(t) ==
    IF Open(Minute(t))
    THEN {f \in Timeframes : IF f = "1d" THEN Minute(t) = 930 ELSE t % Period(f) = 0}
    ELSE {}

slot_key(t, f) == t - (t % Period(f))

-----------------------------------------------------------------------------
(* Loop B's walk over the tickers.                                         *)

\* The timeframes among fs that are not processed for ticker k at time t.
Pending(k, fs, t, proc) == {f \in fs : proc[<<k, f>>] # slot_key(t, f)}

\* The shortest pending timeframe of ticker k is next, then the longer ones of
\* fs, then the tickers rest.
Fetch(r, k, fs, t, rest, proc) ==
    \E f \in Pending(k, fs, t, proc) :
        /\ \A g \in Pending(k, fs, t, proc) : Period(f) <= Period(g)
        /\ pc' = [pc EXCEPT ![r] = "fetching"]
        /\ cur' = [cur EXCEPT ![r] = <<k, f, slot_key(t, f)>>]
        /\ left' = [left EXCEPT ![r] = {g \in fs : Period(g) > Period(f)}]
        /\ at' = [at EXCEPT ![r] = t]
        /\ todo' = [todo EXCEPT ![r] = rest]

Idle(r) ==
    /\ pc' = [pc EXCEPT ![r] = "idle"]
    /\ cur' = [cur EXCEPT ![r] = NoBar]
    /\ left' = [left EXCEPT ![r] = {}]
    /\ at' = [at EXCEPT ![r] = None]
    /\ todo' = [todo EXCEPT ![r] = {}]

-----------------------------------------------------------------------------
(* Loop C and the cycle's end.                                             *)

PostMarket(t) == Minute(t) \in 940..1200

schedule_post_market_backfill_if_due ==
    IF PostMarket(clock) /\ bfSlot # Day(clock) /\ bfTask # "running"
    THEN /\ bfSlot' = Day(clock)
         /\ bfTask' = "running"
         /\ bfRuns' = [bfRuns EXCEPT ![Day(clock)] = @ + 1]
    ELSE UNCHANGED <<bfSlot, bfTask, bfRuns>>

\* _should_run_loop_c, and the slot it takes when it says yes: no await lies
\* between the check and the assignment, nor inside LoopCMaintainer.run_once.
should_run_loop_c(now) ==
    /\ now % 30 = 0
    /\ loopCSlot # now

\* Mutant: the slot is not remembered.
MutRunLoopC(now) ==
    /\ loopCRuns' = [loopCRuns EXCEPT ![now] = @ + 1]
    /\ schedule_post_market_backfill_if_due
    /\ UNCHANGED loopCSlot

RunLoopC(now) ==
    /\ loopCSlot' = now
    /\ loopCRuns' = [loopCRuns EXCEPT ![now] = @ + 1]
    /\ schedule_post_market_backfill_if_due

record_success ==
    metrics' = [metrics EXCEPT !.cycles = @ + 1, !.consecutive = 0]

record_failure ==
    metrics' = [metrics EXCEPT !.cycles = @ + 1, !.errors = @ + 1, !.consecutive = @ + 1]

\* Mutant: a cycle that succeeds takes the halt for over.
MutFinishCycle(r, now) ==
    /\ Idle(r)
    /\ record_success
    /\ halted' = FALSE
    /\ UNCHANGED cleared
    /\ IF should_run_loop_c(now) THEN RunLoopC(now) ELSE UNCHANGED loopC

\* The tickers are visited; loop C runs when it is due.
FinishCycle(r, now) ==
    /\ Idle(r)
    /\ record_success
    /\ UNCHANGED <<halted, cleared>>
    /\ IF should_run_loop_c(now) THEN RunLoopC(now) ELSE UNCHANGED loopC

\* The cycle waits for Telegram to take the alert.
AwaitAlert(r) ==
    /\ pc' = [pc EXCEPT ![r] = "alerting"]
    /\ cur' = [cur EXCEPT ![r] = NoBar]
    /\ left' = [left EXCEPT ![r] = {}]
    /\ at' = [at EXCEPT ![r] = None]
    /\ todo' = [todo EXCEPT ![r] = {}]

\* run_cycle's except: the failure is recorded, and safety.critical halts
\* before it awaits the alert.
FailCycle(r) ==
    /\ AwaitAlert(r)
    /\ record_failure
    /\ halted' = TRUE
    /\ UNCHANGED <<loopC, cleared>>

\* run_once_for_ticker for the tickers ks, each at the time it is reached:
\* up to the first bar that needs an await.
VisitTickers(r, ks, now, proc) ==
    LET due == due_timeframes(now)
        waiting == {k \in ks : Pending(k, due, now, proc) # {}}
    IN  \/ /\ waiting = {}
           /\ FinishCycle(r, now)
        \/ \E k \in waiting :
             /\ \A j \in waiting : k <= j
             /\ Fetch(r, k, due, now, {j \in ks : j > k}, proc)
             /\ UNCHANGED <<loopC, report>>

\* The due timeframes left of this ticker, then the tickers left.
Continue(r, proc) ==
    LET k == cur[r][1]
        more == Pending(k, left[r], at[r], proc) # {}
    IN  \/ /\ more
           /\ Fetch(r, k, left[r], at[r], todo[r], proc)
           /\ UNCHANGED <<loopC, report>>
        \/ /\ ~more
           /\ VisitTickers(r, todo[r], aligned, proc)

-----------------------------------------------------------------------------
(* The actions.                                                            *)

Tick ==
    /\ clock < MaxTime
    /\ clock' = clock + 1
    /\ UNCHANGED <<offset, synced, attempt, loopB, loopC, report, task, locals>>

\* LoopBackgroundRunner.start and stop; stop cancels the task in its await.
StartTask ==
    /\ ~task
    /\ task' = TRUE
    /\ UNCHANGED <<time, loopB, loopC, report, locals>>

StopTask ==
    /\ "stop" \in Faults
    /\ task
    /\ task' = FALSE
    /\ Idle(Background)
    /\ UNCHANGED <<time, loopB, loopC, report>>

\* /resume, from Telegram or the web: the halt is lifted, the metrics stay.
OperatorResumes ==
    /\ "operator" \in Faults
    /\ halted' = FALSE
    /\ cleared' = metrics.errors
    /\ UNCHANGED <<time, loopB, loopC, metrics, task, locals>>

Working == {r \in Runners : pc[r] # "idle"}

StartCycle(r) ==
    /\ pc[r] = "idle"
    /\ r = Background => task
    /\ metrics.cycles + Cardinality(Working) < MaxCycles
    /\ pc' = [pc EXCEPT ![r] = "loopA"]
    /\ UNCHANGED <<time, loopB, loopC, report, task, todo, cur, left, at>>

\* tickers_provider: a database error gives no tickers.
LoadTickers(r, now) ==
    \/ VisitTickers(r, Tickers, now, processed)
    \/ "db" \in Faults /\ VisitTickers(r, {}, now, processed)

\* sync_if_due_pre_market asks the broker between 07:50 and 08:00, once a day
\* and not within 30 seconds of the last attempt, so perhaps not twice within
\* two minutes of the clock.
SyncDue == Minute(clock) \in 470..479 /\ synced # Day(clock)
TooSoon == attempt # None /\ clock < attempt + 2

\* Loop A is over and the hook before loop B runs.
LoopAReturns(r) ==
    /\ pc[r] = "loopA"
    /\ \/ /\ SyncDue
          /\ attempt' = clock
          /\ pc' = [pc EXCEPT ![r] = "syncing"]
          /\ UNCHANGED <<loopC, report, todo, cur, left, at>>
       \/ /\ ~SyncDue \/ TooSoon
          /\ LoadTickers(r, aligned)
          /\ UNCHANGED attempt
    /\ UNCHANGED <<clock, offset, synced, loopB, task>>

SyncReturns(r) ==
    /\ pc[r] = "syncing"
    /\ synced' = Day(clock)
    /\ attempt' = clock
    /\ \E o \in Offsets : offset' = o /\ LoadTickers(r, clock + o)
    /\ UNCHANGED <<clock, loopB, task>>

\* Loop A, the broker's clock or a strategy raises: the cycle is over.
CycleRaises(r) ==
    /\ \/ "loopA" \in Faults /\ pc[r] = "loopA"
       \/ "sync" \in Faults /\ pc[r] = "syncing"
       \/ "scan" \in Faults /\ pc[r] = "fetching"
    /\ FailCycle(r)
    /\ UNCHANGED <<time, loopB, task>>

\* send_message returns or raises: either way the cycle is over.
AlertReturns(r) ==
    /\ pc[r] = "alerting"
    /\ Idle(r)
    /\ UNCHANGED <<time, loopB, loopC, report, task>>

\* Mutant: the bar is scanned but not remembered.
MutMark(r) == processed

\* _processed_slots[key] = slot
Mark(r) == [processed EXCEPT ![<<cur[r][1], cur[r][2]>>] = cur[r][3]]

\* The candles arrived: they are stored, the strategies scan, their signals are
\* queued and the slot is marked.
FetchReturns(r) ==
    /\ pc[r] = "fetching"
    /\ processed' = Mark(r)
    /\ done' = done \cup {cur[r]}
    /\ again' = again \cup ({cur[r]} \cap done)
    /\ Continue(r, processed')
    /\ UNCHANGED <<time, task>>

\* Mutant: the walk starts again until every bar is stored.
MutStoreRetries(r) ==
    /\ "db" \in Faults
    /\ pc[r] = "fetching"
    /\ IF left[r] = {} /\ todo[r] = {}
       THEN VisitTickers(r, Tickers, aligned, processed)
       ELSE Continue(r, processed)
    /\ UNCHANGED <<time, loopB, task>>

\* Mutant: the bar counts as processed whatever happened.
MutStoreFails(r) ==
    /\ "db" \in Faults
    /\ pc[r] = "fetching"
    /\ processed' = Mark(r)
    /\ Continue(r, processed')
    /\ UNCHANGED <<time, done, again, task>>

\* SQLAlchemyError in _sync_and_scan: the slot stays open for the next cycle.
StoreFails(r) ==
    /\ "db" \in Faults
    /\ pc[r] = "fetching"
    /\ Continue(r, processed)
    /\ UNCHANGED <<time, loopB, task>>

\* _run_post_market_backfill_task ends, with or without an exception.
BackfillEnds ==
    /\ bfTask = "running"
    /\ bfTask' \in {"ok", "failed"}
    /\ UNCHANGED <<time, loopB, loopCSlot, loopCRuns, bfSlot, bfRuns, report, task, locals>>

Resumes(r) ==
    \/ LoopAReturns(r) \/ SyncReturns(r) \/ CycleRaises(r)
    \/ FetchReturns(r) \/ StoreFails(r) \/ AlertReturns(r)

Next ==
    \/ Tick \/ StartTask \/ StopTask \/ OperatorResumes \/ BackfillEnds
    \/ \E r \in Runners : StartCycle(r) \/ Resumes(r)

\* Every await of a cycle ends, with an answer or an exception.
Spec == Init /\ [][Next]_vars /\ \A r \in Runners : WF_vars(Resumes(r))

-----------------------------------------------------------------------------
\* "동일 봉 재처리 차단" (rebuild-roadmap.md): no bar of a ticker is scanned twice,
\* so that its signals are queued once.
ScannedOnce == again = {}

\* A slot is marked only for a bar that was scanned: a failed or cancelled
\* fetch never makes the next cycle skip the bar.
MarkedIsScanned ==
    \A k \in Keys : processed[k] # None => <<k[1], k[2], processed[k]>> \in done

\* However many cycles overlap, loop C runs at most once in a slot and the
\* backfill at most once a day.
MaintainedOnce ==
    /\ \A t \in Times : loopCRuns[t] <= 1
    /\ \A d \in Days : bfRuns[d] <= 1

\* A cycle that failed after the operator's last /resume has left the system
\* halted: neither stop() cancelling the alert, nor an overlapping cycle that
\* succeeds meanwhile, nor a /resume before the failure takes the halt back.
FailureStaysHalted == metrics.errors > cleared => halted

\* Every cycle ends.
CycleEnds == \A r \in Runners : pc[r] # "idle" ~> pc[r] = "idle"

=============================================================================
