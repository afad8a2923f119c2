---------------------------- MODULE BacktestJobs ----------------------------
(***************************************************************************)
(* BacktestJobService (app/services/backtest_jobs.py), the requests that   *)
(* start jobs, and AutoBacktestScheduler with its watchers, on one event   *)
(* loop.                                                                   *)
(* The service's lock is never held over an await, so it is never waited   *)
(* for, and one action runs from one suspension of a coroutine to the next.*)
(* What a single trade gives is chosen freely: see TradeSimulation.        *)
(***************************************************************************)
EXTENDS Integers, FiniteSets

CONSTANTS
    MaxJobs,    \* max_jobs of the table
    MaxStarts,  \* bound on the jobs started
    MaxSignals, \* max_signals of the scheduler
    ApiSignals, \* numbers of signals a request of the API may have,
    DashboardSignals,  \* and a backtest of the dashboard
    Polls,      \* looks a watcher takes before it gives up
    LastDay,       \* days 1 .. LastDay
    Enabled     \* settings.enable_auto_backtest

ASSUME JobsAssumption == MaxJobs \in Nat \ {0} /\ MaxStarts \in Nat /\ MaxSignals \in Nat
                          /\ ApiSignals \subseteq Nat /\ DashboardSignals \subseteq Nat
ASSUME DayAssumption == LastDay \in Nat \ {0} /\ Polls \in Nat

VARIABLES
    started,  \* jobs created so far; a job is named by its number
    jobs,     \* jobs[j]: the row of j, or NoRow
    task,     \* task[j]: the coroutine _run_job of j
    watch,    \* watch[j]: looks the watcher of j has left
    notices,  \* notices[j]: messages sent about the end of j
    sched,    \* AutoBacktestScheduler: last run, job and snapshot
    auto,     \* history: the jobs the scheduler started, with day and reason
    clock     \* day, and whether run_hour has come

Ids == 1 .. MaxStarts
Sources == {"auto", "system_api", "dashboard_manual"}
NoResult == [trades |-> 0, skipped |-> 0]
NoRow == [status |-> "none", progress |-> 0, result |-> NoResult, source |-> "auto"]
NoTask == [pc |-> "none", done |-> 0, total |-> 0, sum |-> NoResult]
NoSnapshot == [job |-> 0, status |-> "none", result |-> NoResult]

rowVars == <<started, jobs, task, notices>>
jobsVars == <<started, jobs, task, watch, notices, sched, auto, clock>>

JobsInit ==
    /\ started = 0
    /\ jobs = [j \in Ids |-> NoRow]
    /\ task = [j \in Ids |-> NoTask]
    /\ watch = [j \in Ids |-> 0]
    /\ notices = [j \in Ids |-> 0]
    /\ sched = [date |-> 0, job |-> 0, snap |-> NoSnapshot]
    /\ auto = {}
    /\ clock = [day |-> 1, late |-> FALSE]

-----------------------------------------------------------------------------
(* The table.                                                              *)

Stored(table) == {j \in Ids : table[j].status # "none"}
Newer(table, j) == {k \in Stored(table) : k > j}

\* Mutant: the sort is reversed, the newest rows go.
MutTrim(table) ==
    [j \in Ids |-> IF Cardinality(Stored(table) \ (Newer(table, j) \cup {j})) < MaxJobs
                   THEN table[j] ELSE NoRow]

\* _trim_jobs: of too many rows the oldest go, whatever their status.
trim_jobs(table) ==
    [j \in Ids |-> IF Cardinality(Newer(table, j)) < MaxJobs THEN table[j] ELSE NoRow]

start_job(total, source) ==
    /\ started < MaxStarts
    /\ started' = started + 1
    /\ jobs' = trim_jobs([jobs EXCEPT ![started + 1] =
                   [status |-> "queued", progress |-> 0, result |-> NoResult, source |-> source]])
    /\ task' = [task EXCEPT ![started + 1] =
                   [pc |-> "new", done |-> 0, total |-> total, sum |-> NoResult]]
    /\ UNCHANGED notices

\* POST /system/backtest/run.
run_backtest(slippage, signals) ==
    /\ slippage \in 0 .. 50
    /\ start_job(signals, "system_api")
    /\ UNCHANGED <<watch, sched, auto, clock>>

Aliases == [gap |-> "1", gap_momentum |-> "1", ema |-> "2", ema_pullback |-> "2",
            breakout |-> "3", volatility_breakout |-> "3", volume |-> "4",
            volume_surge |-> "4", support |-> "5", support_resistance |-> "5"]
normalize_strategy_id(s) == IF s \in DOMAIN Aliases THEN Aliases[s] ELSE s
BuiltStrategies == {"1", "2", "3", "4", "5"}
SupportedTimeframes == {"3m", "5m", "15m", "60m", "1d"}

\* _start_manual_backtest: every early return is a conjunct; `candles' is what
\* list_range gives, and the strategy may find a signal on all but the last.
start_manual_backtest(req, signals) ==
    /\ req.start < req.end
    /\ req.slippage \in 0 .. 50
    /\ req.timeframe \in SupportedTimeframes
    /\ normalize_strategy_id(req.strategy) \in BuiltStrategies
    /\ req.candles >= 2
    /\ signals < req.candles
    /\ start_job(signals, "dashboard_manual")
    /\ UNCHANGED <<watch, sched, auto, clock>>

Requests == [start : {1}, end : {1, 2}, slippage : {5, 51}, timeframe : {"5m", "2m"},
             strategy : {"gap", "9"}, candles : {0, MaxSignals + 1}]

-----------------------------------------------------------------------------
(* _run_job.                                                               *)

should_notify(row) == row.source # "dashboard_manual"

\* Once the loop is over the tallies are dead.
Finished(t, pc) == [t EXCEPT !.pc = pc, !.done = t.total, !.sum = NoResult]

EndedRow(row, status, sum) ==
    [row EXCEPT !.status = status,
                !.progress = IF status = "completed" THEN 100 ELSE @,
                !.result = IF status = "completed" THEN sum ELSE @]

\* The end of a job: its row, unless it was trimmed, and then the message.
\* Without a row the coroutine returns and says nothing.
EndJob(j, t, status) ==
    IF jobs[j].status = "none"
    THEN /\ task' = [task EXCEPT ![j] = Finished(t, "end")]
         /\ UNCHANGED jobs
    ELSE /\ jobs' = [jobs EXCEPT ![j] = EndedRow(@, status, t.sum)]
         /\ task' = [task EXCEPT ![j] =
                         Finished(t, IF should_notify(jobs[j]) THEN "notify" ELSE "end")]

BeginJob(j) ==
    /\ task[j].pc = "new"
    /\ \/ /\ jobs[j].status = "none"
          /\ task' = [task EXCEPT ![j].pc = "end"]
          /\ UNCHANGED jobs
       \/ /\ jobs[j].status # "none"
          /\ task[j].total = 0
          /\ EndJob(j, task[j], "completed")
       \/ /\ jobs[j].status # "none"
          /\ task[j].total > 0
          /\ jobs' = [jobs EXCEPT ![j].status = "running"]
          /\ task' = [task EXCEPT ![j].pc = "loop"]
    /\ UNCHANGED <<started, watch, notices, sched, auto, clock>>

Tally(sum, outcome) ==
    IF outcome = "skip" THEN [sum EXCEPT !.skipped = @ + 1] ELSE [sum EXCEPT !.trades = @ + 1]

\* _update_progress does nothing for a row that is gone.
update_progress(j, t) ==
    IF jobs[j].status = "none" THEN jobs
    ELSE [jobs EXCEPT ![j].progress = (t.done * 100) \div t.total]

\* One turn of the loop; the last one goes on to the end without an await.
SimulateSignal(j, outcome) ==
    /\ task[j].pc = "loop"
    /\ LET t == [task[j] EXCEPT !.done = @ + 1, !.sum = Tally(@, outcome)]
       IN  IF t.done = t.total
           THEN EndJob(j, t, "completed")
           ELSE /\ jobs' = update_progress(j, t)
                /\ task' = [task EXCEPT ![j] = t]
    /\ UNCHANGED <<started, watch, notices, sched, auto, clock>>

\* Any exception but ValueError, an index outside of the candles for one.
SimulationRaises(j) ==
    /\ task[j].pc = "loop"
    /\ EndJob(j, task[j], "failed")
    /\ UNCHANGED <<started, watch, notices, sched, auto, clock>>

\* Mutant: a message that cannot be sent raises into the handler of the job.
MutNoticeSent(j) ==
    /\ task[j].pc = "notify"
    /\ task' = [task EXCEPT ![j].pc = "end"]
    /\ jobs' = [jobs EXCEPT ![j].status = IF @ = "none" THEN @ ELSE "failed"]
    /\ UNCHANGED <<started, notices, watch, sched, auto, clock>>

\* send_message answers and never raises.
NoticeSent(j) ==
    /\ task[j].pc = "notify"
    /\ task' = [task EXCEPT ![j].pc = "end"]
    /\ notices' = [notices EXCEPT ![j] = @ + 1]
    /\ UNCHANGED <<started, jobs, watch, sched, auto, clock>>

-----------------------------------------------------------------------------
(* AutoBacktestScheduler.                                                  *)

\* _build_signals: one signal for each candle but the last, at most MaxSignals.
build_signals(candles) == IF candles - 1 < MaxSignals THEN candles - 1 ELSE MaxSignals

\* _load_auto_backtest_candles: none, or more than the signals may use.
load_auto_backtest_candles == {0, MaxSignals + 1}

\* Mutant: the day of the run is not remembered.
MutTriggerNow(candles, reason) ==
    /\ candles >= 2
    /\ start_job(build_signals(candles), "auto")
    /\ sched' = [sched EXCEPT !.job = started + 1, !.snap = NoSnapshot]
    /\ watch' = [watch EXCEPT ![started + 1] = Polls]
    /\ auto' = auto \cup {[job |-> started + 1, day |-> clock.day, reason |-> reason]}

\* A skipped trigger changes only the words the status shows.
trigger_now(candles, reason) ==
    /\ candles >= 2
    /\ start_job(build_signals(candles), "auto")
    /\ sched' = [date |-> clock.day, job |-> started + 1, snap |-> NoSnapshot]
    /\ watch' = [watch EXCEPT ![started + 1] = Polls]
    /\ auto' = auto \cup {[job |-> started + 1, day |-> clock.day, reason |-> reason]}

trigger_if_due(candles) ==
    /\ Enabled
    /\ clock.late
    /\ sched.date # clock.day
    /\ trigger_now(candles, "scheduled")
    /\ UNCHANGED clock

RunNow(candles) ==
    /\ trigger_now(candles, "manual_api")
    /\ UNCHANGED clock

\* Mutant: a job that still runs is taken for an outcome.
MutEnded(row) == row.status \in {"running", "completed", "failed"}

Ended(row) == row.status \in {"completed", "failed"}

\* Mutant: the watcher looks until the job has ended, a trimmed row included.
MutWatchJob(j) ==
    /\ watch[j] > 0
    /\ watch' = [watch EXCEPT ![j] = IF Ended(jobs[j]) THEN 0 ELSE @]
    /\ sched' = IF Ended(jobs[j])
                THEN [sched EXCEPT !.snap = [job |-> j, status |-> jobs[j].status,
                                             result |-> jobs[j].result]]
                ELSE sched
    /\ UNCHANGED <<rowVars, auto, clock>>

\* _watch_job: one look; the last one, or a row that is gone, ends it.
WatchJob(j) ==
    /\ watch[j] > 0
    /\ watch' = [watch EXCEPT ![j] =
                     IF jobs[j].status = "none" \/ Ended(jobs[j]) THEN 0 ELSE @ - 1]
    /\ sched' = IF Ended(jobs[j])
                THEN [sched EXCEPT !.snap = [job |-> j, status |-> jobs[j].status,
                                             result |-> jobs[j].result]]
                ELSE sched
    /\ UNCHANGED <<rowVars, auto, clock>>

-----------------------------------------------------------------------------
RunHourComes == ~clock.late /\ clock' = [clock EXCEPT !.late = TRUE]
NextDay == clock.late /\ clock.day < LastDay /\ clock' = [day |-> clock.day + 1, late |-> FALSE]

DayPasses ==
    /\ RunHourComes \/ NextDay
    /\ UNCHANGED <<rowVars, watch, sched, auto>>

JobStep(j) ==
    \/ BeginJob(j)
    \/ \E outcome \in {"trade", "skip"} : SimulateSignal(j, outcome)
    \/ SimulationRaises(j)
    \/ NoticeSent(j)

JobsNext ==
    \/ \E slippage \in {5, 51}, n \in ApiSignals : run_backtest(slippage, n)
    \/ \E req \in Requests, n \in DashboardSignals : start_manual_backtest(req, n)
    \/ \E n \in load_auto_backtest_candles : trigger_if_due(n) \/ RunNow(n)
    \/ \E j \in Ids : JobStep(j) \/ WatchJob(j)
    \/ DayPasses

JobsSpec == JobsInit /\ [][JobsNext]_jobsVars

\* The event loop does not stop while one of the coroutines can go on.
JobsMove == \E j \in Ids : JobStep(j) \/ WatchJob(j)

-----------------------------------------------------------------------------
Results == [trades : Nat, skipped : Nat]
Row == [status : {"none", "queued", "running", "completed", "failed"},
        progress : Int, result : Results, source : Sources]
Task == [pc : {"none", "new", "loop", "notify", "end"}, done : Nat, total : Nat, sum : Results]

\* The types of the table, the coroutines and the scheduler; a coroutine in
\* its loop has a signal left.
JobsTypeOK ==
    /\ started \in 0 .. MaxStarts
    /\ jobs \in [Ids -> Row]
    /\ task \in [Ids -> Task]
    /\ \A j \in Ids : /\ task[j].pc = "new" => task[j].done = 0
                      /\ task[j].pc = "loop" => task[j].done < task[j].total
    /\ sched \in [date : 0 .. LastDay, job : 0 .. MaxStarts,
                  snap : [job : 0 .. MaxStarts, result : Results,
                          status : {"none", "queued", "running", "completed", "failed"}]]
    /\ auto \subseteq [job : Ids, day : 1 .. LastDay, reason : {"scheduled", "manual_api"}]
    /\ clock \in [day : 1 .. LastDay, late : BOOLEAN]

\* The table holds exactly the newest max_jobs jobs, at every moment of their
\* execution: no job that ends, fails or reports brings its row back.
TableKeepsNewest == Stored(jobs) = {j \in 1 .. started : j > started - MaxJobs}

\* A row only goes forward: its status from queued over running to an end, its
\* progress up; and what a finished row says is never changed again.
Rank == [none |-> 0, queued |-> 1, running |-> 2, completed |-> 3, failed |-> 3]
RowsMoveForward ==
    [][\A j \in Stored(jobs) : jobs'[j].status # "none" =>
           /\ Rank[jobs'[j].status] >= Rank[jobs[j].status]
           /\ jobs'[j].progress >= jobs[j].progress
           /\ Rank[jobs[j].status] = 3 => jobs'[j] = jobs[j]]_jobsVars

\* A completed job accounts for each of its signals, as a trade or as skipped.
ResultAccounts ==
    \A j \in Ids : jobs[j].status = "completed" =>
        jobs[j].result.trades + jobs[j].result.skipped = task[j].total

\* One message for a job that ended, none while it runs and none for the
\* backtests of the dashboard.
OneNoticePerJob ==
    \A j \in Ids : notices[j] > 0 =>
        notices[j] = 1 /\ task[j].pc = "end" /\ jobs[j].source # "dashboard_manual"

\* The daily backtest is started at most once a day: never by the schedule on
\* a day on which the scheduler has already started a job, for either reason.
ScheduledOncePerDay ==
    \A a, b \in auto : a.job < b.job /\ a.day = b.day => b.reason = "manual_api"

\* The result the status shows is the final outcome of a job the scheduler
\* started, though the watchers of several jobs overlap.
ShownResultIsFinal ==
    LET snap == sched.snap
    IN  snap.job # 0 =>
            /\ snap.job \in {a.job : a \in auto}
            /\ snap.status \in {"completed", "failed"}
            /\ jobs[snap.job].status # "none" =>
                   jobs[snap.job].status = snap.status /\ jobs[snap.job].result = snap.result

\* What is told of a job is true and told once.
JobOutcomes == ResultAccounts /\ OneNoticePerJob /\ ShownResultIsFinal

\* Every job comes to its end and every watcher stops, whatever is trimmed:
\* again and again nothing is left to run.
EverythingEnds ==
    []<>(\A j \in Ids : task[j].pc \in {"none", "end"} /\ watch[j] = 0)

=============================================================================
