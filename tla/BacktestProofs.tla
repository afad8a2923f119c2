--------------------------- MODULE BacktestProofs ----------------------------
(***************************************************************************)
(* What holds of the job table and of the scheduler for every size of the  *)
(* table and every number of jobs, signals and days; of a simulated trade  *)
(* for every series of candles and every multiple of the ATR; and of the   *)
(* signals a backtest starts from for every feed.                          *)
(***************************************************************************)
EXTENDS Backtest, FiniteSetTheorems, SequenceTheorems, WellFoundedInduction, TLAPS

\* The parts of JobsTypeOK the steps of a job, and those of the scheduler, touch.
TableTypes ==
    /\ started \in 0 .. MaxStarts
    /\ jobs \in [Ids -> Row]
TaskTypes ==
    /\ task \in [Ids -> Task]
    /\ \A j \in Ids : /\ task[j].pc = "new" => task[j].done = 0
                      /\ task[j].pc = "loop" => task[j].done < task[j].total
SchedTypes ==
    /\ sched \in [date : 0 .. LastDay, job : 0 .. MaxStarts,
                  snap : [job : 0 .. MaxStarts, result : Results,
                          status : {"none", "queued", "running", "completed", "failed"}]]
    /\ auto \subseteq [job : Ids, day : 1 .. LastDay, reason : {"scheduled", "manual_api"}]
    /\ clock \in [day : 1 .. LastDay, late : BOOLEAN]

\* A step of the coroutines: no row comes or goes.
SameRows ==
    /\ TableTypes' /\ TaskTypes'
    /\ started' = started
    /\ Stored(jobs') = Stored(jobs)

-----------------------------------------------------------------------------
(* Facts about rows and coroutines.                                        *)

LEMMA NoResultType == NoResult \in Results
BY DEF NoResult, Results

LEMMA EndedRowType ==
    ASSUME NEW row \in Row, NEW status \in {"completed", "failed"}, NEW sum \in Results
    PROVE  EndedRow(row, status, sum) \in Row /\ EndedRow(row, status, sum).status = status
<1>1. CASE status = "completed"
  <2>1. EndedRow(row, status, sum) = [row EXCEPT !.status = status, !.progress = 100, !.result = sum]
    BY <1>1 DEF EndedRow, Row
  <2>2. EndedRow(row, status, sum) = [status |-> "completed", progress |-> 100, result |-> sum,
                                      source |-> row.source]
    BY <2>1, <1>1 DEF Row
  <2>3. row.source \in Sources
    BY DEF Row
  <2> QED
    BY <2>2, <2>3, <1>1 DEF Row
<1>2. CASE status = "failed"
  <2>1. EndedRow(row, status, sum) = [row EXCEPT !.status = status]
    BY <1>2 DEF EndedRow, Row
  <2> QED
    BY <2>1, <1>2 DEF Row
<1> QED
  BY <1>1, <1>2

LEMMA FinishedType ==
    ASSUME NEW t \in Task, NEW pc \in {"notify", "end"}
    PROVE  Finished(t, pc) \in Task /\ Finished(t, pc).pc = pc
BY NoResultType DEF Finished, Task

\* The record of a coroutine after one more signal.
LEMMA TurnType ==
    ASSUME NEW u \in Task, NEW s \in Results, NEW d \in Nat
    PROVE  /\ [u EXCEPT !.done = d, !.sum = s] \in Task
           /\ [u EXCEPT !.done = d, !.sum = s].pc = u.pc
           /\ [u EXCEPT !.done = d, !.sum = s].done = d
           /\ [u EXCEPT !.done = d, !.sum = s].total = u.total
<1> DEFINE v == [u EXCEPT !.done = d]
           w == [v EXCEPT !.sum = s]
<1>1. v \in Task /\ v.pc = u.pc /\ v.done = d /\ v.total = u.total
  BY DEF Task
<1>2. [u EXCEPT !.done = d, !.sum = s] = w
  BY DEF Task
<1> HIDE DEF v
<1>3. w \in Task /\ w.pc = v.pc /\ w.done = v.done /\ w.total = v.total
  BY <1>1 DEF Task
<1> HIDE DEF w
<1> QED
  BY <1>1, <1>2, <1>3

LEMMA TallyType ==
    ASSUME NEW sum \in Results, NEW outcome
    PROVE  Tally(sum, outcome) \in Results
BY DEF Tally, Results

\* A row that is replaced by one that is there too.
LEMMA RowReplaced ==
    ASSUME TableTypes, NEW j \in Ids, jobs[j].status # "none",
           NEW row \in Row, row.status # "none"
    PROVE  /\ [jobs EXCEPT ![j] = row] \in [Ids -> Row]
           /\ Stored([jobs EXCEPT ![j] = row]) = Stored(jobs)
BY DEF TableTypes, Stored

\* A coroutine that goes to a place where nothing is asked of its counters.
LEMMA TaskReplaced ==
    ASSUME TaskTypes, NEW j \in Ids, NEW t \in Task,
           t.pc # "new", t.pc = "loop" => t.done < t.total,
           task' = [task EXCEPT ![j] = t]
    PROVE  TaskTypes'
BY DEF TaskTypes

LEMMA EndKeepsRows ==
    ASSUME TableTypes, TaskTypes, NEW j \in Ids, NEW STATE t, t \in Task,
           NEW status \in {"completed", "failed"}, EndJob(j, t, status), started' = started
    PROVE  SameRows
<1>1. t.sum \in Results
  BY DEF Task
<1>2. CASE jobs[j].status = "none"
  <2>1. task' = [task EXCEPT ![j] = Finished(t, "end")] /\ jobs' = jobs
    BY <1>2 DEF EndJob
  <2>2. TaskTypes'
    BY <2>1, FinishedType, TaskReplaced
  <2> QED
    BY <2>1, <2>2 DEF SameRows, TableTypes, Stored
<1>3. CASE jobs[j].status # "none"
  <2> DEFINE q == IF should_notify(jobs[j]) THEN "notify" ELSE "end"
             row == EndedRow(jobs[j], status, t.sum)
  <2>1. /\ task' = [task EXCEPT ![j] = Finished(t, q)]
        /\ jobs' = [jobs EXCEPT ![j] = row]
    BY <1>3 DEF EndJob, TableTypes
  <2>2. q \in {"notify", "end"}
    OBVIOUS
  <2>3. jobs[j] \in Row
    BY DEF TableTypes
  <2>4. row \in Row /\ row.status # "none"
    BY <1>1, <2>3, EndedRowType
  <2>5. TaskTypes'
    <3> HIDE DEF q
    <3> QED BY <2>1, <2>2, FinishedType, TaskReplaced
  <2>6. jobs' \in [Ids -> Row] /\ Stored(jobs') = Stored(jobs)
    <3> HIDE DEF row
    <3> QED BY <2>1, <2>4, <1>3, RowReplaced
  <2> QED
    BY <2>5, <2>6 DEF SameRows, TableTypes
<1> QED
  BY <1>2, <1>3

\* One turn of the loop keeps the tallies and the row of the job.
LEMMA SimulateKeepsRows ==
    ASSUME TableTypes, TaskTypes, NEW j \in Ids, NEW outcome, SimulateSignal(j, outcome)
    PROVE  SameRows
<1> DEFINE t == [task[j] EXCEPT !.done = @ + 1, !.sum = Tally(@, outcome)]
<1>1. /\ task[j] \in Task /\ jobs[j] \in Row /\ started' = started
      /\ task[j].pc = "loop" /\ task[j].done < task[j].total
  BY DEF SimulateSignal, TaskTypes, TableTypes
<1>2. task[j].sum \in Results /\ task[j].done \in Nat /\ task[j].total \in Nat
  BY <1>1 DEF Task
<1>3. Tally(task[j].sum, outcome) \in Results
  BY <1>2, TallyType
<1>4. t = [task[j] EXCEPT !.done = task[j].done + 1, !.sum = Tally(task[j].sum, outcome)]
  BY <1>1 DEF Task
<1>5. t \in Task /\ t.pc = "loop" /\ t.done = task[j].done + 1 /\ t.total = task[j].total
  <2>1. task[j].done + 1 \in Nat
    BY <1>2
  <2>2. /\ [task[j] EXCEPT !.done = task[j].done + 1, !.sum = Tally(task[j].sum, outcome)] \in Task
        /\ [task[j] EXCEPT !.done = task[j].done + 1, !.sum = Tally(task[j].sum, outcome)].pc = task[j].pc
        /\ [task[j] EXCEPT !.done = task[j].done + 1, !.sum = Tally(task[j].sum, outcome)].done = task[j].done + 1
        /\ [task[j] EXCEPT !.done = task[j].done + 1, !.sum = Tally(task[j].sum, outcome)].total = task[j].total
    BY <2>1, <1>1, <1>3, TurnType, Zenon
  <2> HIDE DEF t
  <2> QED
    BY <2>2, <1>1, <1>4, Zenon
<1>6. IF t.done = t.total
      THEN EndJob(j, t, "completed")
      ELSE jobs' = update_progress(j, t) /\ task' = [task EXCEPT ![j] = t]
  BY DEF SimulateSignal
<1> HIDE DEF t
<1>7. CASE t.done = t.total
  BY <1>1, <1>5, <1>6, <1>7, EndKeepsRows
<1>8. CASE t.done # t.total
  <2>1. t.done < t.total /\ t.total \in Nat \ {0} /\ t.done \in Nat
    BY <1>1, <1>2, <1>5, <1>8
  <2>2. TaskTypes'
    BY <1>5, <1>6, <1>8, <2>1, TaskReplaced
  <2>3. CASE jobs[j].status = "none"
    BY <1>1, <1>6, <1>8, <2>2, <2>3 DEF update_progress, SameRows, TableTypes, Stored
  <2>4. CASE jobs[j].status # "none"
    <3> DEFINE p == (t.done * 100) \div t.total
               row == [jobs[j] EXCEPT !.progress = p]
    <3>1. p \in Int
      BY <2>1
    <3>2. jobs' = [jobs EXCEPT ![j] = row]
      BY <1>6, <1>8, <2>4 DEF update_progress, TableTypes
    <3> HIDE DEF p
    <3>3. row \in Row /\ row.status = jobs[j].status
      BY <1>1, <3>1 DEF Row
    <3> HIDE DEF row
    <3>4. jobs' \in [Ids -> Row] /\ Stored(jobs') = Stored(jobs)
      BY <3>2, <3>3, <2>4, RowReplaced
    <3> QED
      BY <1>1, <2>2, <3>4 DEF SameRows, TableTypes
  <2> QED
    BY <2>3, <2>4
<1> QED
  BY <1>7, <1>8

\* The first step of a coroutine.
LEMMA BeginKeepsRows ==
    ASSUME TableTypes, TaskTypes, NEW j \in Ids, BeginJob(j)
    PROVE  SameRows
<1>1. /\ task[j] \in Task /\ jobs[j] \in Row /\ started' = started
      /\ task[j].pc = "new" /\ task[j].done = 0 /\ task[j].total \in Nat
  BY DEF BeginJob, TaskTypes, TableTypes, Task
<1>2. CASE /\ jobs[j].status = "none"
           /\ task' = [task EXCEPT ![j].pc = "end"]
           /\ UNCHANGED jobs
  <2>1. task' = [task EXCEPT ![j] = [task[j] EXCEPT !.pc = "end"]]
    BY <1>2 DEF TaskTypes
  <2>2. [task[j] EXCEPT !.pc = "end"] \in Task /\ [task[j] EXCEPT !.pc = "end"].pc = "end"
    BY <1>1 DEF Task
  <2>3. TaskTypes'
    BY <2>1, <2>2, TaskReplaced
  <2> QED
    BY <1>1, <1>2, <2>3 DEF SameRows, TableTypes, Stored
<1>3. CASE EndJob(j, task[j], "completed")
  BY <1>1, <1>3, EndKeepsRows
<1>4. CASE /\ jobs[j].status # "none"
           /\ task[j].total > 0
           /\ jobs' = [jobs EXCEPT ![j].status = "running"]
           /\ task' = [task EXCEPT ![j].pc = "loop"]
  <2> DEFINE t == [task[j] EXCEPT !.pc = "loop"]
             row == [jobs[j] EXCEPT !.status = "running"]
  <2>1. task' = [task EXCEPT ![j] = t] /\ jobs' = [jobs EXCEPT ![j] = row]
    BY <1>4 DEF TaskTypes, TableTypes
  <2>2. t \in Task /\ t.pc = "loop" /\ t.done < t.total
    BY <1>1, <1>4 DEF Task
  <2>3. row \in Row /\ row.status = "running"
    BY <1>1 DEF Row
  <2> HIDE DEF t, row
  <2>4. TaskTypes'
    BY <2>1, <2>2, TaskReplaced
  <2>5. jobs[j].status # "none" /\ row.status # "none"
    BY <1>4, <2>3
  <2>6. jobs' \in [Ids -> Row] /\ Stored(jobs') = Stored(jobs)
    BY <2>1, <2>3, <2>5, RowReplaced
  <2> QED
    BY <1>1, <2>4, <2>6 DEF SameRows, TableTypes
<1> QED
  BY <1>2, <1>3, <1>4 DEF BeginJob

\* Every step of a coroutine.
LEMMA JobKeepsRows ==
    ASSUME TableTypes, TaskTypes, NEW j \in Ids, JobStep(j)
    PROVE  SameRows
<1>1. ASSUME SimulationRaises(j) PROVE SameRows
  BY <1>1, EndKeepsRows DEF SimulationRaises, TaskTypes
<1>2. ASSUME NoticeSent(j) PROVE SameRows
  <2>1. task[j] \in Task
    BY DEF TaskTypes
  <2>2. [task[j] EXCEPT !.pc = "end"] \in Task /\ [task[j] EXCEPT !.pc = "end"].pc = "end"
    BY <2>1 DEF Task
  <2>3. task' = [task EXCEPT ![j] = [task[j] EXCEPT !.pc = "end"]]
    BY <1>2 DEF NoticeSent, TaskTypes
  <2>4. TaskTypes'
    BY <2>2, <2>3, TaskReplaced
  <2> QED
    BY <1>2, <2>4 DEF NoticeSent, SameRows, TableTypes, Stored
<1> QED
  BY <1>1, <1>2, BeginKeepsRows, SimulateKeepsRows DEF JobStep

-----------------------------------------------------------------------------
(* Starting a job.                                                         *)

NewestOf(n) == {j \in 1 .. n : j > n - MaxJobs}

\* The trim leaves the newest rows, the new one among them.
LEMMA StartKeepsNewest ==
    ASSUME TableTypes, TaskTypes, Stored(jobs) = NewestOf(started),
           NEW total \in Nat, NEW source \in Sources, start_job(total, source)
    PROVE  TableTypes' /\ TaskTypes' /\ Stored(jobs') = NewestOf(started')
<1> DEFINE n == started + 1
           row == [status |-> "queued", progress |-> 0, result |-> NoResult, source |-> source]
           table == [jobs EXCEPT ![n] = row]
           t == [pc |-> "new", done |-> 0, total |-> total, sum |-> NoResult]
<1>1. n \in Ids /\ started \in Nat /\ started' = n /\ MaxJobs \in Nat \ {0} /\ n <= MaxStarts
      /\ MaxStarts \in Nat
  BY JobsAssumption DEF start_job, TableTypes, Ids
<1>2. row \in Row /\ row.status = "queued"
  BY NoResultType DEF Row
<1>3. table \in [Ids -> Row] /\ Stored(table) = Stored(jobs) \cup {n}
  BY <1>1, <1>2 DEF TableTypes, Stored
<1>4. NoRow \in Row /\ NoRow.status = "none"
  BY NoResultType DEF NoRow, Row, Sources
<1>5. jobs' = trim_jobs(table)
  BY DEF start_job
<1> HIDE DEF row
<1>6. jobs' \in [Ids -> Row]
  BY <1>3, <1>4, <1>5 DEF trim_jobs
<1>7. ASSUME NEW j \in Ids, j \in Stored(table)
      PROVE  Cardinality(Newer(table, j)) < MaxJobs <=> j > n - MaxJobs
  <2>1. j \in Int /\ n \in Int
    BY <1>1 DEF Ids
  <2>2. Stored(table) = NewestOf(started) \cup {n}
    BY <1>3
  <2> HIDE DEF table
  <2>3. j <= n
    BY <1>1, <1>7, <2>1, <2>2 DEF NewestOf
  <2>4. \A k : k \in NewestOf(started) \cup {n} /\ k > j <=> k \in (j + 1) .. n
    <3>1. CASE j = n
      BY <1>1, <2>1, <3>1 DEF NewestOf
    <3>2. CASE j # n
      <4>1. j \in NewestOf(started)
        BY <1>7, <2>2, <3>2
      <4> QED
        BY <1>1, <2>1, <4>1 DEF NewestOf
    <3> QED
      BY <3>1, <3>2
  <2>5. Newer(table, j) = (j + 1) .. n
    BY <2>2, <2>4 DEF Newer
  <2>6. j + 1 \in Int
    BY <2>1
  <2>7. Cardinality((j + 1) .. n) = IF j + 1 > n THEN 0 ELSE n - (j + 1) + 1
    BY <2>1, <2>6, FS_Interval
  <2> QED
    BY <1>1, <2>1, <2>3, <2>5, <2>7
<1>8. Stored(jobs') = {j \in Stored(table) : j > n - MaxJobs}
  <2> HIDE DEF table
  <2> QED BY <1>4, <1>5, <1>7 DEF trim_jobs, Stored
<1>9. Stored(jobs') = NewestOf(n)
  <2>1. Stored(jobs') = {j \in NewestOf(started) \cup {n} : j > n - MaxJobs}
    BY <1>3, <1>8
  <2>2. \A j : j \in NewestOf(started) \cup {n} /\ j > n - MaxJobs <=> j \in NewestOf(n)
    BY <1>1 DEF NewestOf
  <2> QED
    BY <2>1, <2>2
<1>10. task' = [task EXCEPT ![n] = t] /\ t \in Task
  BY NoResultType DEF start_job, Task
<1>11. TaskTypes'
  BY <1>1, <1>10 DEF TaskTypes
<1> QED
  BY <1>1, <1>6, <1>9, <1>11 DEF TableTypes

-----------------------------------------------------------------------------
(* The scheduler.                                                          *)

\* What the scheduler has started is not of the future, and it remembers the
\* day on which it last started something.
AutoInv ==
    \A a \in auto : /\ a.job <= started
                    /\ a.day <= clock.day
                    /\ a.day = clock.day => sched.date = clock.day

DayInv == SchedTypes /\ AutoInv /\ ScheduledOncePerDay

TableInv == TableTypes /\ TaskTypes /\ TableKeepsNewest

JobsInv == TableInv /\ DayInv

LEMMA TriggerKeepsDays ==
    ASSUME TableTypes, DayInv, NEW candles \in Nat, NEW reason \in {"scheduled", "manual_api"},
           reason = "scheduled" => sched.date # clock.day,
           trigger_now(candles, reason), clock' = clock
    PROVE  DayInv'
<1> DEFINE n == started + 1
           x == [job |-> n, day |-> clock.day, reason |-> reason]
<1>1. /\ started' = n /\ started \in 0 .. MaxStarts /\ n \in Ids /\ MaxStarts \in Nat
      /\ sched' = [date |-> clock.day, job |-> n, snap |-> NoSnapshot]
      /\ auto' = auto \cup {x}
  BY JobsAssumption DEF trigger_now, start_job, TableTypes, Ids
<1>2. clock.day \in 1 .. LastDay /\ clock.day \in Int /\ LastDay \in Nat
  BY DayAssumption DEF DayInv, SchedTypes
<1>3. x \in [job : Ids, day : 1 .. LastDay, reason : {"scheduled", "manual_api"}]
  BY <1>1, <1>2
<1>4. SchedTypes'
  <2>1. NoSnapshot \in [job : 0 .. MaxStarts, result : Results,
                        status : {"none", "queued", "running", "completed", "failed"}]
    BY <1>1, NoResultType DEF NoSnapshot
  <2>2. n \in 0 .. MaxStarts /\ clock.day \in 0 .. LastDay
    BY <1>1, <1>2 DEF Ids
  <2>3. sched' \in [date : 0 .. LastDay, job : 0 .. MaxStarts,
                    snap : [job : 0 .. MaxStarts, result : Results,
                            status : {"none", "queued", "running", "completed", "failed"}]]
    <3> HIDE DEF n
    <3> QED BY <1>1, <2>1, <2>2
  <2>4. auto' \subseteq [job : Ids, day : 1 .. LastDay, reason : {"scheduled", "manual_api"}]
    <3> HIDE DEF x
    <3> QED BY <1>1, <1>3 DEF DayInv, SchedTypes
  <2> QED
    BY <2>3, <2>4 DEF DayInv, SchedTypes
<1>5. sched'.date = clock.day /\ x.job = n /\ x.day = clock.day /\ x.reason = reason
  BY <1>1
<1>6. \A a \in auto : a.job \in Int /\ a.job <= started /\ a.job < n /\ a.day <= clock.day
                      /\ (a.day = clock.day => sched.date = clock.day)
  <2>1. \A a \in auto : a.job \in Int
    BY DEF DayInv, SchedTypes, Ids
  <2> QED
    BY <1>1, <2>1 DEF DayInv, AutoInv
<1> HIDE DEF x
<1>7. AutoInv'
  BY <1>1, <1>2, <1>5, <1>6 DEF AutoInv
<1>8. ScheduledOncePerDay'
  <2> SUFFICES ASSUME NEW a \in auto', NEW b \in auto', a.job < b.job, a.day = b.day
               PROVE  b.reason = "manual_api"
    BY DEF ScheduledOncePerDay
  <2>1. CASE b \in auto
    <3>1. a \in auto
      BY <1>1, <1>5, <1>6, <2>1
    <3> QED
      BY <2>1, <3>1 DEF DayInv, ScheduledOncePerDay
  <2>2. CASE b = x
    <3>1. a \in auto
      BY <1>1, <1>5, <2>2
    <3> QED
      BY <1>5, <1>6, <2>2, <3>1
  <2> QED
    BY <1>1, <2>1, <2>2
<1> QED
  BY <1>4, <1>7, <1>8 DEF DayInv

-----------------------------------------------------------------------------
(* The invariant.                                                          *)

LEMMA StartKeepsTable ==
    ASSUME TableInv, NEW total \in Nat, NEW source \in Sources, start_job(total, source)
    PROVE  TableInv'
<1>1. Stored(jobs) = NewestOf(started)
  BY DEF TableInv, TableKeepsNewest, NewestOf
<1>2. TableTypes' /\ TaskTypes' /\ Stored(jobs') = NewestOf(started')
  BY <1>1, StartKeepsNewest DEF TableInv
<1> QED
  BY <1>2 DEF TableInv, TableKeepsNewest, NewestOf

\* A request starts a job and leaves the scheduler alone.
LEMMA RequestKeepsInv ==
    ASSUME JobsInv, NEW total \in Nat, NEW source \in Sources, start_job(total, source),
           UNCHANGED <<sched, auto, clock>>
    PROVE  JobsInv'
<1>1. TableInv'
  BY StartKeepsTable DEF JobsInv
<1>2. started' = started + 1 /\ started \in Int
  BY JobsAssumption DEF start_job, JobsInv, TableInv, TableTypes
<1>3. SchedTypes' /\ ScheduledOncePerDay'
  BY DEF JobsInv, DayInv, SchedTypes, ScheduledOncePerDay
<1>4. \A a \in auto : a.job \in Int
  BY DEF JobsInv, DayInv, SchedTypes, Ids
<1>5. AutoInv'
  BY <1>2, <1>4 DEF JobsInv, DayInv, AutoInv
<1> QED
  BY <1>1, <1>3, <1>5 DEF JobsInv, DayInv

\* A trigger that is not skipped.
LEMMA TriggerKeepsInv ==
    ASSUME JobsInv, NEW candles \in load_auto_backtest_candles,
           NEW reason \in {"scheduled", "manual_api"},
           reason = "scheduled" => sched.date # clock.day,
           trigger_now(candles, reason), clock' = clock
    PROVE  JobsInv'
<1>1. candles \in Nat /\ build_signals(candles) \in Nat
  BY JobsAssumption DEF load_auto_backtest_candles, build_signals, trigger_now
<1>2. start_job(build_signals(candles), "auto")
  BY DEF trigger_now
<1>3. TableInv'
  BY <1>1, <1>2, StartKeepsTable DEF JobsInv, Sources
<1>4. DayInv'
  BY <1>1, TriggerKeepsDays DEF JobsInv, TableInv
<1> QED
  BY <1>3, <1>4 DEF JobsInv

\* A step of a coroutine changes no variable of the scheduler.
LEMMA JobKeepsInv ==
    ASSUME JobsInv, NEW j \in Ids, JobStep(j)
    PROVE  JobsInv'
<1>1. SameRows
  BY JobKeepsRows DEF JobsInv, TableInv
<1>2. UNCHANGED <<sched, auto, clock>>
  BY DEF JobStep, BeginJob, SimulateSignal, SimulationRaises, NoticeSent
<1>3. TableInv'
  BY <1>1 DEF SameRows, JobsInv, TableInv, TableKeepsNewest
<1>4. DayInv'
  BY <1>1, <1>2 DEF SameRows, JobsInv, DayInv, SchedTypes, AutoInv, ScheduledOncePerDay
<1> QED
  BY <1>3, <1>4 DEF JobsInv

\* A watcher writes no more than the snapshot.
LEMMA WatchKeepsInv ==
    ASSUME JobsInv, NEW j \in Ids, WatchJob(j)
    PROVE  JobsInv'
<1>1. UNCHANGED <<started, jobs, task, auto, clock>>
  BY DEF WatchJob, rowVars
<1>2. TableInv'
  BY <1>1 DEF JobsInv, TableInv, TableTypes, TaskTypes, TableKeepsNewest, Stored
<1>3. sched'.date = sched.date
      /\ sched' \in [date : 0 .. LastDay, job : 0 .. MaxStarts,
                     snap : [job : 0 .. MaxStarts, result : Results,
                             status : {"none", "queued", "running", "completed", "failed"}]]
  <2>1. sched \in [date : 0 .. LastDay, job : 0 .. MaxStarts,
                   snap : [job : 0 .. MaxStarts, result : Results,
                           status : {"none", "queued", "running", "completed", "failed"}]]
    BY DEF JobsInv, DayInv, SchedTypes
  <2>2. CASE ~Ended(jobs[j])
    BY <2>1, <2>2 DEF WatchJob
  <2>3. CASE Ended(jobs[j])
    <3> DEFINE snap == [job |-> j, status |-> jobs[j].status, result |-> jobs[j].result]
    <3>1. jobs[j].status \in {"none", "queued", "running", "completed", "failed"}
          /\ jobs[j].result \in Results
      BY DEF JobsInv, TableInv, TableTypes, Row
    <3>2. j \in 0 .. MaxStarts
      BY JobsAssumption DEF Ids
    <3>3. snap \in [job : 0 .. MaxStarts, result : Results,
                    status : {"none", "queued", "running", "completed", "failed"}]
      BY <3>1, <3>2
    <3>4. sched' = [sched EXCEPT !.snap = snap]
      BY <2>3 DEF WatchJob
    <3> HIDE DEF snap
    <3> QED
      BY <2>1, <3>3, <3>4
  <2> QED
    BY <2>2, <2>3
<1>4. DayInv'
  BY <1>1, <1>3 DEF JobsInv, DayInv, SchedTypes, AutoInv, ScheduledOncePerDay
<1> QED
  BY <1>2, <1>4 DEF JobsInv

LEMMA DayKeepsInv ==
    ASSUME JobsInv, DayPasses
    PROVE  JobsInv'
<1>1. UNCHANGED <<started, jobs, task, sched, auto>>
  BY DEF DayPasses, rowVars
<1>2. TableInv'
  BY <1>1 DEF JobsInv, TableInv, TableTypes, TaskTypes, TableKeepsNewest, Stored
<1>3. clock \in [day : 1 .. LastDay, late : BOOLEAN] /\ clock.day \in Int /\ LastDay \in Nat
  BY DayAssumption DEF JobsInv, DayInv, SchedTypes
<1>4. clock' \in [day : 1 .. LastDay, late : BOOLEAN]
      /\ (clock'.day = clock.day \/ clock'.day = clock.day + 1)
  <2>1. CASE RunHourComes
    <3>1. clock' = [day |-> clock.day, late |-> TRUE]
      BY <1>3, <2>1 DEF RunHourComes
    <3>2. clock'.day = clock.day
      BY <3>1
    <3>3. TRUE \in BOOLEAN /\ clock.day \in 1 .. LastDay
      BY <1>3
    <3>4. clock' \in [day : 1 .. LastDay, late : BOOLEAN]
      BY <3>1, <3>3, Zenon
    <3> QED
      BY <3>2, <3>4
  <2>2. CASE NextDay
    <3>1. clock' = [day |-> clock.day + 1, late |-> FALSE]
      BY <2>2 DEF NextDay
    <3>2. clock'.day = clock.day + 1
      BY <3>1
    <3>3. clock.day \in 1 .. LastDay /\ clock.day < LastDay
      BY <1>3, <2>2 DEF NextDay
    <3>4. clock.day + 1 \in 1 .. LastDay /\ FALSE \in BOOLEAN
      BY <1>3, <3>3
    <3>5. clock' \in [day : 1 .. LastDay, late : BOOLEAN]
      BY <3>1, <3>4, Zenon
    <3> QED
      BY <3>2, <3>5
  <2> QED
    BY <2>1, <2>2 DEF DayPasses
<1>5. \A a \in auto : a.day \in Int
  BY DEF JobsInv, DayInv, SchedTypes
<1>6. AutoInv'
  BY <1>1, <1>3, <1>4, <1>5 DEF JobsInv, DayInv, AutoInv
<1>7. SchedTypes' /\ ScheduledOncePerDay'
  BY <1>1, <1>4 DEF JobsInv, DayInv, SchedTypes, ScheduledOncePerDay
<1> QED
  BY <1>2, <1>6, <1>7 DEF JobsInv, DayInv

LEMMA JobsInitInv == JobsInit => JobsInv
<1> SUFFICES ASSUME JobsInit PROVE JobsInv
  OBVIOUS
<1>1. NoRow \in Row /\ NoRow.status = "none"
  BY NoResultType DEF NoRow, Row, Sources
<1>2. NoTask \in Task /\ NoTask.pc = "none"
  BY NoResultType DEF NoTask, Task
<1>3. TableTypes /\ TaskTypes
  BY <1>1, <1>2, JobsAssumption DEF JobsInit, TableTypes, TaskTypes
<1>4. Stored(jobs) = {}
  BY <1>1 DEF JobsInit, Stored
<1>5. started = 0 /\ 1 .. 0 = {}
  BY DEF JobsInit
<1>6. TableKeepsNewest
  BY <1>4, <1>5 DEF TableKeepsNewest
<1>7. NoSnapshot \in [job : 0 .. MaxStarts, result : Results,
                      status : {"none", "queued", "running", "completed", "failed"}]
  BY NoResultType, JobsAssumption DEF NoSnapshot
<1>8. SchedTypes
  BY <1>7, JobsAssumption, DayAssumption DEF JobsInit, SchedTypes
<1>9. AutoInv /\ ScheduledOncePerDay
  BY DEF JobsInit, AutoInv, ScheduledOncePerDay
<1> QED
  BY <1>3, <1>6, <1>8, <1>9 DEF JobsInv, TableInv, DayInv

LEMMA JobsStepInv == JobsInv /\ [JobsNext]_jobsVars => JobsInv'
<1> SUFFICES ASSUME JobsInv, [JobsNext]_jobsVars PROVE JobsInv'
  OBVIOUS
<1>1. ASSUME NEW slippage \in {5, 51}, NEW n \in ApiSignals, run_backtest(slippage, n)
      PROVE  JobsInv'
  BY <1>1, JobsAssumption, RequestKeepsInv DEF run_backtest, Sources
<1>2. ASSUME NEW req \in Requests, NEW n \in DashboardSignals, start_manual_backtest(req, n)
      PROVE  JobsInv'
  BY <1>2, JobsAssumption, RequestKeepsInv DEF start_manual_backtest, Sources
<1>3. ASSUME NEW n \in load_auto_backtest_candles, trigger_if_due(n)
      PROVE  JobsInv'
  BY <1>3, TriggerKeepsInv DEF trigger_if_due
<1>4. ASSUME NEW n \in load_auto_backtest_candles, RunNow(n)
      PROVE  JobsInv'
  BY <1>4, TriggerKeepsInv DEF RunNow
<1>5. CASE UNCHANGED jobsVars
  BY <1>5 DEF jobsVars, JobsInv, TableInv, DayInv, TableTypes, TaskTypes, TableKeepsNewest,
              Stored, SchedTypes, AutoInv, ScheduledOncePerDay
<1> QED
  BY <1>1, <1>2, <1>3, <1>4, <1>5, JobKeepsInv, WatchKeepsInv, DayKeepsInv DEF JobsNext

LEMMA JobsInvariant == JobsSpec => []JobsInv
BY JobsInitInv, JobsStepInv, PTL DEF JobsSpec

-----------------------------------------------------------------------------
\* Rows, coroutines and the scheduler's record keep their types, and a
\* coroutine in the loop of _run_job always has a signal left.
THEOREM JobsTypeCorrect == JobsSpec => []JobsTypeOK
<1>1. JobsInv => JobsTypeOK
  BY DEF JobsInv, TableInv, DayInv, TableTypes, TaskTypes, SchedTypes, JobsTypeOK
<1> QED
  BY <1>1, JobsInvariant, PTL

\* For every size of the table and every interleaving of jobs: after _trim_jobs
\* the table holds the newest max_jobs jobs, and no later step of a coroutine
\* whose row was trimmed brings it back.
THEOREM TrimKeepsNewest == JobsSpec => []TableKeepsNewest
<1>1. JobsInv => TableKeepsNewest
  BY DEF JobsInv, TableInv
<1> QED
  BY <1>1, JobsInvariant, PTL

\* For every number of days and requests: trigger_if_due starts no job on a day
\* on which trigger_now has started one, whichever way it was called.
THEOREM OneScheduledRunPerDay == JobsSpec => []ScheduledOncePerDay
<1>1. JobsInv => ScheduledOncePerDay
  BY DEF JobsInv, DayInv
<1> QED
  BY <1>1, JobsInvariant, PTL

-----------------------------------------------------------------------------
(* Outcomes: what a row says at each place of its coroutine.               *)

\* A coroutine before its loop has a queued row, one in its loop a running row
\* whose progress is that of the loop; a row that was trimmed stays away; the
\* tallies add up to the turns taken; the message is sent once, at the end.
JobInv(row, t, sent) ==
    /\ sent \in {0, 1}
    /\ t.pc \in {"none", "new", "loop", "notify"} => sent = 0
    /\ t.pc = "none" => row.status = "none"
    /\ t.pc = "new" => row.status \in {"none", "queued"} /\ t.sum = NoResult
    /\ t.pc = "loop" => row.status \in {"none", "running"} /\ t.sum.trades + t.sum.skipped = t.done
    /\ t.pc \in {"notify", "end"} => row.status \in {"none", "completed", "failed"}
    /\ (t.pc = "notify" \/ sent = 1) => row.source # "dashboard_manual"
    /\ row.status = "queued" => row.progress = 0
    /\ row.status = "running" => row.progress = (t.done * 100) \div t.total
    /\ row.status = "completed" => row.result.trades + row.result.skipped = t.total

\* What RowsMoveForward asks of one row.
Goes(row, new) ==
    row.status # "none" /\ new.status # "none" =>
        /\ Rank[new.status] >= Rank[row.status]
        /\ new.progress >= row.progress
        /\ Rank[row.status] = 3 => new = row

EachJobInv ==
    /\ notices \in [Ids -> {0, 1}]
    /\ \A j \in Ids : JobInv(jobs[j], task[j], notices[j]) /\ (j > started => task[j].pc = "none")

\* Only jobs of the scheduler are watched.
WatchInv ==
    /\ watch \in [Ids -> Nat]
    /\ \A j \in Ids : watch[j] > 0 => \E a \in auto : a.job = j

OutcomeInv == EachJobInv /\ WatchInv /\ ShownResultIsFinal

\* A step of the coroutine of j: it alone moves, and its row goes forward.
JobGoes(j) ==
    /\ started' = started
    /\ task[j].pc # "none"
    /\ notices' \in [Ids -> {0, 1}]
    /\ \A k \in Ids \ {j} : jobs'[k] = jobs[k] /\ task'[k] = task[k] /\ notices'[k] = notices[k]
    /\ JobInv(jobs'[j], task'[j], notices'[j])
    /\ Goes(jobs[j], jobs'[j])
    /\ jobs[j].status = "none" => jobs'[j].status = "none"

\* Any step: rows go forward, and a row that is gone does not come back.
RowsGo ==
    \A k \in Ids : /\ Goes(jobs[k], jobs'[k])
                   /\ jobs[k].status = "none" /\ k <= started => jobs'[k].status = "none"

\* Progress never falls from one turn of the loop to the next.
LEMMA DivGrows ==
    ASSUME NEW a \in Nat, NEW b \in Nat, a <= b, NEW t \in Nat \ {0}
    PROVE  a \div t <= b \div t
<1> DEFINE p == a \div t
           q == b \div t
<1>1. p \in Int /\ q \in Int /\ t * p <= a /\ b < t * q + t
  OBVIOUS
<1> HIDE DEF p, q
<1>2. CASE p <= q
  BY <1>2 DEF p, q
<1>3. CASE p >= q + 1
  <2>1. t * (q + 1) <= t * p
    BY <1>1, <1>3
  <2>2. t * (q + 1) = t * q + t
    BY <1>1
  <2>3. t * p \in Int /\ t * q \in Int
    BY <1>1
  <2> QED BY <1>1, <2>1, <2>2, <2>3
<1> QED BY <1>1, <1>2, <1>3

\* Before the last turn the progress is at most 100.
LEMMA ProgressBounded ==
    ASSUME NEW d \in Nat, NEW t \in Nat \ {0}, d <= t
    PROVE  (d * 100) \div t \in Int /\ (d * 100) \div t <= 100
<1>1. (d * 100) \div t <= (t * 100) \div t
  BY DivGrows
<1>2. (t * 100) \div t = 100
  OBVIOUS
<1> QED BY <1>1, <1>2

LEMMA SameRowGoes ==
    ASSUME NEW row \in Row
    PROVE  Goes(row, row)
BY DEF Goes, Rank, Row

\* A row that ends has gone forward.
LEMMA EndedRowGoes ==
    ASSUME NEW row \in Row, row.status \in {"queued", "running"}, row.progress <= 100,
           NEW status \in {"completed", "failed"}, NEW sum \in Results
    PROVE  /\ Goes(row, EndedRow(row, status, sum))
           /\ EndedRow(row, status, sum).source = row.source
           /\ status = "completed" => EndedRow(row, status, sum).result = sum
<1>1. CASE status = "completed"
  <2>1. EndedRow(row, status, sum) = [row EXCEPT !.status = status, !.progress = 100, !.result = sum]
    BY <1>1 DEF EndedRow, Row
  <2>2. EndedRow(row, status, sum) = [status |-> "completed", progress |-> 100, result |-> sum,
                                      source |-> row.source]
    BY <1>1, <2>1 DEF Row
  <2> QED BY <1>1, <2>2 DEF Goes, Rank, Row
<1>2. CASE status = "failed"
  <2>1. EndedRow(row, status, sum) = [row EXCEPT !.status = "failed"]
    BY <1>2 DEF EndedRow, Row
  <2>2. EndedRow(row, status, sum).progress = row.progress /\ row.progress \in Int
        /\ EndedRow(row, status, sum).status = "failed" /\ EndedRow(row, status, sum).source = row.source
    BY <2>1 DEF Row
  <2> QED BY <1>2, <2>2 DEF Goes, Rank
<1> QED BY <1>1, <1>2

\* The end of a job, from any place in front of it.
LEMMA EndGoes ==
    ASSUME TableTypes, TaskTypes, EachJobInv, NEW j \in Ids, NEW STATE t, t \in Task,
           task[j].pc \in {"new", "loop"}, jobs[j].status \in {"none", "queued", "running"},
           jobs[j].status # "none" => jobs[j].progress <= 100,
           NEW status \in {"completed", "failed"}, EndJob(j, t, status),
           status = "completed" => t.sum.trades + t.sum.skipped = t.total,
           UNCHANGED <<started, notices>>
    PROVE  JobGoes(j)
<1>0. /\ jobs \in [Ids -> Row] /\ task \in [Ids -> Task] /\ jobs[j] \in Row /\ t.sum \in Results
      /\ notices[j] = 0 /\ notices \in [Ids -> {0, 1}]
  BY DEF TableTypes, TaskTypes, Task, EachJobInv, JobInv
<1>1. ASSUME NEW q \in {"notify", "end"}
      PROVE  Finished(t, q).pc = q /\ Finished(t, q).total = t.total
  BY DEF Finished, Task
<1>2. CASE jobs[j].status = "none"
  <2>1. task' = [task EXCEPT ![j] = Finished(t, "end")] /\ jobs' = jobs
    BY <1>2 DEF EndJob
  <2>2. task'[j].pc = "end"
    BY <1>0, <1>1, <2>1
  <2>3. JobInv(jobs'[j], task'[j], notices'[j])
    BY <1>0, <1>2, <2>1, <2>2 DEF JobInv
  <2> QED BY <1>0, <1>2, <2>1, <2>3 DEF JobGoes, Goes
<1>3. CASE jobs[j].status # "none"
  <2> DEFINE q == IF should_notify(jobs[j]) THEN "notify" ELSE "end"
             row == EndedRow(jobs[j], status, t.sum)
             f == Finished(t, q)
  <2>1. task' = [task EXCEPT ![j] = f] /\ jobs' = [jobs EXCEPT ![j] = row]
    BY <1>3 DEF EndJob, TableTypes
  <2>2. q \in {"notify", "end"} /\ (q = "notify" => jobs[j].source # "dashboard_manual")
    BY DEF should_notify
  <2>3. row \in Row /\ row.status = status
    BY <1>0, EndedRowType
  <2>4. Goes(jobs[j], row) /\ row.source = jobs[j].source /\ (status = "completed" => row.result = t.sum)
    BY <1>0, <1>3, EndedRowGoes
  <2> HIDE DEF q, row
  <2>5. f.pc = q /\ f.total = t.total
    BY <1>1, <2>2
  <2> HIDE DEF f
  <2>6. JobInv(row, f, 0)
    BY <1>0, <2>2, <2>3, <2>4, <2>5 DEF JobInv
  <2>7. jobs'[j] = row /\ task'[j] = f /\ notices'[j] = 0
    BY <1>0, <2>1
  <2> QED BY <1>0, <1>3, <2>1, <2>4, <2>6, <2>7 DEF JobGoes
<1> QED BY <1>2, <1>3

\* The progress a row may have before its job ends.
LEMMA ProgressInLoop ==
    ASSUME TableTypes, TaskTypes, EachJobInv, NEW j \in Ids, task[j].pc \in {"new", "loop"}
    PROVE  /\ jobs[j].status \in {"none", "queued", "running"}
           /\ jobs[j].status # "none" => jobs[j].progress \in Int /\ jobs[j].progress <= 100
<1>1. JobInv(jobs[j], task[j], notices[j]) /\ task[j].done \in Nat /\ task[j].total \in Nat
  BY DEF EachJobInv, TaskTypes, Task
<1>2. CASE task[j].pc = "new"
  BY <1>1, <1>2 DEF JobInv
<1>3. CASE task[j].pc = "loop"
  <2>1. task[j].done < task[j].total
    BY <1>3 DEF TaskTypes
  <2>2. (task[j].done * 100) \div task[j].total \in Int /\ (task[j].done * 100) \div task[j].total <= 100
    BY <1>1, <2>1, ProgressBounded
  <2> QED BY <1>1, <1>3, <2>2 DEF JobInv
<1> QED BY <1>2, <1>3

\* The first step of a coroutine takes the queued row to running, or to its
\* end when there are no signals.
LEMMA BeginGoes ==
    ASSUME TableTypes, TaskTypes, EachJobInv, NEW j \in Ids, BeginJob(j)
    PROVE  JobGoes(j)
<1>0. /\ jobs \in [Ids -> Row] /\ task \in [Ids -> Task] /\ jobs[j] \in Row /\ task[j] \in Task
      /\ notices \in [Ids -> {0, 1}] /\ JobInv(jobs[j], task[j], notices[j])
  BY DEF TableTypes, TaskTypes, EachJobInv
<1>1. task[j].pc = "new" /\ task[j].done = 0 /\ UNCHANGED <<started, notices>>
  BY DEF BeginJob, TaskTypes
<1>2. CASE /\ jobs[j].status = "none"
           /\ task' = [task EXCEPT ![j].pc = "end"]
           /\ UNCHANGED jobs
  <2>1. task'[j].pc = "end" /\ task'[j].total = task[j].total
    BY <1>0, <1>2 DEF Task
  <2>2. JobInv(jobs'[j], task'[j], notices'[j])
    BY <1>0, <1>1, <1>2, <2>1 DEF JobInv
  <2> QED BY <1>0, <1>1, <1>2, <2>2 DEF JobGoes, Goes
<1>3. CASE /\ jobs[j].status # "none"
           /\ task[j].total = 0
           /\ EndJob(j, task[j], "completed")
  <2>1. task[j].sum.trades + task[j].sum.skipped = task[j].total
    BY <1>0, <1>1, <1>3 DEF JobInv, NoResult
  <2> QED BY <1>0, <1>1, <1>3, <2>1, ProgressInLoop, EndGoes
<1>4. CASE /\ jobs[j].status # "none"
           /\ task[j].total > 0
           /\ jobs' = [jobs EXCEPT ![j].status = "running"]
           /\ task' = [task EXCEPT ![j].pc = "loop"]
  <2> DEFINE t == [task[j] EXCEPT !.pc = "loop"]
             row == [jobs[j] EXCEPT !.status = "running"]
  <2>1. task' = [task EXCEPT ![j] = t] /\ jobs' = [jobs EXCEPT ![j] = row]
    BY <1>0, <1>4
  <2>2. t.pc = "loop" /\ t.done = 0 /\ t.total = task[j].total /\ t.sum = task[j].sum
        /\ t.total \in Nat \ {0}
    BY <1>0, <1>1, <1>4 DEF Task
  <2>3. row.status = "running" /\ row.progress = jobs[j].progress /\ row.source = jobs[j].source
    BY <1>0 DEF Row
  <2>4. jobs[j].status = "queued" /\ jobs[j].progress = 0 /\ task[j].sum = NoResult /\ notices[j] = 0
    BY <1>0, <1>1, <1>4 DEF JobInv
  <2> HIDE DEF t, row
  <2>5. (t.done * 100) \div t.total = 0
    BY <2>2
  <2>6. JobInv(row, t, 0)
    BY <2>2, <2>3, <2>4, <2>5 DEF JobInv, NoResult
  <2>7. Goes(jobs[j], row)
    BY <2>3, <2>4 DEF Goes, Rank
  <2>8. jobs'[j] = row /\ task'[j] = t /\ notices'[j] = 0
    BY <1>0, <1>1, <2>1, <2>4
  <2> QED BY <1>0, <1>1, <2>1, <2>4, <2>6, <2>7, <2>8 DEF JobGoes
<1> QED BY <1>2, <1>3, <1>4 DEF BeginJob

LEMMA TallyAdds ==
    ASSUME NEW sum \in Results, NEW outcome
    PROVE  Tally(sum, outcome).trades + Tally(sum, outcome).skipped = sum.trades + sum.skipped + 1
<1>1. CASE outcome = "skip"
  BY <1>1 DEF Tally, Results
<1>2. CASE outcome # "skip"
  BY <1>2 DEF Tally, Results
<1> QED BY <1>1, <1>2

LEMMA TurnSum ==
    ASSUME NEW u \in Task, NEW s \in Results, NEW d \in Nat
    PROVE  [u EXCEPT !.done = d, !.sum = s].sum = s
<1> DEFINE v == [u EXCEPT !.done = d]
<1>1. v \in Task
  BY DEF Task
<1>2. [u EXCEPT !.done = d, !.sum = s] = [v EXCEPT !.sum = s]
  BY DEF Task
<1> HIDE DEF v
<1> QED BY <1>1, <1>2 DEF Task

\* One turn of the loop counts its signal once and lets the progress grow.
LEMMA SimulateGoes ==
    ASSUME TableTypes, TaskTypes, EachJobInv, NEW j \in Ids, NEW outcome, SimulateSignal(j, outcome)
    PROVE  JobGoes(j)
<1> DEFINE s == Tally(task[j].sum, outcome)
           d == task[j].done + 1
           t == [task[j] EXCEPT !.done = @ + 1, !.sum = Tally(@, outcome)]
           u == [task[j] EXCEPT !.done = d, !.sum = s]
<1>0. /\ jobs \in [Ids -> Row] /\ task \in [Ids -> Task] /\ jobs[j] \in Row /\ task[j] \in Task
      /\ notices \in [Ids -> {0, 1}] /\ JobInv(jobs[j], task[j], notices[j])
  BY DEF TableTypes, TaskTypes, EachJobInv
<1>1. /\ task[j].pc = "loop" /\ task[j].done < task[j].total /\ UNCHANGED <<started, notices>>
      /\ task[j].sum \in Results /\ task[j].done \in Nat /\ task[j].total \in Nat
  BY <1>0 DEF SimulateSignal, TaskTypes, Task
<1>2. s \in Results /\ d \in Nat /\ s.trades + s.skipped = d
  BY <1>0, <1>1, TallyType, TallyAdds DEF JobInv
<1>3. t = u
  BY <1>0 DEF Task
<1>4. u \in Task /\ u.pc = "loop" /\ u.done = d /\ u.total = task[j].total /\ u.sum = s
  <2> HIDE DEF s, d
  <2>1. task[j] \in Task /\ s \in Results /\ d \in Nat
    BY <1>0, <1>2
  <2>2. /\ [task[j] EXCEPT !.done = d, !.sum = s] \in Task
        /\ [task[j] EXCEPT !.done = d, !.sum = s].pc = task[j].pc
        /\ [task[j] EXCEPT !.done = d, !.sum = s].done = d
        /\ [task[j] EXCEPT !.done = d, !.sum = s].total = task[j].total
    BY <2>1, TurnType, Zenon
  <2>3. [task[j] EXCEPT !.done = d, !.sum = s].sum = s
    BY <2>1, TurnSum, Zenon
  <2> HIDE DEF u
  <2> QED BY <1>1, <2>2, <2>3 DEF u
<1>5. IF u.done = u.total
      THEN EndJob(j, u, "completed")
      ELSE jobs' = update_progress(j, u) /\ task' = [task EXCEPT ![j] = u]
  BY <1>3 DEF SimulateSignal
<1> HIDE DEF s, u, t
<1>6. CASE u.done = u.total
  BY <1>0, <1>1, <1>2, <1>4, <1>5, <1>6, ProgressInLoop, EndGoes
<1>7. CASE u.done # u.total
  <2>1. task'[j] = u /\ notices'[j] = 0 /\ notices[j] = 0
    BY <1>0, <1>1, <1>5, <1>7 DEF JobInv
  <2>2. CASE jobs[j].status = "none"
    <3>1. jobs' = jobs
      BY <1>5, <1>7, <2>2 DEF update_progress
    <3>2. JobInv(jobs[j], u, 0)
      BY <1>0, <1>2, <1>4, <2>2 DEF JobInv
    <3> QED BY <1>0, <1>1, <1>5, <1>7, <2>1, <2>2, <3>1, <3>2 DEF JobGoes, Goes
  <2>3. CASE jobs[j].status # "none"
    <3> DEFINE p == (u.done * 100) \div u.total
               row == [jobs[j] EXCEPT !.progress = p]
    <3>1. jobs' = [jobs EXCEPT ![j] = row]
      BY <1>0, <1>5, <1>7, <2>3 DEF update_progress
    <3>2. jobs[j].status = "running" /\ jobs[j].progress = (task[j].done * 100) \div task[j].total
      BY <1>0, <1>1, <2>3 DEF JobInv
    <3>3. p \in Int /\ jobs[j].progress \in Int /\ p >= jobs[j].progress
      <4>1. task[j].total \in Nat \ {0} /\ task[j].done * 100 \in Nat /\ u.done * 100 \in Nat
            /\ task[j].done * 100 <= u.done * 100
        BY <1>1, <1>2, <1>4
      <4> QED BY <1>0, <1>4, <3>2, <4>1, DivGrows DEF Row
    <3> HIDE DEF p
    <3>4. row.status = "running" /\ row.progress = p /\ row.source = jobs[j].source
      BY <1>0, <3>2 DEF Row
    <3> HIDE DEF row
    <3>5. JobInv(row, u, 0)
      BY <1>2, <1>4, <3>4 DEF JobInv, p
    <3>6. Goes(jobs[j], row)
      BY <3>2, <3>3, <3>4 DEF Goes, Rank
    <3>7. jobs'[j] = row
      BY <1>0, <3>1
    <3> QED BY <1>0, <1>1, <1>5, <1>7, <2>1, <2>3, <3>1, <3>5, <3>6, <3>7 DEF JobGoes
  <2> QED BY <2>2, <2>3
<1> QED BY <1>6, <1>7

\* The message is sent after the end and changes no row.
LEMMA NoticeGoes ==
    ASSUME TableTypes, TaskTypes, EachJobInv, NEW j \in Ids, NoticeSent(j)
    PROVE  JobGoes(j)
<1>0. /\ jobs \in [Ids -> Row] /\ task \in [Ids -> Task] /\ jobs[j] \in Row /\ task[j] \in Task
      /\ notices \in [Ids -> {0, 1}] /\ JobInv(jobs[j], task[j], notices[j])
  BY DEF TableTypes, TaskTypes, EachJobInv
<1>1. /\ task[j].pc = "notify" /\ UNCHANGED <<started, jobs>> /\ notices[j] = 0
      /\ task' = [task EXCEPT ![j].pc = "end"] /\ notices' = [notices EXCEPT ![j] = @ + 1]
  BY <1>0 DEF NoticeSent, JobInv
<1>2. task'[j].pc = "end" /\ task'[j].total = task[j].total
  BY <1>0, <1>1 DEF Task
<1>3. notices'[j] = 1 /\ notices' \in [Ids -> {0, 1}]
  BY <1>0, <1>1
<1>4. JobInv(jobs[j], task'[j], 1)
  BY <1>0, <1>1, <1>2 DEF JobInv
<1>5. \A k \in Ids \ {j} : jobs'[k] = jobs[k] /\ task'[k] = task[k] /\ notices'[k] = notices[k]
  BY <1>0, <1>1
<1> QED BY <1>0, <1>1, <1>3, <1>4, <1>5, SameRowGoes DEF JobGoes

LEMMA JobStepGoes ==
    ASSUME TableTypes, TaskTypes, EachJobInv, NEW j \in Ids, JobStep(j)
    PROVE  JobGoes(j)
<1>1. ASSUME SimulationRaises(j) PROVE JobGoes(j)
  <2>1. task[j].pc = "loop" /\ task[j] \in Task /\ UNCHANGED <<started, notices>>
        /\ EndJob(j, task[j], "failed")
    BY <1>1 DEF SimulationRaises, TaskTypes
  <2> QED BY <2>1, ProgressInLoop, EndGoes
<1> QED BY <1>1, BeginGoes, SimulateGoes, NoticeGoes DEF JobStep

-----------------------------------------------------------------------------
(* Outcomes: every step of the system.                                     *)

LEMMA OneJobGoes ==
    ASSUME TableTypes, EachJobInv, NEW j \in Ids, JobGoes(j)
    PROVE  EachJobInv' /\ RowsGo
<1>0. j \in Int /\ started \in Int /\ started' = started /\ j <= started
  BY JobsAssumption DEF JobGoes, EachJobInv, TableTypes, Ids
<1>1. ASSUME NEW k \in Ids
      PROVE  /\ JobInv(jobs'[k], task'[k], notices'[k]) /\ (k > started' => task'[k].pc = "none")
             /\ Goes(jobs[k], jobs'[k])
             /\ jobs[k].status = "none" => jobs'[k].status = "none"
  <2>1. CASE k = j
    BY <1>0, <2>1 DEF JobGoes
  <2>2. CASE k # j
    BY <1>0, <2>2, SameRowGoes DEF JobGoes, EachJobInv, TableTypes
  <2> QED BY <2>1, <2>2
<1>2. notices' \in [Ids -> {0, 1}]
  BY DEF JobGoes
<1> QED BY <1>1, <1>2 DEF EachJobInv, RowsGo

\* Trimming a row takes nothing from what holds of its coroutine.
LEMMA TrimmedJob ==
    ASSUME NEW row, NEW t, NEW sent, JobInv(row, t, sent)
    PROVE  JobInv(NoRow, t, sent) /\ Goes(row, NoRow)
BY DEF JobInv, Goes, NoRow

\* A new job: its row is queued, the rows beyond max_jobs go, and no other row
\* is touched.
LEMMA StartGoes ==
    ASSUME TableTypes, TaskTypes, EachJobInv, NEW total \in Nat, NEW source \in Sources,
           start_job(total, source)
    PROVE  EachJobInv' /\ RowsGo
<1> DEFINE n == started + 1
           row == [status |-> "queued", progress |-> 0, result |-> NoResult, source |-> source]
           table == [jobs EXCEPT ![n] = row]
           t == [pc |-> "new", done |-> 0, total |-> total, sum |-> NoResult]
<1>0. /\ n \in Ids /\ started \in Nat /\ started' = n /\ MaxStarts \in Nat
      /\ jobs \in [Ids -> Row] /\ task \in [Ids -> Task] /\ notices \in [Ids -> {0, 1}]
      /\ jobs' = trim_jobs(table) /\ task' = [task EXCEPT ![n] = t] /\ notices' = notices
  BY JobsAssumption DEF start_job, TableTypes, TaskTypes, EachJobInv, Ids
<1>1. JobInv(row, t, 0) /\ t.pc = "new"
  BY DEF JobInv, NoResult
<1>2. task[n].pc = "none" /\ jobs[n].status = "none" /\ notices[n] = 0
  BY <1>0 DEF EachJobInv, JobInv
<1> HIDE DEF row, t
<1>3. \A k \in Ids : jobs'[k] = table[k] \/ jobs'[k] = NoRow
  <2> HIDE DEF table
  <2> QED BY <1>0 DEF trim_jobs
<1>4. ASSUME NEW k \in Ids
      PROVE  /\ JobInv(jobs'[k], task'[k], notices'[k]) /\ (k > started' => task'[k].pc = "none")
             /\ Goes(jobs[k], jobs'[k])
             /\ (jobs[k].status = "none" /\ k <= started => jobs'[k].status = "none")
  <2>1. CASE k = n
    <3>1. task'[k] = t /\ notices'[k] = 0 /\ (jobs'[k] = row \/ jobs'[k] = NoRow)
      BY <1>0, <1>2, <1>3, <2>1
    <3>2. JobInv(jobs'[k], task'[k], notices'[k])
      BY <1>1, <3>1, TrimmedJob
    <3> QED BY <1>0, <1>2, <2>1, <3>2 DEF Goes
  <2>2. CASE k # n
    <3>1. /\ task'[k] = task[k] /\ notices'[k] = notices[k]
          /\ jobs'[k] = jobs[k] \/ jobs'[k] = NoRow
      BY <1>0, <1>3, <2>2
    <3>2. JobInv(jobs[k], task[k], notices[k]) /\ jobs[k] \in Row /\ (k > started => task[k].pc = "none")
      BY <1>0 DEF EachJobInv
    <3>3. JobInv(jobs'[k], task'[k], notices'[k]) /\ Goes(jobs[k], jobs'[k])
      BY <3>1, <3>2, TrimmedJob, SameRowGoes
    <3>4. k > started' => k > started
      BY <1>0 DEF Ids
    <3> QED BY <3>1, <3>2, <3>3, <3>4 DEF NoRow
  <2> QED BY <2>1, <2>2
<1>5. notices' \in [Ids -> {0, 1}]
  BY <1>0
<1> QED BY <1>4, <1>5 DEF EachJobInv, RowsGo

\* The snapshot stays true while rows only go forward and no trimmed row comes
\* back.
LEMMA ShownStaysFinal ==
    ASSUME TableTypes, DayInv, ShownResultIsFinal, RowsGo, TableTypes', auto \subseteq auto',
           sched'.snap = sched.snap \/ sched'.snap.job = 0
    PROVE  ShownResultIsFinal'
<1>1. CASE sched'.snap.job = 0
  BY <1>1 DEF ShownResultIsFinal
<1>2. CASE sched'.snap = sched.snap /\ sched.snap.job # 0
  <2> DEFINE snap == sched.snap
             k == snap.job
  <2>1. PICK a \in auto : a.job = k
    BY <1>2 DEF ShownResultIsFinal
  <2>2. k \in Ids /\ k <= started
    BY <2>1 DEF DayInv, SchedTypes, AutoInv
  <2>3. /\ snap.status \in {"completed", "failed"}
        /\ jobs[k].status # "none" => jobs[k].status = snap.status /\ jobs[k].result = snap.result
    BY <1>2 DEF ShownResultIsFinal
  <2>4. jobs'[k].status # "none" => jobs'[k] = jobs[k]
    BY <2>2, <2>3 DEF RowsGo, Goes, Rank
  <2>5. k \in {b.job : b \in auto'}
    BY <2>1
  <2> HIDE DEF k, snap
  <2>6. /\ k \in {b.job : b \in auto'}
        /\ snap.status \in {"completed", "failed"}
        /\ jobs'[k].status # "none" => jobs'[k].status = snap.status /\ jobs'[k].result = snap.result
    BY <2>3, <2>4, <2>5
  <2> QED BY <1>2, <2>6 DEF ShownResultIsFinal, k, snap
<1> QED BY <1>1, <1>2

\* A request starts a job that nobody watches.
LEMMA RequestOutcome ==
    ASSUME JobsInv, JobsInv', OutcomeInv, NEW total \in Nat, NEW source \in Sources,
           start_job(total, source), UNCHANGED <<watch, sched, auto>>
    PROVE  OutcomeInv' /\ RowsGo
<1>1. EachJobInv' /\ RowsGo
  BY StartGoes DEF JobsInv, TableInv, OutcomeInv
<1>2. WatchInv'
  BY DEF OutcomeInv, WatchInv
<1>3. ShownResultIsFinal'
  BY <1>1, ShownStaysFinal DEF JobsInv, TableInv, OutcomeInv
<1> QED BY <1>1, <1>2, <1>3 DEF OutcomeInv

\* A trigger of the scheduler starts a job, its watcher and an empty snapshot.
LEMMA TriggerOutcome ==
    ASSUME JobsInv, JobsInv', OutcomeInv, NEW candles \in load_auto_backtest_candles,
           NEW reason, trigger_now(candles, reason)
    PROVE  OutcomeInv' /\ RowsGo
<1> DEFINE n == started + 1
           x == [job |-> n, day |-> clock.day, reason |-> reason]
<1>1. build_signals(candles) \in Nat /\ start_job(build_signals(candles), "auto")
  BY JobsAssumption DEF load_auto_backtest_candles, build_signals, trigger_now
<1>2. EachJobInv' /\ RowsGo
  BY <1>1, StartGoes DEF JobsInv, TableInv, OutcomeInv, Sources
<1>3. /\ watch' = [watch EXCEPT ![n] = Polls] /\ auto' = auto \cup {x} /\ sched'.snap = NoSnapshot
      /\ x.job = n /\ Polls \in Nat /\ watch \in [Ids -> Nat]
  BY DayAssumption DEF trigger_now, OutcomeInv, WatchInv
<1> HIDE DEF x
<1>4. WatchInv'
  <2>1. watch' \in [Ids -> Nat]
    BY <1>3
  <2>2. ASSUME NEW k \in Ids, watch'[k] > 0 PROVE \E a \in auto' : a.job = k
    <3>1. CASE k = n
      BY <1>3, <3>1
    <3>2. CASE k # n
      BY <1>3, <2>2, <3>2 DEF OutcomeInv, WatchInv
    <3> QED BY <3>1, <3>2
  <2> QED BY <2>1, <2>2 DEF WatchInv
<1>5. sched'.snap.job = 0
  BY <1>3 DEF NoSnapshot
<1>6. ShownResultIsFinal'
  BY <1>2, <1>3, <1>5, ShownStaysFinal DEF JobsInv, TableInv, OutcomeInv
<1> QED BY <1>2, <1>4, <1>6 DEF OutcomeInv

\* A step of a coroutine.
LEMMA JobOutcome ==
    ASSUME JobsInv, JobsInv', OutcomeInv, NEW j \in Ids, JobStep(j)
    PROVE  OutcomeInv' /\ RowsGo
<1>1. EachJobInv' /\ RowsGo
  BY JobStepGoes, OneJobGoes DEF JobsInv, TableInv, OutcomeInv
<1>2. UNCHANGED <<watch, sched, auto>>
  BY DEF JobStep, BeginJob, SimulateSignal, SimulationRaises, NoticeSent
<1>3. WatchInv'
  BY <1>2 DEF OutcomeInv, WatchInv
<1>4. ShownResultIsFinal'
  BY <1>1, <1>2, ShownStaysFinal DEF JobsInv, TableInv, OutcomeInv
<1> QED BY <1>1, <1>3, <1>4 DEF OutcomeInv

\* No row moves.
LEMMA RowsRest ==
    ASSUME JobsInv, OutcomeInv, UNCHANGED rowVars
    PROVE  EachJobInv' /\ RowsGo
<1>1. EachJobInv'
  BY DEF OutcomeInv, EachJobInv, rowVars
<1>2. RowsGo
  BY SameRowGoes DEF RowsGo, rowVars, JobsInv, TableInv, TableTypes
<1> QED BY <1>1, <1>2

\* A watcher shows what the row of its job says once that has ended.
LEMMA WatchOutcome ==
    ASSUME JobsInv, JobsInv', OutcomeInv, NEW j \in Ids, WatchJob(j)
    PROVE  OutcomeInv' /\ RowsGo
<1>1. EachJobInv' /\ RowsGo /\ jobs' = jobs /\ auto' = auto
  BY RowsRest DEF WatchJob, rowVars
<1>2. /\ watch[j] > 0 /\ watch \in [Ids -> Nat]
      /\ watch' = [watch EXCEPT ![j] = IF jobs[j].status = "none" \/ Ended(jobs[j]) THEN 0 ELSE @ - 1]
  BY DEF WatchJob, OutcomeInv, WatchInv
<1>3. \E a \in auto : a.job = j
  BY <1>2 DEF OutcomeInv, WatchInv
<1>4. WatchInv'
  <2>1. watch' \in [Ids -> Nat] /\ \A k \in Ids : watch'[k] > 0 => watch[k] > 0
    BY <1>2
  <2> QED BY <1>1, <2>1 DEF OutcomeInv, WatchInv
<1>5. ShownResultIsFinal'
  <2>1. CASE ~Ended(jobs[j])
    <3>1. sched' = sched
      BY <2>1 DEF WatchJob
    <3> QED BY <1>1, <3>1, ShownStaysFinal DEF JobsInv, TableInv, OutcomeInv
  <2>2. CASE Ended(jobs[j])
    <3> DEFINE snap == [job |-> j, status |-> jobs[j].status, result |-> jobs[j].result]
    <3>1. sched' = [sched EXCEPT !.snap = snap]
      BY <2>2 DEF WatchJob
    <3>2. snap.job = j /\ snap.status = jobs[j].status /\ snap.result = jobs[j].result
      OBVIOUS
    <3>3. snap.status \in {"completed", "failed"}
      BY <2>2 DEF Ended
    <3> HIDE DEF snap
    <3>4. sched'.snap = snap
      BY <3>1 DEF JobsInv, DayInv, SchedTypes
    <3>5. j \in {a.job : a \in auto'}
      BY <1>1, <1>3
    <3> QED BY <1>1, <3>2, <3>3, <3>4, <3>5 DEF ShownResultIsFinal
  <2> QED BY <2>1, <2>2
<1> QED BY <1>1, <1>4, <1>5 DEF OutcomeInv

LEMMA DayOutcome ==
    ASSUME JobsInv, JobsInv', OutcomeInv, DayPasses \/ UNCHANGED jobsVars
    PROVE  OutcomeInv' /\ RowsGo
<1>1. UNCHANGED rowVars /\ UNCHANGED <<jobs, watch, sched, auto>>
  BY DEF DayPasses, jobsVars, rowVars
<1>2. EachJobInv' /\ RowsGo
  BY <1>1, RowsRest
<1>3. WatchInv'
  BY <1>1 DEF OutcomeInv, WatchInv
<1>4. ShownResultIsFinal'
  BY <1>1, <1>2, ShownStaysFinal DEF JobsInv, TableInv, OutcomeInv
<1> QED BY <1>2, <1>3, <1>4 DEF OutcomeInv

LEMMA OutcomeInit == JobsInit => OutcomeInv
<1> SUFFICES ASSUME JobsInit PROVE OutcomeInv
  OBVIOUS
<1>1. EachJobInv
  <2>1. JobInv(NoRow, NoTask, 0) /\ NoTask.pc = "none"
    BY DEF JobInv, NoRow, NoTask
  <2> QED BY <2>1 DEF JobsInit, EachJobInv
<1>2. WatchInv
  BY DEF JobsInit, WatchInv
<1>3. sched.snap.job = 0
  BY DEF JobsInit, NoSnapshot
<1> QED BY <1>1, <1>2, <1>3 DEF OutcomeInv, ShownResultIsFinal

LEMMA OutcomeStep == JobsInv /\ JobsInv' /\ OutcomeInv /\ [JobsNext]_jobsVars => OutcomeInv' /\ RowsGo
<1> SUFFICES ASSUME JobsInv, JobsInv', OutcomeInv, [JobsNext]_jobsVars PROVE OutcomeInv' /\ RowsGo
  OBVIOUS
<1>1. ASSUME NEW slippage \in {5, 51}, NEW n \in ApiSignals, run_backtest(slippage, n)
      PROVE  OutcomeInv' /\ RowsGo
  <2>1. n \in Nat /\ start_job(n, "system_api") /\ UNCHANGED <<watch, sched, auto>>
    BY <1>1, JobsAssumption DEF run_backtest
  <2> QED BY <2>1, RequestOutcome DEF Sources
<1>2. ASSUME NEW req \in Requests, NEW n \in DashboardSignals, start_manual_backtest(req, n)
      PROVE  OutcomeInv' /\ RowsGo
  <2>1. n \in Nat /\ start_job(n, "dashboard_manual") /\ UNCHANGED <<watch, sched, auto>>
    BY <1>2, JobsAssumption DEF start_manual_backtest
  <2> QED BY <2>1, RequestOutcome DEF Sources
<1>3. ASSUME NEW n \in load_auto_backtest_candles, trigger_if_due(n) \/ RunNow(n)
      PROVE  OutcomeInv' /\ RowsGo
  BY <1>3, TriggerOutcome DEF trigger_if_due, RunNow
<1>4. CASE UNCHANGED jobsVars
  BY <1>4, DayOutcome
<1> QED
  BY <1>1, <1>2, <1>3, <1>4, JobOutcome, WatchOutcome, DayOutcome DEF JobsNext

\* For any number of jobs and any interleaving of their coroutines with the
\* trim and the watchers: a completed row of _run_job accounts for each signal,
\* one message at most is sent about a job, after its end, and the snapshot the
\* scheduler shows is the final outcome of a job it started.
THEOREM OutcomesAreTrue == JobsSpec => []JobOutcomes
<1>1. JobsInv /\ OutcomeInv => JobOutcomes
  <2> SUFFICES ASSUME JobsInv, OutcomeInv PROVE JobOutcomes
    OBVIOUS
  <2>1. \A j \in Ids : JobInv(jobs[j], task[j], notices[j]) /\ task[j] \in Task
    BY DEF OutcomeInv, EachJobInv, JobsInv, TableInv, TaskTypes
  <2>2. ResultAccounts
    BY <2>1 DEF ResultAccounts, JobInv
  <2>3. OneNoticePerJob
    BY <2>1 DEF OneNoticePerJob, JobInv, Task
  <2> QED BY <2>2, <2>3 DEF JobOutcomes, OutcomeInv
<1> QED
  BY <1>1, JobsInvariant, OutcomeInit, OutcomeStep, PTL DEF JobsSpec

\* No step of _run_job, _update_progress or _trim_jobs takes a row that stays
\* in the table back, in status or in progress, and none touches a row that
\* has ended.
THEOREM RowsNeverGoBack == JobsSpec => RowsMoveForward
<1>1. RowsGo => \A j \in Stored(jobs) : jobs'[j].status # "none" =>
                    /\ Rank[jobs'[j].status] >= Rank[jobs[j].status]
                    /\ jobs'[j].progress >= jobs[j].progress
                    /\ Rank[jobs[j].status] = 3 => jobs'[j] = jobs[j]
  BY DEF RowsGo, Goes, Stored
<1> QED
  BY <1>1, JobsInvariant, OutcomeInit, OutcomeStep, PTL DEF JobsSpec, RowsMoveForward

-----------------------------------------------------------------------------
(* The simulated trade.                                                    *)

TradeRows == [pc : {"start", "skipped", "walk", "done"}, at : Nat, entry : Int, atr : Nat,
              state : {"OPEN", "HALF_CLOSED"}, rem : {0, 1, 2}, realized : Int, ext : Int,
              reason : {"end_of_data", "stop_loss", "trailing_stop"}]
MachineRows == [state : {"NONE", "OPEN", "HALF_CLOSED", "CLOSED"}, rem : Nat, stop : Int, tp : Int,
             high : Int, trail : Int]

TradeType ==
    /\ series \in Seq(Candles)
    /\ signal.side \in {"buy", "sell"} /\ signal.index \in 1 .. Len(series)
    /\ trade \in TradeRows /\ machine \in MachineRows

\* The levels of a purchase and of a short sale.
LongStop(t) == Larger(t.entry - Gap(t, StopMult), 0)
LongTp(t) == t.entry + Gap(t, TpMult)
LongTrail(t) == Larger(t.ext - Gap(t, TrailMult), 0)
ShortStop(t) == t.entry + Gap(t, StopMult)
ShortTp(t) == Larger(t.entry - Gap(t, TpMult), 0)
ShortTrail(t) == t.ext + Gap(t, TrailMult)

\* A walk: the first candle begins on the wrong side of the entry, so a trade
\* that survives it has a stop away from the entry.
WalkInv ==
    trade.pc = "walk" =>
        /\ trade.entry > 0 /\ trade.reason = "end_of_data" /\ signal.index < Len(series)
        /\ trade.at \in signal.index + 1 .. Len(series) + 1
        /\ trade.at = signal.index + 1 =>
               /\ trade.state = "OPEN"
               /\ Short => series[trade.at].h >= trade.entry
               /\ ~Short => series[trade.at].l <= trade.entry
        /\ trade.at > signal.index + 1 => Gap(trade, StopMult) > 0
        /\ trade.state = "OPEN" => trade.rem = 2 /\ trade.realized = 0
        /\ trade.state = "HALF_CLOSED" => trade.rem = 1

\* A purchase that is held: the last candle has touched neither its stop nor
\* its trail, and the high is above the profit that was taken.
LongInv ==
    ~Short /\ trade.pc = "walk" /\ trade.at > signal.index + 1 =>
        /\ trade.state = "OPEN" => series[trade.at - 1].l > LongStop(trade)
        /\ trade.state = "HALF_CLOSED" => /\ trade.realized = Gap(trade, TpMult)
                                          /\ trade.ext >= LongTp(trade)
                                          /\ series[trade.at - 1].l > LongTrail(trade)

\* The same for a short sale, whose profit lies above zero.
ShortInv ==
    Short /\ PositivePrices /\ trade.pc = "walk" /\ trade.at > signal.index + 1 =>
        /\ trade.state = "OPEN" => series[trade.at - 1].h < ShortStop(trade)
        /\ trade.state = "HALF_CLOSED" => /\ trade.realized = trade.entry - ShortTp(trade)
                                          /\ trade.entry - Gap(trade, TpMult) > 0
                                          /\ trade.ext > 0 /\ trade.ext <= ShortTp(trade)
                                          /\ series[trade.at - 1].h < ShortTrail(trade)

Comparable == ~Short /\ (TrailMult <= TpMult \/ PositivePrices)

\* The state machine's row beside the simulated purchase.
MachineInv ==
    Comparable /\ trade.pc = "walk" =>
        /\ machine.state = trade.state /\ machine.rem = trade.rem
        /\ machine.stop = LongStop(trade) /\ machine.tp = LongTp(trade)
        /\ trade.state = "OPEN" => machine.trail = None
        /\ trade.state = "HALF_CLOSED" => machine.high = trade.ext

ReasonInv ==
    Comparable /\ trade.reason # "end_of_data" =>
        machine.state = "CLOSED" /\ (trade.reason = "stop_loss" <=> machine.trail = None)

StartInv == trade.pc = "start" => trade = NoTrade /\ machine = NoPosition

\* The bounds of a trade that is done.
LongBounded(t) ==
    /\ t.realized >= IF t.state = "OPEN" THEN 2 * (LongStop(t) - t.entry)
                     ELSE 2 * Gap(t, TpMult) - Gap(t, TrailMult)
    /\ TrailMult <= 2 * TpMult => t.realized >= 2 * (LongStop(t) - t.entry)
ShortBounded(t) ==
    /\ t.realized >= IF t.state = "OPEN" THEN 2 * (t.entry - ShortStop(t))
                     ELSE 2 * (t.entry - ShortTp(t)) - Gap(t, TrailMult)
    /\ TrailMult <= 2 * TpMult => t.realized >= 2 * (t.entry - ShortStop(t))
DoneInv ==
    trade.pc = "done" => /\ ~Short => LongBounded(trade)
                         /\ Short /\ PositivePrices => ShortBounded(trade)

TradeInv ==
    /\ TradeType /\ StartInv /\ WalkInv /\ LongInv /\ ShortInv
    /\ MachineInv /\ ReasonInv /\ DoneInv

-----------------------------------------------------------------------------

(* Sums of the community modules, as far as an ATR needs them.             *)

LEMMA LeastNatural ==
    ASSUME NEW T \in SUBSET Nat, T # {}
    PROVE  \E m \in T : \A n \in T : m <= n
<1>1. PICK m \in T : \A n \in T : <<n, m>> \notin OpToRel(<, Nat)
  BY NatLessThanWellFounded, WFMin
<1>2. \A n \in T : ~(n < m)
  BY <1>1 DEF OpToRel
<1> QED BY <1>2

Pick(s) == CHOOSE x \in s : TRUE
Adds(f, S, g) == g = [s \in SUBSET S |-> IF s = {} THEN 0 ELSE f[Pick(s)] + g[s \ {Pick(s)}]]

LEMMA SumIs ==
    ASSUME NEW f, NEW S
    PROVE  SumFunctionOnSet(f, S) = (CHOOSE g : Adds(f, S, g))[S]
BY DEF SumFunctionOnSet, FoldFunctionOnSet, MapThenFoldSet, Adds, Pick

\* The function the fold is defined by, on the subsets of up to n members.
Partial(f, S, n, g) ==
    \A s \in SUBSET S : Cardinality(s) <= n =>
        g[s] = IF s = {} THEN 0 ELSE f[Pick(s)] + g[s \ {Pick(s)}]

LEMMA AddsExists ==
    ASSUME NEW S, IsFiniteSet(S), NEW f
    PROVE  \E g : Adds(f, S, g)
<1> DEFINE Bad == {n \in Nat : ~\E g : DOMAIN g = SUBSET S /\ g = [s \in SUBSET S |-> g[s]] /\ Partial(f, S, n, g)}
<1>1. \A s \in SUBSET S : /\ IsFiniteSet(s) /\ Cardinality(s) \in Nat
                          /\ s # {} => Pick(s) \in s /\ Cardinality(s \ {Pick(s)}) = Cardinality(s) - 1
                          /\ Cardinality(s) = 0 <=> s = {}
  <2> SUFFICES ASSUME NEW s \in SUBSET S
               PROVE  /\ IsFiniteSet(s) /\ Cardinality(s) \in Nat
                      /\ s # {} => Pick(s) \in s /\ Cardinality(s \ {Pick(s)}) = Cardinality(s) - 1
                      /\ Cardinality(s) = 0 <=> s = {}
      OBVIOUS
  <2>1. IsFiniteSet(s) /\ Cardinality(s) \in Nat
    BY FS_Subset, FS_CardinalityType
  <2>2. s # {} => Pick(s) \in s
    BY DEF Pick
  <2>3. s # {} => Cardinality(s \ {Pick(s)}) = Cardinality(s) - 1
    BY <2>1, <2>2, FS_RemoveElement
  <2> QED BY <2>1, <2>2, <2>3, FS_EmptySet
<1>2. Bad = {}
  <2> SUFFICES ASSUME Bad # {} PROVE FALSE
      OBVIOUS
  <2>1. PICK n \in Bad : \A m \in Bad : n <= m
    BY LeastNatural
  <2>2. CASE n = 0
    <3> DEFINE g == [s \in SUBSET S |-> 0]
    <3>1. DOMAIN g = SUBSET S /\ g = [s \in SUBSET S |-> g[s]]
      OBVIOUS
    <3>2. Partial(f, S, 0, g)
      <4> SUFFICES ASSUME NEW s \in SUBSET S, Cardinality(s) <= 0
                   PROVE  g[s] = IF s = {} THEN 0 ELSE f[Pick(s)] + g[s \ {Pick(s)}]
          BY DEF Partial
      <4>0. Cardinality(s) \in Nat /\ (Cardinality(s) = 0 <=> s = {})
        BY <1>1
      <4>1. s = {}
        BY <4>0
      <4> QED BY <4>1
    <3> QED BY <2>1, <2>2, <3>1, <3>2
  <2>3. CASE n # 0
    <3>1. n - 1 \in Nat /\ n - 1 \notin Bad
      <4>1. n \in Nat
        BY <2>1
      <4>2. n - 1 \in Nat /\ ~(n <= n - 1)
        BY <2>3, <4>1
      <4> HIDE DEF Bad
      <4> QED BY <2>1, <4>2
    <3>2. PICK g : DOMAIN g = SUBSET S /\ Partial(f, S, n - 1, g)
      BY <3>1
    <3> DEFINE h == [s \in SUBSET S |-> IF s = {} THEN 0 ELSE f[Pick(s)] + g[s \ {Pick(s)}]]
    <3>3. \A s \in SUBSET S : Cardinality(s) <= n - 1 => h[s] = g[s]
      <4> SUFFICES ASSUME NEW s \in SUBSET S, Cardinality(s) <= n - 1 PROVE h[s] = g[s]
          OBVIOUS
      <4>1. g[s] = IF s = {} THEN 0 ELSE f[Pick(s)] + g[s \ {Pick(s)}]
        BY <3>2 DEF Partial
      <4> QED BY <4>1
    <3>4. Partial(f, S, n, h)
      <4> SUFFICES ASSUME NEW s \in SUBSET S, Cardinality(s) <= n, s # {}
                   PROVE  h[s \ {Pick(s)}] = g[s \ {Pick(s)}]
          BY DEF Partial
      <4>1. s \ {Pick(s)} \in SUBSET S /\ Cardinality(s \ {Pick(s)}) <= n - 1
        BY <1>1, <2>1
      <4> QED BY <3>3, <4>1
    <3>5. DOMAIN h = SUBSET S /\ h = [s \in SUBSET S |-> h[s]]
      OBVIOUS
    <3> HIDE DEF h
    <3> QED BY <2>1, <3>4, <3>5
  <2> QED BY <2>2, <2>3
<1>3. Cardinality(S) \in Nat /\ \A s \in SUBSET S : Cardinality(s) <= Cardinality(S)
  BY FS_CardinalityType, FS_Subset
<1>4. PICK g : g = [s \in SUBSET S |-> g[s]] /\ Partial(f, S, Cardinality(S), g)
  BY <1>2, <1>3
<1>5. \A s \in SUBSET S : g[s] = IF s = {} THEN 0 ELSE f[Pick(s)] + g[s \ {Pick(s)}]
  BY <1>3, <1>4 DEF Partial
<1>6. Adds(f, S, g)
  BY <1>4, <1>5 DEF Adds
<1> QED BY <1>6

LEMMA SumType ==
    ASSUME NEW S, IsFiniteSet(S), NEW f, \A x \in S : f[x] \in Nat
    PROVE  SumFunctionOnSet(f, S) \in Nat
<1> DEFINE g == CHOOSE h : Adds(f, S, h)
           Bad == {s \in SUBSET S : g[s] \notin Nat}
           Sizes == {Cardinality(s) : s \in Bad}
<1>1. Adds(f, S, g)
  BY AddsExists
<1> HIDE DEF g
<1>2. Bad = {}
  <2> SUFFICES ASSUME Bad # {} PROVE FALSE
      OBVIOUS
  <2>1. \A s \in SUBSET S : IsFiniteSet(s) /\ Cardinality(s) \in Nat
    BY FS_Subset, FS_CardinalityType
  <2>a. Sizes \in SUBSET Nat /\ Sizes # {}
    BY <2>1
  <2>2. PICK n \in Sizes : \A m \in Sizes : n <= m
    BY <2>a, LeastNatural
  <2>3. PICK s \in Bad : n = Cardinality(s)
    BY <2>2
  <2>0. \A r \in SUBSET S : g[r] = IF r = {} THEN 0 ELSE f[Pick(r)] + g[r \ {Pick(r)}]
    BY <1>1 DEF Adds
  <2>4. s # {}
    <3>1. g[{}] = 0
      BY <2>0
    <3> QED BY <2>3, <3>1
  <2>5. Pick(s) \in s
    BY <2>4 DEF Pick
  <2>6. Cardinality(s \ {Pick(s)}) = n - 1 /\ n \in Nat /\ s \ {Pick(s)} \in SUBSET S
    BY <2>1, <2>3, <2>5, FS_RemoveElement
  <2>7. s \ {Pick(s)} \notin Bad
    <3> SUFFICES ASSUME s \ {Pick(s)} \in Bad PROVE FALSE
        OBVIOUS
    <3>1. Cardinality(s \ {Pick(s)}) \in Sizes
      OBVIOUS
    <3> HIDE DEF Bad, Sizes
    <3> QED BY <2>2, <2>6, <3>1
  <2>8. g[s] = f[Pick(s)] + g[s \ {Pick(s)}]
    BY <2>0, <2>4
  <2>9. f[Pick(s)] \in Nat /\ g[s \ {Pick(s)}] \in Nat
    BY <2>5, <2>6, <2>7
  <2>10. f[Pick(s)] + g[s \ {Pick(s)}] \in Nat
    BY <2>9
  <2> QED BY <2>8, <2>10
<1>3. g[S] \in Nat
  BY <1>2
<1> QED BY <1>3, SumIs DEF g

-----------------------------------------------------------------------------
(* The levels.                                                             *)

LEMMA GapNat ==
    ASSUME NEW t, t.atr \in Nat
    PROVE  Gap(t, StopMult) \in Nat /\ Gap(t, TpMult) \in Nat /\ Gap(t, TrailMult) \in Nat
<1>1. StopMult \in Nat /\ TpMult \in Nat /\ TrailMult \in Nat
  BY MultAssumption
<1>2. \A m \in Nat : t.atr * m \in Nat
  OBVIOUS
<1>3. \A k \in Nat : k \div 2 \in Nat
  OBVIOUS
<1> QED BY <1>1, <1>2, <1>3 DEF Gap

\* A wider multiple is no smaller a gap.
LEMMA GapGrows ==
    ASSUME NEW t, t.atr \in Nat
    PROVE  /\ TrailMult <= TpMult => Gap(t, TrailMult) <= Gap(t, TpMult)
           /\ TrailMult <= 2 * TpMult => Gap(t, TrailMult) <= 2 * Gap(t, TpMult) + 1
<1>1. TpMult \in Nat /\ TrailMult \in Nat
  BY MultAssumption
<1>2. \A a, m, n \in Nat : m <= n => a * m <= a * n
  OBVIOUS
<1>3. \A k, j \in Nat : k <= j => k \div 2 <= j \div 2
  OBVIOUS
<1>4. ASSUME TrailMult <= TpMult PROVE Gap(t, TrailMult) <= Gap(t, TpMult)
  <2>1. t.atr * TrailMult \in Nat /\ t.atr * TpMult \in Nat /\ t.atr * TrailMult <= t.atr * TpMult
    BY <1>1, <1>2, <1>4
  <2> QED BY <1>3, <2>1 DEF Gap
<1>5. ASSUME TrailMult <= 2 * TpMult PROVE Gap(t, TrailMult) <= 2 * Gap(t, TpMult) + 1
  <2> DEFINE a == t.atr * TpMult
             b == t.atr * TrailMult
  <2>1. a \in Nat /\ b \in Nat /\ b <= t.atr * (2 * TpMult)
    BY <1>1, <1>2, <1>5
  <2>2. t.atr * (2 * TpMult) = 2 * a
    BY <1>1
  <2> HIDE DEF a, b
  <2>3. b <= 2 * a
    BY <2>1, <2>2
  <2>4. b \div 2 <= 2 * (a \div 2) + 1
    BY <2>1, <2>3
  <2> QED BY <2>4 DEF Gap, a, b
<1> QED BY <1>4, <1>5

LEMMA CandleType ==
    ASSUME NEW b \in Candles
    PROVE  b.o \in Nat /\ b.h \in Nat /\ b.l \in Nat /\ b.c \in Nat
           /\ b.l <= b.o /\ b.o <= b.h /\ b.l <= b.c /\ b.c <= b.h
  BY CandleAssumption

\* What a step of the simulation leaves alone.
SameTrade(r, t) == r \in TradeRows /\ r.entry = t.entry /\ r.atr = t.atr /\ r.at = t.at

\* A trade that is closed, or half closed, with a profit of v.
ClosedWith(t, v, why) == [t EXCEPT !.pc = "done", !.rem = 0, !.realized = v, !.reason = why]
HalvedWith(t, v, x) == [t EXCEPT !.rem = 1, !.realized = v, !.state = "HALF_CLOSED", !.ext = x]

LEMMA CloseFields ==
    ASSUME NEW t \in TradeRows, NEW v \in Int, NEW r,
           NEW why \in {"stop_loss", "trailing_stop", "end_of_data"}, r = ClosedWith(t, v, why)
    PROVE  /\ SameTrade(r, t) /\ r.pc = "done" /\ r.reason = why /\ r.realized = v
           /\ r.state = t.state /\ r.ext = t.ext
<1>1. r = [pc |-> "done", at |-> t.at, entry |-> t.entry, atr |-> t.atr, state |-> t.state,
           rem |-> 0, realized |-> v, ext |-> t.ext, reason |-> why]
  BY DEF TradeRows, ClosedWith
<1>2. r \in TradeRows
  BY <1>1 DEF TradeRows
<1> QED BY <1>1, <1>2 DEF SameTrade

LEMMA HalfFields ==
    ASSUME NEW t \in TradeRows, NEW v \in Int, NEW x \in Int, NEW r, r = HalvedWith(t, v, x)
    PROVE  /\ SameTrade(r, t) /\ r.pc = t.pc /\ r.reason = t.reason /\ r.realized = v
           /\ r.state = "HALF_CLOSED" /\ r.ext = x /\ r.rem = 1
<1>1. r = [pc |-> t.pc, at |-> t.at, entry |-> t.entry, atr |-> t.atr, state |-> "HALF_CLOSED",
           rem |-> 1, realized |-> v, ext |-> x, reason |-> t.reason]
  BY DEF TradeRows, HalvedWith
<1>2. r \in TradeRows
  BY <1>1 DEF TradeRows
<1> QED BY <1>1, <1>2 DEF SameTrade

LEMMA LongOpen ==
    ASSUME ~Short, NEW t \in TradeRows, NEW b \in Candles,
           t.pc = "walk", t.state = "OPEN", t.rem = 2, t.realized = 0, t.entry > 0,
           NEW r, r = WalkOpen(t, b)
    PROVE  /\ SameTrade(r, t)
           /\ \/ /\ b.l <= LongStop(t) /\ r.pc = "done" /\ r.state = "OPEN"
                 /\ r.reason = "stop_loss" /\ r.realized = 2 * (LongStop(t) - t.entry)
              \/ b.l > LongStop(t) /\ b.h < LongTp(t) /\ r = t
              \/ /\ b.l > LongStop(t) /\ b.h >= LongTp(t)
                 /\ r.state = "HALF_CLOSED" /\ r.ext = b.h
                 /\ \/ /\ b.l <= LongTrail(r) /\ r.pc = "done" /\ r.reason = "trailing_stop"
                       /\ r.realized = Gap(t, TpMult) + (LongTrail(r) - t.entry)
                    \/ /\ b.l > LongTrail(r) /\ r.pc = "walk" /\ r.reason = t.reason
                       /\ r.rem = 1 /\ r.realized = Gap(t, TpMult)
<1>0. /\ b.h \in Nat /\ b.l \in Nat /\ b.l <= b.h /\ t.entry \in Int
      /\ Gap(t, StopMult) \in Nat /\ Gap(t, TpMult) \in Nat /\ Gap(t, TrailMult) \in Nat
  BY CandleType, GapNat DEF TradeRows
<1>1. /\ StopLevel(t) = LongStop(t) /\ TpLevel(t) = LongTp(t)
      /\ Worst(b) = b.l /\ Best(b) = b.h
      /\ \A x, y : (Against(x, y) <=> x <= y) /\ (Reaches(x, y) <=> x >= y)
      /\ \A x : Gain(t, x) = x - t.entry
  BY DEF StopLevel, LongStop, TpLevel, LongTp, Worst, Best, Against, Reaches, Gain
<1>2. LongStop(t) \in Int /\ LongTp(t) \in Int
  BY <1>0 DEF LongStop, LongTp, Larger
<1>3. CASE b.l <= LongStop(t)
  <2>1. r = CloseRest(t, LongStop(t), "stop_loss")
    BY <1>1, <1>3 DEF WalkOpen
  <2>2. r = [t EXCEPT !.pc = "done", !.rem = 0, !.realized = t.realized + Gain(t, LongStop(t)) * t.rem,
                      !.reason = "stop_loss"]
    BY <2>1 DEF CloseRest
  <2> DEFINE v == t.realized + Gain(t, LongStop(t)) * t.rem
  <2>3. v = 2 * (LongStop(t) - t.entry)
    BY <1>0, <1>1, <1>2
  <2>4. v \in Int
    BY <1>0, <1>2, <2>3
  <2> HIDE DEF v
  <2>5. r = ClosedWith(t, v, "stop_loss")
    BY <2>2 DEF v, ClosedWith
  <2>6. /\ SameTrade(r, t) /\ r.pc = "done" /\ r.reason = "stop_loss"
        /\ r.realized = v /\ r.state = t.state
    BY <2>4, <2>5, CloseFields
  <2> QED BY <1>3, <2>3, <2>6
<1>4. CASE b.l > LongStop(t) /\ b.h < LongTp(t)
  <2>1. ~(b.l <= LongStop(t)) /\ ~(b.h >= LongTp(t))
    BY <1>0, <1>2, <1>4
  <2>2. r = t
    BY <1>1, <2>1 DEF WalkOpen
  <2> QED BY <1>4, <2>2 DEF SameTrade
<1>5. CASE b.l > LongStop(t) /\ b.h >= LongTp(t)
  <2> DEFINE u == TakeHalf(t, b)
  <2>1. ~(b.l <= LongStop(t))
    BY <1>0, <1>2, <1>5
  <2>2. r = CheckTrail(u, b)
    BY <1>1, <1>5, <2>1 DEF WalkOpen
  <2>3. u = HalvedWith(t, Gap(t, TpMult), b.h)
    <3>1. Further(b.h, LongTp(t)) = b.h
      BY <1>1, <1>5 DEF Further
    <3>2. t.rem \div 2 = 1
      OBVIOUS
    <3>3. t.realized + Gain(t, LongTp(t)) * (t.rem \div 2) = Gap(t, TpMult)
      BY <1>0, <1>1, <3>2 DEF LongTp
    <3>4. u = [t EXCEPT !.rem = t.rem \div 2,
                        !.realized = t.realized + Gain(t, LongTp(t)) * (t.rem \div 2),
                        !.state = "HALF_CLOSED", !.ext = Further(b.h, LongTp(t))]
      BY <1>1 DEF TakeHalf
    <3> QED BY <3>1, <3>2, <3>3, <3>4 DEF HalvedWith
  <2>4. /\ u \in TradeRows /\ u.pc = "walk" /\ u.rem = 1 /\ u.realized = Gap(t, TpMult)
        /\ u.state = "HALF_CLOSED" /\ u.ext = b.h /\ u.entry = t.entry /\ u.atr = t.atr
        /\ u.at = t.at /\ u.reason = t.reason
    <3> HIDE DEF u
    <3>1. Gap(t, TpMult) \in Int /\ b.h \in Int
      BY <1>0
    <3>2. /\ SameTrade(u, t) /\ u.pc = t.pc /\ u.reason = t.reason /\ u.realized = Gap(t, TpMult)
          /\ u.state = "HALF_CLOSED" /\ u.ext = b.h /\ u.rem = 1
      BY <2>3, <3>1, HalfFields
    <3> QED BY <3>2 DEF SameTrade
  <2> HIDE DEF u
  <2>5. TrailLevel(u) = LongTrail(u) /\ LongTrail(u) \in Int
    <3>1. Gap(u, TrailMult) = Gap(t, TrailMult)
      BY <2>4 DEF Gap
    <3> QED BY <1>0, <2>4, <3>1 DEF TrailLevel, LongTrail, Larger
  <2>6. CASE b.l <= LongTrail(u)
    <3>1. r = [u EXCEPT !.pc = "done", !.rem = 0, !.realized = u.realized + Gain(u, LongTrail(u)) * u.rem,
                        !.reason = "trailing_stop"]
      BY <1>1, <2>2, <2>5, <2>6 DEF CheckTrail, CloseRest
    <3>2. Gain(u, LongTrail(u)) = LongTrail(u) - t.entry
      BY <2>4 DEF Gain
    <3> DEFINE v == u.realized + Gain(u, LongTrail(u)) * u.rem
    <3>3. v = Gap(t, TpMult) + (LongTrail(u) - t.entry)
      BY <1>0, <2>4, <2>5, <3>2
    <3>4. v \in Int
      BY <1>0, <2>5, <3>3
    <3> HIDE DEF v
    <3>a. r = ClosedWith(u, v, "trailing_stop")
      BY <3>1 DEF v, ClosedWith
    <3>b. /\ SameTrade(r, u) /\ r.pc = "done" /\ r.reason = "trailing_stop" /\ r.realized = v
          /\ r.state = u.state /\ r.ext = u.ext
      BY <2>4, <3>4, <3>a, CloseFields
    <3>5. /\ r \in TradeRows /\ r.pc = "done" /\ r.reason = "trailing_stop" /\ r.state = "HALF_CLOSED"
          /\ r.realized = Gap(t, TpMult) + (LongTrail(u) - t.entry)
          /\ r.ext = b.h /\ r.entry = t.entry /\ r.atr = t.atr /\ r.at = t.at
      BY <2>4, <3>3, <3>b DEF SameTrade
    <3>6. LongTrail(r) = LongTrail(u)
      BY <2>4, <3>5 DEF LongTrail, Gap
    <3> QED BY <1>5, <2>6, <3>5, <3>6 DEF SameTrade
  <2>7. CASE ~(b.l <= LongTrail(u))
    <3>1. r = u
      BY <1>1, <2>2, <2>5, <2>7 DEF CheckTrail
    <3>2. b.l > LongTrail(u)
      BY <1>0, <2>5, <2>7
    <3> QED BY <1>5, <2>4, <3>1, <3>2 DEF SameTrade
  <2> QED BY <2>6, <2>7
<1> QED BY <1>0, <1>2, <1>3, <1>4, <1>5

LEMMA LongHalf ==
    ASSUME ~Short, NEW t \in TradeRows, NEW b \in Candles,
           t.pc = "walk", t.state = "HALF_CLOSED", t.rem = 1, t.ext > 0, t.realized = Gap(t, TpMult),
           NEW r, r = WalkHalf(t, b)
    PROVE  /\ SameTrade(r, t) /\ r.state = "HALF_CLOSED" /\ r.ext = Larger(t.ext, b.h)
           /\ \/ /\ b.l <= LongTrail(r) /\ r.pc = "done" /\ r.reason = "trailing_stop"
                 /\ r.realized = Gap(t, TpMult) + (LongTrail(r) - t.entry)
              \/ /\ b.l > LongTrail(r) /\ r.pc = "walk" /\ r.reason = t.reason
                 /\ r.rem = 1 /\ r.realized = Gap(t, TpMult)
<1> DEFINE u == [t EXCEPT !.ext = Larger(t.ext, b.h)]
<1>0. /\ b.h \in Nat /\ b.l \in Nat /\ t.entry \in Int /\ t.ext \in Int
      /\ Gap(t, TpMult) \in Nat /\ Gap(t, TrailMult) \in Nat
  BY CandleType, GapNat DEF TradeRows
<1>1. Worst(b) = b.l /\ Best(b) = b.h
      /\ \A x, y : (Against(x, y) <=> x <= y) /\ (Reaches(x, y) <=> x >= y)
  BY DEF Worst, Best, Against, Reaches
<1>2. r = CheckTrail(u, b)
  <2>1. HighOr(t.ext, b.h) = t.ext
    BY <1>0 DEF HighOr, None
  <2>2. Further(t.ext, b.h) = Larger(t.ext, b.h)
    BY <1>1 DEF Further, Larger
  <2> QED BY <1>1, <2>1, <2>2 DEF WalkHalf
<1>4. /\ u \in TradeRows /\ u.pc = "walk" /\ u.rem = 1 /\ u.realized = Gap(t, TpMult)
      /\ u.state = "HALF_CLOSED" /\ u.ext = Larger(t.ext, b.h) /\ u.entry = t.entry /\ u.atr = t.atr
      /\ u.at = t.at /\ u.reason = t.reason
  <2>1. Larger(t.ext, b.h) \in Int
    BY <1>0 DEF Larger
  <2> QED BY <1>0, <2>1 DEF TradeRows
<1> HIDE DEF u
<1>5. TrailLevel(u) = LongTrail(u) /\ LongTrail(u) \in Int
  <2>1. Gap(u, TrailMult) = Gap(t, TrailMult)
    BY <1>4 DEF Gap
  <2>2. u.ext \in Int
    BY <1>4 DEF TradeRows
  <2> QED BY <1>0, <2>1, <2>2 DEF TrailLevel, LongTrail, Larger
<1>6. CASE b.l <= LongTrail(u)
  <2>1. r = [u EXCEPT !.pc = "done", !.rem = 0, !.realized = u.realized + Gain(u, LongTrail(u)) * u.rem,
                      !.reason = "trailing_stop"]
    BY <1>1, <1>2, <1>5, <1>6 DEF CheckTrail, CloseRest
  <2>2. Gain(u, LongTrail(u)) = LongTrail(u) - t.entry
    BY <1>4 DEF Gain
  <2> DEFINE v == u.realized + Gain(u, LongTrail(u)) * u.rem
  <2>3. v = Gap(t, TpMult) + (LongTrail(u) - t.entry)
    BY <1>0, <1>4, <1>5, <2>2
  <2>4. v \in Int
    BY <1>0, <1>5, <2>3
  <2> HIDE DEF v
  <2>a. r = ClosedWith(u, v, "trailing_stop")
    BY <2>1 DEF v, ClosedWith
  <2>b. /\ SameTrade(r, u) /\ r.pc = "done" /\ r.reason = "trailing_stop" /\ r.realized = v
        /\ r.state = u.state /\ r.ext = u.ext
    BY <1>4, <2>4, <2>a, CloseFields
  <2>5. /\ r \in TradeRows /\ r.pc = "done" /\ r.reason = "trailing_stop" /\ r.state = "HALF_CLOSED"
        /\ r.realized = Gap(t, TpMult) + (LongTrail(u) - t.entry)
        /\ r.ext = u.ext /\ r.entry = t.entry /\ r.atr = t.atr /\ r.at = t.at
    BY <1>4, <2>3, <2>b DEF SameTrade
  <2>6. LongTrail(r) = LongTrail(u)
    BY <1>4, <2>5 DEF LongTrail, Gap
  <2> QED BY <1>4, <1>6, <2>5, <2>6 DEF SameTrade
<1>7. CASE ~(b.l <= LongTrail(u))
  <2>1. r = u
    BY <1>1, <1>2, <1>5, <1>7 DEF CheckTrail
  <2>2. b.l > LongTrail(u)
    BY <1>0, <1>5, <1>7
  <2> QED BY <1>4, <2>1, <2>2 DEF SameTrade
<1> QED BY <1>6, <1>7

\* The lower of two prices.
Lower(x, y) == IF x <= y THEN x ELSE y

LEMMA ShortOpen ==
    ASSUME Short, NEW t \in TradeRows, NEW b \in Candles,
           t.pc = "walk", t.state = "OPEN", t.rem = 2, t.realized = 0, t.entry > 0,
           NEW r, r = WalkOpen(t, b)
    PROVE  /\ SameTrade(r, t)
           /\ \/ /\ b.h >= ShortStop(t) /\ r.pc = "done" /\ r.state = "OPEN"
                 /\ r.reason = "stop_loss" /\ r.realized = 2 * (t.entry - ShortStop(t))
              \/ b.h < ShortStop(t) /\ b.l > ShortTp(t) /\ r = t
              \/ /\ b.h < ShortStop(t) /\ b.l <= ShortTp(t)
                 /\ r.state = "HALF_CLOSED" /\ r.ext = b.l
                 /\ \/ /\ b.h >= ShortTrail(r) /\ r.pc = "done" /\ r.reason = "trailing_stop"
                       /\ r.realized = (t.entry - ShortTp(t)) + (t.entry - ShortTrail(r))
                    \/ /\ b.h < ShortTrail(r) /\ r.pc = "walk" /\ r.reason = t.reason
                       /\ r.rem = 1 /\ r.realized = t.entry - ShortTp(t)
<1>0. /\ b.h \in Nat /\ b.l \in Nat /\ b.l <= b.h /\ t.entry \in Int
      /\ Gap(t, StopMult) \in Nat /\ Gap(t, TpMult) \in Nat /\ Gap(t, TrailMult) \in Nat
  BY CandleType, GapNat DEF TradeRows
<1>1. /\ StopLevel(t) = ShortStop(t) /\ TpLevel(t) = ShortTp(t)
      /\ Worst(b) = b.h /\ Best(b) = b.l
      /\ \A x, y : (Against(x, y) <=> x >= y) /\ (Reaches(x, y) <=> x <= y)
      /\ \A x : Gain(t, x) = t.entry - x
  BY DEF StopLevel, ShortStop, TpLevel, ShortTp, Worst, Best, Against, Reaches, Gain
<1>2. ShortStop(t) \in Int /\ ShortTp(t) \in Int
  BY <1>0 DEF ShortStop, ShortTp, Larger
<1>3. CASE b.h >= ShortStop(t)
  <2>1. r = CloseRest(t, ShortStop(t), "stop_loss")
    BY <1>1, <1>3 DEF WalkOpen
  <2>2. r = [t EXCEPT !.pc = "done", !.rem = 0, !.realized = t.realized + Gain(t, ShortStop(t)) * t.rem,
                      !.reason = "stop_loss"]
    BY <2>1 DEF CloseRest
  <2> DEFINE v == t.realized + Gain(t, ShortStop(t)) * t.rem
  <2>3. v = 2 * (t.entry - ShortStop(t))
    BY <1>0, <1>1, <1>2
  <2>4. v \in Int
    BY <1>0, <1>2, <2>3
  <2> HIDE DEF v
  <2>5. r = ClosedWith(t, v, "stop_loss")
    BY <2>2 DEF v, ClosedWith
  <2>6. /\ SameTrade(r, t) /\ r.pc = "done" /\ r.reason = "stop_loss"
        /\ r.realized = v /\ r.state = t.state
    BY <2>4, <2>5, CloseFields
  <2> QED BY <1>3, <2>3, <2>6
<1>4. CASE b.h < ShortStop(t) /\ b.l > ShortTp(t)
  <2>1. ~(b.h >= ShortStop(t)) /\ ~(b.l <= ShortTp(t))
    BY <1>0, <1>2, <1>4
  <2>2. r = t
    BY <1>1, <2>1 DEF WalkOpen
  <2> QED BY <1>4, <2>2 DEF SameTrade
<1>5. CASE b.h < ShortStop(t) /\ b.l <= ShortTp(t)
  <2> DEFINE u == TakeHalf(t, b)
  <2>1. ~(b.h >= ShortStop(t))
    BY <1>0, <1>2, <1>5
  <2>2. r = CheckTrail(u, b)
    BY <1>1, <1>5, <2>1 DEF WalkOpen
  <2>3. u = HalvedWith(t, t.entry - ShortTp(t), b.l)
    <3>1. Further(b.l, ShortTp(t)) = b.l
      BY <1>1, <1>5 DEF Further
    <3>2. t.rem \div 2 = 1
      OBVIOUS
    <3>3. t.realized + Gain(t, ShortTp(t)) * (t.rem \div 2) = t.entry - ShortTp(t)
      BY <1>0, <1>1, <1>2, <3>2
    <3>4. u = [t EXCEPT !.rem = t.rem \div 2,
                        !.realized = t.realized + Gain(t, ShortTp(t)) * (t.rem \div 2),
                        !.state = "HALF_CLOSED", !.ext = Further(b.l, ShortTp(t))]
      BY <1>1 DEF TakeHalf
    <3> QED BY <3>1, <3>2, <3>3, <3>4 DEF HalvedWith
  <2>4. /\ u \in TradeRows /\ u.pc = "walk" /\ u.rem = 1 /\ u.realized = t.entry - ShortTp(t)
        /\ u.state = "HALF_CLOSED" /\ u.ext = b.l /\ u.entry = t.entry /\ u.atr = t.atr
        /\ u.at = t.at /\ u.reason = t.reason
    <3> HIDE DEF u
    <3>1. (t.entry - ShortTp(t)) \in Int /\ b.l \in Int
      BY <1>0, <1>2
    <3>2. /\ SameTrade(u, t) /\ u.pc = t.pc /\ u.reason = t.reason /\ u.realized = t.entry - ShortTp(t)
          /\ u.state = "HALF_CLOSED" /\ u.ext = b.l /\ u.rem = 1
      BY <2>3, <3>1, HalfFields
    <3> QED BY <3>2 DEF SameTrade
  <2> HIDE DEF u
  <2>5. TrailLevel(u) = ShortTrail(u) /\ ShortTrail(u) \in Int
    <3>1. Gap(u, TrailMult) = Gap(t, TrailMult)
      BY <2>4 DEF Gap
    <3> QED BY <1>0, <2>4, <3>1 DEF TrailLevel, ShortTrail, Larger
  <2>6. CASE b.h >= ShortTrail(u)
    <3>1. r = [u EXCEPT !.pc = "done", !.rem = 0, !.realized = u.realized + Gain(u, ShortTrail(u)) * u.rem,
                        !.reason = "trailing_stop"]
      BY <1>1, <2>2, <2>5, <2>6 DEF CheckTrail, CloseRest
    <3>2. Gain(u, ShortTrail(u)) = t.entry - ShortTrail(u)
      BY <2>4 DEF Gain
    <3> DEFINE v == u.realized + Gain(u, ShortTrail(u)) * u.rem
    <3>3. v = (t.entry - ShortTp(t)) + (t.entry - ShortTrail(u))
      BY <1>0, <1>2, <2>4, <2>5, <3>2
    <3>4. v \in Int
      BY <1>0, <1>2, <2>5, <3>3
    <3> HIDE DEF v
    <3>a. r = ClosedWith(u, v, "trailing_stop")
      BY <3>1 DEF v, ClosedWith
    <3>b. /\ SameTrade(r, u) /\ r.pc = "done" /\ r.reason = "trailing_stop" /\ r.realized = v
          /\ r.state = u.state /\ r.ext = u.ext
      BY <2>4, <3>4, <3>a, CloseFields
    <3>5. /\ r \in TradeRows /\ r.pc = "done" /\ r.reason = "trailing_stop" /\ r.state = "HALF_CLOSED"
          /\ r.realized = (t.entry - ShortTp(t)) + (t.entry - ShortTrail(u))
          /\ r.ext = b.l /\ r.entry = t.entry /\ r.atr = t.atr /\ r.at = t.at
      BY <2>4, <3>3, <3>b DEF SameTrade
    <3>6. ShortTrail(r) = ShortTrail(u)
      BY <2>4, <3>5 DEF ShortTrail, Gap
    <3> QED BY <1>5, <2>6, <3>5, <3>6 DEF SameTrade
  <2>7. CASE ~(b.h >= ShortTrail(u))
    <3>1. r = u
      BY <1>1, <2>2, <2>5, <2>7 DEF CheckTrail
    <3>2. b.h < ShortTrail(u)
      BY <1>0, <2>5, <2>7
    <3> QED BY <1>5, <2>4, <3>1, <3>2 DEF SameTrade
  <2> QED BY <2>6, <2>7
<1> QED BY <1>0, <1>2, <1>3, <1>4, <1>5

LEMMA ShortHalf ==
    ASSUME Short, NEW t \in TradeRows, NEW b \in Candles,
           t.pc = "walk", t.state = "HALF_CLOSED", t.rem = 1,
           NEW r, r = WalkHalf(t, b)
    PROVE  /\ SameTrade(r, t) /\ r.state = "HALF_CLOSED" /\ r.ext = Lower(HighOr(t.ext, b.l), b.l)
           /\ \/ /\ b.h >= ShortTrail(r) /\ r.pc = "done" /\ r.reason = "trailing_stop"
                 /\ r.realized = t.realized + (t.entry - ShortTrail(r))
              \/ /\ b.h < ShortTrail(r) /\ r.pc = "walk" /\ r.reason = t.reason
                 /\ r.rem = 1 /\ r.realized = t.realized
<1> DEFINE low == Lower(HighOr(t.ext, b.l), b.l)
           u == [t EXCEPT !.ext = low]
<1>0. /\ b.h \in Nat /\ b.l \in Nat /\ t.entry \in Int /\ t.ext \in Int
      /\ Gap(t, TpMult) \in Nat /\ Gap(t, TrailMult) \in Nat
  BY CandleType, GapNat DEF TradeRows
<1>3. t.realized \in Int
  BY DEF TradeRows
<1>1. Worst(b) = b.h /\ Best(b) = b.l
      /\ \A x, y : (Against(x, y) <=> x >= y) /\ (Reaches(x, y) <=> x <= y)
  BY DEF Worst, Best, Against, Reaches
<1>2. r = CheckTrail(u, b)
  <2>1. Further(HighOr(t.ext, b.l), b.l) = low
    BY <1>1 DEF Further, Lower
  <2> QED BY <1>1, <2>1 DEF WalkHalf
<1>4. /\ u \in TradeRows /\ u.pc = "walk" /\ u.rem = 1 /\ u.realized = t.realized
      /\ u.state = "HALF_CLOSED" /\ u.ext = low /\ u.entry = t.entry /\ u.atr = t.atr
      /\ u.at = t.at /\ u.reason = t.reason
  <2>1. low \in Int
    BY <1>0 DEF Lower, HighOr
  <2> QED BY <1>0, <2>1 DEF TradeRows
<1> HIDE DEF u
<1>5. TrailLevel(u) = ShortTrail(u) /\ ShortTrail(u) \in Int
  <2>1. Gap(u, TrailMult) = Gap(t, TrailMult)
    BY <1>4 DEF Gap
  <2>2. u.ext \in Int
    BY <1>4 DEF TradeRows
  <2> QED BY <1>0, <2>1, <2>2 DEF TrailLevel, ShortTrail, Larger
<1>6. CASE b.h >= ShortTrail(u)
  <2>1. r = [u EXCEPT !.pc = "done", !.rem = 0, !.realized = u.realized + Gain(u, ShortTrail(u)) * u.rem,
                      !.reason = "trailing_stop"]
    BY <1>1, <1>2, <1>5, <1>6 DEF CheckTrail, CloseRest
  <2>2. Gain(u, ShortTrail(u)) = t.entry - ShortTrail(u)
    BY <1>4 DEF Gain
  <2> DEFINE v == u.realized + Gain(u, ShortTrail(u)) * u.rem
  <2>3. v = t.realized + (t.entry - ShortTrail(u))
    BY <1>0, <1>3, <1>4, <1>5, <2>2
  <2>4. v \in Int
    BY <1>0, <1>3, <1>5, <2>3
  <2> HIDE DEF v
  <2>a. r = ClosedWith(u, v, "trailing_stop")
    BY <2>1 DEF v, ClosedWith
  <2>b. /\ SameTrade(r, u) /\ r.pc = "done" /\ r.reason = "trailing_stop" /\ r.realized = v
        /\ r.state = u.state /\ r.ext = u.ext
    BY <1>4, <2>4, <2>a, CloseFields
  <2>5. /\ r \in TradeRows /\ r.pc = "done" /\ r.reason = "trailing_stop" /\ r.state = "HALF_CLOSED"
        /\ r.realized = t.realized + (t.entry - ShortTrail(u))
        /\ r.ext = u.ext /\ r.entry = t.entry /\ r.atr = t.atr /\ r.at = t.at
    BY <1>4, <2>3, <2>b DEF SameTrade
  <2>6. ShortTrail(r) = ShortTrail(u)
    BY <1>4, <2>5 DEF ShortTrail, Gap
  <2> QED BY <1>4, <1>6, <2>5, <2>6 DEF SameTrade
<1>7. CASE ~(b.h >= ShortTrail(u))
  <2>1. r = u
    BY <1>1, <1>2, <1>5, <1>7 DEF CheckTrail
  <2>2. b.h < ShortTrail(u)
    BY <1>0, <1>5, <1>7
  <2> QED BY <1>4, <2>1, <2>2 DEF SameTrade
<1> QED BY <1>6, <1>7

-----------------------------------------------------------------------------
(* The state machine's row.                                                *)

\* SeePrice, with the gap of the trail.
See(row, p, gap) ==
    LET d == decide(row, p, gap)
    IN  [row EXCEPT !.state = d.state, !.high = d.high, !.trail = d.trail, !.rem = Larger(@ - d.qty, 0)]

\* A row with what a decision changes.
Decided(row, state, rem, high, trail) ==
    [row EXCEPT !.state = state, !.high = high, !.trail = trail, !.rem = rem]

LEMMA DecidedFields ==
    ASSUME NEW row \in MachineRows, NEW state \in {"OPEN", "HALF_CLOSED", "CLOSED"}, NEW rem \in Nat,
           NEW high \in Int, NEW trail \in Int, NEW r, r = Decided(row, state, rem, high, trail)
    PROVE  /\ r \in MachineRows /\ r.state = state /\ r.rem = rem /\ r.high = high /\ r.trail = trail
           /\ r.stop = row.stop /\ r.tp = row.tp
<1>1. r = [state |-> state, rem |-> rem, stop |-> row.stop, tp |-> row.tp, high |-> high, trail |-> trail]
  BY DEF Decided, MachineRows
<1> QED BY <1>1 DEF MachineRows

LEMMA SeeOpen ==
    ASSUME NEW row \in MachineRows, row.state = "OPEN", row.rem = 2, NEW p \in Nat, NEW gap \in Nat,
           NEW r, r = See(row, p, gap)
    PROVE  /\ r \in MachineRows /\ r.stop = row.stop /\ r.tp = row.tp
           /\ \/ p <= row.stop /\ r.state = "CLOSED" /\ r.trail = row.trail
              \/ p > row.stop /\ p < row.tp /\ r = row
              \/ /\ p > row.stop /\ p >= row.tp /\ r.state = "HALF_CLOSED" /\ r.rem = 1
                 /\ r.high = p /\ r.trail = p - gap
<1>0. /\ row.stop \in Int /\ row.tp \in Int /\ row.high \in Int /\ row.trail \in Int
      /\ p - gap \in Int /\ p \in Int
  BY DEF MachineRows
<1> DEFINE d == decide(row, p, gap)
<1>1. d = DecideOpen(row, p, gap)
  BY DEF decide
<1>2. r = Decided(row, d.state, Larger(row.rem - d.qty, 0), d.high, d.trail)
  BY DEF See, Decided
<1> HIDE DEF d
<1>3. CASE p <= row.stop
  <2>1. d = [state |-> "CLOSED", qty |-> row.rem, high |-> row.high, trail |-> row.trail]
    BY <1>1, <1>3 DEF DecideOpen
  <2>2. Larger(row.rem - d.qty, 0) = 0
    BY <2>1 DEF Larger
  <2>3. r = Decided(row, "CLOSED", 0, row.high, row.trail)
    BY <1>2, <2>1, <2>2
  <2> QED BY <1>0, <1>3, <2>3, DecidedFields
<1>4. CASE p > row.stop /\ p < row.tp
  <2>1. d = Keep(row)
    BY <1>0, <1>1, <1>4 DEF DecideOpen
  <2>2. d = [state |-> row.state, qty |-> 0, high |-> row.high, trail |-> row.trail]
    BY <2>1 DEF Keep
  <2>3. Larger(row.rem - d.qty, 0) = 2
    BY <2>2 DEF Larger
  <2>4. r = Decided(row, row.state, row.rem, row.high, row.trail)
    BY <1>2, <2>2, <2>3
  <2>5. r = row
    BY <2>4 DEF Decided, MachineRows
  <2> QED BY <1>4, <2>5
<1>5. CASE p > row.stop /\ p >= row.tp
  <2>1. d = [state |-> "HALF_CLOSED", qty |-> row.rem \div 2, high |-> p, trail |-> p - gap]
    BY <1>0, <1>1, <1>5 DEF DecideOpen
  <2>2. Larger(row.rem - d.qty, 0) = 1
    BY <2>1 DEF Larger
  <2> DEFINE trail == p - gap
  <2>3. r = Decided(row, "HALF_CLOSED", 1, p, trail)
    BY <1>2, <2>1, <2>2
  <2>4. trail \in Int
    BY <1>0
  <2> HIDE DEF trail
  <2>5. /\ r \in MachineRows /\ r.state = "HALF_CLOSED" /\ r.rem = 1 /\ r.high = p /\ r.trail = trail
        /\ r.stop = row.stop /\ r.tp = row.tp
    BY <1>0, <2>3, <2>4, DecidedFields
  <2> QED BY <1>5, <2>5 DEF trail
<1> QED BY <1>0, <1>3, <1>4, <1>5

LEMMA SeeHalf ==
    ASSUME NEW row \in MachineRows, row.state = "HALF_CLOSED", row.rem = 1, row.high > 0,
           NEW p \in Nat, NEW gap \in Nat, NEW r, r = See(row, p, gap)
    PROVE  /\ r \in MachineRows /\ r.stop = row.stop /\ r.tp = row.tp
           /\ r.high = Larger(row.high, p) /\ r.trail = Larger(row.high, p) - gap
           /\ \/ p <= r.trail /\ r.state = "CLOSED"
              \/ p > r.trail /\ r.state = "HALF_CLOSED" /\ r.rem = 1
<1> DEFINE d == decide(row, p, gap)
           high == Larger(row.high, p)
           trail == high - gap
<1>0. row.high \in Int /\ high \in Int /\ trail \in Int
  BY DEF MachineRows, Larger
<1>1. d = DecideHalf(row, p, gap)
  BY DEF decide
<1>2. r = Decided(row, d.state, Larger(row.rem - d.qty, 0), d.high, d.trail)
  BY DEF See, Decided
<1>a. HighOr(row.high, p) = row.high
  BY <1>0 DEF HighOr, None
<1>b. d = [state |-> IF p <= trail THEN "CLOSED" ELSE "HALF_CLOSED",
           qty |-> IF p <= trail THEN row.rem ELSE 0, high |-> high, trail |-> trail]
  BY <1>1, <1>a DEF DecideHalf
<1> HIDE DEF d, high, trail
<1>3. CASE p <= trail
  <2>1. d.state = "CLOSED" /\ d.qty = 1 /\ d.high = high /\ d.trail = trail
    BY <1>b, <1>3
  <2>2. Larger(row.rem - d.qty, 0) = 0
    BY <2>1 DEF Larger
  <2>3. r = Decided(row, "CLOSED", 0, high, trail)
    BY <1>2, <2>1, <2>2
  <2>4. /\ r \in MachineRows /\ r.state = "CLOSED" /\ r.high = high /\ r.trail = trail
        /\ r.stop = row.stop /\ r.tp = row.tp
    BY <1>0, <2>3, DecidedFields
  <2> QED BY <1>3, <2>4 DEF high, trail
<1>4. CASE ~(p <= trail)
  <2>1. d.state = "HALF_CLOSED" /\ d.qty = 0 /\ d.high = high /\ d.trail = trail
    BY <1>b, <1>4
  <2>2. Larger(row.rem - d.qty, 0) = 1
    BY <2>1 DEF Larger
  <2>3. r = Decided(row, "HALF_CLOSED", 1, high, trail)
    BY <1>2, <2>1, <2>2
  <2>4. /\ r \in MachineRows /\ r.state = "HALF_CLOSED" /\ r.rem = 1 /\ r.high = high /\ r.trail = trail
        /\ r.stop = row.stop /\ r.tp = row.tp
    BY <1>0, <2>3, DecidedFields
  <2>5. p > trail
    BY <1>0, <1>4
  <2> QED BY <2>4, <2>5 DEF high, trail
<1> QED BY <1>3, <1>4

LEMMA SeeClosed ==
    ASSUME NEW row \in MachineRows, row.state \in {"NONE", "CLOSED"}, NEW p, NEW gap
    PROVE  See(row, p, gap) = row
<1> DEFINE d == decide(row, p, gap)
<1>1. d = Keep(row)
  BY DEF decide
<1>2. See(row, p, gap) = [row EXCEPT !.state = d.state, !.high = d.high, !.trail = d.trail,
                                     !.rem = Larger(row.rem - d.qty, 0)]
  BY DEF See
<1> HIDE DEF d
<1>3. d.state = row.state /\ d.high = row.high /\ d.trail = row.trail /\ d.qty = 0
  BY <1>1 DEF Keep
<1>4. Larger(row.rem - d.qty, 0) = row.rem
  BY <1>3 DEF MachineRows, Larger
<1>5. See(row, p, gap) = [row EXCEPT !.state = row.state, !.high = row.high, !.trail = row.trail,
                                     !.rem = row.rem]
  BY <1>2, <1>3, <1>4
<1> QED BY <1>5 DEF MachineRows

\* What the state machine makes of a candle: its low, its high, its low.
LEMMA CandleOpen ==
    ASSUME NEW row \in MachineRows, row.state = "OPEN", row.rem = 2, row.stop <= row.tp,
           row.tp > 0, NEW l \in Nat, NEW h \in Nat, l <= h, NEW gap \in Nat,
           NEW r, r = See(See(See(row, l, gap), h, gap), l, gap)
    PROVE  \/ l <= row.stop /\ r.state = "CLOSED" /\ r.trail = row.trail
           \/ l > row.stop /\ h < row.tp /\ r = row
           \/ /\ l > row.stop /\ h >= row.tp /\ r.trail = h - gap
              /\ r.stop = row.stop /\ r.tp = row.tp
              /\ \/ l <= h - gap /\ r.state = "CLOSED"
                 \/ l > h - gap /\ r.state = "HALF_CLOSED" /\ r.rem = 1 /\ r.high = h
<1> DEFINE a == See(row, l, gap)
           b == See(a, h, gap)
<1>0. row.stop \in Int /\ row.tp \in Int
  BY DEF MachineRows
<1>1. /\ a \in MachineRows /\ a.stop = row.stop /\ a.tp = row.tp
      /\ \/ l <= row.stop /\ a.state = "CLOSED" /\ a.trail = row.trail
         \/ l > row.stop /\ l < row.tp /\ a = row
         \/ /\ l > row.stop /\ l >= row.tp /\ a.state = "HALF_CLOSED" /\ a.rem = 1
            /\ a.high = l /\ a.trail = l - gap
  BY SeeOpen
<1> HIDE DEF a
<1>2. CASE l <= row.stop
  <2>1. a.state = "CLOSED" /\ a.trail = row.trail
    BY <1>0, <1>1, <1>2
  <2>2. b = a
    BY <1>1, <2>1, SeeClosed
  <2>3. r = a
    BY <1>1, <2>1, <2>2, SeeClosed DEF a
  <2> QED BY <1>2, <2>1, <2>3
<1>3. CASE l > row.stop /\ h < row.tp
  <2>1. a = row
    BY <1>0, <1>1, <1>3
  <2>2. b = row
    <3>1. h > row.stop /\ ~(h <= row.stop) /\ ~(h >= row.tp)
      BY <1>0, <1>3
    <3> QED BY <1>0, <2>1, <3>1, SeeOpen
  <2>3. r = a
    BY <2>1, <2>2 DEF a
  <2> QED BY <1>3, <2>1, <2>3
<1>4. CASE l > row.stop /\ h >= row.tp
  <2>0. h > row.stop /\ ~(h <= row.stop) /\ ~(h < row.tp) /\ ~(l <= row.stop) /\ h > 0
    BY <1>0, <1>4
  <2>1. /\ b \in MachineRows /\ b.stop = row.stop /\ b.tp = row.tp /\ b.high = h /\ b.trail = h - gap
        /\ \/ b.state = "HALF_CLOSED" /\ b.rem = 1
           \/ b.state = "CLOSED" /\ h <= h - gap
    <3>1. CASE a = row
      <4>1. /\ b \in MachineRows /\ b.stop = row.stop /\ b.tp = row.tp
            /\ b.state = "HALF_CLOSED" /\ b.rem = 1 /\ b.high = h /\ b.trail = h - gap
        BY <2>0, <3>1, SeeOpen
      <4> QED BY <4>1
    <3>2. CASE l >= row.tp /\ a.state = "HALF_CLOSED" /\ a.rem = 1 /\ a.high = l
      <4>1. Larger(l, h) = h /\ a.high > 0
        BY <1>0, <3>2 DEF Larger
      <4>2. /\ b \in MachineRows /\ b.stop = a.stop /\ b.tp = a.tp
            /\ b.high = Larger(a.high, h) /\ b.trail = Larger(a.high, h) - gap
            /\ \/ h <= b.trail /\ b.state = "CLOSED"
               \/ h > b.trail /\ b.state = "HALF_CLOSED" /\ b.rem = 1
        BY <1>1, <3>2, <4>1, SeeHalf
      <4> QED BY <1>1, <3>2, <4>1, <4>2
    <3> QED BY <1>0, <1>1, <2>0, <3>1, <3>2
  <2> HIDE DEF b
  <2>r. r = See(b, l, gap)
    BY DEF a, b
  <2>2. CASE b.state = "CLOSED" /\ h <= h - gap
    <3>1. r = b
      BY <2>1, <2>r, <2>2, SeeClosed
    <3>2. l <= h - gap
      BY <2>2
    <3> QED BY <1>4, <2>1, <2>2, <3>1, <3>2
  <2>3. CASE b.state = "HALF_CLOSED" /\ b.rem = 1
    <3>1. Larger(h, l) = h
      BY DEF Larger
    <3>2. /\ r \in MachineRows /\ r.stop = b.stop /\ r.tp = b.tp
          /\ r.high = Larger(b.high, l) /\ r.trail = Larger(b.high, l) - gap
          /\ \/ l <= r.trail /\ r.state = "CLOSED"
             \/ l > r.trail /\ r.state = "HALF_CLOSED" /\ r.rem = 1
      BY <2>0, <2>1, <2>r, <2>3, SeeHalf
    <3> QED BY <1>4, <2>1, <3>1, <3>2
  <2> QED BY <2>1, <2>2, <2>3
<1> QED BY <1>0, <1>2, <1>3, <1>4

LEMMA CandleHalf ==
    ASSUME NEW row \in MachineRows, row.state = "HALF_CLOSED", row.rem = 1, row.high > 0,
           NEW l \in Nat, NEW h \in Nat, l <= h, NEW gap \in Nat,
           NEW r, r = See(See(See(row, l, gap), h, gap), l, gap)
    PROVE  \/ l <= Larger(row.high, h) - gap /\ r.state = "CLOSED" /\ r.trail >= 0
           \/ /\ l > Larger(row.high, h) - gap /\ r.state = "HALF_CLOSED" /\ r.rem = 1
              /\ r.high = Larger(row.high, h) /\ r.stop = row.stop /\ r.tp = row.tp
<1> DEFINE a == See(row, l, gap)
           b == See(a, h, gap)
           x == row.high
<1>0. x \in Int /\ x > 0
  BY DEF MachineRows
<1>l. /\ Larger(x, l) \in Int /\ Larger(x, l) > 0 /\ Larger(x, h) \in Int /\ Larger(x, h) > 0
      /\ Larger(x, l) <= Larger(x, h)
      /\ Larger(Larger(x, l), h) = Larger(x, h) /\ Larger(Larger(x, h), l) = Larger(x, h)
  BY <1>0 DEF Larger
<1>1. /\ a \in MachineRows /\ a.stop = row.stop /\ a.tp = row.tp
      /\ a.high = Larger(x, l) /\ a.trail = Larger(x, l) - gap
      /\ \/ l <= a.trail /\ a.state = "CLOSED"
         \/ l > a.trail /\ a.state = "HALF_CLOSED" /\ a.rem = 1
  BY SeeHalf
<1> HIDE DEF a, x
<1>2. CASE a.state = "CLOSED"
  <2>1. b = a
    BY <1>1, <1>2, SeeClosed
  <2>2. r = a
    BY <1>1, <1>2, <2>1, SeeClosed DEF a
  <2>3. l <= a.trail
    BY <1>1, <1>2
  <2>4. l <= Larger(x, h) - gap /\ a.trail >= 0
    BY <1>1, <1>l, <2>3
  <2> QED BY <1>2, <2>2, <2>4 DEF x
<1>3. CASE a.state = "HALF_CLOSED"
  <2>1. a.rem = 1 /\ a.high > 0
    BY <1>1, <1>3, <1>l
  <2>2. /\ b \in MachineRows /\ b.stop = a.stop /\ b.tp = a.tp
        /\ b.high = Larger(a.high, h) /\ b.trail = Larger(a.high, h) - gap
        /\ \/ h <= b.trail /\ b.state = "CLOSED"
           \/ h > b.trail /\ b.state = "HALF_CLOSED" /\ b.rem = 1
    BY <1>1, <1>3, <2>1, SeeHalf
  <2> HIDE DEF b
  <2>3. b.high = Larger(x, h) /\ b.trail = Larger(x, h) - gap
    BY <1>1, <1>l, <2>2
  <2>r. r = See(b, l, gap)
    BY DEF a, b
  <2>4. CASE b.state = "CLOSED"
    <3>1. r = b
      BY <2>2, <2>r, <2>4, SeeClosed
    <3>2. l <= Larger(x, h) - gap /\ b.trail >= 0
      BY <1>l, <2>2, <2>3, <2>4
    <3> QED BY <2>4, <3>1, <3>2 DEF x
  <2>5. CASE b.state = "HALF_CLOSED"
    <3>1. b.rem = 1 /\ b.high > 0
      BY <1>l, <2>2, <2>3, <2>5
    <3>2. /\ r \in MachineRows /\ r.stop = b.stop /\ r.tp = b.tp
          /\ r.high = Larger(b.high, l) /\ r.trail = Larger(b.high, l) - gap
          /\ \/ l <= r.trail /\ r.state = "CLOSED"
             \/ l > r.trail /\ r.state = "HALF_CLOSED" /\ r.rem = 1
      BY <2>2, <2>r, <2>5, <3>1, SeeHalf
    <3>3. r.high = Larger(x, h) /\ r.trail = Larger(x, h) - gap
      BY <1>l, <2>3, <3>2
    <3>4. l <= r.trail => r.trail >= 0
      BY <1>l, <3>3
    <3> QED BY <1>1, <2>2, <3>2, <3>3, <3>4 DEF x
  <2> QED BY <2>2, <2>4, <2>5
<1> QED BY <1>1, <1>2, <1>3

\* The row keeps its fields, whatever is seen.
LEMMA SeeType ==
    ASSUME NEW row \in MachineRows, NEW p \in Nat, NEW gap \in Nat
    PROVE  See(row, p, gap) \in MachineRows
<1> DEFINE d == decide(row, p, gap)
<1>1. d.state \in {"NONE", "OPEN", "HALF_CLOSED", "CLOSED"} /\ d.high \in Int /\ d.trail \in Int
      /\ d.qty \in Int
  <2>0. row.rem \in Nat /\ row.high \in Int /\ row.trail \in Int
        /\ row.state \in {"NONE", "OPEN", "HALF_CLOSED", "CLOSED"}
    BY DEF MachineRows
  <2>1. CASE row.state = "OPEN"
    <3>1. d = DecideOpen(row, p, gap)
      BY <2>1 DEF decide
    <3>2. p - gap \in Int /\ row.rem \div 2 \in Int
      BY <2>0
    <3> QED BY <2>0, <3>1, <3>2 DEF DecideOpen, Keep
  <2>2. CASE row.state = "HALF_CLOSED"
    <3>1. d = DecideHalf(row, p, gap)
      BY <2>2 DEF decide
    <3>2. Larger(HighOr(row.high, p), p) \in Int
      BY <2>0 DEF Larger, HighOr
    <3> QED BY <2>0, <3>1, <3>2 DEF DecideHalf
  <2>3. CASE row.state \in {"NONE", "CLOSED"}
    <3>1. d = Keep(row)
      BY <2>3 DEF decide
    <3> QED BY <2>0, <3>1 DEF Keep
  <2> QED BY <2>0, <2>1, <2>2, <2>3
<1> HIDE DEF d
<1>2. Larger(row.rem - d.qty, 0) \in Nat
  BY <1>1 DEF MachineRows, Larger
<1>3. See(row, p, gap) = [row EXCEPT !.state = d.state, !.high = d.high, !.trail = d.trail,
                                     !.rem = Larger(row.rem - d.qty, 0)]
  BY DEF See, d
<1> QED BY <1>1, <1>2, <1>3 DEF MachineRows

-----------------------------------------------------------------------------
(* The steps.                                                              *)

\* The bounds, from where a trade is closed.
LEMMA LongOpenBound ==
    ASSUME NEW t \in TradeRows, t.state = "OPEN", NEW x \in Int, x >= LongStop(t),
           t.realized = 2 * (x - t.entry)
    PROVE  LongBounded(t)
<1>1. t.entry \in Int /\ Gap(t, StopMult) \in Nat
  BY GapNat DEF TradeRows
<1>2. LongStop(t) \in Int
  BY <1>1 DEF LongStop, Larger
<1> QED BY <1>1, <1>2 DEF LongBounded

LEMMA LongHalfBound ==
    ASSUME NEW t \in TradeRows, t.state = "HALF_CLOSED", t.entry > 0, Gap(t, StopMult) > 0,
           t.ext >= LongTp(t), NEW x \in Int, x >= LongTrail(t),
           t.realized = Gap(t, TpMult) + (x - t.entry)
    PROVE  LongBounded(t)
<1>1. /\ t.entry \in Int /\ t.ext \in Int /\ t.atr \in Nat
      /\ Gap(t, StopMult) \in Nat /\ Gap(t, TpMult) \in Nat /\ Gap(t, TrailMult) \in Nat
  BY GapNat DEF TradeRows
<1>2. LongTrail(t) \in Int /\ LongTrail(t) >= t.ext - Gap(t, TrailMult)
  BY <1>1 DEF LongTrail, Larger
<1>3. t.realized >= 2 * Gap(t, TpMult) - Gap(t, TrailMult)
  BY <1>1, <1>2 DEF LongTp
<1>4. LongStop(t) \in Int /\ LongStop(t) - t.entry <= -1
  BY <1>1 DEF LongStop, Larger
<1>5. ASSUME TrailMult <= 2 * TpMult PROVE t.realized >= 2 * (LongStop(t) - t.entry)
  <2>1. Gap(t, TrailMult) <= 2 * Gap(t, TpMult) + 1
    BY <1>1, <1>5, GapGrows
  <2>2. t.realized \in Int
    BY DEF TradeRows
  <2> QED BY <1>1, <1>3, <1>4, <2>1, <2>2
<1> QED BY <1>3, <1>5 DEF LongBounded

LEMMA ShortOpenBound ==
    ASSUME NEW t \in TradeRows, t.state = "OPEN", NEW x \in Int, x <= ShortStop(t),
           t.realized = 2 * (t.entry - x)
    PROVE  ShortBounded(t)
<1>1. t.entry \in Int /\ Gap(t, StopMult) \in Nat
  BY GapNat DEF TradeRows
<1>2. ShortStop(t) \in Int
  BY <1>1 DEF ShortStop
<1> QED BY <1>1, <1>2 DEF ShortBounded

LEMMA ShortHalfBound ==
    ASSUME NEW t \in TradeRows, t.state = "HALF_CLOSED", Gap(t, StopMult) > 0,
           t.entry - Gap(t, TpMult) > 0, t.ext <= ShortTp(t), NEW x \in Int, x <= ShortTrail(t),
           t.realized = (t.entry - ShortTp(t)) + (t.entry - x)
    PROVE  ShortBounded(t)
<1>1. /\ t.entry \in Int /\ t.ext \in Int /\ t.atr \in Nat
      /\ Gap(t, StopMult) \in Nat /\ Gap(t, TpMult) \in Nat /\ Gap(t, TrailMult) \in Nat
  BY GapNat DEF TradeRows
<1>2. ShortTp(t) = t.entry - Gap(t, TpMult)
  BY <1>1 DEF ShortTp, Larger
<1>3. t.realized >= 2 * (t.entry - ShortTp(t)) - Gap(t, TrailMult)
  BY <1>1, <1>2 DEF ShortTrail
<1>4. ShortStop(t) \in Int /\ t.entry - ShortStop(t) <= -1
  BY <1>1 DEF ShortStop
<1>5. ASSUME TrailMult <= 2 * TpMult PROVE t.realized >= 2 * (t.entry - ShortStop(t))
  <2>1. Gap(t, TrailMult) <= 2 * Gap(t, TpMult) + 1
    BY <1>1, <1>5, GapGrows
  <2>2. t.realized \in Int
    BY DEF TradeRows
  <2> QED BY <1>1, <1>2, <1>3, <1>4, <2>1, <2>2
<1> QED BY <1>3, <1>5 DEF ShortBounded

LEMMA SeriesType ==
    ASSUME TradeType
    PROVE  /\ Len(series) \in Nat /\ signal.index \in Nat
           /\ \A i \in 1 .. Len(series) : series[i] \in Candles
  BY LenProperties, ElementOfSeq DEF TradeType

LEMMA AtrType ==
    ASSUME TradeType
    PROVE  compute_atr \in Nat
<1> DEFINE first == Larger(1, signal.index - AtrPeriod + 1)
           window == first .. signal.index
           ranges == [i \in window |-> TrueRange(i, first)]
           sum == SumFunctionOnSet(ranges, window)
<1>0. signal.index \in 1 .. Len(series) /\ Len(series) \in Nat /\ AtrPeriod \in Nat \ {0}
  BY SeriesType, MultAssumption DEF TradeType
<1>1. first \in Nat /\ first >= 1 /\ first <= signal.index
  BY <1>0 DEF Larger
<1> HIDE DEF first
<1>2. ASSUME NEW i \in window PROVE ranges[i] \in Nat
  <2> DEFINE j == IF i > first THEN i - 1 ELSE i
  <2>1. i \in 1 .. Len(series) /\ j \in 1 .. Len(series)
    BY <1>0, <1>1
  <2>2. series[i] \in Candles /\ series[j] \in Candles
    BY <2>1, SeriesType
  <2> HIDE DEF j
  <2>3. /\ series[i].h \in Nat /\ series[i].l \in Nat /\ series[i].l <= series[i].h
        /\ series[j].c \in Nat
    BY <2>2, CandleType
  <2>4. TrueRange(i, first) = Larger(series[i].h - series[i].l,
               Larger(Distance(series[i].h, series[j].c), Distance(series[i].l, series[j].c)))
    BY DEF TrueRange, j
  <2>5. Distance(series[i].h, series[j].c) \in Nat /\ Distance(series[i].l, series[j].c) \in Nat
    BY <2>3 DEF Distance, Larger
  <2>6. TrueRange(i, first) \in Nat
    BY <2>3, <2>4, <2>5 DEF Larger
  <2> QED BY <2>6
<1>3. IsFiniteSet(window)
  <2>1. first \in Int /\ signal.index \in Int
    BY <1>0, <1>1
  <2> QED BY <2>1, FS_Interval
<1> HIDE DEF window, ranges
<1>4. sum \in Nat
  BY <1>2, <1>3, SumType
<1>5. compute_atr = Larger(sum \div (signal.index - first + 1), 1)
  BY DEF compute_atr, first, window, ranges
<1> HIDE DEF sum
<1>6. signal.index - first + 1 \in Nat \ {0}
  BY <1>0, <1>1
<1>7. \A a \in Nat, b \in Nat \ {0} : a \div b \in Nat
  OBVIOUS
<1>8. sum \div (signal.index - first + 1) \in Nat
  BY <1>4, <1>6, <1>7
<1> QED BY <1>5, <1>8 DEF Larger

LEMMA InitTrade == TradeInit => TradeInv
<1> SUFFICES ASSUME TradeInit PROVE TradeInv
    OBVIOUS
<1>1. PICK n \in 2 .. MaxCandles : series \in [1 .. n -> Candles]
  BY DEF TradeInit
<1>2. series \in Seq(Candles) /\ Len(series) = n
  BY <1>1
<1>3. /\ trade = NoTrade /\ machine = NoPosition /\ signal.side \in {"buy", "sell"}
      /\ signal.index \in 1 .. MaxCandles /\ signal.index <= Len(series)
  BY DEF TradeInit
<1>4. trade \in TradeRows /\ machine \in MachineRows
  BY <1>3 DEF NoTrade, NoPosition, TradeRows, MachineRows, None
<1>5. TradeType
  BY <1>1, <1>2, <1>3, <1>4 DEF TradeType
<1>6. trade.pc = "start" /\ trade.reason = "end_of_data"
  BY <1>3 DEF NoTrade
<1> QED BY <1>3, <1>5, <1>6
        DEF TradeInv, StartInv, WalkInv, LongInv, ShortInv, MachineInv, ReasonInv, DoneInv

\* What the steps leave alone keeps its meaning.
LEMMA SameSide ==
    ASSUME UNCHANGED <<series, signal>>
    PROVE  (Short' <=> Short) /\ (PositivePrices' <=> PositivePrices) /\ (Comparable' <=> Comparable)
  BY DEF Short, PositivePrices, Comparable

LEMMA SkipKeeps == TradeInv /\ SkipTrade => TradeInv'
<1> SUFFICES ASSUME TradeInv, SkipTrade PROVE TradeInv'
    OBVIOUS
<1>0. trade \in TradeRows /\ trade = NoTrade
  BY DEF TradeInv, TradeType, StartInv, SkipTrade
<1>1. /\ trade' \in TradeRows /\ trade'.pc = "skipped" /\ trade'.reason = "end_of_data"
      /\ UNCHANGED <<series, signal, machine>>
  BY <1>0 DEF SkipTrade, TradeRows, NoTrade
<1> QED BY <1>1, SameSide
        DEF TradeInv, TradeType, StartInv, WalkInv, LongInv, ShortInv, MachineInv, ReasonInv, DoneInv

LEMMA EnterKeeps == TradeInv /\ EnterTrade => TradeInv'
<1> SUFFICES ASSUME TradeInv, EnterTrade PROVE TradeInv'
    OBVIOUS
<1> DEFINE i == signal.index + 1
           raw == series[i].o
           slip == (raw * Slippage) \div 100
<1>0. TradeType /\ trade = NoTrade /\ signal.index < Len(series) /\ entry_price > 0
  BY DEF TradeInv, StartInv, EnterTrade
<1>1. /\ signal.index \in Nat /\ Len(series) \in Nat /\ i \in 1 .. Len(series)
      /\ series[i] \in Candles
  BY <1>0, SeriesType
<1>2. raw \in Nat /\ series[i].l <= raw /\ raw <= series[i].h /\ series[i].l \in Nat /\ series[i].h \in Nat
  BY <1>1, CandleType
<1>3. slip \in Nat
  <2>1. Slippage \in Nat
    BY MultAssumption
  <2>2. \A a, b \in Nat : a * b \in Nat
    OBVIOUS
  <2>3. \A a \in Nat : a \div 100 \in Nat
    OBVIOUS
  <2> QED BY <1>2, <2>1, <2>2, <2>3
<1>4. /\ entry_price \in Int
      /\ Short => series[i].h >= entry_price
      /\ ~Short => series[i].l <= entry_price
  <2>1. entry_price = IF Short THEN raw - slip ELSE raw + slip
    BY DEF entry_price
  <2> HIDE DEF raw, slip, i
  <2> QED BY <1>2, <1>3, <2>1
<1>5. /\ trade' = [pc |-> "walk", at |-> i, entry |-> entry_price, atr |-> compute_atr, state |-> "OPEN",
                    rem |-> 2, realized |-> 0, ext |-> None, reason |-> "end_of_data"]
      /\ machine' = [state |-> "OPEN", rem |-> 2, stop |-> StopLevel(trade'), tp |-> TpLevel(trade'),
                  high |-> entry_price, trail |-> None]
      /\ UNCHANGED <<series, signal>>
  BY <1>0 DEF EnterTrade, NoTrade
<1> HIDE DEF i, raw, slip
<1>6. /\ trade' \in TradeRows /\ trade'.pc = "walk" /\ trade'.at = i /\ trade'.entry = entry_price
      /\ trade'.state = "OPEN" /\ trade'.rem = 2 /\ trade'.realized = 0
      /\ trade'.reason = "end_of_data" /\ i \in Nat
  <2>1. i \in Nat /\ compute_atr \in Nat
    BY <1>0, <1>1, AtrType DEF i
  <2>2. None \in Int /\ entry_price \in Int
    BY <1>4 DEF None
  <2> QED BY <1>5, <2>1, <2>2 DEF TradeRows
<1>7. /\ Gap(trade', StopMult) \in Nat /\ Gap(trade', TpMult) \in Nat
      /\ StopLevel(trade') \in Int /\ TpLevel(trade') \in Int
      /\ ~Short => StopLevel(trade') = LongStop(trade') /\ TpLevel(trade') = LongTp(trade')
  <2>1. trade'.atr \in Nat
    BY <1>6 DEF TradeRows
  <2>2. Gap(trade', StopMult) \in Nat /\ Gap(trade', TpMult) \in Nat
    BY <2>1, GapNat
  <2>4. trade'.entry \in Int
    BY <1>6 DEF TradeRows
  <2>3. /\ trade'.entry - Gap(trade', StopMult) \in Int /\ trade'.entry + Gap(trade', StopMult) \in Int
        /\ trade'.entry - Gap(trade', TpMult) \in Int /\ trade'.entry + Gap(trade', TpMult) \in Int
    BY <2>2, <2>4
  <2>5. StopLevel(trade') \in Int
    BY <2>3 DEF StopLevel, Larger
  <2>6. TpLevel(trade') \in Int
    BY <2>3 DEF TpLevel, Larger
  <2>7. ~Short => StopLevel(trade') = LongStop(trade') /\ TpLevel(trade') = LongTp(trade')
    BY DEF StopLevel, TpLevel, LongStop, LongTp
  <2> QED BY <2>2, <2>5, <2>6, <2>7
<1>8. /\ machine' \in MachineRows /\ machine'.state = "OPEN" /\ machine'.rem = 2 /\ machine'.trail = None
      /\ machine'.stop = StopLevel(trade') /\ machine'.tp = TpLevel(trade')
  <2>1. None \in Int
    BY DEF None
  <2> QED BY <1>4, <1>5, <1>7, <2>1 DEF MachineRows
<1>9. TradeType'
  BY <1>0, <1>5, <1>6, <1>8 DEF TradeType
<1>10. WalkInv'
  <2>1. trade'.at = signal'.index + 1 /\ ~(trade'.at > signal'.index + 1)
    BY <1>1, <1>5, <1>6 DEF i
  <2>2. trade'.at \in signal'.index + 1 .. Len(series') + 1
    BY <1>1, <1>5, <1>6 DEF i
  <2>3. /\ Short' => series'[trade'.at].h >= trade'.entry
        /\ ~Short' => series'[trade'.at].l <= trade'.entry
    BY <1>4, <1>5, <1>6, SameSide
  <2> QED BY <1>0, <1>5, <1>6, <2>1, <2>2, <2>3 DEF WalkInv
<1>11. LongInv' /\ ShortInv'
  <2>1. ~(trade'.at > signal'.index + 1)
    BY <1>1, <1>5, <1>6 DEF i
  <2> QED BY <2>1 DEF LongInv, ShortInv
<1>12. MachineInv'
  BY <1>5, <1>6, <1>7, <1>8, SameSide DEF MachineInv, Comparable
<1>13. StartInv' /\ ReasonInv' /\ DoneInv'
  BY <1>6 DEF StartInv, ReasonInv, DoneInv
<1> QED BY <1>9, <1>10, <1>11, <1>12, <1>13 DEF TradeInv

\* A candle of the walk: the row the simulation and the state machine work on.
Moved(t) == [t EXCEPT !.at = @ + 1]

LEMMA Moves ==
    ASSUME TradeInv, trade.pc = "walk", trade.at <= Len(series),
           NEW t, t = Moved(trade), NEW b, b = series[trade.at]
    PROVE  /\ TradeType
           /\ t \in TradeRows /\ t.at = trade.at + 1 /\ t.entry = trade.entry /\ t.atr = trade.atr
           /\ t.pc = "walk" /\ t.state = trade.state /\ t.rem = trade.rem /\ t.realized = trade.realized
           /\ t.ext = trade.ext /\ t.reason = "end_of_data" /\ t.entry > 0
           /\ b \in Candles /\ t.at \in signal.index + 2 .. Len(series) + 1
           /\ t.state = "OPEN" => t.rem = 2 /\ t.realized = 0
           /\ t.state = "HALF_CLOSED" => t.rem = 1 /\ Gap(t, StopMult) > 0
           /\ t.state \in {"OPEN", "HALF_CLOSED"}
           /\ ~Short /\ b.l > LongStop(t) => Gap(t, StopMult) > 0
           /\ Short /\ b.h < ShortStop(t) => Gap(t, StopMult) > 0
           /\ PositivePrices => b.l > 0
<1>0. TradeType /\ WalkInv /\ trade \in TradeRows /\ trade.at \in Nat
  BY DEF TradeInv, TradeType, TradeRows
<1>1. t = [pc |-> trade.pc, at |-> trade.at + 1, entry |-> trade.entry, atr |-> trade.atr,
           state |-> trade.state, rem |-> trade.rem, realized |-> trade.realized,
           ext |-> trade.ext, reason |-> trade.reason]
  BY <1>0 DEF TradeRows, Moved
<1>2. t \in TradeRows
  BY <1>0, <1>1 DEF TradeRows
<1>3. /\ trade.entry > 0 /\ trade.reason = "end_of_data"
      /\ trade.at \in signal.index + 1 .. Len(series) + 1
      /\ trade.at = signal.index + 1 =>
               /\ trade.state = "OPEN"
               /\ Short => series[trade.at].h >= trade.entry
               /\ ~Short => series[trade.at].l <= trade.entry
      /\ trade.at > signal.index + 1 => Gap(trade, StopMult) > 0
      /\ trade.state = "OPEN" => trade.rem = 2 /\ trade.realized = 0
      /\ trade.state = "HALF_CLOSED" => trade.rem = 1
  BY <1>0 DEF WalkInv
<1>4. Len(series) \in Nat /\ signal.index \in Nat
  BY <1>0, SeriesType
<1>5. trade.at \in 1 .. Len(series) /\ b \in Candles
  BY <1>0, <1>3, <1>4, SeriesType
<1>6. t.at \in signal.index + 2 .. Len(series) + 1
  BY <1>1, <1>3, <1>4, <1>5
<1>7. Gap(t, StopMult) = Gap(trade, StopMult) /\ Gap(t, StopMult) \in Nat
  <2>1. t.atr = trade.atr /\ t.atr \in Nat
    BY <1>1, <1>0 DEF TradeRows
  <2>2. Gap(t, StopMult) = Gap(trade, StopMult)
    BY <2>1 DEF Gap
  <2> QED BY <2>1, <2>2, GapNat
<1>8. trade.at = signal.index + 1 \/ trade.at > signal.index + 1
  BY <1>3, <1>4
<1>9. b.l \in Nat /\ b.h \in Nat /\ t.entry \in Int /\ t.entry = trade.entry
  BY <1>1, <1>2, <1>5, CandleType DEF TradeRows
<1>10. ~Short /\ b.l > LongStop(t) => Gap(t, StopMult) > 0
  <2> SUFFICES ASSUME ~Short, b.l > LongStop(t), trade.at = signal.index + 1
               PROVE  Gap(t, StopMult) > 0
      BY <1>3, <1>7, <1>8
  <2>1. b.l <= t.entry
    BY <1>3, <1>9
  <2>2. t.entry - Gap(t, StopMult) \in Int
    BY <1>7, <1>9
  <2>3. LongStop(t) >= t.entry - Gap(t, StopMult) /\ LongStop(t) \in Int
    BY <2>2 DEF LongStop, Larger
  <2> QED BY <1>7, <1>9, <2>1, <2>3
<1>11. Short /\ b.h < ShortStop(t) => Gap(t, StopMult) > 0
  <2> SUFFICES ASSUME Short, b.h < ShortStop(t), trade.at = signal.index + 1
               PROVE  Gap(t, StopMult) > 0
      BY <1>3, <1>7, <1>8
  <2>1. b.h >= t.entry
    BY <1>3, <1>9
  <2> QED BY <1>7, <1>9, <2>1 DEF ShortStop
<1>12. PositivePrices => b.l > 0
  BY <1>3, <1>4, <1>5 DEF PositivePrices
<1>13. t.state = "HALF_CLOSED" => t.rem = 1 /\ Gap(t, StopMult) > 0
  BY <1>1, <1>3, <1>7, <1>8
<1>14. t.state \in {"OPEN", "HALF_CLOSED"}
  BY <1>2 DEF TradeRows
<1> QED BY <1>1, <1>2, <1>3, <1>5, <1>6, <1>9, <1>10, <1>11, <1>12, <1>13, <1>14, <1>0

LEMMA SameLevels ==
    ASSUME NEW r, NEW t, SameTrade(r, t), t \in TradeRows
    PROVE  /\ LongStop(r) = LongStop(t) /\ LongTp(r) = LongTp(t)
           /\ ShortStop(r) = ShortStop(t) /\ ShortTp(r) = ShortTp(t)
           /\ Gap(r, StopMult) = Gap(t, StopMult) /\ Gap(r, TpMult) = Gap(t, TpMult)
           /\ Gap(r, TrailMult) = Gap(t, TrailMult)
           /\ Gap(t, StopMult) \in Nat /\ Gap(t, TpMult) \in Nat /\ Gap(t, TrailMult) \in Nat
           /\ LongStop(t) \in Int /\ LongTp(t) \in Int /\ ShortStop(t) \in Int /\ ShortTp(t) \in Int
           /\ r.entry = t.entry /\ t.entry \in Int /\ r.realized \in Int /\ r.ext \in Int
           /\ LongTrail(r) \in Int /\ ShortTrail(r) \in Int /\ r \in TradeRows
<1>1. r.entry = t.entry /\ r.atr = t.atr /\ r \in TradeRows
  BY DEF SameTrade
<1>2. /\ Gap(r, StopMult) = Gap(t, StopMult) /\ Gap(r, TpMult) = Gap(t, TpMult)
      /\ Gap(r, TrailMult) = Gap(t, TrailMult)
  BY <1>1 DEF Gap
<1>3. Gap(t, StopMult) \in Nat /\ Gap(t, TpMult) \in Nat /\ Gap(t, TrailMult) \in Nat
      /\ t.entry \in Int /\ r.realized \in Int /\ r.ext \in Int
  BY <1>1, GapNat DEF TradeRows
<1>4. LongStop(t) \in Int /\ LongTp(t) \in Int /\ ShortStop(t) \in Int /\ ShortTp(t) \in Int
      /\ LongTrail(r) \in Int /\ ShortTrail(r) \in Int
  BY <1>2, <1>3 DEF LongStop, LongTp, ShortStop, ShortTp, LongTrail, ShortTrail, Larger
<1> QED BY <1>1, <1>2, <1>3, <1>4 DEF LongStop, LongTp, ShortStop, ShortTp

\* What a candle makes of a purchase.
LEMMA LongStep ==
    ASSUME TradeInv, ~Short, trade.pc = "walk", trade.at <= Len(series),
           NEW t, t = Moved(trade), NEW b, b = series[trade.at],
           NEW r, r = IF t.state = "OPEN" THEN WalkOpen(t, b) ELSE WalkHalf(t, b)
    PROVE  /\ SameTrade(r, t)
           /\ \/ r.pc = "done" /\ LongBounded(r) /\ r.reason \in {"stop_loss", "trailing_stop"}
              \/ /\ r.pc = "walk" /\ r.reason = "end_of_data" /\ Gap(r, StopMult) > 0
                 /\ r.state = "OPEN" => r.rem = 2 /\ r.realized = 0 /\ b.l > LongStop(r)
                 /\ r.state = "HALF_CLOSED" => /\ r.rem = 1 /\ r.realized = Gap(r, TpMult)
                                               /\ r.ext >= LongTp(r) /\ b.l > LongTrail(r)
<1>1. /\ t \in TradeRows /\ b \in Candles /\ t.pc = "walk" /\ t.reason = "end_of_data" /\ t.entry > 0
      /\ t.state = "OPEN" => t.rem = 2 /\ t.realized = 0
      /\ t.state = "HALF_CLOSED" => t.rem = 1 /\ Gap(t, StopMult) > 0
      /\ t.state \in {"OPEN", "HALF_CLOSED"}
      /\ b.l > LongStop(t) => Gap(t, StopMult) > 0
  BY Moves
<1>2. CASE t.state = "OPEN"
  <2>1. r = WalkOpen(t, b)
    BY <1>2
  <2>2. /\ SameTrade(r, t)
        /\ \/ /\ b.l <= LongStop(t) /\ r.pc = "done" /\ r.state = "OPEN"
              /\ r.reason = "stop_loss" /\ r.realized = 2 * (LongStop(t) - t.entry)
           \/ b.l > LongStop(t) /\ b.h < LongTp(t) /\ r = t
           \/ /\ b.l > LongStop(t) /\ b.h >= LongTp(t)
              /\ r.state = "HALF_CLOSED" /\ r.ext = b.h
              /\ \/ /\ b.l <= LongTrail(r) /\ r.pc = "done" /\ r.reason = "trailing_stop"
                    /\ r.realized = Gap(t, TpMult) + (LongTrail(r) - t.entry)
                 \/ /\ b.l > LongTrail(r) /\ r.pc = "walk" /\ r.reason = t.reason
                    /\ r.rem = 1 /\ r.realized = Gap(t, TpMult)
    BY <1>1, <1>2, <2>1, LongOpen
  <2>3. /\ r \in TradeRows /\ r.entry = t.entry
        /\ LongStop(r) = LongStop(t) /\ LongTp(r) = LongTp(t) /\ Gap(r, StopMult) = Gap(t, StopMult)
        /\ Gap(r, TpMult) = Gap(t, TpMult) /\ LongStop(t) \in Int /\ LongTrail(r) \in Int
    BY <1>1, <2>2, SameLevels
  <2>4. CASE b.l <= LongStop(t) /\ r.pc = "done" /\ r.state = "OPEN"
              /\ r.reason = "stop_loss" /\ r.realized = 2 * (LongStop(t) - t.entry)
    <3>1. LongBounded(r)
      <4>1. LongStop(r) \in Int /\ LongStop(r) >= LongStop(r)
        BY <2>3
      <4> QED BY <2>3, <2>4, <4>1, LongOpenBound
    <3> QED BY <2>2, <2>4, <3>1
  <2>5. CASE b.l > LongStop(t) /\ b.h < LongTp(t) /\ r = t
    BY <1>1, <1>2, <2>2, <2>5
  <2>6. CASE /\ b.l > LongStop(t) /\ b.h >= LongTp(t)
             /\ r.state = "HALF_CLOSED" /\ r.ext = b.h
             /\ \/ /\ b.l <= LongTrail(r) /\ r.pc = "done" /\ r.reason = "trailing_stop"
                   /\ r.realized = Gap(t, TpMult) + (LongTrail(r) - t.entry)
                \/ /\ b.l > LongTrail(r) /\ r.pc = "walk" /\ r.reason = t.reason
                   /\ r.rem = 1 /\ r.realized = Gap(t, TpMult)
    <3>1. r.ext >= LongTp(r) /\ Gap(r, StopMult) > 0 /\ r.entry > 0
      BY <1>1, <2>3, <2>6
    <3>2. CASE b.l <= LongTrail(r) /\ r.pc = "done" /\ r.reason = "trailing_stop"
               /\ r.realized = Gap(t, TpMult) + (LongTrail(r) - t.entry)
      <4>1. LongTrail(r) >= LongTrail(r) /\ r.realized = Gap(r, TpMult) + (LongTrail(r) - r.entry)
        BY <2>3, <3>2
      <4>2. LongBounded(r)
        BY <2>3, <2>6, <3>1, <4>1, LongHalfBound
      <4> QED BY <2>2, <3>2, <4>2
    <3>3. CASE /\ b.l > LongTrail(r) /\ r.pc = "walk" /\ r.reason = t.reason
               /\ r.rem = 1 /\ r.realized = Gap(t, TpMult)
      BY <1>1, <2>2, <2>3, <2>6, <3>1, <3>3
    <3> QED BY <2>6, <3>2, <3>3
  <2> QED BY <2>2, <2>4, <2>5, <2>6
<1>3. CASE t.state = "HALF_CLOSED"
  <2>1. r = WalkHalf(t, b)
    BY <1>3
  <2>2. t.ext >= LongTp(t) /\ t.ext > 0 /\ t.realized = Gap(t, TpMult) /\ t.ext \in Int
    <3>1. trade.at > signal.index + 1
      BY <1>3, Moves, SeriesType DEF TradeInv, WalkInv, TradeType
    <3>2. /\ trade.realized = Gap(trade, TpMult) /\ trade.ext >= LongTp(trade)
          /\ trade.state = "HALF_CLOSED"
      BY <1>3, <3>1, Moves DEF TradeInv, LongInv
    <3>3. trade \in TradeRows /\ t.entry = trade.entry /\ t.atr = trade.atr /\ t.ext = trade.ext
          /\ t.realized = trade.realized
      BY Moves DEF TradeInv, TradeType
    <3>4. Gap(t, TpMult) = Gap(trade, TpMult) /\ LongTp(t) = LongTp(trade)
      BY <3>3 DEF Gap, LongTp
    <3>5. Gap(t, TpMult) \in Nat /\ t.entry \in Int /\ t.ext \in Int
      BY <1>1, GapNat DEF TradeRows
    <3>6. LongTp(t) > 0
      BY <1>1, <3>5 DEF LongTp
    <3> QED BY <3>2, <3>3, <3>4, <3>5, <3>6 DEF LongTp
  <2>3. /\ SameTrade(r, t) /\ r.state = "HALF_CLOSED" /\ r.ext = Larger(t.ext, b.h)
        /\ \/ /\ b.l <= LongTrail(r) /\ r.pc = "done" /\ r.reason = "trailing_stop"
              /\ r.realized = Gap(t, TpMult) + (LongTrail(r) - t.entry)
           \/ /\ b.l > LongTrail(r) /\ r.pc = "walk" /\ r.reason = t.reason
              /\ r.rem = 1 /\ r.realized = Gap(t, TpMult)
    BY <1>1, <1>3, <2>1, <2>2, LongHalf
  <2>4. /\ r \in TradeRows /\ r.entry = t.entry /\ LongTp(t) \in Int
        /\ LongStop(r) = LongStop(t) /\ LongTp(r) = LongTp(t) /\ Gap(r, StopMult) = Gap(t, StopMult)
        /\ Gap(r, TpMult) = Gap(t, TpMult) /\ LongTrail(r) \in Int
    BY <1>1, <2>3, SameLevels
  <2>5. r.ext >= LongTp(r) /\ Gap(r, StopMult) > 0 /\ r.entry > 0
    <3>1. b.h \in Nat
      BY <1>1, CandleType
    <3>2. r.ext >= t.ext
      BY <2>2, <2>3, <3>1 DEF Larger
    <3>3. r.ext \in Int
      BY <2>4 DEF TradeRows
    <3> QED BY <1>1, <1>3, <2>2, <2>4, <3>2, <3>3
  <2>6. CASE b.l <= LongTrail(r) /\ r.pc = "done" /\ r.reason = "trailing_stop"
               /\ r.realized = Gap(t, TpMult) + (LongTrail(r) - t.entry)
    <3>1. LongTrail(r) >= LongTrail(r) /\ r.realized = Gap(r, TpMult) + (LongTrail(r) - r.entry)
      BY <2>4, <2>6
    <3>2. LongBounded(r)
      BY <2>3, <2>4, <2>5, <3>1, LongHalfBound
    <3> QED BY <2>3, <2>6, <3>2
  <2>7. CASE /\ b.l > LongTrail(r) /\ r.pc = "walk" /\ r.reason = t.reason
             /\ r.rem = 1 /\ r.realized = Gap(t, TpMult)
    BY <1>1, <2>3, <2>4, <2>5, <2>7
  <2> QED BY <2>3, <2>6, <2>7
<1> QED BY <1>1, <1>2, <1>3

\* What a candle makes of a short sale: its fields whatever the prices, its
\* bounds while no low is zero.
LEMMA ShortStep ==
    ASSUME TradeInv, Short, trade.pc = "walk", trade.at <= Len(series),
           NEW t, t = Moved(trade), NEW b, b = series[trade.at],
           NEW r, r = IF t.state = "OPEN" THEN WalkOpen(t, b) ELSE WalkHalf(t, b)
    PROVE  /\ SameTrade(r, t)
           /\ \/ r.pc = "done" /\ (PositivePrices => ShortBounded(r))
              \/ /\ r.pc = "walk" /\ r.reason = "end_of_data" /\ Gap(r, StopMult) > 0
                 /\ r.state = "OPEN" => r.rem = 2 /\ r.realized = 0 /\ b.h < ShortStop(r)
                 /\ r.state = "HALF_CLOSED" => r.rem = 1
                 /\ PositivePrices /\ r.state = "HALF_CLOSED" =>
                       /\ r.realized = r.entry - ShortTp(r) /\ r.entry - Gap(r, TpMult) > 0
                       /\ r.ext > 0 /\ r.ext <= ShortTp(r) /\ b.h < ShortTrail(r)
<1>1. /\ t \in TradeRows /\ b \in Candles /\ t.pc = "walk" /\ t.reason = "end_of_data" /\ t.entry > 0
      /\ t.state = "OPEN" => t.rem = 2 /\ t.realized = 0
      /\ t.state = "HALF_CLOSED" => t.rem = 1 /\ Gap(t, StopMult) > 0
      /\ t.state \in {"OPEN", "HALF_CLOSED"}
      /\ b.h < ShortStop(t) => Gap(t, StopMult) > 0
      /\ PositivePrices => b.l > 0
  BY Moves
<1>b. b.l \in Nat /\ b.h \in Nat
  BY <1>1, CandleType
<1>2. CASE t.state = "OPEN"
  <2>1. r = WalkOpen(t, b)
    BY <1>2
  <2>2. /\ SameTrade(r, t)
        /\ \/ /\ b.h >= ShortStop(t) /\ r.pc = "done" /\ r.state = "OPEN"
              /\ r.reason = "stop_loss" /\ r.realized = 2 * (t.entry - ShortStop(t))
           \/ b.h < ShortStop(t) /\ b.l > ShortTp(t) /\ r = t
           \/ /\ b.h < ShortStop(t) /\ b.l <= ShortTp(t)
              /\ r.state = "HALF_CLOSED" /\ r.ext = b.l
              /\ \/ /\ b.h >= ShortTrail(r) /\ r.pc = "done" /\ r.reason = "trailing_stop"
                    /\ r.realized = (t.entry - ShortTp(t)) + (t.entry - ShortTrail(r))
                 \/ /\ b.h < ShortTrail(r) /\ r.pc = "walk" /\ r.reason = t.reason
                    /\ r.rem = 1 /\ r.realized = t.entry - ShortTp(t)
    BY <1>1, <1>2, <2>1, ShortOpen
  <2>3. /\ r \in TradeRows /\ r.entry = t.entry /\ t.entry \in Int /\ Gap(t, TpMult) \in Nat
        /\ ShortStop(r) = ShortStop(t) /\ ShortTp(r) = ShortTp(t) /\ Gap(r, StopMult) = Gap(t, StopMult)
        /\ Gap(r, TpMult) = Gap(t, TpMult) /\ ShortStop(t) \in Int /\ ShortTrail(r) \in Int
        /\ ShortTp(t) \in Int
    BY <1>1, <2>2, SameLevels
  <2>4. CASE b.h >= ShortStop(t) /\ r.pc = "done" /\ r.state = "OPEN"
              /\ r.reason = "stop_loss" /\ r.realized = 2 * (t.entry - ShortStop(t))
    <3>1. ShortStop(r) \in Int /\ ShortStop(r) <= ShortStop(r)
      BY <2>3
    <3>2. ShortBounded(r)
      BY <2>3, <2>4, <3>1, ShortOpenBound
    <3> QED BY <2>2, <2>4, <3>2
  <2>5. CASE b.h < ShortStop(t) /\ b.l > ShortTp(t) /\ r = t
    BY <1>1, <1>2, <2>2, <2>5
  <2>6. CASE /\ b.h < ShortStop(t) /\ b.l <= ShortTp(t)
             /\ r.state = "HALF_CLOSED" /\ r.ext = b.l
             /\ \/ /\ b.h >= ShortTrail(r) /\ r.pc = "done" /\ r.reason = "trailing_stop"
                   /\ r.realized = (t.entry - ShortTp(t)) + (t.entry - ShortTrail(r))
                \/ /\ b.h < ShortTrail(r) /\ r.pc = "walk" /\ r.reason = t.reason
                   /\ r.rem = 1 /\ r.realized = t.entry - ShortTp(t)
    <3>1. r.ext <= ShortTp(r) /\ Gap(r, StopMult) > 0
      BY <1>1, <2>3, <2>6
    <3>2. ASSUME PositivePrices PROVE r.entry - Gap(r, TpMult) > 0 /\ r.ext > 0
      <4>1. ShortTp(t) > 0
        BY <1>1, <1>b, <2>3, <2>6, <3>2
      <4>2. t.entry - Gap(t, TpMult) > 0
        BY <2>3, <4>1 DEF ShortTp, Larger
      <4> QED BY <1>1, <2>3, <2>6, <3>2, <4>2
    <3>3. CASE b.h >= ShortTrail(r) /\ r.pc = "done" /\ r.reason = "trailing_stop"
               /\ r.realized = (t.entry - ShortTp(t)) + (t.entry - ShortTrail(r))
      <4>1. /\ ShortTrail(r) <= ShortTrail(r)
            /\ r.realized = (r.entry - ShortTp(r)) + (r.entry - ShortTrail(r))
        BY <2>3, <3>3
      <4>2. PositivePrices => ShortBounded(r)
        BY <2>3, <2>6, <3>1, <3>2, <4>1, ShortHalfBound
      <4> QED BY <2>2, <3>3, <4>2
    <3>4. CASE /\ b.h < ShortTrail(r) /\ r.pc = "walk" /\ r.reason = t.reason
               /\ r.rem = 1 /\ r.realized = t.entry - ShortTp(t)
      BY <1>1, <2>2, <2>3, <2>6, <3>1, <3>2, <3>4
    <3> QED BY <2>6, <3>3, <3>4
  <2> QED BY <2>2, <2>4, <2>5, <2>6
<1>3. CASE t.state = "HALF_CLOSED"
  <2>1. r = WalkHalf(t, b)
    BY <1>3
  <2>2. ASSUME PositivePrices
        PROVE  /\ t.realized = t.entry - ShortTp(t) /\ t.entry - Gap(t, TpMult) > 0
               /\ t.ext > 0 /\ t.ext <= ShortTp(t)
    <3>1. trade.at > signal.index + 1
      BY <1>3, Moves, SeriesType DEF TradeInv, WalkInv, TradeType
    <3>2. /\ trade.realized = trade.entry - ShortTp(trade) /\ trade.entry - Gap(trade, TpMult) > 0
          /\ trade.ext > 0 /\ trade.ext <= ShortTp(trade)
      BY <1>3, <2>2, <3>1, Moves DEF TradeInv, ShortInv
    <3>3. /\ t.entry = trade.entry /\ t.atr = trade.atr /\ t.ext = trade.ext
          /\ t.realized = trade.realized
      BY Moves
    <3>4. Gap(t, TpMult) = Gap(trade, TpMult) /\ ShortTp(t) = ShortTp(trade)
      BY <3>3 DEF Gap, ShortTp
    <3> QED BY <3>2, <3>3, <3>4
  <2>3. /\ SameTrade(r, t) /\ r.state = "HALF_CLOSED" /\ r.ext = Lower(HighOr(t.ext, b.l), b.l)
        /\ \/ /\ b.h >= ShortTrail(r) /\ r.pc = "done" /\ r.reason = "trailing_stop"
              /\ r.realized = t.realized + (t.entry - ShortTrail(r))
           \/ /\ b.h < ShortTrail(r) /\ r.pc = "walk" /\ r.reason = t.reason
              /\ r.rem = 1 /\ r.realized = t.realized
    BY <1>1, <1>3, <2>1, ShortHalf
  <2>4. /\ r \in TradeRows /\ r.entry = t.entry /\ t.entry \in Int
        /\ ShortTp(r) = ShortTp(t) /\ Gap(r, StopMult) = Gap(t, StopMult)
        /\ Gap(r, TpMult) = Gap(t, TpMult) /\ ShortTrail(r) \in Int /\ ShortTp(t) \in Int
    BY <1>1, <2>3, SameLevels
  <2>5. Gap(r, StopMult) > 0
    BY <1>1, <1>3, <2>4
  <2>6. ASSUME PositivePrices
        PROVE  r.ext <= ShortTp(r) /\ r.ext > 0 /\ r.entry - Gap(r, TpMult) > 0
    <3>1. t.ext \in Int /\ t.ext > 0 /\ b.l > 0
      BY <1>1, <2>2, <2>6 DEF TradeRows
    <3>2. HighOr(t.ext, b.l) = t.ext
      BY <3>1 DEF HighOr, None
    <3>3. r.ext \in Int /\ r.ext > 0 /\ r.ext <= t.ext
      BY <1>b, <2>3, <3>1, <3>2 DEF Lower
    <3> QED BY <2>2, <2>4, <2>6, <3>1, <3>3
  <2>7. CASE b.h >= ShortTrail(r) /\ r.pc = "done" /\ r.reason = "trailing_stop"
               /\ r.realized = t.realized + (t.entry - ShortTrail(r))
    <3>1. ASSUME PositivePrices PROVE ShortBounded(r)
      <4>1. /\ ShortTrail(r) <= ShortTrail(r)
            /\ r.realized = (r.entry - ShortTp(r)) + (r.entry - ShortTrail(r))
        BY <2>2, <2>4, <2>7, <3>1
      <4> QED BY <2>3, <2>4, <2>5, <2>6, <3>1, <4>1, ShortHalfBound
    <3> QED BY <2>3, <2>7, <3>1
  <2>8. CASE /\ b.h < ShortTrail(r) /\ r.pc = "walk" /\ r.reason = t.reason
             /\ r.rem = 1 /\ r.realized = t.realized
    BY <1>1, <2>2, <2>3, <2>4, <2>5, <2>6, <2>8
  <2> QED BY <2>3, <2>7, <2>8
<1> QED BY <1>1, <1>2, <1>3

\* The state machine sees the candle of a purchase as the simulation does.
LEMMA LiveStep ==
    ASSUME TradeInv, Comparable, trade.pc = "walk", trade.at <= Len(series),
           NEW t, t = Moved(trade), NEW b, b = series[trade.at],
           NEW r, r = IF t.state = "OPEN" THEN WalkOpen(t, b) ELSE WalkHalf(t, b),
           NEW gap, gap = Gap(trade, TrailMult),
           NEW q, q = See(See(See(machine, b.l, gap), b.h, gap), b.l, gap)
    PROVE  /\ r.pc = "walk" =>
                 /\ q.state = r.state /\ q.rem = r.rem /\ q.stop = LongStop(r) /\ q.tp = LongTp(r)
                 /\ r.state = "OPEN" => q.trail = None
                 /\ r.state = "HALF_CLOSED" => q.high = r.ext
           /\ r.pc = "done" => q.state = "CLOSED" /\ (r.reason = "stop_loss" <=> q.trail = None)
<1>1. /\ t \in TradeRows /\ b \in Candles /\ t.pc = "walk" /\ t.entry > 0
      /\ t.entry = trade.entry /\ t.atr = trade.atr /\ t.ext = trade.ext /\ t.realized = trade.realized
      /\ t.state = trade.state /\ t.rem = trade.rem
      /\ t.state = "OPEN" => t.rem = 2 /\ t.realized = 0
      /\ t.state = "HALF_CLOSED" => t.rem = 1
      /\ t.state \in {"OPEN", "HALF_CLOSED"}
      /\ PositivePrices => b.l > 0
  BY Moves
<1>2. ~Short /\ (TrailMult <= TpMult \/ PositivePrices)
  BY DEF Comparable
<1>3. b.l \in Nat /\ b.h \in Nat /\ b.l <= b.h
  BY <1>1, CandleType
<1>4. /\ machine \in MachineRows /\ machine.state = t.state /\ machine.rem = t.rem
      /\ machine.stop = LongStop(t) /\ machine.tp = LongTp(t)
      /\ t.state = "OPEN" => machine.trail = None
      /\ t.state = "HALF_CLOSED" => machine.high = t.ext
  BY <1>1 DEF TradeInv, TradeType, MachineInv, LongStop, LongTp, Gap
<1>5. gap = Gap(t, TrailMult)
  BY <1>1 DEF Gap
<1>6. gap \in Nat /\ Gap(t, TpMult) \in Nat /\ Gap(t, StopMult) \in Nat /\ t.entry \in Int /\ t.atr \in Nat
  BY <1>1, <1>5, GapNat DEF TradeRows
<1>7. LongStop(t) <= LongTp(t) /\ LongTp(t) > 0 /\ LongTp(t) \in Int /\ LongTp(t) >= t.entry + Gap(t, TpMult)
  BY <1>1, <1>6 DEF LongStop, LongTp, Larger
\* The trail of the state machine can be below zero; a low never tells.
<1>8. ASSUME SameTrade(r, t), r.ext >= LongTp(t)
      PROVE  b.l <= LongTrail(r) <=> b.l <= r.ext - gap
  <2>1. LongTrail(r) = Larger(r.ext - gap, 0) /\ r.ext \in Int
    BY <1>1, <1>5, <1>8 DEF LongTrail, SameTrade, Gap, TradeRows
  <2>2. CASE PositivePrices
    <3>1. b.l > 0 /\ b.l \in Nat /\ gap \in Nat
      BY <1>1, <1>3, <1>6, <2>2
    <3> QED BY ONLY <2>1, <3>1 DEF Larger
  <2>3. CASE TrailMult <= TpMult
    <3>1. gap <= Gap(t, TpMult)
      BY <1>5, <1>6, <2>3, GapGrows
    <3>2. r.ext - gap > 0
      BY <1>1, <1>6, <1>7, <1>8, <2>1, <3>1
    <3> QED BY ONLY <1>3, <1>6, <2>1, <3>2 DEF Larger
  <2> QED BY <1>2, <2>2, <2>3
<1>9. CASE t.state = "OPEN"
  <2>1. r = WalkOpen(t, b)
    BY <1>9
  <2>2. /\ SameTrade(r, t)
        /\ \/ /\ b.l <= LongStop(t) /\ r.pc = "done" /\ r.state = "OPEN"
              /\ r.reason = "stop_loss" /\ r.realized = 2 * (LongStop(t) - t.entry)
           \/ b.l > LongStop(t) /\ b.h < LongTp(t) /\ r = t
           \/ /\ b.l > LongStop(t) /\ b.h >= LongTp(t)
              /\ r.state = "HALF_CLOSED" /\ r.ext = b.h
              /\ \/ /\ b.l <= LongTrail(r) /\ r.pc = "done" /\ r.reason = "trailing_stop"
                    /\ r.realized = Gap(t, TpMult) + (LongTrail(r) - t.entry)
                 \/ /\ b.l > LongTrail(r) /\ r.pc = "walk" /\ r.reason = t.reason
                    /\ r.rem = 1 /\ r.realized = Gap(t, TpMult)
    BY <1>1, <1>2, <1>9, <2>1, LongOpen
  <2>3. LongStop(r) = LongStop(t) /\ LongTp(r) = LongTp(t) /\ LongStop(t) \in Int
    BY <1>1, <2>2, SameLevels
  <2>a. machine \in MachineRows /\ machine.state = "OPEN" /\ machine.rem = 2 /\ machine.stop <= machine.tp /\ machine.tp > 0
    BY <1>1, <1>4, <1>7, <1>9
  <2>4. \/ b.l <= machine.stop /\ q.state = "CLOSED" /\ q.trail = machine.trail
        \/ b.l > machine.stop /\ b.h < machine.tp /\ q = machine
        \/ /\ b.l > machine.stop /\ b.h >= machine.tp /\ q.trail = b.h - gap
           /\ q.stop = machine.stop /\ q.tp = machine.tp
           /\ \/ b.l <= b.h - gap /\ q.state = "CLOSED"
              \/ b.l > b.h - gap /\ q.state = "HALF_CLOSED" /\ q.rem = 1 /\ q.high = b.h
    <3>1. q = See(See(See(machine, b.l, gap), b.h, gap), b.l, gap)
      OBVIOUS
    <3> QED BY ONLY <1>3, <1>6, <2>a, <3>1, CandleOpen
  <2>5. CASE b.l <= LongStop(t)
    BY <1>3, <1>4, <1>9, <2>2, <2>3, <2>4, <2>5
  <2>6. CASE b.l > LongStop(t) /\ b.h < LongTp(t)
    BY <1>1, <1>3, <1>4, <1>7, <1>9, <2>2, <2>3, <2>4, <2>6
  <2>7. CASE b.l > LongStop(t) /\ b.h >= LongTp(t)
    <3>1. /\ r.state = "HALF_CLOSED" /\ r.ext = b.h
          /\ \/ b.l <= LongTrail(r) /\ r.pc = "done" /\ r.reason = "trailing_stop"
             \/ b.l > LongTrail(r) /\ r.pc = "walk" /\ r.rem = 1
      BY <1>3, <1>7, <2>2, <2>3, <2>7
    <3>2. /\ q.trail = b.h - gap /\ q.stop = machine.stop /\ q.tp = machine.tp
          /\ \/ b.l <= b.h - gap /\ q.state = "CLOSED"
             \/ b.l > b.h - gap /\ q.state = "HALF_CLOSED" /\ q.rem = 1 /\ q.high = b.h
      BY <1>3, <1>4, <1>7, <2>3, <2>4, <2>7
    <3>3. b.l <= LongTrail(r) <=> b.l <= b.h - gap
      BY <1>8, <2>2, <2>7, <3>1
    <3>4. LongTrail(r) \in Int
      BY <1>1, <2>2, SameLevels
    <3>5. b.l <= b.h - gap => q.trail # None
      BY <1>3, <1>6, <3>2 DEF None
    <3> QED BY <1>3, <1>4, <1>6, <2>3, <3>1, <3>2, <3>3, <3>4, <3>5
  <2> QED BY <1>3, <1>7, <2>3, <2>5, <2>6, <2>7
<1>10. CASE t.state = "HALF_CLOSED"
  <2>1. r = WalkHalf(t, b)
    BY <1>10
  <2>2. t.ext >= LongTp(t) /\ t.ext > 0 /\ t.realized = Gap(t, TpMult) /\ t.ext \in Int
    <3>1. trade.at > signal.index + 1
      BY <1>10, Moves, SeriesType DEF TradeInv, WalkInv, TradeType
    <3>2. trade.realized = Gap(trade, TpMult) /\ trade.ext >= LongTp(trade)
      BY <1>1, <1>2, <1>10, <3>1 DEF TradeInv, LongInv
    <3>3. Gap(t, TpMult) = Gap(trade, TpMult) /\ LongTp(t) = LongTp(trade)
      BY <1>1 DEF Gap, LongTp
    <3>4. t.ext \in Int
      BY <1>1 DEF TradeRows
    <3> QED BY <1>1, <1>7, <3>2, <3>3, <3>4
  <2>3. /\ SameTrade(r, t) /\ r.state = "HALF_CLOSED" /\ r.ext = Larger(t.ext, b.h)
        /\ \/ b.l <= LongTrail(r) /\ r.pc = "done" /\ r.reason = "trailing_stop"
           \/ b.l > LongTrail(r) /\ r.pc = "walk" /\ r.rem = 1
    BY <1>1, <1>2, <1>10, <2>1, <2>2, LongHalf
  <2>4. LongStop(r) = LongStop(t) /\ LongTp(r) = LongTp(t) /\ LongTrail(r) \in Int
    BY <1>1, <2>3, SameLevels
  <2>5. \/ b.l <= r.ext - gap /\ q.state = "CLOSED" /\ q.trail >= 0
        \/ /\ b.l > r.ext - gap /\ q.state = "HALF_CLOSED" /\ q.rem = 1
           /\ q.high = r.ext /\ q.stop = machine.stop /\ q.tp = machine.tp
    <3>1. /\ machine \in MachineRows /\ machine.state = "HALF_CLOSED" /\ machine.rem = 1 /\ machine.high > 0
          /\ machine.high = t.ext
      BY <1>1, <1>4, <1>10, <2>2
    <3>2. q = See(See(See(machine, b.l, gap), b.h, gap), b.l, gap)
      OBVIOUS
    <3>3. \/ b.l <= Larger(machine.high, b.h) - gap /\ q.state = "CLOSED" /\ q.trail >= 0
          \/ /\ b.l > Larger(machine.high, b.h) - gap /\ q.state = "HALF_CLOSED" /\ q.rem = 1
             /\ q.high = Larger(machine.high, b.h) /\ q.stop = machine.stop /\ q.tp = machine.tp
      BY ONLY <1>3, <1>6, <3>1, <3>2, CandleHalf
    <3>4. Larger(machine.high, b.h) = r.ext
      BY <2>3, <3>1
    <3> QED BY ONLY <3>3, <3>4
  <2>6. r.ext >= LongTp(t) /\ r.ext \in Int
    BY <1>3, <1>7, <2>2, <2>3 DEF Larger
  <2>7. b.l <= LongTrail(r) <=> b.l <= r.ext - gap
    BY <1>8, <2>3, <2>6
  <2>8. q.trail >= 0 => q.trail # None
    BY DEF None
  <2> QED BY <1>3, <1>4, <1>6, <2>3, <2>4, <2>5, <2>6, <2>7, <2>8
<1> QED BY <1>1, <1>9, <1>10

LEMMA WalkKeeps == TradeInv /\ WalkCandle => TradeInv'
<1> SUFFICES ASSUME TradeInv, WalkCandle PROVE TradeInv'
    OBVIOUS
<1> DEFINE b == series[trade.at]
           t == Moved(trade)
           gap == Gap(trade, TrailMult)
<1>1. /\ trade.pc = "walk" /\ trade.at <= Len(series) /\ UNCHANGED <<series, signal>>
      /\ trade' = IF t.state = "OPEN" THEN WalkOpen(t, b) ELSE WalkHalf(t, b)
  BY DEF WalkCandle, Moved
<1>2. machine' = See(See(See(machine, b.l, gap), b.h, gap), b.l, gap)
  BY DEF WalkCandle, SeePrice, See
<1>3. b = series[trade.at] /\ t = Moved(trade) /\ gap = Gap(trade, TrailMult)
  OBVIOUS
<1> HIDE DEF b, t, gap
<1>4. /\ t \in TradeRows /\ b \in Candles /\ TradeType /\ t.at = trade.at + 1
      /\ t.at \in signal.index + 2 .. Len(series) + 1 /\ t.entry > 0
  BY <1>1, <1>3, Moves
<1>5. Short \/ ~Short
  OBVIOUS
<1>6. /\ ~Short => /\ SameTrade(trade', t)
                   /\ \/ /\ trade'.pc = "done" /\ LongBounded(trade')
                         /\ trade'.reason \in {"stop_loss", "trailing_stop"}
                      \/ /\ trade'.pc = "walk" /\ trade'.reason = "end_of_data"
                         /\ Gap(trade', StopMult) > 0
                         /\ trade'.state = "OPEN" =>
                                trade'.rem = 2 /\ trade'.realized = 0 /\ b.l > LongStop(trade')
                         /\ trade'.state = "HALF_CLOSED" =>
                                /\ trade'.rem = 1 /\ trade'.realized = Gap(trade', TpMult)
                                /\ trade'.ext >= LongTp(trade') /\ b.l > LongTrail(trade')
  BY <1>1, <1>3, LongStep
<1>7. Short => /\ SameTrade(trade', t)
               /\ \/ trade'.pc = "done" /\ (PositivePrices => ShortBounded(trade'))
                  \/ /\ trade'.pc = "walk" /\ trade'.reason = "end_of_data"
                     /\ Gap(trade', StopMult) > 0
                     /\ trade'.state = "OPEN" =>
                            trade'.rem = 2 /\ trade'.realized = 0 /\ b.h < ShortStop(trade')
                     /\ trade'.state = "HALF_CLOSED" => trade'.rem = 1
                     /\ PositivePrices /\ trade'.state = "HALF_CLOSED" =>
                            /\ trade'.realized = trade'.entry - ShortTp(trade')
                            /\ trade'.entry - Gap(trade', TpMult) > 0
                            /\ trade'.ext > 0 /\ trade'.ext <= ShortTp(trade')
                            /\ b.h < ShortTrail(trade')
  BY <1>1, <1>3, ShortStep
<1>8. Comparable =>
        /\ trade'.pc = "walk" =>
              /\ machine'.state = trade'.state /\ machine'.rem = trade'.rem
              /\ machine'.stop = LongStop(trade') /\ machine'.tp = LongTp(trade')
              /\ trade'.state = "OPEN" => machine'.trail = None
              /\ trade'.state = "HALF_CLOSED" => machine'.high = trade'.ext
        /\ trade'.pc = "done" =>
              machine'.state = "CLOSED" /\ (trade'.reason = "stop_loss" <=> machine'.trail = None)
  BY <1>1, <1>2, <1>3, LiveStep
<1>9. SameTrade(trade', t) /\ trade'.pc \in {"walk", "done"}
  BY <1>5, <1>6, <1>7
<1>10. /\ trade' \in TradeRows /\ trade'.at = t.at /\ trade'.entry = t.entry
  BY <1>9 DEF SameTrade
<1>11. machine' \in MachineRows
  <2>1. b.l \in Nat /\ b.h \in Nat
    BY <1>4, CandleType
  <2>2. gap \in Nat
    BY <1>3, <1>4, GapNat DEF TradeType, TradeRows
  <2>3. machine \in MachineRows
    BY <1>4 DEF TradeType
  <2>4. See(machine, b.l, gap) \in MachineRows
    BY <2>1, <2>2, <2>3, SeeType
  <2>5. See(See(machine, b.l, gap), b.h, gap) \in MachineRows
    BY <2>1, <2>2, <2>4, SeeType
  <2> QED BY <1>2, <2>1, <2>2, <2>5, SeeType
<1>12. TradeType'
  BY <1>1, <1>4, <1>10, <1>11 DEF TradeType
<1>13. /\ signal' = signal /\ series' = series /\ series'[trade'.at - 1] = b
       /\ trade'.at > signal'.index + 1 /\ trade'.at # signal'.index + 1
       /\ trade'.at \in signal'.index + 1 .. Len(series') + 1 /\ signal'.index < Len(series')
  <2>1. Len(series) \in Nat /\ signal.index \in Nat /\ trade.at \in Nat /\ signal.index < Len(series)
    BY <1>1, <1>4, SeriesType DEF TradeInv, WalkInv, TradeType, TradeRows
  <2>2. t.at - 1 = trade.at
    BY <1>4, <2>1
  <2> QED BY <1>1, <1>3, <1>4, <1>10, <2>1, <2>2
<1>14. WalkInv'
  BY <1>4, <1>5, <1>6, <1>7, <1>10, <1>13 DEF WalkInv
<1>15. LongInv'
  BY <1>1, <1>6, <1>13, SameSide DEF LongInv
<1>16. ShortInv'
  BY <1>1, <1>7, <1>13, SameSide DEF ShortInv
<1>17. MachineInv'
  BY <1>1, <1>8, SameSide DEF MachineInv
<1>18. ReasonInv'
  BY <1>1, <1>5, <1>6, <1>7, <1>8, SameSide DEF ReasonInv
<1>19. DoneInv'
  BY <1>1, <1>6, <1>7, SameSide DEF DoneInv
<1>20. StartInv'
  BY <1>9 DEF StartInv
<1> QED BY <1>12, <1>14, <1>15, <1>16, <1>17, <1>18, <1>19, <1>20 DEF TradeInv

LEMMA EndKeeps == TradeInv /\ EndOfData => TradeInv'
<1> SUFFICES ASSUME TradeInv, EndOfData PROVE TradeInv'
    OBVIOUS
<1> DEFINE n == Len(series)
           c == series[n].c
           v == trade.realized + Gain(trade, c) * trade.rem
<1>1. /\ trade.pc = "walk" /\ trade.at > n /\ UNCHANGED <<series, signal, machine>>
      /\ trade' = CloseRest(trade, c, "end_of_data")
  BY DEF EndOfData
<1>2. TradeType /\ WalkInv /\ trade \in TradeRows /\ machine \in MachineRows
  BY DEF TradeInv, TradeType
<1>3. /\ n \in Nat /\ signal.index \in Nat /\ signal.index < n /\ trade.at \in Nat
      /\ trade.at = n + 1 /\ trade.at > signal.index + 1 /\ trade.entry > 0
      /\ Gap(trade, StopMult) > 0
      /\ trade.state = "OPEN" => trade.rem = 2 /\ trade.realized = 0
      /\ trade.state = "HALF_CLOSED" => trade.rem = 1
  <2>1. n \in Nat /\ signal.index \in Nat /\ trade.at \in Nat
    BY <1>2, SeriesType DEF TradeRows
  <2>2. trade.at \in signal.index + 1 .. n + 1 /\ signal.index < n
    BY <1>1, <1>2 DEF WalkInv
  <2>3. trade.at = n + 1 /\ trade.at > signal.index + 1
    BY <1>1, <2>1, <2>2
  <2> QED BY <1>1, <1>2, <2>1, <2>2, <2>3 DEF WalkInv
<1>4. series[n] \in Candles /\ trade.at - 1 = n
  BY <1>2, <1>3, SeriesType
<1>5. /\ c \in Nat /\ series[n].l \in Nat /\ series[n].h \in Nat
      /\ series[n].l <= c /\ c <= series[n].h
  BY <1>4, CandleType
<1>6. trade.entry \in Int /\ trade.realized \in Int /\ trade.rem \in {0, 1, 2} /\ trade.ext \in Int
      /\ trade.state \in {"OPEN", "HALF_CLOSED"}
  BY <1>2 DEF TradeRows
<1>7. Gain(trade, c) \in Int /\ Gain(trade, c) = IF Short THEN trade.entry - c ELSE c - trade.entry
  BY <1>5, <1>6 DEF Gain
<1>8. v \in Int
  BY <1>6, <1>7
<1>9. trade' = ClosedWith(trade, v, "end_of_data")
  BY <1>1 DEF CloseRest, ClosedWith
<1>v. v = trade.realized + Gain(trade, c) * trade.rem
  OBVIOUS
<1> HIDE DEF n, c, v
<1>10. /\ SameTrade(trade', trade) /\ trade'.pc = "done" /\ trade'.reason = "end_of_data"
       /\ trade'.realized = v /\ trade'.state = trade.state /\ trade'.ext = trade.ext
  BY <1>2, <1>8, <1>9, CloseFields
<1>11. /\ trade' \in TradeRows /\ trade'.entry = trade.entry /\ LongStop(trade') = LongStop(trade)
       /\ LongTp(trade') = LongTp(trade) /\ ShortStop(trade') = ShortStop(trade)
       /\ ShortTp(trade') = ShortTp(trade) /\ Gap(trade', StopMult) = Gap(trade, StopMult)
       /\ Gap(trade', TpMult) = Gap(trade, TpMult)
       /\ LongStop(trade) \in Int /\ LongTrail(trade') \in Int /\ ShortTrail(trade') \in Int
       /\ ShortStop(trade) \in Int /\ ShortTp(trade) \in Int /\ Gap(trade, TpMult) \in Nat
       /\ Gap(trade', TrailMult) = Gap(trade, TrailMult)
  BY <1>2, <1>10, SameLevels
<1>12. LongTrail(trade') = LongTrail(trade) /\ ShortTrail(trade') = ShortTrail(trade)
  BY <1>10, <1>11 DEF LongTrail, ShortTrail
<1>13. ASSUME ~Short PROVE LongBounded(trade')
  <2>1. Gain(trade, c) = c - trade.entry
    BY <1>7, <1>13
  <2>2. CASE trade.state = "OPEN"
    <3>1. series[n].l > LongStop(trade)
      BY <1>1, <1>3, <1>4, <1>13, <2>2 DEF TradeInv, LongInv
    <3>2. c >= LongStop(trade')
      BY <1>5, <1>11, <3>1
    <3>3. v = 2 * (c - trade.entry)
      BY <1>3, <1>5, <1>6, <1>v, <2>1, <2>2
    <3> QED BY <1>5, <1>10, <1>11, <2>2, <3>2, <3>3, LongOpenBound
  <2>3. CASE trade.state = "HALF_CLOSED"
    <3>1. /\ series[n].l > LongTrail(trade) /\ trade.realized = Gap(trade, TpMult)
          /\ trade.ext >= LongTp(trade)
      BY <1>1, <1>3, <1>4, <1>13, <2>3 DEF TradeInv, LongInv
    <3>2. c >= LongTrail(trade') /\ c \in Int
      BY <1>5, <1>11, <1>12, <3>1
    <3>3. v = Gap(trade', TpMult) + (c - trade'.entry)
      BY <1>3, <1>5, <1>6, <1>11, <1>v, <2>1, <2>3, <3>1
    <3>4. /\ trade'.state = "HALF_CLOSED" /\ trade'.entry > 0 /\ Gap(trade', StopMult) > 0
          /\ trade'.ext >= LongTp(trade') /\ trade'.realized = v
      BY <1>3, <1>10, <1>11, <2>3, <3>1
    <3> QED BY <1>11, <3>2, <3>3, <3>4, LongHalfBound
  <2> QED BY <1>6, <2>2, <2>3
<1>14. ASSUME Short, PositivePrices PROVE ShortBounded(trade')
  <2>1. Gain(trade, c) = trade.entry - c
    BY <1>7, <1>14
  <2>2. CASE trade.state = "OPEN"
    <3>1. series[n].h < ShortStop(trade)
      BY <1>1, <1>3, <1>4, <1>14, <2>2 DEF TradeInv, ShortInv
    <3>2. c <= ShortStop(trade')
      BY <1>5, <1>11, <3>1
    <3>3. v = 2 * (trade.entry - c)
      BY <1>3, <1>5, <1>6, <1>v, <2>1, <2>2
    <3> QED BY <1>5, <1>10, <1>11, <2>2, <3>2, <3>3, ShortOpenBound
  <2>3. CASE trade.state = "HALF_CLOSED"
    <3>1. /\ series[n].h < ShortTrail(trade) /\ trade.realized = trade.entry - ShortTp(trade)
          /\ trade.ext <= ShortTp(trade) /\ trade.entry - Gap(trade, TpMult) > 0
      BY <1>1, <1>3, <1>4, <1>14, <2>3 DEF TradeInv, ShortInv
    <3>2. c <= ShortTrail(trade') /\ c \in Int
      BY <1>5, <1>11, <1>12, <3>1
    <3>3. v = (trade'.entry - ShortTp(trade')) + (trade'.entry - c)
      BY <1>3, <1>5, <1>6, <1>11, <1>v, <2>1, <2>3, <3>1
    <3>4. /\ trade'.state = "HALF_CLOSED" /\ Gap(trade', StopMult) > 0
          /\ trade'.ext <= ShortTp(trade') /\ trade'.realized = v
          /\ trade'.entry - Gap(trade', TpMult) > 0
      BY <1>3, <1>10, <1>11, <2>3, <3>1
    <3> QED BY <1>11, <3>2, <3>3, <3>4, ShortHalfBound
  <2> QED BY <1>6, <2>2, <2>3
<1>15. TradeType'
  BY <1>1, <1>2, <1>11 DEF TradeType
<1>16. DoneInv'
  BY <1>1, <1>13, <1>14, SameSide DEF DoneInv
<1> QED BY <1>10, <1>15, <1>16
        DEF TradeInv, StartInv, WalkInv, LongInv, ShortInv, MachineInv, ReasonInv

LEMMA StepTrade == TradeInv /\ [TradeNext]_tradeVars => TradeInv'
<1> SUFFICES ASSUME TradeInv, [TradeNext]_tradeVars PROVE TradeInv'
    OBVIOUS
<1>1. CASE SkipTrade
  BY <1>1, SkipKeeps
<1>2. CASE EnterTrade
  BY <1>2, EnterKeeps
<1>3. CASE WalkCandle
  BY <1>3, WalkKeeps
<1>4. CASE EndOfData
  BY <1>4, EndKeeps
<1>5. CASE UNCHANGED tradeVars
  <2>1. UNCHANGED <<series, signal>> /\ trade' = trade /\ machine' = machine
    BY <1>5 DEF tradeVars
  <2> QED BY <2>1, SameSide DEF TradeInv, TradeType, StartInv, WalkInv, LongInv, ShortInv, MachineInv,
                                ReasonInv, DoneInv
<1> QED BY <1>1, <1>2, <1>3, <1>4, <1>5 DEF TradeNext

LEMMA ExitsFollow == TradeInv => SimulatedExits
<1> SUFFICES ASSUME TradeInv PROVE SimulatedExits
    OBVIOUS
<1>1. SameLevelsSameExits
  BY DEF TradeInv, MachineInv, ReasonInv, Comparable, SameLevelsSameExits
<1>2. LossIsBounded
  <2> SUFFICES ASSUME trade.pc = "done", Short => PositivePrices
               PROVE  /\ trade.realized >= IF trade.state = "OPEN" THEN 2 * Gain(trade, StopLevel(trade))
                             ELSE 2 * Gain(trade, TpLevel(trade)) - Gap(trade, TrailMult)
                      /\ TrailMult <= 2 * TpMult => trade.realized >= 2 * Gain(trade, StopLevel(trade))
      BY DEF LossIsBounded
  <2>0. trade \in TradeRows /\ trade.entry \in Int /\ Gap(trade, TpMult) \in Nat
    BY GapNat DEF TradeInv, TradeType, TradeRows
  <2>1. CASE Short
    <3>1. /\ Gain(trade, StopLevel(trade)) = trade.entry - ShortStop(trade)
          /\ Gain(trade, TpLevel(trade)) = trade.entry - ShortTp(trade)
      BY <2>1 DEF Gain, StopLevel, TpLevel, ShortStop, ShortTp
    <3>2. ShortBounded(trade)
      BY <2>1 DEF TradeInv, DoneInv
    <3> QED BY <3>1, <3>2 DEF ShortBounded
  <2>2. CASE ~Short
    <3>1. /\ Gain(trade, StopLevel(trade)) = LongStop(trade) - trade.entry
          /\ Gain(trade, TpLevel(trade)) = Gap(trade, TpMult)
      <4>1. Gain(trade, TpLevel(trade)) = LongTp(trade) - trade.entry
        BY <2>2 DEF Gain, TpLevel, LongTp
      <4>2. LongTp(trade) - trade.entry = Gap(trade, TpMult)
        BY <2>0 DEF LongTp
      <4>3. Gain(trade, StopLevel(trade)) = LongStop(trade) - trade.entry
        BY <2>2 DEF Gain, StopLevel, LongStop
      <4> QED BY <4>1, <4>2, <4>3
    <3>2. LongBounded(trade)
      BY <2>2 DEF TradeInv, DoneInv
    <3> QED BY <3>1, <3>2 DEF LongBounded
  <2> QED BY <2>1, <2>2
<1> QED BY <1>1, <1>2 DEF SimulatedExits

\* _simulate_long_trade and _simulate_short_trade against the state machine with
\* the same entry, levels and trail, for every series, signal, ATR and multiple:
\* a simulated purchase holds, halves and closes exactly when
\* PositionStateMachine would on the low, the high and the low of each candle.
\* A trade of either side that took no profit ends no worse than its stop, one
\* that did gives back at most its trail of it; if the trail is at most twice
\* the profit, none ends worse than its stop.
THEOREM ExitRulesAgree == TradeSpec => []SimulatedExits
<1>1. TradeInv /\ [TradeNext]_tradeVars => TradeInv'
  BY StepTrade
<1> QED BY <1>1, InitTrade, ExitsFollow, PTL DEF TradeSpec

-----------------------------------------------------------------------------
(* The signals of a backtest.                                              *)

\* The newest candles of a sequence, as list_recent reads them.
RecentOf(s) == SubSeq(s, IF Len(s) > Recent THEN Len(s) - Recent + 1 ELSE 1, Len(s))

\* The last scan saw the newest of the candles up to its own: those stay.
ScanInv ==
    /\ stored \in Seq(Shapes)
    /\ seen.index \in 0 .. Len(stored)
    /\ seen.index # 0 =>
          seen.signals = scan(frame, RecentOf(SubSeq(stored, 1, seen.index)), seen.now)

LEMMA PrefixStays ==
    ASSUME stored \in Seq(Shapes), NEW b \in Shapes, NEW n \in 0 .. Len(stored)
    PROVE  SubSeq(Append(stored, b), 1, n) = SubSeq(stored, 1, n)
<1>1. Append(stored, b) = stored \o <<b>>
  BY AppendIsConcat
<1>2. <<b>> \in Seq(Shapes) /\ 1 \in 1 .. Len(stored) + 1
  BY LenProperties
<1>3. CASE n = 0
  <2>1. Append(stored, b) \in Seq(Shapes)
    BY AppendProperties
  <2>2. \A s \in Seq(Shapes) : SubSeq(s, 1, 0) = <<>>
    BY SubSeqEmpty
  <2> QED BY <1>3, <2>1, <2>2
<1>4. CASE n # 0
  <2>1. 1 \in 1 .. Len(stored) + 1 /\ n \in 1 - 1 .. Len(stored)
    BY LenProperties
  <2>2. SubSeq(stored \o <<b>>, 1, n) = SubSeq(stored, 1, n)
    BY <1>2, <2>1, SubSeqOfConcat1
  <2> QED BY <1>1, <2>2
<1> QED BY <1>3, <1>4

\* The window of the scan and the one of the backtest end alike.
LEMMA WindowsEndAlike ==
    ASSUME NEW s \in Seq(Shapes), s # <<>>, NEW w, w = RecentOf(s)
    PROVE  /\ Len(s) \in Nat /\ Len(w) \in Nat /\ Len(w) >= 1
           /\ Len(w) = IF Len(s) > Recent THEN Recent ELSE Len(s)
           /\ Newest(w) = Newest(s)
           /\ Len(w) >= 2 => Previous(w) = Previous(s)
           /\ Len(s) <= Recent => w = s
           /\ \A k \in 1 .. Recent : Len(w) > k =>
                 SubSeq(w, Len(w) - k, Len(w) - 1) = SubSeq(s, Len(s) - k, Len(s) - 1)
<1> DEFINE m == IF Len(s) > Recent THEN Len(s) - Recent + 1 ELSE 1
           n == Len(s)
<1>0. Recent \in Nat /\ Recent >= 2
  BY EmaAssumption, FeedAssumption
<1>1. n \in Nat /\ n >= 1
  BY LenProperties, EmptySeq
<1>2. m \in 1 .. n + 1 /\ n \in m - 1 .. n /\ m <= n
  BY <1>0, <1>1
<1>3. w = SubSeq(s, m, n)
  BY DEF RecentOf
<1> HIDE DEF m, n
<1>4. Len(w) = n - m + 1 /\ \A i \in 1 .. n - m + 1 : w[i] = s[m + i - 1]
  BY <1>1, <1>2, <1>3, SubSeqProperties DEF n
<1>5. Len(w) = IF n > Recent THEN Recent ELSE n
  BY <1>0, <1>1, <1>2, <1>4 DEF m, n
<1>6. Newest(w) = Newest(s)
  <2>1. w[n - m + 1] = s[m + (n - m + 1) - 1]
    BY <1>1, <1>2, <1>4
  <2>2. m + (n - m + 1) - 1 = n
    BY <1>1, <1>2
  <2> QED BY <1>4, <2>1, <2>2 DEF Newest, n
<1>7. Len(w) >= 2 => Previous(w) = Previous(s)
  <2> SUFFICES ASSUME Len(w) >= 2 PROVE Previous(w) = Previous(s)
      OBVIOUS
  <2>1. n - m \in 1 .. n - m + 1
    BY <1>1, <1>2, <1>4
  <2>2. w[n - m] = s[m + (n - m) - 1]
    BY <1>4, <2>1
  <2>3. m + (n - m) - 1 = n - 1 /\ Len(w) - 1 = n - m
    BY <1>1, <1>2, <1>4
  <2> QED BY <2>2, <2>3 DEF Previous, n
<1>8. n <= Recent => w = s
  <2> SUFFICES ASSUME n <= Recent PROVE w = s
      OBVIOUS
  <2>1. m = 1
    BY <1>0, <1>1 DEF m, n
  <2> QED BY <1>3, <2>1, SubSeqFull DEF n
<1>9. ASSUME NEW k \in 1 .. Recent, Len(w) > k
      PROVE  SubSeq(w, Len(w) - k, Len(w) - 1) = SubSeq(s, n - k, n - 1)
  <2> DEFINE i == Len(w) - k
             j == Len(w) - 1
  <2>1. /\ m \in 1 .. Len(s) + 1 /\ n \in m - 1 .. Len(s)
        /\ i \in 1 .. (n - m + 1) + 1 /\ j \in i - 1 .. (n - m + 1)
    BY <1>0, <1>1, <1>2, <1>4, <1>9 DEF n
  <2>2. m + i - 1 = n - k /\ m + j - 1 = n - 1
    BY <1>0, <1>1, <1>2, <1>4, <1>9
  <2>3. SubSeq(SubSeq(s, m, n), i, j) = SubSeq(s, m + i - 1, m + j - 1)
    <3> HIDE DEF i, j
    <3> QED BY <2>1, SubSeqOfSubSeq
  <2> QED BY <1>3, <2>2, <2>3
<1>10. Len(w) \in Nat /\ Len(w) >= 1
  BY <1>0, <1>1, <1>5
<1>11. n = Len(s)
  BY DEF n
<1> QED BY ONLY <1>1, <1>5, <1>6, <1>7, <1>8, <1>9, <1>10, <1>11

\* A strategy answers on both windows alike.
LEMMA AnswersAlike ==
    ASSUME NEW s \in Seq(Shapes), s # <<>>, NEW w, w = RecentOf(s), NEW now, NEW then,
           NEW x \in DOMAIN Frames, is_active_time(x, now), is_active_time(x, then),
           x = "ema" => Len(s) <= Recent
    PROVE  generate(x, w, now) = generate(x, s, then)
<1>0. /\ Recent \in Nat /\ Recent >= 2 /\ Lookback \in Nat \ {0} /\ Lookback < Recent
  BY EmaAssumption, FeedAssumption
<1>1. /\ Len(s) \in Nat /\ Len(w) \in Nat
      /\ Len(w) = IF Len(s) > Recent THEN Recent ELSE Len(s)
      /\ Newest(w) = Newest(s)
      /\ Len(w) >= 2 => Previous(w) = Previous(s)
      /\ Len(s) <= Recent => w = s
      /\ Len(w) > Lookback =>
            SubSeq(w, Len(w) - Lookback, Len(w) - 1) = SubSeq(s, Len(s) - Lookback, Len(s) - 1)
  BY <1>0, WindowsEndAlike
<1>2. x \in {"gap", "ema", "breakout", "surge", "pivot"}
  BY DEF Frames
<1>3. (Len(w) < 2 <=> Len(s) < 2) /\ (Len(w) > Lookback <=> Len(s) > Lookback)
  BY <1>0, <1>1
<1>4. CASE Len(s) < 2
  BY <1>3, <1>4 DEF generate
<1>5. CASE ~(Len(s) < 2)
  <2>1. Previous(w) = Previous(s) /\ Newest(w) = Newest(s)
    BY <1>1, <1>3, <1>5
  <2>2. CASE x = "gap"
    <3>1. gap_momentum(w) = gap_momentum(s)
      BY <2>1 DEF gap_momentum
    <3> QED BY <1>3, <1>5, <2>2, <3>1 DEF generate
  <2>3. CASE x = "ema"
    <3>1. w = s
      BY <1>1, <2>3
    <3> QED BY <1>3, <1>5, <2>3, <3>1 DEF generate
  <2>4. CASE x = "breakout"
    <3>1. volatility_breakout(w) = volatility_breakout(s)
      BY <2>1 DEF volatility_breakout
    <3> QED BY <1>3, <1>5, <2>4, <3>1 DEF generate
  <2>5. CASE x = "surge"
    <3>1. volume_surge(w) = volume_surge(s)
      <4>1. CASE Len(w) > Lookback
        <5>1. Volume(SubSeq(w, Len(w) - Lookback, Len(w) - 1))
                = Volume(SubSeq(s, Len(s) - Lookback, Len(s) - 1))
          BY <1>1, <4>1
        <5> QED BY <1>3, <2>1, <4>1, <5>1 DEF volume_surge
      <4>2. CASE ~(Len(w) > Lookback)
        BY <1>3, <4>2 DEF volume_surge
      <4> QED BY <4>1, <4>2
    <3> QED BY <1>3, <1>5, <2>5, <3>1 DEF generate
  <2>6. CASE x = "pivot"
    <3>1. support_resistance(w) = support_resistance(s)
      BY <2>1 DEF support_resistance
    <3> QED BY <1>3, <1>5, <2>6, <3>1 DEF generate
  <2> QED BY <1>2, <2>2, <2>3, <2>4, <2>5, <2>6
<1> QED BY <1>4, <1>5

LEMMA ScanStep == ScanInv /\ [ScanNext]_scanVars => ScanInv'
<1> SUFFICES ASSUME ScanInv, [ScanNext]_scanVars PROVE ScanInv'
    OBVIOUS
<1>0. stored \in Seq(Shapes) /\ Len(stored) \in Nat /\ seen.index \in 0 .. Len(stored)
  BY LenProperties DEF ScanInv
<1>1. ASSUME NEW b \in Shapes, CandleArrives(b) PROVE ScanInv'
  <2>1. stored' = Append(stored, b) /\ UNCHANGED <<frame, begins, seen>>
    BY <1>1 DEF CandleArrives
  <2>2. stored' \in Seq(Shapes) /\ Len(stored') = Len(stored) + 1
    BY <1>0, <2>1, AppendProperties
  <2>3. SubSeq(stored', 1, seen'.index) = SubSeq(stored, 1, seen.index)
    BY <1>0, <2>1, PrefixStays
  <2>4. seen'.index \in 0 .. Len(stored')
    BY <1>0, <2>1, <2>2
  <2> QED BY <2>1, <2>2, <2>3, <2>4 DEF ScanInv, scan, generate
<1>2. ASSUME NEW late \in 0 .. MaxLate, run_for_timeframe(late) PROVE ScanInv'
  <2> DEFINE now == TimeOf(Len(stored) + late) + 1
  <2>1. /\ UNCHANGED <<frame, begins, stored>> /\ stored # <<>>
        /\ seen' = [index |-> Len(stored), now |-> now,
                    signals |-> scan(frame, list_recent(Recent), now)]
    BY <1>2 DEF run_for_timeframe
  <2> HIDE DEF now
  <2>2. SubSeq(stored, 1, Len(stored)) = stored
    BY <1>0, SubSeqFull
  <2>3. list_recent(Recent) = RecentOf(SubSeq(stored, 1, Len(stored)))
    BY <2>2 DEF list_recent, RecentOf
  <2>4. /\ seen'.index = Len(stored) /\ seen'.now = now
        /\ seen'.signals = scan(frame, list_recent(Recent), now)
    BY <2>1
  <2>5. seen'.signals = scan(frame, RecentOf(SubSeq(stored, 1, seen'.index)), seen'.now)
    BY <2>3, <2>4
  <2> QED BY <1>0, <2>1, <2>4, <2>5 DEF ScanInv
<1>3. CASE UNCHANGED scanVars
  BY <1>3 DEF ScanInv, scanVars
<1> QED BY <1>1, <1>2, <1>3 DEF ScanNext

LEMMA InitScan == ScanInit => ScanInv
BY DEF ScanInit, ScanInv, NoScan

LEMMA SignalsFollow == ScanInv => SimulatedSignals
<1> SUFFICES ASSUME ScanInv, NEW s \in for_timeframe(frame),
                    seen.index # 0, seen.index < Len(stored),
                    is_active_time(s, seen.now), is_active_time(s, TimeOf(seen.index)),
                    s = "ema" => seen.index <= Recent, NEW side \in {"buy", "sell"}
             PROVE  <<s, side>> \in seen.signals <=> ManualSignal(s, seen.index) = side
    BY DEF SimulatedSignals
<1> DEFINE p == SubSeq(stored, 1, seen.index)
           w == RecentOf(p)
<1>1. stored \in Seq(Shapes) /\ Len(stored) \in Nat /\ seen.index \in 0 .. Len(stored)
  BY LenProperties DEF ScanInv
<1>2. p \in Seq(Shapes) /\ Len(p) = seen.index
  <2>1. 1 \in 1 .. Len(stored) + 1 /\ seen.index \in 1 - 1 .. Len(stored) /\ 1 <= seen.index
    BY <1>1
  <2> QED BY <1>1, <2>1, SubSeqProperties
<1>3. seen.signals = scan(frame, w, seen.now) /\ w = RecentOf(p)
  BY DEF ScanInv
<1>4. ManualSignal(s, seen.index) = generate(s, p, TimeOf(seen.index))
  BY DEF ManualSignal
<1> HIDE DEF p, w
<1>5. p # <<>>
  BY <1>2, EmptySeq
<1>6. s \in DOMAIN Frames
  BY DEF for_timeframe
<1>7. generate(s, w, seen.now) = generate(s, p, TimeOf(seen.index))
  BY <1>2, <1>3, <1>5, <1>6, AnswersAlike
<1>8. <<s, side>> \in scan(frame, w, seen.now) <=> generate(s, w, seen.now) = side
  BY DEF scan
<1> QED BY <1>3, <1>4, <1>7, <1>8

\* StrategyRegistry.scan on the candles list_recent gave loop B, against the
\* same strategies in _start_manual_backtest on all candles up to that one: the
\* same signals, for every feed, limit and lookback and whatever came later.
THEOREM SignalsLikeLive == ScanSpec => []SimulatedSignals
<1> QED BY InitScan, ScanStep, SignalsFollow, PTL DEF ScanSpec

\* A backtest from its signals to its exits, on candles that arrive while other
\* trades are simulated: the signals are those loop B found on the same candles,
\* and a purchase leaves by the rules of PositionStateMachine at the levels the
\* simulation gave it.
THEOREM BacktestRulesAgree == ScanSpec /\ TradeSpec => []SameSignalsSameExits
<1>1. SimulatedSignals /\ SimulatedExits => SameSignalsSameExits
  BY DEF SameSignalsSameExits
<1> QED BY <1>1, SignalsLikeLive, ExitRulesAgree, PTL

=============================================================================
