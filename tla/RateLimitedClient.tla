------------------------- MODULE RateLimitedClient --------------------------
(***************************************************************************)
(* RateLimitedClient (app/core/rate_limited_client.py): callers submit     *)
(* jobs, one worker task takes them from a priority queue, keeps a minimum *)
(* distance between calls and resolves the caller's future.  Time is a     *)
(* counter of ticks; the event loop may be late, so it can pass anywhere.  *)
(***************************************************************************)
EXTENDS Integers

CONSTANTS
    Jobs,          \* calls handed to submit()
    Orders,        \* the jobs submitted with is_order=True
    MinInterval,   \* min_interval in ticks
    MaxTime        \* bound on the clock

ASSUME JobsAssumption == Orders \subseteq Jobs
ASSUME IntervalAssumption == MinInterval \in Nat /\ MaxTime \in Nat

VARIABLES
    now,      \* time.monotonic()
    lastTs,   \* _last_ts
    counter,  \* _seq
    seq,      \* seq[j]: the sequence number of a submitted job, else 0
    st,       \* st[j]: new, queued, sleeping, calling, done or failed
    future,   \* future[j]: pending, result, exception or cancelled
    wake,     \* when the worker's sleep ends
    start,    \* start[j]: when job.fn() was called
    finish,   \* finish[j]: when job.fn() returned or raised
    behind    \* behind[j]: data calls begun while order j was queued

vars == <<now, lastTs, counter, seq, st, future, wake, start, finish, behind>>

NoTime == -1
Started == {"calling", "done", "failed"}
Taken == {"sleeping", "calling"}
priority(j) == IF j \in Orders THEN 0 ELSE 1

\* monotonic() is far from the initial _last_ts = 0.0 when the first job comes.
Init ==
    /\ now = MinInterval
    /\ lastTs = 0
    /\ counter = 0
    /\ seq = [j \in Jobs |-> 0]
    /\ st = [j \in Jobs |-> "new"]
    /\ future = [j \in Jobs |-> "pending"]
    /\ wake = 0
    /\ start = [j \in Jobs |-> NoTime]
    /\ finish = [j \in Jobs |-> NoTime]
    /\ behind = [j \in Jobs |-> 0]

\* The bound never keeps a sleep from ending.
Tick ==
    /\ now < MaxTime \/ \E j \in Jobs : st[j] = "sleeping" /\ now < wake
    /\ now' = now + 1
    /\ UNCHANGED <<lastTs, counter, seq, st, future, wake, start, finish, behind>>

\* submit(): the next sequence number, the queue and the worker.
Submit(j) ==
    /\ st[j] = "new"
    /\ counter' = counter + 1
    /\ seq' = [seq EXCEPT ![j] = counter + 1]
    /\ st' = [st EXCEPT ![j] = "queued"]
    /\ UNCHANGED <<now, lastTs, future, wake, start, finish, behind>>

\* The caller's task is cancelled while it awaits the future.
CancelCaller(j) ==
    /\ st[j] # "new"
    /\ future[j] = "pending"
    /\ future' = [future EXCEPT ![j] = "cancelled"]
    /\ UNCHANGED <<now, lastTs, counter, seq, st, wake, start, finish, behind>>

\* Mutant: every submission starts a worker of its own.
MutWorkerFree == TRUE

WorkerFree == \A k \in Jobs : st[k] \notin Taken

\* Mutant: jobs are taken in the order of submission only.
MutIsFirst(j) ==
    /\ st[j] = "queued"
    /\ \A k \in Jobs \ {j} : st[k] = "queued" => seq[j] < seq[k]

\* The PriorityQueue's order: priority, then sequence number.
IsFirst(j) ==
    /\ st[j] = "queued"
    /\ \A k \in Jobs \ {j} : st[k] = "queued" =>
          \/ priority(j) < priority(k)
          \/ priority(j) = priority(k) /\ seq[j] < seq[k]

\* job.fn() is called.
CallBegins(j) ==
    /\ st' = [st EXCEPT ![j] = "calling"]
    /\ start' = [start EXCEPT ![j] = now]
    /\ behind' = [k \in Jobs |-> IF /\ k \in Orders /\ st[k] = "queued" /\ k # j
                                    /\ j \notin Orders
                                 THEN behind[k] + 1 ELSE behind[k]]

\* The worker gets a job and sleeps first when the last call is too close.
Take(j) ==
    /\ WorkerFree
    /\ IsFirst(j)
    /\ IF now - lastTs < MinInterval
       THEN /\ st' = [st EXCEPT ![j] = "sleeping"]
            /\ wake' = lastTs + MinInterval
            /\ UNCHANGED <<start, behind>>
       ELSE /\ CallBegins(j)
            /\ UNCHANGED wake
    /\ UNCHANGED <<now, lastTs, counter, seq, future, finish>>

\* Mutant: the sleep ends one tick early.
MutWake(j) ==
    /\ st[j] = "sleeping"
    /\ now >= wake - 1
    /\ CallBegins(j)
    /\ UNCHANGED <<now, lastTs, counter, seq, future, wake, finish>>

Wake(j) ==
    /\ st[j] = "sleeping"
    /\ now >= wake
    /\ CallBegins(j)
    /\ UNCHANGED <<now, lastTs, counter, seq, future, wake, finish>>

\* A cancelled future is done: its result is dropped.
Resolve(j, value) ==
    future' = [future EXCEPT ![j] = IF @ = "pending" THEN value ELSE @]

Succeed(j) ==
    /\ st[j] = "calling"
    /\ st' = [st EXCEPT ![j] = "done"]
    /\ finish' = [finish EXCEPT ![j] = now]
    /\ lastTs' = now
    /\ Resolve(j, "result")
    /\ UNCHANGED <<now, counter, seq, wake, start, behind>>

\* Mutant: the worker dies with the exception, the caller never hears of it.
MutFail(j) ==
    /\ st[j] = "calling"
    /\ st' = [st EXCEPT ![j] = "failed"]
    /\ finish' = [finish EXCEPT ![j] = now]
    /\ UNCHANGED <<now, lastTs, counter, seq, future, wake, start, behind>>

\* job.fn() raises: the exception goes to the caller, _last_ts stays.
Fail(j) ==
    /\ st[j] = "calling"
    /\ st' = [st EXCEPT ![j] = "failed"]
    /\ finish' = [finish EXCEPT ![j] = now]
    /\ Resolve(j, "exception")
    /\ UNCHANGED <<now, lastTs, counter, seq, wake, start, behind>>

Worker == \E j \in Jobs : Take(j) \/ Wake(j) \/ Succeed(j) \/ Fail(j)

Next == Tick \/ Worker \/ \E j \in Jobs : Submit(j) \/ CancelCaller(j)

\* The event loop runs the worker task, and time passes up to the bound.
Spec == Init /\ [][Next]_vars /\ WF_vars(Worker) /\ WF_vars(Tick)

-----------------------------------------------------------------------------
\* Type correctness of the clock, the queue and the jobs' records: a job has
\* a number from 1 to the counter once it is submitted, and none before.
TypeOK ==
    /\ now \in Nat /\ lastTs \in Nat /\ wake \in Nat /\ counter \in Nat
    /\ seq \in [Jobs -> Nat]
    /\ st \in [Jobs -> {"new", "queued", "sleeping", "calling", "done", "failed"}]
    /\ future \in [Jobs -> {"pending", "result", "exception", "cancelled"}]
    /\ start \in [Jobs -> Nat \cup {NoTime}]
    /\ finish \in [Jobs -> Nat \cup {NoTime}]
    /\ behind \in [Jobs -> Nat]
    /\ \A j \in Jobs : seq[j] <= counter /\ (seq[j] = 0 <=> st[j] = "new")

\* The distance the worker really keeps: a call begins at least MinInterval
\* after the end of every earlier call that succeeded, however its callers
\* were cancelled and whatever failed in between.
SpacedAfterSuccess ==
    \A j, k \in Jobs :
        (st[j] \in Started /\ st[k] = "done" /\ j # k) =>
            start[j] <= finish[k] \/ start[j] >= finish[k] + MinInterval

\* Why the distance is kept: one job at a time is with the worker, and its
\* sleep reaches past the last success.
SpacingInv ==
    /\ TypeOK
    /\ lastTs <= now
    /\ \A j, k \in Jobs : (st[j] \in Taken /\ st[k] \in Taken) => j = k
    /\ \A j \in Jobs : st[j] = "sleeping" => wake >= lastTs + MinInterval
    /\ \A j \in Jobs : st[j] \in Started => start[j] \in Nat /\ start[j] <= now
    /\ \A k \in Jobs : st[k] = "done" => finish[k] \in Nat /\ finish[k] <= lastTs
    /\ SpacedAfterSuccess

\* An order waits for at most one data call: the one the worker had already
\* taken, also while that call still sleeps out the interval.
OrderOvertakesData == \A j \in Orders : behind[j] <= 1

\* Within a priority, calls begin in the order of submission.
FifoWithinPriority ==
    \A j, k \in Jobs :
        (/\ priority(j) = priority(k) /\ seq[j] < seq[k]
         /\ st[j] # "new" /\ st[k] \in Started)
        => st[j] \in Started /\ start[j] <= start[k]

=============================================================================
