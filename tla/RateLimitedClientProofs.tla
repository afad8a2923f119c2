----------------------- MODULE RateLimitedClientProofs -----------------------
(* The distance and the order RateLimitedClient keeps, for any set of      *)
(* jobs, any interval and any bound on the clock; and KiwoomClient as a    *)
(* user of that queue, whose tokens never go back, for any callers.        *)
EXTENDS KiwoomClient, TLAPS

\* Nothing has been called in the initial states.
LEMMA InitSpacing == Init => SpacingInv
BY IntervalAssumption DEF Init, SpacingInv, TypeOK, SpacedAfterSuccess, Started, Taken, NoTime

\* Calling job j at a time past the interval keeps the distance.
LEMMA BeginKeeps ==
    ASSUME SpacingInv, NEW j \in Jobs, st[j] \in {"queued", "sleeping"},
           \A k \in Jobs \ {j} : st[k] \notin Taken,
           now >= lastTs + MinInterval, CallBegins(j),
           UNCHANGED <<now, lastTs, counter, seq, future, wake, finish>>
    PROVE  SpacingInv'
<1>1. TypeOK'
  BY DEF SpacingInv, TypeOK, CallBegins
<1>2. \A k \in Jobs \ {j} : st'[k] = st[k] /\ start'[k] = start[k]
  BY DEF CallBegins, SpacingInv, TypeOK
<1>3. st'[j] = "calling" /\ start'[j] = now
  BY DEF CallBegins, SpacingInv, TypeOK
<1>4. SpacedAfterSuccess'
  BY <1>2, <1>3, IntervalAssumption DEF SpacingInv, SpacedAfterSuccess, TypeOK, Started
<1> QED BY <1>1, <1>2, <1>3, <1>4 DEF SpacingInv, TypeOK, Started, Taken

\* Every step of a caller, of the worker or of the clock keeps the invariant.
LEMMA StepSpacing == SpacingInv /\ [Next]_vars => SpacingInv'
<1> SUFFICES ASSUME SpacingInv, [Next]_vars PROVE SpacingInv'
    OBVIOUS
<1> USE IntervalAssumption
<1>0. CASE UNCHANGED vars
  BY <1>0 DEF vars, SpacingInv, TypeOK, SpacedAfterSuccess
<1>1. CASE Tick
  BY <1>1 DEF Tick, SpacingInv, TypeOK, SpacedAfterSuccess, Started
<1>2. ASSUME NEW j \in Jobs, Submit(j) PROVE SpacingInv'
  <2>1. TypeOK'
    BY <1>2 DEF Submit, SpacingInv, TypeOK
  <2>2. \A k \in Jobs : st'[k] = st[k] \/ (k = j /\ st'[k] = "queued")
    BY <1>2 DEF Submit, SpacingInv, TypeOK
  <2> QED BY <1>2, <2>1, <2>2 DEF Submit, SpacingInv, SpacedAfterSuccess, Started, Taken
<1>3. ASSUME NEW j \in Jobs, CancelCaller(j) PROVE SpacingInv'
  BY <1>3 DEF CancelCaller, SpacingInv, TypeOK, SpacedAfterSuccess
<1>4. ASSUME NEW j \in Jobs, Take(j) PROVE SpacingInv'
  <2>0. st[j] = "queued" /\ \A k \in Jobs : st[k] \notin Taken
    BY <1>4 DEF Take, IsFirst, WorkerFree
  <2>1. CASE now - lastTs < MinInterval
    <3>1. /\ st' = [st EXCEPT ![j] = "sleeping"]
          /\ wake' = lastTs + MinInterval
          /\ UNCHANGED <<start, behind, now, lastTs, counter, seq, future, finish>>
      BY <1>4, <2>1 DEF Take
    <3>2. TypeOK'
      BY <2>0, <3>1 DEF SpacingInv, TypeOK
    <3>3. \A k \in Jobs : st'[k] = st[k] \/ (k = j /\ st'[k] = "sleeping")
      BY <2>0, <3>1 DEF SpacingInv, TypeOK
    <3> QED BY <2>0, <3>1, <3>2, <3>3 DEF SpacingInv, TypeOK, SpacedAfterSuccess, Started, Taken
  <2>2. CASE ~(now - lastTs < MinInterval)
    <3>1. CallBegins(j) /\ UNCHANGED <<now, lastTs, counter, seq, future, wake, finish>>
      BY <1>4, <2>2 DEF Take
    <3>2. now >= lastTs + MinInterval
      BY <2>2 DEF SpacingInv, TypeOK
    <3> QED BY <2>0, <3>1, <3>2, BeginKeeps
  <2> QED BY <2>1, <2>2
<1>5. ASSUME NEW j \in Jobs, Wake(j) PROVE SpacingInv'
  <2>1. now >= lastTs + MinInterval
    BY <1>5 DEF Wake, SpacingInv, TypeOK
  <2>2. \A k \in Jobs \ {j} : st[k] \notin Taken
    BY <1>5 DEF Wake, SpacingInv, Taken
  <2> QED BY <1>5, <2>1, <2>2, BeginKeeps DEF Wake
<1>6. ASSUME NEW j \in Jobs, Succeed(j) PROVE SpacingInv'
  <2>1. TypeOK'
    BY <1>6 DEF Succeed, Resolve, SpacingInv, TypeOK
  <2>2. \A k \in Jobs \ {j} : st'[k] = st[k] /\ finish'[k] = finish[k] /\ st[k] \notin Taken
    BY <1>6 DEF Succeed, SpacingInv, TypeOK, Taken
  <2>3. st'[j] = "done" /\ finish'[j] = now /\ lastTs' = now
        /\ UNCHANGED <<now, start, wake>>
    BY <1>6 DEF Succeed, SpacingInv, TypeOK
  <2>4. SpacedAfterSuccess'
    BY <1>6, <2>2, <2>3 DEF Succeed, SpacingInv, SpacedAfterSuccess, TypeOK, Started
  <2>5. \A k \in Jobs : st'[k] = "done" => finish'[k] \in Nat /\ finish'[k] <= lastTs'
    BY <2>2, <2>3 DEF SpacingInv, TypeOK
  <2> QED BY <1>6, <2>1, <2>2, <2>3, <2>4, <2>5 DEF Succeed, SpacingInv, TypeOK, Started, Taken
<1>7. ASSUME NEW j \in Jobs, Fail(j) PROVE SpacingInv'
  <2>1. TypeOK'
    BY <1>7 DEF Fail, Resolve, SpacingInv, TypeOK
  <2>2. \A k \in Jobs \ {j} : st'[k] = st[k] /\ finish'[k] = finish[k]
    BY <1>7 DEF Fail, SpacingInv, TypeOK
  <2>3. st'[j] = "failed" /\ UNCHANGED <<now, start, wake, lastTs>>
    BY <1>7 DEF Fail, SpacingInv, TypeOK
  <2>4. SpacedAfterSuccess'
    BY <1>7, <2>2, <2>3 DEF Fail, SpacingInv, SpacedAfterSuccess, Started
  <2> QED BY <1>7, <2>1, <2>2, <2>3, <2>4 DEF Fail, SpacingInv, Started, Taken
<1> QED BY <1>0, <1>1, <1>2, <1>3, <1>4, <1>5, <1>6, <1>7 DEF Next, Worker

\* The clock, the queue and the jobs' records keep their types.
THEOREM TypeCorrect == Spec => []TypeOK
<1>1. SpacingInv => TypeOK
  BY DEF SpacingInv
<1> QED BY InitSpacing, StepSpacing, <1>1, PTL DEF Spec

\* A call begins at least min_interval after every earlier successful call.
THEOREM Spacing == Spec => []SpacedAfterSuccess
<1>1. SpacingInv => SpacedAfterSuccess
  BY DEF SpacingInv
<1> QED BY InitSpacing, StepSpacing, <1>1, PTL DEF Spec

-----------------------------------------------------------------------------
(* The order of the queue.                                                 *)

\* A data call can only get between an order and the worker if it was taken
\* first: while an order waits that has been overtaken, no data call sleeps.
OvertakenInv ==
    \A j \in Orders :
        /\ behind[j] <= 1
        /\ st[j] = "new" => behind[j] = 0
        /\ (st[j] = "queued" /\ behind[j] > 0) => \A k \in Jobs \ Orders : st[k] # "sleeping"

\* A job that was taken, asleep or not, has all earlier ones of its priority
\* before it.
TakenInTurn ==
    \A j, k \in Jobs :
        (/\ priority(j) = priority(k) /\ seq[j] < seq[k]
         /\ st[j] # "new" /\ st[k] \notin {"new", "queued"})
        => st[j] \in Started

QueueInv == SpacingInv /\ OvertakenInv /\ TakenInTurn /\ FifoWithinPriority

\* The queue is empty at first.
LEMMA InitQueue == Init => QueueInv
<1> SUFFICES ASSUME Init PROVE QueueInv
    OBVIOUS
<1>1. SpacingInv
  BY InitSpacing
<1>2. \A j \in Jobs : st[j] = "new" /\ behind[j] = 0 /\ seq[j] = 0
  BY DEF Init
<1> QED BY <1>1, <1>2, JobsAssumption
        DEF QueueInv, OvertakenInv, TakenInTurn, FifoWithinPriority, Started

\* A call that begins is the first of the jobs of its priority, and no order
\* waits that was overtaken before, unless an order begins.
LEMMA BeginsInTurn ==
    ASSUME QueueInv, NEW j \in Jobs, SpacingInv', CallBegins(j), UNCHANGED <<seq, now>>,
           st[j] \in {"queued", "sleeping"},
           \A k \in Jobs \ {j} : st[k] \notin Taken,
           \A k \in Jobs : (priority(k) = priority(j) /\ seq[k] < seq[j] /\ st[k] # "new")
                            => st[k] \in Started,
           j \in Orders \/ \A k \in Orders : st[k] = "queued" => behind[k] = 0
    PROVE  QueueInv'
<1>1. /\ st'[j] = "calling" /\ start'[j] = now
      /\ \A k \in Jobs \ {j} : st'[k] = st[k] /\ start'[k] = start[k]
      /\ \A k \in Orders : behind'[k] = IF st[k] = "queued" /\ k # j /\ j \notin Orders
                                         THEN behind[k] + 1 ELSE behind[k]
  BY JobsAssumption DEF CallBegins, QueueInv, SpacingInv, TypeOK
<1>2. \A k \in Jobs : behind[k] \in Nat
  BY DEF QueueInv, SpacingInv, TypeOK
<1>3. OvertakenInv'
  BY <1>1, <1>2, JobsAssumption DEF QueueInv, OvertakenInv, Taken
<1>4. TakenInTurn'
  BY <1>1 DEF QueueInv, TakenInTurn, Started
<1>5. FifoWithinPriority'
  <2> SUFFICES ASSUME NEW a \in Jobs, NEW k \in Jobs, priority(a) = priority(k), seq'[a] < seq'[k],
                      st'[a] # "new", st'[k] \in Started
               PROVE  st'[a] \in Started /\ start'[a] <= start'[k]
    BY DEF FifoWithinPriority
  <2>1. st'[a] \in Started
    BY <1>4 DEF TakenInTurn, Started
  <2>2. CASE k = j
    BY <1>1, <2>1, <2>2 DEF SpacingInv, TypeOK
  <2>3. CASE k # j /\ a # j
    BY <1>1, <2>3 DEF QueueInv, FifoWithinPriority
  <2>4. CASE k # j /\ a = j
    BY <1>1, <2>4 DEF QueueInv, FifoWithinPriority, Started
  <2> QED BY <2>1, <2>2, <2>3, <2>4
<1> QED BY <1>3, <1>4, <1>5 DEF QueueInv

\* Submissions, cancellations, sleeps, calls and their ends keep the order.
LEMMA StepQueue == QueueInv /\ [Next]_vars => QueueInv'
<1> SUFFICES ASSUME QueueInv, [Next]_vars PROVE QueueInv'
    OBVIOUS
<1>a. SpacingInv'
  BY StepSpacing DEF QueueInv
<1>b. /\ seq \in [Jobs -> Nat] /\ counter \in Nat /\ behind \in [Jobs -> Nat]
      /\ st \in [Jobs -> {"new", "queued", "sleeping", "calling", "done", "failed"}]
      /\ \A j \in Jobs : seq[j] <= counter
  BY DEF QueueInv, SpacingInv, TypeOK
<1> USE JobsAssumption
<1>0. CASE UNCHANGED vars
  BY <1>0, <1>a DEF vars, QueueInv, OvertakenInv, TakenInTurn, FifoWithinPriority
<1>1. CASE Tick
  BY <1>1, <1>a DEF Tick, QueueInv, OvertakenInv, TakenInTurn, FifoWithinPriority
<1>2. ASSUME NEW j \in Jobs, Submit(j) PROVE QueueInv'
  <2>1. /\ st[j] = "new" /\ st'[j] = "queued" /\ seq'[j] = counter + 1
        /\ \A k \in Jobs \ {j} : st'[k] = st[k] /\ seq'[k] = seq[k]
        /\ UNCHANGED <<behind, start>>
    BY <1>2, <1>b DEF Submit
  <2>2. \A k \in Jobs : ~(seq'[j] < seq'[k])
    BY <1>b, <2>1
  <2>3. OvertakenInv'
    BY <2>1 DEF QueueInv, OvertakenInv
  <2>4. TakenInTurn' /\ FifoWithinPriority'
    BY <2>1, <2>2 DEF QueueInv, TakenInTurn, FifoWithinPriority, Started
  <2> QED BY <1>a, <2>3, <2>4 DEF QueueInv
<1>3. ASSUME NEW j \in Jobs, CancelCaller(j) PROVE QueueInv'
  BY <1>3, <1>a DEF CancelCaller, QueueInv, OvertakenInv, TakenInTurn, FifoWithinPriority
<1>4. ASSUME NEW j \in Jobs, Take(j) PROVE QueueInv'
  <2>1. /\ st[j] = "queued" /\ \A k \in Jobs : st[k] \notin Taken
        /\ \A k \in Jobs \ {j} : st[k] = "queued" =>
               \/ priority(j) < priority(k)
               \/ priority(j) = priority(k) /\ seq[j] < seq[k]
    BY <1>4 DEF Take, IsFirst, WorkerFree
  <2>2. \A k \in Jobs : (priority(k) = priority(j) /\ seq[k] < seq[j] /\ st[k] # "new")
                          => st[k] \in Started
    BY <1>b, <2>1 DEF Taken, Started, priority
  <2>3. j \in Orders \/ \A k \in Orders : st[k] # "queued"
    BY <2>1 DEF priority
  <2>4. CASE now - lastTs < MinInterval
    <3>1. /\ st'[j] = "sleeping" /\ \A k \in Jobs \ {j} : st'[k] = st[k]
          /\ UNCHANGED <<seq, start, behind>>
      BY <1>4, <1>b, <2>4 DEF Take
    <3>2. OvertakenInv'
      BY <2>1, <2>3, <3>1 DEF QueueInv, OvertakenInv
    <3>3. TakenInTurn' /\ FifoWithinPriority'
      BY <2>1, <2>2, <3>1 DEF QueueInv, TakenInTurn, FifoWithinPriority, Started
    <3> QED BY <1>a, <3>2, <3>3 DEF QueueInv
  <2>5. CASE ~(now - lastTs < MinInterval)
    <3>1. CallBegins(j) /\ UNCHANGED <<seq, now>>
      BY <1>4, <2>5 DEF Take
    <3> QED BY <1>a, <2>1, <2>2, <2>3, <3>1, BeginsInTurn
  <2> QED BY <2>4, <2>5
<1>5. ASSUME NEW j \in Jobs, Wake(j) PROVE QueueInv'
  <2>1. st[j] = "sleeping" /\ CallBegins(j) /\ UNCHANGED <<seq, now>>
    BY <1>5 DEF Wake
  <2>2. \A k \in Jobs \ {j} : st[k] \notin Taken
    BY <2>1 DEF QueueInv, SpacingInv, Taken
  <2>3. \A k \in Jobs : (priority(k) = priority(j) /\ seq[k] < seq[j] /\ st[k] # "new")
                          => st[k] \in Started
    BY <2>1 DEF QueueInv, TakenInTurn
  <2>4. j \in Orders \/ \A k \in Orders : st[k] = "queued" => behind[k] = 0
    BY <1>b, <2>1 DEF QueueInv, OvertakenInv
  <2> QED BY <1>a, <2>1, <2>2, <2>3, <2>4, BeginsInTurn
<1>6. ASSUME NEW j \in Jobs, Succeed(j) \/ Fail(j) PROVE QueueInv'
  <2>1. /\ st[j] = "calling" /\ st'[j] \in {"done", "failed"}
        /\ \A k \in Jobs \ {j} : st'[k] = st[k]
        /\ UNCHANGED <<seq, start, behind>>
    BY <1>6, <1>b DEF Succeed, Fail
  <2>2. OvertakenInv'
    BY <2>1 DEF QueueInv, OvertakenInv
  <2>3. TakenInTurn' /\ FifoWithinPriority'
    BY <2>1 DEF QueueInv, TakenInTurn, FifoWithinPriority, Started
  <2> QED BY <1>a, <2>2, <2>3 DEF QueueInv
<1> QED BY <1>0, <1>1, <1>2, <1>3, <1>4, <1>5, <1>6 DEF Next, Worker

\* Of the RateLimitedClient alone: an order waits for at most one data call,
\* and within a priority calls begin in the order of submission.
THEOREM OrderIsKept == Spec => []QueueOrder
<1>1. QueueInv => QueueOrder
  BY DEF QueueInv, OvertakenInv, QueueOrder, OrderOvertakesData
<1> QED BY InitQueue, StepQueue, <1>1, PTL DEF Spec

-----------------------------------------------------------------------------
(* The callers of KiwoomApiClient.                                         *)

Places == {"idle", "refreshing", "backoff", "posting", "answered", "error", "cancelled"}

\* The token, and the callers' places.
CallerType ==
    /\ token \in Nat /\ issued \in Nat
    /\ given \in [Jobs -> Nat]
    /\ pc \in [Callers -> Places]
    /\ attempt \in [Callers -> 0 .. Attempts]
    /\ held \in [Callers -> Nat]
    /\ \A c \in Callers : /\ pc[c] = "refreshing" => attempt[c] > 0
                          /\ pc[c] = "backoff" => attempt[c] > 0 /\ attempt[c] < Attempts

\* A future is as far as its job.
FutureInv ==
    \A j \in Jobs : /\ st[j] = "new" => future[j] = "pending"
                    /\ future[j] = "result" => st[j] = "done"

\* A request is given a token when it begins, the newest one while it is with
\* the broker.
IssueInv ==
    \A j \in Jobs : /\ given[j] <= issued
                    /\ (j[2] > 0 /\ st[j] \in Started) => given[j] > 0
                    /\ (j[2] > 0 /\ st[j] = "calling") => given[j] = issued

\* One continuation at a time is scheduled, and a token that has arrived and is
\* not yet kept is no older than the one kept.
ArrivalInv ==
    /\ \A c, d \in Callers : (Woken(c) /\ Woken(d)) => c = d
    /\ token <= issued
    /\ \A c \in Callers : (pc[c] = "refreshing" /\ future[JobOf(c)] = "result")
                            => token <= given[JobOf(c)]
    /\ \A c \in Callers : held[c] <= token

TokenInv ==
    /\ QueueInv /\ CallerType /\ FutureInv /\ IssueInv /\ ArrivalInv /\ TokensMoveForward

\* The jobs of the callers, pairs of a caller and a number.
LEMMA CallerJobs ==
    /\ \A c \in Callers, k \in 0 .. Attempts : <<c, k>> \in Jobs
    /\ \A j \in Jobs : j = <<j[1], j[2]>> /\ j[1] \in Callers /\ j[2] \in 0 .. Attempts
    /\ \A c \in Callers : CallJob(c) \in Jobs /\ CallJob(c)[1] = c /\ CallJob(c)[2] = 0
    /\ CallerType => \A c \in Callers : JobOf(c) \in Jobs /\ JobOf(c)[1] = c
BY SharedQueue, CallersAssumption DEF KiwoomJobs, CallJob, JobOf, CallerType

\* Every step of the client is a step of its queue, or leaves the queue alone.
LEMMA UsesQueue == CallerType /\ [KiwoomNext]_kiwoomVars => [Next]_vars
<1> SUFFICES ASSUME CallerType, [KiwoomNext]_kiwoomVars PROVE [Next]_vars
    OBVIOUS
<1>0. CASE UNCHANGED kiwoomVars
  BY <1>0 DEF kiwoomVars
<1>1. CASE ClientTick \/ ClientWorks
  BY <1>1 DEF ClientTick, ClientWorks, WorkerBegins, WorkerEnds, Next, Worker
<1>2. ASSUME NEW j \in Jobs, Submit(j) PROVE [Next]_vars
  BY <1>2 DEF Next
<1>3. ASSUME NEW c \in Callers, Post(c) PROVE [Next]_vars
  <2>1. 1 \in 0 .. Attempts
    BY CallersAssumption
  <2> QED BY <1>2, <1>3, <2>1, CallerJobs
          DEF Post, PostWithToken, PostRefreshes, PostUnconfigured, SendCall, RequestToken
<1>4. ASSUME NEW c \in Callers, Continue(c) PROVE [Next]_vars
  <2>1. CASE BackoffEnds(c)
    <3>1. attempt[c] + 1 \in 0 .. Attempts
      BY <2>1, CallersAssumption DEF BackoffEnds, CallerType
    <3> QED BY <1>2, <2>1, <3>1, CallerJobs DEF BackoffEnds, RequestToken
  <2>2. CASE TokenArrives(c)
    BY <1>2, <2>2, CallerJobs DEF TokenArrives, SendCall
  <2>3. CASE TokenUnreadable(c) \/ TokenFails(c) \/ CallReturns(c)
    BY <2>3 DEF TokenUnreadable, TokenFails, CallReturns
  <2> QED BY <1>4, <2>1, <2>2, <2>3 DEF Continue
<1>5. ASSUME NEW c \in Callers, CallerCancelled(c) PROVE [Next]_vars
  BY <1>5, CallerJobs DEF CallerCancelled, Next
<1> QED BY <1>0, <1>1, <1>3, <1>4, <1>5 DEF KiwoomNext

\* Nobody has posted, and no token is issued.
LEMMA InitTokens == KiwoomInit => TokenInv
<1> SUFFICES ASSUME KiwoomInit PROVE TokenInv
    OBVIOUS
<1>1. QueueInv
  BY InitQueue DEF KiwoomInit
<1>2. CallerType
  BY CallersAssumption DEF KiwoomInit, CallerType, Places
<1>3. FutureInv /\ IssueInv
  BY DEF KiwoomInit, Init, FutureInv, IssueInv, Started
<1>4. ArrivalInv
  BY DEF KiwoomInit, ArrivalInv, Woken
<1>5. TokensMoveForward
  BY CallerJobs DEF KiwoomInit, Init, TokensMoveForward
<1> QED BY <1>1, <1>2, <1>3, <1>4, <1>5 DEF TokenInv

\* The parts of the invariant about the queue's own records, for any step of it.
LEMMA StepFuture == QueueInv /\ FutureInv /\ [Next]_vars => FutureInv'
<1> SUFFICES ASSUME QueueInv, FutureInv, [Next]_vars PROVE FutureInv'
    OBVIOUS
<1> USE DEF FutureInv
<1>a. /\ future \in [Jobs -> {"pending", "result", "exception", "cancelled"}]
      /\ st \in [Jobs -> {"new", "queued", "sleeping", "calling", "done", "failed"}]
  BY DEF QueueInv, SpacingInv, TypeOK
<1>0. CASE UNCHANGED vars \/ Tick
  BY <1>0 DEF vars, Tick
<1>1. ASSUME NEW j \in Jobs, Submit(j) \/ CancelCaller(j) PROVE FutureInv'
  BY <1>a, <1>1 DEF Submit, CancelCaller
<1>2. ASSUME NEW j \in Jobs, Take(j) PROVE FutureInv'
  <2>1. /\ st[j] = "queued" /\ st'[j] \in {"sleeping", "calling"} /\ UNCHANGED future
        /\ \A k \in Jobs \ {j} : st'[k] = st[k]
    BY <1>a, <1>2 DEF Take, CallBegins, IsFirst
  <2> QED BY <2>1
<1>3. ASSUME NEW j \in Jobs, Wake(j) PROVE FutureInv'
  BY <1>a, <1>3 DEF Wake, CallBegins
<1>4. ASSUME NEW j \in Jobs, Succeed(j) \/ Fail(j) PROVE FutureInv'
  BY <1>a, <1>4 DEF Succeed, Fail, Resolve
<1> QED BY <1>0, <1>1, <1>2, <1>3, <1>4 DEF Next, Worker

\* The callers' places and attempts.
LEMMA StepCallers == CallerType /\ [KiwoomNext]_kiwoomVars => CallerType'
<1> SUFFICES ASSUME CallerType, [KiwoomNext]_kiwoomVars PROVE CallerType'
    OBVIOUS
<1> USE CallersAssumption DEF CallerType, Places, tokenVars, callerVars
<1>0. CASE UNCHANGED kiwoomVars \/ ClientTick
  BY <1>0 DEF kiwoomVars, ClientTick
<1>1. ASSUME NEW j \in Jobs, WorkerBegins(j) PROVE CallerType'
  BY <1>1 DEF WorkerBegins, Issue
<1>2. ASSUME NEW j \in Jobs, WorkerEnds(j) PROVE CallerType'
  BY <1>2 DEF WorkerEnds
<1>3. ASSUME NEW c \in Callers, Post(c) PROVE CallerType'
  BY <1>3 DEF Post, PostWithToken, PostRefreshes, PostUnconfigured, SendCall, RequestToken, Ends
<1>4. ASSUME NEW c \in Callers, TokenArrives(c) \/ TokenUnreadable(c) PROVE CallerType'
  <2>1. given[JobOf(c)] \in Nat
    BY CallerJobs
  <2> QED BY <1>4, <2>1 DEF TokenArrives, TokenUnreadable, SendCall, Ends
<1>5. ASSUME NEW c \in Callers, TokenFails(c) \/ CallReturns(c) \/ CallerCancelled(c) PROVE CallerType'
  BY <1>5 DEF TokenFails, CallReturns, CallerCancelled, Ends
<1>6. ASSUME NEW c \in Callers, BackoffEnds(c) PROVE CallerType'
  BY <1>6 DEF BackoffEnds, RequestToken, Ends
<1> QED BY <1>0, <1>1, <1>2, <1>3, <1>4, <1>5, <1>6
        DEF KiwoomNext, ClientWorks, Continue

\* A caller's own steps never begin or end a job.
LEMMA CallerLeavesJobs ==
    ASSUME QueueInv, CallerType, NEW c \in Callers, Post(c) \/ Continue(c) \/ CallerCancelled(c)
    PROVE  /\ UNCHANGED <<issued, given>>
           /\ \A j \in Jobs : st'[j] = st[j] \/ (st[j] = "new" /\ st'[j] = "queued")
<1>1. UNCHANGED <<issued, given>>
  BY DEF Post, Continue, CallerCancelled, PostWithToken, PostRefreshes, PostUnconfigured,
         TokenArrives, TokenUnreadable, TokenFails, BackoffEnds, CallReturns, SendCall,
         RequestToken, tokenVars
<1>2. \/ UNCHANGED st
      \/ \E j : st[j] = "new" /\ st' = [st EXCEPT ![j] = "queued"]
  BY DEF Post, Continue, CallerCancelled, PostWithToken, PostRefreshes, PostUnconfigured,
         TokenArrives, TokenUnreadable, TokenFails, BackoffEnds, CallReturns, SendCall,
         RequestToken, Submit, CancelCaller, vars
<1>3. st \in [Jobs -> {"new", "queued", "sleeping", "calling", "done", "failed"}]
  BY DEF QueueInv, SpacingInv, TypeOK
<1> QED BY <1>1, <1>2, <1>3

\* The broker numbers the tokens as the requests begin.
LEMMA StepIssue ==
    QueueInv /\ CallerType /\ IssueInv /\ [KiwoomNext]_kiwoomVars => IssueInv'
<1> SUFFICES ASSUME QueueInv, CallerType, IssueInv, [KiwoomNext]_kiwoomVars PROVE IssueInv'
    OBVIOUS
<1> USE DEF IssueInv, Started
<1>a. /\ st \in [Jobs -> {"new", "queued", "sleeping", "calling", "done", "failed"}]
      /\ given \in [Jobs -> Nat] /\ issued \in Nat
  BY DEF QueueInv, SpacingInv, TypeOK, CallerType
<1>0. CASE UNCHANGED kiwoomVars \/ ClientTick
  BY <1>0 DEF kiwoomVars, vars, ClientTick, Tick, tokenVars
<1>1. ASSUME NEW j \in Jobs, WorkerBegins(j) PROVE IssueInv'
  <2>1. /\ st'[j] \in {"sleeping", "calling"}
        /\ \A k \in Jobs \ {j} : st'[k] = st[k] /\ st[k] # "calling"
    BY <1>1, <1>a DEF WorkerBegins, Take, Wake, CallBegins, WorkerFree, QueueInv, SpacingInv, Taken
  <2>2. /\ issued' = IF j[2] = 0 \/ st'[j] # "calling" THEN issued ELSE issued + 1
        /\ given'[j] = IF issued' = issued THEN given[j] ELSE issued'
        /\ \A k \in Jobs \ {j} : given'[k] = given[k]
    BY <1>1, <1>a DEF WorkerBegins, Issue
  <2>3. j[2] \in Nat
    BY CallerJobs, CallersAssumption
  <2> QED BY <1>a, <2>1, <2>2, <2>3
<1>2. ASSUME NEW j \in Jobs, WorkerEnds(j) PROVE IssueInv'
  <2>1. /\ st[j] = "calling" /\ st'[j] \in {"done", "failed"}
        /\ \A k \in Jobs \ {j} : st'[k] = st[k]
        /\ UNCHANGED <<issued, given>>
    BY <1>2, <1>a DEF WorkerEnds, Succeed, Fail, tokenVars
  <2> QED BY <2>1
<1>3. ASSUME NEW c \in Callers, Post(c) \/ Continue(c) \/ CallerCancelled(c) PROVE IssueInv'
  BY <1>3, CallerLeavesJobs
<1> QED BY <1>0, <1>1, <1>2, <1>3 DEF KiwoomNext, ClientWorks

\* What the steps of one caller have in common, as far as the tokens go: it is
\* not waiting for a finished job any more, and if it keeps a token, then the
\* one that has just arrived.
LEMMA CallerKeeps ==
    ASSUME CallerType, ArrivalInv, NEW c \in Callers, CallerType',
           \A d \in Callers \ {c} : pc'[d] = pc[d] /\ attempt'[d] = attempt[d] /\ held'[d] = held[d],
           \A j \in Jobs : future'[j] = future[j] \/ future'[j] = "cancelled",
           UNCHANGED <<issued, given>>, ~Woken(c)',
           \/ token' = token
           \/ /\ pc[c] = "refreshing" /\ future[JobOf(c)] = "result"
              /\ token' = given[JobOf(c)] /\ given[JobOf(c)] <= issued,
           held'[c] <= token'
    PROVE  ArrivalInv'
<1>1. \A d \in Callers \ {c} : JobOf(d)' = JobOf(d) /\ JobOf(d) \in Jobs
  BY CallerJobs DEF JobOf
<1>2. \A d \in Callers : Woken(d)' => d # c /\ Woken(d)
  BY <1>1 DEF Woken
<1>3. /\ token' <= issued' /\ token <= token' /\ token \in Nat /\ token' \in Nat
      /\ token' # token => Woken(c)
  BY DEF ArrivalInv, CallerType, Woken
<1>4. \A d \in Callers : held'[d] <= token'
  BY <1>3 DEF ArrivalInv, CallerType
<1>5. ASSUME NEW d \in Callers, pc'[d] = "refreshing", future'[JobOf(d)'] = "result"
      PROVE  token' <= given'[JobOf(d)']
  <2>1. Woken(d)'
    BY <1>5 DEF Woken
  <2>2. d # c /\ Woken(d) /\ JobOf(d)' = JobOf(d) /\ token' = token
    BY <1>1, <1>2, <1>3, <2>1 DEF ArrivalInv
  <2>3. pc[d] = "refreshing" /\ future[JobOf(d)] = "result"
    BY <1>1, <1>5, <2>2 DEF Woken
  <2> QED BY <2>2, <2>3 DEF ArrivalInv
<1> QED BY <1>2, <1>3, <1>4, <1>5 DEF ArrivalInv

\* The worker runs, a caller continues, or one is cancelled: the token kept is
\* never older than one in use, nor newer than one about to arrive.
LEMMA StepArrival ==
    /\ QueueInv /\ CallerType /\ FutureInv /\ IssueInv /\ ArrivalInv
    /\ [KiwoomNext]_kiwoomVars
    => ArrivalInv'
<1> SUFFICES ASSUME QueueInv, CallerType, FutureInv, IssueInv, ArrivalInv,
                    [KiwoomNext]_kiwoomVars
             PROVE  ArrivalInv'
    OBVIOUS
<1>t. /\ st \in [Jobs -> {"new", "queued", "sleeping", "calling", "done", "failed"}]
      /\ future \in [Jobs -> {"pending", "result", "exception", "cancelled"}]
      /\ given \in [Jobs -> Nat] /\ issued \in Nat /\ token \in Nat
      /\ pc \in [Callers -> Places] /\ attempt \in [Callers -> 0 .. Attempts]
      /\ held \in [Callers -> Nat] /\ CallerType'
  BY StepCallers DEF QueueInv, SpacingInv, TypeOK, CallerType
<1>j. \A c \in Callers : JobOf(c) \in Jobs /\ JobOf(c)[1] = c
  BY CallerJobs
<1>0. CASE UNCHANGED kiwoomVars \/ ClientTick
  BY <1>0 DEF kiwoomVars, vars, ClientTick, Tick, tokenVars, callerVars, ArrivalInv, Woken, JobOf
<1>1. ASSUME NEW j \in Jobs, WorkerBegins(j) PROVE ArrivalInv'
  <2>1. /\ st[j] \in {"queued", "sleeping"}
        /\ UNCHANGED <<future, token, pc, attempt, held>>
        /\ issued' \in Nat /\ issued <= issued'
        /\ \A k \in Jobs \ {j} : given'[k] = given[k]
    BY <1>1, <1>t DEF WorkerBegins, Issue, Take, Wake, IsFirst, callerVars
  <2>2. \A c \in Callers : JobOf(c)' = JobOf(c) /\ (Woken(c)' <=> Woken(c))
    BY <2>1 DEF JobOf, Woken
  <2>3. \A c \in Callers : future[JobOf(c)] = "result" => given'[JobOf(c)] = given[JobOf(c)]
    BY <1>j, <2>1 DEF FutureInv
  <2> QED BY <1>t, <2>1, <2>2, <2>3 DEF ArrivalInv
<1>2. ASSUME NEW j \in Jobs, WorkerEnds(j) PROVE ArrivalInv'
  <2>1. /\ st[j] = "calling" /\ \A c \in Callers : ~Woken(c)
        /\ \A k \in Jobs \ {j} : future'[k] = future[k]
        /\ UNCHANGED <<token, issued, given, pc, attempt, held>>
    BY <1>2, <1>t DEF WorkerEnds, Succeed, Fail, Resolve, tokenVars, callerVars
  <2>2. \A c \in Callers : JobOf(c)' = JobOf(c)
    BY <2>1 DEF JobOf
  <2>3. ASSUME NEW c \in Callers, Woken(c)' PROVE JobOf(c) = j /\ c = j[1]
    BY <1>j, <2>1, <2>2, <2>3 DEF Woken
  <2>4. ASSUME NEW c \in Callers, pc[c] = "refreshing", future'[JobOf(c)] = "result"
        PROVE  token <= given[JobOf(c)]
    <3>1. JobOf(c) = j
      BY <2>1, <2>2, <2>3, <2>4 DEF Woken
    <3>2. j[2] > 0
      BY <2>4, <3>1 DEF JobOf, CallerType
    <3> QED BY <1>t, <2>1, <3>1, <3>2 DEF IssueInv, ArrivalInv
  <2> QED BY <2>1, <2>2, <2>3, <2>4 DEF ArrivalInv
<1>3. ASSUME NEW c \in Callers, NEW k \in 0 .. Attempts, RequestToken(c, k), k > 0
      PROVE  ArrivalInv'
  <2>1. /\ <<c, k>> \in Jobs /\ st[<<c, k>>] = "new" /\ UNCHANGED <<future, token, issued, given, held>>
        /\ pc'[c] = "refreshing" /\ attempt'[c] = k
        /\ \A d \in Callers \ {c} : pc'[d] = pc[d] /\ attempt'[d] = attempt[d]
    BY <1>3, <1>t, CallerJobs DEF RequestToken, Submit, Ends, tokenVars
  <2>2. ~Woken(c)'
    BY <2>1 DEF Woken, JobOf, FutureInv
  <2> QED BY <1>t, <2>1, <2>2, CallerKeeps DEF ArrivalInv
<1>4. ASSUME NEW c \in Callers, NEW t \in Nat, SendCall(c, t), UNCHANGED <<issued, given>>,
             \/ token' = token
             \/ /\ pc[c] = "refreshing" /\ future[JobOf(c)] = "result"
                /\ token' = given[JobOf(c)],
             t = token'
      PROVE  ArrivalInv'
  <2>1. /\ CallJob(c) \in Jobs /\ st[CallJob(c)] = "new" /\ UNCHANGED <<future, attempt>>
        /\ pc'[c] = "posting" /\ held'[c] = t
        /\ \A d \in Callers \ {c} : pc'[d] = pc[d] /\ held'[d] = held[d]
    BY <1>4, <1>t, CallerJobs DEF SendCall, Submit, Ends
  <2>2. ~Woken(c)'
    BY <2>1 DEF Woken, JobOf, FutureInv, CallJob
  <2>3. given[JobOf(c)] <= issued
    BY <1>j DEF IssueInv
  <2> QED BY <1>4, <1>t, <2>1, <2>2, <2>3, CallerKeeps
<1>5. ASSUME NEW c \in Callers, pc'[c] \notin {"refreshing", "posting"},
             \A d \in Callers \ {c} : pc'[d] = pc[d],
             \A j \in Jobs : future'[j] = future[j] \/ future'[j] = "cancelled",
             UNCHANGED <<issued, given, attempt, held>>,
             \/ token' = token
             \/ /\ pc[c] = "refreshing" /\ future[JobOf(c)] = "result"
                /\ token' = given[JobOf(c)]
      PROVE  ArrivalInv'
  <2>1. ~Woken(c)'
    BY <1>5 DEF Woken
  <2>2. given[JobOf(c)] <= issued
    BY <1>j DEF IssueInv
  <2>3. held'[c] <= token'
    BY <1>5, <1>t, <1>j DEF ArrivalInv
  <2> QED BY <1>5, <1>t, <2>1, <2>2, <2>3, CallerKeeps
<1>6. ASSUME NEW c \in Callers, Post(c) PROVE ArrivalInv'
  <2>1. CASE PostWithToken(c)
    BY <1>4, <1>t, <2>1 DEF PostWithToken, tokenVars
  <2>2. CASE PostRefreshes(c)
    BY <1>3, <2>2, CallersAssumption DEF PostRefreshes
  <2>3. CASE PostUnconfigured(c)
    BY <1>5, <1>t, <2>3 DEF PostUnconfigured, Ends, vars, tokenVars
  <2> QED BY <1>6, <2>1, <2>2, <2>3 DEF Post
<1>7. ASSUME NEW c \in Callers, Continue(c) PROVE ArrivalInv'
  <2>1. CASE TokenArrives(c)
    BY <1>4, <1>t, <1>j, <2>1 DEF TokenArrives
  <2>2. CASE TokenUnreadable(c)
    BY <1>5, <1>t, <2>2 DEF TokenUnreadable, Ends, vars
  <2>3. CASE TokenFails(c) \/ CallReturns(c)
    BY <1>5, <1>t, <2>3 DEF TokenFails, CallReturns, Ends, vars, tokenVars
  <2>4. CASE BackoffEnds(c)
    <3>1. attempt[c] + 1 \in 0 .. Attempts /\ attempt[c] + 1 > 0
      BY <2>4, CallersAssumption DEF BackoffEnds, CallerType
    <3> QED BY <1>3, <2>4, <3>1 DEF BackoffEnds
  <2> QED BY <1>7, <2>1, <2>2, <2>3, <2>4 DEF Continue
<1>8. ASSUME NEW c \in Callers, CallerCancelled(c) PROVE ArrivalInv'
  <2>1. \A j \in Jobs : future'[j] = future[j] \/ future'[j] = "cancelled"
    BY <1>8, <1>t DEF CallerCancelled, CancelCaller, vars
  <2> QED BY <1>5, <1>8, <1>t, <2>1 DEF CallerCancelled, Ends, tokenVars
<1> QED BY <1>0, <1>1, <1>2, <1>6, <1>7, <1>8 DEF KiwoomNext, ClientWorks

\* A call is queued with the token kept at that moment, which no call queued
\* before it can have outrun.
LEMMA StepTokens ==
    /\ QueueInv /\ CallerType /\ FutureInv /\ IssueInv /\ ArrivalInv /\ TokensMoveForward
    /\ [KiwoomNext]_kiwoomVars
    => TokensMoveForward'
<1> SUFFICES ASSUME QueueInv, CallerType, FutureInv, IssueInv, ArrivalInv, TokensMoveForward,
                    [KiwoomNext]_kiwoomVars
             PROVE  TokensMoveForward'
    OBVIOUS
<1>t. /\ st \in [Jobs -> {"new", "queued", "sleeping", "calling", "done", "failed"}]
      /\ seq \in [Jobs -> Nat] /\ counter \in Nat
      /\ \A j \in Jobs : seq[j] <= counter /\ (seq[j] = 0 <=> st[j] = "new")
      /\ given \in [Jobs -> Nat] /\ token \in Nat
      /\ held \in [Callers -> Nat]
  BY DEF QueueInv, SpacingInv, TypeOK, CallerType
<1>c. \A c \in Callers : /\ CallJob(c) \in Jobs /\ CallJob(c)[1] = c /\ CallJob(c)[2] = 0
                         /\ JobOf(c) \in Jobs
  BY CallerJobs
<1>0. ASSUME \A c \in Callers : /\ seq'[CallJob(c)] = seq[CallJob(c)]
                                /\ st'[CallJob(c)] = "new" <=> st[CallJob(c)] = "new",
             UNCHANGED held
      PROVE  TokensMoveForward'
  BY <1>0, <1>c DEF TokensMoveForward, CallJob
<1>1. CASE UNCHANGED kiwoomVars \/ ClientTick
  BY <1>0, <1>1 DEF kiwoomVars, vars, ClientTick, Tick, callerVars
<1>2. ASSUME NEW j \in Jobs, WorkerBegins(j) \/ WorkerEnds(j) PROVE TokensMoveForward'
  <2>1. /\ UNCHANGED <<seq, held>>
        /\ \A k \in Jobs : st'[k] = "new" <=> st[k] = "new"
    BY <1>2, <1>t DEF WorkerBegins, WorkerEnds, Issue, Take, Wake, CallBegins, IsFirst,
                      Succeed, Fail, callerVars
  <2> QED BY <1>0, <1>c, <2>1
<1>3. ASSUME NEW c \in Callers, NEW k \in 0 .. Attempts, RequestToken(c, k), k > 0
      PROVE  TokensMoveForward'
  <2>1. /\ <<c, k>> \in Jobs /\ UNCHANGED held
        /\ \A j \in Jobs \ {<<c, k>>} : seq'[j] = seq[j] /\ st'[j] = st[j]
    BY <1>3, <1>t, CallerJobs DEF RequestToken, Submit
  <2>2. \A d \in Callers : CallJob(d) # <<c, k>>
    BY <1>3 DEF CallJob
  <2> QED BY <1>0, <1>c, <2>1, <2>2
<1>4. ASSUME NEW c \in Callers, NEW t \in Nat, SendCall(c, t), t # 0, token <= t
      PROVE  TokensMoveForward'
  <2>1. /\ seq[CallJob(c)] = 0 /\ seq'[CallJob(c)] = counter + 1 /\ held'[c] = t
        /\ \A j \in Jobs \ {CallJob(c)} : seq'[j] = seq[j] /\ st'[j] = st[j]
        /\ \A d \in Callers \ {c} : held'[d] = held[d]
    BY <1>4, <1>t, <1>c DEF SendCall, Submit
  <2>2. \A d \in Callers : d # c => CallJob(d) # CallJob(c)
    BY <1>c
  <2>3. \A d \in Callers : held'[d] <= t
    BY <1>4, <1>t, <2>1 DEF ArrivalInv
  <2>4. \A d \in Callers \ {c} : /\ seq'[CallJob(d)] = seq[CallJob(d)] /\ seq[CallJob(d)] <= counter
                                 /\ st'[CallJob(d)] = st[CallJob(d)]
    BY <1>t, <1>c, <2>1, <2>2
  <2>5. \A d \in Callers : CallJob(d)' = CallJob(d)
    BY DEF CallJob
  <2>6. ASSUME NEW d \in Callers, NEW e \in Callers
        PROVE  /\ st'[CallJob(d)] # "new" => held'[d] # 0
               /\ (seq'[CallJob(e)] # 0 /\ seq'[CallJob(d)] > seq'[CallJob(e)]) => held'[d] >= held'[e]
    <3>1. CASE d = c
      BY <1>4, <1>t, <2>1, <2>3, <3>1
    <3>2. CASE d # c /\ e = c
      BY <1>t, <1>c, <2>1, <2>4, <3>2 DEF TokensMoveForward
    <3>3. CASE d # c /\ e # c
      BY <2>1, <2>4, <3>3 DEF TokensMoveForward
    <3> QED BY <3>1, <3>2, <3>3
  <2> QED BY <2>5, <2>6 DEF TokensMoveForward
<1>5. ASSUME NEW c \in Callers, UNCHANGED <<seq, st, held>> PROVE TokensMoveForward'
  BY <1>0, <1>5
<1>6. ASSUME NEW c \in Callers, Post(c) PROVE TokensMoveForward'
  <2>1. CASE PostWithToken(c)
    BY <1>4, <1>t, <2>1 DEF PostWithToken, token_expiring
  <2>2. CASE PostRefreshes(c)
    BY <1>3, <2>2, CallersAssumption DEF PostRefreshes
  <2>3. CASE PostUnconfigured(c)
    BY <1>5, <2>3 DEF PostUnconfigured, vars
  <2> QED BY <1>6, <2>1, <2>2, <2>3 DEF Post
<1>7. ASSUME NEW c \in Callers, Continue(c) PROVE TokensMoveForward'
  <2>1. CASE TokenArrives(c)
    <3>1. pc[c] = "refreshing" /\ future[JobOf(c)] = "result" /\ SendCall(c, given[JobOf(c)])
      BY <2>1 DEF TokenArrives
    <3>2. JobOf(c)[2] > 0 /\ st[JobOf(c)] = "done"
      BY <1>c, <3>1 DEF JobOf, CallerType, FutureInv
    <3>3. given[JobOf(c)] > 0 /\ given[JobOf(c)] \in Nat
      BY <1>t, <1>c, <3>2 DEF IssueInv, Started
    <3>4. token <= given[JobOf(c)]
      BY <3>1 DEF ArrivalInv
    <3> QED BY <1>4, <3>1, <3>3, <3>4
  <2>2. CASE TokenUnreadable(c) \/ TokenFails(c) \/ CallReturns(c)
    BY <1>5, <2>2 DEF TokenUnreadable, TokenFails, CallReturns, vars
  <2>3. CASE BackoffEnds(c)
    <3>1. attempt[c] + 1 \in 0 .. Attempts /\ attempt[c] + 1 > 0
      BY <2>3, CallersAssumption DEF BackoffEnds, CallerType
    <3> QED BY <1>3, <2>3, <3>1 DEF BackoffEnds
  <2> QED BY <1>7, <2>1, <2>2, <2>3 DEF Continue
<1>8. ASSUME NEW c \in Callers, CallerCancelled(c) PROVE TokensMoveForward'
  BY <1>5, <1>8 DEF CallerCancelled, CancelCaller, vars
<1> QED BY <1>1, <1>2, <1>6, <1>7, <1>8 DEF KiwoomNext, ClientWorks

\* The whole invariant, over every step of the client.
LEMMA StepTokenInv == TokenInv /\ [KiwoomNext]_kiwoomVars => TokenInv'
<1> SUFFICES ASSUME TokenInv, [KiwoomNext]_kiwoomVars PROVE TokenInv'
    OBVIOUS
<1>1. [Next]_vars
  BY UsesQueue DEF TokenInv
<1>2. QueueInv' /\ FutureInv'
  BY <1>1, StepQueue, StepFuture DEF TokenInv
<1>3. CallerType' /\ IssueInv' /\ ArrivalInv' /\ TokensMoveForward'
  BY StepCallers, StepIssue, StepArrival, StepTokens DEF TokenInv
<1> QED BY <1>2, <1>3 DEF TokenInv

\* Whatever the callers of KiwoomApiClient do, its queue behaves as the
\* RateLimitedClient's safety specification allows.
THEOREM ClientImplementsQueue == KiwoomSpec => Init /\ [][Next]_vars
<1>1. KiwoomInit => Init
  BY DEF KiwoomInit
<1>2. TokenInv /\ [KiwoomNext]_kiwoomVars => [Next]_vars
  BY UsesQueue DEF TokenInv
<1> QED BY <1>1, <1>2, InitTokens, StepTokenInv, PTL DEF KiwoomSpec

\* Under the client's own callers, its token requests among them: calls keep
\* their distance from every earlier success, orders overtake queued data
\* calls, and calls of one priority begin in the order of submission.
THEOREM ClientKeepsOrder == KiwoomSpec => [](SpacedAfterSuccess /\ QueueOrder)
<1>1. TokenInv => SpacedAfterSuccess /\ QueueOrder
  BY DEF TokenInv, QueueInv, SpacingInv, OvertakenInv, QueueOrder, OrderOvertakesData
<1> QED BY <1>1, InitTokens, StepTokenInv, PTL DEF KiwoomSpec

\* Any number of concurrent refreshes, failed, retried or cancelled, never put
\* an older token back: the calls' tokens grow in the order of their queueing.
THEOREM TokensNeverGoBack == KiwoomSpec => []TokensMoveForward
<1>1. TokenInv => TokensMoveForward
  BY DEF TokenInv
<1> QED BY <1>1, InitTokens, StepTokenInv, PTL DEF KiwoomSpec

=============================================================================
