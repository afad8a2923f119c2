---------------------------- MODULE KiwoomClient ----------------------------
(***************************************************************************)
(* KiwoomApiClient (app/integrations/kiwoom/client.py) on top of its       *)
(* RateLimitedClient.  Every caller runs post() once: a token that is      *)
(* about to expire is fetched first, as data calls through the same queue, *)
(* and there is no lock, so several callers may fetch tokens at once.      *)
(***************************************************************************)
EXTENDS RateLimitedClient, FiniteSets

CONSTANTS
    Callers,       \* coroutines inside post()
    OrderCallers,  \* those with is_order=True
    Attempts,      \* len(token_retry_backoff)
    Margin,        \* the five minutes of token_expiring, in ticks
    Lifetime,      \* life of a token, in ticks
    MaxRefreshers, \* bound on the callers that fetch a token
    MaxFaults      \* bound on failing calls and cancelled callers together

\* Job <<c, 0>> is the call of c, <<c, k>> its k-th request for a token.
CallJob(c) == <<c, 0>>
KiwoomJobs == Callers \X (0 .. Attempts)
KiwoomOrders == {CallJob(c) : c \in OrderCallers}

ASSUME CallersAssumption == OrderCallers \subseteq Callers /\ Attempts \in Nat \ {0}
ASSUME TicksAssumption == Margin \in Nat /\ Lifetime \in Nat
ASSUME SharedQueue == Jobs = KiwoomJobs /\ Orders = KiwoomOrders

VARIABLES
    configured,  \* app_key and app_secret are set
    token,       \* _token: its number in the broker's order of issue, 0 for None
    expiresAt,   \* _expires_at, 0 for None
    shared,      \* RateLimitedClient._token
    issued,      \* tokens the broker has issued
    given,       \* given[j]: the token the broker issued for request j
    pc,          \* pc[c]: idle, refreshing, backoff, posting, answered, error, cancelled
    attempt,     \* attempt[c]: the request for a token c waits for
    held         \* held[c]: the token in the headers of the call of c

tokenVars == <<configured, token, expiresAt, shared, issued, given>>
callerVars == <<pc, attempt, held>>
kiwoomVars == <<vars, tokenVars, callerVars>>

Ended == {"answered", "error", "cancelled"}

KiwoomInit ==
    /\ Init
    /\ configured \in BOOLEAN
    /\ token = 0 /\ expiresAt = 0 /\ shared = 0 /\ issued = 0
    /\ given = [j \in Jobs |-> 0]
    /\ pc = [c \in Callers |-> "idle"]
    /\ attempt = [c \in Callers |-> 0]
    /\ held = [c \in Callers |-> 0]

token_expiring == token = 0 \/ expiresAt = 0 \/ now >= expiresAt - Margin

\* The job c waits for.
JobOf(c) == <<c, IF pc[c] = "refreshing" THEN attempt[c] ELSE 0>>

\* The future c awaits is done, its continuation is scheduled.
Woken(c) == pc[c] \in {"refreshing", "posting"} /\ future[JobOf(c)] \in {"result", "exception"}

Faults ==
    Cardinality({k \in Jobs : st[k] = "failed"}) + Cardinality({d \in Callers : pc[d] = "cancelled"})

Ends(c, outcome) == pc' = [pc EXCEPT ![c] = outcome]

\* _post_with_rate_limit of one request for a token.
RequestToken(c, k) ==
    /\ Submit(<<c, k>>)
    /\ Ends(c, "refreshing")
    /\ attempt' = [attempt EXCEPT ![c] = k]
    /\ UNCHANGED <<tokenVars, held>>

\* _post_with_rate_limit of the call, its headers built around token t.
SendCall(c, t) ==
    /\ Submit(CallJob(c))
    /\ Ends(c, "posting")
    /\ held' = [held EXCEPT ![c] = t]
    /\ UNCHANGED attempt

\* post() with a token that still has some time to run.
PostWithToken(c) ==
    /\ pc[c] = "idle" /\ ~token_expiring
    /\ SendCall(c, token)
    /\ UNCHANGED tokenVars

\* ensure_token() begins a refresh, or raises without the app's keys.
PostRefreshes(c) ==
    /\ pc[c] = "idle" /\ token_expiring /\ configured
    /\ Cardinality({d \in Callers : attempt[d] > 0}) < MaxRefreshers
    /\ RequestToken(c, 1)

PostUnconfigured(c) ==
    /\ pc[c] = "idle" /\ token_expiring /\ ~configured
    /\ Ends(c, "error")
    /\ UNCHANGED <<vars, tokenVars, attempt, held>>

\* The token of the answer is kept with its expiry, counted by the broker from
\* its issue (expires_dt) or by the client from now (expires_in), and the call
\* is queued before anyone else runs.
TokenArrives(c) ==
    /\ pc[c] = "refreshing" /\ future[JobOf(c)] = "result"
    /\ token' = given[JobOf(c)]
    /\ shared' = given[JobOf(c)]
    /\ expiresAt' \in {start[JobOf(c)] + Lifetime, now + Lifetime}
    /\ SendCall(c, given[JobOf(c)])
    /\ UNCHANGED <<configured, issued, given>>

\* An answer without a token, or with one whose expiry cannot be read: the
\* latter is kept all the same, under the old expiry.
TokenUnreadable(c) ==
    /\ pc[c] = "refreshing" /\ future[JobOf(c)] = "result"
    /\ token' \in {token, given[JobOf(c)]}
    /\ Ends(c, "error")
    /\ UNCHANGED <<vars, configured, expiresAt, shared, issued, given, attempt, held>>

\* The request raised: the next one comes after a pause, the last one raises.
TokenFails(c) ==
    /\ pc[c] = "refreshing" /\ future[JobOf(c)] = "exception"
    /\ Ends(c, IF attempt[c] < Attempts THEN "backoff" ELSE "error")
    /\ UNCHANGED <<vars, tokenVars, attempt, held>>

BackoffEnds(c) ==
    /\ pc[c] = "backoff"
    /\ RequestToken(c, attempt[c] + 1)

CallReturns(c) ==
    /\ pc[c] = "posting" /\ Woken(c)
    /\ Ends(c, IF future[JobOf(c)] = "result" THEN "answered" ELSE "error")
    /\ UNCHANGED <<vars, tokenVars, attempt, held>>

\* The caller's task is cancelled in one of its awaits.
CallerCancelled(c) ==
    /\ Faults < MaxFaults
    /\ \/ pc[c] \in {"refreshing", "posting"} /\ CancelCaller(JobOf(c))
       \/ pc[c] = "backoff" /\ UNCHANGED vars
    /\ Ends(c, "cancelled")
    /\ UNCHANGED <<tokenVars, attempt, held>>

\* The worker takes a job; the broker issues the token of a request.
Issue(j) ==
    /\ issued' = IF j[2] = 0 \/ st'[j] # "calling" THEN issued ELSE issued + 1
    /\ given' = [given EXCEPT ![j] = IF issued' = issued THEN @ ELSE issued']
    /\ UNCHANGED <<configured, token, expiresAt, shared, callerVars>>

WorkerBegins(j) == (Take(j) \/ Wake(j)) /\ Issue(j)

\* A scheduled continuation runs before the next answer can come in.
WorkerEnds(j) ==
    /\ \A c \in Callers : ~Woken(c)
    /\ \/ Succeed(j)
       \/ Faults < MaxFaults /\ Fail(j)
    /\ UNCHANGED <<tokenVars, callerVars>>

ClientTick == Tick /\ UNCHANGED <<tokenVars, callerVars>>
ClientWorks == \E j \in Jobs : WorkerBegins(j) \/ WorkerEnds(j)
Post(c) == PostWithToken(c) \/ PostRefreshes(c) \/ PostUnconfigured(c)
Continue(c) ==
    TokenArrives(c) \/ TokenUnreadable(c) \/ TokenFails(c) \/ BackoffEnds(c) \/ CallReturns(c)

KiwoomNext ==
    \/ ClientTick \/ ClientWorks
    \/ \E c \in Callers : Post(c) \/ Continue(c) \/ CallerCancelled(c)

\* The event loop runs the worker and every continuation, and time passes.
KiwoomSpec ==
    /\ KiwoomInit /\ [][KiwoomNext]_kiwoomVars
    /\ WF_kiwoomVars(ClientTick) /\ WF_kiwoomVars(ClientWorks)
    /\ \A c \in Callers : WF_kiwoomVars(Continue(c))

-----------------------------------------------------------------------------
\* Orders overtake queued data calls, token requests included, and within a
\* priority calls begin in the order of submission (the PriorityQueue's order).
QueueOrder == OrderOvertakesData /\ FifoWithinPriority

\* Concurrent refreshes never put an old token back: a call queued later never
\* carries an older token than one queued before it, and every call carries one.
TokensMoveForward ==
    \A c, d \in Callers :
        /\ st[CallJob(c)] # "new" => held[c] # 0
        /\ (seq[CallJob(d)] # 0 /\ seq[CallJob(c)] > seq[CallJob(d)]) => held[c] >= held[d]

\* Every post() comes to an end, whatever of its refreshes fails, however many
\* refreshes run at once and whoever is cancelled meanwhile.
EveryPostEnds == <>[](\A c \in Callers : pc[c] \in {"idle"} \cup Ended)

=============================================================================
