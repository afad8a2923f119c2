------------------------------- MODULE OtpAuth -------------------------------
(***************************************************************************)
(* OtpAuthService (app/services/auth.py): one-time codes, request limits,  *)
(* failure locks and dashboard sessions, per address.  Every handler runs  *)
(* under the service's RLock and takes the time once at its beginning, so  *)
(* a handler is one action.  The alert and audit messages are left out:    *)
(* they change none of the tables.                                         *)
(***************************************************************************)
EXTENDS Integers, Sequences

CONSTANTS
    Ips,           \* client addresses
    Codes,         \* the codes _generate_otp may draw
    SessionIds,    \* tokens secrets.token_hex may draw, each at most once
    OtpTtl,        \* otp_ttl_seconds
    Window,        \* request_window_seconds
    RequestLimit,  \* request_limit_per_window
    LockTime,      \* lock_seconds
    FailLimit,     \* verify_fail_limit
    VerifyLock,    \* verify_lock_seconds
    SessionTtl,    \* session_ttl_seconds
    MaxTime,       \* bound on the clock
    MaxIssues      \* bound on the codes issued

ASSUME DurationsAssumption ==
    {OtpTtl, Window, LockTime, VerifyLock, SessionTtl, MaxTime, MaxIssues} \subseteq Nat
ASSUME LimitsAssumption == RequestLimit \in Nat \ {0} /\ FailLimit \in Nat \ {0}

VARIABLES
    now,          \* datetime.now
    windowStart,  \* _rate_by_ip[ip].window_start, None where there is no entry
    requests,     \* _rate_by_ip[ip].request_count
    rateLock,     \* _rate_by_ip[ip].locked_until, or None
    fails,        \* _verify_by_ip[ip].fail_count
    failLock,     \* _verify_by_ip[ip].locked_until, or None
    otp,          \* _otp_by_ip[ip].code, or NoCode
    otpExpires,   \* _otp_by_ip[ip].expires_at
    otpSerial,    \* history: which issued code is in _otp_by_ip[ip]
    sessionIp,    \* _session_by_id[id].ip, or None
    sessionEnds,  \* _session_by_id[id].expires_at
    sessionFrom,  \* history: the serial of the code a session was given for
    issued,       \* history: the number of codes issued
    issueTimes,   \* history: when ip's last 2 * RequestLimit + 1 codes were issued
    failTimes     \* history: ip's last FailLimit + 1 failures since a success

rate == <<windowStart, requests, rateLock>>
verify == <<fails, failLock>>
code == <<otp, otpExpires, otpSerial>>
session == <<sessionIp, sessionEnds, sessionFrom>>
history == <<issued, issueTimes, failTimes>>
vars == <<now, rate, verify, code, session, history>>

None == -1
NoCode == "none"
NoSession == "none"

ASSUME NamesAssumption == NoCode \notin Codes /\ NoSession \notin Ips

\* The last n elements of a log with x appended.
Logged(log, x, n) ==
    LET all == Append(log, x)
    IN  IF Len(all) > n THEN Tail(all) ELSE all

Init ==
    /\ now = 0
    /\ windowStart = [i \in Ips |-> None]
    /\ requests = [i \in Ips |-> 0]
    /\ rateLock = [i \in Ips |-> None]
    /\ fails = [i \in Ips |-> 0]
    /\ failLock = [i \in Ips |-> None]
    /\ otp = [i \in Ips |-> NoCode]
    /\ otpExpires = [i \in Ips |-> 0]
    /\ otpSerial = [i \in Ips |-> 0]
    /\ sessionIp = [d \in SessionIds |-> NoSession]
    /\ sessionEnds = [d \in SessionIds |-> 0]
    /\ sessionFrom = [d \in SessionIds |-> 0]
    /\ issued = 0
    /\ issueTimes = [i \in Ips |-> <<>>]
    /\ failTimes = [i \in Ips |-> <<>>]

Tick ==
    /\ now < MaxTime
    /\ now' = now + 1
    /\ UNCHANGED <<rate, verify, code, session, history>>

-----------------------------------------------------------------------------
(* request_otp.                                                            *)

VerifyLocked(i) == failLock[i] # None /\ now < failLock[i]
RateLocked(i) == rateLock[i] # None /\ now < rateLock[i]

\* Mutant: a new code forgives the failures.
MutUnlock(i) ==
    /\ failLock' = [failLock EXCEPT ![i] = IF VerifyLocked(i) THEN @ ELSE None]
    /\ fails' = [fails EXCEPT ![i] = 0]

\* _unlock_verify_if_expired
Unlock(i) ==
    /\ failLock' = [failLock EXCEPT ![i] = IF VerifyLocked(i) THEN @ ELSE None]
    /\ fails' = [fails EXCEPT ![i] = IF failLock[i] # None /\ ~VerifyLocked(i) THEN 0 ELSE @]

\* A new entry, or one whose lock has expired, starts a window now; that
\* happens before the other checks and whatever they say.
Starts(i) == windowStart[i] = None \/ rateLock[i] # None
StartOf(i) == IF Starts(i) THEN now ELSE windowStart[i]
CountOf(i) == IF Starts(i) THEN 0 ELSE requests[i]

\* Mutant: the request that opens a window is not counted.
MutRequestCount(i) == IF now - StartOf(i) >= Window THEN 0 ELSE CountOf(i) + 1

\* The count after this request, from one in a new window.
RequestCount(i) == IF now - StartOf(i) >= Window THEN 1 ELSE CountOf(i) + 1

RequestRefused(i) ==
    /\ RateLocked(i)
    /\ UNCHANGED <<now, rate, verify, code, session, history>>

RequestDenied(i) ==
    /\ ~RateLocked(i) /\ VerifyLocked(i)
    /\ windowStart' = [windowStart EXCEPT ![i] = StartOf(i)]
    /\ requests' = [requests EXCEPT ![i] = CountOf(i)]
    /\ rateLock' = [rateLock EXCEPT ![i] = None]
    /\ UNCHANGED <<now, verify, code, session, history>>

Requested(i) ==
    /\ ~RateLocked(i) /\ ~VerifyLocked(i)
    /\ Unlock(i)
    /\ windowStart' = [windowStart EXCEPT ![i] =
                          IF now - StartOf(i) >= Window THEN now ELSE StartOf(i)]
    /\ requests' = [requests EXCEPT ![i] = RequestCount(i)]

RequestLimited(i) ==
    /\ Requested(i)
    /\ RequestCount(i) > RequestLimit
    /\ rateLock' = [rateLock EXCEPT ![i] = now + LockTime]
    /\ UNCHANGED <<now, code, session, history>>

RequestIssued(i) ==
    /\ issued < MaxIssues
    /\ Requested(i)
    /\ RequestCount(i) <= RequestLimit
    /\ rateLock' = [rateLock EXCEPT ![i] = None]
    /\ \E c \in Codes : otp' = [otp EXCEPT ![i] = c]
    /\ otpExpires' = [otpExpires EXCEPT ![i] = now + OtpTtl]
    /\ issued' = issued + 1
    /\ otpSerial' = [otpSerial EXCEPT ![i] = issued + 1]
    /\ issueTimes' = [issueTimes EXCEPT ![i] = Logged(@, now, 2 * RequestLimit + 1)]
    /\ UNCHANGED <<now, session, failTimes>>

-----------------------------------------------------------------------------
(* verify_otp.                                                             *)

VerifyRefused(i) ==
    /\ VerifyLocked(i)
    /\ UNCHANGED vars

FailsNow(i) == IF failLock[i] # None THEN 0 ELSE fails[i]

\* _register_verify_failure, after an expired lock was taken away.
RegisterFailure(i) ==
    /\ fails' = [fails EXCEPT ![i] = FailsNow(i) + 1]
    /\ failLock' = [failLock EXCEPT ![i] =
                       IF FailsNow(i) + 1 >= FailLimit THEN now + VerifyLock ELSE None]
    /\ failTimes' = [failTimes EXCEPT ![i] = Logged(@, now, FailLimit + 1)]

Forget(i) ==
    /\ otp' = [otp EXCEPT ![i] = NoCode]
    /\ otpExpires' = [otpExpires EXCEPT ![i] = 0]
    /\ otpSerial' = [otpSerial EXCEPT ![i] = 0]

\* No code, an expired one, or another one.
VerifyFailed(i, c) ==
    /\ ~VerifyLocked(i)
    /\ \/ otp[i] = NoCode /\ UNCHANGED code
       \/ otp[i] # NoCode /\ now > otpExpires[i] /\ Forget(i)
       \/ otp[i] \notin {NoCode, c} /\ now <= otpExpires[i] /\ UNCHANGED code
    /\ RegisterFailure(i)
    /\ UNCHANGED <<now, rate, session, issued, issueTimes>>

\* Mutant: the code stays after its use.
MutVerifySucceeded(i, c, d) ==
    /\ ~VerifyLocked(i)
    /\ otp[i] = c /\ now <= otpExpires[i]
    /\ sessionFrom[d] = 0
    /\ sessionIp' = [sessionIp EXCEPT ![d] = i]
    /\ sessionEnds' = [sessionEnds EXCEPT ![d] = now + SessionTtl]
    /\ sessionFrom' = [sessionFrom EXCEPT ![d] = otpSerial[i]]
    /\ fails' = [fails EXCEPT ![i] = 0]
    /\ failLock' = [failLock EXCEPT ![i] = None]
    /\ failTimes' = [failTimes EXCEPT ![i] = <<>>]
    /\ UNCHANGED <<now, rate, code, issued, issueTimes>>

\* The code is used up, the failures are forgotten and a session begins.
VerifySucceeded(i, c, d) ==
    /\ ~VerifyLocked(i)
    /\ otp[i] = c /\ now <= otpExpires[i]
    /\ sessionFrom[d] = 0
    /\ sessionIp' = [sessionIp EXCEPT ![d] = i]
    /\ sessionEnds' = [sessionEnds EXCEPT ![d] = now + SessionTtl]
    /\ sessionFrom' = [sessionFrom EXCEPT ![d] = otpSerial[i]]
    /\ Forget(i)
    /\ fails' = [fails EXCEPT ![i] = 0]
    /\ failLock' = [failLock EXCEPT ![i] = None]
    /\ failTimes' = [failTimes EXCEPT ![i] = <<>>]
    /\ UNCHANGED <<now, rate, issued, issueTimes>>

-----------------------------------------------------------------------------
(* Sessions.                                                               *)

\* validate_session removes an expired session; every other answer, also the
\* one for another address, changes nothing.
ValidateExpired(d) ==
    /\ sessionIp[d] # NoSession
    /\ sessionEnds[d] < now
    /\ sessionIp' = [sessionIp EXCEPT ![d] = NoSession]
    /\ UNCHANGED <<now, rate, verify, code, sessionEnds, sessionFrom, history>>

revoke_session(d) ==
    /\ sessionIp[d] # NoSession
    /\ sessionIp' = [sessionIp EXCEPT ![d] = NoSession]
    /\ UNCHANGED <<now, rate, verify, code, sessionEnds, sessionFrom, history>>

request_otp(i) ==
    RequestRefused(i) \/ RequestDenied(i) \/ RequestLimited(i) \/ RequestIssued(i)

verify_otp(i) ==
    \/ VerifyRefused(i)
    \/ \E c \in Codes : VerifyFailed(i, c) \/ \E d \in SessionIds : VerifySucceeded(i, c, d)

Next ==
    \/ Tick
    \/ \E i \in Ips : request_otp(i) \/ verify_otp(i)
    \/ \E d \in SessionIds : ValidateExpired(d) \/ revoke_session(d)

Spec == Init /\ [][Next]_vars

-----------------------------------------------------------------------------
\* Type correctness of the tables, and the counters within their limits.
TypeOK ==
    /\ now \in Nat /\ issued \in Nat
    /\ windowStart \in [Ips -> Nat \cup {None}]
    /\ requests \in [Ips -> 0..(RequestLimit + 1)]
    /\ rateLock \in [Ips -> Nat \cup {None}]
    /\ fails \in [Ips -> 0..FailLimit]
    /\ failLock \in [Ips -> Nat \cup {None}]
    /\ otp \in [Ips -> Codes \cup {NoCode}]
    /\ otpExpires \in [Ips -> Nat]
    /\ otpSerial \in [Ips -> 0..issued]
    /\ sessionIp \in [SessionIds -> Ips \cup {NoSession}]
    /\ sessionEnds \in [SessionIds -> Nat]
    /\ sessionFrom \in [SessionIds -> 0..issued]
    /\ issueTimes \in [Ips -> Seq(Nat)]
    /\ failTimes \in [Ips -> Seq(Nat)]

\* A code gives at most one session: two sessions never come from one code,
\* and a code that gave one is no longer accepted at any address.
OneSessionPerCode ==
    /\ \A d, e \in SessionIds : (sessionFrom[d] = sessionFrom[e] /\ d # e) => sessionFrom[d] = 0
    /\ \A d \in SessionIds, i \in Ips : otp[i] # NoCode => sessionFrom[d] # otpSerial[i]

\* A stored code has a serial number, and one of its own.
CodesNumbered ==
    /\ \A i \in Ips : otp[i] # NoCode => otpSerial[i] > 0
    /\ \A i, j \in Ips : (otp[i] # NoCode /\ otp[j] # NoCode /\ i # j) => otpSerial[i] # otpSerial[j]

\* The counters go over their limits only under a lock.
RequestsLimited == \A i \in Ips : rateLock[i] = None => requests[i] <= RequestLimit
FailuresLimited == \A i \in Ips : failLock[i] = None => fails[i] < FailLimit

\* Why a code gives one session, as an invariant the handlers keep.
AuthInv ==
    /\ TypeOK
    /\ OneSessionPerCode
    /\ CodesNumbered
    /\ RequestsLimited
    /\ FailuresLimited

\* Among any 2 * RequestLimit + 1 codes issued in a row to one address, the
\* first and the last are a window apart.  (A window may begin with a
\* request that is denied, so 2 * RequestLimit of them can be close.)
BurstBounded ==
    \A i \in Ips : Len(issueTimes[i]) = 2 * RequestLimit + 1 =>
        issueTimes[i][2 * RequestLimit + 1] - issueTimes[i][1] >= Window

\* Without a success between them, FailLimit + 1 failures of one address take at
\* least the time of a lock, however new codes are requested meanwhile.
FailuresSpaced ==
    \A i \in Ips : Len(failTimes[i]) = FailLimit + 1 =>
        failTimes[i][FailLimit + 1] - failTimes[i][1] >= VerifyLock

=============================================================================
