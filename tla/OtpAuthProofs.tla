---------------------------- MODULE OtpAuthProofs ----------------------------
(***************************************************************************)
(* The login for any addresses, codes, limits and durations: codes are     *)
(* used once, failures and codes of an address keep their distance in time.*)
(***************************************************************************)
EXTENDS OtpAuth, SequenceTheorems, TLAPS

\* A log of times stays one.
LEMMA LoggedType ==
    ASSUME NEW log \in Seq(Nat), NEW t \in Nat, NEW n \in Nat
    PROVE  Logged(log, t, n) \in Seq(Nat)
<1>1. Append(log, t) \in Seq(Nat) /\ Append(log, t) # <<>>
  BY AppendProperties
<1>2. Tail(Append(log, t)) \in Seq(Nat)
  BY <1>1
<1> QED BY <1>1, <1>2 DEF Logged

\* The empty tables satisfy the invariant.
LEMMA InitAuth == Init => AuthInv
<1> SUFFICES ASSUME Init PROVE AuthInv
    OBVIOUS
<1> USE DurationsAssumption, LimitsAssumption, NamesAssumption
<1>1. TypeOK
  BY DEF Init, TypeOK, None
<1>2. OneSessionPerCode /\ CodesNumbered
  BY DEF Init, OneSessionPerCode, CodesNumbered
<1>3. RequestsLimited /\ FailuresLimited
  BY DEF Init, RequestsLimited, FailuresLimited
<1> QED BY <1>1, <1>2, <1>3 DEF AuthInv

\* What a request that passes the locks leaves in the failure table.
LEMMA UnlockedTable ==
    ASSUME TypeOK, FailuresLimited, NEW i \in Ips, Requested(i)
    PROVE  /\ fails' \in [Ips -> 0..FailLimit]
           /\ failLock' \in [Ips -> Nat \cup {None}]
           /\ FailuresLimited'
<1> USE LimitsAssumption
<1>1. fails \in [Ips -> 0..FailLimit] /\ failLock \in [Ips -> Nat \cup {None}]
  BY DEF TypeOK
<1>2. /\ failLock' = [failLock EXCEPT ![i] = None]
      /\ fails' = [fails EXCEPT ![i] = IF failLock[i] # None THEN 0 ELSE fails[i]]
  BY <1>1 DEF Requested, Unlock
<1>3. ASSUME NEW j \in Ips, failLock'[j] = None PROVE fails'[j] < FailLimit
  <2>1. CASE j = i
    BY <1>1, <1>2, <2>1 DEF FailuresLimited
  <2>2. CASE j # i
    <3>1. failLock[j] = None /\ fails'[j] = fails[j]
      BY <1>1, <1>2, <1>3, <2>2
    <3> QED BY <3>1 DEF FailuresLimited
  <2> QED BY <2>1, <2>2
<1> QED BY <1>1, <1>2, <1>3 DEF FailuresLimited

\* The window and the count that a request starts from.
LEMMA WindowTypes ==
    ASSUME TypeOK, RequestsLimited, NEW i \in Ips
    PROVE  CountOf(i) \in 0..RequestLimit /\ StartOf(i) \in Nat
BY LimitsAssumption DEF CountOf, StartOf, Starts, RequestsLimited, TypeOK, None

\* What it leaves in the rate table.
LEMMA CountedTable ==
    ASSUME TypeOK, RequestsLimited, NEW i \in Ips, Requested(i)
    PROVE  /\ windowStart' \in [Ips -> Nat \cup {None}]
           /\ requests' \in [Ips -> 0..(RequestLimit + 1)]
           /\ \A j \in Ips \ {i} : requests'[j] = requests[j]
           /\ requests'[i] = RequestCount(i)
<1> USE DurationsAssumption, LimitsAssumption
<1>1. /\ windowStart \in [Ips -> Nat \cup {None}]
      /\ requests \in [Ips -> 0..(RequestLimit + 1)]
      /\ now \in Nat
  BY DEF TypeOK
<1>2. CountOf(i) \in 0..RequestLimit /\ StartOf(i) \in Nat
  BY WindowTypes
<1>3. RequestCount(i) \in 0..(RequestLimit + 1)
  BY <1>2 DEF RequestCount
<1>4. /\ requests' = [requests EXCEPT ![i] = RequestCount(i)]
      /\ windowStart' = [windowStart EXCEPT ![i] =
                            IF now - StartOf(i) >= Window THEN now ELSE StartOf(i)]
  BY DEF Requested
<1> QED BY <1>1, <1>2, <1>3, <1>4

\* Every handler keeps the invariant.
LEMMA StepAuth == AuthInv /\ [Next]_vars => AuthInv'
<1> SUFFICES ASSUME AuthInv, [Next]_vars PROVE AuthInv'
    OBVIOUS
<1> USE DurationsAssumption, LimitsAssumption, NamesAssumption
<1>a. TypeOK /\ OneSessionPerCode /\ CodesNumbered /\ RequestsLimited /\ FailuresLimited
  BY DEF AuthInv
<1>0. CASE UNCHANGED vars
  BY <1>0 DEF vars, rate, verify, code, session, history, AuthInv, TypeOK, OneSessionPerCode,
              CodesNumbered, RequestsLimited, FailuresLimited
<1>1. CASE Tick
  BY <1>1 DEF Tick, rate, verify, code, session, history, AuthInv, TypeOK, OneSessionPerCode,
              CodesNumbered, RequestsLimited, FailuresLimited
<1>2. ASSUME NEW i \in Ips, RequestRefused(i) PROVE AuthInv'
  BY <1>0, <1>2 DEF RequestRefused, vars
<1>3. ASSUME NEW i \in Ips, RequestDenied(i) PROVE AuthInv'
  <2>1. UNCHANGED <<now, verify, code, session, history>>
    BY <1>3 DEF RequestDenied
  <2>2. CountOf(i) \in 0..RequestLimit /\ StartOf(i) \in Nat
    BY <1>a, WindowTypes
  <2>3. /\ windowStart' = [windowStart EXCEPT ![i] = StartOf(i)]
        /\ requests' = [requests EXCEPT ![i] = CountOf(i)]
        /\ rateLock' = [rateLock EXCEPT ![i] = None]
    BY <1>3 DEF RequestDenied
  <2>4. /\ windowStart \in [Ips -> Nat \cup {None}]
        /\ requests \in [Ips -> 0..(RequestLimit + 1)]
        /\ rateLock \in [Ips -> Nat \cup {None}]
    BY <1>a DEF TypeOK
  <2>5. /\ windowStart' \in [Ips -> Nat \cup {None}]
        /\ requests' \in [Ips -> 0..(RequestLimit + 1)]
        /\ rateLock' \in [Ips -> Nat \cup {None}]
    BY <2>2, <2>3, <2>4
  <2>6. RequestsLimited'
    BY <1>a, <2>2, <2>3, <2>4 DEF RequestsLimited
  <2>7. TypeOK'
    BY <1>a, <2>1, <2>5 DEF verify, code, session, history, TypeOK
  <2>8. OneSessionPerCode' /\ CodesNumbered' /\ FailuresLimited'
    BY <1>a, <2>1 DEF verify, code, session, OneSessionPerCode, CodesNumbered, FailuresLimited
  <2> QED BY <2>6, <2>7, <2>8 DEF AuthInv
<1>4. ASSUME NEW i \in Ips, RequestLimited(i) PROVE AuthInv'
  <2>1. UNCHANGED <<now, code, session, history>> /\ Requested(i)
    BY <1>4 DEF RequestLimited
  <2>2. rateLock \in [Ips -> Nat \cup {None}] /\ now + LockTime \in Nat /\ now + LockTime # None
    <3>1. now \in Nat /\ LockTime \in Nat
      BY <1>a DEF TypeOK
    <3> QED BY <1>a, <3>1 DEF TypeOK, None
  <2>3. rateLock' = [rateLock EXCEPT ![i] = now + LockTime]
    BY <1>4 DEF RequestLimited
  <2>4. rateLock' \in [Ips -> Nat \cup {None}]
    BY <2>2, <2>3
  <2>5. \A j \in Ips : rateLock'[j] = None => j # i /\ rateLock[j] = None
    BY <2>2, <2>3
  <2>6. /\ windowStart' \in [Ips -> Nat \cup {None}]
        /\ requests' \in [Ips -> 0..(RequestLimit + 1)]
        /\ \A j \in Ips \ {i} : requests'[j] = requests[j]
    BY <1>a, <2>1, CountedTable
  <2>7. /\ fails' \in [Ips -> 0..FailLimit]
        /\ failLock' \in [Ips -> Nat \cup {None}]
        /\ FailuresLimited'
    BY <1>a, <2>1, UnlockedTable
  <2>8. RequestsLimited'
    BY <1>a, <2>5, <2>6 DEF RequestsLimited
  <2>9. TypeOK'
    BY <1>a, <2>1, <2>4, <2>6, <2>7 DEF code, session, history, TypeOK
  <2>10. OneSessionPerCode' /\ CodesNumbered'
    BY <1>a, <2>1 DEF code, session, OneSessionPerCode, CodesNumbered
  <2> QED BY <2>7, <2>8, <2>9, <2>10 DEF AuthInv
<1>5. ASSUME NEW i \in Ips, RequestIssued(i) PROVE AuthInv'
  <2>1. UNCHANGED <<now, session, failTimes>> /\ Requested(i) /\ RequestCount(i) <= RequestLimit
    BY <1>5 DEF RequestIssued
  <2>2. /\ rateLock' \in [Ips -> Nat \cup {None}]
        /\ \A j \in Ips : rateLock'[j] = None => j = i \/ rateLock[j] = None
    <3>1. rateLock \in [Ips -> Nat \cup {None}] /\ rateLock' = [rateLock EXCEPT ![i] = None]
      BY <1>a, <1>5 DEF RequestIssued, TypeOK
    <3> QED BY <3>1
  <2>3. PICK c \in Codes : otp' = [otp EXCEPT ![i] = c]
    BY <1>5 DEF RequestIssued
  <2>4. /\ issued' = issued + 1
        /\ otpSerial' = [otpSerial EXCEPT ![i] = issued + 1]
        /\ otpExpires' = [otpExpires EXCEPT ![i] = now + OtpTtl]
        /\ issueTimes' = [issueTimes EXCEPT ![i] = Logged(issueTimes[i], now, 2 * RequestLimit + 1)]
    BY <1>5 DEF RequestIssued
  <2>5. /\ now \in Nat /\ issued \in Nat
        /\ otp \in [Ips -> Codes \cup {NoCode}]
        /\ otpExpires \in [Ips -> Nat]
        /\ otpSerial \in [Ips -> 0..issued]
        /\ sessionFrom \in [SessionIds -> 0..issued]
    BY <1>a DEF TypeOK
  <2>6. issueTimes' \in [Ips -> Seq(Nat)]
    <3>1. issueTimes \in [Ips -> Seq(Nat)] /\ 2 * RequestLimit + 1 \in Nat
      BY <1>a DEF TypeOK
    <3>2. issueTimes[i] \in Seq(Nat)
      BY <3>1
    <3>3. Logged(issueTimes[i], now, 2 * RequestLimit + 1) \in Seq(Nat)
      BY <2>5, <3>1, <3>2, LoggedType
    <3> QED BY <2>4, <3>1, <3>3
  <2>7. /\ otp' \in [Ips -> Codes \cup {NoCode}]
        /\ otpExpires' \in [Ips -> Nat]
        /\ otpSerial' \in [Ips -> 0..issued']
        /\ issued' \in Nat
    BY <2>3, <2>4, <2>5
  <2>8. sessionFrom' \in [SessionIds -> 0..issued']
    BY <2>1, <2>4, <2>5 DEF session
  <2>9. /\ windowStart' \in [Ips -> Nat \cup {None}]
        /\ requests' \in [Ips -> 0..(RequestLimit + 1)]
        /\ \A j \in Ips \ {i} : requests'[j] = requests[j]
        /\ requests'[i] = RequestCount(i)
    BY <1>a, <2>1, CountedTable
  <2>10. /\ fails' \in [Ips -> 0..FailLimit]
         /\ failLock' \in [Ips -> Nat \cup {None}]
         /\ FailuresLimited'
    BY <1>a, <2>1, UnlockedTable
  <2>11. TypeOK'
    BY <1>a, <2>1, <2>2, <2>6, <2>7, <2>8, <2>9, <2>10 DEF session, TypeOK
  <2>12. /\ otpSerial'[i] = issued + 1
         /\ \A j \in Ips : j # i => otpSerial'[j] = otpSerial[j] /\ otp'[j] = otp[j]
         /\ \A j \in Ips : otpSerial[j] # issued + 1
         /\ \A d \in SessionIds : sessionFrom'[d] = sessionFrom[d] /\ sessionFrom[d] # issued + 1
    BY <2>1, <2>3, <2>4, <2>5 DEF session
  <2>13. OneSessionPerCode'
    <3>1. \A d, e \in SessionIds : (sessionFrom'[d] = sessionFrom'[e] /\ d # e) => sessionFrom'[d] = 0
      BY <1>a, <2>12 DEF OneSessionPerCode
    <3>2. \A d \in SessionIds, j \in Ips : otp'[j] # NoCode => sessionFrom'[d] # otpSerial'[j]
      BY <1>a, <2>12 DEF OneSessionPerCode
    <3> QED BY <3>1, <3>2 DEF OneSessionPerCode
  <2>14. CodesNumbered'
    <3>1. \A j \in Ips : otp'[j] # NoCode => otpSerial'[j] > 0
      BY <1>a, <2>5, <2>12 DEF CodesNumbered
    <3>2. \A j, k \in Ips : (otp'[j] # NoCode /\ otp'[k] # NoCode /\ j # k)
                               => otpSerial'[j] # otpSerial'[k]
      BY <1>a, <2>12 DEF CodesNumbered
    <3> QED BY <3>1, <3>2 DEF CodesNumbered
  <2>15. RequestsLimited'
    BY <1>a, <2>1, <2>2, <2>9 DEF RequestsLimited
  <2> QED BY <2>10, <2>11, <2>13, <2>14, <2>15 DEF AuthInv
<1> DEFINE Failed(i) == /\ RegisterFailure(i) /\ ~VerifyLocked(i)
                        /\ UNCHANGED <<now, rate, session, issued, issueTimes>>
<1>6. ASSUME NEW i \in Ips, Failed(i), UNCHANGED code \/ Forget(i) PROVE AuthInv'
  <2>1. failTimes' \in [Ips -> Seq(Nat)]
    <3>1. failTimes \in [Ips -> Seq(Nat)] /\ now \in Nat /\ FailLimit + 1 \in Nat
      BY <1>a DEF TypeOK
    <3>2. failTimes[i] \in Seq(Nat)
      BY <3>1
    <3>3. Logged(failTimes[i], now, FailLimit + 1) \in Seq(Nat)
      BY <3>1, <3>2, LoggedType
    <3> QED BY <1>6, <3>1, <3>3 DEF RegisterFailure
  <2>2. /\ fails \in [Ips -> 0..FailLimit]
        /\ failLock \in [Ips -> Nat \cup {None}]
        /\ now + VerifyLock \in Nat /\ now + VerifyLock # None
    <3>1. now \in Nat /\ VerifyLock \in Nat
      BY <1>a DEF TypeOK
    <3> QED BY <1>a, <3>1 DEF TypeOK, None
  <2>3. FailsNow(i) \in 0..(FailLimit - 1)
    BY <1>a, <2>2 DEF FailsNow, FailuresLimited
  <2>4. /\ fails' = [fails EXCEPT ![i] = FailsNow(i) + 1]
        /\ failLock' = [failLock EXCEPT ![i] =
                           IF FailsNow(i) + 1 >= FailLimit THEN now + VerifyLock ELSE None]
    BY <1>6 DEF RegisterFailure
  <2>5. fails' \in [Ips -> 0..FailLimit] /\ failLock' \in [Ips -> Nat \cup {None}]
    BY <2>2, <2>3, <2>4
  <2>6. FailuresLimited'
    <3>1. failLock'[i] = None => fails'[i] < FailLimit
      BY <2>2, <2>3, <2>4
    <3>2. \A j \in Ips : j # i => failLock'[j] = failLock[j] /\ fails'[j] = fails[j]
      BY <2>2, <2>4
    <3> QED BY <1>a, <3>1, <3>2 DEF FailuresLimited
  <2>7. /\ otp \in [Ips -> Codes \cup {NoCode}]
        /\ otpExpires \in [Ips -> Nat]
        /\ otpSerial \in [Ips -> 0..issued]
        /\ issued \in Nat
    BY <1>a DEF TypeOK
  <2>8. /\ otp' \in [Ips -> Codes \cup {NoCode}]
        /\ otpExpires' \in [Ips -> Nat]
        /\ otpSerial' \in [Ips -> 0..issued]
        /\ \A j \in Ips : otp'[j] # NoCode => otp'[j] = otp[j] /\ otpSerial'[j] = otpSerial[j]
    <3>1. CASE UNCHANGED code
      BY <2>7, <3>1 DEF code
    <3>2. CASE Forget(i)
      BY <2>7, <3>2 DEF Forget
    <3> QED BY <1>6, <3>1, <3>2
  <2>9. UNCHANGED <<now, rate, session, issued, issueTimes>>
    BY <1>6
  <2>10. TypeOK'
    BY <1>a, <2>1, <2>5, <2>8, <2>9 DEF rate, session, TypeOK
  <2>11. OneSessionPerCode' /\ CodesNumbered'
    <3>1. sessionFrom' = sessionFrom
      BY <2>9 DEF session
    <3>2. OneSessionPerCode'
      BY <1>a, <2>8, <3>1 DEF OneSessionPerCode
    <3>3. CodesNumbered'
      BY <1>a, <2>8 DEF CodesNumbered
    <3> QED BY <3>2, <3>3
  <2>12. RequestsLimited'
    BY <1>a, <2>9 DEF rate, RequestsLimited
  <2> QED BY <2>6, <2>10, <2>11, <2>12 DEF AuthInv
<1>7. ASSUME NEW i \in Ips, NEW c \in Codes, VerifyFailed(i, c) PROVE AuthInv'
  <2>1. Failed(i) /\ (UNCHANGED code \/ Forget(i))
    BY <1>7 DEF VerifyFailed
  <2> QED BY <2>1, <1>6
<1>8. ASSUME NEW i \in Ips, NEW c \in Codes, NEW d \in SessionIds, VerifySucceeded(i, c, d)
      PROVE AuthInv'
  <2>1. UNCHANGED <<now, rate, issued, issueTimes>> /\ otp[i] = c /\ otp[i] # NoCode
    BY <1>8 DEF VerifySucceeded
  <2>2. /\ otp \in [Ips -> Codes \cup {NoCode}]
        /\ otpExpires \in [Ips -> Nat]
        /\ otpSerial \in [Ips -> 0..issued]
        /\ issued \in Nat /\ now + SessionTtl \in Nat
    <3>1. now \in Nat /\ SessionTtl \in Nat
      BY <1>a DEF TypeOK
    <3> QED BY <1>a, <3>1 DEF TypeOK
  <2>3. /\ otp' \in [Ips -> Codes \cup {NoCode}]
        /\ otpExpires' \in [Ips -> Nat]
        /\ otpSerial' \in [Ips -> 0..issued]
        /\ otp'[i] = NoCode
        /\ \A j \in Ips : j # i => otp'[j] = otp[j] /\ otpSerial'[j] = otpSerial[j]
    BY <1>8, <2>2 DEF VerifySucceeded, Forget
  <2>4. /\ sessionIp \in [SessionIds -> Ips \cup {NoSession}]
        /\ sessionEnds \in [SessionIds -> Nat]
        /\ sessionFrom \in [SessionIds -> 0..issued]
    BY <1>a DEF TypeOK
  <2>5. /\ sessionIp' \in [SessionIds -> Ips \cup {NoSession}]
        /\ sessionEnds' \in [SessionIds -> Nat]
    BY <1>8, <2>2, <2>4 DEF VerifySucceeded
  <2>6. /\ sessionFrom' \in [SessionIds -> 0..issued]
        /\ sessionFrom'[d] = otpSerial[i]
        /\ \A e \in SessionIds : e # d => sessionFrom'[e] = sessionFrom[e]
    <3>1. sessionFrom' = [sessionFrom EXCEPT ![d] = otpSerial[i]] /\ otpSerial[i] \in 0..issued
      BY <1>8, <2>2 DEF VerifySucceeded
    <3> QED BY <2>4, <3>1
  <2>7. /\ fails' = [fails EXCEPT ![i] = 0]
        /\ failLock' = [failLock EXCEPT ![i] = None]
        /\ failTimes' = [failTimes EXCEPT ![i] = <<>>]
    BY <1>8 DEF VerifySucceeded
  <2>8. /\ fails' \in [Ips -> 0..FailLimit]
        /\ failLock' \in [Ips -> Nat \cup {None}]
        /\ failTimes' \in [Ips -> Seq(Nat)]
    BY <1>a, <2>7 DEF TypeOK
  <2>9. FailuresLimited'
    <3>1. fails \in [Ips -> 0..FailLimit] /\ failLock \in [Ips -> Nat \cup {None}]
      BY <1>a DEF TypeOK
    <3> QED BY <1>a, <2>7, <3>1 DEF FailuresLimited
  <2>10. TypeOK'
    BY <1>a, <2>1, <2>3, <2>5, <2>6, <2>8 DEF rate, TypeOK
  <2>11. OneSessionPerCode'
    <3>1. \A e \in SessionIds : sessionFrom[e] # otpSerial[i]
      BY <1>a, <2>1 DEF OneSessionPerCode
    <3>2. \A j \in Ips : (otp[j] # NoCode /\ j # i) => otpSerial[j] # otpSerial[i]
      BY <1>a, <2>1 DEF CodesNumbered
    <3>3. \A e, f \in SessionIds : (sessionFrom'[e] = sessionFrom'[f] /\ e # f) => sessionFrom'[e] = 0
      BY <1>a, <2>6, <3>1 DEF OneSessionPerCode
    <3>4. \A e \in SessionIds, j \in Ips : otp'[j] # NoCode => sessionFrom'[e] # otpSerial'[j]
      BY <1>a, <2>3, <2>6, <3>2 DEF OneSessionPerCode
    <3> QED BY <3>3, <3>4 DEF OneSessionPerCode
  <2>12. CodesNumbered'
    BY <1>a, <2>3 DEF CodesNumbered
  <2>13. RequestsLimited'
    BY <1>a, <2>1 DEF rate, RequestsLimited
  <2> QED BY <2>9, <2>10, <2>11, <2>12, <2>13 DEF AuthInv
<1>9. ASSUME NEW d \in SessionIds, ValidateExpired(d) \/ revoke_session(d) PROVE AuthInv'
  <2>1. /\ sessionIp' = [sessionIp EXCEPT ![d] = NoSession]
        /\ UNCHANGED <<now, rate, verify, code, sessionEnds, sessionFrom, history>>
    BY <1>9 DEF ValidateExpired, revoke_session
  <2>2. TypeOK'
    BY <1>a, <2>1 DEF rate, verify, code, history, TypeOK
  <2>3. OneSessionPerCode' /\ CodesNumbered' /\ RequestsLimited' /\ FailuresLimited'
    BY <1>a, <2>1 DEF rate, verify, code, OneSessionPerCode, CodesNumbered, RequestsLimited,
                      FailuresLimited
  <2> QED BY <2>2, <2>3 DEF AuthInv
<1>10. ASSUME NEW i \in Ips, VerifyRefused(i) PROVE AuthInv'
  BY <1>0, <1>10 DEF VerifyRefused
<1> QED BY <1>0, <1>1, <1>2, <1>3, <1>4, <1>5, <1>7, <1>8, <1>9, <1>10
        DEF Next, request_otp, verify_otp

\* The tables keep their types and the counters their limits.
THEOREM TypeCorrect == Spec => []TypeOK
<1>1. AuthInv => TypeOK
  BY DEF AuthInv
<1> QED BY InitAuth, StepAuth, <1>1, PTL DEF Spec

\* verify_otp gives at most one session for a code.
THEOREM CodesUsedOnce == Spec => []OneSessionPerCode
<1>1. AuthInv => OneSessionPerCode
  BY DEF AuthInv
<1> QED BY InitAuth, StepAuth, <1>1, PTL DEF Spec

-----------------------------------------------------------------------------
(* The logs: failures and issued codes in time.                            *)

\* A log of at most n times, in order and none of them after t.
InTime(log, n, t) ==
    /\ Len(log) <= n
    /\ \A j \in 1 .. Len(log) : log[j] <= t
    /\ \A j, k \in 1 .. Len(log) : j <= k => log[j] <= log[k]

\* The failures behind the last n, if there are any, lie before a lock that is
\* over at t: the failure that set it is the last of them.
LockBehind(log, n, t) ==
    \/ Len(log) = n
    \/ Len(log) > n /\ log[Len(log) - n] + VerifyLock <= t

\* Without a lock the counter says how many failures have no lock behind them;
\* a lock was set by the last failure.
FailInv(i) ==
    LET log == failTimes[i]
    IN  /\ InTime(log, FailLimit + 1, now)
        /\ failLock[i] = None => LockBehind(log, fails[i], now)
        /\ failLock[i] # None => Len(log) > 0 /\ failLock[i] = log[Len(log)] + VerifyLock

\* Of a window that began at s and counts n requests: the codes before the last
\* n are from before it, those before the last n + RequestLimit are a window
\* older.
WindowInv(log, s, n, t) ==
    /\ s <= t
    /\ \A j \in 1 .. Len(log) : j <= Len(log) - n => log[j] <= s
    /\ \A j \in 1 .. Len(log) : j <= Len(log) - n - RequestLimit => log[j] + Window <= s

\* A lock is over no sooner than LockTime after the last code.
BurstInv(i) ==
    LET log == issueTimes[i]
    IN  /\ InTime(log, 2 * RequestLimit + 1, now)
        /\ windowStart[i] = None => log = <<>> /\ rateLock[i] = None
        /\ windowStart[i] # None /\ rateLock[i] = None => WindowInv(log, windowStart[i], requests[i], now)
        /\ rateLock[i] # None => \A j \in 1 .. Len(log) : log[j] + LockTime <= rateLock[i]

SpacedInv == (\A i \in Ips : FailInv(i)) /\ FailuresSpaced
BurstsInv == (\A i \in Ips : BurstInv(i)) /\ BurstBounded

\* The lock after too many requests lasts as long as a window, as it does with
\* the defaults the program runs with: 600 and 60 seconds.
LockCoversWindow == Window <= LockTime

\* A log that takes one more time is the old one, without its first time if it
\* was full, and the new time.
LEMMA LoggedShape ==
    ASSUME NEW log \in Seq(Nat), NEW t \in Nat, NEW n \in Nat \ {0}, Len(log) <= n
    PROVE  \E d \in {0, 1} :
               /\ Len(Logged(log, t, n)) = Len(log) + 1 - d
               /\ \A j \in 1 .. Len(log) - d : Logged(log, t, n)[j] = log[j + d]
               /\ Logged(log, t, n)[Len(log) + 1 - d] = t
               /\ Len(log) + 1 - d <= n /\ (d = 1 => Len(log) = n)
<1> DEFINE all == Append(log, t)
<1>1. /\ all \in Seq(Nat) /\ Len(all) = Len(log) + 1 /\ all[Len(log) + 1] = t
      /\ \A j \in 1 .. Len(log) : all[j] = log[j]
      /\ Len(log) \in Nat
  BY AppendProperties, LenProperties
<1>2. Logged(log, t, n) = IF Len(all) > n THEN Tail(all) ELSE all
  BY DEF Logged
<1> HIDE DEF all
<1>3. CASE Len(all) <= n
  <2>1. Logged(log, t, n) = all
    BY <1>1, <1>2, <1>3
  <2> WITNESS 0 \in {0, 1}
  <2> QED BY <1>1, <1>3, <2>1
<1>4. CASE Len(all) > n
  <2>1. Logged(log, t, n) = Tail(all) /\ Len(log) = n /\ all # <<>>
    BY <1>1, <1>2, <1>4
  <2>2. Len(Tail(all)) = Len(all) - 1 /\ \A j \in 1 .. Len(all) - 1 : Tail(all)[j] = all[j + 1]
    BY <1>1, <2>1, HeadTailProperties
  <2> WITNESS 1 \in {0, 1}
  <2>3. ASSUME NEW j \in 1 .. Len(log) - 1 PROVE Logged(log, t, n)[j] = log[j + 1]
    <3>1. j \in 1 .. Len(all) - 1 /\ j + 1 \in 1 .. Len(log)
      BY <1>1
    <3> QED BY <1>1, <2>1, <2>2, <3>1
  <2> QED BY <1>1, <2>1, <2>2, <2>3
<1> QED BY <1>1, <1>3, <1>4

\* What is known of a log stays known as time passes.
LEMMA TimePasses ==
    ASSUME NEW log \in Seq(Nat), NEW t \in Nat, NEW u \in Nat, t <= u, NEW n \in Nat, NEW m \in Nat,
           NEW s \in Nat
    PROVE  /\ InTime(log, n, t) => InTime(log, n, u)
           /\ LockBehind(log, m, t) => LockBehind(log, m, u)
           /\ WindowInv(log, s, m, t) => WindowInv(log, s, m, u)
<1>0. \A j \in 1 .. Len(log) : log[j] \in Nat
  BY ElementOfSeq
<1>1. InTime(log, n, t) => InTime(log, n, u)
  BY <1>0 DEF InTime
<1>2. LockBehind(log, m, t) => LockBehind(log, m, u)
  <2> SUFFICES ASSUME Len(log) > m, log[Len(log) - m] + VerifyLock <= t
               PROVE  log[Len(log) - m] + VerifyLock <= u
    BY DEF LockBehind
  <2>1. log[Len(log) - m] \in Nat /\ VerifyLock \in Nat
    <3>1. Len(log) - m \in 1 .. Len(log)
      BY LenProperties
    <3> QED BY <1>0, <3>1, DurationsAssumption
  <2> QED BY <2>1
<1>3. WindowInv(log, s, m, t) => WindowInv(log, s, m, u)
  BY DEF WindowInv
<1> QED BY <1>1, <1>2, <1>3

\* The new time is the latest.
LEMMA LoggedInTime ==
    ASSUME NEW log \in Seq(Nat), NEW t \in Nat, NEW n \in Nat \ {0}, InTime(log, n, t)
    PROVE  InTime(Logged(log, t, n), n, t)
<1> DEFINE new == Logged(log, t, n)
<1>0. Len(log) <= n
  BY DEF InTime
<1>1. PICK d \in {0, 1} : /\ Len(new) = Len(log) + 1 - d
                          /\ \A j \in 1 .. Len(log) - d : new[j] = log[j + d]
                          /\ new[Len(log) + 1 - d] = t
                          /\ Len(log) + 1 - d <= n /\ (d = 1 => Len(log) = n)
  BY <1>0, LoggedShape, ZenonT(30)
<1> HIDE DEF new
<1>2. Len(log) \in Nat /\ d \in Int
  BY LenProperties
<1>3. ASSUME NEW j \in 1 .. Len(log) - d
      PROVE  new[j] = log[j + d] /\ j + d \in 1 .. Len(log) /\ new[j] <= t
  BY <1>1, <1>2 DEF InTime
<1>4. \A j \in 1 .. Len(new) : new[j] <= t
  <2> SUFFICES ASSUME NEW j \in 1 .. Len(new) PROVE new[j] <= t
    OBVIOUS
  <2>1. j \in 1 .. Len(log) - d \/ j = Len(log) + 1 - d
    BY <1>1, <1>2
  <2> QED BY <1>1, <1>3, <2>1
<1>5. \A j, k \in 1 .. Len(new) : j <= k => new[j] <= new[k]
  <2> SUFFICES ASSUME NEW j \in 1 .. Len(new), NEW k \in 1 .. Len(new), j <= k PROVE new[j] <= new[k]
    OBVIOUS
  <2>1. CASE k = Len(log) + 1 - d
    BY <1>1, <1>4, <2>1
  <2>2. CASE k \in 1 .. Len(log) - d
    <3>1. j \in 1 .. Len(log) - d /\ j + d <= k + d
      BY <1>2, <2>2
    <3>2. log[j + d] <= log[k + d]
      BY <1>3, <2>2, <3>1 DEF InTime
    <3> QED BY <1>3, <2>2, <3>1, <3>2
  <2>3. k = Len(log) + 1 - d \/ k \in 1 .. Len(log) - d
    BY <1>1, <1>2
  <2> QED BY <2>1, <2>2, <2>3
<1> QED BY <1>1, <1>4, <1>5 DEF InTime, new

-----------------------------------------------------------------------------
(* Failures and their lock.                                                *)

\* One more failure that no lock refuses: of FailLimit + 1 in a row the first
\* lies before a lock that is over.
LEMMA FailureLogged ==
    ASSUME NEW log \in Seq(Nat), NEW t \in Nat, NEW c \in 0 .. (FailLimit - 1),
           InTime(log, FailLimit + 1, t), LockBehind(log, c, t)
    PROVE  LET new == Logged(log, t, FailLimit + 1)
           IN  /\ LockBehind(new, c + 1, t)
               /\ Len(new) > 0 /\ new[Len(new)] = t
               /\ Len(new) = FailLimit + 1 => new[FailLimit + 1] - new[1] >= VerifyLock
<1> DEFINE new == Logged(log, t, FailLimit + 1)
<1>0. FailLimit \in Nat \ {0} /\ VerifyLock \in Nat /\ Len(log) \in Nat /\ FailLimit + 1 \in Nat \ {0}
  BY LimitsAssumption, DurationsAssumption, LenProperties
<1>a. Len(log) <= FailLimit + 1
  BY DEF InTime
<1>1. PICK d \in {0, 1} : /\ Len(new) = Len(log) + 1 - d
                          /\ \A j \in 1 .. Len(log) - d : new[j] = log[j + d]
                          /\ new[Len(log) + 1 - d] = t
                          /\ Len(log) + 1 - d <= FailLimit + 1 /\ (d = 1 => Len(log) = FailLimit + 1)
  BY <1>0, <1>a, LoggedShape, ZenonT(30)
<1>2. InTime(new, FailLimit + 1, t) /\ new \in Seq(Nat)
  BY <1>0, LoggedInTime, LoggedType
<1>3. \A j \in 1 .. Len(new) : new[j] \in Nat
  BY <1>2, ElementOfSeq
<1> HIDE DEF new
<1>4. CASE Len(log) = c
  <2>1. Len(new) = c + 1 /\ c + 1 <= FailLimit
    BY <1>0, <1>1, <1>2, <1>4 DEF InTime
  <2> QED BY <1>0, <1>1, <2>1 DEF LockBehind, new
<1>5. CASE Len(log) > c /\ log[Len(log) - c] + VerifyLock <= t
  <2> DEFINE k == Len(new) - (c + 1)
  <2>0. Len(new) = Len(log) + 1 - d /\ (d = 1 => Len(log) = FailLimit + 1)
    BY <1>1
  <2>1. k \in 1 .. Len(log) - d /\ k + d = Len(log) - c /\ k \in 1 .. Len(new)
    <3>1. CASE d = 0
      BY <1>0, <1>5, <2>0, <3>1
    <3>2. CASE d = 1
      BY <1>0, <1>5, <2>0, <3>2
    <3> QED BY <3>1, <3>2
  <2>2. new[k] + VerifyLock <= t
    BY <1>1, <1>5, <2>1
  <2>3. LockBehind(new, c + 1, t)
    <3>1. Len(new) > c + 1
      BY <1>0, <1>5, <2>0
    <3>2. new[Len(new) - (c + 1)] + VerifyLock <= t
      BY <2>2
    <3> QED BY <3>1, <3>2, Zenon DEF LockBehind
  <2> HIDE DEF k
  <2>4. 1 <= k /\ 1 \in 1 .. Len(new)
    BY <1>0, <2>0, <2>1
  <2>5. new[1] <= new[k] /\ new[1] \in Nat /\ new[k] \in Nat
    BY <1>2, <1>3, <2>1, <2>4 DEF InTime
  <2>6. t - new[1] >= VerifyLock
    BY <1>0, <2>2, <2>5
  <2>7. Len(new) = FailLimit + 1 => new[FailLimit + 1] - new[1] >= VerifyLock
    BY <1>1, <2>6
  <2> QED BY <1>0, <1>1, <2>3, <2>7 DEF new
<1> QED BY <1>4, <1>5 DEF LockBehind

\* Where no lock refuses, what the next failure is counted from is right.
LEMMA FreeCount ==
    ASSUME TypeOK, FailuresLimited, NEW i \in Ips, FailInv(i), ~VerifyLocked(i)
    PROVE  /\ FailsNow(i) \in 0 .. (FailLimit - 1)
           /\ LockBehind(failTimes[i], FailsNow(i), now)
<1>0. /\ failTimes[i] \in Seq(Nat) /\ Len(failTimes[i]) \in Nat /\ now \in Nat
      /\ fails[i] \in 0 .. FailLimit /\ FailLimit \in Nat \ {0} /\ failLock[i] \in Nat \cup {None}
  BY LimitsAssumption, LenProperties DEF TypeOK
<1>1. CASE failLock[i] = None
  BY <1>0, <1>1 DEF FailsNow, FailInv, FailuresLimited
<1>2. CASE failLock[i] # None
  <2>1. FailsNow(i) = 0 /\ failLock[i] <= now /\ Len(failTimes[i]) > 0
        /\ failLock[i] = failTimes[i][Len(failTimes[i])] + VerifyLock
    BY <1>0, <1>2 DEF FailsNow, VerifyLocked, FailInv
  <2>2. Len(failTimes[i]) - 0 = Len(failTimes[i])
    BY <1>0
  <2>3. LockBehind(failTimes[i], 0, now)
    BY <1>0, <2>1, <2>2 DEF LockBehind
  <2> QED BY <1>0, <2>1, <2>3
<1> QED BY <1>1, <1>2

\* Nothing of the failures changes but the time.
LEMMA FailuresRest ==
    ASSUME TypeOK, NEW i \in Ips, FailInv(i), now' \in Nat, now <= now',
           failTimes'[i] = failTimes[i], fails'[i] = fails[i], failLock'[i] = failLock[i]
    PROVE  FailInv(i)'
<1>0. /\ failTimes[i] \in Seq(Nat) /\ now \in Nat /\ fails[i] \in Nat /\ FailLimit + 1 \in Nat
      /\ InTime(failTimes[i], FailLimit + 1, now)
  BY LimitsAssumption DEF TypeOK, FailInv
<1>1. InTime(failTimes[i], FailLimit + 1, now')
  BY <1>0, TimePasses
<1>2. failLock[i] = None => LockBehind(failTimes[i], fails[i], now')
  BY <1>0, TimePasses DEF FailInv
<1> QED BY <1>1, <1>2 DEF FailInv

\* _unlock_verify_if_expired forgets the failures that a lock has answered.
LEMMA UnlockKeeps ==
    ASSUME TypeOK, FailuresLimited, NEW i \in Ips, FailInv(i), ~VerifyLocked(i), Unlock(i),
           now' = now, failTimes' = failTimes
    PROVE  FailInv(i)' /\ \A j \in Ips \ {i} : fails'[j] = fails[j] /\ failLock'[j] = failLock[j]
<1>1. fails \in [Ips -> 0 .. FailLimit] /\ failLock \in [Ips -> Nat \cup {None}]
  BY DEF TypeOK
<1>2. /\ failLock' = [failLock EXCEPT ![i] = None]
      /\ fails' = [fails EXCEPT ![i] = IF failLock[i] # None THEN 0 ELSE fails[i]]
  BY <1>1 DEF Unlock
<1>3. failLock'[i] = None /\ fails'[i] = FailsNow(i)
  BY <1>1, <1>2 DEF FailsNow
<1>4. LockBehind(failTimes[i], FailsNow(i), now)
  BY FreeCount
<1>5. FailInv(i)'
  BY <1>3, <1>4 DEF FailInv
<1> QED BY <1>1, <1>2, <1>5

\* _register_verify_failure.
LEMMA FailureKeeps ==
    ASSUME TypeOK, FailuresLimited, NEW i \in Ips, FailInv(i), ~VerifyLocked(i), RegisterFailure(i),
           now' = now
    PROVE  /\ FailInv(i)'
           /\ Len(failTimes'[i]) = FailLimit + 1 =>
                  failTimes'[i][FailLimit + 1] - failTimes'[i][1] >= VerifyLock
           /\ \A j \in Ips \ {i} : /\ fails'[j] = fails[j] /\ failLock'[j] = failLock[j]
                                   /\ failTimes'[j] = failTimes[j]
<1> DEFINE c == FailsNow(i)
           new == Logged(failTimes[i], now, FailLimit + 1)
<1>0. /\ fails \in [Ips -> 0 .. FailLimit] /\ failLock \in [Ips -> Nat \cup {None}] /\ now \in Nat
      /\ failTimes \in [Ips -> Seq(Nat)] /\ FailLimit \in Nat \ {0} /\ VerifyLock \in Nat
  BY LimitsAssumption, DurationsAssumption DEF TypeOK
<1>1. c \in 0 .. (FailLimit - 1) /\ LockBehind(failTimes[i], c, now)
  BY FreeCount
<1>2. InTime(failTimes[i], FailLimit + 1, now) /\ failTimes[i] \in Seq(Nat)
  BY <1>0 DEF FailInv
<1>3. /\ LockBehind(new, c + 1, now)
      /\ Len(new) > 0 /\ new[Len(new)] = now
      /\ Len(new) = FailLimit + 1 => new[FailLimit + 1] - new[1] >= VerifyLock
  <2> HIDE DEF c
  <2> QED BY <1>0, <1>1, <1>2, FailureLogged
<1>4. InTime(new, FailLimit + 1, now)
  BY <1>0, <1>2, LoggedInTime
<1>5. /\ fails' = [fails EXCEPT ![i] = c + 1]
      /\ failLock' = [failLock EXCEPT ![i] = IF c + 1 >= FailLimit THEN now + VerifyLock ELSE None]
      /\ failTimes' = [failTimes EXCEPT ![i] = new]
  BY DEF RegisterFailure
<1> HIDE DEF c, new
<1>6. /\ failTimes'[i] = new /\ fails'[i] = c + 1
      /\ failLock'[i] = now + VerifyLock \/ failLock'[i] = None
      /\ now + VerifyLock # None
  BY <1>0, <1>5 DEF None
<1>7. FailInv(i)'
  BY <1>3, <1>4, <1>6 DEF FailInv
<1>8. \A j \in Ips \ {i} : /\ fails'[j] = fails[j] /\ failLock'[j] = failLock[j]
                           /\ failTimes'[j] = failTimes[j]
  BY <1>0, <1>5
<1> QED BY <1>3, <1>6, <1>7, <1>8

LEMMA InitSpaced == Init => SpacedInv
<1> SUFFICES ASSUME Init PROVE SpacedInv
  OBVIOUS
<1>1. ASSUME NEW i \in Ips PROVE FailInv(i) /\ Len(failTimes[i]) = 0
  <2>1. failTimes[i] = <<>> /\ fails[i] = 0 /\ failLock[i] = None /\ FailLimit \in Nat
    BY LimitsAssumption DEF Init
  <2>2. Len(failTimes[i]) = 0
    BY <2>1
  <2> QED BY <2>1, <2>2 DEF FailInv, InTime, LockBehind
<1>2. FailLimit + 1 # 0
  BY LimitsAssumption
<1> QED BY <1>1, <1>2 DEF SpacedInv, FailuresSpaced

\* Every handler keeps the failures apart.
LEMMA StepSpaced == AuthInv /\ AuthInv' /\ SpacedInv /\ [Next]_vars => SpacedInv'
<1> SUFFICES ASSUME AuthInv, AuthInv', SpacedInv, [Next]_vars PROVE SpacedInv'
  OBVIOUS
<1>0. /\ TypeOK /\ FailuresLimited /\ FailuresSpaced /\ \A i \in Ips : FailInv(i)
      /\ now \in Nat /\ now' \in Nat
  BY DEF AuthInv, SpacedInv, TypeOK
<1>1. ASSUME UNCHANGED <<verify, failTimes>>, now <= now' PROVE SpacedInv'
  <2>1. \A i \in Ips : FailInv(i)'
    BY <1>0, <1>1, FailuresRest DEF verify
  <2>2. FailuresSpaced'
    BY <1>0, <1>1 DEF FailuresSpaced
  <2> QED BY <2>1, <2>2 DEF SpacedInv
<1>2. CASE UNCHANGED vars \/ Tick \/ \E i \in Ips : RequestRefused(i) \/ RequestDenied(i) \/ VerifyRefused(i)
  <2>1. UNCHANGED <<verify, failTimes>> /\ (now' = now \/ now' = now + 1)
    BY <1>2 DEF vars, Tick, RequestRefused, RequestDenied, VerifyRefused, verify, history
  <2> QED BY <1>0, <1>1, <2>1
<1>3. ASSUME NEW d \in SessionIds, ValidateExpired(d) \/ revoke_session(d) PROVE SpacedInv'
  <2>1. UNCHANGED <<verify, failTimes>> /\ now' = now
    BY <1>3 DEF ValidateExpired, revoke_session, verify, history
  <2> QED BY <1>0, <1>1, <2>1
<1>4. ASSUME NEW i \in Ips, RequestLimited(i) \/ RequestIssued(i) PROVE SpacedInv'
  <2>1. Unlock(i) /\ ~VerifyLocked(i) /\ now' = now /\ failTimes' = failTimes
    BY <1>4 DEF RequestLimited, RequestIssued, Requested, history
  <2>2. FailInv(i)' /\ \A j \in Ips \ {i} : fails'[j] = fails[j] /\ failLock'[j] = failLock[j]
    BY <1>0, <2>1, UnlockKeeps
  <2>3. ASSUME NEW j \in Ips \ {i} PROVE FailInv(j)'
    BY <1>0, <2>1, <2>2, FailuresRest
  <2>4. FailuresSpaced'
    BY <1>0, <2>1 DEF FailuresSpaced
  <2> QED BY <2>2, <2>3, <2>4 DEF SpacedInv
<1>5. ASSUME NEW i \in Ips, NEW c \in Codes, VerifyFailed(i, c) PROVE SpacedInv'
  <2>1. RegisterFailure(i) /\ ~VerifyLocked(i) /\ now' = now
    BY <1>5 DEF VerifyFailed
  <2>2. /\ FailInv(i)'
        /\ Len(failTimes'[i]) = FailLimit + 1 =>
               failTimes'[i][FailLimit + 1] - failTimes'[i][1] >= VerifyLock
        /\ \A j \in Ips \ {i} : /\ fails'[j] = fails[j] /\ failLock'[j] = failLock[j]
                                /\ failTimes'[j] = failTimes[j]
    BY <1>0, <2>1, FailureKeeps
  <2>3. ASSUME NEW j \in Ips \ {i} PROVE FailInv(j)'
    BY <1>0, <2>1, <2>2, FailuresRest
  <2>4. FailuresSpaced'
    BY <1>0, <2>2 DEF FailuresSpaced
  <2> QED BY <2>2, <2>3, <2>4 DEF SpacedInv
<1>6. ASSUME NEW i \in Ips, NEW c \in Codes, NEW d \in SessionIds, VerifySucceeded(i, c, d)
      PROVE  SpacedInv'
  <2>1. /\ fails' = [fails EXCEPT ![i] = 0] /\ failLock' = [failLock EXCEPT ![i] = None]
        /\ failTimes' = [failTimes EXCEPT ![i] = <<>>] /\ now' = now
    BY <1>6 DEF VerifySucceeded
  <2>2. /\ fails \in [Ips -> 0 .. FailLimit] /\ failLock \in [Ips -> Nat \cup {None}]
        /\ failTimes \in [Ips -> Seq(Nat)] /\ FailLimit \in Nat \ {0}
    BY <1>0, LimitsAssumption DEF TypeOK
  <2>3. failTimes'[i] = <<>> /\ fails'[i] = 0 /\ failLock'[i] = None /\ Len(failTimes'[i]) = 0
    BY <2>1, <2>2
  <2>4. FailInv(i)'
    BY <2>2, <2>3 DEF FailInv, InTime, LockBehind
  <2>5. \A j \in Ips \ {i} : /\ fails'[j] = fails[j] /\ failLock'[j] = failLock[j]
                             /\ failTimes'[j] = failTimes[j]
    BY <2>1, <2>2
  <2>6. ASSUME NEW j \in Ips \ {i} PROVE FailInv(j)'
    BY <1>0, <2>1, <2>5, FailuresRest
  <2>7. FailLimit + 1 # 0
    BY <2>2
  <2>8. FailuresSpaced'
    BY <1>0, <2>3, <2>5, <2>7 DEF FailuresSpaced
  <2> QED BY <2>4, <2>6, <2>8 DEF SpacedInv
<1> QED BY <1>2, <1>3, <1>4, <1>5, <1>6 DEF Next, request_otp, verify_otp

\* For any limit, any lock and any mix of requests, codes and waiting: without a
\* success between them, verify_otp answers FailLimit + 1 failures of an address
\* over no less than verify_lock_seconds.
THEOREM FailuresAreSpaced == Spec => []FailuresSpaced
<1>1. SpacedInv => FailuresSpaced
  BY DEF SpacedInv
<1> QED BY InitAuth, StepAuth, InitSpaced, StepSpaced, <1>1, PTL DEF Spec

-----------------------------------------------------------------------------
(* Codes issued and the windows of requests.                               *)

\* One more code in a window that has room for it.
LEMMA IssueLogged ==
    ASSUME NEW log \in Seq(Nat), NEW t \in Nat, NEW s \in Nat, NEW c \in 0 .. (RequestLimit - 1),
           InTime(log, 2 * RequestLimit + 1, t), WindowInv(log, s, c, t)
    PROVE  LET new == Logged(log, t, 2 * RequestLimit + 1)
           IN  /\ WindowInv(new, s, c + 1, t)
               /\ Len(new) = 2 * RequestLimit + 1 => new[2 * RequestLimit + 1] - new[1] >= Window
<1> DEFINE n == 2 * RequestLimit + 1
           new == Logged(log, t, n)
<1>0. /\ RequestLimit \in Nat \ {0} /\ Window \in Nat /\ Len(log) \in Nat /\ n \in Nat \ {0}
      /\ n = 2 * RequestLimit + 1
  BY LimitsAssumption, DurationsAssumption, LenProperties
<1> HIDE DEF n
<1>a. Len(log) <= n
  BY <1>0 DEF InTime
<1>1. PICK d \in {0, 1} : /\ Len(new) = Len(log) + 1 - d
                          /\ \A j \in 1 .. Len(log) - d : new[j] = log[j + d]
                          /\ new[Len(log) + 1 - d] = t
                          /\ Len(log) + 1 - d <= n /\ (d = 1 => Len(log) = n)
  BY <1>0, <1>a, LoggedShape, ZenonT(30)
<1>2. new \in Seq(Nat) /\ \A j \in 1 .. Len(new) : new[j] \in Nat
  BY <1>0, LoggedType, ElementOfSeq
<1> HIDE DEF new
<1>3. Len(new) = Len(log) + 1 - d
  BY <1>1
<1>4. ASSUME NEW j \in 1 .. Len(new), j <= Len(new) - (c + 1)
      PROVE  /\ new[j] <= s
             /\ j <= Len(new) - (c + 1) - RequestLimit => new[j] + Window <= s
  <2>1. j \in 1 .. Len(log) - d /\ j + d \in 1 .. Len(log) /\ j + d <= Len(log) - c
    BY <1>0, <1>3, <1>4
  <2>2. new[j] = log[j + d]
    BY <1>1, <2>1
  <2>3. j <= Len(new) - (c + 1) - RequestLimit => j + d <= Len(log) - c - RequestLimit
    BY <1>0, <1>3, <2>1
  <2> QED BY <2>1, <2>2, <2>3 DEF WindowInv
<1>5. WindowInv(new, s, c + 1, t)
  <2>1. ASSUME NEW j \in 1 .. Len(new), j <= Len(new) - (c + 1) - RequestLimit
        PROVE  j <= Len(new) - (c + 1)
    BY <1>0, <1>3, <2>1
  <2>2. s <= t
    BY DEF WindowInv
  <2> QED BY <1>4, <2>1, <2>2 DEF WindowInv
<1>6. Len(new) = n => new[n] - new[1] >= Window
  <2> SUFFICES ASSUME Len(new) = n PROVE new[n] - new[1] >= Window
    OBVIOUS
  <2>1. new[n] = t
    BY <1>1
  <2>2. 1 \in 1 .. Len(new) /\ 1 <= Len(new) - (c + 1) - RequestLimit /\ 1 <= Len(new) - (c + 1)
    BY <1>0
  <2>3. new[1] + Window <= s /\ s <= t /\ new[1] \in Nat
    BY <1>2, <1>4, <2>2 DEF WindowInv
  <2> QED BY <1>0, <2>1, <2>3
<1> QED BY <1>5, <1>6 DEF new, n

\* The window a request finds, a new one after a lock.
LEMMA OpenWindow ==
    ASSUME LockCoversWindow, TypeOK, RequestsLimited, NEW i \in Ips, BurstInv(i), ~RateLocked(i)
    PROVE  WindowInv(issueTimes[i], StartOf(i), CountOf(i), now)
<1> DEFINE log == issueTimes[i]
<1>0. /\ log \in Seq(Nat) /\ now \in Nat /\ Window \in Nat /\ LockTime \in Nat /\ Window <= LockTime
      /\ rateLock[i] \in Nat \cup {None} /\ RequestLimit \in Nat
  BY LimitsAssumption, DurationsAssumption DEF TypeOK, LockCoversWindow
<1>1. \A j \in 1 .. Len(log) : log[j] \in Nat /\ log[j] <= now
  BY <1>0, ElementOfSeq DEF BurstInv, InTime
<1>2. CASE windowStart[i] = None
  <2>1. StartOf(i) = now /\ CountOf(i) = 0 /\ Len(log) = 0
    BY <1>2 DEF StartOf, CountOf, Starts, BurstInv
  <2> QED BY <1>0, <2>1 DEF WindowInv
<1>3. CASE rateLock[i] # None
  <2>1. StartOf(i) = now /\ CountOf(i) = 0 /\ rateLock[i] <= now
    BY <1>0, <1>3 DEF StartOf, CountOf, Starts, RateLocked
  <2>2. \A j \in 1 .. Len(log) : log[j] + LockTime <= rateLock[i]
    BY <1>3 DEF BurstInv
  <2>3. ASSUME NEW j \in 1 .. Len(log) PROVE log[j] + Window <= now
    BY <1>0, <1>1, <1>3, <2>1, <2>2
  <2> HIDE DEF log
  <2>4. WindowInv(log, now, 0, now)
    BY <1>0, <1>1, <2>3 DEF WindowInv
  <2> QED BY <2>1, <2>4 DEF log
<1>4. CASE windowStart[i] # None /\ rateLock[i] = None
  <2>1. StartOf(i) = windowStart[i] /\ CountOf(i) = requests[i]
    BY <1>4 DEF StartOf, CountOf, Starts
  <2> QED BY <1>4, <2>1 DEF BurstInv
<1> QED BY <1>2, <1>3, <1>4

\* The window once request_otp has looked whether the old one is over: a new
\* one, or the one that goes on.
LEMMA RolledWindow ==
    ASSUME LockCoversWindow, TypeOK, RequestsLimited, NEW i \in Ips, BurstInv(i), ~RateLocked(i)
    PROVE  WindowInv(issueTimes[i], IF now - StartOf(i) >= Window THEN now ELSE StartOf(i),
                     RequestCount(i) - 1, now)
<1> DEFINE log == issueTimes[i]
<1>0. /\ log \in Seq(Nat) /\ now \in Nat /\ Window \in Nat /\ RequestLimit \in Nat
      /\ CountOf(i) \in 0 .. RequestLimit /\ StartOf(i) \in Nat /\ Len(log) \in Nat
  BY LimitsAssumption, DurationsAssumption, WindowTypes, LenProperties DEF TypeOK
<1>1. \A j \in 1 .. Len(log) : log[j] \in Nat /\ log[j] <= now
  BY <1>0, ElementOfSeq DEF BurstInv, InTime
<1>2. WindowInv(log, StartOf(i), CountOf(i), now)
  BY OpenWindow
<1> HIDE DEF log
<1>3. CASE now - StartOf(i) >= Window
  <2>1. RequestCount(i) - 1 = 0
    BY <1>3 DEF RequestCount
  <2>2. ASSUME NEW j \in 1 .. Len(log), j <= Len(log) - 0 - RequestLimit PROVE log[j] + Window <= now
    <3>1. j <= Len(log) - CountOf(i)
      BY <1>0, <2>2
    <3>2. log[j] <= StartOf(i)
      BY <1>2, <3>1 DEF WindowInv
    <3> QED BY <1>0, <1>1, <1>3, <3>2
  <2>3. WindowInv(log, now, 0, now)
    BY <1>0, <1>1, <2>2 DEF WindowInv
  <2> QED BY <1>3, <2>1, <2>3 DEF log
<1>4. CASE ~(now - StartOf(i) >= Window)
  <2>1. RequestCount(i) - 1 = CountOf(i)
    BY <1>0, <1>4 DEF RequestCount
  <2> QED BY <1>2, <1>4, <2>1 DEF log
<1> QED BY <1>3, <1>4

\* Nothing of the requests changes but the time.
LEMMA BurstRests ==
    ASSUME TypeOK, NEW i \in Ips, BurstInv(i), now' \in Nat, now <= now', rateLock'[i] = rateLock[i],
           issueTimes'[i] = issueTimes[i], windowStart'[i] = windowStart[i], requests'[i] = requests[i]
    PROVE  BurstInv(i)'
<1>0. /\ issueTimes[i] \in Seq(Nat) /\ now \in Nat /\ requests[i] \in Nat
      /\ windowStart[i] \in Nat \cup {None} /\ 2 * RequestLimit + 1 \in Nat
      /\ InTime(issueTimes[i], 2 * RequestLimit + 1, now)
  BY LimitsAssumption DEF TypeOK, BurstInv
<1>1. InTime(issueTimes[i], 2 * RequestLimit + 1, now')
  BY <1>0, TimePasses
<1>2. windowStart[i] # None /\ rateLock[i] = None =>
          WindowInv(issueTimes[i], windowStart[i], requests[i], now')
  BY <1>0, TimePasses DEF BurstInv
<1> QED BY <1>1, <1>2 DEF BurstInv

\* Of every other address nothing changes.
LEMMA OthersRest ==
    ASSUME TypeOK, NEW i \in Ips, \A j \in Ips : BurstInv(j), now' = now,
           \A j \in Ips \ {i} : /\ rateLock'[j] = rateLock[j] /\ issueTimes'[j] = issueTimes[j]
                                /\ windowStart'[j] = windowStart[j] /\ requests'[j] = requests[j],
           BurstInv(i)'
    PROVE  \A j \in Ips : BurstInv(j)'
<1>0. now \in Nat /\ now' \in Nat /\ now <= now'
  BY DEF TypeOK
<1>1. ASSUME NEW j \in Ips \ {i} PROVE BurstInv(j)'
  BY <1>0, BurstRests
<1> QED BY <1>1

\* A request that is denied may open a window and counts nothing.
LEMMA DeniedKeeps ==
    ASSUME LockCoversWindow, TypeOK, RequestsLimited, NEW i \in Ips, \A j \in Ips : BurstInv(j),
           RequestDenied(i)
    PROVE  (\A j \in Ips : BurstInv(j)') /\ issueTimes' = issueTimes
<1>0. /\ windowStart \in [Ips -> Nat \cup {None}] /\ requests \in [Ips -> 0..(RequestLimit + 1)]
      /\ rateLock \in [Ips -> Nat \cup {None}]
  BY DEF TypeOK
<1>1. /\ windowStart' = [windowStart EXCEPT ![i] = StartOf(i)]
      /\ requests' = [requests EXCEPT ![i] = CountOf(i)]
      /\ rateLock' = [rateLock EXCEPT ![i] = None]
      /\ ~RateLocked(i) /\ now' = now /\ issueTimes' = issueTimes
  BY DEF RequestDenied, history
<1>2. StartOf(i) \in Nat /\ WindowInv(issueTimes[i], StartOf(i), CountOf(i), now)
  BY <1>1, WindowTypes, OpenWindow
<1>3. windowStart'[i] = StartOf(i) /\ requests'[i] = CountOf(i) /\ rateLock'[i] = None
  BY <1>0, <1>1
<1>4. InTime(issueTimes[i], 2 * RequestLimit + 1, now)
  BY DEF BurstInv
<1>5. BurstInv(i)'
  BY <1>1, <1>2, <1>3, <1>4 DEF BurstInv, None
<1>6. \A j \in Ips \ {i} : /\ rateLock'[j] = rateLock[j] /\ issueTimes'[j] = issueTimes[j]
                           /\ windowStart'[j] = windowStart[j] /\ requests'[j] = requests[j]
  BY <1>0, <1>1
<1> QED BY <1>1, <1>5, <1>6, OthersRest

\* The tables after a request that passed the locks.
LEMMA RequestedTables ==
    ASSUME TypeOK, RequestsLimited, NEW i \in Ips, Requested(i), NEW lock \in Nat \cup {None},
           rateLock' = [rateLock EXCEPT ![i] = lock]
    PROVE  /\ windowStart'[i] = IF now - StartOf(i) >= Window THEN now ELSE StartOf(i)
           /\ windowStart'[i] \in Nat
           /\ requests'[i] = RequestCount(i) /\ rateLock'[i] = lock
           /\ \A j \in Ips \ {i} : /\ rateLock'[j] = rateLock[j] /\ windowStart'[j] = windowStart[j]
                                   /\ requests'[j] = requests[j]
<1>0. /\ windowStart \in [Ips -> Nat \cup {None}] /\ requests \in [Ips -> 0..(RequestLimit + 1)]
      /\ rateLock \in [Ips -> Nat \cup {None}] /\ now \in Nat /\ StartOf(i) \in Nat
  BY WindowTypes DEF TypeOK
<1>1. /\ requests' = [requests EXCEPT ![i] = RequestCount(i)]
      /\ windowStart' = [windowStart EXCEPT ![i] =
                            IF now - StartOf(i) >= Window THEN now ELSE StartOf(i)]
  BY DEF Requested
<1> QED BY <1>0, <1>1

\* A request over the limit locks for LockTime from now on.
LEMMA LimitedKeeps ==
    ASSUME TypeOK, RequestsLimited, NEW i \in Ips, \A j \in Ips : BurstInv(j), RequestLimited(i)
    PROVE  (\A j \in Ips : BurstInv(j)') /\ issueTimes' = issueTimes
<1>0. now \in Nat /\ LockTime \in Nat /\ now + LockTime \in Nat /\ issueTimes[i] \in Seq(Nat)
  <2>1. now \in Nat /\ LockTime \in Nat /\ issueTimes[i] \in Seq(Nat)
    BY DurationsAssumption DEF TypeOK
  <2> QED BY <2>1
<1>1. /\ Requested(i) /\ rateLock' = [rateLock EXCEPT ![i] = now + LockTime]
      /\ now' = now /\ issueTimes' = issueTimes
  BY DEF RequestLimited, history
<1>2. /\ windowStart'[i] \in Nat /\ rateLock'[i] = now + LockTime
      /\ \A j \in Ips \ {i} : /\ rateLock'[j] = rateLock[j] /\ windowStart'[j] = windowStart[j]
                              /\ requests'[j] = requests[j]
  BY <1>0, <1>1, RequestedTables
<1>3. InTime(issueTimes[i], 2 * RequestLimit + 1, now)
  BY DEF BurstInv
<1>4. \A j \in 1 .. Len(issueTimes[i]) : issueTimes[i][j] + LockTime <= now + LockTime
  <2> SUFFICES ASSUME NEW j \in 1 .. Len(issueTimes[i])
               PROVE  issueTimes[i][j] + LockTime <= now + LockTime
    OBVIOUS
  <2>1. issueTimes[i][j] \in Nat /\ issueTimes[i][j] <= now
    BY <1>0, <1>3, ElementOfSeq DEF InTime
  <2> QED BY <1>0, <2>1
<1>5. BurstInv(i)'
  <2>1. windowStart'[i] # None /\ rateLock'[i] # None
    BY <1>0, <1>2 DEF None
  <2> QED BY <1>1, <1>2, <1>3, <1>4, <2>1 DEF BurstInv
<1> QED BY <1>1, <1>2, <1>5, OthersRest

\* A code is issued: it is counted in its window.
LEMMA IssuedKeeps ==
    ASSUME LockCoversWindow, TypeOK, RequestsLimited, NEW i \in Ips, \A j \in Ips : BurstInv(j),
           RequestIssued(i)
    PROVE  /\ \A j \in Ips : BurstInv(j)'
           /\ \A j \in Ips \ {i} : issueTimes'[j] = issueTimes[j]
           /\ Len(issueTimes'[i]) = 2 * RequestLimit + 1 =>
                  issueTimes'[i][2 * RequestLimit + 1] - issueTimes'[i][1] >= Window
<1> DEFINE log == issueTimes[i]
           s == IF now - StartOf(i) >= Window THEN now ELSE StartOf(i)
           c == RequestCount(i) - 1
           new == Logged(log, now, 2 * RequestLimit + 1)
<1>a. now \in Nat /\ log \in Seq(Nat) /\ issueTimes \in [Ips -> Seq(Nat)]
  BY DEF TypeOK
<1>b. RequestLimit \in Nat \ {0} /\ 2 * RequestLimit + 1 \in Nat \ {0}
  BY LimitsAssumption
<1>c. CountOf(i) \in 0 .. RequestLimit
  BY WindowTypes
<1>0. /\ now \in Nat /\ log \in Seq(Nat) /\ issueTimes \in [Ips -> Seq(Nat)]
      /\ RequestLimit \in Nat \ {0} /\ 2 * RequestLimit + 1 \in Nat \ {0}
      /\ CountOf(i) \in 0 .. RequestLimit
  BY <1>a, <1>b, <1>c
<1>1. /\ Requested(i) /\ RequestCount(i) <= RequestLimit /\ ~RateLocked(i)
      /\ rateLock' = [rateLock EXCEPT ![i] = None]
      /\ issueTimes' = [issueTimes EXCEPT ![i] = new] /\ now' = now
  BY DEF RequestIssued, Requested
<1>2. RequestCount(i) \in Nat \ {0} /\ c \in 0 .. (RequestLimit - 1) /\ c + 1 = RequestCount(i)
  <2>1. RequestCount(i) \in Nat \ {0}
    BY <1>0 DEF RequestCount
  <2> QED BY <1>0, <1>1, <2>1
<1>3. /\ windowStart'[i] = s /\ s \in Nat /\ requests'[i] = RequestCount(i) /\ rateLock'[i] = None
      /\ \A j \in Ips \ {i} : /\ rateLock'[j] = rateLock[j] /\ windowStart'[j] = windowStart[j]
                              /\ requests'[j] = requests[j]
  BY <1>1, RequestedTables
<1>4. WindowInv(log, s, c, now) /\ InTime(log, 2 * RequestLimit + 1, now)
  BY <1>1, RolledWindow DEF BurstInv
<1> HIDE DEF log, s, c
<1>5. /\ WindowInv(new, s, c + 1, now)
      /\ Len(new) = 2 * RequestLimit + 1 => new[2 * RequestLimit + 1] - new[1] >= Window
  BY <1>0, <1>2, <1>3, <1>4, IssueLogged
<1>6. InTime(new, 2 * RequestLimit + 1, now)
  BY <1>0, <1>4, LoggedInTime
<1> HIDE DEF new
<1>7. issueTimes'[i] = new /\ \A j \in Ips \ {i} : issueTimes'[j] = issueTimes[j]
  BY <1>0, <1>1
<1>8. BurstInv(i)'
  <2>1. windowStart'[i] # None
    BY <1>3 DEF None
  <2>2. WindowInv(new, s, requests'[i], now)
    BY <1>2, <1>3, <1>5
  <2> QED BY <1>1, <1>3, <1>6, <1>7, <2>1, <2>2 DEF BurstInv
<1>9. \A j \in Ips : BurstInv(j)'
  BY <1>1, <1>3, <1>7, <1>8, OthersRest
<1> QED BY <1>5, <1>7, <1>9

LEMMA InitBursts == Init => BurstsInv
<1> SUFFICES ASSUME Init PROVE BurstsInv
  OBVIOUS
<1>1. ASSUME NEW i \in Ips PROVE BurstInv(i) /\ Len(issueTimes[i]) = 0
  <2>1. /\ issueTimes[i] = <<>> /\ windowStart[i] = None /\ rateLock[i] = None
        /\ RequestLimit \in Nat /\ Len(issueTimes[i]) = 0
    BY LimitsAssumption DEF Init
  <2> QED BY <2>1 DEF BurstInv, InTime
<1>2. 2 * RequestLimit + 1 # 0
  BY LimitsAssumption
<1> QED BY <1>1, <1>2 DEF BurstsInv, BurstBounded

\* Every handler keeps the codes apart.
LEMMA StepBursts ==
    ASSUME LockCoversWindow, AuthInv, AuthInv', BurstsInv, [Next]_vars
    PROVE  BurstsInv'
<1>0. /\ TypeOK /\ RequestsLimited /\ BurstBounded /\ \A i \in Ips : BurstInv(i)
      /\ now \in Nat /\ now' \in Nat
  BY DEF AuthInv, BurstsInv, TypeOK
<1>1. ASSUME UNCHANGED <<rate, issueTimes>>, now' = now \/ now' = now + 1 PROVE BurstsInv'
  <2>1. \A i \in Ips : BurstInv(i)'
    BY <1>0, <1>1, BurstRests DEF rate
  <2>2. BurstBounded'
    BY <1>0, <1>1 DEF BurstBounded
  <2> QED BY <2>1, <2>2 DEF BurstsInv
<1>2. CASE UNCHANGED vars \/ Tick \/ \E i \in Ips : RequestRefused(i) \/ verify_otp(i)
  <2>1. UNCHANGED <<rate, issueTimes>> /\ (now' = now \/ now' = now + 1)
    BY <1>2 DEF vars, Tick, RequestRefused, verify_otp, VerifyRefused, VerifyFailed, VerifySucceeded,
                rate, history
  <2> QED BY <1>1, <2>1
<1>3. ASSUME NEW d \in SessionIds, ValidateExpired(d) \/ revoke_session(d) PROVE BurstsInv'
  <2>1. UNCHANGED <<rate, issueTimes>> /\ now' = now
    BY <1>3 DEF ValidateExpired, revoke_session, rate, history
  <2> QED BY <1>1, <2>1
<1>4. ASSUME NEW i \in Ips, RequestDenied(i) \/ RequestLimited(i) PROVE BurstsInv'
  <2>1. (\A j \in Ips : BurstInv(j)') /\ issueTimes' = issueTimes
    BY <1>0, <1>4, DeniedKeeps, LimitedKeeps
  <2>2. BurstBounded'
    BY <1>0, <2>1 DEF BurstBounded
  <2> QED BY <2>1, <2>2 DEF BurstsInv
<1>5. ASSUME NEW i \in Ips, RequestIssued(i) PROVE BurstsInv'
  <2>1. /\ \A j \in Ips : BurstInv(j)'
        /\ \A j \in Ips \ {i} : issueTimes'[j] = issueTimes[j]
        /\ Len(issueTimes'[i]) = 2 * RequestLimit + 1 =>
               issueTimes'[i][2 * RequestLimit + 1] - issueTimes'[i][1] >= Window
    BY <1>0, <1>5, IssuedKeeps
  <2>2. BurstBounded'
    BY <1>0, <2>1 DEF BurstBounded
  <2> QED BY <2>1, <2>2 DEF BurstsInv
<1> QED BY <1>2, <1>3, <1>4, <1>5 DEF Next, request_otp

\* For any limit and window, with a lock no shorter than the window: of any
\* 2 * request_limit_per_window + 1 codes request_otp issues to an address in a
\* row, the first and the last are request_window_seconds apart.
THEOREM BurstsAreBounded ==
    ASSUME LockCoversWindow
    PROVE  Spec => []BurstBounded
<1>1. BurstsInv => BurstBounded
  BY DEF BurstsInv
<1>2. AuthInv /\ AuthInv' /\ BurstsInv /\ [Next]_vars => BurstsInv'
  BY StepBursts
<1> QED BY InitAuth, StepAuth, InitBursts, <1>1, <1>2, PTL DEF Spec

=============================================================================
