------------------------ MODULE OrderReconcileProofs ------------------------
(* Proofs about place_with_reconcile for every set of calls.               *)
EXTENDS OrderReconcile, TLAPS

\* Init establishes the invariant.
LEMMA InitInductive == Init => Inductive
BY SMTT(30) DEF Init, Inductive, TypeOK, CallInv, Attempts, Live, Settled, Taken, AtBroker, Codes

\* A step of call c leaves every other call as it is.
Others(c) == \A d \in Calls \ {c} :
    /\ pc'[d] = pc[d] /\ att'[d] = att[d] /\ ord'[d] = ord[d]
    /\ known'[d] = known[d] /\ ret'[d] = ret[d] /\ rid'[d] = rid[d]
    /\ crit'[d] = crit[d] /\ misled'[d] = misled[d]

\* The invariant of all calls follows from that of the call that moved.
LEMMA FrameCalls ==
    ASSUME Inductive, NEW c \in Calls, Others(c), TypeOK', CallInv(c)'
    PROVE  Inductive'
BY DEF Inductive, CallInv, Others

\* The retry-or-give-up tail keeps the invariant whenever the attempt that
\* failed has no id, is settled at the broker, or was denied untruly.
LEMMA RetryKeeps ==
    ASSUME Inductive, NEW c \in Calls, NEW codes \in SUBSET Codes,
           pc[c] \in {"placing", "checking"},
           NEW untrue \in BOOLEAN, Mislead(c, untrue),
           att[c] \in known[c] /\ ~untrue => ord[c][att[c]] \in Settled,
           RetryOrGiveUp(c, codes), UNCHANGED known
    PROVE  Inductive'
<1> USE DEF Attempts, Live, Settled, Taken, AtBroker, Codes
<1>1. Others(c)
  BY DEF Others, RetryOrGiveUp, Send, Return, Raise, Mislead, Inductive, TypeOK
<1>m. misled' \in [Calls -> SUBSET Attempts]
  BY DEF Mislead, Inductive, TypeOK
<1>2. CASE att[c] = 1
  <2>1. Send(c, 2) /\ Raise(c, codes) /\ UNCHANGED <<ret, rid>>
    BY <1>2 DEF RetryOrGiveUp
  <2>2. TypeOK'
    <3>1. ord' \in [Calls -> [Attempts -> Live \cup Settled \cup {"unsent", "flying"}]]
      BY <2>1 DEF Send, Inductive, TypeOK
    <3> QED BY <1>m, <2>1, <3>1 DEF Send, Raise, Inductive, TypeOK
  <2>3. CallInv(c)'
    BY <1>2, <2>1, SMTT(30) DEF Send, Raise, Mislead, Inductive, TypeOK, CallInv
  <2> QED BY <1>1, <2>2, <2>3, FrameCalls
<1>3. CASE att[c] = 2
  <2>1. Return(c, "failed", IdOf(c, 2)) /\ Raise(c, codes \cup {"order_unresolved"})
    BY <1>3 DEF RetryOrGiveUp
  <2>2. IdOf(c, 2) \in {0, 1, 2}
    BY DEF IdOf
  <2>3. TypeOK'
    BY <1>m, <2>1, <2>2 DEF Return, Raise, Inductive, TypeOK
  <2>4. CallInv(c)'
    <3>1. "order_unresolved" \in crit'[c]
      BY <2>1 DEF Raise, Inductive, TypeOK
    <3> QED BY <1>3, <2>1, <3>1, SMTT(30) DEF Return, Mislead, Inductive, TypeOK, CallInv
  <2> QED BY <1>1, <2>3, <2>4, FrameCalls
<1>4. att[c] \in {1, 2}
  BY DEF Inductive, TypeOK
<1> QED BY <1>2, <1>3, <1>4

\* Every step of the broker or of the coroutine preserves the invariant.
LEMMA StepKeeps == Inductive /\ [Next]_vars => Inductive'
<1> SUFFICES ASSUME Inductive, [Next]_vars PROVE Inductive'
    OBVIOUS
<1> USE DEF Attempts, Live, Settled, Taken, AtBroker, Codes
<1>0. CASE UNCHANGED vars
  BY <1>0 DEF vars, Inductive, TypeOK, CallInv
<1>1. ASSUME NEW c \in Calls, Begin(c) PROVE Inductive'
  <2>1. Others(c) /\ TypeOK'
    BY <1>1 DEF Begin, Send, Others, Inductive, TypeOK
  <2>2. CallInv(c)'
    BY <1>1 DEF Begin, Send, Inductive, TypeOK, CallInv
  <2> QED BY <2>1, <2>2, FrameCalls
<1>2. ASSUME NEW c \in Calls, Broker(c) PROVE Inductive'
  <2>1. PICK n \in Attempts : Arrive(c, n) \/ Vanish(c, n) \/ Work(c, n)
    BY <1>2 DEF Broker
  <2>2. PICK s \in Live \cup Settled : SetOrder(c, n, s)
    BY <2>1 DEF Arrive, Vanish, Work
  <2>3. UNCHANGED <<pc, att, known, ret, rid, crit, misled>>
    BY <2>1 DEF Arrive, Vanish, Work
  <2>4. Others(c) /\ TypeOK'
    BY <2>2, <2>3 DEF SetOrder, Others, Inductive, TypeOK
  <2>5. CallInv(c)'
    BY <2>1, SMTT(30) DEF Arrive, Vanish, Work, SetOrder, Inductive, TypeOK, CallInv
  <2> QED BY <2>4, <2>5, FrameCalls
<1>3. ASSUME NEW c \in Calls, PlaceOk(c) \/ StatusLive(c) PROVE Inductive'
  <2>1. Return(c, "ok", att[c]) /\ UNCHANGED crit
    BY <1>3 DEF PlaceOk, StatusLive
  <2>2. /\ known' \in [Calls -> SUBSET Attempts]
        /\ misled' \in [Calls -> SUBSET Attempts]
        /\ \A d \in Calls \ {c} : known'[d] = known[d] /\ misled'[d] = misled[d]
    BY <1>3 DEF PlaceOk, StatusLive, Mislead, Inductive, TypeOK
  <2>3. Others(c) /\ TypeOK'
    BY <2>1, <2>2 DEF Return, Others, Inductive, TypeOK
  <2>4. CallInv(c)'
    <3>1. CASE PlaceOk(c)
      BY <3>1, SMTT(30) DEF PlaceOk, Return, Inductive, TypeOK, CallInv
    <3>2. CASE StatusLive(c)
      BY <3>2, SMTT(30) DEF StatusLive, Mislead, Return, Inductive, TypeOK, CallInv
    <3> QED BY <1>3, <3>1, <3>2
  <2> QED BY <2>3, <2>4, FrameCalls
<1>4. ASSUME NEW c \in Calls, PlaceErrorWithId(c) PROVE Inductive'
  <2>1. Others(c) /\ TypeOK'
    BY <1>4 DEF PlaceErrorWithId, Others, Inductive, TypeOK
  <2>2. CallInv(c)'
    BY <1>4, SMTT(30) DEF PlaceErrorWithId, Inductive, TypeOK, CallInv
  <2> QED BY <2>1, <2>2, FrameCalls
<1>5. ASSUME NEW c \in Calls, PlaceErrorNoId(c) PROVE Inductive'
  <2>1. Mislead(c, FALSE)
    BY <1>5 DEF PlaceErrorNoId, Mislead, Inductive, TypeOK
  <2> QED BY <1>5, <2>1, RetryKeeps DEF PlaceErrorNoId, Inductive, CallInv
<1>6. ASSUME NEW c \in Calls, PlaceException(c) PROVE Inductive'
  <2>1. Mislead(c, FALSE)
    BY <1>6 DEF PlaceException, Mislead, Inductive, TypeOK
  <2> QED BY <1>6, <2>1, RetryKeeps DEF PlaceException, Inductive, CallInv
<1>7. ASSUME NEW c \in Calls, StatusNotLive(c) PROVE Inductive'
  <2>1. ord[c][att[c]] \notin Live => ord[c][att[c]] \in Settled
    BY <1>7 DEF StatusNotLive, Inductive, TypeOK, CallInv
  <2>2. PICK untrue \in BOOLEAN : untrue <=> ord[c][att[c]] \in Live
    OBVIOUS
  <2>3. Mislead(c, untrue)
    BY <1>7, <2>2 DEF StatusNotLive, Mislead
  <2> QED BY <1>7, <2>1, <2>2, <2>3, RetryKeeps DEF StatusNotLive
<1>8. ASSUME NEW c \in Calls, StatusException(c) PROVE Inductive'
  <2>1. Others(c) /\ TypeOK'
    BY <1>8 DEF StatusException, Return, Raise, Others, Inductive, TypeOK
  <2>2. CallInv(c)'
    BY <1>8, SMTT(30) DEF StatusException, Return, Raise, Inductive, TypeOK, CallInv
  <2> QED BY <2>1, <2>2, FrameCalls
<1> QED BY <1>0, <1>1, <1>2, <1>3, <1>4, <1>5, <1>6, <1>7, <1>8 DEF Next, Resume

\* The local state of every call and the broker's table keep their types.
THEOREM TypeCorrect == Spec => []TypeOK
<1>1. Inductive => TypeOK
  BY DEF Inductive
<1> QED BY InitInductive, StepKeeps, <1>1, PTL DEF Spec

\* A success reported by place_with_reconcile names an order the broker took,
\* unless the status row it was read from was untrue.
THEOREM OkBacked == Spec => []OkIsBacked
<1>1. Inductive => OkIsBacked
  BY DEF Inductive, CallInv, OkIsBacked, AtBroker
<1> QED BY InitInductive, StepKeeps, <1>1, PTL DEF Spec

\* The retry doubles an order whose id the first answer carried only when the
\* status answer denied a live order, as the gateway lets an error body do.
THEOREM NoDoubling == Spec => []NoRetryOverKnownOrder
<1>1. Inductive => NoRetryOverKnownOrder
  BY DEF Inductive, TypeOK, CallInv, NoRetryOverKnownOrder, Attempts, Live, Settled
<1> QED BY InitInductive, StepKeeps, <1>1, PTL DEF Spec

\* place_with_reconcile never returns a failure without a critical event.
THEOREM NoSilentFailure == Spec => []FailureIsCritical
<1>1. Inductive => FailureIsCritical
  BY DEF Inductive, CallInv, FailureIsCritical
<1> QED BY InitInductive, StepKeeps, <1>1, PTL DEF Spec

-----------------------------------------------------------------------------
(* Refinement.                                                             *)

\* A step that keeps a call's orders, or only works them, keeps its count.
LEMMA CountKept ==
    ASSUME NEW d \in Calls,
           \A n \in Attempts : ord'[d][n] \in Taken <=> ord[d][n] \in Taken
    PROVE  TakenOf(d)' = TakenOf(d)
<1>1. ord'[d][1] \in Taken <=> ord[d][1] \in Taken
  BY DEF Attempts
<1>2. ord'[d][2] \in Taken <=> ord[d][2] \in Taken
  BY DEF Attempts
<1> QED BY <1>1, <1>2 DEF TakenOf, Taken

\* The initial states of a call are those of the promise.
LEMMA InitPromise == Init => Promise!PInit
<1> SUFFICES ASSUME Init PROVE Promise!PInit
    OBVIOUS
<1>1. \A c \in Calls : OutcomeOf(c) = "pending"
  BY DEF Init, OutcomeOf
<1>2. \A c \in Calls : TakenOf(c) = 0
  <2>1. \A c \in Calls : ord[c][1] \notin Taken /\ ord[c][2] \notin Taken
    BY DEF Init, Taken, Live, Attempts
  <2> QED BY <2>1 DEF TakenOf
<1>3. \A c \in Calls : (crit[c] # {}) = FALSE
  BY DEF Init
<1>4. \A c \in Calls : Vouched(c) = FALSE
  BY DEF Init, Vouched
<1> QED BY <1>1, <1>2, <1>3, <1>4 DEF Promise!PInit

\* A step that neither returns, nor takes an order, nor raises is a stutter.
LEMMA StutterStep ==
    ASSUME UNCHANGED <<ret, crit>>, \A d \in Calls : TakenOf(d)' = TakenOf(d),
           \A d \in Calls : Vouched(d)' = Vouched(d)
    PROVE  UNCHANGED Promise!pvars
BY DEF Promise!pvars, OutcomeOf

\* A step of call c that does not end it with ok vouches for nothing.
LEMMA NotVouched ==
    ASSUME NEW c \in Calls, Others(c), ret[c] # "ok", ret'[c] # "ok"
    PROVE  \A d \in Calls : Vouched(d)' = Vouched(d)
BY DEF Others, Vouched

\* Returning ok is the promise's Succeed: an order was taken, or the status
\* answer was untrue.
LEMMA SucceedStep ==
    ASSUME Inductive, NEW c \in Calls, pc[c] \in {"placing", "checking"},
           NEW untrue \in BOOLEAN, ~untrue => ord[c][att[c]] \in Taken,
           Return(c, "ok", att[c]), Mislead(c, untrue), UNCHANGED crit
    PROVE  Promise!Succeed(c)
<1>1. ret[c] = "none" /\ att[c] \in Attempts /\ att[c] \notin misled[c]
  BY DEF Inductive, TypeOK, CallInv
<1>2. \A d \in Calls : TakenOf(d)' = TakenOf(d)
  BY DEF Return, TakenOf
<1>3. \A d \in Calls : Vouched(d)' = (IF d = c THEN untrue ELSE Vouched(d))
  BY <1>1 DEF Return, Mislead, Vouched, Inductive, TypeOK
<1>4. [d \in Calls |-> OutcomeOf(d)]' = [[d \in Calls |-> OutcomeOf(d)] EXCEPT ![c] = "ok"]
  BY <1>1 DEF Return, OutcomeOf, Inductive, TypeOK
<1>5. \/ TakenOf(c) > 0 /\ [d \in Calls |-> Vouched(d)]' = [d \in Calls |-> Vouched(d)]
      \/ [d \in Calls |-> Vouched(d)]' = [[d \in Calls |-> Vouched(d)] EXCEPT ![c] = TRUE]
  <2>1. CASE untrue
    BY <1>3, <2>1
  <2>2. CASE ~untrue
    <3>1. TakenOf(c) > 0
      BY <1>1, <2>2 DEF TakenOf, Attempts
    <3>2. Vouched(c) = FALSE
      BY <1>1 DEF Vouched
    <3> QED BY <1>3, <2>2, <3>1, <3>2
  <2> QED BY <2>1, <2>2
<1> QED BY <1>1, <1>2, <1>4, <1>5 DEF Promise!Succeed, OutcomeOf

\* Giving up is the promise's Fail; a first failure is a Warn or a stutter.
LEMMA RetryStep ==
    ASSUME Inductive, NEW c \in Calls, NEW codes \in SUBSET Codes,
           pc[c] \in {"placing", "checking"}, RetryOrGiveUp(c, codes),
           UNCHANGED known, NEW untrue \in BOOLEAN, Mislead(c, untrue)
    PROVE  Promise!Warn(c) \/ Promise!Fail(c) \/ UNCHANGED Promise!pvars
<1>0. ret[c] = "none" /\ att[c] \in {1, 2}
  BY DEF Inductive, TypeOK, CallInv, Attempts
<1>v. \A d \in Calls : Vouched(d)' = Vouched(d)
  <2>1. Others(c)
    BY DEF Others, RetryOrGiveUp, Send, Return, Raise, Mislead, Inductive, TypeOK
  <2>2. ret'[c] # "ok"
    BY <1>0 DEF RetryOrGiveUp, Return, Inductive, TypeOK
  <2> QED BY <1>0, <2>1, <2>2, NotVouched
<1>1. CASE att[c] = 1
  <2>1. UNCHANGED ret /\ Raise(c, codes) /\ Send(c, 2)
    BY <1>1 DEF RetryOrGiveUp
  <2>2. \A d \in Calls : TakenOf(d)' = TakenOf(d)
    <3>1. ord[c][2] = "unsent"
      BY <1>1 DEF Inductive, CallInv
    <3>2. \A d \in Calls : \A n \in Attempts : ord'[d][n] \in Taken <=> ord[d][n] \in Taken
      BY <2>1, <3>1 DEF Send, Inductive, TypeOK, Attempts, Taken, Live
    <3> QED BY <3>2, CountKept
  <2>3. CASE codes = {}
    <3>1. UNCHANGED crit
      BY <2>1, <2>3 DEF Raise, Inductive, TypeOK
    <3> QED BY <1>v, <2>1, <2>2, <3>1, StutterStep
  <2>4. CASE codes # {}
    <3>1. [d \in Calls |-> crit[d] # {}]' = [[d \in Calls |-> crit[d] # {}] EXCEPT ![c] = TRUE]
      BY <2>1, <2>4 DEF Raise, Inductive, TypeOK
    <3> QED BY <1>0, <1>v, <2>1, <2>2, <3>1 DEF Promise!Warn, OutcomeOf
  <2> QED BY <2>3, <2>4
<1>2. CASE att[c] = 2
  <2>1. Return(c, "failed", IdOf(c, 2)) /\ Raise(c, codes \cup {"order_unresolved"})
    BY <1>2 DEF RetryOrGiveUp
  <2>2. [d \in Calls |-> crit[d] # {}]' = [[d \in Calls |-> crit[d] # {}] EXCEPT ![c] = TRUE]
    BY <2>1 DEF Raise, Inductive, TypeOK
  <2>3. [d \in Calls |-> OutcomeOf(d)]' = [[d \in Calls |-> OutcomeOf(d)] EXCEPT ![c] = "failed"]
    BY <1>0, <2>1 DEF Return, OutcomeOf, Inductive, TypeOK
  <2>4. \A d \in Calls : TakenOf(d)' = TakenOf(d)
    BY <2>1 DEF Return, TakenOf
  <2> QED BY <1>0, <1>v, <2>2, <2>3, <2>4 DEF Promise!Fail, OutcomeOf
<1> QED BY <1>0, <1>1, <1>2

\* What the broker does to an order is a Take or invisible.
LEMMA BrokerStep ==
    ASSUME Inductive, NEW c \in Calls, Broker(c)
    PROVE  Promise!Take(c) \/ UNCHANGED Promise!pvars
<1>1. PICK n \in Attempts : Arrive(c, n) \/ Vanish(c, n) \/ Work(c, n)
  BY DEF Broker
<1>2. UNCHANGED <<ret, crit>> /\ \A d \in Calls : Vouched(d)' = Vouched(d)
  BY <1>1 DEF Arrive, Vanish, Work, Vouched
<1>3. CASE \A d \in Calls : \A m \in Attempts : ord'[d][m] \in Taken <=> ord[d][m] \in Taken
  BY <1>2, <1>3, CountKept, StutterStep
<1>4. CASE ord[c][n] = "flying" /\ SetOrder(c, n, "accepted")
  <2>1. TakenOf(c) < 2 /\ TakenOf(c)' = TakenOf(c) + 1
    BY <1>4 DEF SetOrder, TakenOf, Attempts, Taken, Live, Inductive, TypeOK
  <2>2. \A d \in Calls \ {c} : TakenOf(d)' = TakenOf(d)
    BY <1>4 DEF SetOrder, TakenOf, Inductive, TypeOK
  <2>3. [d \in Calls |-> TakenOf(d)]' = [[d \in Calls |-> TakenOf(d)] EXCEPT ![c] = @ + 1]
    BY <2>1, <2>2
  <2> QED BY <1>2, <2>1, <2>3 DEF Promise!Take, OutcomeOf
<1>5. \/ ord[c][n] = "flying" /\ SetOrder(c, n, "accepted")
      \/ \A d \in Calls : \A m \in Attempts : ord'[d][m] \in Taken <=> ord[d][m] \in Taken
  BY <1>1, SMTT(60) DEF Arrive, Vanish, Work, SetOrder, Inductive, TypeOK, Taken, Live
<1> QED BY <1>3, <1>4, <1>5

\* place_with_reconcile implements OrderPromise: its initial states and every
\* one of its steps are steps of the promise or leave it unchanged.
THEOREM Refinement == Spec => ImplementsPromise
<1>1. Inductive /\ [Next]_vars => [Promise!PNext]_(Promise!pvars)
  <2> SUFFICES ASSUME Inductive, [Next]_vars
               PROVE  Promise!PNext \/ UNCHANGED Promise!pvars
    OBVIOUS
  <2>0. CASE UNCHANGED vars
    BY <2>0 DEF vars, Promise!pvars, OutcomeOf, TakenOf, Vouched
  <2>1. ASSUME NEW c \in Calls, Begin(c) PROVE UNCHANGED Promise!pvars
    <3>1. \A d \in Calls : \A n \in Attempts : ord'[d][n] \in Taken <=> ord[d][n] \in Taken
      BY <2>1 DEF Begin, Send, Inductive, TypeOK, CallInv, Taken, Live, Attempts
    <3>2. UNCHANGED <<ret, crit>> /\ \A d \in Calls : Vouched(d)' = Vouched(d)
      BY <2>1 DEF Begin, Vouched
    <3> QED BY <3>1, <3>2, CountKept, StutterStep
  <2>2. ASSUME NEW c \in Calls, Broker(c) PROVE Promise!Take(c) \/ UNCHANGED Promise!pvars
    BY <2>2, BrokerStep
  <2>3. ASSUME NEW c \in Calls, PlaceOk(c) \/ StatusLive(c) PROVE Promise!Succeed(c)
    <3>1. CASE PlaceOk(c)
      <4>1. Mislead(c, FALSE)
        BY <3>1 DEF PlaceOk, Mislead, Inductive, TypeOK
      <4> QED BY <3>1, <4>1, SucceedStep DEF PlaceOk
    <3>2. CASE StatusLive(c)
      <4>1. PICK untrue \in BOOLEAN : untrue <=> ord[c][att[c]] \notin Taken
        OBVIOUS
      <4>2. Mislead(c, untrue)
        BY <3>2, <4>1 DEF StatusLive, Mislead
      <4> QED BY <3>2, <4>1, <4>2, SucceedStep DEF StatusLive
    <3> QED BY <2>3, <3>1, <3>2
  <2>4. ASSUME NEW c \in Calls, PlaceErrorWithId(c) PROVE UNCHANGED Promise!pvars
    BY <2>4, StutterStep DEF PlaceErrorWithId, TakenOf, Vouched
  <2>5. ASSUME NEW c \in Calls, PlaceErrorNoId(c) \/ PlaceException(c) \/ StatusNotLive(c)
        PROVE  Promise!Warn(c) \/ Promise!Fail(c) \/ UNCHANGED Promise!pvars
    <3>1. UNCHANGED misled => Mislead(c, FALSE)
      BY DEF Mislead, Inductive, TypeOK
    <3>2. CASE PlaceErrorNoId(c)
      BY <3>1, <3>2, RetryStep DEF PlaceErrorNoId, Codes
    <3>3. CASE PlaceException(c)
      BY <3>1, <3>3, RetryStep DEF PlaceException, Codes
    <3>4. CASE StatusNotLive(c)
      <4>1. PICK untrue \in BOOLEAN : untrue <=> ord[c][att[c]] \in Live
        OBVIOUS
      <4>2. Mislead(c, untrue)
        BY <3>4, <4>1 DEF StatusNotLive, Mislead
      <4> QED BY <3>4, <4>2, RetryStep DEF StatusNotLive, Codes
    <3> QED BY <2>5, <3>2, <3>3, <3>4
  <2>6. ASSUME NEW c \in Calls, StatusException(c) PROVE Promise!Fail(c)
    <3>1. ret[c] = "none" /\ Return(c, "failed", att[c])
      BY <2>6 DEF StatusException, Inductive, CallInv, TypeOK
    <3>2. [d \in Calls |-> crit[d] # {}]' = [[d \in Calls |-> crit[d] # {}] EXCEPT ![c] = TRUE]
      BY <2>6 DEF StatusException, Raise, Inductive, TypeOK
    <3>3. [d \in Calls |-> OutcomeOf(d)]' = [[d \in Calls |-> OutcomeOf(d)] EXCEPT ![c] = "failed"]
      BY <3>1 DEF Return, OutcomeOf, Inductive, TypeOK
    <3>4. \A d \in Calls : TakenOf(d)' = TakenOf(d)
      BY <3>1 DEF Return, TakenOf
    <3>5. \A d \in Calls : Vouched(d)' = Vouched(d)
      <4>1. Others(c)
        BY <2>6 DEF StatusException, Return, Raise, Others, Inductive, TypeOK
      <4> QED BY <3>1, <4>1, NotVouched DEF Return, Inductive, TypeOK
    <3> QED BY <3>1, <3>2, <3>3, <3>4, <3>5 DEF Promise!Fail, OutcomeOf
  <2> QED BY <2>0, <2>1, <2>2, <2>3, <2>4, <2>5, <2>6 DEF Next, Resume, Promise!PNext
<1> QED BY InitInductive, InitPromise, StepKeeps, <1>1, PTL DEF Spec, ImplementsPromise, Promise!PSpec

=============================================================================
