--------------------------- MODULE OrderReconcile ---------------------------
(***************************************************************************)
(* OrderService.place_with_reconcile (app/orders/service.py) over a broker *)
(* reached through KiwoomOrderGateway (app/integrations/kiwoom/gateway.py).*)
(* Every call places its order at most twice.  The broker and the network  *)
(* are external: a request may be lost, may arrive after the client has    *)
(* given up on it, and its answer may be lost.  One action per point where *)
(* the coroutine is resumed from an await.                                 *)
(***************************************************************************)
EXTENDS Naturals, FiniteSets

CONSTANT Calls      \* invocations of place_with_reconcile

VARIABLES
    pc,      \* pc[c]: where the coroutine of call c waits
    att,     \* att[c]: the attempt in progress, `first' = 1 or `second' = 2
    ord,     \* ord[c][n]: attempt n's order as the network and broker have it
    known,   \* known[c]: attempts whose answer carried an order id
    ret,     \* ret[c]: "none" until c returns, then the result's ok flag
    rid,     \* rid[c]: the attempt whose order_id is in the result, or 0
    crit,    \* crit[c]: codes raised through safety.critical for call c
    misled   \* history: misled[c], attempts about which the status answer was untrue

vars == <<pc, att, ord, known, ret, rid, crit, misled>>

Attempts == {1, 2}
Live == {"accepted", "partial", "filled"}
Settled == {"cancelled", "rejected", "lost"}
Taken == Live \cup {"cancelled"}
AtBroker == Taken \cup {"rejected"}
Codes == {"order_place_exception", "order_retry_exception",
          "order_status_check_failed", "order_unresolved"}

Init ==
    /\ pc = [c \in Calls |-> "idle"]
    /\ att = [c \in Calls |-> 1]
    /\ ord = [c \in Calls |-> [n \in Attempts |-> "unsent"]]
    /\ known = [c \in Calls |-> {}]
    /\ ret = [c \in Calls |-> "none"]
    /\ rid = [c \in Calls |-> 0]
    /\ crit = [c \in Calls |-> {}]
    /\ misled = [c \in Calls |-> {}]

-----------------------------------------------------------------------------
(* The broker and the network.                                             *)

SetOrder(c, n, s) == ord' = [ord EXCEPT ![c][n] = s]

\* A request in flight reaches the broker, which takes or refuses it.
Arrive(c, n) ==
    /\ ord[c][n] = "flying"
    /\ \E s \in {"accepted", "rejected"} : SetOrder(c, n, s)
    /\ UNCHANGED <<pc, att, known, ret, rid, crit, misled>>

\* A request never reaches the broker, or the gateway refuses to send it.
Vanish(c, n) ==
    /\ ord[c][n] = "flying"
    /\ SetOrder(c, n, "lost")
    /\ UNCHANGED <<pc, att, known, ret, rid, crit, misled>>

\* The exchange works a live order.
Work(c, n) ==
    /\ \/ /\ ord[c][n] = "accepted"
          /\ \E s \in {"partial", "filled", "cancelled"} : SetOrder(c, n, s)
       \/ /\ ord[c][n] = "partial"
          /\ \E s \in {"filled", "cancelled"} : SetOrder(c, n, s)
    /\ UNCHANGED <<pc, att, known, ret, rid, crit, misled>>

-----------------------------------------------------------------------------
(* The coroutine.                                                          *)

Send(c, n) ==
    /\ pc' = [pc EXCEPT ![c] = "placing"]
    /\ att' = [att EXCEPT ![c] = n]
    /\ ord' = [ord EXCEPT ![c][n] = "flying"]

Return(c, ok, n) ==
    /\ pc' = [pc EXCEPT ![c] = "done"]
    /\ ret' = [ret EXCEPT ![c] = ok]
    /\ rid' = [rid EXCEPT ![c] = n]
    /\ UNCHANGED <<att, ord>>

Raise(c, codes) == crit' = [crit EXCEPT ![c] = @ \cup codes]

IdOf(c, n) == IF n \in known[c] THEN n ELSE 0

\* Mutant: the call keeps placing until something is accepted.
MutRetryForever(c, codes) ==
    /\ Send(c, 3 - att[c])
    /\ Raise(c, codes)
    /\ UNCHANGED <<ret, rid>>

\* The attempt failed and no order is known to be live: place once more,
\* or give up after the second attempt.  `codes' were raised on the way.
RetryOrGiveUp(c, codes) ==
    \/ /\ att[c] = 1
       /\ Send(c, 2)
       /\ Raise(c, codes)
       /\ UNCHANGED <<ret, rid>>
    \/ /\ att[c] = 2
       /\ Return(c, "failed", IdOf(c, 2))
       /\ Raise(c, codes \cup {"order_unresolved"})

Begin(c) ==
    /\ pc[c] = "idle"
    /\ Send(c, 1)
    /\ UNCHANGED <<known, ret, rid, crit, misled>>

\* place_order answers with code 0 and an order id.
PlaceOk(c) ==
    /\ pc[c] = "placing"
    /\ ord[c][att[c]] \in Taken
    /\ known' = [known EXCEPT ![c] = @ \cup {att[c]}]
    /\ Return(c, "ok", att[c])
    /\ UNCHANGED <<crit, misled>>

\* Mutant: an error that carries an id is handled like one that does not.
MutPlaceErrorWithId(c) ==
    /\ pc[c] = "placing"
    /\ ord[c][att[c]] \in AtBroker
    /\ known' = [known EXCEPT ![c] = @ \cup {att[c]}]
    /\ RetryOrGiveUp(c, {})
    /\ UNCHANGED misled

\* place_order answers with an error code and an order id: ask for its status.
PlaceErrorWithId(c) ==
    /\ pc[c] = "placing"
    /\ ord[c][att[c]] \in AtBroker
    /\ known' = [known EXCEPT ![c] = @ \cup {att[c]}]
    /\ pc' = [pc EXCEPT ![c] = "checking"]
    /\ UNCHANGED <<att, ord, ret, rid, crit, misled>>

\* place_order answers without an order id (refusal, or a body without one).
PlaceErrorNoId(c) ==
    /\ pc[c] = "placing"
    /\ ord[c][att[c]] \in AtBroker \cup {"lost"}
    /\ RetryOrGiveUp(c, {})
    /\ UNCHANGED <<known, misled>>

\* place_order raises: a transport error or a timeout, wherever the request is.
PlaceException(c) ==
    /\ pc[c] = "placing"
    /\ RetryOrGiveUp(c, {IF att[c] = 1 THEN "order_place_exception"
                                       ELSE "order_retry_exception"})
    /\ UNCHANGED <<known, misled>>

\* The answer just read about the attempt in progress was untrue.
Mislead(c, untrue) ==
    misled' = [misled EXCEPT ![c] = IF untrue THEN @ \cup {att[c]} ELSE @]

\* get_order_status answers with a row that reads accepted, partial or filled.
\* The gateway takes the first row whatever order it is about, and reads a row
\* without a status as accepted: the order asked about may have been rejected.
StatusLive(c) ==
    /\ pc[c] = "checking"
    /\ Return(c, "ok", att[c])
    /\ Mislead(c, ord[c][att[c]] \notin Taken)
    /\ UNCHANGED <<known, crit>>

\* Mutant: the status answer is taken for success without looking at it.
MutStatusNotLive(c) ==
    /\ pc[c] = "checking"
    /\ Return(c, "ok", att[c])
    /\ UNCHANGED <<known, crit, misled>>

\* get_order_status answers without a row, or with a row that reads otherwise.
\* The gateway reads every body without rows, an error's body too, as "not
\* found": the order asked about may well be live.
StatusNotLive(c) ==
    /\ pc[c] = "checking"
    /\ RetryOrGiveUp(c, {})
    /\ Mislead(c, ord[c][att[c]] \in Live)
    /\ UNCHANGED known

\* Mutant: a failed status query is reported as success.
MutStatusAssumedOk(c) ==
    /\ pc[c] = "checking"
    /\ Return(c, "ok", att[c])
    /\ UNCHANGED <<known, crit, misled>>

\* get_order_status raises: no retry, the id is returned with a failure.
StatusException(c) ==
    /\ pc[c] = "checking"
    /\ Return(c, "failed", att[c])
    /\ Raise(c, {"order_status_check_failed"})
    /\ UNCHANGED <<known, misled>>

-----------------------------------------------------------------------------
Resume(c) ==
    \/ PlaceOk(c) \/ PlaceErrorWithId(c) \/ PlaceErrorNoId(c)
    \/ PlaceException(c)
    \/ StatusLive(c) \/ StatusNotLive(c) \/ StatusException(c)

Broker(c) == \E n \in Attempts : Arrive(c, n) \/ Vanish(c, n) \/ Work(c, n)

Next == \E c \in Calls : Begin(c) \/ Resume(c) \/ Broker(c)

\* The event loop resumes a coroutine whose answer, error or timeout is there.
Spec == Init /\ [][Next]_vars /\ \A c \in Calls : WF_vars(Resume(c))

-----------------------------------------------------------------------------
\* Type correctness of the call's locals and of the broker's order table.
TypeOK ==
    /\ pc \in [Calls -> {"idle", "placing", "checking", "done"}]
    /\ att \in [Calls -> Attempts]
    /\ ord \in [Calls -> [Attempts -> Live \cup Settled \cup {"unsent", "flying"}]]
    /\ known \in [Calls -> SUBSET Attempts]
    /\ ret \in [Calls -> {"none", "ok", "failed"}]
    /\ rid \in [Calls -> {0, 1, 2}]
    /\ crit \in [Calls -> SUBSET Codes]
    /\ misled \in [Calls -> SUBSET Attempts]

\* A call that returns ok=True names an order the broker really took, unless
\* the row it read as that order's status said so untruly: no lost answer, late
\* arrival or failed query alone makes place_with_reconcile report an order that
\* was refused or never arrived, and even then the broker has given it an id.
OkIsBacked ==
    \A c \in Calls :
        ret[c] = "ok" => /\ rid[c] \in Attempts
                         /\ ord[c][rid[c]] \in AtBroker
                         /\ rid[c] \notin misled[c] => ord[c][rid[c]] \in Taken

\* What the status check buys: both orders of a call are live only if the first
\* answer had no id, or the answer to the check denied a live order (a body
\* without rows, an error's included, is read as "not found").
NoRetryOverKnownOrder ==
    \A c \in Calls :
        (\A n \in Attempts : ord[c][n] \in Live) => 1 \notin known[c] \ misled[c]

\* place_with_reconcile never fails silently: when it returns ok=False the
\* runtime has been told through safety.critical (and so halted).
FailureIsCritical ==
    \A c \in Calls :
        ret[c] = "failed" => crit[c] # {}

\* The strengthening that makes the three invariants above inductive: how far
\* a call has come fixes what its orders can be.
CallInv(c) ==
    /\ pc[c] = "idle" => /\ att[c] = 1 /\ ord[c][1] = "unsent"
                         /\ known[c] = {} /\ misled[c] = {}
    /\ pc[c] = "placing" => att[c] \notin known[c]
    /\ pc[c] = "checking" => att[c] \in known[c]
    /\ pc[c] = "done" <=> ret[c] # "none"
    /\ att[c] = 1 => ord[c][2] = "unsent" /\ 2 \notin known[c]
    /\ \A n \in known[c] : ord[c][n] \in AtBroker
    /\ (att[c] = 2 /\ 1 \in known[c] \ misled[c]) => ord[c][1] \in Settled
    /\ pc[c] # "done" => att[c] \notin misled[c]
    /\ att[c] = 1 => 2 \notin misled[c]
    /\ ret[c] = "ok" => /\ rid[c] \in Attempts
                        /\ ord[c][rid[c]] \in AtBroker
                        /\ rid[c] \notin misled[c] => ord[c][rid[c]] \in Taken
    /\ ret[c] = "failed" => crit[c] # {}

Inductive == TypeOK /\ \A c \in Calls : CallInv(c)

-----------------------------------------------------------------------------
(* Refinement: the caller's view of a call.                                *)

OutcomeOf(c) == IF ret[c] = "none" THEN "pending" ELSE ret[c]

TakenOf(c) == (IF ord[c][1] \in Taken THEN 1 ELSE 0)
            + (IF ord[c][2] \in Taken THEN 1 ELSE 0)

\* The call returned ok because of a status answer that was untrue.
Vouched(c) == ret[c] = "ok" /\ rid[c] \in misled[c]

Promise == INSTANCE OrderPromise WITH
    outcome <- [c \in Calls |-> OutcomeOf(c)],
    taken <- [c \in Calls |-> TakenOf(c)],
    warned <- [c \in Calls |-> crit[c] # {}],
    vouched <- [c \in Calls |-> Vouched(c)]

\* place_with_reconcile implements the promise TradingService and LoopARunner
\* build on: at most two orders, success only with one or on the word of an
\* untrue status answer, no silent failure, and a result that is final.
ImplementsPromise == Promise!PSpec

\* Every call returns once the gateway answers, raises or times out.
EveryCallReturns == \A c \in Calls : pc[c] = "placing" ~> pc[c] = "done"

\* The rule of the OrderService docstring ("When order placement fails, we
\* must check status before retry"), as its effect: one request never leaves
\* two live orders.  The code retries without a check when it has no id.
AtMostOneLiveOrder ==
    \A c \in Calls : ~ \A n \in Attempts : ord[c][n] \in Live

=============================================================================
