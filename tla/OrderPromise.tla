---------------------------- MODULE OrderPromise ----------------------------
(***************************************************************************)
(* What a caller of OrderService.place_with_reconcile may rely on, without *)
(* attempts, ids or status queries: at most two orders are ever taken by   *)
(* the broker for one call, success is reported only after one was or on   *)
(* the word of an untrue status answer, and a failure is never reported    *)
(* without a critical event.  OrderReconcile implements it; TradingLoop    *)
(* uses an order call in this form, with status answers that are true.     *)
(***************************************************************************)
EXTENDS Naturals

CONSTANT Calls

VARIABLES
    outcome,   \* outcome[c]: "pending", then the ok flag of the result
    taken,     \* taken[c]: number of orders of c the broker took
    warned,    \* warned[c]: a critical event was raised for c
    vouched    \* vouched[c]: success rests on an untrue status answer alone

pvars == <<outcome, taken, warned, vouched>>

PInit ==
    /\ outcome = [c \in Calls |-> "pending"]
    /\ taken = [c \in Calls |-> 0]
    /\ warned = [c \in Calls |-> FALSE]
    /\ vouched = [c \in Calls |-> FALSE]

\* The broker takes an order of c, possibly after c has returned.
Take(c) ==
    /\ taken[c] < 2
    /\ taken' = [taken EXCEPT ![c] = @ + 1]
    /\ UNCHANGED <<outcome, warned, vouched>>

Warn(c) ==
    /\ outcome[c] = "pending"
    /\ warned' = [warned EXCEPT ![c] = TRUE]
    /\ UNCHANGED <<outcome, taken, vouched>>

Succeed(c) ==
    /\ outcome[c] = "pending"
    /\ \/ taken[c] > 0 /\ UNCHANGED vouched
       \/ vouched' = [vouched EXCEPT ![c] = TRUE]
    /\ outcome' = [outcome EXCEPT ![c] = "ok"]
    /\ UNCHANGED <<taken, warned>>

Fail(c) ==
    /\ outcome[c] = "pending"
    /\ outcome' = [outcome EXCEPT ![c] = "failed"]
    /\ warned' = [warned EXCEPT ![c] = TRUE]
    /\ UNCHANGED <<taken, vouched>>

PNext == \E c \in Calls : Take(c) \/ Warn(c) \/ Succeed(c) \/ Fail(c)

PSpec == PInit /\ [][PNext]_pvars

=============================================================================
