----------------------------- MODULE TradingLoop -----------------------------
(***************************************************************************)
(* Loop A: LoopARunner.run_once (app/loops/loop_a_runtime.py) with         *)
(* TradingService, PositionStateMachine and OrderingRepository, executed   *)
(* by every coroutine that can be inside LoopRuntimeCoordinator.run_cycle: *)
(* the background task and the requests that run a cycle themselves.  An   *)
(* order call is used in the form of OrderPromise.  The coroutines share   *)
(* one event loop, so one action runs from an await to the next.           *)
(*                                                                         *)
(* Quantities are in half shares (a position is 2), prices in half won.    *)
(***************************************************************************)
EXTENDS PositionMachine, Sequences, FiniteSets

CONSTANTS
    Runners,    \* coroutines that may run a cycle
    Signals,    \* signals loop B can produce; a position is named by its signal
    Sides,      \* the sides strategies give their signals: "buy", "sell"
    Entry,      \* signal.price of every signal
    Prices,     \* current prices the market data may show
    Gaps,       \* values of ATR x trail_atr_mult between two looks
    Faults,     \* which failures happen: see FaultKinds
    Live,       \* the trading modes to look at: TRUE is live, FALSE is paper
    MaxSold     \* bound on what the broker sells for one position

FaultKinds == {"reply",    \* the answer to an accepted order is lost
               "db",       \* a commit raises SQLAlchemyError
               "cancel",   \* LoopBackgroundRunner.stop() cancels the task
               "crash",    \* the process dies and is started again
               "price",    \* no price can be read
               "operator"} \* pause and resume commands arrive

ASSUME FaultsAssumption == Faults \subseteq FaultKinds
ASSUME SidesAssumption == Sides \subseteq {"buy", "sell"}
ASSUME EntryAssumption == Entry \in Nat
ASSUME PricesAssumption == Prices \subseteq Nat /\ Gaps \subseteq Nat

VARIABLES
    fresh,    \* signals loop B has not produced yet
    queue,    \* InMemorySignalQueue.items
    side,     \* side[s]: the side of a produced signal
    pos,      \* the positions table, a row per signal
    bought,   \* quantity the broker bought, per signal
    sold,     \* quantity the broker sold, per signal
    market,   \* the current price
    runtime,  \* RuntimeState: entry_paused, all_paused, halted; live: the gateway in use
    pc,       \* pc[r]: where runner r is suspended
    cur,      \* cur[r]: the signal or position r has an order open for
    todo,     \* todo[r]: positions r's loop has still to look at
    snap,     \* snap[r]: the detached rows list_open_positions gave r
    trans,    \* trans[r]: the Transition r decided on
    taken     \* taken[r]: orders the broker took in r's order call

broker == <<bought, sold>>
vars == <<fresh, queue, side, pos, bought, sold, market, runtime,
          pc, cur, todo, snap, trans, taken>>

NoRow == [state |-> "NONE", rem |-> 0, stop |-> 0, tp |-> 0,
          high |-> None, trail |-> None]
NoTransition == [state |-> "NONE", qty |-> 0, high |-> None, trail |-> None]
Running(live) == [entry |-> FALSE, all |-> FALSE, halted |-> FALSE, live |-> live]
Halted == [runtime EXCEPT !.entry = TRUE, !.all = TRUE, !.halted = TRUE]

Init ==
    /\ fresh = Signals
    /\ queue = <<>>
    /\ side = [s \in Signals |-> "buy"]
    /\ pos = [s \in Signals |-> NoRow]
    /\ bought = [s \in Signals |-> 0]
    /\ sold = [s \in Signals |-> 0]
    /\ market \in Prices
    /\ runtime \in {Running(live) : live \in Live}
    /\ pc = [r \in Runners |-> "idle"]
    /\ cur = [r \in Runners |-> None]
    /\ todo = [r \in Runners |-> {}]
    /\ snap = [r \in Runners |-> pos]
    /\ trans = [r \in Runners |-> NoTransition]
    /\ taken = [r \in Runners |-> 0]

-----------------------------------------------------------------------------
(* The repository.                                                         *)

\* build_stop_take_profit with atr = max(1% of the price, 1), x1.5 and x2.
StopGap == 3
TpGap == 4
StopPrice == Larger(Entry - StopGap, 0)

open_position(s) ==
    [pos EXCEPT ![s] = [state |-> "OPEN", rem |-> 2, stop |-> StopPrice,
                        tp |-> Entry + TpGap, high |-> Entry, trail |-> None]]

\* Mutant: the remaining quantity is not reduced.
MutApplyTransition(s, t) ==
    [pos EXCEPT ![s] = [@ EXCEPT !.state = t.state, !.high = t.high, !.trail = t.trail]]

apply_transition(s, t) ==
    [pos EXCEPT ![s] = [pos[s] EXCEPT !.state = t.state, !.high = t.high, !.trail = t.trail,
                                      !.rem = Larger(@ - t.qty, 0)]]

\* Mutant: only rows in state OPEN are listed.
MutListOpen(table) == {s \in Signals : table[s].state = "OPEN"}

list_open_positions(table) == {s \in Signals : table[s].state \notin {"NONE", "CLOSED"}}

\* KiwoomOrderGateway sends ord_qty = int(qty); PaperOrderGateway fills qty.
GatewayQty(q) == IF runtime.live THEN (q \div 2) * 2 ELSE q

-----------------------------------------------------------------------------
(* RuntimeState and RuntimeSafetyManager.critical.                         *)

critical == runtime' = Halted

PauseEntry ==
    /\ "operator" \in Faults
    /\ runtime' = [runtime EXCEPT !.entry = TRUE, !.all = FALSE]
    /\ UNCHANGED <<fresh, queue, side, pos, broker, market, pc, cur, todo, snap, trans, taken>>

PauseAll ==
    /\ "operator" \in Faults
    /\ runtime' = [runtime EXCEPT !.entry = TRUE, !.all = TRUE]
    /\ UNCHANGED <<fresh, queue, side, pos, broker, market, pc, cur, todo, snap, trans, taken>>

Resume ==
    /\ "operator" \in Faults
    /\ runtime' = Running(runtime.live)
    /\ UNCHANGED <<fresh, queue, side, pos, broker, market, pc, cur, todo, snap, trans, taken>>

-----------------------------------------------------------------------------
(* The control of one runner.                                              *)

\* The cycle goes on without loop A; the coroutine is between two cycles.
EndLoopA(r) ==
    /\ pc' = [pc EXCEPT ![r] = "idle"]
    /\ cur' = [cur EXCEPT ![r] = None]
    /\ todo' = [todo EXCEPT ![r] = {}]
    /\ snap' = [snap EXCEPT ![r] = [s \in Signals |-> NoRow]]
    /\ trans' = [trans EXCEPT ![r] = NoTransition]
    /\ taken' = [taken EXCEPT ![r] = 0]

\* _monitor_positions_once: the rows are read once, then looked at one by one.
StartMonitor(r, table) ==
    LET open == list_open_positions(table)
    IN  /\ pc' = [pc EXCEPT ![r] = IF open = {} THEN "idle" ELSE "pricing"]
        /\ cur' = [cur EXCEPT ![r] = None]
        /\ todo' = [todo EXCEPT ![r] = open]
        /\ snap' = [snap EXCEPT ![r] = [s \in Signals |-> IF s \in open THEN table[s] ELSE NoRow]]
        /\ trans' = [trans EXCEPT ![r] = NoTransition]
        /\ taken' = [taken EXCEPT ![r] = 0]

\* The rows may also fail to load: positions_query_failed ends loop A.
MonitorPositions(r, table, alarmed) ==
    \/ /\ StartMonitor(r, table)
       /\ runtime' = IF alarmed THEN Halted ELSE runtime
    \/ /\ "db" \in Faults
       /\ EndLoopA(r)
       /\ critical

\* The loop moves on to the next position of its list.
NextPosition(r, s) ==
    LET rest == todo[r] \ {s}
    IN  /\ pc' = [pc EXCEPT ![r] = IF rest = {} THEN "idle" ELSE "pricing"]
        /\ cur' = [cur EXCEPT ![r] = None]
        /\ todo' = [todo EXCEPT ![r] = rest]
        /\ snap' = [snap EXCEPT ![r][s] = NoRow]
        /\ trans' = [trans EXCEPT ![r] = NoTransition]
        /\ taken' = [taken EXCEPT ![r] = 0]

\* An order call begins; the runner waits for place_with_reconcile.
StartOrder(r, where, s, t) ==
    /\ pc' = [pc EXCEPT ![r] = where]
    /\ cur' = [cur EXCEPT ![r] = s]
    /\ trans' = [trans EXCEPT ![r] = t]
    /\ taken' = [taken EXCEPT ![r] = 0]

\* After critical(): the alert is awaited before the positions are listed.
AwaitAlert(r) ==
    /\ pc' = [pc EXCEPT ![r] = "alerting"]
    /\ cur' = [cur EXCEPT ![r] = None]
    /\ trans' = [trans EXCEPT ![r] = NoTransition]
    /\ taken' = [taken EXCEPT ![r] = 0]
    /\ UNCHANGED <<todo, snap>>

-----------------------------------------------------------------------------
(* Loop B's part and the world.                                            *)

put_many(s) ==
    /\ s \in fresh
    /\ fresh' = fresh \ {s}
    /\ \E d \in Sides : side' = [side EXCEPT ![s] = d]
    /\ queue' = Append(queue, s)
    /\ UNCHANGED <<pos, broker, market, runtime, pc, cur, todo, snap, trans, taken>>

MarketMoves ==
    /\ \E p \in Prices \ {market} : market' = p
    /\ UNCHANGED <<fresh, queue, side, pos, broker, runtime, pc, cur, todo, snap, trans, taken>>

\* The broker takes the order of r's call.  Nobody in the program reads the
\* broker's book, so an order taken only after the call ended is taken here.
BrokerTakes(r) ==
    /\ taken[r] < IF "reply" \in Faults THEN 2 ELSE 1
    /\ taken' = [taken EXCEPT ![r] = @ + 1]
    /\ \/ /\ pc[r] = "entering"
          /\ side[cur[r]] = "buy"
          /\ bought' = [bought EXCEPT ![cur[r]] = @ + GatewayQty(2)]
          /\ UNCHANGED sold
       \/ LET q == GatewayQty(IF pc[r] = "entering" THEN 2 ELSE trans[r].qty)
          IN  /\ pc[r] = "closing" \/ (pc[r] = "entering" /\ side[cur[r]] = "sell")
              /\ q > 0
              /\ sold[cur[r]] + q <= MaxSold
              /\ sold' = [sold EXCEPT ![cur[r]] = @ + q]
              /\ UNCHANGED bought
    /\ UNCHANGED <<fresh, queue, side, pos, market, runtime, pc, cur, todo, snap, trans>>

-----------------------------------------------------------------------------
(* One cycle of loop A.                                                    *)

\* Mutant: the signal is looked at but not removed from the queue.
MutStartCycle(r) ==
    /\ pc[r] = "idle"
    /\ \/ /\ queue = <<>>
          /\ MonitorPositions(r, pos, FALSE)
       \/ /\ queue # <<>>
          /\ StartOrder(r, "entering", Head(queue), NoTransition)
          /\ UNCHANGED <<todo, snap, runtime>>
    /\ UNCHANGED <<fresh, queue, side, pos, broker, market>>

\* _consume_signal_once: pop_one, create_signal, and the entry order call.
StartCycle(r) ==
    /\ pc[r] = "idle"
    /\ \/ /\ queue = <<>>
          /\ MonitorPositions(r, pos, FALSE)
          /\ UNCHANGED queue
       \/ /\ queue # <<>>
          /\ queue' = Tail(queue)
          /\ \/ /\ StartOrder(r, "entering", Head(queue), NoTransition)
                /\ UNCHANGED <<todo, snap, runtime>>
             \/ /\ "db" \in Faults
                /\ AwaitAlert(r)
                /\ critical
    /\ UNCHANGED <<fresh, side, pos, broker, market>>

\* The entry order succeeded: create_order and open_position are committed.
EntryOk(r) ==
    /\ pc[r] = "entering"
    /\ taken[r] > 0
    /\ \/ /\ pos' = open_position(cur[r])
          /\ MonitorPositions(r, pos', FALSE)
       \/ /\ "db" \in Faults          \* a commit fails: signal_execute_failed
          /\ AwaitAlert(r)
          /\ critical
          /\ UNCHANGED pos
    /\ UNCHANGED <<fresh, queue, side, broker, market>>

\* Mutant: the position is opened whatever the order's result.
MutEntryFailed(r) ==
    /\ pc[r] = "entering"
    /\ taken[r] = 0 \/ "reply" \in Faults
    /\ pos' = open_position(cur[r])
    /\ MonitorPositions(r, pos', TRUE)
    /\ UNCHANGED <<fresh, queue, side, broker, market>>

\* The entry order failed: place_with_reconcile has already raised, the order
\* is recorded as rejected and the positions are listed.
EntryFailed(r) ==
    /\ pc[r] = "entering"
    /\ taken[r] = 0 \/ "reply" \in Faults
    /\ \/ MonitorPositions(r, pos, TRUE)
       \/ /\ "db" \in Faults
          /\ AwaitAlert(r)
          /\ critical
    /\ UNCHANGED <<fresh, queue, side, pos, broker, market>>

AlertSent(r) ==
    /\ pc[r] = "alerting"
    /\ MonitorPositions(r, pos, FALSE)
    /\ UNCHANGED <<fresh, queue, side, pos, broker, market>>

\* DbPriceProvider: the close of the newest stored candle, of any age, or 0.0.
StoredCloses == Prices \cup {0}

\* What the price provider returns: the market's price, or what is stored.
ReadablePrices == IF "price" \in Faults THEN StoredCloses ELSE {market}

\* The transition only moves the high or the trailing stop, or nothing.
KeepOpen(r, s, t) ==
    LET moved == t.high # snap[r][s].high \/ t.trail # snap[r][s].trail
    IN  /\ t.qty = 0
        /\ NextPosition(r, s)
        /\ \/ ~moved /\ UNCHANGED <<pos, runtime>>
           \/ moved /\ pos' = apply_transition(s, t) /\ UNCHANGED runtime
           \/ moved /\ "db" \in Faults /\ critical /\ UNCHANGED pos

Decide(r) ==
    /\ pc[r] = "pricing"
    /\ \E s \in todo[r], p \in ReadablePrices, gap \in Gaps :
          LET t == decide(snap[r][s], p, gap)
          IN  \/ KeepOpen(r, s, t)
              \/ /\ "db" \in Faults       \* positions_session_failed
                 /\ NextPosition(r, s)
                 /\ critical
                 /\ UNCHANGED pos
              \/ /\ t.qty > 0
                 /\ StartOrder(r, "closing", s, t)
                 /\ UNCHANGED <<pos, runtime, todo, snap>>
    /\ UNCHANGED <<fresh, queue, side, broker, market>>

\* The close order succeeded: create_order and apply_transition.
CloseOk(r) ==
    /\ pc[r] = "closing"
    /\ taken[r] > 0
    /\ NextPosition(r, cur[r])
    /\ \/ /\ pos' = apply_transition(cur[r], trans[r])
          /\ UNCHANGED runtime
       \/ /\ "db" \in Faults          \* position_update_failed
          /\ critical
          /\ UNCHANGED pos
    /\ UNCHANGED <<fresh, queue, side, broker, market>>

\* Mutant: the transition is applied although the close order failed.
MutCloseFailed(r) ==
    /\ pc[r] = "closing"
    /\ taken[r] = 0 \/ "reply" \in Faults
    /\ NextPosition(r, cur[r])
    /\ pos' = apply_transition(cur[r], trans[r])
    /\ critical
    /\ UNCHANGED <<fresh, queue, side, broker, market>>

\* The close order failed: close_order_failed, the row stays as it is.
CloseFailed(r) ==
    /\ pc[r] = "closing"
    /\ taken[r] = 0 \/ "reply" \in Faults
    /\ NextPosition(r, cur[r])
    /\ critical
    /\ UNCHANGED <<fresh, queue, side, pos, broker, market>>

\* stop() cancels the task inside its await.  CancelledError is caught by no
\* handler of loop A: nothing is recorded and no alert is raised.
Cancel(r) ==
    /\ "cancel" \in Faults
    /\ pc[r] # "idle"
    /\ EndLoopA(r)
    /\ UNCHANGED <<fresh, queue, side, pos, broker, market, runtime>>

\* The process dies; the queue and RuntimeState are only in memory.
Crash ==
    /\ "crash" \in Faults
    /\ queue' = <<>>
    /\ runtime' = Running(runtime.live)
    /\ pc' = [r \in Runners |-> "idle"]
    /\ cur' = [r \in Runners |-> None]
    /\ todo' = [r \in Runners |-> {}]
    /\ snap' = [r \in Runners |-> [s \in Signals |-> NoRow]]
    /\ trans' = [r \in Runners |-> NoTransition]
    /\ taken' = [r \in Runners |-> 0]
    /\ UNCHANGED <<fresh, side, pos, broker, market>>

-----------------------------------------------------------------------------
Step(r) ==
    \/ StartCycle(r) \/ EntryOk(r) \/ EntryFailed(r) \/ AlertSent(r)
    \/ Decide(r) \/ CloseOk(r) \/ CloseFailed(r)

Next ==
    \/ \E s \in Signals : put_many(s)
    \/ MarketMoves
    \/ PauseEntry \/ PauseAll \/ Resume
    \/ \E r \in Runners : Step(r) \/ BrokerTakes(r) \/ Cancel(r)
    \/ Crash

Spec == Init /\ [][Next]_vars

\* The event loop resumes every coroutine, and the broker does not refuse
\* every order for ever.
FairSpec ==
    /\ Spec
    /\ \A r \in Runners :
          /\ WF_vars(Step(r))
          /\ SF_vars(BrokerTakes(r) /\ pc[r] = "closing")

-----------------------------------------------------------------------------
Rank == [NONE |-> 0, OPEN |-> 1, HALF_CLOSED |-> 2, CLOSED |-> 3]

\* An order call of some runner is open for s.
Ordering(s) == \E r \in Runners : cur[r] = s

\* With one runner and no failures the positions table is the broker's book:
\* what is still to be sold is what was bought and not sold.
BookMatchesBroker ==
    \A s \in Signals : ~Ordering(s) => pos[s].rem = bought[s] - sold[s]

\* Whatever fails, and however many cycles overlap, the table never claims
\* more sold than the broker sold: apply_transition follows a taken order.
RecordedIsSold ==
    \A s \in Signals : pos[s].state # "NONE" => 2 - pos[s].rem <= sold[s]

\* A row exists only for an entry order the broker took.
PositionIsBacked ==
    \A s \in Signals : pos[s].state # "NONE" => bought[s] + sold[s] > 0

\* A signal is executed by one runner, once: overlapping cycles never pop the
\* same signal, and an executing signal is neither queued nor a position yet.
EntryOnce ==
    \A r \in Runners : pc[r] = "entering" =>
        /\ \A q \in Runners \ {r} : pc[q] = "entering" => cur[q] # cur[r]
        /\ pos[cur[r]].state = "NONE"
        /\ \A i \in 1..Len(queue) : queue[i] # cur[r]

\* OPEN -> HALF_CLOSED -> CLOSED: a row's state never moves back, and the high
\* that its trailing stop follows never falls.
StateMovesForward ==
    [][\A s \in Signals :
          /\ Rank[pos[s].state] <= Rank[pos'[s].state]
          /\ pos[s].high <= pos'[s].high]_vars

\* No position stays for ever at a price that must sell it: an OPEN one at or
\* under its stop, a half-closed one as far under its high as the widest trail.
\* (decide does not look at the stop of a half-closed row: when the ATR has
\* widened the trail, the second half may stay open under the stop for ever.)
StopLossHappens ==
    \A s \in Signals :
        ~ <>[](\/ pos[s].state = "OPEN" /\ market <= pos[s].stop
               \/ /\ pos[s].state = "HALF_CLOSED"
                  /\ \A gap \in Gaps : market <= pos[s].high - gap)

\* With the paper gateway no position stays OPEN if the price stays at or over
\* the take profit price.  (KiwoomOrderGateway sends int(0.5) = 0 shares for
\* half of the one share an entry buys: the live half close never happens.)
TakeProfitHappens ==
    (~runtime.live /\ <>[](market >= Entry + TpGap)) =>
        <>[](\A s \in Signals : pos[s].state # "OPEN")

=============================================================================
