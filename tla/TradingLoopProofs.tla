-------------------------- MODULE TradingLoopProofs --------------------------
(* Loop A, for any number of overlapping cycles, signals, prices and every *)
(* combination of failures: what a row of the positions table stands for;  *)
(* and, when cycles never overlap, how the rows move.                      *)
EXTENDS TradingLoop, TLAPS

Places == {"idle", "entering", "alerting", "pricing", "closing"}
Ordered == {"entering", "closing"}
Positions == {"OPEN", "HALF_CLOSED", "CLOSED"}
Rows == [state : {"NONE"} \cup Positions, rem : 0 .. 2, stop : Int, tp : Int,
         high : Int, trail : Int]
Transitions == [state : {"NONE"} \cup Positions, qty : 0 .. 2, high : Int, trail : Int]

\* The table, the broker's book, the queue and the runners.
LoopType ==
    /\ fresh \in SUBSET Signals
    /\ queue \in Seq(Signals)
    /\ side \in [Signals -> {"buy", "sell"}]
    /\ pos \in [Signals -> Rows]
    /\ bought \in [Signals -> Nat] /\ sold \in [Signals -> Nat]
    /\ market \in Prices
    /\ pc \in [Runners -> Places]
    /\ cur \in [Runners -> Signals \cup {None}]
    /\ todo \in [Runners -> SUBSET Signals]
    /\ snap \in [Runners -> [Signals -> Rows]]
    /\ trans \in [Runners -> Transitions]
    /\ taken \in [Runners -> 0 .. 2]

\* A signal is at one place: not produced yet, once in the queue, executing in
\* one runner, or a position.
SignalInv ==
    /\ \A s \in fresh : pos[s].state = "NONE"
    /\ \A i \in 1 .. Len(queue) :
          /\ queue[i] \notin fresh /\ pos[queue[i]].state = "NONE"
          /\ \A j \in 1 .. Len(queue) : queue[i] = queue[j] => i = j
          /\ \A r \in Runners : pc[r] = "entering" => cur[r] # queue[i]

\* What the broker took for the signal, for every row of the table.
BackedInv ==
    \A s \in Signals :
        /\ pos[s].state = "NONE" => pos[s].rem = 0
        /\ pos[s].state # "NONE" => /\ bought[s] + sold[s] > 0
                                    /\ 2 - pos[s].rem <= sold[s]

\* A runner's order and the rows it still looks at.  A sale the broker took is
\* one the table does not show yet.
RunnerInv ==
    \A r \in Runners :
        /\ \A s \in todo[r] : pos[s].state # "NONE" /\ snap[r][s].state \in {"OPEN", "HALF_CLOSED"}
        /\ pc[r] = "entering" =>
              /\ cur[r] \in Signals /\ cur[r] \notin fresh /\ pos[cur[r]].state = "NONE"
              /\ taken[r] > 0 => bought[cur[r]] + sold[cur[r]] > 0
        /\ pc[r] = "closing" =>
              /\ cur[r] \in todo[r]
              /\ trans[r].state \in Positions /\ trans[r].qty > 0
              /\ taken[r] > 0 => \/ sold[cur[r]] >= 2
                                 \/ sold[cur[r]] >= 2 - pos[cur[r]].rem + trans[r].qty

\* Two runners with the same position open have sold all of it.
OverlapInv ==
    \A r, q \in Runners : (r # q /\ cur[r] = cur[q]) =>
        /\ ~(pc[r] = "entering" /\ pc[q] = "entering")
        /\ (pc[r] = "closing" /\ pc[q] = "closing" /\ taken[r] > 0 /\ taken[q] > 0)
              => sold[cur[r]] >= 2

TradeInv == LoopType /\ SignalInv /\ BackedInv /\ RunnerInv /\ OverlapInv

-----------------------------------------------------------------------------
(* Cycles that never overlap.                                              *)

OneRunner == \A r, q \in Runners : r = q
NoFailures == Faults = {} /\ Sides \subseteq {"buy"}

\* The high the trailing stop follows: none, the entry price, or above zero.
InOrder(row) ==
    /\ row.state = "NONE" => row.high = None
    /\ row.state = "OPEN" => row.high = Entry /\ row.tp = Entry + TpGap
    /\ row.state = "HALF_CLOSED" => row.high > 0

\* The detached rows are the table's, and a transition moves its row forward.
CurrentInv ==
    /\ \A s \in Signals : InOrder(pos[s])
    /\ \A r \in Runners :
          /\ \A s \in todo[r] : snap[r][s] = pos[s]
          /\ pc[r] = "closing" =>
                /\ trans[r].qty <= pos[cur[r]].rem
                /\ trans[r].high >= pos[cur[r]].high
                /\ trans[r].state \in {"HALF_CLOSED", "CLOSED"}
                /\ trans[r].state = "HALF_CLOSED" =>
                      pos[cur[r]].state \in {"OPEN", "HALF_CLOSED"} /\ trans[r].high > 0

\* What the broker holds of a signal, while an order for it is open too.
BookInv ==
    /\ \A s \in Signals :
          /\ side[s] = "buy"
          /\ (\A r \in Runners : pc[r] \in Ordered => cur[r] # s) => pos[s].rem = bought[s] - sold[s]
    /\ \A r \in Runners :
          /\ taken[r] \in 0 .. 1
          /\ pc[r] = "entering" => bought[cur[r]] - sold[cur[r]] = 2 * taken[r]
          /\ pc[r] = "closing" => bought[cur[r]] - sold[cur[r]] =
                                    pos[cur[r]].rem - (IF taken[r] = 0 THEN 0 ELSE trans[r].qty)

-----------------------------------------------------------------------------
(* The operators of the repository and the state machine.                  *)

\* What PositionStateMachine.decide returns for a row.
LEMMA DecideFacts ==
    ASSUME NEW row \in Rows, NEW p \in Nat, NEW gap \in Nat
    PROVE  /\ decide(row, p, gap) \in Transitions
           /\ decide(row, p, gap).qty <= row.rem
           /\ row.state \in {"OPEN", "HALF_CLOSED"} => decide(row, p, gap).state \in Positions
           /\ decide(row, p, gap).qty > 0 => decide(row, p, gap).state \in Positions
<1> USE DEF Rows, Positions, Transitions
<1>1. CASE row.state = "OPEN"
  BY <1>1 DEF decide, DecideOpen, Keep
<1>2. CASE row.state = "HALF_CLOSED"
  BY <1>2 DEF decide, DecideHalf, Larger, HighOr
<1>3. CASE row.state \notin {"OPEN", "HALF_CLOSED"}
  BY <1>3 DEF decide, Keep
<1> QED BY <1>1, <1>2, <1>3

\* What apply_transition does to the table.
LEMMA ApplyFacts ==
    ASSUME LoopType, NEW s \in Signals, NEW t \in Transitions
    PROVE  /\ apply_transition(s, t) \in [Signals -> Rows]
           /\ \A u \in Signals \ {s} : apply_transition(s, t)[u] = pos[u]
           /\ apply_transition(s, t)[s].state = t.state
           /\ apply_transition(s, t)[s].rem = Larger(pos[s].rem - t.qty, 0)
           /\ apply_transition(s, t)[s].high = t.high
           /\ apply_transition(s, t)[s].tp = pos[s].tp
<1> DEFINE row == [pos[s] EXCEPT !.state = t.state, !.high = t.high, !.trail = t.trail,
                                 !.rem = Larger(@ - t.qty, 0)]
<1>1. pos[s] \in Rows /\ Larger(pos[s].rem - t.qty, 0) \in 0 .. 2
  BY DEF LoopType, Rows, Transitions, Larger
<1>2. /\ row \in Rows
      /\ row.state = t.state /\ row.rem = Larger(pos[s].rem - t.qty, 0)
      /\ row.high = t.high /\ row.tp = pos[s].tp
  BY <1>1 DEF Rows, Transitions
<1>3. apply_transition(s, t) = [pos EXCEPT ![s] = row]
  BY DEF apply_transition
<1> HIDE DEF row
<1> QED BY <1>2, <1>3 DEF LoopType

\* What open_position does to the table.
LEMMA OpenFacts ==
    ASSUME LoopType, NEW s \in Signals
    PROVE  /\ open_position(s) \in [Signals -> Rows]
           /\ \A u \in Signals \ {s} : open_position(s)[u] = pos[u]
           /\ open_position(s)[s].state = "OPEN" /\ open_position(s)[s].rem = 2
           /\ open_position(s)[s].high = Entry /\ open_position(s)[s].tp = Entry + TpGap
BY EntryAssumption DEF open_position, LoopType, Rows, Positions, StopPrice, StopGap, TpGap,
                       Larger, None

\* The gateway sends all of a quantity or, live, none of a half share.
LEMMA GatewayFacts ==
    ASSUME NEW q \in 0 .. 2
    PROVE  GatewayQty(q) \in {0, q} /\ GatewayQty(2) = 2
<1>1. (0 \div 2) * 2 = 0 /\ (1 \div 2) * 2 = 0 /\ (2 \div 2) * 2 = 2
  OBVIOUS
<1>2. q = 0 \/ q = 1 \/ q = 2
  OBVIOUS
<1> QED BY <1>1, <1>2 DEF GatewayQty

-----------------------------------------------------------------------------
(* Types.                                                                  *)

\* The blank row and transition of a runner between two orders.
LEMMA NoRowTypes == NoRow \in Rows /\ NoTransition \in Transitions
BY DEF NoRow, NoTransition, Rows, Transitions, Positions, None

\* The ways a runner leaves an order call or a position.
Leaves(r) ==
    \/ EndLoopA(r) \/ StartMonitor(r, pos') \/ AwaitAlert(r)
    \/ \E s \in Signals : NextPosition(r, s)

\* It keeps the types,
LEMMA LeavesType ==
    ASSUME LoopType, NEW r \in Runners, UNCHANGED <<fresh, side, bought, sold, market>>,
           queue' \in Seq(Signals), pos' \in [Signals -> Rows], Leaves(r)
    PROVE  LoopType'
<1> USE NoRowTypes DEF Places, LoopType
<1>1. CASE EndLoopA(r)
  BY <1>1 DEF EndLoopA
<1>2. CASE StartMonitor(r, pos')
  BY <1>2 DEF StartMonitor, list_open_positions
<1>3. CASE AwaitAlert(r)
  BY <1>3 DEF AwaitAlert
<1>4. ASSUME NEW s \in Signals, NextPosition(r, s) PROVE LoopType'
  BY <1>4 DEF NextPosition
<1> QED BY <1>1, <1>2, <1>3, <1>4 DEF Leaves

\* has no order open then, and looks at rows it has just read or already had.
LEMMA LeavesFacts ==
    ASSUME LoopType, NEW r \in Runners, pos' \in [Signals -> Rows], Leaves(r)
    PROVE  /\ pc'[r] \notin Ordered /\ taken'[r] = 0
           /\ \A q \in Runners \ {r} :
                /\ pc'[q] = pc[q] /\ cur'[q] = cur[q] /\ todo'[q] = todo[q]
                /\ snap'[q] = snap[q] /\ trans'[q] = trans[q] /\ taken'[q] = taken[q]
           /\ \A s \in todo'[r] :
                \/ pos'[s].state \notin {"NONE", "CLOSED"} /\ snap'[r][s] = pos'[s]
                \/ s \in todo[r] /\ snap'[r][s] = snap[r][s]
<1> USE DEF Ordered, LoopType
<1>1. CASE EndLoopA(r)
  BY <1>1 DEF EndLoopA
<1>2. CASE StartMonitor(r, pos')
  BY <1>2 DEF StartMonitor, list_open_positions
<1>3. CASE AwaitAlert(r)
  BY <1>3 DEF AwaitAlert
<1>4. ASSUME NEW s \in Signals, NextPosition(r, s)
      PROVE  /\ pc'[r] \notin Ordered /\ taken'[r] = 0
             /\ \A q \in Runners \ {r} :
                  /\ pc'[q] = pc[q] /\ cur'[q] = cur[q] /\ todo'[q] = todo[q]
                  /\ snap'[q] = snap[q] /\ trans'[q] = trans[q] /\ taken'[q] = taken[q]
             /\ \A u \in todo'[r] : u \in todo[r] /\ snap'[r][u] = snap[r][u]
  BY <1>4 DEF NextPosition
<1> QED BY <1>1, <1>2, <1>3, <1>4 DEF Leaves

\* The changes of the table a leaving runner may make.
Recorded(r, s) ==
    \/ pos'[s] = pos[s]
    \/ /\ pos[s].state # "NONE" /\ pos'[s].state \in Positions /\ pos'[s].rem = pos[s].rem
    \/ /\ pc[r] = "entering" /\ cur[r] = s /\ taken[r] > 0
       /\ pos'[s].state = "OPEN" /\ pos'[s].rem = 2
    \/ /\ pc[r] = "closing" /\ cur[r] = s /\ taken[r] > 0
       /\ pos'[s].state \in Positions /\ pos'[s].rem = Larger(pos[s].rem - trans[r].qty, 0)

\* The invariant does not depend on who overlaps with a runner that records
\* the outcome of its order.
LEMMA LeavesInv ==
    ASSUME TradeInv, NEW r \in Runners, Leaves(r), LoopType',
           UNCHANGED <<fresh, queue, side, bought, sold>>,
           \A s \in Signals : Recorded(r, s)
    PROVE  TradeInv'
<1>t. LoopType /\ pos' \in [Signals -> Rows]
  BY DEF TradeInv, LoopType
<1>f. /\ pc'[r] \notin Ordered /\ taken'[r] = 0
      /\ \A q \in Runners \ {r} :
           /\ pc'[q] = pc[q] /\ cur'[q] = cur[q] /\ todo'[q] = todo[q]
           /\ snap'[q] = snap[q] /\ trans'[q] = trans[q] /\ taken'[q] = taken[q]
      /\ \A s \in todo'[r] :
           \/ pos'[s].state \notin {"NONE", "CLOSED"} /\ snap'[r][s] = pos'[s]
           \/ s \in todo[r] /\ snap'[r][s] = snap[r][s]
  BY <1>t, LeavesFacts
<1>r. \A s \in Signals : pos[s] \in Rows /\ pos'[s] \in Rows
  BY <1>t DEF LoopType
<1>k. \A q \in Runners : trans[q].qty \in 0 .. 2 /\ trans[q] \in Transitions
  BY <1>t DEF LoopType, Transitions
<1>n. \A s \in Signals :
          /\ pos[s].state # "NONE" => pos'[s].state # "NONE"
          /\ (pos[s].state = "NONE" /\ pos'[s] # pos[s]) =>
                pc[r] = "entering" /\ cur[r] = s /\ taken[r] > 0 /\ pos'[s].state = "OPEN" /\ pos'[s].rem = 2
  <2> SUFFICES ASSUME NEW s \in Signals
               PROVE  /\ pos[s].state # "NONE" => pos'[s].state # "NONE"
                      /\ (pos[s].state = "NONE" /\ pos'[s] # pos[s]) =>
                           /\ pc[r] = "entering" /\ cur[r] = s /\ taken[r] > 0
                           /\ pos'[s].state = "OPEN" /\ pos'[s].rem = 2
      OBVIOUS
  <2>1. pc[r] = "closing" /\ cur[r] = s => pos[s].state # "NONE"
    BY DEF TradeInv, RunnerInv
  <2> QED BY <2>1 DEF Recorded, Positions
<1>1. SignalInv'
  <2>1. ASSUME NEW s \in fresh PROVE pos'[s].state = "NONE"
    <3>1. s \in Signals /\ pos[s].state = "NONE"
      BY <1>t DEF TradeInv, SignalInv, LoopType
    <3>2. ~(pc[r] = "entering" /\ cur[r] = s)
      BY DEF TradeInv, RunnerInv
    <3> QED BY <1>n, <3>1, <3>2
  <2>2. ASSUME NEW i \in 1 .. Len(queue) PROVE pos'[queue[i]].state = "NONE"
    <3>1. queue[i] \in Signals
      BY <1>t DEF LoopType
    <3> QED BY <1>n, <3>1 DEF TradeInv, SignalInv
  <2>3. \A q \in Runners : pc'[q] = "entering" => pc[q] = "entering" /\ cur'[q] = cur[q]
    BY <1>f DEF Ordered
  <2> QED BY <2>1, <2>2, <2>3 DEF TradeInv, SignalInv
<1>2. BackedInv'
  <2> SUFFICES ASSUME NEW s \in Signals
               PROVE  /\ pos'[s].state = "NONE" => pos'[s].rem = 0
                      /\ pos'[s].state # "NONE" => /\ bought[s] + sold[s] > 0
                                                   /\ 2 - pos'[s].rem <= sold[s]
      BY DEF BackedInv
  <2>0. sold[s] \in Nat /\ bought[s] \in Nat /\ pos[s].rem \in 0 .. 2 /\ pos'[s].rem \in 0 .. 2
    BY <1>t, <1>r DEF LoopType, Rows
  <2>1. CASE pos'[s] = pos[s]
    BY <2>1 DEF TradeInv, BackedInv
  <2>2. CASE pos[s].state # "NONE" /\ pos'[s].state \in Positions /\ pos'[s].rem = pos[s].rem
    BY <2>2 DEF TradeInv, BackedInv, Positions
  <2>3. CASE /\ pc[r] = "entering" /\ cur[r] = s /\ taken[r] > 0
             /\ pos'[s].state = "OPEN" /\ pos'[s].rem = 2
    BY <2>0, <2>3 DEF TradeInv, RunnerInv
  <2>4. CASE /\ pc[r] = "closing" /\ cur[r] = s /\ taken[r] > 0
             /\ pos'[s].state \in Positions /\ pos'[s].rem = Larger(pos[s].rem - trans[r].qty, 0)
    <3>1. /\ pos[s].state # "NONE" /\ bought[s] + sold[s] > 0 /\ 2 - pos[s].rem <= sold[s]
          /\ sold[s] >= 2 \/ sold[s] >= 2 - pos[s].rem + trans[r].qty
      BY <2>4, <1>t DEF TradeInv, RunnerInv, BackedInv, LoopType
    <3> QED BY <1>k, <2>0, <2>4, <3>1 DEF Larger, Positions
  <2> QED BY <2>1, <2>2, <2>3, <2>4 DEF Recorded
<1>3. RunnerInv'
  <2>1. ASSUME NEW q \in Runners, NEW s \in todo'[q]
        PROVE  pos'[s].state # "NONE" /\ snap'[q][s].state \in {"OPEN", "HALF_CLOSED"}
    <3>1. s \in Signals
      BY <2>1 DEF LoopType
    <3>2. CASE q # r
      BY <1>f, <1>n, <2>1, <3>1, <3>2 DEF TradeInv, RunnerInv
    <3>3. CASE q = r
      BY <1>f, <1>n, <1>r, <2>1, <3>1, <3>3 DEF TradeInv, RunnerInv, Rows, Positions
    <3> QED BY <3>2, <3>3
  <2>2. ASSUME NEW q \in Runners, pc'[q] = "entering"
        PROVE  /\ cur'[q] \in Signals /\ cur'[q] \notin fresh /\ pos'[cur'[q]].state = "NONE"
               /\ taken'[q] > 0 => bought[cur'[q]] + sold[cur'[q]] > 0
    <3>1. q # r /\ pc[q] = "entering" /\ cur'[q] = cur[q] /\ taken'[q] = taken[q]
      BY <1>f, <2>2 DEF Ordered
    <3> QED BY <1>n, <3>1 DEF TradeInv, RunnerInv, OverlapInv
  <2>3. ASSUME NEW q \in Runners, pc'[q] = "closing"
        PROVE  /\ cur'[q] \in todo'[q]
               /\ trans'[q].state \in Positions /\ trans'[q].qty > 0
               /\ taken'[q] > 0 => \/ sold[cur'[q]] >= 2
                                   \/ sold[cur'[q]] >= 2 - pos'[cur'[q]].rem + trans'[q].qty
    <3>1. /\ q # r /\ pc[q] = "closing" /\ cur'[q] = cur[q] /\ taken'[q] = taken[q]
          /\ trans'[q] = trans[q] /\ todo'[q] = todo[q]
      BY <1>f, <2>3 DEF Ordered
    <3>2. /\ cur[q] \in todo[q] /\ trans[q].state \in Positions /\ trans[q].qty > 0
          /\ taken[q] > 0 => \/ sold[cur[q]] >= 2
                             \/ sold[cur[q]] >= 2 - pos[cur[q]].rem + trans[q].qty
          /\ cur[q] \in Signals /\ pos[cur[q]].state # "NONE"
      BY <1>t, <3>1 DEF TradeInv, RunnerInv, LoopType
    <3>3. ASSUME taken[q] > 0
          PROVE  \/ sold[cur[q]] >= 2
                 \/ sold[cur[q]] >= 2 - pos'[cur[q]].rem + trans[q].qty
      <4>1. CASE pos'[cur[q]].rem = pos[cur[q]].rem
        BY <3>2, <3>3, <4>1
      <4>2. CASE pc[r] = "entering" /\ cur[r] = cur[q]
        BY <3>2, <4>2 DEF TradeInv, RunnerInv
      <4>3. CASE pc[r] = "closing" /\ cur[r] = cur[q] /\ taken[r] > 0
        BY <3>1, <3>3, <4>3 DEF TradeInv, OverlapInv
      <4> QED BY <3>2, <4>1, <4>2, <4>3 DEF Recorded
    <3> QED BY <3>1, <3>2, <3>3
  <2> QED BY <2>1, <2>2, <2>3 DEF RunnerInv
<1>4. OverlapInv'
  <2>1. \A q \in Runners : pc'[q] \in Ordered =>
             q # r /\ pc'[q] = pc[q] /\ cur'[q] = cur[q] /\ taken'[q] = taken[q]
    BY <1>f
  <2> QED BY <2>1 DEF TradeInv, OverlapInv, Ordered
<1> QED BY <1>1, <1>2, <1>3, <1>4 DEF TradeInv

-----------------------------------------------------------------------------
(* The steps, whoever overlaps and whatever fails.                         *)

\* The program starts with empty tables and nobody in a cycle.
LEMMA InitTrade == Init => TradeInv
<1> SUFFICES ASSUME Init PROVE TradeInv
    OBVIOUS
<1>1. LoopType
  BY NoRowTypes DEF Init, LoopType, Places
<1>2. SignalInv /\ BackedInv /\ RunnerInv /\ OverlapInv
  BY DEF Init, SignalInv, BackedInv, RunnerInv, OverlapInv, NoRow
<1> QED BY <1>1, <1>2 DEF TradeInv

\* Loop B produces a signal, which was nowhere before.
LEMMA StepPut ==
    ASSUME TradeInv, NEW s \in Signals, put_many(s)
    PROVE  TradeInv'
<1>0. LoopType
  BY DEF TradeInv
<1>1. /\ s \in fresh /\ fresh' = fresh \ {s} /\ queue' = Append(queue, s)
      /\ UNCHANGED <<pos, bought, sold, market, pc, cur, todo, snap, trans, taken>>
      /\ side' \in [Signals -> {"buy", "sell"}]
  BY <1>0, SidesAssumption DEF put_many, broker, LoopType
<1>2. LoopType'
  BY <1>0, <1>1 DEF LoopType
<1>3. /\ Len(queue') = Len(queue) + 1 /\ Len(queue) \in Nat /\ queue'[Len(queue) + 1] = s
      /\ \A i \in 1 .. Len(queue) : queue'[i] = queue[i] /\ queue[i] \in Signals
  BY <1>0, <1>1 DEF LoopType
<1>4. \A i \in 1 .. Len(queue) : queue[i] # s
  BY <1>1 DEF TradeInv, SignalInv
<1>5. SignalInv'
  <2>1. pos[s].state = "NONE" /\ \A r \in Runners : pc[r] = "entering" => cur[r] # s
    BY <1>1 DEF TradeInv, SignalInv, RunnerInv
  <2>2. ASSUME NEW i \in 1 .. Len(queue')
        PROVE  /\ queue'[i] \notin fresh' /\ pos[queue'[i]].state = "NONE"
               /\ \A r \in Runners : pc[r] = "entering" => cur[r] # queue'[i]
    <3>1. CASE i = Len(queue) + 1
      BY <1>1, <1>3, <2>1, <3>1
    <3>2. CASE i \in 1 .. Len(queue)
      BY <1>1, <1>3, <3>2 DEF TradeInv, SignalInv
    <3> QED BY <1>3, <3>1, <3>2
  <2>3. ASSUME NEW i \in 1 .. Len(queue'), NEW j \in 1 .. Len(queue'), queue'[i] = queue'[j]
        PROVE  i = j
    <3>1. CASE i \in 1 .. Len(queue) /\ j \in 1 .. Len(queue)
      BY <1>3, <2>3, <3>1 DEF TradeInv, SignalInv
    <3> QED BY <1>3, <1>4, <2>3, <3>1
  <2> QED BY <1>1, <2>2, <2>3 DEF TradeInv, SignalInv
<1>6. BackedInv' /\ RunnerInv' /\ OverlapInv'
  BY <1>1 DEF TradeInv, BackedInv, RunnerInv, OverlapInv
<1> QED BY <1>2, <1>5, <1>6 DEF TradeInv

\* The head of the queue is in no other place of it.
LEMMA TailFacts ==
    ASSUME LoopType, SignalInv, queue # <<>>
    PROVE  /\ Head(queue) \in Signals /\ Head(queue) = queue[1] /\ 1 \in 1 .. Len(queue)
           /\ Tail(queue) \in Seq(Signals)
           /\ \A i \in 1 .. Len(Tail(queue)) :
                 /\ i + 1 \in 1 .. Len(queue) /\ Tail(queue)[i] = queue[i + 1]
                 /\ Tail(queue)[i] # Head(queue)
<1>1. /\ Head(queue) \in Signals /\ Head(queue) = queue[1] /\ Len(queue) \in Nat /\ Len(queue) > 0
      /\ Tail(queue) \in Seq(Signals) /\ Len(Tail(queue)) = Len(queue) - 1
      /\ \A i \in 1 .. Len(Tail(queue)) : Tail(queue)[i] = queue[i + 1]
  BY DEF LoopType
<1>2. \A i \in 1 .. Len(Tail(queue)) : i + 1 \in 1 .. Len(queue) /\ i + 1 # 1
  BY <1>1
<1> QED BY <1>1, <1>2 DEF SignalInv

\* The queue after pop_one keeps its part of the invariant.
LEMMA TailInv ==
    ASSUME LoopType, SignalInv, queue # <<>>, queue' = Tail(queue), UNCHANGED <<fresh, pos>>,
           \A r \in Runners : pc'[r] = "entering" =>
               (pc[r] = "entering" /\ cur'[r] = cur[r]) \/ cur'[r] = Head(queue)
    PROVE  SignalInv'
<1>1. \A i \in 1 .. Len(queue') : /\ i + 1 \in 1 .. Len(queue) /\ queue'[i] = queue[i + 1]
                                  /\ queue'[i] # Head(queue)
  BY TailFacts
<1>2. ASSUME NEW i \in 1 .. Len(queue')
      PROVE  /\ queue'[i] \notin fresh' /\ pos'[queue'[i]].state = "NONE"
             /\ \A j \in 1 .. Len(queue') : queue'[i] = queue'[j] => i = j
             /\ \A r \in Runners : pc'[r] = "entering" => cur'[r] # queue'[i]
  <2>1. queue[i + 1] \notin fresh /\ pos[queue[i + 1]].state = "NONE"
    BY <1>1 DEF SignalInv
  <2>2. \A j \in 1 .. Len(queue') : queue'[i] = queue'[j] => i = j
    <3> SUFFICES ASSUME NEW j \in 1 .. Len(queue'), queue'[i] = queue'[j] PROVE i = j
        OBVIOUS
    <3>1. i + 1 = j + 1
      BY <1>1 DEF SignalInv
    <3> QED BY <3>1
  <2>3. \A r \in Runners : pc'[r] = "entering" => cur'[r] # queue'[i]
    BY <1>1 DEF SignalInv
  <2> QED BY <1>1, <2>1, <2>2, <2>3
<1> QED BY <1>2 DEF SignalInv

\* A cycle takes a signal from the queue, and loses it when the database fails.
LEMMA StepPop ==
    ASSUME TradeInv, NEW r \in Runners, pc[r] = "idle", queue # <<>>, queue' = Tail(queue),
           UNCHANGED <<fresh, side, pos, bought, sold, market>>,
           \/ StartOrder(r, "entering", Head(queue), NoTransition) /\ UNCHANGED <<todo, snap>>
           \/ AwaitAlert(r)
    PROVE  TradeInv'
<1>0. LoopType /\ SignalInv
  BY DEF TradeInv
<1>1. /\ Head(queue) \in Signals /\ Tail(queue) \in Seq(Signals)
      /\ Head(queue) \notin fresh /\ pos[Head(queue)].state = "NONE"
      /\ \A q \in Runners : pc[q] = "entering" => cur[q] # Head(queue)
  BY <1>0, TailFacts DEF SignalInv
<1>2. /\ pc'[r] \in {"entering", "alerting"} /\ taken'[r] = 0
      /\ pc'[r] = "entering" => cur'[r] = Head(queue)
      /\ \A q \in Runners \ {r} : /\ pc'[q] = pc[q] /\ cur'[q] = cur[q]
                                  /\ trans'[q] = trans[q] /\ taken'[q] = taken[q]
      /\ UNCHANGED <<todo, snap>>
  BY <1>0 DEF StartOrder, AwaitAlert, LoopType
<1>3. LoopType'
  <2>1. CASE StartOrder(r, "entering", Head(queue), NoTransition) /\ UNCHANGED <<todo, snap>>
    <3>1. /\ pc' \in [Runners -> Places] /\ cur' \in [Runners -> Signals \cup {None}]
          /\ trans' \in [Runners -> Transitions] /\ taken' \in [Runners -> 0 .. 2]
      BY <1>0, <1>1, <2>1, NoRowTypes DEF LoopType, StartOrder, Places
    <3> QED BY <1>0, <1>1, <1>2, <3>1 DEF LoopType
  <2>2. CASE AwaitAlert(r)
    BY <1>0, <1>1, <2>2, LeavesType DEF Leaves, LoopType
  <2> QED BY <2>1, <2>2
<1>4. SignalInv'
  BY <1>0, <1>2, TailInv
<1>5. BackedInv'
  BY DEF TradeInv, BackedInv
<1>6. RunnerInv'
  <2>1. ASSUME NEW q \in Runners, q # r
        PROVE  /\ pc'[q] = pc[q] /\ cur'[q] = cur[q] /\ trans'[q] = trans[q] /\ taken'[q] = taken[q]
               /\ todo'[q] = todo[q] /\ snap'[q] = snap[q]
    BY <1>2, <2>1
  <2>2. \A s \in todo'[r] : pos'[s].state # "NONE" /\ snap'[r][s].state \in {"OPEN", "HALF_CLOSED"}
    BY <1>2 DEF TradeInv, RunnerInv
  <2> QED BY <1>1, <1>2, <2>1, <2>2 DEF TradeInv, RunnerInv
<1>7. OverlapInv'
  <2> SUFFICES ASSUME NEW a \in Runners, NEW b \in Runners, a # b, cur'[a] = cur'[b]
               PROVE  /\ ~(pc'[a] = "entering" /\ pc'[b] = "entering")
                      /\ (pc'[a] = "closing" /\ pc'[b] = "closing" /\ taken'[a] > 0 /\ taken'[b] > 0)
                            => sold[cur'[a]] >= 2
      BY DEF OverlapInv
  <2>1. CASE a # r /\ b # r
    BY <1>2, <2>1 DEF TradeInv, OverlapInv
  <2>2. CASE a = r \/ b = r
    BY <1>1, <1>2, <2>2
  <2> QED BY <2>1, <2>2
<1> QED BY <1>3, <1>4, <1>5, <1>6, <1>7 DEF TradeInv

\* A runner opens a close order for a row it has read.
LEMMA StepClosing ==
    ASSUME TradeInv, NEW r \in Runners, pc[r] = "pricing", NEW s \in todo[r],
           NEW t \in Transitions, t.qty > 0, t.state \in Positions,
           StartOrder(r, "closing", s, t),
           UNCHANGED <<fresh, queue, side, pos, bought, sold, market, todo, snap>>
    PROVE  TradeInv'
<1>0. LoopType /\ s \in Signals
  BY DEF TradeInv, LoopType
<1>1. /\ pc'[r] = "closing" /\ cur'[r] = s /\ trans'[r] = t /\ taken'[r] = 0
      /\ \A q \in Runners \ {r} : /\ pc'[q] = pc[q] /\ cur'[q] = cur[q]
                                  /\ trans'[q] = trans[q] /\ taken'[q] = taken[q]
  BY <1>0 DEF StartOrder, LoopType
<1>2. LoopType'
  BY <1>0 DEF LoopType, StartOrder, Places
<1>3. SignalInv' /\ BackedInv'
  BY <1>1 DEF TradeInv, SignalInv, BackedInv
<1>4. RunnerInv' /\ OverlapInv'
  BY <1>1 DEF TradeInv, RunnerInv, OverlapInv
<1> QED BY <1>2, <1>3, <1>4 DEF TradeInv

\* The broker takes the order of a runner, perhaps a second time.
LEMMA StepBroker ==
    ASSUME TradeInv, NEW r \in Runners, BrokerTakes(r)
    PROVE  TradeInv'
<1>0. LoopType
  BY DEF TradeInv
<1>1. /\ UNCHANGED <<fresh, queue, side, pos, market, pc, cur, todo, snap, trans>>
      /\ taken' \in [Runners -> 0 .. 2] /\ taken'[r] > 0
      /\ \A q \in Runners \ {r} : taken'[q] = taken[q]
      /\ pc[r] \in Ordered
  <2>1. /\ UNCHANGED <<fresh, queue, side, pos, market, pc, cur, todo, snap, trans>>
        /\ pc[r] \in Ordered
    BY DEF BrokerTakes, Ordered
  <2>2. taken[r] \in 0 .. 2 /\ taken[r] < 2 /\ taken' = [taken EXCEPT ![r] = @ + 1]
    BY <1>0 DEF BrokerTakes, LoopType
  <2> QED BY <1>0, <2>1, <2>2 DEF LoopType
<1>2. cur[r] \in Signals
  BY <1>0, <1>1 DEF TradeInv, RunnerInv, Ordered, LoopType
<1>3. \/ /\ pc[r] = "entering" /\ UNCHANGED sold
         /\ bought' = [bought EXCEPT ![cur[r]] = @ + 2]
      \/ /\ pc[r] = "entering" /\ UNCHANGED bought
         /\ sold' = [sold EXCEPT ![cur[r]] = @ + 2]
      \/ /\ pc[r] = "closing" /\ UNCHANGED bought
         /\ sold' = [sold EXCEPT ![cur[r]] = @ + trans[r].qty]
  <2>1. trans[r].qty \in 0 .. 2
    BY <1>0 DEF LoopType, Transitions
  <2>2. GatewayQty(2) = 2 /\ (GatewayQty(trans[r].qty) > 0 => GatewayQty(trans[r].qty) = trans[r].qty)
    BY <2>1, GatewayFacts
  <2>3. CASE pc[r] = "entering"
    BY <2>2, <2>3 DEF BrokerTakes
  <2>4. CASE pc[r] = "closing"
    BY <2>2, <2>4 DEF BrokerTakes
  <2> QED BY <1>1, <2>3, <2>4 DEF Ordered
<1>4. /\ bought' \in [Signals -> Nat] /\ sold' \in [Signals -> Nat]
      /\ \A s \in Signals : bought'[s] >= bought[s] /\ sold'[s] >= sold[s]
      /\ pc[r] = "entering" => bought'[cur[r]] + sold'[cur[r]] > 0
      /\ pc[r] = "closing" => sold'[cur[r]] = sold[cur[r]] + trans[r].qty
  <2>1. trans[r].qty \in 0 .. 2
    BY <1>0 DEF LoopType, Transitions
  <2>2. bought \in [Signals -> Nat] /\ sold \in [Signals -> Nat]
    BY <1>0 DEF LoopType
  <2>3. CASE bought' = [bought EXCEPT ![cur[r]] = @ + 2] /\ UNCHANGED sold /\ pc[r] = "entering"
    BY <1>2, <2>2, <2>3
  <2>4. CASE sold' = [sold EXCEPT ![cur[r]] = @ + 2] /\ UNCHANGED bought /\ pc[r] = "entering"
    BY <1>2, <2>2, <2>4
  <2>5. CASE sold' = [sold EXCEPT ![cur[r]] = @ + trans[r].qty] /\ UNCHANGED bought /\ pc[r] = "closing"
    <3> DEFINE n == trans[r].qty
    <3> HIDE DEF n
    <3>1. n \in Nat /\ sold' = [sold EXCEPT ![cur[r]] = @ + n]
      BY <2>1, <2>5 DEF n
    <3> QED BY <1>2, <2>2, <2>5, <3>1 DEF n
  <2> QED BY <1>3, <2>3, <2>4, <2>5
<1>5. LoopType'
  BY <1>0, <1>1, <1>4 DEF LoopType
<1>6. SignalInv'
  BY <1>1 DEF TradeInv, SignalInv
<1>r. \A s \in Signals : /\ pos[s].rem \in 0 .. 2 /\ bought[s] \in Nat /\ sold[s] \in Nat
                         /\ bought'[s] \in Nat /\ sold'[s] \in Nat
  BY <1>0, <1>4 DEF LoopType, Rows
<1>k. \A q \in Runners : trans[q].qty \in 0 .. 2
  BY <1>0 DEF LoopType, Transitions
<1>7. BackedInv'
  BY <1>1, <1>4, <1>r DEF TradeInv, BackedInv
<1>8. RunnerInv'
  <2> SUFFICES ASSUME NEW q \in Runners
               PROVE  /\ \A s \in todo[q] : pos[s].state # "NONE" /\ snap[q][s].state \in {"OPEN", "HALF_CLOSED"}
                      /\ pc[q] = "entering" =>
                           /\ cur[q] \in Signals /\ cur[q] \notin fresh /\ pos[cur[q]].state = "NONE"
                           /\ taken'[q] > 0 => bought'[cur[q]] + sold'[cur[q]] > 0
                      /\ pc[q] = "closing" =>
                           /\ cur[q] \in todo[q]
                           /\ trans[q].state \in Positions /\ trans[q].qty > 0
                           /\ taken'[q] > 0 => \/ sold'[cur[q]] >= 2
                                               \/ sold'[cur[q]] >= 2 - pos[cur[q]].rem + trans[q].qty
      BY <1>1 DEF RunnerInv
  <2>1. pc[q] = "closing" => cur[q] \in Signals /\ pos[cur[q]].state # "NONE"
    BY <1>0 DEF TradeInv, RunnerInv, LoopType
  <2>2. CASE q # r
    BY <1>1, <1>4, <1>r, <1>k, <2>1, <2>2 DEF TradeInv, RunnerInv
  <2>3. CASE q = r
    BY <1>1, <1>4, <1>r, <1>k, <2>1, <2>3 DEF TradeInv, RunnerInv, BackedInv
  <2> QED BY <2>2, <2>3
<1>9. OverlapInv'
  <2> SUFFICES ASSUME NEW a \in Runners, NEW b \in Runners, a # b, cur[a] = cur[b]
               PROVE  /\ ~(pc[a] = "entering" /\ pc[b] = "entering")
                      /\ (pc[a] = "closing" /\ pc[b] = "closing" /\ taken'[a] > 0 /\ taken'[b] > 0)
                            => sold'[cur[a]] >= 2
      BY <1>1 DEF OverlapInv
  <2>1. ~(pc[a] = "entering" /\ pc[b] = "entering")
    BY DEF TradeInv, OverlapInv
  <2>2. ASSUME pc[a] = "closing", pc[b] = "closing", taken'[a] > 0, taken'[b] > 0
        PROVE  sold'[cur[a]] >= 2
    <3>1. cur[a] \in Signals /\ trans[a].qty > 0 /\ trans[b].qty > 0
      BY <1>0, <2>2 DEF TradeInv, RunnerInv, LoopType
    <3>2. ASSUME NEW q \in Runners, pc[q] = "closing", taken[q] > 0, trans[q].qty > 0, cur[q] = cur[a]
          PROVE  sold[cur[a]] >= 1
      BY <1>r, <1>k, <3>1, <3>2 DEF TradeInv, RunnerInv
    <3>3. CASE a # r /\ b # r
      BY <1>1, <1>4, <1>r, <2>2, <3>1, <3>3 DEF TradeInv, OverlapInv
    <3>4. CASE a = r
      BY <1>1, <1>4, <1>r, <1>k, <2>2, <3>1, <3>2, <3>4
    <3>5. CASE b = r
      BY <1>1, <1>4, <1>r, <1>k, <2>2, <3>1, <3>2, <3>5
    <3> QED BY <3>3, <3>4, <3>5
  <2> QED BY <2>1, <2>2
<1> QED BY <1>5, <1>6, <1>7, <1>8, <1>9 DEF TradeInv

\* The process dies: the queue and every runner's work are gone, the table and
\* the broker's book stay.
LEMMA StepCrash ==
    ASSUME TradeInv, Crash
    PROVE  TradeInv'
<1>1. LoopType'
  BY NoRowTypes DEF TradeInv, LoopType, Crash, broker, Places
<1>2. SignalInv' /\ BackedInv' /\ RunnerInv' /\ OverlapInv'
  BY DEF TradeInv, SignalInv, BackedInv, RunnerInv, OverlapInv, Crash, broker
<1> QED BY <1>1, <1>2 DEF TradeInv

\* A runner between two awaits.
LEMMA StepRunner ==
    ASSUME TradeInv, NEW r \in Runners, Step(r)
    PROVE  TradeInv'
<1>0. LoopType
  BY DEF TradeInv
<1>1. ASSUME Leaves(r), UNCHANGED <<fresh, queue, side, bought, sold, market>>,
             pos' \in [Signals -> Rows], \A s \in Signals : Recorded(r, s)
      PROVE  TradeInv'
  <2>1. LoopType'
    BY <1>0, <1>1, LeavesType DEF LoopType
  <2> QED BY <1>1, <2>1, LeavesInv
<1>2. ASSUME UNCHANGED pos
      PROVE  pos' \in [Signals -> Rows] /\ \A s \in Signals : Recorded(r, s)
  BY <1>0, <1>2 DEF LoopType, Recorded
<1>3. ASSUME NEW alarmed \in BOOLEAN, MonitorPositions(r, pos', alarmed) PROVE Leaves(r)
  BY <1>3 DEF MonitorPositions, Leaves
<1>4. CASE StartCycle(r)
  <2>1. UNCHANGED <<fresh, side, pos, bought, sold, market>> /\ pc[r] = "idle"
    BY <1>4 DEF StartCycle, broker
  <2>2. CASE queue = <<>>
    <3>1. MonitorPositions(r, pos, FALSE) /\ UNCHANGED queue
      BY <1>4, <2>2 DEF StartCycle
    <3> QED BY <1>1, <1>2, <1>3, <2>1, <3>1
  <2>3. CASE queue # <<>>
    BY <1>4, <2>1, <2>3, StepPop DEF StartCycle
  <2> QED BY <2>2, <2>3
<1>5. CASE EntryOk(r)
  <2>1. /\ pc[r] = "entering" /\ taken[r] > 0 /\ cur[r] \in Signals
        /\ UNCHANGED <<fresh, queue, side, bought, sold, market>>
    BY <1>5 DEF EntryOk, broker, TradeInv, RunnerInv
  <2>2. CASE pos' = open_position(cur[r]) /\ MonitorPositions(r, pos', FALSE)
    <3>1. pos' \in [Signals -> Rows] /\ \A s \in Signals : Recorded(r, s)
      BY <1>0, <2>1, <2>2, OpenFacts DEF Recorded
    <3> QED BY <1>1, <1>3, <2>1, <2>2, <3>1
  <2>3. CASE AwaitAlert(r) /\ UNCHANGED pos
    BY <1>1, <1>2, <2>1, <2>3 DEF Leaves
  <2> QED BY <1>5, <2>2, <2>3 DEF EntryOk
<1>6. CASE EntryFailed(r) \/ AlertSent(r)
  <2>1. UNCHANGED <<fresh, queue, side, pos, bought, sold, market>>
    BY <1>6 DEF EntryFailed, AlertSent, broker
  <2>2. Leaves(r)
    BY <1>3, <1>6, <2>1 DEF EntryFailed, AlertSent, Leaves
  <2> QED BY <1>1, <1>2, <2>1, <2>2
<1>7. CASE Decide(r)
  <2>1. UNCHANGED <<fresh, queue, side, bought, sold, market>> /\ pc[r] = "pricing"
    BY <1>7 DEF Decide, broker
  <2>2. PICK s \in todo[r], p \in ReadablePrices, gap \in Gaps :
             LET t == decide(snap[r][s], p, gap)
             IN  \/ KeepOpen(r, s, t)
                 \/ NextPosition(r, s) /\ UNCHANGED pos
                 \/ t.qty > 0 /\ StartOrder(r, "closing", s, t) /\ UNCHANGED <<pos, runtime, todo, snap>>
    BY <1>7 DEF Decide
  <2> DEFINE t == decide(snap[r][s], p, gap)
  <2>3. /\ s \in Signals /\ snap[r][s] \in Rows /\ p \in Nat /\ gap \in Nat
        /\ snap[r][s].state \in {"OPEN", "HALF_CLOSED"} /\ pos[s].state # "NONE"
    BY <1>0, <2>2, PricesAssumption
       DEF LoopType, TradeInv, RunnerInv, ReadablePrices, StoredCloses
  <2>4. t \in Transitions /\ t.state \in Positions
    BY <2>3, DecideFacts
  <2> HIDE DEF t
  <2>5. CASE NextPosition(r, s) /\ UNCHANGED pos
    BY <1>1, <1>2, <2>1, <2>3, <2>5 DEF Leaves
  <2>6. CASE KeepOpen(r, s, t)
    <3>1. CASE pos' = pos
      BY <1>1, <1>2, <2>1, <2>3, <2>6, <3>1 DEF Leaves, KeepOpen
    <3>2. CASE pos' = apply_transition(s, t)
      <4>1. t.qty = 0 /\ pos[s].rem \in 0 .. 2
        BY <1>0, <2>3, <2>6 DEF KeepOpen, LoopType, Rows
      <4>2. pos' \in [Signals -> Rows] /\ \A u \in Signals : Recorded(r, u)
        BY <1>0, <2>3, <2>4, <3>2, <4>1, ApplyFacts DEF Recorded, Larger
      <4> QED BY <1>1, <2>1, <2>3, <2>6, <4>2 DEF Leaves, KeepOpen
    <3> QED BY <2>6, <3>1, <3>2 DEF KeepOpen
  <2>7. CASE t.qty > 0 /\ StartOrder(r, "closing", s, t) /\ UNCHANGED <<pos, runtime, todo, snap>>
    BY <2>1, <2>4, <2>7, StepClosing
  <2> QED BY <2>2, <2>5, <2>6, <2>7 DEF t
<1>8. CASE CloseOk(r) \/ CloseFailed(r)
  <2>1. /\ pc[r] = "closing" /\ cur[r] \in Signals /\ NextPosition(r, cur[r])
        /\ UNCHANGED <<fresh, queue, side, bought, sold, market>>
        /\ \/ UNCHANGED pos
           \/ taken[r] > 0 /\ pos' = apply_transition(cur[r], trans[r])
        /\ trans[r] \in Transitions /\ trans[r].state \in Positions
    BY <1>0, <1>8 DEF CloseOk, CloseFailed, broker, TradeInv, RunnerInv, LoopType
  <2>2. CASE UNCHANGED pos
    BY <1>1, <1>2, <2>1, <2>2 DEF Leaves
  <2>3. CASE taken[r] > 0 /\ pos' = apply_transition(cur[r], trans[r])
    <3>1. pos' \in [Signals -> Rows] /\ \A s \in Signals : Recorded(r, s)
      BY <1>0, <2>1, <2>3, ApplyFacts DEF Recorded
    <3> QED BY <1>1, <2>1, <3>1 DEF Leaves
  <2> QED BY <2>1, <2>2, <2>3
<1> QED BY <1>4, <1>5, <1>6, <1>7, <1>8 DEF Step

\* Every step keeps the invariant.
LEMMA StepTrade == TradeInv /\ [Next]_vars => TradeInv'
<1> SUFFICES ASSUME TradeInv, [Next]_vars PROVE TradeInv'
    OBVIOUS
<1>0. ASSUME UNCHANGED <<fresh, queue, side, pos, bought, sold, pc, cur, todo, snap, trans, taken>>,
             market' \in Prices
      PROVE  TradeInv'
  BY <1>0 DEF TradeInv, LoopType, SignalInv, BackedInv, RunnerInv, OverlapInv
<1>m. market \in Prices
  BY DEF TradeInv, LoopType
<1>1. CASE UNCHANGED vars \/ MarketMoves \/ PauseEntry \/ PauseAll \/ Resume
  BY <1>0, <1>1, <1>m DEF vars, broker, MarketMoves, PauseEntry, PauseAll, Resume
<1>2. ASSUME NEW s \in Signals, put_many(s) PROVE TradeInv'
  BY <1>2, StepPut
<1>3. ASSUME NEW r \in Runners, Step(r) \/ BrokerTakes(r) PROVE TradeInv'
  BY <1>3, StepRunner, StepBroker
<1>4. ASSUME NEW r \in Runners, Cancel(r) PROVE TradeInv'
  <2>1. Leaves(r) /\ UNCHANGED <<fresh, queue, side, pos, bought, sold, market>>
    BY <1>4 DEF Cancel, Leaves, broker
  <2>2. LoopType' /\ \A s \in Signals : Recorded(r, s)
    BY <2>1, LeavesType DEF TradeInv, LoopType, Recorded
  <2> QED BY <2>1, <2>2, LeavesInv
<1>5. CASE Crash
  BY <1>5, StepCrash
<1> QED BY <1>1, <1>2, <1>3, <1>4, <1>5 DEF Next

\* However many cycles overlap and whatever is lost, fails, is cancelled or
\* crashes between the broker's answer and apply_transition: the table never
\* shows more sold than the broker sold.
THEOREM SalesAreBacked == Spec => []RecordedIsSold
<1>1. TradeInv => RecordedIsSold
  BY DEF TradeInv, BackedInv, RecordedIsSold
<1> QED BY <1>1, InitTrade, StepTrade, PTL DEF Spec

\* Under the same faults: open_position has a row only for an entry order the
\* broker took.
THEOREM RowsAreBacked == Spec => []PositionIsBacked
<1>1. TradeInv => PositionIsBacked
  BY DEF TradeInv, BackedInv, PositionIsBacked
<1> QED BY <1>1, InitTrade, StepTrade, PTL DEF Spec

\* A signal is executed by one runner, once, although the runners share the
\* queue without a lock.
THEOREM SignalsExecuteOnce == Spec => []EntryOnce
<1>1. TradeInv => EntryOnce
  BY DEF TradeInv, SignalInv, RunnerInv, OverlapInv, EntryOnce
<1> QED BY <1>1, InitTrade, StepTrade, PTL DEF Spec

-----------------------------------------------------------------------------
(* Cycles that never overlap: the rows move forward.                       *)

Forward(s) ==
    /\ Rank[pos[s].state] <= Rank[pos'[s].state]
    /\ pos[s].high <= pos'[s].high

\* The state machine moves a row forward.
LEMMA DecideForward ==
    ASSUME NEW row \in Rows, NEW p \in Nat, NEW gap \in Nat, InOrder(row),
           row.state \in {"OPEN", "HALF_CLOSED"}
    PROVE  LET t == decide(row, p, gap)
           IN  /\ t.high >= row.high
               /\ t.state = "OPEN" => row.state = "OPEN" /\ t.high = row.high
               /\ t.state = "HALF_CLOSED" => t.high > 0
               /\ t.qty > 0 => t.state \in {"HALF_CLOSED", "CLOSED"}
<1> USE EntryAssumption DEF Rows, InOrder, TpGap
<1>1. CASE row.state = "OPEN"
  BY <1>1 DEF decide, DecideOpen, Keep
<1>2. CASE row.state = "HALF_CLOSED"
  <2>1. row.high \in Int /\ row.high > 0 /\ HighOr(row.high, p) = row.high
    BY <1>2 DEF HighOr, None
  <2> QED BY <1>2, <2>1 DEF decide, DecideHalf, Larger
<1> QED BY <1>1, <1>2

\* A step that leaves a position as it is, or records a transition of it.
LEMMA LeavesCurrent ==
    ASSUME OneRunner, LoopType, CurrentInv, NEW r \in Runners, Leaves(r),
           pos' \in [Signals -> Rows],
           \A s \in Signals :
               \/ pos'[s] = pos[s]
               \/ /\ InOrder(pos'[s]) /\ Forward(s)
                  /\ s \in todo'[r] => snap'[r][s] = pos'[s]
    PROVE  CurrentInv' /\ \A s \in Signals : Forward(s)
<1>1. /\ pc'[r] # "closing"
      /\ \A s \in todo'[r] : snap'[r][s] = pos'[s] \/ (s \in todo[r] /\ snap'[r][s] = snap[r][s])
  BY LeavesFacts DEF Ordered
<1>2. \A q \in Runners : q = r
  BY DEF OneRunner
<1>3. \A s \in Signals : InOrder(pos'[s])
  BY DEF CurrentInv
<1>4. \A s \in todo[r] : s \in Signals
  BY DEF LoopType
<1>5. \A s \in todo'[r] : snap'[r][s] = pos'[s]
  BY <1>1, <1>4 DEF CurrentInv
<1>6. \A s \in Signals : InOrder(pos[s])'
  BY <1>3 DEF InOrder
<1>7. \A s \in Signals : Forward(s)
  <2> SUFFICES ASSUME NEW s \in Signals, pos'[s] = pos[s] PROVE Forward(s)
      OBVIOUS
  <2>1. pos[s].state \in {"NONE", "OPEN", "HALF_CLOSED", "CLOSED"} /\ pos[s].high \in Int
    BY DEF LoopType, Rows, Positions
  <2> QED BY <2>1 DEF Forward, Rank
<1> QED BY <1>1, <1>2, <1>5, <1>6, <1>7 DEF CurrentInv

\* The table is left alone, and so is what the runners hold of it.
LEMMA StaysForward ==
    ASSUME LoopType, UNCHANGED pos
    PROVE  \A s \in Signals : Forward(s)
<1>1. \A s \in Signals : pos[s].state \in {"NONE", "OPEN", "HALF_CLOSED", "CLOSED"} /\ pos[s].high \in Int
  BY DEF LoopType, Rows, Positions
<1> QED BY <1>1 DEF Forward, Rank

\* Every step keeps the detached rows current and moves the rows forward.
LEMMA StepCurrent ==
    ASSUME OneRunner, TradeInv, CurrentInv, [Next]_vars
    PROVE  CurrentInv' /\ \A s \in Signals : Forward(s)
<1>0. LoopType /\ LoopType' /\ pos' \in [Signals -> Rows]
  BY StepTrade DEF TradeInv, LoopType
<1>o. \A r, q \in Runners : r = q
  BY DEF OneRunner
<1>1. ASSUME UNCHANGED <<pos, pc, cur, todo, snap, trans>>
      PROVE  CurrentInv' /\ \A s \in Signals : Forward(s)
  BY <1>0, <1>1, StaysForward DEF CurrentInv, InOrder
<1>2. ASSUME NEW r \in Runners, Leaves(r), UNCHANGED pos
      PROVE  CurrentInv' /\ \A s \in Signals : Forward(s)
  BY <1>0, <1>2, LeavesCurrent
<1>3. CASE UNCHANGED vars \/ MarketMoves \/ PauseEntry \/ PauseAll \/ Resume
  BY <1>1, <1>3 DEF vars, broker, MarketMoves, PauseEntry, PauseAll, Resume
<1>4. ASSUME NEW s \in Signals, put_many(s) PROVE CurrentInv' /\ \A u \in Signals : Forward(u)
  BY <1>1, <1>4 DEF put_many
<1>5. ASSUME NEW r \in Runners, BrokerTakes(r) PROVE CurrentInv' /\ \A u \in Signals : Forward(u)
  BY <1>1, <1>5 DEF BrokerTakes
<1>6. ASSUME NEW r \in Runners, Cancel(r) PROVE CurrentInv' /\ \A u \in Signals : Forward(u)
  BY <1>2, <1>6 DEF Cancel, Leaves
<1>7. CASE Crash
  <2>1. UNCHANGED pos /\ \A r \in Runners : pc'[r] = "idle" /\ todo'[r] = {}
    BY <1>7 DEF Crash
  <2> QED BY <1>0, <2>1, StaysForward DEF CurrentInv, InOrder
<1>8. ASSUME NEW r \in Runners, StartCycle(r) PROVE CurrentInv' /\ \A u \in Signals : Forward(u)
  <2>0. UNCHANGED pos
    BY <1>8 DEF StartCycle
  <2>1. CASE StartOrder(r, "entering", Head(queue), NoTransition) /\ UNCHANGED <<todo, snap>>
    <3>1. pc'[r] = "entering" /\ UNCHANGED <<pos, todo, snap>>
      BY <1>0, <2>0, <2>1 DEF StartOrder, LoopType
    <3>2. \A q \in Runners : pc'[q] # "closing"
      BY <1>o, <3>1
    <3>3. CurrentInv'
      BY <3>1, <3>2 DEF CurrentInv, InOrder
    <3> QED BY <1>0, <2>0, <3>3, StaysForward
  <2>2. CASE MonitorPositions(r, pos, FALSE) \/ AwaitAlert(r)
    BY <1>2, <2>0, <2>2 DEF MonitorPositions, Leaves
  <2> QED BY <1>8, <2>1, <2>2 DEF StartCycle
<1>9. ASSUME NEW r \in Runners, EntryOk(r) PROVE CurrentInv' /\ \A u \in Signals : Forward(u)
  <2>1. CASE UNCHANGED pos
    <3>1. Leaves(r)
      BY <1>9, <2>1 DEF EntryOk, MonitorPositions, Leaves
    <3> QED BY <1>2, <2>1, <3>1
  <2>2. CASE pos' = open_position(cur[r]) /\ MonitorPositions(r, pos', FALSE)
    <3>1. cur[r] \in Signals /\ pos[cur[r]].state = "NONE" /\ cur[r] \notin todo[r]
      BY <1>9 DEF EntryOk, TradeInv, RunnerInv
    <3>2. /\ pos'[cur[r]].state = "OPEN" /\ pos'[cur[r]].high = Entry
          /\ pos'[cur[r]].tp = Entry + TpGap
          /\ \A u \in Signals \ {cur[r]} : pos'[u] = pos[u]
      BY <1>0, <2>2, <3>1, OpenFacts
    <3>3. InOrder(pos'[cur[r]])
      BY <3>2 DEF InOrder
    <3>4. Forward(cur[r])
      BY <3>1, <3>2, EntryAssumption DEF Forward, Rank, CurrentInv, InOrder, None
    <3>5. Leaves(r)
      BY <2>2 DEF MonitorPositions, Leaves
    <3>6. cur[r] \in todo'[r] => snap'[r][cur[r]] = pos'[cur[r]]
      BY <1>0, <3>1, <3>5, LeavesFacts
    <3> QED BY <1>0, <3>2, <3>3, <3>4, <3>5, <3>6, LeavesCurrent
  <2> QED BY <1>9, <2>1, <2>2 DEF EntryOk
<1>10. ASSUME NEW r \in Runners, EntryFailed(r) \/ AlertSent(r) \/ CloseFailed(r)
       PROVE  CurrentInv' /\ \A u \in Signals : Forward(u)
  <2>1. UNCHANGED pos
    BY <1>10 DEF EntryFailed, AlertSent, CloseFailed
  <2>2. pc[r] = "closing" => cur[r] \in Signals
    BY <1>0 DEF TradeInv, RunnerInv, LoopType
  <2>3. Leaves(r)
    BY <1>10, <2>1, <2>2 DEF EntryFailed, AlertSent, CloseFailed, MonitorPositions, Leaves
  <2> QED BY <1>2, <2>1, <2>3
<1>r. ASSUME NEW r \in Runners, NEW s \in Signals, NextPosition(r, s), NEW t \in Transitions,
             pos' = apply_transition(s, t), s \in todo[r], t.high >= pos[s].high,
             t.state \in Positions,
             t.state = "OPEN" => pos[s].state = "OPEN" /\ t.high = pos[s].high,
             t.state = "HALF_CLOSED" => pos[s].state \in {"OPEN", "HALF_CLOSED"} /\ t.high > 0
      PROVE  CurrentInv' /\ \A u \in Signals : Forward(u)
  <2>1. /\ pos'[s].state = t.state /\ pos'[s].high = t.high /\ pos'[s].tp = pos[s].tp
        /\ \A u \in Signals \ {s} : pos'[u] = pos[u]
    BY <1>0, <1>r, ApplyFacts
  <2>2. InOrder(pos[s]) /\ pos[s].state \in {"NONE", "OPEN", "HALF_CLOSED", "CLOSED"}
    BY <1>0 DEF CurrentInv, LoopType, Rows, Positions
  <2>3. InOrder(pos'[s])
    BY <1>r, <2>1, <2>2 DEF InOrder, Positions
  <2>4. Forward(s)
    BY <1>r, <2>1, <2>2 DEF Forward, Rank, Positions
  <2>5. s \notin todo'[r]
    BY <1>0, <1>r DEF NextPosition, LoopType
  <2>6. Leaves(r)
    BY <1>r DEF Leaves
  <2> QED BY <1>0, <2>1, <2>3, <2>4, <2>5, <2>6, LeavesCurrent
<1>11. ASSUME NEW r \in Runners, CloseOk(r) PROVE CurrentInv' /\ \A u \in Signals : Forward(u)
  <2>1. /\ pc[r] = "closing" /\ cur[r] \in Signals /\ cur[r] \in todo[r] /\ NextPosition(r, cur[r])
        /\ trans[r] \in Transitions
        /\ UNCHANGED pos \/ pos' = apply_transition(cur[r], trans[r])
    BY <1>0, <1>11 DEF CloseOk, TradeInv, RunnerInv, LoopType
  <2>2. CASE UNCHANGED pos
    BY <1>2, <2>1, <2>2 DEF Leaves
  <2>3. CASE pos' = apply_transition(cur[r], trans[r])
    BY <1>r, <2>1, <2>3 DEF CurrentInv, Positions
  <2> QED BY <2>1, <2>2, <2>3
<1>12. ASSUME NEW r \in Runners, Decide(r) PROVE CurrentInv' /\ \A u \in Signals : Forward(u)
  <2>2. PICK s \in todo[r], p \in ReadablePrices, gap \in Gaps :
             LET t == decide(snap[r][s], p, gap)
             IN  \/ KeepOpen(r, s, t)
                 \/ NextPosition(r, s) /\ UNCHANGED pos
                 \/ t.qty > 0 /\ StartOrder(r, "closing", s, t) /\ UNCHANGED <<pos, runtime, todo, snap>>
    BY <1>12 DEF Decide
  <2> DEFINE t == decide(snap[r][s], p, gap)
  <2>3. /\ s \in Signals /\ pos[s] \in Rows /\ p \in Nat /\ gap \in Nat /\ snap[r][s] = pos[s]
        /\ pos[s].state \in {"OPEN", "HALF_CLOSED"} /\ InOrder(pos[s])
    BY <1>0, <2>2, PricesAssumption
       DEF LoopType, TradeInv, RunnerInv, CurrentInv, ReadablePrices, StoredCloses
  <2>4. /\ t \in Transitions /\ t.state \in Positions /\ t.qty <= pos[s].rem
        /\ t.high >= pos[s].high
        /\ t.state = "OPEN" => pos[s].state = "OPEN" /\ t.high = pos[s].high
        /\ t.state = "HALF_CLOSED" => t.high > 0
        /\ t.qty > 0 => t.state \in {"HALF_CLOSED", "CLOSED"}
    <3>1. t = decide(pos[s], p, gap)
      BY <2>3
    <3>2. /\ decide(pos[s], p, gap) \in Transitions /\ decide(pos[s], p, gap).state \in Positions
          /\ decide(pos[s], p, gap).qty <= pos[s].rem
      BY <2>3, DecideFacts
    <3>3. LET d == decide(pos[s], p, gap)
          IN  /\ d.high >= pos[s].high
              /\ d.state = "OPEN" => pos[s].state = "OPEN" /\ d.high = pos[s].high
              /\ d.state = "HALF_CLOSED" => d.high > 0
              /\ d.qty > 0 => d.state \in {"HALF_CLOSED", "CLOSED"}
      BY <2>3, DecideForward
    <3> QED BY <3>1, <3>2, <3>3
  <2> HIDE DEF t
  <2>5. CASE NextPosition(r, s) /\ UNCHANGED pos
    BY <1>2, <2>3, <2>5 DEF Leaves
  <2>6. CASE KeepOpen(r, s, t)
    <3>1. NextPosition(r, s) /\ (UNCHANGED pos \/ pos' = apply_transition(s, t))
      BY <2>6 DEF KeepOpen
    <3> QED BY <1>r, <2>2, <2>3, <2>4, <2>5, <3>1
  <2>7. CASE t.qty > 0 /\ StartOrder(r, "closing", s, t) /\ UNCHANGED <<pos, runtime, todo, snap>>
    <3>1. pc'[r] = "closing" /\ cur'[r] = s /\ trans'[r] = t
      BY <1>0, <2>7 DEF StartOrder, LoopType
    <3>2. ASSUME NEW q \in Runners
          PROVE  /\ \A u \in todo[q] : snap[q][u] = pos[u]
                 /\ trans'[q].qty <= pos[cur'[q]].rem /\ trans'[q].high >= pos[cur'[q]].high
                 /\ trans'[q].state \in {"HALF_CLOSED", "CLOSED"}
                 /\ trans'[q].state = "HALF_CLOSED" =>
                      pos[cur'[q]].state \in {"OPEN", "HALF_CLOSED"} /\ trans'[q].high > 0
      <4>1. q = r
        BY <1>o
      <4> QED BY <2>3, <2>4, <2>7, <3>1, <4>1 DEF CurrentInv
    <3>3. CurrentInv'
      BY <2>7, <3>2 DEF CurrentInv, InOrder
    <3> QED BY <1>0, <2>7, <3>3, StaysForward
  <2> QED BY <2>2, <2>5, <2>6, <2>7 DEF t
<1> QED BY <1>3, <1>4, <1>5, <1>6, <1>7, <1>8, <1>9, <1>10, <1>11, <1>12 DEF Next, Step

\* No row is in the table at the start.
LEMMA InitCurrent == Init => CurrentInv
BY DEF Init, CurrentInv, InOrder, NoRow

\* One runner at a time, whatever else fails: OPEN -> HALF_CLOSED -> CLOSED is
\* never taken back, and the high of a row never falls.
THEOREM RowsMoveForward == ASSUME OneRunner PROVE Spec => StateMovesForward
<1>1. Init => TradeInv /\ CurrentInv
  BY InitTrade, InitCurrent
<1>2. TradeInv /\ CurrentInv /\ [Next]_vars => TradeInv' /\ CurrentInv'
  BY StepTrade, StepCurrent
<1>3. TradeInv /\ CurrentInv /\ [Next]_vars =>
          [\A s \in Signals : /\ Rank[pos[s].state] <= Rank[pos'[s].state]
                              /\ pos[s].high <= pos'[s].high]_vars
  BY StepCurrent DEF Forward
<1> QED BY <1>1, <1>2, <1>3, PTL DEF Spec, StateMovesForward

-----------------------------------------------------------------------------
(* Cycles that never overlap and nothing fails: the table is the book.     *)

\* A runner leaves its order with the outcome recorded.
LEMMA LeavesBook ==
    ASSUME OneRunner, TradeInv, CurrentInv, BookInv, NEW r \in Runners, Leaves(r), LoopType',
           UNCHANGED <<side, bought, sold>>,
           \A s \in Signals :
               \/ pos'[s].rem = pos[s].rem /\ (pc[r] \in Ordered /\ cur[r] = s => taken[r] = 0)
               \/ pc[r] = "entering" /\ cur[r] = s /\ taken[r] > 0 /\ pos'[s].rem = 2
               \/ /\ pc[r] = "closing" /\ cur[r] = s /\ taken[r] > 0
                  /\ pos'[s].rem = Larger(pos[s].rem - trans[r].qty, 0)
    PROVE  BookInv'
<1>0. LoopType /\ pos' \in [Signals -> Rows]
  BY DEF TradeInv, LoopType
<1>1. \A q \in Runners : q = r
  BY DEF OneRunner
<1>2. pc'[r] \notin Ordered /\ taken'[r] = 0
  BY <1>0, LeavesFacts
<1>3. ASSUME NEW s \in Signals PROVE pos'[s].rem = bought[s] - sold[s]
  <2>0. /\ pos[s].rem \in 0 .. 2 /\ bought[s] \in Nat /\ sold[s] \in Nat /\ trans[r].qty \in 0 .. 2
        /\ taken[r] \in 0 .. 1
    BY <1>0 DEF LoopType, Rows, Transitions, BookInv
  <2>1. CASE ~(pc[r] \in Ordered /\ cur[r] = s)
    <3>1. \A q \in Runners : pc[q] \in Ordered => cur[q] # s
      BY <1>1, <2>1
    <3> QED BY <2>1, <3>1 DEF BookInv, Ordered
  <2>2. CASE pc[r] = "entering" /\ cur[r] = s
    <3>1. pos[s].state = "NONE" /\ pos[s].rem = 0 /\ bought[s] - sold[s] = 2 * taken[r]
      BY <2>2 DEF TradeInv, RunnerInv, BackedInv, BookInv
    <3> QED BY <2>0, <2>2, <3>1 DEF Ordered
  <2>3. CASE pc[r] = "closing" /\ cur[r] = s
    <3>1. /\ trans[r].qty <= pos[s].rem
          /\ bought[s] - sold[s] = pos[s].rem - (IF taken[r] = 0 THEN 0 ELSE trans[r].qty)
      BY <2>3 DEF CurrentInv, BookInv
    <3> QED BY <2>0, <2>3, <3>1 DEF Ordered, Larger
  <2> QED BY <2>1, <2>2, <2>3 DEF Ordered
<1>4. \A s \in Signals : side'[s] = "buy"
  BY DEF BookInv
<1>5. \A q \in Runners : taken'[q] = 0 /\ pc'[q] \notin Ordered
  BY <1>1, <1>2
<1> QED BY <1>3, <1>4, <1>5 DEF BookInv, Ordered

\* Every step of the program without failures keeps the book.
LEMMA StepBook ==
    ASSUME OneRunner, NoFailures, TradeInv, CurrentInv, BookInv, [Next]_vars
    PROVE  BookInv'
<1>0. LoopType /\ LoopType' /\ Faults = {} /\ \A r, q \in Runners : r = q
  BY StepTrade DEF TradeInv, NoFailures, OneRunner
<1>1. CASE UNCHANGED vars \/ MarketMoves \/ PauseEntry \/ PauseAll \/ Resume
  BY <1>1 DEF vars, broker, MarketMoves, PauseEntry, PauseAll, Resume, BookInv
<1>2. ASSUME NEW s \in Signals, put_many(s) PROVE BookInv'
  <2>1. UNCHANGED <<pos, bought, sold, pc, cur, trans, taken>> /\ \A u \in Signals : side'[u] = "buy"
    BY <1>0, <1>2 DEF put_many, broker, NoFailures, LoopType, BookInv
  <2> QED BY <2>1 DEF BookInv
<1>3. ASSUME NEW r \in Runners, BrokerTakes(r) PROVE BookInv'
  <2>1. /\ UNCHANGED <<side, pos, pc, cur, trans>> /\ pc[r] \in Ordered /\ taken[r] < 1
        /\ taken' = [taken EXCEPT ![r] = @ + 1]
    BY <1>0, <1>3 DEF BrokerTakes, Ordered
  <2>2. taken[r] = 0 /\ taken'[r] = 1 /\ cur[r] \in Signals /\ side[cur[r]] = "buy"
    BY <1>0, <2>1 DEF LoopType, TradeInv, RunnerInv, Ordered, BookInv
  <2>3. trans[r].qty \in 0 .. 2
    BY <1>0 DEF LoopType, Transitions
  <2>4. GatewayQty(2) = 2 /\ (GatewayQty(trans[r].qty) > 0 => GatewayQty(trans[r].qty) = trans[r].qty)
    BY <2>3, GatewayFacts
  <2>5. \/ /\ pc[r] = "entering" /\ UNCHANGED sold /\ bought' = [bought EXCEPT ![cur[r]] = @ + 2]
        \/ /\ pc[r] = "closing" /\ UNCHANGED bought
           /\ sold' = [sold EXCEPT ![cur[r]] = @ + trans[r].qty]
    <3>1. CASE pc[r] = "entering"
      BY <1>3, <2>2, <2>4, <3>1 DEF BrokerTakes
    <3>2. CASE pc[r] = "closing"
      BY <1>3, <2>4, <3>2 DEF BrokerTakes
    <3> QED BY <2>1, <3>1, <3>2 DEF Ordered
  <2>6. bought \in [Signals -> Nat] /\ sold \in [Signals -> Nat]
    BY <1>0 DEF LoopType
  <2>7. \A s \in Signals \ {cur[r]} : bought'[s] = bought[s] /\ sold'[s] = sold[s]
    BY <2>2, <2>5, <2>6
  <2>8. /\ pc[r] = "entering" => bought'[cur[r]] = bought[cur[r]] + 2 /\ sold'[cur[r]] = sold[cur[r]]
        /\ pc[r] = "closing" => /\ bought'[cur[r]] = bought[cur[r]]
                                /\ sold'[cur[r]] = sold[cur[r]] + trans[r].qty
    BY <2>2, <2>5, <2>6
  <2>9. ASSUME NEW s \in Signals, \A q \in Runners : pc[q] \in Ordered => cur[q] # s
        PROVE  pos[s].rem = bought'[s] - sold'[s]
    BY <2>1, <2>7, <2>9 DEF BookInv
  <2>10. /\ bought[cur[r]] \in Nat /\ sold[cur[r]] \in Nat /\ pos[cur[r]].rem \in 0 .. 2
         /\ pc[r] = "entering" => bought[cur[r]] - sold[cur[r]] = 0
         /\ pc[r] = "closing" => bought[cur[r]] - sold[cur[r]] = pos[cur[r]].rem
    <3>1. bought[cur[r]] \in Nat /\ sold[cur[r]] \in Nat /\ pos[cur[r]].rem \in 0 .. 2
      BY <1>0, <2>2, <2>6 DEF LoopType, Rows
    <3> QED BY <2>2, <3>1 DEF BookInv
  <2>11. /\ pc[r] = "entering" => bought'[cur[r]] - sold'[cur[r]] = 2
         /\ pc[r] = "closing" => bought'[cur[r]] - sold'[cur[r]] = pos[cur[r]].rem - trans[r].qty
    BY <2>3, <2>8, <2>10
  <2>12. \A q \in Runners : q = r
    BY <1>0
  <2> QED BY <2>1, <2>2, <2>9, <2>11, <2>12 DEF BookInv
<1>4. ASSUME NEW r \in Runners, StartCycle(r) PROVE BookInv'
  <2>1. UNCHANGED <<side, pos, bought, sold>> /\ pc[r] \notin Ordered
    BY <1>4 DEF StartCycle, broker, Ordered
  <2>2. CASE MonitorPositions(r, pos, FALSE)
    <3>1. Leaves(r)
      BY <2>1, <2>2 DEF MonitorPositions, Leaves
    <3> QED BY <1>0, <2>1, <3>1, LeavesBook
  <2>3. CASE queue # <<>> /\ StartOrder(r, "entering", Head(queue), NoTransition)
    <3>1. Head(queue) \in Signals /\ pos[Head(queue)].state = "NONE"
      BY <2>3, TailFacts DEF TradeInv, SignalInv
    <3>2. pc'[r] = "entering" /\ cur'[r] = Head(queue) /\ taken'[r] = 0
      BY <1>0, <2>3 DEF StartOrder, LoopType
    <3>3. \A q \in Runners : q = r
      BY <1>0
    <3>4. \A s \in Signals : pos[s].rem = bought[s] - sold[s]
      BY <2>1, <3>3 DEF BookInv
    <3>5. bought[Head(queue)] - sold[Head(queue)] = 0
      BY <3>1, <3>4 DEF TradeInv, BackedInv
    <3> QED BY <2>1, <3>2, <3>3, <3>4, <3>5 DEF BookInv
  <2> QED BY <1>0, <1>4, <2>2, <2>3 DEF StartCycle
<1>5. ASSUME NEW r \in Runners, EntryOk(r) \/ EntryFailed(r) \/ AlertSent(r) PROVE BookInv'
  <2>1. CASE EntryOk(r)
    <3>1. /\ pc[r] = "entering" /\ taken[r] > 0 /\ pos' = open_position(cur[r])
          /\ UNCHANGED <<side, bought, sold>> /\ cur[r] \in Signals /\ Leaves(r)
      BY <1>0, <2>1 DEF EntryOk, MonitorPositions, Leaves, broker, TradeInv, RunnerInv
    <3>2. pos'[cur[r]].rem = 2 /\ \A s \in Signals \ {cur[r]} : pos'[s] = pos[s]
      BY <1>0, <3>1, OpenFacts
    <3> QED BY <1>0, <3>1, <3>2, LeavesBook
  <2>2. CASE EntryFailed(r) \/ AlertSent(r)
    <3>1. UNCHANGED <<side, pos, bought, sold>> /\ (pc[r] \in Ordered => taken[r] = 0)
      BY <1>0, <2>2 DEF EntryFailed, AlertSent, broker, Ordered
    <3>2. Leaves(r)
      BY <1>0, <2>2, <3>1 DEF EntryFailed, AlertSent, MonitorPositions, Leaves
    <3> QED BY <1>0, <3>1, <3>2, LeavesBook
  <2> QED BY <1>5, <2>1, <2>2
<1>6. ASSUME NEW r \in Runners, CloseOk(r) \/ CloseFailed(r) PROVE BookInv'
  <2>1. /\ pc[r] = "closing" /\ cur[r] \in Signals /\ NextPosition(r, cur[r])
        /\ UNCHANGED <<side, bought, sold>> /\ trans[r] \in Transitions
        /\ \/ UNCHANGED pos /\ taken[r] = 0
           \/ taken[r] > 0 /\ pos' = apply_transition(cur[r], trans[r])
    BY <1>0, <1>6 DEF CloseOk, CloseFailed, broker, TradeInv, RunnerInv, LoopType
  <2>2. Leaves(r)
    BY <2>1 DEF Leaves
  <2>3. CASE UNCHANGED pos /\ taken[r] = 0
    BY <1>0, <2>1, <2>2, <2>3, LeavesBook
  <2>4. CASE taken[r] > 0 /\ pos' = apply_transition(cur[r], trans[r])
    <3>1. /\ pos'[cur[r]].rem = Larger(pos[cur[r]].rem - trans[r].qty, 0)
          /\ \A s \in Signals \ {cur[r]} : pos'[s] = pos[s]
      BY <1>0, <2>1, <2>4, ApplyFacts
    <3> QED BY <1>0, <2>1, <2>2, <2>4, <3>1, LeavesBook
  <2> QED BY <2>1, <2>3, <2>4
<1>7. ASSUME NEW r \in Runners, Decide(r) PROVE BookInv'
  <2>1. PICK s \in todo[r], p \in ReadablePrices, gap \in Gaps :
             LET t == decide(snap[r][s], p, gap)
             IN  \/ KeepOpen(r, s, t)
                 \/ t.qty > 0 /\ StartOrder(r, "closing", s, t) /\ UNCHANGED <<pos, runtime, todo, snap>>
    BY <1>0, <1>7 DEF Decide
  <2> DEFINE t == decide(snap[r][s], p, gap)
  <2>2. /\ s \in Signals /\ snap[r][s] \in Rows /\ p \in Nat /\ gap \in Nat /\ pos[s].rem \in 0 .. 2
        /\ UNCHANGED <<side, bought, sold>> /\ pc[r] = "pricing"
    BY <1>0, <1>7, <2>1, PricesAssumption DEF Decide, broker, LoopType, Rows, ReadablePrices, StoredCloses
  <2>3. t \in Transitions
    BY <2>2, DecideFacts
  <2> HIDE DEF t
  <2>4. CASE KeepOpen(r, s, t)
    <3>1. /\ NextPosition(r, s) /\ t.qty = 0
          /\ UNCHANGED pos \/ pos' = apply_transition(s, t)
      BY <1>0, <2>4 DEF KeepOpen
    <3>2. \A u \in Signals : pos'[u].rem = pos[u].rem
      <4>1. CASE UNCHANGED pos
        BY <4>1
      <4>2. CASE pos' = apply_transition(s, t)
        <5>1. /\ pos'[s].rem = Larger(pos[s].rem - t.qty, 0)
              /\ \A u \in Signals \ {s} : pos'[u] = pos[u]
          BY <1>0, <2>2, <2>3, <4>2, ApplyFacts
        <5> QED BY <2>2, <3>1, <5>1 DEF Larger
      <4> QED BY <3>1, <4>1, <4>2
    <3>3. Leaves(r)
      BY <2>2, <3>1 DEF Leaves
    <3> QED BY <1>0, <2>2, <3>2, <3>3, LeavesBook DEF Ordered
  <2>5. CASE t.qty > 0 /\ StartOrder(r, "closing", s, t) /\ UNCHANGED <<pos, runtime, todo, snap>>
    <3>1. pc'[r] = "closing" /\ cur'[r] = s /\ trans'[r] = t /\ taken'[r] = 0
      BY <1>0, <2>5 DEF StartOrder, LoopType
    <3>2. \A q \in Runners : q = r
      BY <1>0
    <3>3. \A u \in Signals : pos[u].rem = bought[u] - sold[u]
      BY <2>2, <3>2 DEF BookInv, Ordered
    <3> QED BY <2>2, <2>5, <3>1, <3>2, <3>3 DEF BookInv
  <2> QED BY <2>1, <2>4, <2>5 DEF t
<1>8. ASSUME NEW r \in Runners, Cancel(r) PROVE BookInv'
  BY <1>0, <1>8 DEF Cancel
<1>9. CASE Crash
  BY <1>0, <1>9 DEF Crash
<1> QED BY <1>1, <1>2, <1>3, <1>4, <1>5, <1>6, <1>7, <1>8, <1>9 DEF Next, Step

\* Nothing is bought, sold or in the table at the start.
LEMMA InitBook == Init => BookInv
BY DEF Init, BookInv, NoRow

\* One runner, buy signals and no failures, live or paper: outside an order
\* call, what the table says is still to be sold is what the broker holds.
THEOREM TableIsTheBook == ASSUME OneRunner, NoFailures PROVE Spec => []BookMatchesBroker
<1>1. Init => TradeInv /\ CurrentInv /\ BookInv
  BY InitTrade, InitCurrent, InitBook
<1>2. TradeInv /\ CurrentInv /\ BookInv /\ [Next]_vars => TradeInv' /\ CurrentInv' /\ BookInv'
  BY StepTrade, StepCurrent, StepBook
<1>3. BookInv => BookMatchesBroker
  BY DEF BookInv, BookMatchesBroker, Ordering
<1> QED BY <1>1, <1>2, <1>3, PTL DEF Spec

=============================================================================
