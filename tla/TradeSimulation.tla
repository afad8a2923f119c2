--------------------------- MODULE TradeSimulation ---------------------------
(***************************************************************************)
(* One simulated trade of a backtest: BacktestJobService._simulate_trade   *)
(* (app/services/backtest_jobs.py) with BacktestCore and the ATR of the    *)
(* risk engine, one action per candle.  Beside it runs `machine', a row    *)
(* with the same entry, levels and trail that PositionStateMachine handles *)
(* on the lowest, the highest and again the lowest price of every candle:  *)
(* the second writing of the exit rules.  It is not the row of a live      *)
(* entry, whose price and levels are others (app/services/trading_service, *)
(* app/services/runtime_factory: a percentage of the signal's price, and a *)
(* trail by an ATR that is read anew in every cycle).                      *)
(*                                                                         *)
(* Prices are integers, quantities half shares, so money is in half units. *)
(***************************************************************************)
EXTENDS PositionMachine, Sequences, Functions

CONSTANTS
    Candles,    \* candles [o, h, l, c] a series may have
    MaxCandles, \* bound on the length of a series
    AtrPeriod,  \* meta atr_period
    StopMult,   \* meta stop_atr_mult, tp_atr_mult and trail_atr_mult, in halves
    TpMult,
    TrailMult,
    Slippage    \* slippage_pct

ASSUME CandleAssumption ==
    Candles \subseteq {b \in [o : Nat, h : Nat, l : Nat, c : Nat] :
                          {b.o, b.c} \subseteq b.l .. b.h}
ASSUME MultAssumption ==
    /\ {StopMult, TpMult, TrailMult, Slippage} \subseteq Nat
    /\ AtrPeriod \in Nat \ {0}

VARIABLES
    series,  \* the candles of the backtest
    signal,  \* Signal: its side and its index
    trade,   \* the locals of the simulation
    machine  \* a row of PositionStateMachine with the levels of the trade (oracle)

tradeVars == <<series, signal, trade, machine>>

NoTrade == [pc |-> "start", at |-> 0, entry |-> 0, atr |-> 0, state |-> "OPEN",
            rem |-> 2, realized |-> 0, ext |-> None, reason |-> "end_of_data"]
NoPosition == [state |-> "NONE", rem |-> 0, stop |-> 0, tp |-> 0,
               high |-> None, trail |-> None]

TradeInit ==
    /\ series \in UNION {[1 .. n -> Candles] : n \in 2 .. MaxCandles}
    /\ signal \in [side : {"buy", "sell"}, index : 1 .. MaxCandles]
    /\ signal.index <= Len(series)
    /\ trade = NoTrade
    /\ machine = NoPosition

-----------------------------------------------------------------------------
(* Prices from the point of view of the trade's side.                      *)

Short == signal.side = "sell"
Worst(b) == IF Short THEN b.h ELSE b.l
Best(b) == IF Short THEN b.l ELSE b.h
Against(p, level) == IF Short THEN p >= level ELSE p <= level
Reaches(p, level) == IF Short THEN p <= level ELSE p >= level
Further(a, b) == IF Reaches(a, b) THEN a ELSE b
Gain(t, p) == IF Short THEN t.entry - p ELSE p - t.entry

Gap(t, mult) == (t.atr * mult) \div 2
StopLevel(t) == IF Short THEN t.entry + Gap(t, StopMult)
                         ELSE Larger(t.entry - Gap(t, StopMult), 0)
TpLevel(t) == IF Short THEN Larger(t.entry - Gap(t, TpMult), 0)
                       ELSE t.entry + Gap(t, TpMult)
TrailLevel(t) == IF Short THEN t.ext + Gap(t, TrailMult)
                          ELSE Larger(t.ext - Gap(t, TrailMult), 0)

-----------------------------------------------------------------------------
(* The entry: the open of the candle after the signal.                     *)

Distance(a, b) == Larger(a - b, b - a)
TrueRange(i, first) ==
    LET close == series[IF i > first THEN i - 1 ELSE i].c
    IN  Larger(series[i].h - series[i].l,
               Larger(Distance(series[i].h, close), Distance(series[i].l, close)))

\* The mean true range of the window; a flat window gives 1e-9, here 1.
compute_atr ==
    LET first == Larger(1, signal.index - AtrPeriod + 1)
        window == first .. signal.index
        sum == SumFunctionOnSet([i \in window |-> TrueRange(i, first)], window)
    IN  Larger(sum \div (signal.index - first + 1), 1)

entry_price ==
    LET raw == series[signal.index + 1].o
    IN  IF Short THEN raw - (raw * Slippage) \div 100 ELSE raw + (raw * Slippage) \div 100

\* The two ValueErrors of the simulation: the job counts the signal as skipped.
SkipTrade ==
    /\ trade.pc = "start"
    /\ \/ signal.index + 1 > Len(series)
       \/ signal.index < Len(series) /\ entry_price <= 0
    /\ trade' = [trade EXCEPT !.pc = "skipped"]
    /\ UNCHANGED <<series, signal, machine>>

EnterTrade ==
    /\ trade.pc = "start"
    /\ signal.index < Len(series)
    /\ entry_price > 0
    /\ LET t == [trade EXCEPT !.pc = "walk", !.at = signal.index + 1,
                              !.entry = entry_price, !.atr = compute_atr]
       IN  /\ trade' = t
           /\ machine' = [state |-> "OPEN", rem |-> 2, stop |-> StopLevel(t), tp |-> TpLevel(t),
                       high |-> t.entry, trail |-> None]
    /\ UNCHANGED <<series, signal>>

-----------------------------------------------------------------------------
(* _simulate_long_trade and _simulate_short_trade.                         *)

CloseRest(t, p, why) ==
    [t EXCEPT !.pc = "done", !.rem = 0, !.realized = @ + Gain(t, p) * t.rem, !.reason = why]

CheckTrail(t, b) ==
    IF Against(Worst(b), TrailLevel(t)) THEN CloseRest(t, TrailLevel(t), "trailing_stop") ELSE t

TakeHalf(t, b) ==
    [t EXCEPT !.rem = t.rem \div 2, !.realized = @ + Gain(t, TpLevel(t)) * (t.rem \div 2),
              !.state = "HALF_CLOSED", !.ext = Further(Best(b), TpLevel(t))]

\* Mutant: the take profit is looked at before the stop.
MutWalkOpen(t, b) ==
    IF Reaches(Best(b), TpLevel(t)) THEN CheckTrail(TakeHalf(t, b), b)
    ELSE IF Against(Worst(b), StopLevel(t)) THEN CloseRest(t, StopLevel(t), "stop_loss")
    ELSE t

WalkOpen(t, b) ==
    IF Against(Worst(b), StopLevel(t)) THEN CloseRest(t, StopLevel(t), "stop_loss")
    ELSE IF Reaches(Best(b), TpLevel(t)) THEN CheckTrail(TakeHalf(t, b), b)
    ELSE t

WalkHalf(t, b) ==
    CheckTrail([t EXCEPT !.ext = Further(HighOr(@, Best(b)), Best(b))], b)

\* What the state machine makes of a price (decide and then apply).
SeePrice(row, p) ==
    LET d == decide(row, p, Gap(trade, TrailMult))
    IN  [row EXCEPT !.state = d.state, !.high = d.high, !.trail = d.trail,
                    !.rem = Larger(@ - d.qty, 0)]

WalkCandle ==
    /\ trade.pc = "walk"
    /\ trade.at <= Len(series)
    /\ LET b == series[trade.at]
           t == [trade EXCEPT !.at = @ + 1]
       IN  /\ trade' = IF t.state = "OPEN" THEN WalkOpen(t, b) ELSE WalkHalf(t, b)
           /\ machine' = SeePrice(SeePrice(SeePrice(machine, b.l), b.h), b.l)
    /\ UNCHANGED <<series, signal>>

EndOfData ==
    /\ trade.pc = "walk"
    /\ trade.at > Len(series)
    /\ trade' = CloseRest(trade, series[Len(series)].c, "end_of_data")
    /\ UNCHANGED <<series, signal, machine>>

TradeNext == SkipTrade \/ EnterTrade \/ WalkCandle \/ EndOfData

TradeSpec == TradeInit /\ [][TradeNext]_tradeVars

-----------------------------------------------------------------------------
\* No candle from the entry on touches zero.
PositivePrices == \A i \in signal.index + 1 .. Len(series) : series[i].l > 0

\* The two writings of the exit rules agree: with the same entry, levels and
\* trail, a simulated purchase holds, halves and closes exactly when the state
\* machine would, fed with the low, the high and the low of every candle, the
\* stop before the profit.  Only the backtest keeps a trailing stop from falling
\* below zero: a price of zero can tell the two apart when the trail is wider
\* than the profit.
SameLevelsSameExits ==
    ~Short /\ (TrailMult <= TpMult \/ PositivePrices) =>
        /\ trade.pc = "walk" => machine.rem = trade.rem /\ machine.state = trade.state
        /\ trade.reason # "end_of_data"
              => machine.state = "CLOSED" /\ (trade.reason = "stop_loss" <=> machine.trail = None)

\* However the candles fall, a simulated trade of either side that took no
\* profit ends no worse than its stop, and one that did gives back at most the
\* trail of the profit; with a trail of at most twice the profit, no trade ends
\* worse than its stop.  A short's low of zero counts as no low at all.
LossIsBounded ==
    trade.pc = "done" /\ (Short => PositivePrices) =>
        /\ trade.realized >= IF trade.state = "OPEN" THEN 2 * Gain(trade, StopLevel(trade))
                             ELSE 2 * Gain(trade, TpLevel(trade)) - Gap(trade, TrailMult)
        /\ TrailMult <= 2 * TpMult => trade.realized >= 2 * Gain(trade, StopLevel(trade))

\* The exits of a simulated trade: those of the state machine, at bounded loss.
SimulatedExits == SameLevelsSameExits /\ LossIsBounded

=============================================================================
