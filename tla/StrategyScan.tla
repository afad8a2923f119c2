---------------------------- MODULE StrategyScan ----------------------------
(***************************************************************************)
(* The strategies (app/strategies): what StrategyRegistry.scan finds when  *)
(* loop B has stored a candle, and what a backtest of the dashboard finds  *)
(* on the same candles later (_start_manual_backtest in app/main.py).      *)
(* Loop B shows the strategies the newest candles and the time of the      *)
(* scan, the backtest all candles of its range up to one, and that one's   *)
(* time.                                                                   *)
(*                                                                         *)
(* Prices are integers and every ratio is compared by cross-multiplying.   *)
(* A time is a number of half minutes, since loop B never scans exactly at *)
(* the second at which a minute begins.                                    *)
(***************************************************************************)
EXTENDS Integers, Sequences, SequencesExt, FiniteSetsExt

CONSTANTS
    Shapes,    \* candles [o, h, l, c, v] that may arrive
    MaxStored, \* bound on the candles stored
    Recent,    \* limit of list_recent in loop B
    FastEma, MidEma, SlowEma,  \* the 5, 20 and 60 of EmaPullbackStrategy
    Lookback,  \* the 20 volumes of its filter and of VolumeSurgeStrategy
    Starts,    \* minutes at which the first candle may begin
    MaxLate    \* slots a scan may come after the one its newest candle began in

ASSUME EmaAssumption ==
    {FastEma, MidEma, SlowEma, Lookback} \subseteq Nat \ {0} /\ SlowEma <= Recent
ASSUME FeedAssumption ==
    /\ Starts \subseteq Nat /\ MaxLate \in Nat /\ MaxStored \in Nat /\ Recent \in Nat
    /\ Lookback < Recent
    /\ \A b \in Shapes : b.l <= b.o /\ b.o <= b.h /\ b.l <= b.c /\ b.c <= b.h

VARIABLES
    frame,  \* the timeframe that is watched
    begins, \* minute at which the first candle begins
    stored, \* the candles in the table
    seen    \* the last scan: its candle, its time and the signals it queued

scanVars == <<frame, begins, stored, seen>>

NoScan == [index |-> 0, now |-> 0, signals |-> {}]
Frames == [gap |-> "3m", breakout |-> "3m", surge |-> "3m", ema |-> "15m", pivot |-> "15m"]

Minutes == IF frame = "3m" THEN 3 ELSE 15

ScanInit ==
    /\ frame \in {"3m", "15m"}
    /\ begins \in Starts /\ begins % Minutes = 0
    /\ stored = <<>>
    /\ seen = NoScan

TimeOf(i) == 2 * (begins + (i - 1) * Minutes)

-----------------------------------------------------------------------------
(* The strategies.  Each looks at a window of candles, the last one the    *)
(* newest, and answers buy, sell or none.                                  *)

Clock(h, m) == 2 * (60 * h + m)
ActiveHours ==
    [gap |-> {<<Clock(8, 0), Clock(9, 0)>>, <<Clock(9, 0), Clock(9, 30)>>},
     ema |-> {<<Clock(9, 0), Clock(15, 20)>>},
     breakout |-> {<<Clock(9, 0), Clock(15, 20)>>},
     surge |-> {<<Clock(9, 0), Clock(15, 20)>>, <<Clock(15, 30), Clock(20, 0)>>},
     pivot |-> {<<Clock(9, 0), Clock(15, 20)>>}]
is_active_time(s, now) == \E x \in ActiveHours[s] : x[1] <= now /\ now <= x[2]

Newest(w) == w[Len(w)]
Previous(w) == w[Len(w) - 1]
Apart(a, b) == IF a > b THEN a - b ELSE b - a
Volume(w) == MapThenSumSet(LAMBDA i : w[i].v, DOMAIN w)

gap_momentum(w) ==
    LET close == Previous(w).c
        open == Newest(w).o
    IN  IF close <= 0 \/ 100 * Apart(open, close) < 2 * close THEN "none"
        ELSE IF open > close THEN "buy" ELSE "sell"

\* The exponential mean as a fraction: the plain mean of the first p closes,
\* then (2 * close + (p - 1) * mean) / (p + 1).
ema(w, p) ==
    FoldLeft(LAMBDA mean, b : [num |-> 2 * b.c * mean.den + (p - 1) * mean.num,
                               den |-> (p + 1) * mean.den],
             [num |-> MapThenSumSet(LAMBDA i : w[i].c, 1 .. p), den |-> p],
             SubSeq(w, p + 1, Len(w)))
Above(x, y) == x.num * y.den > y.num * x.den

ema_pullback(w) ==
    LET mid == ema(w, MidEma)
        volume == Volume(SubSeq(w, Len(w) - Lookback + 1, Len(w) - 1))
    IN  IF /\ Len(w) >= SlowEma
           /\ Above(ema(w, FastEma), mid) /\ Above(mid, ema(w, SlowEma))
           /\ 100 * Apart(Newest(w).c * mid.den, mid.num) <= mid.num
           /\ Len(w) >= Lookback /\ volume > 0 => Newest(w).v * (Lookback - 1) >= volume
        THEN "buy" ELSE "none"

\* k = 0.5.
volatility_breakout(w) ==
    LET target == 3 * Previous(w).h - Previous(w).l
    IN  IF 2 * Newest(w).h >= target /\ 2 * Newest(w).c >= target THEN "buy" ELSE "none"

volume_surge(w) ==
    LET volume == Volume(SubSeq(w, Len(w) - Lookback, Len(w) - 1))
    IN  IF /\ Len(w) > Lookback
           /\ volume > 0 /\ Newest(w).v * Lookback >= 3 * volume
           /\ Previous(w).c > 0
           /\ 100 * (Newest(w).c - Previous(w).c) >= Previous(w).c
        THEN "buy" ELSE "none"

\* Three times the resistance and three times the support of the pivot.
support_resistance(w) ==
    LET prev == Previous(w)
        last == Newest(w)
        twice == 2 * (prev.h + prev.l + prev.c)
        resistance == twice - 3 * prev.l
        support == twice - 3 * prev.h
        breakout == 3 * last.c >= resistance /\ last.v >= prev.v
        rebound == /\ support > 0
                   /\ 1000 * Apart(3 * last.l, support) <= 3 * support
                   /\ 3 * last.c > support /\ last.c >= last.o
    IN  IF breakout \/ rebound THEN "buy" ELSE "none"

generate(s, w, now) ==
    IF ~is_active_time(s, now) \/ Len(w) < 2 THEN "none"
    ELSE CASE s = "gap" -> gap_momentum(w)
           [] s = "ema" -> ema_pullback(w)
           [] s = "breakout" -> volatility_breakout(w)
           [] s = "surge" -> volume_surge(w)
           [] s = "pivot" -> support_resistance(w)

for_timeframe(f) == {s \in DOMAIN Frames : Frames[s] = f}
scan(f, w, now) ==
    {x \in for_timeframe(f) \X {"buy", "sell"} : generate(x[1], w, now) = x[2]}

-----------------------------------------------------------------------------
(* Loop B stores candles and scans; the table is all a backtest needs.     *)

list_recent(limit) == SubSeq(stored, IF Len(stored) > limit THEN Len(stored) - limit + 1 ELSE 1,
                             Len(stored))

CandleArrives(b) ==
    /\ Len(stored) < MaxStored
    /\ stored' = Append(stored, b)
    /\ UNCHANGED <<frame, begins, seen>>

\* Within the minute a slot begins in.  The newest candle may have begun with
\* the slot or `late' slots earlier: a scan may also meet the one of the last.
run_for_timeframe(late) ==
    /\ stored # <<>>
    /\ LET now == TimeOf(Len(stored) + late) + 1
       IN  /\ now > seen.now
           /\ seen' = [index |-> Len(stored), now |-> now,
                       signals |-> scan(frame, list_recent(Recent), now)]
    /\ UNCHANGED <<frame, begins, stored>>

ScanNext == (\E b \in Shapes : CandleArrives(b)) \/ (\E late \in 0 .. MaxLate : run_for_timeframe(late))

ScanSpec == ScanInit /\ [][ScanNext]_scanVars

\* Mutant: the window of a candle reaches to the one after it.
MutManualSignal(s, i) == generate(s, SubSeq(stored, 1, i + 1), TimeOf(i))

\* What a backtest over the whole table finds on candle i, for i before the last.
ManualSignal(s, i) == generate(s, SubSeq(stored, 1, i), TimeOf(i))

-----------------------------------------------------------------------------
\* A backtest knows no more and no less than the live scan did: on the candle
\* loop B scanned it finds the same signals, whatever candles came later, for
\* every strategy that was in its hours at both times.  The pullback's means
\* begin where the window begins, so for it the window must hold all candles.
SimulatedSignals ==
    \A s \in for_timeframe(frame) :
        /\ seen.index # 0 /\ seen.index < Len(stored)
        /\ is_active_time(s, seen.now) /\ is_active_time(s, TimeOf(seen.index))
        /\ s = "ema" => seen.index <= Recent
        => \A side \in {"buy", "sell"} :
               <<s, side>> \in seen.signals <=> ManualSignal(s, seen.index) = side

=============================================================================
