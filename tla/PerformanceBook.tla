--------------------------- MODULE PerformanceBook ---------------------------
(***************************************************************************)
(* The performance tables and what is computed from them:                  *)
(* PerformanceService and PerformanceRepository (account snapshots, cash   *)
(* flows, their detection, the time weighted return, the equity curve),    *)
(* PaperRepository's trades, StrategyPerformanceService and                *)
(* PaperReportService.  Requests run on pool threads: rows may arrive      *)
(* between two statements of a detection.  The queries order by time only, *)
(* so rows of one time come in an order that is open at every query.       *)
(*                                                                         *)
(* Times and amounts are integers; a rate is compared by cross-multiplying.*)
(***************************************************************************)
EXTENDS Integers, Sequences, SequencesExt, FiniteSetsExt

CONSTANTS
    Times,      \* times of snapshots, flows and trades
    Assets,     \* values of total_assets
    Amounts,    \* amounts of flows recorded by hand
    Trades,     \* trades that may be stored: [strat, base, closed, pnl]
    Thresholds, \* min_amount of a detection
    Tolerance,  \* tolerance_seconds of has_cash_flow_near
    DayLength,  \* length of a day
    MinSignals, \* PaperPassCriteria.min_signals
    MinDays,    \* PaperPassCriteria.min_days
    Capital,    \* PaperReportService.initial_capital
    Positions,  \* closed positions: [strat, t]
    MatchWithin, \* the 48 hours of _find_nearest_closed_position
    MaxSnaps, MaxFlows, MaxTrades, MaxRuns,
    MaxRows     \* bounds of the instance; MaxRows on what is stored by hand

ASSUME TimesAssumption == Times \subseteq Int /\ IsFiniteSet(Times) /\ Tolerance \in Nat
ASSUME ThresholdAssumption == Thresholds \subseteq Nat \ {0}
ASSUME AmountsAssumption == Assets \cup Amounts \subseteq Int /\ \A x \in Trades : x.pnl \in Int

VARIABLES
    snaps,    \* rebuild_account_snapshots: [id, t, assets]
    flows,    \* rebuild_cash_flows: [id, t, amount, by, from]; from, history, is
              \* the time of the snapshot before the change
    trades,   \* paper_trades: [id, t, strat, base, closed, pnl]
    det,      \* the detection that runs: pc, the list it read, its place in it
    settled,  \* threshold and list of the last full detection nothing was written
              \* since
    inOrder,  \* history: every snapshot was later than all before it
    runs      \* detections started

bookVars == <<snaps, flows, trades, det, settled, inOrder, runs>>

NoDetection == [pc |-> "idle", list |-> << >>, at |-> 0, limit |-> 0, amount |-> 0, full |-> FALSE]
Unsettled == [list |-> << >>, limit |-> 0]

BookInit ==
    /\ snaps = {} /\ flows = {} /\ trades = {}
    /\ det = NoDetection
    /\ settled = Unsettled
    /\ inOrder = TRUE
    /\ runs = 0

-----------------------------------------------------------------------------
(* Rows, and the queries on them.                                          *)

Within(S, lo, hi) == {x \in S : lo <= x.t /\ x.t <= hi}
list_snapshots(lo, hi) == Within(snaps, lo, hi)
list_cash_flows(lo, hi) == Within(flows, lo, hi)
list_trades(lo, hi) == Within(trades, lo, hi)
count_snapshots(lo, hi) == Cardinality(Within(snaps, lo, hi))
count_cash_flows(lo, hi) == Cardinality(Within(flows, lo, hi))
count_trades(lo, hi, S) == Cardinality({x \in Within(trades, lo, hi) : x.strat \in S})
Earliest == Min(Times)

Between(S, t1, t2) == {x \in S : t1 < x.t /\ x.t <= t2}
UpTo(S, hi) == {x \in S : x.t <= hi}
Total(S) == SumFunction([x \in S |-> x.amount])
PnlOf(S) == SumFunction([x \in S |-> x.pnl])

\* The closed trades among some rows, after t1 and up to t2.
RealizedIn(rows, t1, t2) == PnlOf({x \in Between(rows, t1, t2) : x.closed})
sum_realized_pnl(t1, t2) == RealizedIn(list_trades(t1, t2), t1, t2)

has_cash_flow_near(t) == \E f \in flows : t - Tolerance <= f.t /\ f.t <= t + Tolerance

\* The lists ORDER BY the time may return for some rows.
Ordered(S) ==
    {list \in [1 .. Cardinality(S) -> S] :
        IsInjective(list) /\ \A i, j \in DOMAIN list : i < j => list[i].t <= list[j].t}

Room == Cardinality(snaps) + Cardinality({f \in flows : f.by = "manual"})
            + Cardinality(trades) < MaxRows

\* A row with an id of its own; all that matters of an id is that it tells equal
\* rows apart.
NewRow(S, row) ==
    [row EXCEPT !.id = CHOOSE n \in 0 .. Cardinality(S) : [row EXCEPT !.id = n] \notin S]

create_snapshot(t, a) == [id |-> 0, t |-> t, assets |-> a]

record_snapshot(t, a) ==
    /\ Room
    /\ Cardinality(snaps) < MaxSnaps
    /\ snaps' = snaps \cup {NewRow(snaps, create_snapshot(t, a))}
    /\ inOrder' = (inOrder /\ \A s \in snaps : s.t < t)
    /\ settled' = Unsettled
    /\ det' = [det EXCEPT !.full = FALSE]
    /\ UNCHANGED <<flows, trades, runs>>

create_cash_flow(t, amount, by, from) ==
    [id |-> 0, t |-> t, amount |-> amount, by |-> by, from |-> from]

record_cash_flow(t, amount) ==
    /\ Room
    /\ Cardinality(flows) < MaxFlows
    /\ flows' = flows \cup {NewRow(flows, create_cash_flow(t, amount, "manual", t))}
    /\ settled' = Unsettled
    /\ det' = [det EXCEPT !.full = FALSE]
    /\ UNCHANGED <<snaps, trades, inOrder, runs>>

create_trade(t, x) ==
    /\ Room
    /\ Cardinality(trades) < MaxTrades
    /\ trades' = trades \cup {NewRow(trades, [id |-> 0, t |-> t, strat |-> x.strat, base |-> x.base,
                                         closed |-> x.closed, pnl |-> x.pnl])}
    /\ settled' = Unsettled
    /\ det' = [det EXCEPT !.full = FALSE]
    /\ UNCHANGED <<snaps, flows, inOrder, runs>>

-----------------------------------------------------------------------------
(* detect_cash_flows: the list is read once, every flow commits by itself. *)

Reading(list, limit, full) ==
    [det EXCEPT !.pc = "check", !.list = list, !.at = 2, !.limit = limit, !.full = full]

StartDetection(lo, hi, limit) ==
    /\ det.pc = "idle"
    /\ runs < MaxRuns
    /\ Cardinality(list_snapshots(lo, hi)) >= 2
    /\ \E list \in Ordered(list_snapshots(lo, hi)) :
           det' = Reading(list, limit, list_snapshots(lo, hi) = snaps)
    /\ runs' = runs + 1
    /\ UNCHANGED <<snaps, flows, trades, settled, inOrder>>

\* The pairs of zip(snapshots, snapshots[1:]), by the place of the later one.
PairAt(list, i) == <<list[i - 1], list[i]>>
Inferred(p) == p[2].assets - p[1].assets - sum_realized_pnl(p[1].t, p[2].t)
Size(x) == IF x < 0 THEN -x ELSE x

\* Mutant: a flow is looked for near the snapshot before the change.
MutExplained(p, limit) == Size(Inferred(p)) < limit \/ has_cash_flow_near(p[1].t)

Explained(p, limit) == Size(Inferred(p)) < limit \/ has_cash_flow_near(p[2].t)

Advance(at) ==
    LET ends == at > Len(det.list)
    IN  /\ det' = IF ends THEN NoDetection
                           ELSE [det EXCEPT !.pc = "check", !.at = at, !.amount = 0]
        /\ settled' = IF ends /\ det.full THEN [list |-> det.list, limit |-> det.limit] ELSE settled

PairExplained ==
    /\ det.pc = "check"
    /\ Explained(PairAt(det.list, det.at), det.limit)
    /\ Advance(det.at + 1)
    /\ UNCHANGED <<snaps, flows, trades, inOrder, runs>>

PairInferred ==
    /\ det.pc = "check"
    /\ ~Explained(PairAt(det.list, det.at), det.limit)
    /\ det' = [det EXCEPT !.pc = "create", !.amount = Inferred(PairAt(det.list, det.at))]
    /\ UNCHANGED <<snaps, flows, trades, settled, inOrder, runs>>

CreateFlow ==
    /\ det.pc = "create"
    /\ Cardinality(flows) < MaxFlows + MaxSnaps
    /\ flows' = flows \cup {NewRow(flows, create_cash_flow(det.list[det.at].t, det.amount, "auto",
                                                           det.list[det.at - 1].t))}
    /\ Advance(det.at + 1)
    /\ UNCHANGED <<snaps, trades, inOrder, runs>>

\* SQLAlchemyError: the flows created so far stay, the answer counts none.
DetectionFails ==
    /\ det.pc # "idle"
    /\ det' = NoDetection
    /\ UNCHANGED <<snaps, flows, trades, settled, inOrder, runs>>

BookNext ==
    \/ \E t \in Times, a \in Assets : record_snapshot(t, a)
    \/ \E t \in Times, x \in Amounts : record_cash_flow(t, x)
    \/ \E t \in Times, x \in Trades : create_trade(t, x)
    \/ \E lo, hi \in Times, x \in Thresholds : StartDetection(lo, hi, x)
    \/ PairExplained \/ PairInferred \/ CreateFlow \/ DetectionFails

BookSpec == BookInit /\ [][BookNext]_bookVars

-----------------------------------------------------------------------------
(* The time weighted return and the equity curve of a range of times.      *)

GrossOf(p, F) == [num |-> Max({p[2].assets - Total(Between(F, p[1].t, p[2].t)), 0}),
                  den |-> p[1].assets]
Product(f) == FoldFunction(LAMBDA a, b : a * b, 1, f)

compute_twr(list, F) ==
    LET counted == {i \in 2 .. Len(list) : list[i - 1].assets > 0}
    IN  [num |-> Product([i \in counted |-> GrossOf(PairAt(list, i), F).num]),
         den |-> Product([i \in counted |-> GrossOf(PairAt(list, i), F).den])]

twr_report(list, F) ==
    LET made == list[Len(list)].assets - list[1].assets - Total(F)
        realized == sum_realized_pnl(list[1].t, list[Len(list)].t)
    IN  IF Len(list) < 2
        THEN [twr |-> [num |-> 1, den |-> 1], pnl |-> 0, drift |-> 0]
        ELSE [twr |-> compute_twr(list, F), pnl |-> made, drift |-> made - realized]

\* Mutant: a period that begins with nothing still compounds.
MutCurvePoint(list, F, prev, i) ==
    [num |-> prev.num * GrossOf(PairAt(list, i), F).num,
     den |-> prev.den * Max({list[i - 1].assets, 1}),
     pnl |-> list[i].assets - Total(UpTo(F, list[i].t)) - prev.base,
     base |-> prev.base]

CurvePoint(list, F, prev, i) ==
    LET g == GrossOf(PairAt(list, i), F)
        counts == list[i - 1].assets > 0
    IN  [num |-> IF counts THEN prev.num * g.num ELSE prev.num,
         den |-> IF counts THEN prev.den * g.den ELSE prev.den,
         pnl |-> list[i].assets - Total(UpTo(F, list[i].t)) - prev.base,
         base |-> prev.base]

\* The last item of the curve: flows up to a snapshot are taken out of its
\* assets, and the first snapshot less its flows is the base line.
equity_curve(list, F) ==
    LET start == list[1].assets - Total(UpTo(F, list[1].t))
        point[i \in 1 .. Len(list)] ==
            IF i = 1 THEN [num |-> 1, den |-> 1, pnl |-> 0, base |-> start]
                     ELSE CurvePoint(list, F, point[i - 1], i)
    IN  point[Len(list)]

-----------------------------------------------------------------------------
(* StrategyPerformanceService.report and PaperReportService.build_report.  *)

Strategies == {x.strat : x \in Trades}
Closed == {x \in trades : x.closed}
RowsOf(s) == {x \in Closed : x.strat = s}
compute(s) ==
    [trades |-> Cardinality(RowsOf(s)),
     total |-> PnlOf(RowsOf(s)),
     profit |-> PnlOf({x \in RowsOf(s) : x.pnl > 0}),
     loss |-> -PnlOf({x \in RowsOf(s) : x.pnl < 0})]

\* The sort keys total_pnl and profit_factor; without a loss the factor is
\* None and counts as minus infinity.
Higher(a, b, key) ==
    CASE key = "total_pnl" -> compute(a).total > compute(b).total
      [] key = "profit_factor" ->
             /\ compute(a).loss > 0
             /\ compute(b).loss > 0
                    => compute(a).profit * compute(b).loss > compute(b).profit * compute(a).loss

\* A stable sort of the groups, which appear in the order of their trades.
Appears(list, s) == Min({i \in DOMAIN list : list[i] \in RowsOf(s)})
Before(list, a, b, key, reverse) ==
    \/ IF reverse THEN Higher(a, b, key) ELSE Higher(b, a, key)
    \/ /\ ~Higher(a, b, key) /\ ~Higher(b, a, key)
       /\ Appears(list, a) < Appears(list, b)

Page(list, offset, limit) ==
    SubSeq(list, offset + 1, IF offset + limit < Len(list) THEN offset + limit ELSE Len(list))

\* An answer: one page, and how many rows there are on all of them.  Here and
\* below, list is the order in which the database gives the rows to the request.
Answer(total, list, offset, limit) == [total |-> total, items |-> Page(list, offset, limit)]

report(list, minTrades, key, reverse, offset, limit) ==
    LET listed == {s \in Strategies : RowsOf(s) # {} /\ compute(s).trades >= minTrades}
    IN  Answer(Cardinality(listed),
               SetToSortSeq(listed, LAMBDA a, b : Before(list, a, b, key, reverse)), offset, limit)

list_snapshot_records(list, lo, hi, offset, limit) ==
    Answer(count_snapshots(lo, hi), list, offset, limit)

list_cash_flow_records(list, lo, hi, offset, limit) ==
    Answer(count_cash_flows(lo, hi), list, offset, limit)

\* The dashboard asks by page, from 1 on.
Offset(page, size) == (Max({page, 1}) - 1) * size
total_pages(total, size) == IF total > 0 THEN (total + size - 1) \div size ELSE 0

dashboard_snapshots(list, page, size) ==
    list_snapshot_records(list, Earliest, Max(Times), Offset(page, size), size)
dashboard_strategy_performance(list, page, size, key, reverse) ==
    report(list, 1, key, reverse, Offset(page, size), size)

\* The system route takes an offset; this is its caller's page.
list_performance_cash_flows(list, page, size) ==
    list_cash_flow_records(list, Earliest, Max(Times), Offset(page, size), size)

\* The position a trade is shown with: of those of its strategy the one closed
\* nearest to it, the earlier of two, unless it is too far away.
Unmatched == -1
find_nearest_closed_position(x) ==
    LET own == {p \in Positions : p.strat = x.strat}
        near == {p \in own : \A q \in own : Size(p.t - x.t) <= Size(q.t - x.t)}
        first == Min({p.t : p \in near})
    IN  IF own # {} /\ Size(first - x.t) <= MatchWithin THEN first ELSE Unmatched

\* Trades of the strategies S, newest first.
NewestFirst(S) ==
    {Reverse(list) : list \in Ordered({x \in list_trades(Earliest, Max(Times)) : x.strat \in S})}
dashboard_trades(list, page, size, S) ==
    Answer(count_trades(Earliest, Max(Times), S),
           [i \in DOMAIN list |-> [trade |-> list[i], closed |-> find_nearest_closed_position(list[i])]],
           Offset(page, size), size)

\* What a user may see who turns the pages up to the last: every page is a
\* request, which takes one of the orders.
Shown(answer(_, _), orders, size) ==
    LET pages == total_pages(answer(CHOOSE list \in orders : TRUE, 1).total, size)
        turned[page \in 0 .. pages] ==
            IF page = 0 THEN {<< >>}
            ELSE {turn[1] \o answer(turn[2], page).items : turn \in turned[page - 1] \X orders}
    IN  turned[pages]

ShownSnapshots(size) ==
    Shown(LAMBDA list, page : dashboard_snapshots(list, page, size), Ordered(snaps), size)

\* avg / std * sqrt(n) >= 1 without the root, for returns on the entry value of
\* each trade, brought to one denominator.
SharpeAtLeastOne(S) ==
    LET n == Cardinality(S)
        whole == Product([x \in S |-> x.base])
        return == [x \in S |-> x.pnl * (whole \div x.base)]
        sum == SumFunction(return)
    IN  /\ n >= 2
        /\ sum > 0
        /\ (n + 1) * sum * sum >= n * SumFunction([x \in S |-> return[x] * return[x]])

\* Mutant: the drawdown is taken against the peak before the last trade.
MutDrawdownStep(s, pnl) ==
    LET e == s.equity + pnl
    IN  [equity |-> e, peak |-> Max({s.peak, e}),
         worst |-> IF (s.peak - e) * s.worst.of > s.worst.drop * s.peak
                   THEN [drop |-> s.peak - s.equity, of |-> s.peak] ELSE s.worst]

DrawdownStep(s, pnl) ==
    LET e == s.equity + pnl
        peak == Max({s.peak, e})
    IN  [equity |-> e, peak |-> peak,
         worst |-> IF peak > 0 /\ (peak - e) * s.worst.of > s.worst.drop * peak
                   THEN [drop |-> peak - e, of |-> peak] ELSE s.worst]

max_drawdown(list, capital) ==
    FoldLeft(LAMBDA s, x : DrawdownStep(s, x.pnl),
             [equity |-> capital, peak |-> capital, worst |-> [drop |-> 0, of |-> 1]],
             list).worst

Day(x) == x.t \div DayLength
Days == IF trades = {} THEN 0 ELSE Max({Day(x) : x \in trades}) - Min({Day(x) : x \in trades}) + 1

\* health: position mismatches seen, cycles run and cycles that failed.
check_criteria(list, health) ==
    LET dd == max_drawdown(list, Capital)
        wins == Cardinality({x \in Closed : x.pnl > 0})
    IN  [min_signals |-> Cardinality(trades) >= MinSignals,
         min_operating_days |-> Days >= MinDays,
         win_rate |-> IF Closed = {} THEN FALSE ELSE 100 * wins >= 52 * Cardinality(Closed),
         sharpe_ratio |-> SharpeAtLeastOne({x \in Closed : x.base > 0}),
         mdd |-> 100 * dd.drop <= 15 * dd.of,
         position_mismatch_count |-> health.mismatches <= 0,
         error_rate |-> health.cycles <= 0 \/ 1000 * health.errors < health.cycles]
passed(list, health) ==
    LET checks == check_criteria(list, health) IN \A k \in DOMAIN checks : checks[k]

-----------------------------------------------------------------------------
\* What a detection books: two automatic flows are further apart than
\* has_cash_flow_near looks, whatever is recorded while a detection runs and
\* however often one is cut short and repeated, one at a time.
AutoFlowsApart ==
    \A f, g \in flows :
        f.by = "auto" /\ g.by = "auto" /\ f # g => Size(f.t - g.t) > Tolerance

\* As long as every snapshot is later than the ones before it, the stretches of
\* time whose change was booked do not overlap: no detection, over whatever
\* range, books again what another has booked.
StretchesApart ==
    inOrder =>
        \A f, g \in flows :
            f.by = "auto" /\ g.by = "auto" /\ f # g => f.t <= g.from \/ g.t <= f.from

\* When a detection over all snapshots has ended and nothing was written since,
\* one that reads the rows in the same order has nothing left to create.
DetectionSettles ==
    settled # Unsettled =>
        /\ settled.list \in Ordered(snaps)
        /\ \A i \in 2 .. Len(settled.list) : Explained(PairAt(settled.list, i), settled.limit)

\* detect_cash_flows, run as often as anybody likes, one at a time, on snapshots
\* and flows that keep coming: no change is detected twice while snapshots come
\* in the order of time, and a full run leaves nothing undetected.
ChangesDetectedOnce == AutoFlowsApart /\ StretchesApart /\ DetectionSettles

\* The report and the curve tell the same story of one range, read in the same
\* order: the same return, and the same gain when no flow lies outside the
\* snapshots it shows.
CurveMatchesReport ==
    \A lo, hi \in Times :
        LET S == list_snapshots(lo, hi)
            F == list_cash_flows(lo, hi)
        IN  Cardinality(S) >= 2 =>
              \A list \in Ordered(S) :
                 LET told == twr_report(list, F)
                     curve == equity_curve(list, F)
                 IN  /\ told.twr.num * curve.den = curve.num * told.twr.den
                     /\ (\A f \in F : \E s1, s2 \in S : s1.t < f.t /\ f.t <= s2.t)
                            => told.pnl = curve.pnl

Once(shown, row) == Cardinality({i \in DOMAIN shown : shown[i] = row}) = 1
Lone(row, S) == \A other \in S : other.t = row.t => other = row

\* Turning the pages of the dashboard up to the last shows as many snapshots as
\* there are, in the order of time, and every one that shares its time with no
\* other exactly once, however the database orders the rows of one time.
SnapshotPages(size) ==
    \A shown \in ShownSnapshots(size) :
        /\ Len(shown) = Cardinality(snaps)
        /\ \A i \in DOMAIN shown : shown[i] \in snaps
        /\ \A i, j \in DOMAIN shown : i < j => shown[i].t <= shown[j].t
        /\ \A s \in snaps : Lone(s, snaps) => Once(shown, s)

\* The pages of the strategies: unless two of them have the same value and began
\* at the same time, every one with closed trades appears once, best first, and
\* together they account for the profit of all closed trades.
StrategyPages(size) ==
    \A key \in {"total_pnl", "profit_factor"}, reverse \in BOOLEAN :
        LET began(s) == Min({x.t : x \in RowsOf(s)})
            twins == \E a, b \in {x.strat : x \in Closed} :
                        a # b /\ ~Higher(a, b, key) /\ ~Higher(b, a, key) /\ began(a) = began(b)
        IN  twins \/
            \A shown \in Shown(LAMBDA list, n : dashboard_strategy_performance(list, n, size, key, reverse),
                               Ordered(trades), size) :
                /\ IsInjective(shown)
                /\ MapThenSumSet(LAMBDA i : PnlOf(RowsOf(shown[i])), DOMAIN shown) = PnlOf(Closed)
                /\ \A i, j \in DOMAIN shown :
                       i < j => ~(IF reverse THEN Higher(shown[j], shown[i], key)
                                             ELSE Higher(shown[i], shown[j], key))

\* The pages of the trades of any choice of strategies: newest first, each lone
\* one once, with a position whenever one of its strategy closed near it.
TradePages(size) ==
    \A S \in {Strategies} \cup {{s} : s \in Strategies} :
        LET rows == {x \in trades : x.strat \in S}
        IN  \A shown \in Shown(LAMBDA list, n : dashboard_trades(list, n, size, S), NewestFirst(S), size) :
                /\ Len(shown) = Cardinality(rows)
                /\ \A x \in rows : Lone(x, rows) => Once([i \in DOMAIN shown |-> shown[i].trade], x)
                /\ \A i, j \in DOMAIN shown : i < j => shown[i].trade.t >= shown[j].trade.t
                /\ \A row \in ToSet(shown) :
                       row.closed = Unmatched <=>
                           \A p \in Positions : p.strat = row.trade.strat
                               => Size(p.t - row.trade.t) > MatchWithin

\* Page after page, up to the number of pages the dashboard shows, all rows.
PagesAccountForAll ==
    \A size \in 1 .. 2 :
        /\ StrategyPages(size) /\ SnapshotPages(size) /\ TradePages(size)
        /\ \A shown \in Shown(LAMBDA list, n : list_performance_cash_flows(list, n, size), Ordered(flows), size) :
                /\ Len(shown) = Cardinality(flows)
                /\ \A f \in flows : Lone(f, flows) => Once(shown, f)

\* The account after the first n closed trades.
Equity(list, n) == Capital + MapThenSumSet(LAMBDA i : list[i].pnl, 1 .. n)

\* The running drawdown of the paper report is the worst fall from an earlier
\* high of the account, over all pairs of moments.
DrawdownIsWorstFall ==
    \A list \in Ordered(Closed) :
        LET dd == max_drawdown(list, Capital)
        IN  \A i, j \in 0 .. Len(list) :
                i <= j => (Equity(list, i) - Equity(list, j)) * dd.of <= dd.drop * Equity(list, i)

\* Paper trading is never passed on thin evidence: a pass means two closed trades
\* with an entry value, more trades won than not, an account that never stood
\* more than 15 % below an earlier high, its start included, and no failing
\* runtime.  It does not mean a gain: returns are averaged without their sizes.
PassNeedsEvidence ==
    \A health \in [mismatches : 0 .. 1, cycles : {0, 1000}, errors : 0 .. 1], list \in Ordered(Closed) :
        passed(list, health) =>
            /\ Cardinality({x \in Closed : x.base > 0}) >= 2
            /\ 2 * Cardinality({x \in Closed : x.pnl > 0}) > Cardinality(Closed)
            /\ \A i, j \in 0 .. Len(list) :
                   i <= j => 100 * Equity(list, j) >= 85 * Equity(list, i)
            /\ health.mismatches = 0 /\ (health.cycles > 0 => health.errors = 0)

\* The figures of the paper report and of the strategies: complete, the true
\* worst case, and no verdict without evidence.  Said of the tables while no
\* detection runs: it may stop at any moment and leave them as they are.
PaperReportsAreSound ==
    det.pc = "idle" => PagesAccountForAll /\ DrawdownIsWorstFall /\ PassNeedsEvidence

=============================================================================
