----------------------------- MODULE MCBacktest ------------------------------
(* Backtests: the table of jobs with its scheduler, a simulated trade, and *)
(* the signals a backtest starts from.  A job's outcome does not depend on *)
(* the prices of its trades, nor a trade on the strategy that found it, so *)
(* a behaviour is one of the three, and the others rest.                   *)
EXTENDS Backtest

VARIABLE part

Bar(o, h, l, c) == [o |-> o, h |-> h, l |-> l, c |-> c]
Bars == {Bar(100, 110, 90, 100), Bar(100, 130, 98, 126), Bar(104, 106, 70, 80),
         Bar(100, 140, 60, 100), Bar(0, 100, 0, 100), Bar(100, 124, 99, 100),
         Bar(100, 100, 100, 100)}

WithVolume(b, v) == b @@ [v |-> v]
FeedBars == {WithVolume(Bar(100, 101, 99, 100), 1), WithVolume(Bar(103, 106, 103, 106), 9),
             WithVolume(Bar(97, 98, 96, 97), 1), WithVolume(Bar(100, 102, 100, 101), 2)}

vars == <<jobsVars, tradeVars, scanVars, part>>

Init ==
    /\ JobsInit /\ ScanInit
    /\ \/ part = "trade" /\ TradeInit
       \/ /\ part \in {"jobs", "scan"}
          /\ series = <<>> /\ signal = [side |-> "buy", index |-> 1]
          /\ trade = NoTrade /\ machine = NoPosition
    /\ part # "scan" => frame = "3m" /\ begins = Min(Starts)

Next ==
    /\ \/ part = "jobs" /\ JobsNext /\ UNCHANGED <<tradeVars, scanVars>>
       \/ part = "trade" /\ TradeNext /\ UNCHANGED <<jobsVars, scanVars>>
       \/ part = "scan" /\ ScanNext /\ UNCHANGED <<jobsVars, tradeVars>>
    /\ UNCHANGED part

Spec == Init /\ [][Next]_vars /\ WF_vars(JobsMove /\ UNCHANGED <<tradeVars, scanVars, part>>)

=============================================================================
