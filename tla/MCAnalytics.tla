----------------------------- MODULE MCAnalytics -----------------------------
(* The performance tables, the incident reports and the live preflight.    *)
(* A behaviour is one of the tables, of the reports or of the preflight,   *)
(* and the others rest; those of the last two are behaviours of            *)
(* OperatorSpec, which lets reports and preflight interleave.              *)
EXTENDS PerformanceBook, LivePreflight

CONSTANTS s1, s2, c1, c2

VARIABLE part

Kind(s, b, c, x) == [strat |-> s, base |-> b, closed |-> c, pnl |-> x]
TradeKinds == {Kind(s1, 1, TRUE, 1), Kind(s1, 30, TRUE, -3),
               Kind(s2, 0, TRUE, 1), Kind(s1, 1, FALSE, 0)}
ClosedOnes == {[strat |-> s1, t |-> 1], [strat |-> s1, t |-> 3]}

vars == <<bookVars, reportVars, preflightVars, part>>

Init ==
    /\ part \in {"book", "reports", "preflight"}
    /\ BookInit /\ ReportInit /\ PreflightInit
    /\ part # "preflight" => mode /\ running /\ tickers

Next ==
    /\ \/ part = "book" /\ BookNext /\ UNCHANGED <<reportVars, preflightVars>>
       \/ /\ part = "reports"
          /\ OthersFail \/ (Reporting /\ UNCHANGED preflightVars)
          /\ UNCHANGED bookVars
       \/ part = "preflight" /\ PreflightNext /\ UNCHANGED bookVars
    /\ UNCHANGED part

Spec == Init /\ [][Next]_vars

=============================================================================
