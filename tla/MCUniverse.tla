----------------------------- MODULE MCUniverse ------------------------------
(* The two tables of the universe.  Which rows are liquid is an input of   *)
(* the symbols, so a behaviour is one of the candles or of the symbols.    *)
EXTENDS CandleStore, UniverseTable

CONSTANTS x, y

VARIABLE part

\* Keys 1 and 2 are the daily and the minute candles of one ticker.
DailyThenMinutes == <<1, 2>>
DailyOnly == <<1>>
OneOfTwo == {{x}, {y}}
PlainAndBlocked == {NewSymbol, [NewSymbol EXCEPT !.active = TRUE, !.blocked = TRUE, !.status = "halted"]}

vars == <<candleVars, tableVars, part>>

Init ==
    /\ part \in {"candles", "symbols"}
    /\ CandleInit /\ TableInit
    /\ part = "candles" => liquid = {}

Next ==
    /\ \/ part = "candles" /\ CandleNext /\ UNCHANGED tableVars
       \/ part = "symbols" /\ TableNext /\ UNCHANGED candleVars
    /\ UNCHANGED part

\* Cycles come round to every key, the broker's answers are not all incomplete,
\* neither it nor the database fails every time, and the process does not die
\* each time in between.
Fairness ==
    \A k \in LoopKeys :
        /\ SF_vars(part = "candles" /\ SyncDue(k) /\ UNCHANGED <<tableVars, part>>)
        /\ SF_vars(part = "candles" /\ VisitAnswered(k) /\ UNCHANGED <<tableVars, part>>)
        /\ WF_vars(part = "candles" /\ VisitEnds(k) /\ UNCHANGED <<tableVars, part>>)
        /\ SF_vars(part = "candles" /\ VisitStored(k) /\ UNCHANGED <<tableVars, part>>)

Spec == Init /\ [][Next]_vars /\ Fairness

=============================================================================
