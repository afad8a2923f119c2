--------------------------- MODULE PositionMachine ---------------------------
(***************************************************************************)
(* PositionStateMachine.decide (app/orders/state_machine.py): what a       *)
(* position does at a price.  Loop A decides with it on the rows of the    *)
(* positions table; the backtest claims to trade by the same rules.  A row *)
(* has state, rem, stop, tp, high and trail; quantities are in half shares.*)
(***************************************************************************)
EXTENDS Integers

None == -1

Larger(a, b) == IF a >= b THEN a ELSE b

\* `highest_price or current_price': a high of zero counts as missing.
HighOr(h, p) == IF h \in {None, 0} THEN p ELSE h

Keep(row) == [state |-> row.state, qty |-> 0, high |-> row.high, trail |-> row.trail]

\* Mutant: half is sold at the take profit and the row stays OPEN.
MutDecideOpen(row, p, gap) ==
    IF p <= row.stop
    THEN [state |-> "CLOSED", qty |-> row.rem, high |-> row.high, trail |-> row.trail]
    ELSE [state |-> "OPEN", qty |-> IF p >= row.tp THEN row.rem \div 2 ELSE 0,
          high |-> row.high, trail |-> row.trail]

DecideOpen(row, p, gap) ==
    IF p <= row.stop
    THEN [state |-> "CLOSED", qty |-> row.rem, high |-> row.high, trail |-> row.trail]
    ELSE IF p >= row.tp
    THEN [state |-> "HALF_CLOSED", qty |-> row.rem \div 2, high |-> p, trail |-> p - gap]
    ELSE Keep(row)

\* Mutant: a position that keeps its second half is written back as OPEN.
MutDecideHalf(row, p, gap) ==
    LET high == Larger(HighOr(row.high, p), p)
        trail == high - gap
        hit == p <= trail
    IN  [state |-> IF hit THEN "CLOSED" ELSE "OPEN",
         qty |-> IF hit THEN row.rem ELSE 0,
         high |-> high, trail |-> trail]

DecideHalf(row, p, gap) ==
    LET high == Larger(HighOr(row.high, p), p)
        trail == high - gap
        hit == p <= trail
    IN  [state |-> IF hit THEN "CLOSED" ELSE "HALF_CLOSED",
         qty |-> IF hit THEN row.rem ELSE 0,
         high |-> high, trail |-> trail]

decide(row, p, gap) ==
    CASE row.state = "OPEN" -> DecideOpen(row, p, gap)
      [] row.state = "HALF_CLOSED" -> DecideHalf(row, p, gap)
      [] OTHER -> Keep(row)

=============================================================================
