------------------------------ MODULE Backtest -------------------------------
(***************************************************************************)
(* A backtest of the dashboard (_start_manual_backtest in app/main.py): it *)
(* enters on the signals a strategy finds in the stored candles and walks  *)
(* a trade from each of them, in a job of the job table.                   *)
(***************************************************************************)
EXTENDS BacktestJobs, TradeSimulation, StrategyScan

\* A backtest applies the rules of live trading: it enters on the signals loop B
\* found on the same candles, and a purchase leaves where the state machine would
\* let it at the levels of the simulation.  The levels of a live entry differ.
SameSignalsSameExits == SimulatedSignals /\ SimulatedExits

=============================================================================
