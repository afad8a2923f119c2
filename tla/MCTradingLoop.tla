---------------------------- MODULE MCTradingLoop ----------------------------
(* Instances of loop A.  Entry 10 puts the stop at 7 and the take profit   *)
(* at 14; the prices cross both.  The gaps can be hit from the highs, and  *)
(* the gap 12 puts the trail of a half-closed row under the stop.          *)
EXTENDS TradingLoop

CONSTANTS bg, api, s1, s2

AllFaults == FaultKinds

=============================================================================
