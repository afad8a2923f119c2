----------------------------- MODULE MCLoopCycle -----------------------------
(* Instances of the cycle: the broker's clock may be a minute off.         *)
EXTENDS LoopCycle

AroundZero == {-1, 0, 1}

=============================================================================
