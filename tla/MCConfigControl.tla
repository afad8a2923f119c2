--------------------------- MODULE MCConfigControl ---------------------------
(* An instance of the settings: one key of every kind, a value that every  *)
(* rule forbids, and a symbol on each side of the two thresholds.          *)
EXTENDS ConfigControl, TLC

MCKeys == {"max_positions", "atr_period", "liquidity_threshold", "daily_base_capital", "bootstrap_enabled"}
MCKnown == MCKeys \ {"bootstrap_enabled"}
MCReadOnly == {"daily_base_capital"}
MCConfirmKeys == {"max_positions"}
MCWebOnly == {"atr_period"}
MCAllowed == [k \in MCKnown |-> {1, 2}]
MCDefault == [k \in MCKnown |-> IF k \in MCReadOnly THEN Absent ELSE 1]
MCTurnover == [s \in {"low", "high"} |-> IF s = "low" THEN 1 ELSE 2]
Symmetry == Permutations(Threads)

=============================================================================
