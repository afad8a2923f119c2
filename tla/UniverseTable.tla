---------------------------- MODULE UniverseTable ----------------------------
(***************************************************************************)
(* The symbols table (app/repositories/universe.py): its seeding at the    *)
(* start and its rebalancing (app/main.py), the operator's upserts and     *)
(* blocks, and the recomputation of the active tickers                     *)
(* (app/services/universe_bootstrap.py), beside the positions of loop A.   *)
(* Requests run on pool threads.  A session reads its rows, works on them  *)
(* and writes at its commit the columns it has changed, and only those     *)
(* (autoflush is off), so what others commit meanwhile is kept or lost     *)
(* column by column.                                                       *)
(***************************************************************************)
EXTENDS Integers, FiniteSets

CONSTANTS
    Symbols,   \* tickers
    Kospi200,  \* constituents of the two indexes the universe is made of
    Kosdaq150,
    Targets,   \* lists of tickers a manual rebalance may name
    Upserts,   \* rows an operator may upsert
    MaxCalls   \* bound on calls of the operator and of the services

Index == Kospi200 \cup Kosdaq150

ASSUME IndexAssumption == Index \subseteq Symbols /\ Kospi200 \cap Kosdaq150 = {} /\ MaxCalls \in Nat
ASSUME SizeAssumption == Kospi200 # {} /\ IsFiniteSet(Symbols)
ASSUME TargetAssumption == \A T \in Targets : T \subseteq Symbols /\ T # {}

UniverseStatus == {"normal", "exit_pending", "removed", "halted"}
Rows == [known : BOOLEAN, inU : BOOLEAN, active : BOOLEAN, blocked : BOOLEAN,
         status : UniverseStatus]

ASSUME UpsertAssumption == Upserts \subseteq {row \in Rows : row.known}

VARIABLES
    rows,   \* rows[t]: the row of t, or NoSymbol
    held,   \* tickers with an open position
    liquid, \* tickers with 20 daily candles and the average value asked for
    reb,    \* the rebalance: pc, the rows and positions it read, its target
    rec,    \* the recomputation: pc and the rows it read
    said,   \* history: tickers the operator has last asked to block
    last,   \* history: the last undisturbed rebalance, until the next change
    calls   \* calls so far

tableVars == <<rows, held, liquid, reb, rec, said, last, calls>>

NoSymbol == [known |-> FALSE, inU |-> FALSE, active |-> FALSE, blocked |-> FALSE,
             status |-> "normal"]
NewSymbol == [NoSymbol EXCEPT !.known = TRUE, !.inU = TRUE]
Unread == [t \in Symbols |-> NoSymbol]
NoRebalance == [pc |-> "idle", snap |-> Unread, open |-> {}, target |-> {}, alone |-> FALSE]
NoRecompute == [pc |-> "idle", snap |-> Unread, picks |-> {}]
NoneYet == [target |-> {}, before |-> {}, open |-> {}]

TableInit ==
    /\ rows = Unread
    /\ held = {} /\ said = {}
    /\ liquid \in SUBSET Symbols
    /\ reb = NoRebalance /\ rec = NoRecompute
    /\ last = NoneYet
    /\ calls = 0

-----------------------------------------------------------------------------
(* Queries of the repository.                                              *)

list_symbols(table) == {t \in Symbols : table[t].known}
count_symbols(table) == Cardinality(list_symbols(table))
list_universe_tickers(table) == {t \in list_symbols(table) : table[t].inU}
list_tracking_tickers == {t \in list_universe_tickers(rows) : rows[t].active}
list_trading_tickers ==
    {t \in list_tracking_tickers : ~rows[t].blocked /\ rows[t].status # "halted"}

\* fetch_prd_initial_universe_seed, when KRX shows the rows a and b: nothing
\* but the whole of both indexes will do, judged by their numbers.
fetch_seed(a, b) ==
    IF /\ Cardinality(a) = Cardinality(Kospi200) /\ Cardinality(b) = Cardinality(Kosdaq150)
       /\ Cardinality(a \cup b) = Cardinality(Kospi200) + Cardinality(Kosdaq150)
    THEN a \cup b ELSE {}
Seeds == {fetch_seed(a, b) : a \in SUBSET Kospi200, b \in SUBSET Kosdaq150}

\* Something else has changed while a rebalance works.
Disturb == reb' = [reb EXCEPT !.alone = FALSE] /\ last' = NoneYet
Called == calls < MaxCalls /\ calls' = calls + 1

\* bootstrap_universe_on_first_run: one commit for all constituents, and only
\* into an empty table; a failed or incomplete fetch leaves it empty.  It runs
\* before any request is served.
SeedUniverse(seed) ==
    /\ count_symbols(rows) = 0
    /\ seed # {}
    /\ reb.pc = "idle" /\ rec.pc = "idle"
    /\ rows' = [t \in Symbols |-> IF t \in seed THEN NewSymbol ELSE NoSymbol]
    /\ Called
    /\ UNCHANGED <<held, liquid, reb, rec, said, last>>

\* normalize_universe_source: a label from before the rename, or a valid one;
\* anything else is None.
LegacyLabels == [KOSPI |-> "KOSPI200", KOSDAQ |-> "KOSDAQ150", UNKNOWN |-> "USER"]
normalize_universe_source(label) ==
    IF label \in DOMAIN LegacyLabels THEN LegacyLabels[label]
    ELSE IF label \in {"KOSPI200", "KOSDAQ150", "USER"} THEN label ELSE "None"

\* Every column of the row; a row that is not there is made.
upsert_symbol(t, row) == rows' = [rows EXCEPT ![t] = row]

\* An unknown ticker is a KeyError.
set_blocked(t, b) == rows[t].known /\ rows' = [rows EXCEPT ![t].blocked = b]

\* The two routes of the operator.
upsert_universe_symbol(t, row, market) ==
    /\ Called
    /\ normalize_universe_source(market) # "None"
    /\ upsert_symbol(t, row)
    /\ said' = IF row.blocked THEN said \cup {t} ELSE said \ {t}
    /\ Disturb
    /\ UNCHANGED <<held, liquid, rec>>

block_universe_symbol(t, b) ==
    /\ Called
    /\ set_blocked(t, b)
    /\ said' = IF b THEN said \cup {t} ELSE said \ {t}
    /\ Disturb
    /\ UNCHANGED <<held, liquid, rec>>

-----------------------------------------------------------------------------
(* recompute_active_universe_from_daily_liquidity.                         *)

Leaving == {"halted", "removed", "exit_pending"}
ShouldBeActive(row, t) == row.status \notin Leaving /\ t \in liquid

\* Mutant: the session writes whole rows.
MutWritten(old, new, now) == IF new = old THEN now ELSE new

\* What a commit makes of a row: the columns that differ from what was read.
Written(old, new, now) ==
    [c \in DOMAIN now |-> IF new[c] = old[c] THEN now[c] ELSE new[c]]

\* The end of the startup task, or a changed threshold.
RecomputeRead ==
    /\ Called
    /\ rec.pc = "idle"
    /\ rec' = [pc |-> "write", snap |-> rows,
               picks |-> {t \in list_universe_tickers(rows) : ShouldBeActive(rows[t], t)}]
    /\ UNCHANGED <<rows, held, liquid, reb, said, last>>

RecomputeCommit ==
    /\ rec.pc = "write"
    /\ rows' = [t \in Symbols |->
                   IF rec.snap[t].inU
                   THEN Written(rec.snap[t], [rec.snap[t] EXCEPT !.active = t \in rec.picks], rows[t])
                   ELSE rows[t]]
    /\ rec' = NoRecompute
    /\ Disturb
    /\ UNCHANGED <<held, liquid, said, calls>>

-----------------------------------------------------------------------------
(* _rebalance_universe.                                                    *)

\* The rows and the open positions are read first; a manual list goes on to
\* its commit, the index is fetched over the network.
RebalanceRead(target) ==
    /\ Called
    /\ reb.pc = "idle"
    /\ reb' = [pc |-> IF target = {} THEN "fetch" ELSE "write", snap |-> rows,
               open |-> held, target |-> target, alone |-> TRUE]
    /\ UNCHANGED <<rows, held, liquid, rec, said, last>>

IndexFetched(seed) ==
    /\ reb.pc = "fetch"
    /\ seed # {}
    /\ reb' = [reb EXCEPT !.pc = "write", !.target = seed]
    /\ UNCHANGED <<rows, held, liquid, rec, said, last, calls>>

IndexFails(seed) ==
    /\ reb.pc = "fetch"
    /\ seed = {}
    /\ reb' = NoRebalance
    /\ UNCHANGED <<rows, held, liquid, rec, said, last, calls>>

Kept(t) ==
    [reb.snap[t] EXCEPT !.inU = TRUE,
        !.status = IF @ \in {"removed", "exit_pending"} /\ t \notin reb.open THEN "normal" ELSE @]

\* Mutant: the open positions are forgotten.
MutDropped(t) == [reb.snap[t] EXCEPT !.active = FALSE, !.inU = FALSE, !.status = "removed"]

Dropped(t) ==
    IF t \in reb.open
    THEN [reb.snap[t] EXCEPT !.active = FALSE, !.status = "exit_pending"]
    ELSE [reb.snap[t] EXCEPT !.active = FALSE, !.inU = FALSE, !.status = "removed"]

\* A row another thread added is first read by the recomputation.
Loaded(t) == IF reb.snap[t].known THEN reb.snap[t] ELSE IF rows[t].inU THEN rows[t] ELSE NoSymbol

Placed(t) ==
    CASE t \in reb.target /\ ~reb.snap[t].known -> NewSymbol
      [] t \in reb.target /\ reb.snap[t].known -> Kept(t)
      [] t \notin reb.target /\ reb.snap[t].inU -> Dropped(t)
      [] OTHER -> Loaded(t)

\* The recomputation in the same session finds the rows that are in the
\* universe in the database, those the session puts there not yet among them.
Rebalanced(t) ==
    IF rows[t].inU THEN [Placed(t) EXCEPT !.active = ShouldBeActive(Placed(t), t)] ELSE Placed(t)

RebalanceCommit ==
    /\ reb.pc = "write"
    /\ \A t \in reb.target : rows[t].known => reb.snap[t].known
    /\ rows' = [t \in Symbols |-> Written(Loaded(t), Rebalanced(t), rows[t])]
    /\ last' = IF reb.alone THEN [target |-> reb.target, open |-> reb.open,
                                  before |-> list_universe_tickers(reb.snap)]
                            ELSE NoneYet
    /\ reb' = NoRebalance
    /\ UNCHANGED <<held, liquid, rec, said, calls>>

\* Another thread has inserted one of its new rows: the commit is rolled back.
RebalanceConflict ==
    /\ reb.pc = "write"
    /\ \E t \in reb.target : rows[t].known /\ ~reb.snap[t].known
    /\ reb' = NoRebalance
    /\ UNCHANGED <<rows, held, liquid, rec, said, last, calls>>

-----------------------------------------------------------------------------
\* Loop B scans what is tracked, loop A opens and closes positions.
PositionOpens(t) ==
    /\ t \in list_tracking_tickers \ held
    /\ held' = held \cup {t}
    /\ UNCHANGED <<rows, liquid, reb, rec, said, last, calls>>

PositionCloses(t) ==
    /\ t \in held
    /\ held' = held \ {t}
    /\ UNCHANGED <<rows, liquid, reb, rec, said, last, calls>>

\* New daily candles, or another threshold.
LiquidityChanges(t) ==
    /\ Called
    /\ liquid' = IF t \in liquid THEN liquid \ {t} ELSE liquid \cup {t}
    /\ reb' = [reb EXCEPT !.alone = FALSE]
    /\ UNCHANGED <<rows, held, rec, said, last>>

TableNext ==
    \/ \E seed \in Seeds : SeedUniverse(seed) \/ IndexFetched(seed) \/ IndexFails(seed)
    \/ \E t \in Symbols, row \in Upserts, market \in {"KOSPI", "NYSE"} :
          upsert_universe_symbol(t, row, market)
    \/ \E t \in Symbols, b \in BOOLEAN : block_universe_symbol(t, b)
    \/ RecomputeRead \/ RecomputeCommit
    \/ \E T \in Targets \cup {{}} : RebalanceRead(T)
    \/ RebalanceCommit \/ RebalanceConflict
    \/ \E t \in Symbols : PositionOpens(t) \/ PositionCloses(t) \/ LiquidityChanges(t)

TableSpec == TableInit /\ [][TableNext]_tableVars

-----------------------------------------------------------------------------
\* A block is the operator's: no recomputation or rebalance, however old the
\* rows it works on, undoes or sets one, whoever commits last.
BlockIsKept ==
    \A t \in Symbols : rows[t].known => (rows[t].blocked <=> t \in said)

\* A rebalance nobody interfered with leaves in the universe its target and,
\* of what was there before, the tickers it found held; of these leaving
\* tickers none is traded, nor is one that left.
RebalanceIsExact ==
    last # NoneYet =>
        /\ list_universe_tickers(rows) = last.target \cup (last.before \cap last.open)
        /\ list_trading_tickers \subseteq last.target
        /\ \A t \in last.before \ last.target :
               rows[t].status = IF t \in last.open THEN "exit_pending" ELSE "removed"

=============================================================================
