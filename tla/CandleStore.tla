----------------------------- MODULE CandleStore -----------------------------
(***************************************************************************)
(* The candles table and its three writers on one event loop: the          *)
(* bootstrap task of the startup (app/services/universe_bootstrap.py), the *)
(* post-market backfill (app/services/runtime_factory.py) and loop B's     *)
(* sync (app/loops/loop_b_runtime.py).  Each reads the last stored time,   *)
(* awaits the broker and stores what is newer; the process may die between *)
(* any two steps, and the next start begins the bootstrap anew.            *)
(*                                                                         *)
(* A key, a number, stands for a ticker with a timeframe; its candles are  *)
(* numbered too.  The candle still forming is stored like the others, and  *)
(* not asked for again.  An answer may lack candles: the client skips the  *)
(* rows whose time it cannot parse and reads one page.                     *)
(***************************************************************************)
EXTENDS Integers, Sequences

CONSTANTS
    BootKeys,  \* the bootstrap's walk over the in-universe tickers and timeframes
    FillKeys,  \* the backfill's walk over their daily candles
    LoopKeys,  \* what loop B's cycles visit
    Retries,   \* retry_count of ResilientCandleFetcher
    LastBar    \* bound on the candles of the market

Elements(list) == {list[i] : i \in 1 .. Len(list)}
Keys == Elements(BootKeys) \cup Elements(FillKeys) \cup LoopKeys
Bars == 1 .. LastBar + 1

ASSUME WalkAssumption ==
    /\ Retries \in Nat /\ LastBar \in Nat
    /\ {BootKeys, FillKeys} \subseteq Seq(Nat \ {0}) \ {<<>>} /\ LoopKeys \subseteq Nat \ {0}

VARIABLES
    bar,     \* candles completed so far, of every key
    candles, \* candles[k]: the candles of k with a row
    writer,  \* writer[w]: what the coroutine w waits for
    skipped  \* skipped[k]: what answers lacked below a candle they brought (history)

candleVars == <<bar, candles, writer, skipped>>

Writers == {"boot", "fill", "loop"}
Idle == [pc |-> "idle", at |-> 0, since |-> 0, tries |-> 0, rows |-> {}]

\* lifespan starts the bootstrap task, whether or not it has seeded the universe.
Startup == [w \in Writers |-> IF w = "boot" THEN [Idle EXCEPT !.pc = "auth"] ELSE Idle]

CandleInit ==
    /\ bar = 1
    /\ candles = [k \in Keys |-> {}]
    /\ writer = Startup
    /\ skipped = [k \in Keys |-> {}]

BarCompletes ==
    /\ bar < LastBar
    /\ bar' = bar + 1
    /\ UNCHANGED <<candles, writer, skipped>>

-----------------------------------------------------------------------------
(* Walking: `at' is a position in a walk, or loop B's key itself.          *)

KeyOf(w, at) == CASE w = "boot" -> BootKeys[at] [] w = "fill" -> FillKeys[at] [] w = "loop" -> at

\* get_last_candle_time, 0 for None.
get_last_candle_time(table, k) ==
    IF table[k] = {} THEN 0 ELSE CHOOSE b \in table[k] : \A c \in table[k] : c <= b

Ask(w, at, table) ==
    [Idle EXCEPT !.pc = "fetch", !.at = at, !.since = get_last_candle_time(table, KeyOf(w, at))]

\* From one key to the next there is no await; loop B's slot ends its visit.
Advance(w, table) ==
    LET last == CASE w = "boot" -> Len(BootKeys) [] w = "fill" -> Len(FillKeys) [] w = "loop" -> 0
    IN  IF w # "loop" /\ writer[w].at < last THEN Ask(w, writer[w].at + 1, table) ELSE Idle

GoOn(w, table) ==
    /\ candles' = table
    /\ writer' = [writer EXCEPT ![w] = Advance(w, table)]
    /\ UNCHANGED bar

\* ensure_token of the bootstrap's own client; a failure ends the task.
TokenReady ==
    /\ writer["boot"].pc = "auth"
    /\ writer' = [writer EXCEPT !["boot"] = Ask("boot", 1, candles)]
    /\ UNCHANGED <<bar, candles, skipped>>

TokenFails ==
    /\ writer["boot"].pc = "auth"
    /\ writer' = [writer EXCEPT !["boot"] = Idle]
    /\ UNCHANGED <<bar, candles, skipped>>

StartBackfill ==
    /\ writer["fill"].pc = "idle"
    /\ writer' = [writer EXCEPT !["fill"] = Ask("fill", 1, candles)]
    /\ UNCHANGED <<bar, candles, skipped>>

\* Mutant: only a key without candles is asked for, as if covered for ever.
MutSyncDue(k) ==
    /\ writer["loop"].pc = "idle"
    /\ get_last_candle_time(candles, k) = 0
    /\ writer' = [writer EXCEPT !["loop"] = Ask("loop", k, candles)]
    /\ UNCHANGED <<bar, candles, skipped>>

\* A bar of k is due in a cycle.
SyncDue(k) ==
    /\ writer["loop"].pc = "idle"
    /\ writer' = [writer EXCEPT !["loop"] = Ask("loop", k, candles)]
    /\ UNCHANGED <<bar, candles, skipped>>

-----------------------------------------------------------------------------
(* The fetch.                                                              *)

\* fetch_candles_incremental: what is not newer than `since' is dropped, the
\* rest is sorted by time.  What the broker shows is fixed when it answers, not
\* when it is stored.
AnswerHas(w, answer) ==
    /\ writer[w].pc = "fetch"
    /\ writer' = [writer EXCEPT ![w].pc = "store", ![w].rows = answer]
    /\ UNCHANGED <<bar, candles, skipped>>

Newer(w) == {b \in Bars : writer[w].since < b /\ b <= bar + 1}

\* A body without rows, an error's too, is an answer without candles.
BrokerAnswers(w) == \E answer \in SUBSET Newer(w) : AnswerHas(w, answer)

\* The bootstrap counts the error and goes on to the next key.
BootFetchFails ==
    /\ writer["boot"].pc = "fetch"
    /\ GoOn("boot", candles)
    /\ UNCHANGED skipped

\* The others fetch through ResilientCandleFetcher, which tries again
FetchRetried(w) ==
    /\ w # "boot" /\ writer[w].pc = "fetch"
    /\ writer[w].tries < Retries
    /\ writer' = [writer EXCEPT ![w].tries = @ + 1]
    /\ UNCHANGED <<bar, candles, skipped>>

\* and then hands back the stored rows from `since' on, read and stored over
\* themselves without an await: the table stays as it is, the visit is over.
FetchFallsBack(w) ==
    /\ w # "boot" /\ writer[w].pc = "fetch"
    /\ writer[w].tries = Retries
    /\ GoOn(w, candles)
    /\ UNCHANGED skipped

upsert(w, S) == [candles EXCEPT ![KeyOf(w, writer[w].at)] = @ \cup S]

\* What the answer lacks and no later one will be asked for once S is stored.
PassedOver(w, S) ==
    {b \in Bars : writer[w].since < b /\ b \notin writer[w].rows /\ \E c \in S : b < c}

Keep(w, S) ==
    /\ GoOn(w, upsert(w, S))
    /\ skipped' = [skipped EXCEPT ![KeyOf(w, writer[w].at)] = @ \cup PassedOver(w, S)]

Store(w) ==
    /\ writer[w].pc = "store"
    /\ Keep(w, writer[w].rows)

\* Mutant: the candles are committed from the newest down.
MutCommitted(w, n) == {b \in writer[w].rows : \A c \in writer[w].rows : c < b + n}

\* The commits upsert_incremental got through: some of the oldest.
Committed(w, n) == {b \in writer[w].rows : b <= writer[w].since + n}

\* SQLAlchemyError: a batch is one commit and leaves nothing, loop B commits
\* candle by candle and leaves the ones before the error.
StoreFails(w) ==
    /\ writer[w].pc = "store"
    /\ \/ w # "loop" /\ Keep(w, {})
       \/ w = "loop" /\ \E n \in 0 .. LastBar : Keep(w, Committed(w, n))

\* The process dies and is started again: the bootstrap begins from what the
\* table holds.
Crash ==
    /\ writer' = Startup
    /\ UNCHANGED <<bar, candles, skipped>>

CandleNext ==
    \/ BarCompletes \/ TokenReady \/ TokenFails \/ StartBackfill \/ Crash
    \/ \E k \in LoopKeys : SyncDue(k)
    \/ BootFetchFails
    \/ \E w \in Writers : FetchRetried(w) \/ FetchFallsBack(w)
    \/ \E w \in Writers : BrokerAnswers(w) \/ Store(w) \/ StoreFails(w)

CandleSpec == CandleInit /\ [][CandleNext]_candleVars

\* What fairness is about: the visits of loop B to a key, those that get an
\* answer with every complete candle in it, and the end of a write.
Visits(k) == writer["loop"].at = k
VisitAnswered(k) == Visits(k) /\ AnswerHas("loop", Newer("loop") \cap 1 .. bar)
VisitEnds(k) == Visits(k) /\ (Store("loop") \/ StoreFails("loop"))
VisitStored(k) ==
    Visits(k) /\ 1 .. bar \subseteq 1 .. writer["loop"].since \cup writer["loop"].rows /\ Store("loop")

-----------------------------------------------------------------------------
\* The only holes in the history of a key are those an answer left below a
\* later candle it brought: whichever writers overlap on the key, in whatever
\* order their answers are stored, and wherever an error or the end of the
\* process cuts a write short.  What a cut-off write or an answer's missing end
\* leaves out is asked for again, since a fetch asks for what follows the last
\* stored candle; a hole below that candle never is.
NoGaps ==
    \A k \in Keys : \A b \in Bars, c \in candles[k] :
        b < c => b \in candles[k] \cup skipped[k]

\* A key that loop B visits catches up with the market, whatever failed or was
\* cut off on the way: once no new candle comes, every complete one is stored
\* but for those an answer passed over.
CatchesUp ==
    <>[](bar = LastBar) =>
        <>[](\A k \in LoopKeys : 1 .. LastBar \subseteq candles[k] \cup skipped[k])

=============================================================================
