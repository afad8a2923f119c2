---------------------------- MODULE UniverseProofs ----------------------------
(* The candles table has only the holes of the broker's answers, and the   *)
(* symbols table keeps the operator's blocks and rebalances exactly, for   *)
(* any keys, walks, tickers and targets.                                   *)
EXTENDS CandleStore, UniverseTable, WellFoundedInduction, FiniteSetTheorems, TLAPS

-----------------------------------------------------------------------------
(* The candles.                                                            *)

\* The table and the writers.
CandleType ==
    /\ bar \in Nat
    /\ candles \in [Keys -> SUBSET Bars]
    /\ skipped \in [Keys -> SUBSET Bars]
    /\ writer \in [Writers -> [pc : {"idle", "auth", "fetch", "store"}, at : Nat, since : Nat,
                               tries : Nat, rows : SUBSET Bars]]

\* Everything a writer will not ask for is stored or was passed over.
Covered(k, since) == \A b \in Bars : b <= since => b \in candles[k] \cup skipped[k]

\* The key of a writer's place in its walk, and what it may take for stored.
WalkInv ==
    \A w \in Writers : writer[w].pc \in {"fetch", "store"} =>
        /\ w = "boot" => writer[w].at \in 1 .. Len(BootKeys)
        /\ w = "fill" => writer[w].at \in 1 .. Len(FillKeys)
        /\ w = "loop" => writer[w].at \in LoopKeys
        /\ Covered(KeyOf(w, writer[w].at), writer[w].since)
        /\ \A b \in writer[w].rows : writer[w].since < b

CandleInv == CandleType /\ WalkInv /\ NoGaps

\* A set of naturals has a least member.
LEMMA LeastNatural ==
    ASSUME NEW T \in SUBSET Nat, T # {}
    PROVE  \E m \in T : \A n \in T : m <= n
<1>1. PICK m \in T : \A n \in T : <<n, m>> \notin OpToRel(<, Nat)
  BY NatLessThanWellFounded, WFMin
<1>2. \A n \in T : ~(n < m)
  BY <1>1 DEF OpToRel
<1> QED BY <1>2

\* A set of candles has a last one.
LEMMA Latest ==
    ASSUME NEW S \in SUBSET Bars, S # {}
    PROVE  \E b \in S : \A c \in S : c <= b
<1> DEFINE T == {LastBar + 1 - b : b \in S}
<1>0. \A b \in S : LastBar + 1 - b \in Nat
  BY WalkAssumption DEF Bars
<1>1. T \in SUBSET Nat /\ T # {}
  BY <1>0
<1>2. PICK m \in T : \A n \in T : m <= n
  BY <1>1, LeastNatural
<1>3. PICK b \in S : m = LastBar + 1 - b
  BY <1>2
<1>4. \A c \in S : LastBar + 1 - b <= LastBar + 1 - c
  BY <1>2, <1>3
<1> QED BY <1>4, WalkAssumption DEF Bars

Tables == [Keys -> SUBSET Bars]

\* A table whose only holes are the ones in `holes'.
Gapless(table, holes) ==
    \A k \in Keys : \A b \in Bars, c \in table[k] : b < c => b \in table[k] \cup holes[k]

\* get_last_candle_time of such a table: what is not after it is stored or a hole.
LEMMA LastCovers ==
    ASSUME NEW table \in Tables, NEW holes \in Tables, NEW k \in Keys, Gapless(table, holes)
    PROVE  /\ get_last_candle_time(table, k) \in Nat
           /\ \A b \in Bars : b <= get_last_candle_time(table, k) => b \in table[k] \cup holes[k]
<1> DEFINE S == table[k]
<1>0. S \in SUBSET Bars
  BY DEF Tables
<1>1. CASE S = {}
  BY <1>1, WalkAssumption DEF get_last_candle_time, Bars
<1>2. CASE S # {}
  <2>1. \E b \in S : \A c \in S : c <= b
    BY <1>0, <1>2, Latest
  <2>2. get_last_candle_time(table, k) = CHOOSE b \in S : \A c \in S : c <= b
    BY <1>2 DEF get_last_candle_time
  <2>3. get_last_candle_time(table, k) \in S
    BY <2>1, <2>2
  <2> QED BY <1>0, <2>3, WalkAssumption DEF Bars, Gapless
<1> QED BY <1>1, <1>2

InWalk(w, at) ==
    /\ w = "boot" => at \in 1 .. Len(BootKeys)
    /\ w = "fill" => at \in 1 .. Len(FillKeys)
    /\ w = "loop" => at \in LoopKeys

\* A place in a walk stands for a key.
LEMMA KeyInWalk ==
    ASSUME NEW w \in Writers, NEW at, InWalk(w, at)
    PROVE  KeyOf(w, at) \in Keys /\ at \in Nat
BY WalkAssumption DEF Writers, InWalk, KeyOf, Keys, Elements

States == [pc : {"idle", "auth", "fetch", "store"}, at : Nat, since : Nat,
           tries : Nat, rows : SUBSET Bars]

\* A writer that asks for a key takes for stored only what is.
LEMMA AskCovers ==
    ASSUME NEW table \in Tables, NEW holes \in Tables, Gapless(table, holes),
           NEW w \in Writers, NEW at, InWalk(w, at)
    PROVE  /\ Ask(w, at, table) \in States
           /\ Ask(w, at, table).pc = "fetch" /\ Ask(w, at, table).at = at
           /\ Ask(w, at, table).rows = {}
           /\ \A b \in Bars : b <= Ask(w, at, table).since =>
                                  b \in table[KeyOf(w, at)] \cup holes[KeyOf(w, at)]
<1>1. KeyOf(w, at) \in Keys /\ at \in Nat
  BY KeyInWalk
<1> DEFINE last_time == get_last_candle_time(table, KeyOf(w, at))
<1>2. last_time \in Nat /\ \A b \in Bars : b <= last_time =>
                                     b \in table[KeyOf(w, at)] \cup holes[KeyOf(w, at)]
  BY <1>1, LastCovers
<1> HIDE DEF last_time
<1>3. Ask(w, at, table) = [Idle EXCEPT !.pc = "fetch", !.at = at, !.since = last_time]
  BY DEF Ask, last_time
<1>4. Idle \in States
  BY DEF Idle, States
<1>5. Ask(w, at, table) \in States
  BY <1>1, <1>2, <1>3, <1>4 DEF States
<1>6. /\ Ask(w, at, table).pc = "fetch" /\ Ask(w, at, table).at = at
      /\ Ask(w, at, table).rows = {}
      /\ Ask(w, at, table).since = last_time
  BY <1>3, <1>4 DEF States, Idle
<1> QED BY <1>2, <1>5, <1>6

\* A table that has grown without holes keeps the invariant for everybody, the
\* writer that goes on to its next key included.
LEMMA GoOnKeeps ==
    ASSUME CandleInv, NEW w \in Writers, writer[w].pc \in {"fetch", "store"},
           NEW table \in Tables, NEW holes \in Tables, Gapless(table, holes), GoOn(w, table),
           skipped' = holes,
           \A k \in Keys : candles[k] \subseteq table[k] /\ skipped[k] \subseteq holes[k]
    PROVE  CandleInv'
<1>1. writer \in [Writers -> States] /\ candles \in Tables
  BY DEF CandleInv, CandleType, States, Tables
<1>2. Idle \in States /\ Idle.pc = "idle"
  BY DEF Idle, States
<1>3. CASE Advance(w, table) = Idle
  <2>1. writer'[w] = Idle /\ \A v \in Writers \ {w} : writer'[v] = writer[v]
    BY <1>1, <1>3 DEF GoOn
  <2>2. writer' \in [Writers -> States]
    BY <1>1, <1>2, <1>3 DEF GoOn
  <2>3. CandleType'
    BY <2>2 DEF GoOn, CandleInv, CandleType, Tables, States
  <2>4. WalkInv'
    BY <1>2, <2>1, KeyInWalk DEF GoOn, CandleInv, WalkInv, Covered, InWalk
  <2> QED BY <2>3, <2>4 DEF GoOn, CandleInv, NoGaps, Gapless
<1>4. CASE Advance(w, table) # Idle
  <2>1. /\ Advance(w, table) = Ask(w, writer[w].at + 1, table)
        /\ InWalk(w, writer[w].at + 1)
    <3>1. InWalk(w, writer[w].at) /\ writer[w].at \in Nat
      BY <1>1 DEF CandleInv, WalkInv, InWalk, States
    <3>a. Len(BootKeys) \in Nat /\ Len(FillKeys) \in Nat
      BY WalkAssumption
    <3>2. CASE w = "boot"
      <4>1. writer[w].at < Len(BootKeys) /\ Advance(w, table) = Ask(w, writer[w].at + 1, table)
        BY <1>4, <3>2 DEF Advance
      <4>2. writer[w].at + 1 \in 1 .. Len(BootKeys)
        BY <4>1, <3>1, <3>a
      <4> QED BY <3>2, <4>1, <4>2 DEF InWalk
    <3>3. CASE w = "fill"
      <4>1. writer[w].at < Len(FillKeys) /\ Advance(w, table) = Ask(w, writer[w].at + 1, table)
        BY <1>4, <3>3 DEF Advance
      <4>2. writer[w].at + 1 \in 1 .. Len(FillKeys)
        BY <4>1, <3>1, <3>a
      <4> QED BY <3>3, <4>1, <4>2 DEF InWalk
    <3> QED BY <1>4, <3>2, <3>3 DEF Advance, Writers
  <2> DEFINE asked == Ask(w, writer[w].at + 1, table)
  <2>2. /\ asked \in States /\ asked.pc = "fetch" /\ asked.at = writer[w].at + 1
        /\ asked.rows = {}
        /\ \A b \in Bars : b <= asked.since =>
                               b \in table[KeyOf(w, writer[w].at + 1)] \cup holes[KeyOf(w, writer[w].at + 1)]
    BY <2>1, AskCovers
  <2> HIDE DEF asked
  <2>3. writer' = [writer EXCEPT ![w] = asked]
    BY <2>1 DEF GoOn, asked
  <2>4. writer'[w] = asked /\ \A v \in Writers \ {w} : writer'[v] = writer[v]
    BY <1>1, <2>3
  <2>5. writer' \in [Writers -> States]
    BY <1>1, <2>2, <2>3
  <2>6. CandleType'
    BY <2>5 DEF GoOn, CandleInv, CandleType, Tables, States
  <2>7. WalkInv'
    BY <2>1, <2>2, <2>4, KeyInWalk DEF GoOn, CandleInv, WalkInv, Covered, InWalk
  <2> QED BY <2>6, <2>7 DEF GoOn, CandleInv, NoGaps, Gapless
<1> QED BY <1>3, <1>4

\* Storing the candles of an answer up to some candle makes only the holes the
\* answer had: what it does not reach down to is stored already, or a hole.
LEMMA PrefixKeeps ==
    ASSUME CandleInv, NEW w \in Writers, writer[w].pc = "store", NEW end \in Int,
           Keep(w, {b \in writer[w].rows : b <= end})
    PROVE  CandleInv'
<1> DEFINE S == {b \in writer[w].rows : b <= end}
           k == KeyOf(w, writer[w].at)
           table == upsert(w, S)
           holes == [skipped EXCEPT ![k] = @ \cup PassedOver(w, S)]
<1>1. candles \in Tables /\ skipped \in Tables /\ writer[w] \in States /\ Bars \subseteq Nat
  BY WalkAssumption DEF CandleInv, CandleType, Tables, States, Bars
<1>2. k \in Keys /\ Covered(k, writer[w].since) /\ \A b \in writer[w].rows : writer[w].since < b
  BY <1>1, KeyInWalk DEF CandleInv, WalkInv, InWalk
<1>3. S \in SUBSET Bars /\ PassedOver(w, S) \in SUBSET Bars
  BY <1>1 DEF States, PassedOver
<1>4. table \in Tables /\ holes \in Tables
  BY <1>1, <1>2, <1>3 DEF Tables, upsert
<1>5. /\ table[k] = candles[k] \cup S /\ \A j \in Keys \ {k} : table[j] = candles[j]
      /\ holes[k] = skipped[k] \cup PassedOver(w, S) /\ \A j \in Keys \ {k} : holes[j] = skipped[j]
  BY <1>1, <1>2 DEF Tables, upsert
<1>6. GoOn(w, table) /\ skipped' = holes
  BY DEF Keep
<1> HIDE DEF table, holes
<1>7. Gapless(table, holes)
  <2> SUFFICES ASSUME NEW j \in Keys, NEW b \in Bars, NEW c \in table[j], b < c
               PROVE  b \in table[j] \cup holes[j]
    BY DEF Gapless
  <2>1. CASE j # k
    BY <1>5, <2>1 DEF CandleInv, NoGaps
  <2>2. CASE j = k /\ c \in candles[k]
    BY <1>2, <1>5, <2>2 DEF CandleInv, NoGaps
  <2>3. CASE j = k /\ c \in S
    <3>1. writer[w].since \in Nat /\ b \in Nat /\ c \in Nat
      BY <1>1, <1>3, <2>3 DEF States
    <3>2. CASE b <= writer[w].since
      BY <1>2, <1>5, <2>3, <3>2 DEF Covered
    <3>3. CASE writer[w].since < b /\ b \in writer[w].rows
      <4>1. b <= end
        BY <2>3, <3>1
      <4> QED BY <1>5, <2>3, <3>3, <4>1
    <3>4. CASE writer[w].since < b /\ b \notin writer[w].rows
      <4>1. b \in PassedOver(w, S)
        BY <2>3, <3>4 DEF PassedOver
      <4> QED BY <1>5, <2>3, <4>1
    <3> QED BY <3>1, <3>2, <3>3, <3>4
  <2> QED BY <1>5, <2>1, <2>2, <2>3
<1>8. \A j \in Keys : candles[j] \subseteq table[j] /\ skipped[j] \subseteq holes[j]
  BY <1>5
<1> QED BY <1>4, <1>6, <1>7, <1>8, GoOnKeeps

\* A failed fetch leaves the table as it is.
LEMMA KeptTable ==
    ASSUME CandleInv, NEW w \in Writers, writer[w].pc \in {"fetch", "store"},
           GoOn(w, candles), UNCHANGED skipped
    PROVE  CandleInv'
BY GoOnKeeps DEF CandleInv, CandleType, Tables, Gapless, NoGaps

\* An empty table has no holes.
LEMMA InitCandles == CandleInit => CandleInv
<1> SUFFICES ASSUME CandleInit PROVE CandleInv
    OBVIOUS
<1>1. \A w \in Writers : Startup[w] \in States /\ Startup[w].pc \notin {"fetch", "store"}
  BY DEF Startup, Idle, States
<1>2. Startup \in [Writers -> States]
  BY <1>1 DEF Startup
<1> QED BY <1>1, <1>2 DEF CandleInit, CandleInv, CandleType, WalkInv, NoGaps, States

\* Neither an answer, a retry, an error, a cut-off write nor the end of the
\* process breaks the invariant.
LEMMA StepCandles == CandleInv /\ [CandleNext]_candleVars => CandleInv'
<1> SUFFICES ASSUME CandleInv, [CandleNext]_candleVars PROVE CandleInv'
    OBVIOUS
<1>a. writer \in [Writers -> States] /\ candles \in Tables /\ skipped \in Tables
      /\ Gapless(candles, skipped) /\ bar \in Nat
  BY DEF CandleInv, CandleType, States, Tables, Gapless, NoGaps
<1>b. Idle \in States /\ Idle.pc = "idle"
  BY DEF Idle, States
<1>c. ASSUME NEW w \in Writers, NEW state \in States, writer' = [writer EXCEPT ![w] = state],
             UNCHANGED <<bar, candles, skipped>>,
             state.pc \in {"fetch", "store"} =>
                 /\ InWalk(w, state.at) /\ Covered(KeyOf(w, state.at), state.since)
                 /\ \A b \in state.rows : state.since < b
      PROVE  CandleInv'
  <2>1. writer' \in [Writers -> States]
    BY <1>a, <1>c
  <2>2. writer'[w] = state /\ \A v \in Writers \ {w} : writer'[v] = writer[v]
    BY <1>a, <1>c
  <2> QED BY <1>c, <2>1, <2>2
          DEF CandleInv, CandleType, WalkInv, NoGaps, Covered, InWalk, States
<1>d. ASSUME NEW w \in Writers, NEW at, InWalk(w, at), UNCHANGED <<bar, candles, skipped>>,
             writer' = [writer EXCEPT ![w] = Ask(w, at, candles)]
      PROVE  CandleInv'
  <2> DEFINE state == Ask(w, at, candles)
  <2>1. /\ state \in States /\ state.pc = "fetch" /\ state.at = at /\ state.rows = {}
        /\ \A b \in Bars : b <= state.since =>
                               b \in candles[KeyOf(w, at)] \cup skipped[KeyOf(w, at)]
    BY <1>a, <1>d, AskCovers
  <2>2. Covered(KeyOf(w, at), state.since)
    BY <2>1 DEF Covered
  <2>3. writer' = [writer EXCEPT ![w] = state]
    BY <1>d
  <2> HIDE DEF state
  <2> QED BY <1>c, <1>d, <2>1, <2>2, <2>3
<1>0. CASE UNCHANGED candleVars
  BY <1>0 DEF candleVars, CandleInv, CandleType, WalkInv, NoGaps, Covered
<1>1. CASE BarCompletes
  BY <1>1 DEF BarCompletes, CandleInv, CandleType, WalkInv, NoGaps, Covered
<1>2. CASE TokenReady
  <2>1. "boot" \in Writers /\ InWalk("boot", 1)
    BY WalkAssumption DEF Writers, InWalk
  <2> QED BY <1>2, <1>d, <2>1 DEF TokenReady
<1>3. CASE TokenFails
  <2>1. "boot" \in Writers
    BY DEF Writers
  <2>2. writer' = [writer EXCEPT !["boot"] = Idle] /\ UNCHANGED <<bar, candles, skipped>>
    BY <1>3 DEF TokenFails
  <2> QED BY <1>b, <1>c, <2>1, <2>2
<1>4. CASE StartBackfill
  <2>1. "fill" \in Writers /\ InWalk("fill", 1)
    BY WalkAssumption DEF Writers, InWalk
  <2> QED BY <1>4, <1>d, <2>1 DEF StartBackfill
<1>5. ASSUME NEW k \in LoopKeys, SyncDue(k) PROVE CandleInv'
  <2>1. "loop" \in Writers /\ InWalk("loop", k)
    BY DEF Writers, InWalk
  <2> QED BY <1>5, <1>d, <2>1 DEF SyncDue
<1>6. CASE Crash
  <2>1. \A w \in Writers : Startup[w] \in States /\ Startup[w].pc \notin {"fetch", "store"}
    BY DEF Startup, Idle, States
  <2>2. Startup \in [Writers -> States]
    BY <2>1 DEF Startup
  <2> QED BY <1>6, <2>1, <2>2 DEF Crash, CandleInv, CandleType, WalkInv, NoGaps, States
<1>7. CASE BootFetchFails
  BY <1>7, KeptTable DEF BootFetchFails, Writers
<1>8. ASSUME NEW w \in Writers, FetchRetried(w) PROVE CandleInv'
  <2>1. writer' = [writer EXCEPT ![w] = [writer[w] EXCEPT !.tries = @ + 1]]
        /\ UNCHANGED <<bar, candles, skipped>> /\ writer[w].pc = "fetch"
    BY <1>8 DEF FetchRetried
  <2> DEFINE state == [writer[w] EXCEPT !.tries = @ + 1]
  <2>2. state \in States /\ state.pc = writer[w].pc /\ state.at = writer[w].at
        /\ state.since = writer[w].since /\ state.rows = writer[w].rows
    BY <1>a DEF States
  <2>3. InWalk(w, writer[w].at) /\ Covered(KeyOf(w, writer[w].at), writer[w].since)
        /\ \A b \in writer[w].rows : writer[w].since < b
    BY <2>1 DEF CandleInv, WalkInv, InWalk
  <2> HIDE DEF state
  <2>4. writer' = [writer EXCEPT ![w] = state]
    BY <2>1 DEF state
  <2> QED BY <1>c, <2>1, <2>2, <2>3, <2>4
<1>9. ASSUME NEW w \in Writers, FetchFallsBack(w) PROVE CandleInv'
  BY <1>9, KeptTable DEF FetchFallsBack
<1>10. ASSUME NEW w \in Writers, BrokerAnswers(w) PROVE CandleInv'
  <2>1. PICK answer \in SUBSET Newer(w) : AnswerHas(w, answer)
    BY <1>10 DEF BrokerAnswers
  <2>2. /\ writer[w].pc = "fetch" /\ UNCHANGED <<bar, candles, skipped>>
        /\ writer' = [writer EXCEPT ![w].pc = "store", ![w].rows = answer]
    BY <2>1 DEF AnswerHas
  <2> DEFINE state == [writer[w] EXCEPT !.pc = "store", !.rows = answer]
  <2>3. answer \in SUBSET Bars /\ \A b \in answer : writer[w].since < b
    BY DEF Newer
  <2>4. state \in States /\ state.pc = "store" /\ state.at = writer[w].at
        /\ state.since = writer[w].since /\ state.rows = answer
    BY <1>a, <2>3 DEF States
  <2>5. InWalk(w, writer[w].at) /\ Covered(KeyOf(w, writer[w].at), writer[w].since)
    BY <2>2 DEF CandleInv, WalkInv, InWalk
  <2>6. writer' = [writer EXCEPT ![w] = state]
    BY <1>a, <2>2
  <2> HIDE DEF state
  <2> QED BY <1>c, <2>2, <2>3, <2>4, <2>5, <2>6
<1>11. ASSUME NEW w \in Writers, Store(w) PROVE CandleInv'
  <2>1. writer[w].rows = {b \in writer[w].rows : b <= LastBar + 1}
    BY <1>a, WalkAssumption DEF States, Bars
  <2>2. LastBar + 1 \in Int
    BY WalkAssumption
  <2> QED BY <1>11, <2>1, <2>2, PrefixKeeps DEF Store
<1>12. ASSUME NEW w \in Writers, StoreFails(w) PROVE CandleInv'
  <2>1. ASSUME Keep(w, {}) PROVE CandleInv'
    <3>1. {} = {b \in writer[w].rows : b <= 0}
      BY <1>a, WalkAssumption DEF States, Bars
    <3> QED BY <1>12, <2>1, <3>1, PrefixKeeps DEF StoreFails
  <2>2. ASSUME NEW n \in 0 .. LastBar, Keep(w, Committed(w, n)) PROVE CandleInv'
    <3>1. Committed(w, n) = {b \in writer[w].rows : b <= writer[w].since + n}
      BY DEF Committed
    <3>2. writer[w].since + n \in Int
      BY <1>a, WalkAssumption DEF States
    <3> QED BY <1>12, <2>2, <3>1, <3>2, PrefixKeeps DEF StoreFails
  <2> QED BY <1>12, <2>1, <2>2 DEF StoreFails
<1> QED BY <1>0, <1>1, <1>2, <1>3, <1>4, <1>5, <1>6, <1>7, <1>8, <1>9, <1>10, <1>11, <1>12
        DEF CandleNext

\* The history of a key has only holes that an answer of the broker had below
\* a candle it brought: never one from writers that overlap on the key, from the
\* order in which their answers are stored or from a write that is cut short.
THEOREM HistoryHasNoGaps == CandleSpec => []NoGaps
<1>1. CandleInv => NoGaps
  BY DEF CandleInv
<1> QED BY InitCandles, StepCandles, <1>1, PTL DEF CandleSpec

-----------------------------------------------------------------------------
(* The symbols.                                                            *)

\* The table and the rows the two sessions read.
TableType ==
    /\ rows \in [Symbols -> Rows]
    /\ said \in SUBSET Symbols /\ held \in SUBSET Symbols
    /\ reb \in [pc : {"idle", "fetch", "write"}, snap : [Symbols -> Rows], open : SUBSET Symbols,
               target : SUBSET Symbols, alone : BOOLEAN]
    /\ rec \in [pc : {"idle", "write"}, snap : [Symbols -> Rows], picks : SUBSET Symbols]

\* A ticker that is not in the table has no columns set, in the table and in
\* what a session read of it.
Blank(table) == \A t \in Symbols : ~table[t].known => table[t] = NoSymbol

\* Rows never leave the table: what a session has read is still there.
SnapInv ==
    /\ Blank(rows) /\ Blank(reb.snap) /\ Blank(rec.snap)
    /\ \A t \in Symbols : reb.snap[t].known \/ rec.snap[t].known => rows[t].known

\* The operator speaks of known tickers only.
SaidInv == \A t \in said : rows[t].known

\* A rebalance that counts as undisturbed has read what the table holds, and at
\* its commit it has a target; so had the last one.
AloneReads ==
    /\ (reb.pc # "idle" /\ reb.alone) => reb.snap = rows
    /\ reb.pc = "write" => reb.target # {}
    /\ last # NoneYet => last.target \in SUBSET Symbols /\ last.target # {}

TableInv ==
    TableType /\ SnapInv /\ SaidInv /\ AloneReads /\ BlockIsKept /\ RebalanceIsExact

\* A row is its five columns.
LEMMA RowColumns ==
    ASSUME NEW r \in Rows
    PROVE  /\ DOMAIN r = {"known", "inU", "active", "blocked", "status"}
           /\ r.known \in BOOLEAN /\ r.inU \in BOOLEAN /\ r.active \in BOOLEAN
           /\ r.blocked \in BOOLEAN /\ r.status \in UniverseStatus
BY DEF Rows

\* What a commit writes, column by column.
LEMMA WrittenColumns ==
    ASSUME NEW old \in Rows, NEW new \in Rows, NEW now \in Rows
    PROVE  LET w == Written(old, new, now)
           IN  /\ w \in Rows
               /\ w.known = IF new.known = old.known THEN now.known ELSE new.known
               /\ w.inU = IF new.inU = old.inU THEN now.inU ELSE new.inU
               /\ w.active = IF new.active = old.active THEN now.active ELSE new.active
               /\ w.blocked = IF new.blocked = old.blocked THEN now.blocked ELSE new.blocked
               /\ w.status = IF new.status = old.status THEN now.status ELSE new.status
BY RowColumns DEF Written, Rows

\* Nothing changed is nothing written.
LEMMA WrittenSame ==
    ASSUME NEW old \in Rows, NEW now \in Rows
    PROVE  Written(old, old, now) = now
BY DEF Written, Rows

\* A row with another `active'.
LEMMA ActiveColumn ==
    ASSUME NEW r \in Rows, NEW b \in BOOLEAN
    PROVE  LET n == [r EXCEPT !.active = b]
           IN  /\ n \in Rows /\ n.active = b
               /\ n.known = r.known /\ n.inU = r.inU /\ n.blocked = r.blocked /\ n.status = r.status
BY DEF Rows

\* The rows the model names.
LEMMA NamedRows ==
    /\ NoSymbol \in Rows /\ ~NoSymbol.known /\ ~NoSymbol.inU /\ ~NoSymbol.active
    /\ ~NoSymbol.blocked /\ NoSymbol.status = "normal"
    /\ NewSymbol \in Rows /\ NewSymbol.known /\ NewSymbol.inU /\ ~NewSymbol.active
    /\ ~NewSymbol.blocked /\ NewSymbol.status = "normal"
<1>0. NoSymbol \in Rows
  BY DEF NoSymbol, Rows, UniverseStatus
<1>1. /\ NoSymbol.known = FALSE /\ NoSymbol.inU = FALSE /\ NoSymbol.active = FALSE
      /\ NoSymbol.blocked = FALSE /\ NoSymbol.status = "normal"
  BY DEF NoSymbol
<1>2. NewSymbol \in Rows
  BY <1>0 DEF NewSymbol, Rows
<1>3. /\ NewSymbol.known /\ NewSymbol.inU /\ ~NewSymbol.active
      /\ ~NewSymbol.blocked /\ NewSymbol.status = "normal"
  BY <1>0, <1>1 DEF NewSymbol, Rows
<1> QED BY <1>0, <1>1, <1>2, <1>3

\* The sessions' idle states.
LEMMA IdleSessions ==
    /\ NoRebalance \in [pc : {"idle", "fetch", "write"}, snap : [Symbols -> Rows],
                        open : SUBSET Symbols, target : SUBSET Symbols, alone : BOOLEAN]
    /\ NoRebalance.pc = "idle" /\ NoRebalance.snap = Unread
    /\ NoRecompute \in [pc : {"idle", "write"}, snap : [Symbols -> Rows], picks : SUBSET Symbols]
    /\ NoRecompute.pc = "idle" /\ NoRecompute.snap = Unread
    /\ Unread \in [Symbols -> Rows] /\ \A t \in Symbols : Unread[t] = NoSymbol
<1>1. Unread \in [Symbols -> Rows] /\ \A t \in Symbols : Unread[t] = NoSymbol
  BY NamedRows DEF Unread
<1> QED BY <1>1 DEF NoRebalance, NoRecompute

\* The table begins empty.
LEMMA InitTable == TableInit => TableInv
<1> SUFFICES ASSUME TableInit PROVE TableInv
    OBVIOUS
<1> USE IdleSessions, NamedRows DEF TableInit
<1>1. TableType
  BY DEF TableType
<1>2. SnapInv /\ SaidInv /\ AloneReads
  BY DEF SnapInv, SaidInv, AloneReads, Blank
<1>3. BlockIsKept /\ RebalanceIsExact
  BY DEF BlockIsKept, RebalanceIsExact
<1> QED BY <1>1, <1>2, <1>3 DEF TableInv

\* An undisturbed table and new reads: enough for the steps that write nothing.
LEMMA TableKept ==
    ASSUME TableInv, UNCHANGED <<rows, said, last>>, TableType',
           \/ reb'.pc = "idle" \/ ~reb'.alone \/ reb'.snap = rows,
           reb'.pc = "write" => reb'.target # {},
           reb'.snap \in {reb.snap, rows, Unread}, rec'.snap \in {rec.snap, rows, Unread}
    PROVE  TableInv'
<1>1. SnapInv'
  BY IdleSessions, NamedRows DEF TableInv, SnapInv, Blank, TableType
<1>2. SaidInv' /\ AloneReads'
  BY DEF TableInv, SaidInv, AloneReads
<1>3. BlockIsKept' /\ RebalanceIsExact'
  BY DEF TableInv, BlockIsKept, RebalanceIsExact, list_universe_tickers, list_trading_tickers,
         list_tracking_tickers, list_symbols
<1> QED BY <1>1, <1>2, <1>3 DEF TableInv

\* A write that keeps its rows' places and blocks, and disturbs the others.
LEMMA TableWritten ==
    ASSUME TableInv, TableType', Blank(rows'), last' = NoneYet,
           reb' = [reb EXCEPT !.alone = FALSE], rec'.snap \in {rec.snap, Unread},
           \A t \in Symbols : rows[t].known => rows'[t].known,
           \A t \in said' : rows'[t].known,
           \A t \in Symbols : rows'[t].known => (rows'[t].blocked <=> t \in said')
    PROVE  TableInv'
<1>1. reb'.snap = reb.snap /\ reb'.alone = FALSE /\ reb'.pc = reb.pc /\ reb'.target = reb.target
  BY DEF TableInv, TableType
<1>2. SnapInv'
  BY <1>1, IdleSessions, NamedRows DEF TableInv, SnapInv, Blank, TableType
<1>3. SaidInv' /\ AloneReads' /\ RebalanceIsExact' /\ BlockIsKept'
  BY <1>1 DEF TableInv, SaidInv, AloneReads, RebalanceIsExact, BlockIsKept, NoneYet
<1> QED BY <1>2, <1>3 DEF TableInv

\* A complete fetch shows tickers of the indexes.
LEMMA SeedsAreSymbols == Seeds \subseteq SUBSET Symbols
<1>1. ASSUME NEW a \in SUBSET Kospi200, NEW b \in SUBSET Kosdaq150
      PROVE  fetch_seed(a, b) \in SUBSET Symbols
  <2>1. a \cup b \in SUBSET Symbols
    BY IndexAssumption DEF Index
  <2> QED BY <2>1 DEF fetch_seed
<1> QED BY <1>1 DEF Seeds

\* Seeding finds no row, so nothing is said, read or rebalanced yet.
LEMMA SeedKeeps ==
    ASSUME TableInv, NEW seed \in Seeds, SeedUniverse(seed)
    PROVE  TableInv'
<1>1. list_symbols(rows) = {}
  <2>1. IsFiniteSet(list_symbols(rows))
    BY SizeAssumption, FS_Subset DEF list_symbols
  <2> QED BY <2>1, FS_EmptySet DEF SeedUniverse, count_symbols
<1>2. \A t \in Symbols : ~rows[t].known /\ ~reb.snap[t].known /\ ~rec.snap[t].known
  BY <1>1 DEF list_symbols, TableInv, SnapInv
<1>3. said = {}
  BY <1>2 DEF TableInv, SaidInv, TableType
<1>4. last = NoneYet
  BY <1>1 DEF TableInv, AloneReads, RebalanceIsExact, list_universe_tickers
<1>5. TableType'
  BY NamedRows DEF SeedUniverse, TableInv, TableType
<1>6. SnapInv'
  BY <1>2, <1>5, NamedRows DEF SeedUniverse, TableInv, SnapInv, Blank
<1>7. \A t \in Symbols : ~rows'[t].blocked
  BY NamedRows DEF SeedUniverse
<1>8. SaidInv' /\ AloneReads' /\ RebalanceIsExact' /\ BlockIsKept'
  BY <1>3, <1>4, <1>7 DEF SeedUniverse, TableInv, SaidInv, AloneReads, RebalanceIsExact, BlockIsKept
<1> QED BY <1>5, <1>6, <1>8 DEF TableInv

\* An upsert and a block are the operator's word.
LEMMA OperatorKeeps ==
    ASSUME TableInv, NEW t \in Symbols,
           \/ \E row \in Upserts, market \in {"KOSPI", "NYSE"} : upsert_universe_symbol(t, row, market)
           \/ \E b \in BOOLEAN : block_universe_symbol(t, b)
    PROVE  TableInv'
<1>1. PICK row \in Rows : /\ row.known /\ rows' = [rows EXCEPT ![t] = row]
                          /\ said' = IF row.blocked THEN said \cup {t} ELSE said \ {t}
                          /\ Disturb /\ UNCHANGED <<held, liquid, rec>>
  <2>1. ASSUME NEW row \in Upserts, NEW market, upsert_universe_symbol(t, row, market)
        PROVE  \E r \in Rows : /\ r.known /\ rows' = [rows EXCEPT ![t] = r]
                               /\ said' = IF r.blocked THEN said \cup {t} ELSE said \ {t}
                               /\ Disturb /\ UNCHANGED <<held, liquid, rec>>
    BY <2>1, UpsertAssumption DEF upsert_universe_symbol, upsert_symbol, Rows
  <2>2. ASSUME NEW b \in BOOLEAN, block_universe_symbol(t, b)
        PROVE  \E r \in Rows : /\ r.known /\ rows' = [rows EXCEPT ![t] = r]
                               /\ said' = IF r.blocked THEN said \cup {t} ELSE said \ {t}
                               /\ Disturb /\ UNCHANGED <<held, liquid, rec>>
    <3> DEFINE r == [rows[t] EXCEPT !.blocked = b]
    <3>1. r \in Rows /\ r.known = rows[t].known /\ r.blocked = b
      BY DEF TableInv, TableType, Rows
    <3>2. rows' = [rows EXCEPT ![t] = r] /\ rows[t].known
      BY <2>2 DEF block_universe_symbol, set_blocked
    <3> HIDE DEF r
    <3> QED BY <2>2, <3>1, <3>2 DEF block_universe_symbol
  <2> QED BY <2>1, <2>2
<1>2. rows'[t] = row /\ \A u \in Symbols \ {t} : rows'[u] = rows[u]
  BY <1>1 DEF TableInv, TableType
<1>3. TableType'
  BY <1>1 DEF TableInv, TableType, Disturb
<1>4. Blank(rows')
  BY <1>1, <1>2 DEF TableInv, SnapInv, Blank
<1>5. \A u \in said' : rows'[u].known
  BY <1>1, <1>2 DEF TableInv, SaidInv, TableType
<1>6. \A u \in Symbols : rows'[u].known => (rows'[u].blocked <=> u \in said')
  BY <1>1, <1>2 DEF TableInv, BlockIsKept
<1> QED BY <1>1, <1>2, <1>3, <1>4, <1>5, <1>6, TableWritten DEF Disturb

\* The recomputation writes the column `active' and nothing else.
LEMMA RecomputeKeeps ==
    ASSUME TableInv, RecomputeCommit
    PROVE  TableInv'
<1>1. ASSUME NEW t \in Symbols
      PROVE  /\ rows'[t] \in Rows
             /\ rows'[t].known = rows[t].known /\ rows'[t].blocked = rows[t].blocked
             /\ ~rows[t].known => rows'[t] = rows[t]
  <2>1. rows[t] \in Rows /\ rec.snap[t] \in Rows
    BY DEF TableInv, TableType
  <2>2. CASE ~rec.snap[t].inU
    BY <2>1, <2>2 DEF RecomputeCommit
  <2>3. CASE rec.snap[t].inU
    <3> DEFINE new == [rec.snap[t] EXCEPT !.active = t \in rec.picks]
    <3>0. (t \in rec.picks) \in BOOLEAN
      OBVIOUS
    <3>1. new \in Rows /\ new.known = rec.snap[t].known /\ new.blocked = rec.snap[t].blocked
      BY <2>1, <3>0, ActiveColumn
    <3>2. rows'[t] = Written(rec.snap[t], new, rows[t])
      BY <2>3 DEF RecomputeCommit
    <3>3. rows[t].known
      BY <2>3, NamedRows DEF TableInv, SnapInv, Blank
    <3> HIDE DEF new
    <3> DEFINE w == Written(rec.snap[t], new, rows[t])
    <3>4. w \in Rows /\ w.known = rows[t].known /\ w.blocked = rows[t].blocked
      BY <2>1, <3>1, WrittenColumns
    <3> HIDE DEF w
    <3>5. rows'[t] = w
      BY <3>2 DEF w
    <3> QED BY <3>3, <3>4, <3>5
  <2> QED BY <2>2, <2>3
<1>2. rows' \in [Symbols -> Rows]
  BY <1>1 DEF RecomputeCommit
<1>3. TableType'
  BY <1>2, IdleSessions DEF RecomputeCommit, Disturb, TableInv, TableType
<1>4. Blank(rows')
  BY <1>1 DEF TableInv, SnapInv, Blank
<1>5. \A t \in said' : rows'[t].known
  BY <1>1 DEF RecomputeCommit, TableInv, SaidInv, TableType
<1>6. \A t \in Symbols : rows'[t].known => (rows'[t].blocked <=> t \in said')
  BY <1>1 DEF RecomputeCommit, TableInv, BlockIsKept
<1>7. rec'.snap = Unread
  BY IdleSessions DEF RecomputeCommit
<1> QED BY <1>1, <1>3, <1>4, <1>5, <1>6, <1>7, TableWritten DEF RecomputeCommit, Disturb

\* What a rebalance makes of one row, whatever has happened since it read: the
\* block is kept, a row that is there stays, and only rows of the target come.
LEMMA RebalancedRow ==
    ASSUME TableInv, reb.pc = "write", NEW t \in Symbols,
           t \in reb.target => (rows[t].known => reb.snap[t].known)
    PROVE  LET w == Written(Loaded(t), Rebalanced(t), rows[t])
           IN  /\ w \in Rows /\ w.blocked = rows[t].blocked
               /\ rows[t].known => w.known
               /\ ~w.known => w = NoSymbol
<1> DEFINE w == Written(Loaded(t), Rebalanced(t), rows[t])
<1>1. rows[t] \in Rows /\ reb.snap[t] \in Rows
  BY DEF TableInv, TableType
<1>2. Loaded(t) \in Rows
  BY <1>1, NamedRows DEF Loaded
<1>3. /\ Placed(t) \in Rows /\ Placed(t).blocked = Loaded(t).blocked
      /\ Loaded(t).known => Placed(t).known
  <2>1. CASE t \in reb.target /\ ~reb.snap[t].known
    <3>1. Loaded(t) = NoSymbol
      BY <2>1, NamedRows DEF Loaded, TableInv, SnapInv, Blank
    <3>2. Placed(t) = NewSymbol
      BY <2>1 DEF Placed
    <3>3. NewSymbol.blocked = NoSymbol.blocked
      BY DEF NoSymbol, NewSymbol
    <3> QED BY <3>1, <3>2, <3>3, NamedRows
  <2>2. CASE t \in reb.target /\ reb.snap[t].known
    <3>1. Placed(t) = Kept(t) /\ Loaded(t) = reb.snap[t]
      BY <2>2 DEF Placed, Loaded
    <3>2. Kept(t) \in Rows /\ Kept(t).blocked = reb.snap[t].blocked /\ Kept(t).known = reb.snap[t].known
      BY <1>1 DEF Kept, Rows, UniverseStatus
    <3> QED BY <3>1, <3>2
  <2>3. CASE t \notin reb.target /\ reb.snap[t].inU
    <3>0. reb.snap[t].known
      BY <2>3, NamedRows DEF TableInv, SnapInv, Blank
    <3>1. Placed(t) = Dropped(t) /\ Loaded(t) = reb.snap[t]
      BY <2>3, <3>0 DEF Placed, Loaded
    <3>2. Dropped(t) \in Rows /\ Dropped(t).blocked = reb.snap[t].blocked
          /\ Dropped(t).known = reb.snap[t].known
      BY <1>1 DEF Dropped, Rows, UniverseStatus
    <3> QED BY <3>1, <3>2
  <2>4. CASE t \notin reb.target /\ ~reb.snap[t].inU
    <3>1. Placed(t) = Loaded(t)
      BY <2>4 DEF Placed
    <3> QED BY <1>2, <3>1
  <2> QED BY <2>1, <2>2, <2>3, <2>4
<1>4. /\ Rebalanced(t) \in Rows /\ Rebalanced(t).blocked = Placed(t).blocked
      /\ Rebalanced(t).known = Placed(t).known
  <2>1. ShouldBeActive(Placed(t), t) \in BOOLEAN
    BY DEF ShouldBeActive
  <2> QED BY <1>3, <2>1 DEF Rebalanced, Rows
<1>5. /\ w \in Rows /\ w.blocked = rows[t].blocked
      /\ w.known = IF Rebalanced(t).known = Loaded(t).known THEN rows[t].known ELSE Rebalanced(t).known
  BY <1>1, <1>2, <1>3, <1>4, WrittenColumns
<1>6. rows[t].known => w.known
  BY <1>1, <1>2, <1>3, <1>4, <1>5, RowColumns
<1>7. ~w.known => w = NoSymbol
  <2> SUFFICES ASSUME ~w.known PROVE w = NoSymbol
    OBVIOUS
  <2>1. rows[t] = NoSymbol /\ reb.snap[t] = NoSymbol
    BY <1>6 DEF TableInv, SnapInv, Blank
  <2>2. t \notin reb.target
    <3> SUFFICES ASSUME t \in reb.target PROVE FALSE
      OBVIOUS
    <3>1. Placed(t) = NewSymbol /\ Loaded(t) = NoSymbol
      BY <2>1, NamedRows DEF Placed, Loaded
    <3> QED BY <1>4, <1>5, <3>1, NamedRows
  <2>3. Placed(t) = NoSymbol /\ Loaded(t) = NoSymbol /\ Rebalanced(t) = Placed(t)
    BY <2>1, <2>2, NamedRows DEF Placed, Loaded, Rebalanced
  <2> QED BY <2>1, <2>3, NamedRows, WrittenSame
<1> QED BY <1>5, <1>6, <1>7

\* What an undisturbed rebalance makes of one row.
LEMMA ExactRow ==
    ASSUME TableInv, reb.pc = "write", reb.alone, NEW t \in Symbols
    PROVE  LET w == Written(Loaded(t), Rebalanced(t), rows[t])
           IN  /\ w.known /\ w.inU <=>
                     t \in reb.target \/ (reb.snap[t].known /\ reb.snap[t].inU /\ t \in reb.open)
               /\ (t \notin reb.target /\ reb.snap[t].known /\ reb.snap[t].inU) =>
                     /\ w.status = IF t \in reb.open THEN "exit_pending" ELSE "removed"
                     /\ w.inU => ~w.active
<1> DEFINE w == Written(Loaded(t), Rebalanced(t), rows[t])
<1>1. rows[t] = reb.snap[t] /\ rows[t] \in Rows
  BY DEF TableInv, TableType, AloneReads
<1>2. (rows[t].inU => rows[t].known) /\ (~rows[t].known => rows[t] = NoSymbol)
  BY NamedRows DEF TableInv, SnapInv, Blank
<1>3. Loaded(t) = rows[t]
  BY <1>1, <1>2 DEF Loaded
<1>4. CASE t \in reb.target /\ ~rows[t].known
  <2>1. rows[t] = NoSymbol /\ Rebalanced(t) = NewSymbol
    BY <1>1, <1>2, <1>4, NamedRows DEF Rebalanced, Placed
  <2>2. w.known /\ w.inU
    BY <1>3, <2>1, NamedRows, WrittenColumns
  <2> QED BY <1>4, <2>2
<1>5. CASE t \in reb.target /\ rows[t].known
  <2>1. Placed(t) = Kept(t)
    BY <1>1, <1>5 DEF Placed
  <2>2. Kept(t) \in Rows /\ Kept(t).known = rows[t].known /\ Kept(t).inU = TRUE
    BY <1>1 DEF Kept, Rows, UniverseStatus
  <2>3. Rebalanced(t) \in Rows /\ Rebalanced(t).known = rows[t].known /\ Rebalanced(t).inU = TRUE
    <3>1. ShouldBeActive(Placed(t), t) \in BOOLEAN
      BY DEF ShouldBeActive
    <3> QED BY <2>1, <2>2, <3>1 DEF Rebalanced, Rows
  <2>4. /\ w.known = rows[t].known
        /\ w.inU = IF Rebalanced(t).inU = rows[t].inU THEN rows[t].inU ELSE Rebalanced(t).inU
    BY <1>1, <1>3, <2>3, WrittenColumns
  <2>5. w.inU = TRUE
    BY <2>3, <2>4
  <2> QED BY <1>5, <2>4, <2>5
<1>6. CASE t \notin reb.target /\ rows[t].inU
  <2>1. Placed(t) = Dropped(t)
    BY <1>1, <1>6 DEF Placed
  <2>2. /\ Dropped(t) \in Rows /\ Dropped(t).known = rows[t].known
        /\ Dropped(t).inU = (t \in reb.open)
        /\ Dropped(t).status = IF t \in reb.open THEN "exit_pending" ELSE "removed"
    <3>1. CASE t \in reb.open
      <4>1. Dropped(t) = [rows[t] EXCEPT !.active = FALSE, !.status = "exit_pending"]
        BY <1>1, <3>1 DEF Dropped
      <4>2. /\ Dropped(t) \in Rows /\ Dropped(t).known = rows[t].known
            /\ Dropped(t).inU = rows[t].inU /\ Dropped(t).status = "exit_pending"
        BY <1>1, <4>1 DEF Rows, UniverseStatus
      <4>3. rows[t].inU = TRUE
        BY <1>1, <1>6, RowColumns
      <4> QED BY <3>1, <4>2, <4>3
    <3>2. CASE t \notin reb.open
      <4>1. Dropped(t) = [rows[t] EXCEPT !.active = FALSE, !.inU = FALSE, !.status = "removed"]
        BY <1>1, <3>2 DEF Dropped
      <4>2. /\ Dropped(t) \in Rows /\ Dropped(t).known = rows[t].known
            /\ Dropped(t).inU = FALSE /\ Dropped(t).status = "removed"
        BY <1>1, <4>1 DEF Rows, UniverseStatus
      <4>3. (t \in reb.open) = FALSE
        BY <3>2
      <4> QED BY <3>2, <4>2, <4>3
    <3> QED BY <3>1, <3>2
  <2>3. ShouldBeActive(Placed(t), t) = FALSE
    BY <2>1, <2>2 DEF ShouldBeActive, Leaving
  <2>4. Rebalanced(t) = [Dropped(t) EXCEPT !.active = FALSE]
    BY <1>6, <2>1, <2>3 DEF Rebalanced
  <2>5. /\ Rebalanced(t) \in Rows /\ Rebalanced(t).known = rows[t].known
        /\ Rebalanced(t).inU = (t \in reb.open) /\ Rebalanced(t).active = FALSE
        /\ Rebalanced(t).status = IF t \in reb.open THEN "exit_pending" ELSE "removed"
    BY <2>2, <2>4 DEF Rows
  <2>6. /\ w.known = rows[t].known /\ w.inU = (t \in reb.open) /\ w.active = FALSE
        /\ w.status = IF t \in reb.open THEN "exit_pending" ELSE "removed"
    BY <1>1, <1>3, <2>5, WrittenColumns
  <2> QED BY <1>1, <1>2, <1>6, <2>6
<1>7. CASE t \notin reb.target /\ ~rows[t].inU
  <2>1. Rebalanced(t) = rows[t]
    BY <1>1, <1>3, <1>7 DEF Rebalanced, Placed
  <2>2. w = rows[t]
    BY <1>1, <1>3, <2>1, WrittenSame
  <2> QED BY <1>1, <1>7, <2>2
<1> QED BY <1>4, <1>5, <1>6, <1>7

\* The commit of a rebalance.
LEMMA RebalanceKeeps ==
    ASSUME TableInv, RebalanceCommit
    PROVE  TableInv'
<1> DEFINE w(t) == Written(Loaded(t), Rebalanced(t), rows[t])
<1>1. ASSUME NEW t \in Symbols
      PROVE  /\ w(t) \in Rows /\ w(t).blocked = rows[t].blocked
             /\ rows[t].known => w(t).known
             /\ ~w(t).known => w(t) = NoSymbol
  BY RebalancedRow DEF RebalanceCommit
<1>2. reb.alone => \A t \in Symbols :
          /\ w(t).known /\ w(t).inU <=>
                t \in reb.target \/ (reb.snap[t].known /\ reb.snap[t].inU /\ t \in reb.open)
          /\ (t \notin reb.target /\ reb.snap[t].known /\ reb.snap[t].inU) =>
                /\ w(t).status = IF t \in reb.open THEN "exit_pending" ELSE "removed"
                /\ w(t).inU => ~w(t).active
  BY ExactRow DEF RebalanceCommit
<1>3. rows' = [t \in Symbols |-> w(t)]
  BY DEF RebalanceCommit
<1> HIDE DEF w
<1>4. rows' \in [Symbols -> Rows] /\ \A t \in Symbols : rows'[t] = w(t)
  BY <1>1, <1>3
<1>5. TableType'
  BY <1>4, IdleSessions DEF RebalanceCommit, TableInv, TableType
<1>6. SnapInv'
  BY <1>1, <1>4, IdleSessions, NamedRows DEF RebalanceCommit, TableInv, SnapInv, Blank
<1>7. SaidInv'
  BY <1>1, <1>4 DEF RebalanceCommit, TableInv, SaidInv, TableType
<1>8. BlockIsKept'
  <2> SUFFICES ASSUME NEW t \in Symbols, rows'[t].known
               PROVE  rows'[t].blocked <=> t \in said'
    BY DEF BlockIsKept
  <2>1. rows'[t].blocked = rows[t].blocked /\ said' = said
    BY <1>1, <1>4 DEF RebalanceCommit
  <2>2. CASE rows[t].known
    BY <2>1, <2>2 DEF TableInv, BlockIsKept
  <2>3. CASE ~rows[t].known
    BY <2>1, <2>3, NamedRows DEF TableInv, SaidInv, SnapInv, Blank
  <2> QED BY <2>2, <2>3
<1>9. reb.target \in SUBSET Symbols /\ reb.target # {} /\ reb.open \in SUBSET Symbols
  BY DEF RebalanceCommit, TableInv, TableType, AloneReads
<1>10. AloneReads'
  BY <1>9, IdleSessions DEF RebalanceCommit, AloneReads
<1>11. RebalanceIsExact'
  <2> SUFFICES ASSUME last' # NoneYet PROVE RebalanceIsExact'
    BY DEF RebalanceIsExact
  <2>1. reb.alone /\ last' = [target |-> reb.target, open |-> reb.open,
                              before |-> list_universe_tickers(reb.snap)]
    BY DEF RebalanceCommit
  <2>2. last'.target = reb.target /\ last'.open = reb.open
        /\ last'.before = {t \in Symbols : reb.snap[t].known /\ reb.snap[t].inU}
    BY <2>1 DEF list_universe_tickers, list_symbols
  <2>3. list_universe_tickers(rows)' = {t \in Symbols : w(t).known /\ w(t).inU}
    BY <1>4 DEF list_universe_tickers, list_symbols
  <2>4. list_universe_tickers(rows)' = last'.target \cup (last'.before \cap last'.open)
    BY <1>2, <1>9, <2>1, <2>2, <2>3
  <2>5. list_trading_tickers' \subseteq last'.target
    BY <1>2, <1>4, <2>1, <2>2, <2>4 DEF list_trading_tickers, list_tracking_tickers, list_universe_tickers, list_symbols
  <2>6. \A t \in last'.before \ last'.target :
            rows'[t].status = IF t \in last'.open THEN "exit_pending" ELSE "removed"
    BY <1>2, <1>4, <2>1, <2>2
  <2> QED BY <2>4, <2>5, <2>6 DEF RebalanceIsExact
<1> QED BY <1>5, <1>6, <1>7, <1>8, <1>10, <1>11 DEF TableInv

\* Every step of the start, of the operator, of the two sessions and of loop A.
LEMMA StepTable == TableInv /\ [TableNext]_tableVars => TableInv'
<1> SUFFICES ASSUME TableInv, [TableNext]_tableVars PROVE TableInv'
    OBVIOUS
<1> USE DEF TableType
<1>0. CASE UNCHANGED tableVars
  BY <1>0, TableKept DEF tableVars, TableInv, AloneReads
<1>1. ASSUME NEW seed \in Seeds, SeedUniverse(seed) PROVE TableInv'
  BY <1>1, SeedKeeps
<1>2. ASSUME NEW seed \in Seeds, IndexFetched(seed) PROVE TableInv'
  <2>1. seed \in SUBSET Symbols
    BY SeedsAreSymbols
  <2>2. /\ TableType' /\ reb'.snap = reb.snap /\ reb'.alone = reb.alone /\ reb'.target = seed
    BY <1>2, <2>1 DEF IndexFetched, TableInv
  <2>3. ~reb'.alone \/ reb'.snap = rows
    BY <1>2, <2>2 DEF IndexFetched, TableInv, AloneReads
  <2> QED BY <1>2, <2>2, <2>3, TableKept DEF IndexFetched
<1>3. CASE RebalanceConflict \/ \E seed \in Seeds : IndexFails(seed)
  BY <1>3, IdleSessions, TableKept DEF RebalanceConflict, IndexFails, TableInv
<1>4. ASSUME NEW t \in Symbols,
             \/ \E row \in Upserts, market \in {"KOSPI", "NYSE"} : upsert_universe_symbol(t, row, market)
             \/ \E b \in BOOLEAN : block_universe_symbol(t, b)
      PROVE  TableInv'
  BY <1>4, OperatorKeeps
<1>5. CASE RecomputeRead
  BY <1>5, TableKept DEF RecomputeRead, TableInv, AloneReads, list_universe_tickers, list_symbols
<1>6. CASE RecomputeCommit
  BY <1>6, RecomputeKeeps
<1>7. ASSUME NEW T \in Targets \cup {{}}, RebalanceRead(T) PROVE TableInv'
  <2>1. T \in SUBSET Symbols
    BY TargetAssumption
  <2>2. /\ TableType' /\ reb'.snap = rows /\ reb'.target = T
        /\ reb'.pc = IF T = {} THEN "fetch" ELSE "write"
    BY <1>7, <2>1 DEF RebalanceRead, TableInv
  <2> QED BY <1>7, <2>2, TableKept DEF RebalanceRead
<1>8. CASE RebalanceCommit
  BY <1>8, RebalanceKeeps
<1>9. ASSUME NEW t \in Symbols, PositionOpens(t) \/ PositionCloses(t) PROVE TableInv'
  BY <1>9, TableKept DEF PositionOpens, PositionCloses, TableInv, AloneReads
<1>10. ASSUME NEW t \in Symbols, LiquidityChanges(t) PROVE TableInv'
  BY <1>10, TableKept DEF LiquidityChanges, TableInv, AloneReads
<1> QED BY <1>0, <1>1, <1>2, <1>3, <1>4, <1>5, <1>6, <1>7, <1>8, <1>9, <1>10 DEF TableNext

\* A block is the operator's: no recomputation or rebalance, however old the
\* rows it works on, undoes or sets one.
THEOREM BlocksStay == TableSpec => []BlockIsKept
<1>1. TableInv => BlockIsKept
  BY DEF TableInv
<1> QED BY InitTable, StepTable, <1>1, PTL DEF TableSpec

\* A rebalance nobody interfered with leaves its target and the held tickers in
\* the universe, and none of the leaving ones is traded.
THEOREM RebalancesExactly == TableSpec => []RebalanceIsExact
<1>1. TableInv => RebalanceIsExact
  BY DEF TableInv
<1> QED BY InitTable, StepTable, <1>1, PTL DEF TableSpec

=============================================================================
