--------------------------- MODULE LoopCycleProofs ---------------------------
(* Loop B's marks and loop C's runs, for any number of overlapping cycles, *)
(* tickers and failures; and the scan of every bar once, when cycles do    *)
(* not overlap.                                                            *)
EXTENDS LoopCycle, TLAPS

Places == {"idle", "loopA", "syncing", "fetching", "alerting"}
AllOffsets == Offsets \cup {0}
Bars == Tickers \X Timeframes \X Int

\* The clock, the tables and the runners.
CycleType ==
    /\ clock \in Nat /\ offset \in AllOffsets
    /\ processed \in [Keys -> Int]
    /\ loopCSlot \in Int /\ loopCRuns \in [Times -> Nat]
    /\ bfSlot \in Int /\ bfRuns \in [Days -> Nat]
    /\ metrics \in [cycles : Nat, errors : Nat, consecutive : Nat]
    /\ pc \in [Runners -> Places]
    /\ todo \in [Runners -> SUBSET Tickers]
    /\ cur \in [Runners -> Bars \cup {NoBar}]
    /\ left \in [Runners -> SUBSET Timeframes]
    /\ at \in [Runners -> Int]
    /\ \A r \in Runners : pc[r] = "fetching" => cur[r] \in Bars

\* The day of the last backfill is the newest one with a run.
BackfillInv ==
    /\ bfSlot <= Day(clock)
    /\ \A d \in Days : bfRuns[d] <= 1 /\ (bfRuns[d] > 0 => d <= bfSlot)

\* Two readings of the broker's clock are less than a slot of loop C apart.
ClocksClose == \A o, p \in AllOffsets : o - p < 30

\* The last slot of loop C is the newest one with a run, and its time has come.
SlotInv ==
    /\ loopCSlot = None \/ loopCSlot % 30 = 0
    /\ \E o \in AllOffsets : loopCSlot <= clock + o
    /\ \A t \in Times : loopCRuns[t] <= 1 /\ (loopCRuns[t] > 0 => t <= loopCSlot)

CycleInv == CycleType /\ MarkedIsScanned /\ BackfillInv

-----------------------------------------------------------------------------
(* Cycles that never overlap.                                              *)

OneRunner == \A r, q \in Runners : r = q

\* Two readings of the broker's clock are less than the shortest bar apart.
ClocksAgree == \A o, p \in AllOffsets : o - p < 3

\* A bar of timeframe f with slot v is due at v + Lag(f).
Lag(f) == IF f = "1d" THEN 930 ELSE 0

\* v is no slot, or a slot whose bar was due at some time read so far.
Reached(v, f) ==
    v = None \/ (v % Period(f) = 0 /\ \E o \in AllOffsets : v + Lag(f) <= clock + o)

\* A mark is the newest scanned slot of its key.
MarkInv ==
    /\ again = {}
    /\ done \in SUBSET Bars
    /\ \A b \in done : processed[<<b[1], b[2]>>] # None /\ b[3] <= processed[<<b[1], b[2]>>]
    /\ \A k \in Tickers, f \in Timeframes : Reached(processed[<<k, f>>], f)

\* The bars a runner is about to scan are newer than the marks, or marked.
Ahead(r) ==
    /\ cur[r][3] = slot_key(at[r], cur[r][2])
    /\ processed[<<cur[r][1], cur[r][2]>>] # cur[r][3]
    /\ cur[r][2] \notin left[r]
    /\ \E o \in AllOffsets : at[r] <= clock + o
    /\ \A f \in left[r] \cup {cur[r][2]} :
          /\ f \in due_timeframes(at[r])
          /\ \/ processed[<<cur[r][1], f>>] = None
             \/ processed[<<cur[r][1], f>>] <= slot_key(at[r], f)

ScanInv == MarkInv /\ \A r \in Runners : pc[r] = "fetching" => Ahead(r)

-----------------------------------------------------------------------------
(* What the awaits of a cycle return to.                                   *)

\* The lengths of the bars.
LEMMA PeriodFacts ==
    ASSUME NEW f \in Timeframes
    PROVE  /\ Period(f) \in {3, 5, 15, 60, 1440}
           /\ \A t \in Int : slot_key(t, f) \in Int
<1>1. Period(f) \in {3, 5, 15, 60, 1440}
  BY DEF Timeframes, Period
<1>2. ASSUME NEW t \in Int PROVE slot_key(t, f) \in Int
  BY <1>1 DEF slot_key
<1> QED BY <1>1, <1>2

\* A runner goes on to the next bar, or ends its cycle at the time it read.
Fetches(r) ==
    \E k \in Tickers, fs \in SUBSET Timeframes, t \in Int, rest \in SUBSET Tickers :
        Fetch(r, k, fs, t, rest, processed')

Walks(r) ==
    \/ Fetches(r) /\ UNCHANGED <<loopC, report>>
    \/ \E o \in AllOffsets : FinishCycle(r, clock + o)

\* A cycle fails, or its alert has been sent.
Ends(r) ==
    \/ FailCycle(r)
    \/ Idle(r) /\ UNCHANGED <<loopC, report>>

\* The walk over the tickers in one of these forms.
LEMMA VisitWalks ==
    ASSUME NEW r \in Runners, NEW ks \in SUBSET Tickers, NEW o \in AllOffsets, clock \in Nat,
           VisitTickers(r, ks, clock + o, processed')
    PROVE  Walks(r)
<1>1. clock + o \in Int /\ due_timeframes(clock + o) \in SUBSET Timeframes
  BY OffsetsAssumption DEF AllOffsets, due_timeframes
<1>2. CASE FinishCycle(r, clock + o)
  BY <1>2 DEF Walks
<1>3. ASSUME NEW k \in ks, UNCHANGED <<loopC, report>>,
             Fetch(r, k, due_timeframes(clock + o), clock + o, {j \in ks : j > k}, processed')
      PROVE  Walks(r)
  <2>1. k \in Tickers /\ {j \in ks : j > k} \in SUBSET Tickers
    OBVIOUS
  <2>2. Fetches(r)
    BY <1>1, <1>3, <2>1 DEF Fetches
  <2> QED BY <1>3, <2>2 DEF Walks
<1> QED BY <1>2, <1>3 DEF VisitTickers

\* So does the rest of a ticker's timeframes.
LEMMA ContinueWalks ==
    ASSUME CycleType, NEW r \in Runners, pc[r] = "fetching", Continue(r, processed')
    PROVE  Walks(r)
<1>1. cur[r][1] \in Tickers /\ left[r] \in SUBSET Timeframes /\ at[r] \in Int /\ todo[r] \in SUBSET Tickers
  BY DEF CycleType, Bars
<1>2. CASE Fetch(r, cur[r][1], left[r], at[r], todo[r], processed') /\ UNCHANGED <<loopC, report>>
  BY <1>1, <1>2 DEF Fetches, Walks
<1>3. CASE VisitTickers(r, todo[r], aligned, processed')
  BY <1>1, <1>3, VisitWalks DEF aligned, CycleType
<1> QED BY <1>2, <1>3 DEF Continue

\* And the first walk of a cycle.
LEMMA LoadWalks ==
    ASSUME NEW r \in Runners, NEW o \in AllOffsets, clock \in Nat, UNCHANGED processed,
           LoadTickers(r, clock + o)
    PROVE  Walks(r)
<1>1. VisitTickers(r, Tickers, clock + o, processed') \/ VisitTickers(r, {}, clock + o, processed')
  BY DEF LoadTickers
<1> QED BY <1>1, VisitWalks

\* What a walk does to the runner.
LEMMA WalkLocals ==
    ASSUME CycleType, NEW r \in Runners, Walks(r)
    PROVE  /\ pc' \in [Runners -> Places] /\ todo' \in [Runners -> SUBSET Tickers]
           /\ cur' \in [Runners -> Bars \cup {NoBar}] /\ left' \in [Runners -> SUBSET Timeframes]
           /\ at' \in [Runners -> Int]
           /\ \A q \in Runners : pc'[q] = "fetching" => cur'[q] \in Bars
<1> USE DEF CycleType, Places
<1>1. ASSUME NEW k \in Tickers, NEW fs \in SUBSET Timeframes, NEW t \in Int, NEW rest \in SUBSET Tickers,
             NEW f \in fs, pc' = [pc EXCEPT ![r] = "fetching"],
             cur' = [cur EXCEPT ![r] = <<k, f, slot_key(t, f)>>],
             left' = [left EXCEPT ![r] = {g \in fs : Period(g) > Period(f)}],
             at' = [at EXCEPT ![r] = t], todo' = [todo EXCEPT ![r] = rest]
      PROVE  /\ pc' \in [Runners -> Places] /\ todo' \in [Runners -> SUBSET Tickers]
             /\ cur' \in [Runners -> Bars \cup {NoBar}] /\ left' \in [Runners -> SUBSET Timeframes]
             /\ at' \in [Runners -> Int]
             /\ \A q \in Runners : pc'[q] = "fetching" => cur'[q] \in Bars
  <2>1. <<k, f, slot_key(t, f)>> \in Bars
    BY <1>1, PeriodFacts DEF Bars
  <2>2. {g \in fs : Period(g) > Period(f)} \in SUBSET Timeframes
    OBVIOUS
  <2> QED BY <1>1, <2>1, <2>2
<1>2. CASE Fetches(r)
  <2>1. PICK k \in Tickers, fs \in SUBSET Timeframes, t \in Int, rest \in SUBSET Tickers :
             Fetch(r, k, fs, t, rest, processed')
    BY <1>2 DEF Fetches
  <2>2. PICK f \in Pending(k, fs, t, processed') :
             /\ pc' = [pc EXCEPT ![r] = "fetching"]
             /\ cur' = [cur EXCEPT ![r] = <<k, f, slot_key(t, f)>>]
             /\ left' = [left EXCEPT ![r] = {g \in fs : Period(g) > Period(f)}]
             /\ at' = [at EXCEPT ![r] = t]
             /\ todo' = [todo EXCEPT ![r] = rest]
    BY <2>1 DEF Fetch
  <2>3. f \in fs
    BY <2>2 DEF Pending
  <2> QED BY ONLY <1>1, <2>2, <2>3
<1>3. ASSUME Idle(r)
      PROVE  /\ pc' \in [Runners -> Places] /\ todo' \in [Runners -> SUBSET Tickers]
             /\ cur' \in [Runners -> Bars \cup {NoBar}] /\ left' \in [Runners -> SUBSET Timeframes]
             /\ at' \in [Runners -> Int]
             /\ \A q \in Runners : pc'[q] = "fetching" => cur'[q] \in Bars
  BY <1>3 DEF Idle, None
<1> QED BY <1>2, <1>3 DEF Walks, FinishCycle

\* The cycle of r fails or is over.
LEMMA IdleLocals ==
    ASSUME CycleType, NEW r \in Runners, Idle(r) \/ AwaitAlert(r)
    PROVE  /\ pc' \in [Runners -> Places] /\ todo' \in [Runners -> SUBSET Tickers]
           /\ cur' \in [Runners -> Bars \cup {NoBar}] /\ left' \in [Runners -> SUBSET Timeframes]
           /\ at' \in [Runners -> Int]
           /\ \A q \in Runners : pc'[q] = "fetching" => cur'[q] \in Bars
BY DEF CycleType, Idle, AwaitAlert, None, Places

\* What a walk does to loop C's records and the metrics.
LEMMA WalkReport ==
    ASSUME CycleType, NEW r \in Runners, Walks(r)
    PROVE  /\ metrics' \in [cycles : Nat, errors : Nat, consecutive : Nat]
           /\ \/ UNCHANGED <<loopCSlot, loopCRuns>>
              \/ \E o \in AllOffsets :
                    /\ (clock + o) % 30 = 0 /\ loopCSlot # clock + o
                    /\ loopCSlot' = clock + o
                    /\ loopCRuns' = [loopCRuns EXCEPT ![clock + o] = @ + 1]
           /\ \/ UNCHANGED <<bfSlot, bfRuns>>
              \/ /\ bfSlot # Day(clock) /\ bfSlot' = Day(clock)
                 /\ bfRuns' = [bfRuns EXCEPT ![Day(clock)] = @ + 1]
<1>1. CASE UNCHANGED <<loopC, report>>
  BY <1>1 DEF loopC, report, CycleType
<1>2. ASSUME NEW o \in AllOffsets, FinishCycle(r, clock + o)
      PROVE  /\ metrics' = [metrics EXCEPT !.cycles = @ + 1, !.consecutive = 0]
             /\ \/ UNCHANGED <<loopCSlot, loopCRuns>>
                \/ /\ (clock + o) % 30 = 0 /\ loopCSlot # clock + o
                   /\ loopCSlot' = clock + o
                   /\ loopCRuns' = [loopCRuns EXCEPT ![clock + o] = @ + 1]
             /\ \/ UNCHANGED <<bfSlot, bfRuns>>
                \/ /\ bfSlot # Day(clock) /\ bfSlot' = Day(clock)
                   /\ bfRuns' = [bfRuns EXCEPT ![Day(clock)] = @ + 1]
  <2>1. metrics' = [metrics EXCEPT !.cycles = @ + 1, !.consecutive = 0]
    BY <1>2 DEF FinishCycle, record_success
  <2>2. CASE ~should_run_loop_c(clock + o)
    BY <1>2, <2>1, <2>2 DEF FinishCycle, loopC
  <2>3. CASE should_run_loop_c(clock + o)
    <3>1. RunLoopC(clock + o) /\ (clock + o) % 30 = 0 /\ loopCSlot # clock + o
      BY <1>2, <2>3 DEF FinishCycle, should_run_loop_c
    <3> QED BY <2>1, <3>1 DEF RunLoopC, schedule_post_market_backfill_if_due
  <2> QED BY <2>2, <2>3
<1>3. ASSUME metrics' = [metrics EXCEPT !.cycles = @ + 1, !.consecutive = 0]
      PROVE  metrics' \in [cycles : Nat, errors : Nat, consecutive : Nat]
  <2>1. metrics \in [cycles : Nat, errors : Nat, consecutive : Nat]
    BY DEF CycleType
  <2>2. metrics.cycles + 1 \in Nat
    BY <2>1
  <2> QED BY <1>3, <2>1, <2>2
<1> QED BY <1>1, <1>2, <1>3 DEF Walks

\* What a runner's continuations do: they start the broker's clock, walk on, or
\* fail; a bar is scanned and marked by FetchReturns only.
LEMMA ResumeForms ==
    ASSUME CycleType, NEW r \in Runners, Resumes(r)
    PROVE  /\ UNCHANGED <<clock, task>> /\ offset' \in AllOffsets
           /\ \/ /\ pc[r] = "loopA" /\ pc' = [pc EXCEPT ![r] = "syncing"]
                 /\ UNCHANGED <<loopB, loopC, report, todo, cur, left, at>>
              \/ Walks(r) /\ UNCHANGED loopB
              \/ Ends(r) /\ UNCHANGED loopB
              \/ /\ Walks(r) /\ pc[r] = "fetching"
                 /\ processed' = Mark(r) /\ done' = done \cup {cur[r]}
                 /\ again' = again \cup ({cur[r]} \cap done)
<1> USE DEF CycleType
<1>1. CASE LoopAReturns(r)
  <2>1. UNCHANGED <<clock, offset, processed, done, again, task>> /\ pc[r] = "loopA"
    BY <1>1 DEF LoopAReturns, loopB
  <2>2. CASE LoadTickers(r, aligned)
    BY <2>1, <2>2, LoadWalks DEF aligned, loopB
  <2>3. CASE pc' = [pc EXCEPT ![r] = "syncing"] /\ UNCHANGED <<loopC, report, todo, cur, left, at>>
    BY <2>1, <2>3 DEF loopB
  <2> QED BY <1>1, <2>2, <2>3 DEF LoopAReturns
<1>2. CASE SyncReturns(r)
  <2>1. PICK o \in Offsets : offset' = o /\ LoadTickers(r, clock + o)
    BY <1>2 DEF SyncReturns
  <2>2. UNCHANGED <<clock, processed, done, again, task>> /\ o \in AllOffsets
    BY <1>2 DEF SyncReturns, loopB, AllOffsets
  <2> QED BY <2>1, <2>2, LoadWalks DEF loopB
<1>3. CASE CycleRaises(r)
  BY <1>3 DEF CycleRaises, Ends, time
<1>4. CASE FetchReturns(r)
  <2>1. /\ pc[r] = "fetching" /\ processed' = Mark(r) /\ done' = done \cup {cur[r]}
        /\ again' = again \cup ({cur[r]} \cap done)
        /\ Continue(r, processed') /\ UNCHANGED <<clock, offset, task>>
    BY <1>4 DEF FetchReturns, time
  <2> QED BY <2>1, ContinueWalks
<1>5. CASE StoreFails(r)
  <2>1. pc[r] = "fetching" /\ UNCHANGED <<clock, offset, task, loopB>> /\ Continue(r, processed')
    BY <1>5 DEF StoreFails, time, loopB
  <2> QED BY <2>1, ContinueWalks
<1>6. CASE AlertReturns(r)
  BY <1>6 DEF AlertReturns, Ends, time, loopB
<1> QED BY <1>1, <1>2, <1>3, <1>4, <1>5, <1>6 DEF Resumes

-----------------------------------------------------------------------------
(* The steps, however the cycles overlap.                                  *)

\* Everything is empty at the start.
LEMMA InitCycle == Init => CycleInv /\ SlotInv
<1> SUFFICES ASSUME Init PROVE CycleInv /\ SlotInv
    OBVIOUS
<1>1. CycleType
  BY TimesAssumption DEF Init, CycleType, AllOffsets, Places, None
<1>2. MarkedIsScanned
  BY DEF Init, MarkedIsScanned
<1>3. BackfillInv
  <2>1. Day(clock) \in Nat
    BY <1>1 DEF CycleType, Day
  <2> QED BY <2>1 DEF Init, BackfillInv, None
<1>4. SlotInv
  <2>1. /\ clock \in Nat /\ loopCSlot = None /\ 0 \in AllOffsets
        /\ loopCRuns = [t \in Times |-> 0]
    BY TimesAssumption DEF Init, AllOffsets
  <2>2. \A t \in Times : loopCRuns[t] = 0
    BY <2>1
  <2>3. loopCSlot <= clock + 0
    BY <2>1 DEF None
  <2>4. \E o \in AllOffsets : loopCSlot <= clock + o
    BY <2>1, <2>3
  <2> QED BY <2>1, <2>2, <2>4 DEF SlotInv
<1> QED BY <1>1, <1>2, <1>3, <1>4 DEF CycleInv

\* Counting one more run.
LEMMA BumpType ==
    ASSUME NEW S, NEW h \in [S -> Nat], NEW x
    PROVE  [h EXCEPT ![x] = @ + 1] \in [S -> Nat]
<1> DEFINE g == [h EXCEPT ![x] = @ + 1]
<1>1. ASSUME NEW y \in S PROVE g[y] \in Nat
  <2>1. h[y] \in Nat
    OBVIOUS
  <2>2. g[y] = IF y = x THEN h[y] + 1 ELSE h[y]
    OBVIOUS
  <2> HIDE DEF g
  <2> QED BY <2>1, <2>2
<1>2. g = [y \in S |-> g[y]]
  OBVIOUS
<1> HIDE DEF g
<1>3. g \in [S -> Nat]
  BY <1>1, <1>2
<1> QED BY <1>3 DEF g

\* The types of the clock, the tables and the runners.
LEMMA StepType == CycleType /\ [Next]_vars => CycleType'
<1> SUFFICES ASSUME CycleType, [Next]_vars PROVE CycleType'
    OBVIOUS
<1> USE DEF CycleType, Places
<1>1. CASE UNCHANGED vars
  BY <1>1 DEF vars, time, loopB, loopC, report, locals
<1>2. CASE Tick
  BY <1>2 DEF Tick, loopB, loopC, report, locals
<1>3. CASE StartTask
  BY <1>3 DEF StartTask, time, loopB, loopC, report, locals
<1>4. CASE BackfillEnds
  BY <1>4 DEF BackfillEnds, time, loopB, report, locals
<1>o. CASE OperatorResumes
  BY <1>o DEF OperatorResumes, time, loopB, loopC, locals
<1>5. CASE StopTask
  BY <1>5, IdleLocals DEF StopTask, time, loopB, loopC, report, Runners
<1>6. ASSUME NEW r \in Runners, StartCycle(r) PROVE CycleType'
  BY <1>6 DEF StartCycle, time, loopB, loopC, report
<1>7. ASSUME NEW r \in Runners, Resumes(r) PROVE CycleType'
  <2>1. UNCHANGED clock /\ offset' \in AllOffsets
    BY <1>7, ResumeForms
  <2>2. CASE /\ pc[r] = "loopA" /\ pc' = [pc EXCEPT ![r] = "syncing"]
             /\ UNCHANGED <<loopB, loopC, report, todo, cur, left, at>>
    BY <2>1, <2>2 DEF loopB, loopC, report
  <2>3. CASE Ends(r) /\ UNCHANGED loopB
    <3>1. metrics' \in [cycles : Nat, errors : Nat, consecutive : Nat]
      <4>1. /\ metrics.cycles + 1 \in Nat /\ metrics.errors + 1 \in Nat /\ metrics.consecutive + 1 \in Nat
        OBVIOUS
      <4> QED BY <2>3, <4>1 DEF Ends, FailCycle, record_failure, report
    <3>2. (Idle(r) \/ AwaitAlert(r)) /\ UNCHANGED <<processed, loopCSlot, loopCRuns, bfSlot, bfRuns>>
      BY <2>3 DEF Ends, FailCycle, loopB, loopC
    <3> QED BY <2>1, <3>1, <3>2, IdleLocals
  <2>4. CASE Walks(r) /\ processed' \in [Keys -> Int]
    <3>1. loopCSlot' \in Int /\ loopCRuns' \in [Times -> Nat]
      <4>1. CASE UNCHANGED <<loopCSlot, loopCRuns>>
        BY <4>1
      <4>2. ASSUME NEW o \in AllOffsets, loopCSlot' = clock + o,
                   loopCRuns' = [loopCRuns EXCEPT ![clock + o] = @ + 1]
            PROVE  loopCSlot' \in Int /\ loopCRuns' \in [Times -> Nat]
        BY <4>2, BumpType, OffsetsAssumption DEF AllOffsets
      <4> QED BY <2>4, <4>1, <4>2, WalkReport
    <3>2. bfSlot' \in Int /\ bfRuns' \in [Days -> Nat]
      <4>1. CASE UNCHANGED <<bfSlot, bfRuns>>
        BY <4>1
      <4>2. CASE bfSlot' = Day(clock) /\ bfRuns' = [bfRuns EXCEPT ![Day(clock)] = @ + 1]
        <5>1. Day(clock) \in Int
          BY DEF Day
        <5> QED BY <4>2, <5>1, BumpType
      <4> QED BY <2>4, <4>1, <4>2, WalkReport
    <3>3. metrics' \in [cycles : Nat, errors : Nat, consecutive : Nat]
      BY <2>4, WalkReport
    <3> QED BY <2>1, <2>4, <3>1, <3>2, <3>3, WalkLocals
  <2>5. UNCHANGED loopB => processed' \in [Keys -> Int]
    BY DEF loopB
  <2>6. (pc[r] = "fetching" /\ processed' = Mark(r)) => processed' \in [Keys -> Int]
    BY DEF Mark, Bars, Keys
  <2> QED BY <1>7, <2>2, <2>3, <2>4, <2>5, <2>6, ResumeForms
<1> QED BY <1>1, <1>2, <1>3, <1>4, <1>o, <1>5, <1>6, <1>7 DEF Next

\* A mark is set together with the scan.
LEMMA StepMarks == CycleType /\ MarkedIsScanned /\ [Next]_vars => MarkedIsScanned'
<1> SUFFICES ASSUME CycleType, MarkedIsScanned, [Next]_vars PROVE MarkedIsScanned'
    OBVIOUS
<1>1. CASE \/ UNCHANGED vars \/ Tick \/ StartTask \/ BackfillEnds \/ StopTask \/ OperatorResumes
           \/ \E r \in Runners : StartCycle(r)
  <2>1. UNCHANGED <<processed, done>>
    BY <1>1 DEF vars, Tick, StartTask, BackfillEnds, StopTask, OperatorResumes, StartCycle, loopB
  <2> QED BY <2>1 DEF MarkedIsScanned
<1>2. ASSUME NEW r \in Runners, Resumes(r) PROVE MarkedIsScanned'
  <2>1. CASE UNCHANGED loopB
    BY <2>1 DEF loopB, MarkedIsScanned
  <2>2. CASE pc[r] = "fetching" /\ processed' = Mark(r) /\ done' = done \cup {cur[r]}
    <3>1. PICK k \in Tickers, f \in Timeframes, v \in Int : cur[r] = <<k, f, v>>
      BY <2>2 DEF CycleType, Bars
    <3>2. processed' = [processed EXCEPT ![<<k, f>>] = v] /\ <<k, f>> \in Keys
      BY <2>2, <3>1 DEF Mark, Keys
    <3> QED BY <2>2, <3>1, <3>2 DEF MarkedIsScanned, CycleType
  <2> QED BY <1>2, <2>1, <2>2, ResumeForms
<1> QED BY <1>1, <1>2 DEF Next

\* Days only go forward.
LEMMA DayGrows ==
    ASSUME NEW t \in Nat
    PROVE  Day(t) \in Nat /\ Day(t + 1) \in Nat /\ Day(t) <= Day(t + 1)
BY DEF Day

\* The backfill of a day is scheduled by the first cycle that finds it due.
LEMMA StepBackfill == CycleType /\ BackfillInv /\ [Next]_vars => BackfillInv'
<1> SUFFICES ASSUME CycleType, BackfillInv, [Next]_vars PROVE BackfillInv'
    OBVIOUS
<1>0. /\ bfRuns \in [Days -> Nat] /\ bfSlot \in Int /\ clock \in Nat /\ Days \subseteq Int
      /\ Day(clock) \in Nat
  <2>1. Day(StartTime) \in Nat /\ Day(MaxTime) \in Nat
    BY TimesAssumption, DayGrows
  <2>2. Days \subseteq Int
    BY <2>1 DEF Days
  <2>3. bfRuns \in [Days -> Nat] /\ bfSlot \in Int /\ clock \in Nat
    BY DEF CycleType
  <2>4. Day(clock) \in Nat
    BY <2>3, DayGrows
  <2> QED BY <2>2, <2>3, <2>4
<1>1. CASE UNCHANGED <<clock, bfSlot, bfRuns>>
  BY <1>1 DEF BackfillInv, Day
<1>2. CASE \/ UNCHANGED vars \/ StartTask \/ BackfillEnds \/ StopTask \/ OperatorResumes
           \/ \E r \in Runners : StartCycle(r)
  BY <1>1, <1>2 DEF vars, StartTask, BackfillEnds, StopTask, OperatorResumes, StartCycle, time, loopC
<1>3. CASE Tick
  <2>1. UNCHANGED <<bfSlot, bfRuns>> /\ Day(clock)' = Day(clock + 1)
    BY <1>3 DEF Tick, loopC, Day
  <2>2. Day(clock) <= Day(clock)' /\ Day(clock)' \in Nat
    BY <1>0, <2>1, DayGrows
  <2> QED BY <1>0, <2>1, <2>2 DEF BackfillInv
<1>4. ASSUME NEW r \in Runners, Resumes(r) PROVE BackfillInv'
  <2>1. UNCHANGED clock
    BY <1>4, ResumeForms
  <2>2. CASE UNCHANGED <<bfSlot, bfRuns>>
    BY <1>1, <2>1, <2>2
  <2>3. CASE /\ bfSlot # Day(clock) /\ bfSlot' = Day(clock)
             /\ bfRuns' = [bfRuns EXCEPT ![Day(clock)] = @ + 1]
    <3>1. bfSlot < Day(clock) /\ Day(clock)' = Day(clock)
      BY <1>0, <2>1, <2>3 DEF BackfillInv, Day
    <3>2. ASSUME NEW d \in Days PROVE bfRuns'[d] <= 1 /\ (bfRuns'[d] > 0 => d <= bfSlot')
      <4>0. d \in Int /\ bfRuns[d] \in Nat /\ bfRuns[d] <= 1 /\ (bfRuns[d] > 0 => d <= bfSlot)
        BY <1>0 DEF BackfillInv
      <4>1. CASE d = Day(clock)
        BY <1>0, <2>3, <3>1, <4>0, <4>1
      <4>2. CASE d # Day(clock)
        BY <1>0, <2>3, <3>1, <4>0, <4>2
      <4> QED BY <4>1, <4>2
    <3> QED BY <1>0, <2>3, <3>1, <3>2 DEF BackfillInv
  <2>4. CASE UNCHANGED loopC \/ Ends(r)
    BY <2>2, <2>4 DEF loopC, Ends, FailCycle
  <2> QED BY <1>4, <2>2, <2>3, <2>4, ResumeForms, WalkReport
<1> QED BY <1>2, <1>3, <1>4 DEF Next

\* A slot of loop C is taken by the first cycle that finds it due; the broker's
\* clock may be set back, but never by a whole slot.
LEMMA StepSlot ==
    ASSUME ClocksClose, CycleType, SlotInv, [Next]_vars
    PROVE  SlotInv'
<1>0. /\ loopCRuns \in [Times -> Nat] /\ loopCSlot \in Int /\ clock \in Nat
      /\ Times \subseteq Nat /\ AllOffsets \subseteq Int
  BY TimesAssumption, OffsetsAssumption DEF CycleType, Times, AllOffsets
<1>1. CASE UNCHANGED <<loopCSlot, loopCRuns>> /\ clock' \in {clock, clock + 1}
  <2>1. PICK o \in AllOffsets : loopCSlot <= clock + o
    BY DEF SlotInv
  <2>2. loopCSlot' <= clock' + o
    <3>1. o \in Int /\ loopCSlot' = loopCSlot /\ (clock' = clock \/ clock' = clock + 1)
      BY <1>0, <1>1
    <3> QED BY <1>0, <2>1, <3>1
  <2> QED BY <1>1, <2>2 DEF SlotInv
<1>2. CASE \/ UNCHANGED vars \/ Tick \/ StartTask \/ BackfillEnds \/ StopTask
           \/ OperatorResumes \/ \E r \in Runners : StartCycle(r)
  BY <1>1, <1>2 DEF vars, Tick, StartTask, BackfillEnds, StopTask, OperatorResumes, StartCycle, time, loopC
<1>3. ASSUME NEW r \in Runners, Resumes(r) PROVE SlotInv'
  <2>1. UNCHANGED clock
    BY <1>3, ResumeForms
  <2>2. CASE UNCHANGED <<loopCSlot, loopCRuns>>
    BY <1>1, <2>1, <2>2
  <2>3. ASSUME NEW o \in AllOffsets, (clock + o) % 30 = 0, loopCSlot # clock + o,
               loopCSlot' = clock + o, loopCRuns' = [loopCRuns EXCEPT ![clock + o] = @ + 1]
        PROVE  SlotInv'
    <3> DEFINE now == clock + o
    <3>1. now \in Int /\ now % 30 = 0 /\ loopCSlot # now
      BY <1>0, <2>3
    <3>2. PICK p \in AllOffsets : loopCSlot <= clock + p
      BY DEF SlotInv
    <3>3. loopCSlot < now + 30
      BY <1>0, <3>2 DEF ClocksClose
    <3>4. loopCSlot = None \/ loopCSlot % 30 = 0
      BY DEF SlotInv
    <3> HIDE DEF now
    <3>5. loopCSlot % 30 = 0 => loopCSlot < now
      BY <1>0, <3>1, <3>3
    <3>6. loopCSlot = None => \A t \in Times : loopCRuns[t] = 0
      BY <1>0 DEF SlotInv, None
    <3>7. ASSUME NEW t \in Times PROVE loopCRuns'[t] <= 1 /\ (loopCRuns'[t] > 0 => t <= loopCSlot')
      <4>0. /\ t \in Nat /\ loopCRuns[t] \in Nat /\ loopCRuns[t] <= 1
            /\ loopCRuns[t] > 0 => t <= loopCSlot
        BY <1>0 DEF SlotInv
      <4>1. loopCSlot' = now /\ loopCRuns' = [loopCRuns EXCEPT ![now] = @ + 1]
        BY <2>3 DEF now
      <4>2. CASE t = now
        BY <1>0, <3>1, <3>4, <3>5, <3>6, <4>0, <4>1, <4>2
      <4>3. CASE t # now
        BY <1>0, <3>1, <3>4, <3>5, <3>6, <4>0, <4>1, <4>3
      <4> QED BY <4>2, <4>3
    <3>8. loopCSlot' <= clock' + o /\ loopCSlot' % 30 = 0
      BY <1>0, <2>1, <2>3
    <3> QED BY <3>7, <3>8 DEF SlotInv
  <2>4. CASE UNCHANGED loopC \/ Ends(r)
    BY <2>2, <2>4 DEF loopC, Ends, FailCycle
  <2> QED BY <1>3, <2>2, <2>3, <2>4, ResumeForms, WalkReport
<1> QED BY <1>2, <1>3 DEF Next

\* The invariant of the cycle, over every step.
LEMMA StepCycle == CycleInv /\ [Next]_vars => CycleInv'
BY StepType, StepMarks, StepBackfill DEF CycleInv

\* However many cycles overlap: _processed_slots only has slots whose bar was
\* fetched, stored and scanned.
THEOREM MarksAreTrue == Spec => []MarkedIsScanned
<1>1. CycleInv => MarkedIsScanned
  BY DEF CycleInv
<1>2. Init => CycleInv
  BY InitCycle
<1> QED BY <1>1, <1>2, StepCycle, PTL DEF Spec

\* However many cycles overlap, and although the broker's clock may be set back
\* by less than half an hour: loop C runs once in a slot, the backfill once a day.
THEOREM MaintenanceRunsOnce == ASSUME ClocksClose PROVE Spec => []MaintainedOnce
<1>1. CycleInv /\ SlotInv => MaintainedOnce
  BY DEF CycleInv, BackfillInv, SlotInv, MaintainedOnce
<1>2. CycleInv /\ SlotInv /\ [Next]_vars => CycleInv' /\ SlotInv'
  BY StepCycle, StepSlot DEF CycleInv
<1> QED BY <1>1, <1>2, InitCycle, PTL DEF Spec

-----------------------------------------------------------------------------
(* Cycles that never overlap: every bar is scanned once.                   *)

\* The slot of a bar that is due at t.
LEMMA SlotFacts ==
    ASSUME NEW t \in Int, NEW f \in due_timeframes(t)
    PROVE  /\ f \in Timeframes /\ slot_key(t, f) \in Int
           /\ slot_key(t, f) % Period(f) = 0 /\ slot_key(t, f) + Lag(f) = t
<1>1. f \in Timeframes /\ (IF f = "1d" THEN t % 1440 = 930 ELSE t % Period(f) = 0)
  BY DEF due_timeframes, Minute
<1>2. CASE f = "1d"
  <2>1. Period(f) = 1440 /\ t % 1440 = 930 /\ slot_key(t, f) = t - 930 /\ Lag(f) = 930
    BY <1>1, <1>2 DEF Period, slot_key, Lag
  <2>2. (t - 930) % 1440 = 0
    BY <2>1
  <2> QED BY <1>1, <2>1, <2>2
<1>3. CASE f # "1d"
  <2>1. t % Period(f) = 0 /\ Lag(f) = 0
    BY <1>1, <1>3 DEF Lag
  <2>2. slot_key(t, f) = t
    BY <2>1 DEF slot_key
  <2> QED BY <1>1, <2>1, <2>2
<1> QED BY <1>2, <1>3

\* A bar that is due now is no older than a marked one of its key.
LEMMA DueIsNewer ==
    ASSUME ClocksAgree, clock \in Nat, NEW o \in AllOffsets, NEW f \in due_timeframes(clock + o),
           NEW v \in Int, Reached(v, f)
    PROVE  v = None \/ v <= slot_key(clock + o, f)
<1> SUFFICES ASSUME v # None PROVE v <= slot_key(clock + o, f)
    OBVIOUS
<1> DEFINE s == slot_key(clock + o, f)
<1>1. o \in Int /\ clock + o \in Int
  BY OffsetsAssumption DEF AllOffsets
<1>2. f \in Timeframes /\ s \in Int /\ s % Period(f) = 0 /\ s + Lag(f) = clock + o
  BY <1>1, SlotFacts
<1> HIDE DEF s
<1>3. PICK p \in AllOffsets : v % Period(f) = 0 /\ v + Lag(f) <= clock + p
  BY DEF Reached
<1>4. p \in Int /\ p - o < 3
  BY OffsetsAssumption DEF AllOffsets, ClocksAgree
<1>5. Lag(f) \in Int
  BY DEF Lag
<1>6. v < s + 3
  BY <1>1, <1>2, <1>3, <1>4, <1>5
<1>7. Period(f) \in {3, 5, 15, 60, 1440}
  BY <1>2, PeriodFacts
<1>8. v <= s
  <2>1. CASE Period(f) = 3
    BY <1>2, <1>3, <1>6, <2>1
  <2>2. CASE Period(f) = 5
    BY <1>2, <1>3, <1>6, <2>2
  <2>3. CASE Period(f) = 15
    BY <1>2, <1>3, <1>6, <2>3
  <2>4. CASE Period(f) = 60
    BY <1>2, <1>3, <1>6, <2>4
  <2>5. CASE Period(f) = 1440
    BY <1>2, <1>3, <1>6, <2>5
  <2> QED BY <1>7, <2>1, <2>2, <2>3, <2>4, <2>5
<1> QED BY <1>8 DEF s

\* The next bar of a walk.
LEMMA FetchAhead ==
    ASSUME CycleType, NEW r \in Runners, NEW k \in Tickers, NEW fs \in SUBSET Timeframes,
           NEW t \in Int, NEW rest, UNCHANGED clock, Fetch(r, k, fs, t, rest, processed'),
           \E o \in AllOffsets : t <= clock + o,
           \A f \in fs : /\ f \in due_timeframes(t)
                         /\ processed'[<<k, f>>] = None \/ processed'[<<k, f>>] <= slot_key(t, f)
    PROVE  Ahead(r)'
<1>1. PICK f \in Pending(k, fs, t, processed') :
           /\ cur' = [cur EXCEPT ![r] = <<k, f, slot_key(t, f)>>]
           /\ left' = [left EXCEPT ![r] = {g \in fs : Period(g) > Period(f)}]
           /\ at' = [at EXCEPT ![r] = t]
  BY DEF Fetch
<1>2. f \in fs /\ processed'[<<k, f>>] # slot_key(t, f)
  BY <1>1 DEF Pending
<1>3. /\ cur'[r] = <<k, f, slot_key(t, f)>> /\ at'[r] = t
      /\ left'[r] = {g \in fs : Period(g) > Period(f)}
  BY <1>1 DEF CycleType
<1>4. f \notin left'[r] /\ left'[r] \subseteq fs
  <2>1. Period(f) \in Int
    BY <1>2, PeriodFacts
  <2> QED BY <1>3, <2>1
<1>5. cur'[r][1] = k /\ cur'[r][2] = f /\ cur'[r][3] = slot_key(t, f)
  BY <1>3
<1>6. \A g \in left'[r] \cup {f} :
           /\ g \in due_timeframes(at'[r])
           /\ processed'[<<k, g>>] = None \/ processed'[<<k, g>>] <= slot_key(at'[r], g)
  BY <1>2, <1>3, <1>4
<1>7. \E o \in AllOffsets : at'[r] <= clock' + o
  BY <1>3
<1> QED BY <1>2, <1>3, <1>4, <1>5, <1>6, <1>7 DEF Ahead, due_timeframes, slot_key

\* The first bar of a ticker, at the time the ticker is reached.
LEMMA VisitAhead ==
    ASSUME ClocksAgree, CycleType, NEW r \in Runners, NEW ks \in SUBSET Tickers,
           NEW o \in AllOffsets, UNCHANGED clock, processed' \in [Keys -> Int],
           \A k \in Tickers, f \in Timeframes : Reached(processed'[<<k, f>>], f),
           VisitTickers(r, ks, clock + o, processed')
    PROVE  pc'[r] = "fetching" => Ahead(r)'
<1>0. clock \in Nat /\ clock + o \in Int /\ due_timeframes(clock + o) \in SUBSET Timeframes
  BY OffsetsAssumption DEF CycleType, AllOffsets, due_timeframes
<1>1. CASE FinishCycle(r, clock + o)
  BY <1>1 DEF FinishCycle, Idle, CycleType
<1>2. ASSUME NEW k \in ks, NEW rest,
             Fetch(r, k, due_timeframes(clock + o), clock + o, rest, processed')
      PROVE  Ahead(r)'
  <2>1. ASSUME NEW f \in due_timeframes(clock + o)
        PROVE  \/ processed'[<<k, f>>] = None
               \/ processed'[<<k, f>>] <= slot_key(clock + o, f)
    <3>1. processed'[<<k, f>>] \in Int /\ Reached(processed'[<<k, f>>], f)
      BY <1>0 DEF Keys
    <3> QED BY <1>0, <3>1, DueIsNewer
  <2>2. \E p \in AllOffsets : clock + o <= clock + p
    BY <1>0
  <2> QED BY <1>0, <1>2, <2>1, <2>2, FetchAhead
<1> QED BY <1>1, <1>2 DEF VisitTickers

\* The rest of a ticker's bars, at the time the ticker was reached.
LEMMA ContinueAhead ==
    ASSUME ClocksAgree, CycleType, NEW r \in Runners, pc[r] = "fetching", Ahead(r),
           UNCHANGED clock, processed' \in [Keys -> Int],
           \A k \in Tickers, f \in Timeframes : Reached(processed'[<<k, f>>], f),
           \A f \in left[r] : processed'[<<cur[r][1], f>>] = processed[<<cur[r][1], f>>],
           Continue(r, processed')
    PROVE  pc'[r] = "fetching" => Ahead(r)'
<1>1. /\ cur[r][1] \in Tickers /\ left[r] \in SUBSET Timeframes /\ at[r] \in Int
      /\ todo[r] \in SUBSET Tickers /\ offset \in AllOffsets
  BY DEF CycleType, Bars
<1>2. CASE Fetch(r, cur[r][1], left[r], at[r], todo[r], processed')
  <2>1. \E o \in AllOffsets : at[r] <= clock + o
    BY DEF Ahead
  <2>2. ASSUME NEW f \in left[r]
        PROVE  /\ f \in due_timeframes(at[r])
               /\ \/ processed'[<<cur[r][1], f>>] = None
                  \/ processed'[<<cur[r][1], f>>] <= slot_key(at[r], f)
    BY <2>2 DEF Ahead
  <2> QED BY <1>1, <1>2, <2>1, <2>2, FetchAhead
<1>3. CASE VisitTickers(r, todo[r], clock + offset, processed')
  BY <1>1, <1>3, VisitAhead
<1> QED BY <1>2, <1>3 DEF Continue, aligned

\* A scan: the bar was not scanned before, and its mark is the newest.
LEMMA MarkScans ==
    ASSUME CycleType, MarkInv, NEW r \in Runners, pc[r] = "fetching", Ahead(r), UNCHANGED clock,
           processed' = Mark(r), done' = done \cup {cur[r]}, again' = again \cup ({cur[r]} \cap done)
    PROVE  /\ MarkInv' /\ processed' \in [Keys -> Int]
           /\ \A k \in Tickers, f \in Timeframes : Reached(processed'[<<k, f>>], f)
           /\ \A f \in left[r] : processed'[<<cur[r][1], f>>] = processed[<<cur[r][1], f>>]
<1>1. PICK k \in Tickers, f \in Timeframes, v \in Int : cur[r] = <<k, f, v>>
  BY DEF CycleType, Bars
<1>2. <<k, f>> \in Keys /\ processed \in [Keys -> Int] /\ at[r] \in Int
  BY DEF Keys, CycleType
<1>3. processed' = [processed EXCEPT ![<<k, f>>] = v]
  BY <1>1 DEF Mark
<1>4. /\ processed' \in [Keys -> Int] /\ processed'[<<k, f>>] = v
      /\ \A x \in Keys \ {<<k, f>>} : processed'[x] = processed[x]
  BY <1>2, <1>3
<1>5. /\ v = slot_key(at[r], f) /\ processed[<<k, f>>] # v /\ f \notin left[r]
      /\ f \in due_timeframes(at[r])
      /\ processed[<<k, f>>] = None \/ processed[<<k, f>>] <= v
      /\ \E o \in AllOffsets : at[r] <= clock + o
  BY <1>1 DEF Ahead
<1>6. v % Period(f) = 0 /\ v + Lag(f) = at[r]
  BY <1>2, <1>5, SlotFacts
<1>7. v # None
  <2>1. Period(f) \in {3, 5, 15, 60, 1440}
    BY PeriodFacts
  <2> QED BY <1>6, <2>1 DEF None
<1>8. cur[r] \notin done
  BY <1>1, <1>2, <1>5 DEF MarkInv
<1>9. \A g \in Timeframes, j \in Tickers : Reached(processed'[<<j, g>>], g)
  <2> SUFFICES ASSUME NEW g \in Timeframes, NEW j \in Tickers PROVE Reached(processed'[<<j, g>>], g)
      OBVIOUS
  <2>1. CASE <<j, g>> = <<k, f>>
    <3>1. g = f /\ processed'[<<j, g>>] = v
      BY <1>4, <2>1
    <3> QED BY <1>5, <1>6, <3>1 DEF Reached
  <2>2. CASE <<j, g>> # <<k, f>>
    BY <1>4, <2>2 DEF MarkInv, Keys
  <2> QED BY <2>1, <2>2
<1>10. ASSUME NEW b \in done'
       PROVE  processed'[<<b[1], b[2]>>] # None /\ b[3] <= processed'[<<b[1], b[2]>>]
  <2>1. CASE b = cur[r]
    BY <1>1, <1>4, <1>7, <2>1
  <2>2. CASE b \in done
    <3>1. /\ <<b[1], b[2]>> \in Keys /\ b[3] \in Int
          /\ processed[<<b[1], b[2]>>] # None /\ b[3] <= processed[<<b[1], b[2]>>]
      BY <2>2 DEF MarkInv, Bars, Keys
    <3>2. CASE <<b[1], b[2]>> = <<k, f>>
      BY <1>2, <1>4, <1>5, <1>7, <3>1, <3>2
    <3>3. CASE <<b[1], b[2]>> # <<k, f>>
      BY <1>4, <3>1, <3>3
    <3> QED BY <3>2, <3>3
  <2> QED BY <1>10, <2>1, <2>2
<1>11. again' = {} /\ done' \in SUBSET Bars
  BY <1>8 DEF MarkInv, CycleType
<1>12. \A j \in Tickers, g \in Timeframes : Reached(processed[<<j, g>>], g)'
  <2> SUFFICES ASSUME NEW j \in Tickers, NEW g \in Timeframes PROVE Reached(processed[<<j, g>>], g)'
      OBVIOUS
  <2>1. Reached(processed'[<<j, g>>], g)
    BY <1>9
  <2> QED BY <2>1 DEF Reached
<1>13. \A g \in left[r] : <<cur[r][1], g>> \in Keys /\ <<cur[r][1], g>> # <<k, f>>
  BY <1>1, <1>5 DEF CycleType, Keys
<1> QED BY <1>4, <1>9, <1>10, <1>11, <1>12, <1>13 DEF MarkInv

\* Time passing and the runner's other steps.
LEMMA MarksStay ==
    ASSUME CycleType, MarkInv, clock' \in {clock, clock + 1}, UNCHANGED <<processed, done, again>>
    PROVE  MarkInv'
<1>0. clock \in Nat /\ processed \in [Keys -> Int] /\ AllOffsets \subseteq Int
  BY OffsetsAssumption DEF CycleType, AllOffsets
<1>1. ASSUME NEW k \in Tickers, NEW f \in Timeframes PROVE Reached(processed[<<k, f>>], f)'
  <2>1. Reached(processed[<<k, f>>], f) /\ processed[<<k, f>>] \in Int /\ Lag(f) \in Int
    BY <1>0 DEF MarkInv, Keys, Lag
  <2>2. CASE processed[<<k, f>>] = None
    BY <2>2 DEF Reached
  <2>3. CASE processed[<<k, f>>] # None
    <3>1. PICK o \in AllOffsets : processed[<<k, f>>] % Period(f) = 0 /\ processed[<<k, f>>] + Lag(f) <= clock + o
      BY <2>1, <2>3 DEF Reached
    <3>2. o \in Int /\ clock \in Int
      BY <1>0
    <3>3. processed[<<k, f>>] + Lag(f) <= clock' + o
      <4> DEFINE p == processed[<<k, f>>]
                 l == Lag(f)
      <4>1. p \in Int /\ l \in Int /\ p + l <= clock + o
        BY <2>1, <3>1
      <4> HIDE DEF p, l
      <4>2. p + l <= clock' + o
        <5>1. CASE clock' = clock
          BY <4>1, <5>1
        <5>2. CASE clock' = clock + 1
          BY <3>2, <4>1, <5>2
        <5> QED BY <5>1, <5>2
      <4> QED BY <4>2 DEF p, l
    <3> QED BY <3>1, <3>3 DEF Reached, Lag, Period
  <2> QED BY <2>2, <2>3
<1> QED BY <1>1 DEF MarkInv

\* Every step of the only runner keeps the bars in order.
LEMMA StepScan ==
    ASSUME OneRunner, ClocksAgree, CycleType, ScanInv, [Next]_vars
    PROVE  ScanInv'
<1>0. CycleType' /\ MarkInv /\ \A r, q \in Runners : r = q
  BY StepType DEF OneRunner, ScanInv
<1>1. CASE Tick \/ UNCHANGED vars \/ StartTask \/ BackfillEnds \/ OperatorResumes
  <2>1. /\ UNCHANGED <<processed, done, again, pc, cur, left, at>> /\ clock' \in {clock, clock + 1}
    BY <1>1 DEF vars, Tick, StartTask, BackfillEnds, OperatorResumes, time, loopB, locals
  <2>2. ASSUME NEW r \in Runners, pc[r] = "fetching" PROVE Ahead(r)'
    <3>1. PICK o \in AllOffsets : at[r] <= clock + o
      BY <2>2 DEF ScanInv, Ahead
    <3>2. o \in Int /\ at[r] \in Int /\ clock \in Nat
      BY OffsetsAssumption DEF AllOffsets, CycleType
    <3>3. at[r] <= clock' + o
      BY <2>1, <3>1, <3>2
    <3>4. Ahead(r)
      BY <2>2 DEF ScanInv
    <3> QED BY <2>1, <3>3, <3>4 DEF Ahead, due_timeframes, slot_key
  <2> QED BY <1>0, <2>1, <2>2, MarksStay DEF ScanInv
<1>2. ASSUME NEW r \in Runners, pc'[r] # "fetching", UNCHANGED <<clock, processed, done, again>>
      PROVE  ScanInv'
  <2>1. \A q \in Runners : pc'[q] # "fetching"
    BY <1>0, <1>2
  <2> QED BY <1>0, <1>2, <2>1, MarksStay DEF ScanInv
<1>3. CASE StopTask
  <2>1. Background \in Runners /\ pc'[Background] = "idle" /\ UNCHANGED <<clock, processed, done, again>>
    BY <1>3 DEF StopTask, Idle, Runners, CycleType, time, loopB
  <2> QED BY <1>2, <2>1
<1>4. ASSUME NEW r \in Runners, StartCycle(r) PROVE ScanInv'
  BY <1>2, <1>4 DEF StartCycle, CycleType, time, loopB
<1>w. ASSUME NEW r \in Runners, MarkInv', pc'[r] = "fetching" => Ahead(r)' PROVE ScanInv'
  BY <1>0, <1>w DEF ScanInv
<1>v. ASSUME NEW r \in Runners, NEW o \in AllOffsets, UNCHANGED <<clock, processed, done, again>>,
             LoadTickers(r, clock + o)
      PROVE  ScanInv'
  <2>1. processed' \in [Keys -> Int] /\ \A k \in Tickers, f \in Timeframes : Reached(processed'[<<k, f>>], f)
    BY <1>0, <1>v DEF CycleType, MarkInv
  <2>2. MarkInv'
    BY <1>0, <1>v, MarksStay
  <2>3. VisitTickers(r, Tickers, clock + o, processed') \/ VisitTickers(r, {}, clock + o, processed')
    BY <1>v DEF LoadTickers
  <2>4. pc'[r] = "fetching" => Ahead(r)'
    BY <1>v, <2>1, <2>3, VisitAhead
  <2> QED BY <1>w, <2>2, <2>4
<1>5. ASSUME NEW r \in Runners, LoopAReturns(r) PROVE ScanInv'
  <2>1. UNCHANGED <<clock, processed, done, again>> /\ offset \in AllOffsets
    BY <1>5 DEF LoopAReturns, loopB, CycleType
  <2>2. CASE pc' = [pc EXCEPT ![r] = "syncing"]
    BY <1>2, <2>1, <2>2 DEF CycleType
  <2>3. CASE LoadTickers(r, aligned)
    BY <1>v, <2>1, <2>3 DEF aligned
  <2> QED BY <1>5, <2>2, <2>3 DEF LoopAReturns
<1>6. ASSUME NEW r \in Runners, SyncReturns(r) PROVE ScanInv'
  <2>1. UNCHANGED <<clock, processed, done, again>> /\ \E o \in Offsets : LoadTickers(r, clock + o)
    BY <1>6 DEF SyncReturns, loopB
  <2> QED BY <1>v, <2>1 DEF AllOffsets
<1>7. ASSUME NEW r \in Runners, CycleRaises(r) PROVE ScanInv'
  <2>1. UNCHANGED <<clock, processed, done, again>> /\ pc'[r] # "fetching"
    BY <1>7 DEF CycleRaises, FailCycle, AwaitAlert, CycleType, time, loopB
  <2> QED BY <1>2, <2>1
<1>8. ASSUME NEW r \in Runners, FetchReturns(r) PROVE ScanInv'
  <2>1. /\ pc[r] = "fetching" /\ Ahead(r) /\ UNCHANGED clock
        /\ processed' = Mark(r) /\ done' = done \cup {cur[r]}
        /\ again' = again \cup ({cur[r]} \cap done) /\ Continue(r, processed')
    BY <1>8 DEF FetchReturns, ScanInv, time
  <2>2. /\ MarkInv' /\ processed' \in [Keys -> Int]
        /\ \A k \in Tickers, f \in Timeframes : Reached(processed'[<<k, f>>], f)
        /\ \A f \in left[r] : processed'[<<cur[r][1], f>>] = processed[<<cur[r][1], f>>]
    BY <1>0, <2>1, MarkScans
  <2>3. pc'[r] = "fetching" => Ahead(r)'
    BY <2>1, <2>2, ContinueAhead
  <2> QED BY <1>w, <2>2, <2>3
<1>9. ASSUME NEW r \in Runners, StoreFails(r) PROVE ScanInv'
  <2>1. /\ pc[r] = "fetching" /\ Ahead(r) /\ UNCHANGED <<clock, processed, done, again>>
        /\ Continue(r, processed')
    BY <1>9 DEF StoreFails, ScanInv, time, loopB
  <2>2. /\ MarkInv' /\ processed' \in [Keys -> Int]
        /\ \A k \in Tickers, f \in Timeframes : Reached(processed'[<<k, f>>], f)
        /\ \A f \in left[r] : processed'[<<cur[r][1], f>>] = processed[<<cur[r][1], f>>]
    BY <1>0, <2>1, MarksStay DEF CycleType, MarkInv
  <2>3. pc'[r] = "fetching" => Ahead(r)'
    BY <2>1, <2>2, ContinueAhead
  <2> QED BY <1>w, <2>2, <2>3
<1>10. ASSUME NEW r \in Runners, AlertReturns(r) PROVE ScanInv'
  <2>1. UNCHANGED <<clock, processed, done, again>> /\ pc'[r] # "fetching"
    BY <1>10 DEF AlertReturns, Idle, CycleType, time, loopB
  <2> QED BY <1>2, <2>1
<1> QED BY <1>1, <1>3, <1>4, <1>5, <1>6, <1>7, <1>8, <1>9, <1>10 DEF Next, Resumes

\* Nothing is scanned at the start.
LEMMA InitScan == Init => ScanInv
<1> SUFFICES ASSUME Init PROVE ScanInv
    OBVIOUS
<1>1. \A k \in Tickers, f \in Timeframes : processed[<<k, f>>] = None
  BY DEF Init, Keys
<1> QED BY <1>1 DEF Init, ScanInv, MarkInv, Reached

\* While cycles do not overlap and the broker's clock is set back by less than
\* the shortest bar: no bar of a ticker is scanned twice, whatever fails, is
\* stopped and started again.
THEOREM BarsScannedOnce == ASSUME OneRunner, ClocksAgree PROVE Spec => []ScannedOnce
<1>1. Init => CycleType /\ ScanInv
  BY InitCycle, InitScan DEF CycleInv
<1>2. CycleType /\ ScanInv /\ [Next]_vars => CycleType' /\ ScanInv'
  BY StepType, StepScan
<1>3. ScanInv => ScannedOnce
  BY DEF ScanInv, MarkInv, ScannedOnce
<1> QED BY <1>1, <1>2, <1>3, PTL DEF Spec

=============================================================================
