--------------------------- MODULE OperatorProofs ----------------------------
(***************************************************************************)
(* What an operator sees and sets.  The settings stay valid, and memory,   *)
(* table, history and selection agree after undisturbed writes, for any    *)
(* threads, keys, rules and symbols; incidents are reported and a          *)
(* preflight is true, for any ring, days and requests; changes that come   *)
(* in order are booked once, for any times, tolerances and thresholds.     *)
(***************************************************************************)
EXTENDS ConfigControl, PerformanceBook, LivePreflight,
        WellFoundedInduction, FiniteSetTheorems, SequenceTheorems, TLAPS

Places == {"idle", "read", "set", "commit", "changed", "rows", "select", "end"}

\* The tables, the pending change and the locals of the threads.
ConfigType ==
    /\ memory \in [Known -> Nat \cup {Absent}]
    /\ db \in [Keys -> Nat \cup {Absent}]
    /\ newest \in [Keys -> Nat \cup {Absent}]
    /\ pendingKey \in Keys \cup {NoKey} /\ pendingVal \in Nat
    /\ pc \in [Threads -> Places]
    /\ key \in [Threads -> Keys \cup {NoKey}]
    /\ val \in [Threads -> Nat]
    /\ confirms \in [Threads -> BOOLEAN]
    /\ old \in [Threads -> Nat \cup {Absent}]
    /\ threshold \in [Threads -> Nat \cup {Absent}]
    /\ rows \in [Threads -> SUBSET Symbols]
    /\ active \in SUBSET Symbols
    /\ alone \in [Threads -> BOOLEAN]
    /\ agreed \in [Known -> BOOLEAN]
    /\ selected \in BOOLEAN

\* A request names a key; past manager.set its value has passed the rule; what
\* re-selects counts as a call for the threshold.
ThreadsInv ==
    \A t \in Threads :
        /\ pc[t] # "idle" => key[t] \in Keys
        /\ pc[t] \in {"commit", "changed"} => Accepts(key[t], val[t])
        /\ pc[t] \in {"rows", "select", "end"} => key[t] = Threshold

\* What a call that has met no other of its key may rely on: the row it read,
\* the value it put into memory, the threshold and the symbols it read.
AloneInv ==
    \A t \in Threads : (pc[t] # "idle" /\ alone[t]) =>
        /\ \A u \in Threads \ {t} : pc[u] # "idle" => key[u] # key[t]
        /\ pc[t] \in {"set", "commit"} => old[t] = db[key[t]]
        /\ pc[t] = "commit" => memory[key[t]] = val[t]
        /\ pc[t] \in {"rows", "select"} => threshold[t] = memory[Threshold]
        /\ pc[t] = "select" => rows[t] = active

\* A value is in memory and not yet in the table only while a call is at its
\* commit; the newest history row tells the stored value throughout.
AgreeInv ==
    \A k \in Known : agreed[k] =>
        /\ db[k] # Absent => newest[k] = db[k]
        /\ (\A t \in Threads : pc[t] = "commit" => key[t] # k) =>
               /\ db[k] # Absent => memory[k] = db[k]
               /\ db[k] = Absent => memory[k] = Default[k]

\* The selection lags behind the threshold in memory only while a change of it
\* is on its way to CommitSelection.
SelectInv ==
    (selected /\ \A t \in Threads :
                    pc[t] \in {"commit", "changed", "rows", "select"} => key[t] # Threshold)
    => active = Over(memory[Threshold])

ConfigInv ==
    ConfigType /\ ThreadsInv /\ StoredIsValid /\ AloneInv /\ AgreeInv /\ SelectInv

-----------------------------------------------------------------------------
\* The initial settings are the defaults, and no request is served.
LEMMA InitConfig == Init => ConfigInv
BY KeysAssumption
   DEF Init, ConfigInv, ConfigType, ThreadsInv, StoredIsValid, AloneInv, AgreeInv, SelectInv,
       Over, Places, Absent, Removed, Busy

\* The types are kept by every step of a thread and by a restart.
LEMMA StepType == ConfigType /\ ThreadsInv /\ [Next]_vars => ConfigType'
<1> SUFFICES ASSUME ConfigType, ThreadsInv, [Next]_vars PROVE ConfigType'
    OBVIOUS
<1> USE KeysAssumption DEF ConfigType, Places
<1>0. CASE UNCHANGED vars
  BY <1>0 DEF vars, config, pending, locals, bounds
<1>1. ASSUME NEW t \in Threads, NEW k \in Keys, NEW v \in Nat, NEW c \in BOOLEAN,
             Call(t, k, v, c), UNCHANGED pending
      PROVE  ConfigType'
  BY <1>1 DEF Call, Joins, config, pending
<1>2. ASSUME NEW t \in Threads, WebSet(t) \/ TelegramSet(t) \/ Confirm(t) PROVE ConfigType'
  BY <1>1, <1>2 DEF WebSet, TelegramSet, Confirm
<1>3. CASE TelegramAsk
  BY <1>3 DEF TelegramAsk, config, locals
<1>4. ASSUME NEW t \in Threads, ReadRow(t) PROVE ConfigType'
  BY <1>4 DEF ReadRow, config, pending, bounds, ThreadsInv
<1>5. ASSUME NEW t \in Threads, Reject(t) PROVE ConfigType'
  BY <1>5 DEF Reject, config, pending, locals, bounds
<1>6. ASSUME NEW t \in Threads, SetMemory(t) PROVE ConfigType'
  BY <1>6 DEF SetMemory, pending, locals, bounds
<1>7. ASSUME NEW t \in Threads, Commit(t) PROVE ConfigType'
  BY <1>7 DEF Commit, Stored, pending, locals, bounds, ThreadsInv
<1>8. ASSUME NEW t \in Threads, Fallback(t) PROVE ConfigType'
  <2>1. CASE Accepts(key[t], val[t])
    <3>1. agreed' \in [Known -> BOOLEAN]
      BY <1>8, <2>1 DEF Fallback
    <3> QED BY <1>8, <2>1, <3>1 DEF Fallback, pending, locals, Accepts
  <2>2. CASE ~Accepts(key[t], val[t])
    BY <1>8, <2>2 DEF Fallback, pending, locals
  <2> QED BY <2>1, <2>2
<1>9. ASSUME NEW t \in Threads, StartRecompute(t) \/ ReadRows(t) PROVE ConfigType'
  BY <1>9 DEF StartRecompute, ReadRows, config, pending, bounds
<1>10. ASSUME NEW t \in Threads, CommitSelection(t) PROVE ConfigType'
  BY <1>10 DEF CommitSelection, Selection, Over, config, pending, locals, bounds
<1>11. ASSUME NEW t \in Threads, RecomputeFails(t) PROVE ConfigType'
  BY <1>11 DEF RecomputeFails, config, pending, locals, bounds
<1>12. ASSUME NEW t \in Threads, Finish(t) PROVE ConfigType'
  BY <1>12 DEF Finish, config, pending, locals, bounds
<1>13. CASE Restart
  BY <1>13 DEF Restart, load_from_db, config, locals, bounds, Over
<1>14. ASSUME NEW t \in Threads, Reselect(t) PROVE ConfigType'
  BY <1>14 DEF Reselect, Joins, config, pending
<1>15. CASE Upsert
  BY <1>15 DEF Upsert, config, pending, locals
<1> QED BY <1>0, <1>2, <1>3, <1>4, <1>5, <1>6, <1>7, <1>8, <1>9, <1>10, <1>11, <1>12, <1>13,
           <1>14, <1>15
        DEF Next, DatabaseFails, InsertFails

\* What a thread's place says of its key and value.
LEMMA StepThreads == ConfigType /\ ThreadsInv /\ [Next]_vars => ThreadsInv'
<1> SUFFICES ASSUME ConfigType, ThreadsInv, [Next]_vars PROVE ThreadsInv'
    OBVIOUS
<1> USE KeysAssumption DEF ConfigType, Places, ThreadsInv, Accepts
<1>0. CASE UNCHANGED vars
  BY <1>0 DEF vars, locals
<1>1. ASSUME NEW t \in Threads, NEW k \in Keys, NEW v \in Nat, NEW c \in BOOLEAN, Call(t, k, v, c)
      PROVE  ThreadsInv'
  BY <1>1 DEF Call
<1>2. ASSUME NEW t \in Threads, WebSet(t) \/ TelegramSet(t) \/ Confirm(t) PROVE ThreadsInv'
  BY <1>1, <1>2 DEF WebSet, TelegramSet, Confirm
<1>3. CASE TelegramAsk
  BY <1>3 DEF TelegramAsk, locals
<1>4. ASSUME NEW t \in Threads, ReadRow(t) \/ Reject(t) PROVE ThreadsInv'
  BY <1>4 DEF ReadRow, Reject, locals
<1>5. ASSUME NEW t \in Threads, SetMemory(t) \/ Commit(t) PROVE ThreadsInv'
  BY <1>5 DEF SetMemory, Commit, locals
<1>6. ASSUME NEW t \in Threads, Fallback(t), pc[t] # "idle" PROVE ThreadsInv'
  BY <1>6 DEF Fallback, locals
<1>7. ASSUME NEW t \in Threads, StartRecompute(t) \/ ReadRows(t) PROVE ThreadsInv'
  BY <1>7 DEF StartRecompute, ReadRows
<1>8. ASSUME NEW t \in Threads, CommitSelection(t) \/ RecomputeFails(t) PROVE ThreadsInv'
  BY <1>8 DEF CommitSelection, RecomputeFails, locals
<1>9. ASSUME NEW t \in Threads, Finish(t) PROVE ThreadsInv'
  BY <1>9 DEF Finish, locals
<1>10. CASE Restart
  BY <1>10 DEF Restart, locals
<1>11. ASSUME NEW t \in Threads, Reselect(t) PROVE ThreadsInv'
  BY <1>11 DEF Reselect
<1>12. CASE Upsert
  BY <1>12 DEF Upsert, locals
<1> QED BY <1>0, <1>2, <1>3, <1>4, <1>5, <1>6, <1>7, <1>8, <1>9, <1>10, <1>11, <1>12
        DEF Next, DatabaseFails, InsertFails

\* Only accepted values reach memory and the table, a restart included.
LEMMA StepStored ==
    ConfigType /\ ThreadsInv /\ StoredIsValid /\ [Next]_vars => StoredIsValid'
<1> SUFFICES ASSUME ConfigType, ThreadsInv, StoredIsValid, [Next]_vars PROVE StoredIsValid'
    OBVIOUS
<1> USE KeysAssumption DEF ConfigType, StoredIsValid
<1>1. CASE UNCHANGED <<memory, db>>
  BY <1>1
<1>2. ASSUME NEW t \in Threads, Accepts(key[t], val[t]), UNCHANGED db,
             memory' = [memory EXCEPT ![key[t]] = val[t]]
      PROVE  StoredIsValid'
  BY <1>2 DEF Accepts
<1>3. ASSUME NEW t \in Threads, Commit(t) PROVE StoredIsValid'
  <2>1. Accepts(key[t], val[t])
    BY <1>3 DEF Commit, ThreadsInv, Places
  <2> QED BY <1>3, <2>1 DEF Commit, Stored, Accepts
<1>4. CASE Restart
  BY <1>4 DEF Restart, load_from_db
<1>5. ASSUME NEW t \in Threads, Fallback(t) PROVE StoredIsValid'
  BY <1>1, <1>2, <1>5 DEF Fallback
<1>6. ASSUME NEW t \in Threads, SetMemory(t) PROVE StoredIsValid'
  BY <1>2, <1>6 DEF SetMemory
<1>7. ASSUME NEW t \in Threads, WebSet(t) \/ TelegramSet(t) \/ Confirm(t) PROVE StoredIsValid'
  BY <1>1, <1>7 DEF WebSet, TelegramSet, Confirm, Call, config
<1> QED BY <1>1, <1>3, <1>4, <1>5, <1>6, <1>7
        DEF Next, vars, config, TelegramAsk, ReadRow, Reject, DatabaseFails, InsertFails,
            StartRecompute, ReadRows, CommitSelection, RecomputeFails, Reselect, Upsert, Finish

\* Setting memory touches nothing another call without company relies on.
LEMMA MemoryKeepsAlone ==
    ASSUME ConfigType, ThreadsInv, AloneInv, NEW t \in Threads,
           pc[t] # "idle", Accepts(key[t], val[t]),
           memory' = [memory EXCEPT ![key[t]] = val[t]],
           \/ pc' = [pc EXCEPT ![t] = "commit"] /\ pc[t] = "set"
           \/ pc' = [pc EXCEPT ![t] = "changed"],
           UNCHANGED <<db, active, locals, alone>>
    PROVE  AloneInv'
<1>1. \A u \in Threads \ {t} : pc'[u] = pc[u]
  BY DEF ConfigType
<1>2. pc'[t] \in {"commit", "changed"} /\ (pc'[t] = "commit" => pc[t] = "set")
  BY DEF ConfigType
<1>3. memory'[key[t]] = val[t] /\ \A k \in Known \ {key[t]} : memory'[k] = memory[k]
  BY DEF ConfigType, Accepts
<1> QED BY <1>1, <1>2, <1>3, KeysAssumption DEF AloneInv, ThreadsInv, locals

\* A call that meets another of its key stops counting as alone, so nobody
\* changes what a call that still does has read or written.
LEMMA StepAlone ==
    ConfigType /\ ThreadsInv /\ AloneInv /\ [Next]_vars => AloneInv'
<1> SUFFICES ASSUME ConfigType, ThreadsInv, AloneInv, [Next]_vars PROVE AloneInv'
    OBVIOUS
<1> USE KeysAssumption DEF ConfigType, AloneInv, ThreadsInv
<1>0. CASE UNCHANGED vars
  BY <1>0 DEF vars, config, locals
<1>1. ASSUME NEW t \in Threads, NEW k \in Keys, NEW v \in Nat, NEW c \in BOOLEAN, Call(t, k, v, c)
      PROVE  AloneInv'
  <2>1. /\ pc'[t] = "read" /\ key'[t] = k
        /\ \A u \in Threads \ {t} : pc'[u] = pc[u] /\ key'[u] = key[u] /\ val'[u] = val[u]
    BY <1>1 DEF Call
  <2>2. alone'[t] => \A u \in Threads : pc[u] # "idle" => key[u] # k
    BY <1>1 DEF Call, Joins, Busy
  <2>3. \A u \in Threads \ {t} : alone'[u] => alone[u] /\ (pc[u] # "idle" => key[u] # k)
    BY <1>1 DEF Call, Joins, Busy
  <2>4. UNCHANGED <<memory, db, active, old, threshold, rows>>
    BY <1>1 DEF Call, config
  <2> QED BY <2>1, <2>2, <2>3, <2>4
<1>2. ASSUME NEW t \in Threads, WebSet(t) \/ TelegramSet(t) \/ Confirm(t) PROVE AloneInv'
  BY <1>1, <1>2 DEF WebSet, TelegramSet, Confirm
<1>3. CASE TelegramAsk
  BY <1>3 DEF TelegramAsk, config, locals
<1>4. ASSUME NEW t \in Threads, ReadRow(t) PROVE AloneInv'
  BY <1>4 DEF ReadRow, config
<1>5. ASSUME NEW t \in Threads, Reject(t) PROVE AloneInv'
  BY <1>5 DEF Reject, config, locals
<1>6. ASSUME NEW t \in Threads, SetMemory(t) PROVE AloneInv'
  BY <1>6, MemoryKeepsAlone DEF SetMemory
<1>7. ASSUME NEW t \in Threads, Commit(t) PROVE AloneInv'
  <2>1. pc'[t] = "changed" /\ \A u \in Threads \ {t} : pc'[u] = pc[u]
    BY <1>7 DEF Commit
  <2>2. \A k \in Keys \ {key[t]} : db'[k] = db[k]
    BY <1>7 DEF Commit
  <2> QED BY <1>7, <2>1, <2>2 DEF Commit, locals
<1>8. ASSUME NEW t \in Threads, Fallback(t), pc[t] # "idle" PROVE AloneInv'
  <2>1. CASE Accepts(key[t], val[t])
    BY <1>8, <2>1, MemoryKeepsAlone DEF Fallback
  <2>2. CASE ~Accepts(key[t], val[t])
    BY <1>8, <2>2 DEF Fallback, locals
  <2> QED BY <2>1, <2>2
<1>9. ASSUME NEW t \in Threads, StartRecompute(t) \/ ReadRows(t) PROVE AloneInv'
  BY <1>9 DEF StartRecompute, ReadRows, config
<1>10. ASSUME NEW t \in Threads, CommitSelection(t) PROVE AloneInv'
  BY <1>10 DEF CommitSelection, config, locals
<1>11. ASSUME NEW t \in Threads, RecomputeFails(t) \/ Finish(t) PROVE AloneInv'
  BY <1>11 DEF RecomputeFails, Finish, config, locals
<1>12. CASE Restart
  BY <1>12 DEF Restart
<1>13. ASSUME NEW t \in Threads, Reselect(t) PROVE AloneInv'
  <2>1. /\ pc'[t] = "rows" /\ key'[t] = Threshold /\ threshold'[t] = memory[Threshold]
        /\ \A u \in Threads \ {t} :
               pc'[u] = pc[u] /\ key'[u] = key[u] /\ threshold'[u] = threshold[u]
    BY <1>13 DEF Reselect
  <2>2. alone'[t] => \A u \in Threads : pc[u] # "idle" => key[u] # Threshold
    BY <1>13 DEF Reselect, Joins, Busy
  <2>3. \A u \in Threads \ {t} : alone'[u] => alone[u] /\ (pc[u] # "idle" => key[u] # Threshold)
    BY <1>13 DEF Reselect, Joins, Busy
  <2>4. UNCHANGED <<memory, db, active, val, old, rows>>
    BY <1>13 DEF Reselect, config
  <2> QED BY <2>1, <2>2, <2>3, <2>4
<1>14. CASE Upsert
  BY <1>14 DEF Upsert, config, locals
<1> QED BY <1>0, <1>2, <1>3, <1>4, <1>5, <1>6, <1>7, <1>8, <1>9, <1>10, <1>11, <1>12, <1>13,
           <1>14
        DEF Next, DatabaseFails, InsertFails

\* Memory, table and history of an agreed key part only at a commit of it.
LEMMA StepAgree ==
    ConfigType /\ ThreadsInv /\ AloneInv /\ AgreeInv /\ [Next]_vars => AgreeInv'
<1> SUFFICES ASSUME ConfigType, ThreadsInv, AloneInv, AgreeInv, [Next]_vars PROVE AgreeInv'
    OBVIOUS
<1> USE KeysAssumption DEF ConfigType, AgreeInv, ThreadsInv
<1>0. ASSUME UNCHANGED <<memory, db, newest, agreed>>,
             \A u \in Threads : pc[u] = "commit" => pc'[u] = "commit" /\ key'[u] = key[u]
      PROVE  AgreeInv'
  BY <1>0
<1>1. ASSUME NEW t \in Threads, NEW k \in Keys, NEW v \in Nat, NEW c \in BOOLEAN, Call(t, k, v, c)
      PROVE  AgreeInv'
  BY <1>0, <1>1 DEF Call, config
<1>2. ASSUME NEW t \in Threads, WebSet(t) \/ TelegramSet(t) \/ Confirm(t) PROVE AgreeInv'
  BY <1>1, <1>2 DEF WebSet, TelegramSet, Confirm
<1>3. CASE TelegramAsk \/ UNCHANGED vars
  BY <1>0, <1>3 DEF TelegramAsk, vars, config, locals
<1>4. ASSUME NEW t \in Threads, ReadRow(t) \/ Reject(t) PROVE AgreeInv'
  BY <1>0, <1>4 DEF ReadRow, Reject, config, locals
<1>5. ASSUME NEW t \in Threads, SetMemory(t) PROVE AgreeInv'
  <2>1. pc'[t] = "commit" /\ \A u \in Threads \ {t} : pc'[u] = pc[u]
    BY <1>5 DEF SetMemory
  <2>2. \A k \in Known \ {key[t]} : memory'[k] = memory[k]
    BY <1>5 DEF SetMemory
  <2> QED BY <1>5, <2>1, <2>2 DEF SetMemory, locals
<1>6. ASSUME NEW t \in Threads, Commit(t) PROVE AgreeInv'
  <2>1. key[t] \in Known /\ pc[t] = "commit"
    BY <1>6 DEF Commit, Accepts, Places
  <2>2. /\ pc'[t] = "changed" /\ \A u \in Threads \ {t} : pc'[u] = pc[u]
        /\ db'[key[t]] = Stored(t) /\ newest'[key[t]] = val[t] /\ agreed'[key[t]] = alone[t]
        /\ UNCHANGED <<memory, locals>>
    BY <1>6, <2>1 DEF Commit
  <2>3. \A k \in Known \ {key[t]} :
            db'[k] = db[k] /\ newest'[k] = newest[k] /\ agreed'[k] = agreed[k]
    BY <1>6, <2>1 DEF Commit
  <2>4. alone[t] => Stored(t) = val[t] /\ memory[key[t]] = val[t] /\ val[t] # Absent
    BY <2>1 DEF AloneInv, Stored, Absent
  <2> QED BY <2>1, <2>2, <2>3, <2>4 DEF locals
<1>7. ASSUME NEW t \in Threads, Fallback(t), pc[t] \in {"read", "commit"} PROVE AgreeInv'
  <2>1. CASE Accepts(key[t], val[t])
    <3>1. /\ agreed'[key[t]] = FALSE /\ \A u \in Threads \ {t} : pc'[u] = pc[u]
          /\ \A k \in Known \ {key[t]} : memory'[k] = memory[k] /\ agreed'[k] = agreed[k]
          /\ UNCHANGED <<db, newest, locals>>
      BY <1>7, <2>1 DEF Fallback, Accepts
    <3> QED BY <3>1 DEF locals
  <2>2. CASE ~Accepts(key[t], val[t])
    <3>1. pc[t] # "commit"
      BY <1>7, <2>2 DEF Places
    <3> QED BY <1>0, <1>7, <2>2, <3>1 DEF Fallback, locals
  <2> QED BY <2>1, <2>2
<1>8. ASSUME NEW t \in Threads, StartRecompute(t) \/ ReadRows(t) PROVE AgreeInv'
  BY <1>0, <1>8 DEF StartRecompute, ReadRows, config
<1>9. ASSUME NEW t \in Threads, CommitSelection(t) \/ RecomputeFails(t) \/ Finish(t) PROVE AgreeInv'
  BY <1>0, <1>9 DEF CommitSelection, RecomputeFails, Finish, config, locals
<1>10. CASE Restart
  <2>1. /\ UNCHANGED <<db, newest>> /\ \A t \in Threads : pc'[t] # "commit"
        /\ \A k \in Known : agreed'[k] => agreed[k]
    BY <1>10 DEF Restart
  <2>2. ASSUME NEW k \in Known, agreed'[k]
        PROVE  memory'[k] = IF db[k] = Absent THEN Default[k] ELSE db[k]
    BY <1>10, <2>2 DEF Restart, load_from_db
  <2> QED BY <2>1, <2>2
<1>11. ASSUME NEW t \in Threads, Reselect(t) PROVE AgreeInv'
  BY <1>0, <1>11 DEF Reselect, config
<1>12. CASE Upsert
  BY <1>0, <1>12 DEF Upsert, config, locals
<1> QED BY <1>2, <1>3, <1>4, <1>5, <1>6, <1>7, <1>8, <1>9, <1>10, <1>11, <1>12
        DEF Next, DatabaseFails, InsertFails

\* The selection follows the threshold, or a call is on its way to it.
LEMMA StepSelect ==
    ConfigType /\ ThreadsInv /\ AloneInv /\ SelectInv /\ [Next]_vars => SelectInv'
<1> SUFFICES ASSUME ConfigType, ThreadsInv, AloneInv, SelectInv, [Next]_vars PROVE SelectInv'
    OBVIOUS
<1> DEFINE Changing == {"commit", "changed", "rows", "select"}
<1> USE KeysAssumption DEF ConfigType, SelectInv, ThreadsInv
<1>0. ASSUME UNCHANGED <<active, selected>>, memory'[Threshold] = memory[Threshold],
             \A u \in Threads : (pc[u] \in Changing /\ key[u] = Threshold)
                                => pc'[u] \in Changing /\ key'[u] = Threshold
      PROVE  SelectInv'
  BY <1>0
<1>1. ASSUME NEW t \in Threads, NEW k \in Keys, NEW v \in Nat, NEW c \in BOOLEAN, Call(t, k, v, c)
      PROVE  SelectInv'
  BY <1>0, <1>1 DEF Call, config
<1>2. ASSUME NEW t \in Threads, WebSet(t) \/ TelegramSet(t) \/ Confirm(t) PROVE SelectInv'
  BY <1>1, <1>2 DEF WebSet, TelegramSet, Confirm
<1>3. CASE TelegramAsk \/ UNCHANGED vars
  BY <1>0, <1>3 DEF TelegramAsk, vars, config, locals
<1>4. ASSUME NEW t \in Threads, ReadRow(t) \/ Reject(t) PROVE SelectInv'
  BY <1>0, <1>4 DEF ReadRow, Reject, config, locals
<1>5. ASSUME NEW t \in Threads, memory' = [memory EXCEPT ![key[t]] = val[t]],
             \/ pc' = [pc EXCEPT ![t] = "commit"] \/ pc' = [pc EXCEPT ![t] = "changed"],
             UNCHANGED <<active, selected, locals>>
      PROVE  SelectInv'
  <2>1. pc'[t] \in Changing /\ \A u \in Threads \ {t} : pc'[u] = pc[u]
    BY <1>5
  <2>2. key[t] # Threshold => memory'[Threshold] = memory[Threshold]
    BY <1>5
  <2> QED BY <1>5, <2>1, <2>2 DEF locals
<1>6. ASSUME NEW t \in Threads, SetMemory(t) \/ (Fallback(t) /\ pc[t] \in {"read", "commit"})
      PROVE  SelectInv'
  <2>1. CASE Accepts(key[t], val[t])
    BY <1>5, <1>6, <2>1 DEF SetMemory, Fallback
  <2>2. CASE ~Accepts(key[t], val[t])
    <3>1. pc[t] = "read" /\ pc' = [pc EXCEPT ![t] = "idle"]
          /\ UNCHANGED <<memory, active, selected, locals>>
      BY <1>6, <2>2 DEF SetMemory, Fallback, Places
    <3> QED BY <1>0, <3>1 DEF locals
  <2> QED BY <2>1, <2>2
<1>7. ASSUME NEW t \in Threads, Commit(t) PROVE SelectInv'
  BY <1>0, <1>7 DEF Commit, locals
<1>8. ASSUME NEW t \in Threads, StartRecompute(t) \/ ReadRows(t) PROVE SelectInv'
  BY <1>0, <1>8 DEF StartRecompute, ReadRows, config
<1>9. ASSUME NEW t \in Threads, CommitSelection(t) PROVE SelectInv'
  <2>1. alone[t] => threshold[t] = memory[Threshold] /\ rows[t] = active
    BY <1>9 DEF CommitSelection, AloneInv
  <2>2. rows[t] = active => Selection(t) = Over(threshold[t])
    BY DEF Selection, Over
  <2> QED BY <1>9, <2>1, <2>2 DEF CommitSelection, config
<1>10. ASSUME NEW t \in Threads, RecomputeFails(t) PROVE SelectInv'
  BY <1>10 DEF RecomputeFails
<1>11. ASSUME NEW t \in Threads, Finish(t) PROVE SelectInv'
  BY <1>0, <1>11 DEF Finish, config, locals
<1>12. CASE Restart
  BY <1>12 DEF Restart
<1>13. ASSUME NEW t \in Threads, Reselect(t) PROVE SelectInv'
  BY <1>0, <1>13 DEF Reselect, config
<1>14. CASE Upsert
  BY <1>14 DEF Upsert
<1> QED BY <1>2, <1>3, <1>4, <1>6, <1>7, <1>8, <1>9, <1>10, <1>11, <1>12, <1>13, <1>14
        DEF Next, DatabaseFails, InsertFails

\* Every step of a request, of the operator's chat or of the process keeps all
\* of the invariant.
LEMMA StepConfig == ConfigInv /\ [Next]_vars => ConfigInv'
BY StepType, StepThreads, StepStored, StepAlone, StepAgree, StepSelect DEF ConfigInv

-----------------------------------------------------------------------------
\* No interleaving of requests, confirmations, database failures and restarts
\* puts a value its rule forbids into memory or the table, or touches a
\* read-only key: load_from_db can always start the process.
THEOREM OnlyValidIsStored == Spec => []StoredIsValid
<1>1. ConfigInv => StoredIsValid
  BY DEF ConfigInv
<1> QED BY InitConfig, StepConfig, <1>1, PTL DEF Spec

\* After a write that overlapped no other of its key and met no failure, memory,
\* table and newest history row agree, until the next call for the key.
THEOREM WritesAgree == Spec => []SettingsAgree
<1>1. ConfigInv => SettingsAgree
  BY DEF ConfigInv, AgreeInv, SettingsAgree, Busy
<1> QED BY InitConfig, StepConfig, <1>1, PTL DEF Spec

\* After a recomputation, of a changed threshold, a rebalance or a start, that met
\* no other, no change of the threshold and no write of is_active behind its
\* reads, the active symbols are the ones over the threshold in memory.
THEOREM SelectionFollows == Spec => []ActiveMatchesThreshold
<1>1. ConfigInv => ActiveMatchesThreshold
  BY DEF ConfigInv, SelectInv, ActiveMatchesThreshold, Busy
<1> QED BY InitConfig, StepConfig, <1>1, PTL DEF Spec

-----------------------------------------------------------------------------
(* The ring of events and the reports.                                     *)

\* A request that waits for Telegram.
Requests == [kind : {"none", "daily", "weekly"}, day : Int, count : Nat]

ReportType ==
    /\ halves \in Nat
    /\ events \in Seq(Nat) /\ incidents \in Seq(Nat)
    /\ marks \in [daily : Int, weekly : Int]
    /\ sending \in [Clients -> Requests]

\* How many incidents the ring has lost.
Lost == IF Len(incidents) > RingSize THEN Len(incidents) - RingSize ELSE 0

\* The ring is the end of the history.
RingInv ==
    /\ Len(events) = Len(incidents) - Lost
    /\ \A i \in 1 .. Len(events) : events[i] = incidents[i + Lost]

ReportsInv == ReportType /\ RingInv /\ MarkedIsDelivered

-----------------------------------------------------------------------------
(* The preflight.                                                          *)

Waits == {"token", "time", "price", "reference", "cycle"}

Found == {"trading_mode_live", "runtime_not_halted", "background_running",
          "runtime_tickers_present", "kiwoom_connectivity"}

PreflightType ==
    /\ mode \in BOOLEAN /\ halted \in BOOLEAN /\ running \in BOOLEAN /\ tickers \in BOOLEAN
    /\ own \in Nat
    /\ check \in [pc : {"idle"} \cup Waits, failed : SUBSET Found, conn : BOOLEAN,
                  stage : Stages \cup {"none"}, cycles : Nat, errors : Nat, since : Nat]
    /\ verdict \in [ok : BOOLEAN, since : Nat, own : Nat, conn : BOOLEAN, stage : Stages \cup {"none"}]

\* What a request has noted of the time it began: nothing that was wrong then
\* is missing, so a halt it does not know of is one of an incident since.
NotedInv ==
    check.pc # "idle" =>
        /\ check.since <= Len(incidents)
        /\ own = check.errors
        /\ ~mode => "trading_mode_live" \in check.failed
        /\ (halted /\ "runtime_not_halted" \notin check.failed) => Len(incidents) > check.since

\* Cycles are run only once all that is required has passed.
RehearsalInv ==
    /\ check.pc \in Waits \ {"cycle"} => check.errors = 0
    /\ check.pc = "cycle" => /\ check.failed \cap Required(check.stage) = {}
                             /\ check.stage # "post_market" => check.conn

\* An answer is about the incidents up to its request.
VerdictInv == verdict.since <= Len(incidents)

OperatorInv ==
    ReportsInv /\ PreflightType /\ NotedInv /\ RehearsalInv /\ VerdictInv /\ PassHidesNothing

-----------------------------------------------------------------------------
(* The reports.                                                            *)

\* The number of some entries of a list.
LEMMA CountType ==
    ASSUME NEW list \in Seq(Nat), NEW A \in SUBSET (1 .. Len(list))
    PROVE  Cardinality(A) \in Nat /\ IsFiniteSet(A)
<1>1. Len(list) \in Nat
  BY LenProperties
<1>2. IsFiniteSet(1 .. Len(list))
  BY <1>1, FS_Interval
<1> QED BY <1>2, FS_Subset, FS_CardinalityType

LEMMA ReportTypes ==
    ASSUME NEW list \in Seq(Nat), NEW day \in Int
    PROVE  build_report(list, day) \in Nat /\ build_weekly_report(list, day) \in Nat
<1>1. \A d : events_on(list, d) \in SUBSET (1 .. Len(list))
  BY DEF events_on
<1>2. UNION {events_on(list, d) : d \in (day - Span + 1) .. day} \in SUBSET (1 .. Len(list))
  BY <1>1
<1> QED BY <1>1, <1>2, CountType DEF build_report, build_weekly_report

LEMMA DayTypes ==
    ASSUME halves \in Nat
    PROVE  Today \in Int /\ \A d \in Int : WeekKey(d) \in Int
<1>1. HostShift \in Nat /\ WeekLength \in Nat \ {0}
  BY ReportAssumption
<1> QED BY <1>1 DEF Today, WeekKey

LEMMA InitReports == ReportInit => ReportsInv
<1> SUFFICES ASSUME ReportInit PROVE ReportsInv
    OBVIOUS
<1>1. ReportType
  BY DEF ReportInit, ReportType, NotSending, Requests, NoDay
<1>2. RingInv
  <2>1. RingSize \in Nat \ {0} /\ Len(incidents) = 0 /\ Len(events) = 0
    BY ReportAssumption DEF ReportInit
  <2>2. Lost = 0
    BY <2>1 DEF Lost
  <2>3. 1 .. Len(events) = {} /\ Len(events) = Len(incidents) - 0
    BY <2>1
  <2> QED BY ONLY <2>2, <2>3 DEF RingInv
<1>3. MarkedIsDelivered
  BY DEF ReportInit, MarkedIsDelivered
<1> QED BY <1>1, <1>2, <1>3 DEF ReportsInv

\* critical() keeps the ring the end of the history.
LEMMA IncidentKeepsRing == ReportsInv /\ Incident => ReportsInv'
<1> SUFFICES ASSUME ReportsInv, Incident PROVE ReportsInv'
    OBVIOUS
<1> DEFINE all == Append(events, halves)
<1>0. /\ RingSize \in Nat \ {0}
      /\ events \in Seq(Nat) /\ incidents \in Seq(Nat) /\ halves \in Nat
      /\ Len(events) \in Nat /\ Len(incidents) \in Nat
  BY ReportAssumption, LenProperties DEF ReportsInv, ReportType
<1>1. /\ incidents' \in Seq(Nat) /\ Len(incidents') = Len(incidents) + 1
      /\ \A i \in 1 .. Len(incidents) : incidents'[i] = incidents[i]
      /\ incidents'[Len(incidents) + 1] = halves
  BY <1>0, AppendProperties DEF Incident
<1>2. /\ all \in Seq(Nat) /\ Len(all) = Len(events) + 1
      /\ \A i \in 1 .. Len(events) : all[i] = events[i]
      /\ all[Len(events) + 1] = halves
  BY <1>0, AppendProperties
<1> HIDE DEF all
<1>3. \A i \in 1 .. Len(all) : all[i] = incidents'[i + Lost]
  <2> SUFFICES ASSUME NEW i \in 1 .. Len(all) PROVE all[i] = incidents'[i + Lost]
      OBVIOUS
  <2>0. Len(events) = Len(incidents) - Lost /\ Lost \in Nat /\ Lost <= Len(incidents)
    BY <1>0 DEF ReportsInv, RingInv, Lost
  <2>1. CASE i \in 1 .. Len(events)
    <3>1. i + Lost \in 1 .. Len(incidents)
      BY <1>0, <2>0, <2>1
    <3> QED BY <1>1, <1>2, <2>1, <3>1 DEF ReportsInv, RingInv
  <2>2. CASE i = Len(events) + 1
    BY <1>0, <1>1, <1>2, <2>0, <2>2
  <2> QED BY <1>0, <1>2, <2>1, <2>2
<1>4. RingInv' /\ events' \in Seq(Nat)
  <2>0. Len(events) = Len(incidents) - Lost /\ Lost \in Nat
    BY <1>0 DEF ReportsInv, RingInv, Lost
  <2>l. /\ Lost = IF Len(incidents) > RingSize THEN Len(incidents) - RingSize ELSE 0
        /\ Lost' = IF Len(incidents) + 1 > RingSize THEN Len(incidents) + 1 - RingSize ELSE 0
    <3>1. Len(incidents') = Len(incidents) + 1
      BY <1>1
    <3>2. Lost = IF Len(incidents) > RingSize THEN Len(incidents) - RingSize ELSE 0
      BY DEF Lost
    <3>3. Lost' = IF Len(incidents') > RingSize THEN Len(incidents') - RingSize ELSE 0
      BY DEF Lost
    <3> QED BY <1>0, <3>1, <3>2, <3>3
  <2>m. /\ Len(events) \in Nat /\ Len(incidents) \in Nat /\ RingSize \in Nat
        /\ Len(all) = Len(events) + 1 /\ Len(incidents') = Len(incidents) + 1
    BY <1>0, <1>1, <1>2
  <2>a. events' = IF Len(all) > RingSize THEN Tail(all) ELSE all
    BY DEF Incident, Ring, all
  <2>1. CASE Len(all) > RingSize
    <3>1. events' = Tail(all) /\ all # <<>>
      BY <1>0, <1>2, <2>a, <2>1
    <3>2. /\ events' \in Seq(Nat) /\ Len(events') = Len(all) - 1
          /\ \A i \in 1 .. Len(events') : events'[i] = all[i + 1]
      BY <1>2, <3>1, HeadTailProperties
    <3>a. Len(events') = Len(all) - 1
      BY <3>2
    <3>b. Len(incidents) >= RingSize
      BY <2>0, <2>l, <2>m, <2>1
    <3>3. Lost' = Lost + 1 /\ Len(events') = Len(incidents') - Lost'
      <4>1. Lost = Len(incidents) - RingSize
        BY <2>l, <2>m, <3>b
      <4>2. Lost' = Len(incidents) + 1 - RingSize
        BY <2>l, <2>m, <3>b
      <4> QED BY <2>0, <2>m, <3>a, <4>1, <4>2
    <3>4. ASSUME NEW i \in 1 .. Len(events') PROVE events'[i] = incidents'[i + Lost']
      <4>1. i \in Nat /\ i + 1 \in 1 .. Len(all) /\ (i + 1) + Lost = i + Lost'
        BY <1>0, <1>2, <2>0, <3>2, <3>3
      <4>2. events'[i] = all[i + 1]
        BY <3>2
      <4> QED BY <1>3, <4>1, <4>2
    <3> QED BY <3>2, <3>3, <3>4 DEF RingInv
  <2>2. CASE ~(Len(all) > RingSize)
    <3>1. events' = all
      BY <2>a, <2>2
    <3>2. Lost = 0 /\ Lost' = 0 /\ Len(events') = Len(incidents') - Lost'
      BY <2>0, <2>l, <2>m, <2>2, <3>1
    <3> QED BY <1>2, <1>3, <3>1, <3>2 DEF RingInv
  <2> QED BY <2>1, <2>2
<1>5. ReportType'
  BY <1>1, <1>4 DEF Incident, ReportsInv, ReportType
<1>6. MarkedIsDelivered'
  BY DEF Incident, ReportsInv, MarkedIsDelivered
<1> QED BY <1>4, <1>5, <1>6 DEF ReportsInv

\* The mark of a delivered report.
LEMMA MarkKeeps ==
    ASSUME ReportsInv, NEW c \in Clients, Delivered(c)
    PROVE  ReportsInv'
<1> DEFINE s == sending[c]
           k == KeyOf(s)
<1>1. s \in Requests /\ s.kind \in {"daily", "weekly"} /\ s.day \in Int
  BY DEF Delivered, ReportsInv, ReportType, Requests
<1>2. k \in Int
  BY <1>1, DayTypes DEF KeyOf, ReportsInv, ReportType
<1> HIDE DEF k
<1>3. /\ marks' = [marks EXCEPT ![s.kind] = k]
      /\ delivered' = delivered \cup {<<s.kind, k>>}
      /\ UNCHANGED <<halves, events, incidents>>
  BY DEF Delivered, Marked, k
<1>4. sending' \in [Clients -> Requests]
  BY DEF Delivered, ReportsInv, ReportType, NotSending, Requests, NoDay
<1>5. marks' \in [daily : Int, weekly : Int]
  BY <1>1, <1>2, <1>3 DEF ReportsInv, ReportType
<1>6. MarkedIsDelivered'
  <2> SUFFICES ASSUME NEW kind \in {"daily", "weekly"}, marks'[kind] # NoDay
               PROVE  <<kind, marks'[kind]>> \in delivered'
      BY DEF MarkedIsDelivered
  <2>1. CASE kind = s.kind
    <3>1. marks'[kind] = k
      BY <1>1, <1>3, <2>1 DEF ReportsInv, ReportType
    <3> QED BY <1>3, <2>1, <3>1
  <2>2. CASE kind # s.kind
    <3>1. marks'[kind] = marks[kind]
      BY <1>1, <1>3, <2>2 DEF ReportsInv, ReportType
    <3> QED BY <1>3, <3>1 DEF ReportsInv, MarkedIsDelivered
  <2> QED BY <2>1, <2>2
<1>7. RingInv'
  BY <1>3 DEF ReportsInv, RingInv, Lost
<1> QED BY <1>3, <1>4, <1>5, <1>6, <1>7 DEF ReportsInv, ReportType

LEMMA StepReports == ReportsInv /\ [ReportNext]_reportVars => ReportsInv'
<1> SUFFICES ASSUME ReportsInv, [ReportNext]_reportVars PROVE ReportsInv'
    OBVIOUS
<1>a. halves \in Nat /\ events \in Seq(Nat) /\ Today \in Int /\ sending \in [Clients -> Requests]
  BY DayTypes DEF ReportsInv, ReportType
<1>b. ASSUME UNCHANGED <<events, incidents, marks, delivered>>,
             halves' \in Nat, sending' \in [Clients -> Requests]
      PROVE  ReportsInv'
  BY <1>b DEF ReportsInv, ReportType, RingInv, Lost, MarkedIsDelivered
<1>1. CASE UNCHANGED reportVars
  BY <1>a, <1>b, <1>1 DEF reportVars
<1>2. CASE HalfDayPasses
  BY <1>a, <1>b, <1>2 DEF HalfDayPasses
<1>3. CASE Incident
  BY <1>3, IncidentKeepsRing
<1>4. ASSUME NEW c \in Clients, SendDaily(c) PROVE ReportsInv'
  <2>1. [kind |-> "daily", day |-> Today, count |-> build_report(events, Today)] \in Requests
    BY <1>a, ReportTypes DEF Requests
  <2>2. sending' \in [Clients -> Requests]
    BY <1>a, <1>4, <2>1 DEF SendDaily
  <2> QED BY <1>a, <1>b, <1>4, <2>2 DEF SendDaily
<1>5. ASSUME NEW c \in Clients, SendWeekly(c) PROVE ReportsInv'
  <2>1. [kind |-> "weekly", day |-> Today, count |-> build_weekly_report(events, Today)] \in Requests
    BY <1>a, ReportTypes DEF Requests
  <2>2. sending' \in [Clients -> Requests]
    BY <1>a, <1>5, <2>1 DEF SendWeekly
  <2> QED BY <1>a, <1>b, <1>5, <2>2 DEF SendWeekly
<1>6. ASSUME NEW c \in Clients, Delivered(c) PROVE ReportsInv'
  BY <1>6, MarkKeeps
<1>7. ASSUME NEW c \in Clients, NotDelivered(c) PROVE ReportsInv'
  <2>1. sending' \in [Clients -> Requests]
    BY <1>a, <1>7 DEF NotDelivered, NotSending, Requests, NoDay
  <2> QED BY <1>a, <1>b, <1>7, <2>1 DEF NotDelivered
<1> QED BY <1>1, <1>2, <1>3, <1>4, <1>5, <1>6, <1>7 DEF ReportNext, Reporting

\* A ring that is the end of the history counts every incident it holds.
LEMMA RingCounts == ReportsInv => ReportCountsIncidents
<1> SUFFICES ASSUME ReportsInv, NEW day
             PROVE  build_report(events, day) = Cardinality({i \in events_on(incidents, day) : i > Lost})
    BY DEF ReportCountsIncidents, Lost
<1> DEFINE A == events_on(events, day)
           B == {i \in events_on(incidents, day) : i > Lost}
           shift == [i \in A |-> i + Lost]
<1>a. Len(events) \in Nat /\ Len(incidents) \in Nat /\ events \in Seq(Nat)
  BY LenProperties DEF ReportsInv, ReportType
<1>b. RingSize \in Nat
  BY ReportAssumption
<1>0. /\ Len(events) \in Nat /\ Len(incidents) \in Nat /\ Lost \in Nat
      /\ Len(events) = Len(incidents) - Lost
      /\ events \in Seq(Nat)
      /\ \A i \in 1 .. Len(events) : events[i] = incidents[i + Lost]
  <2>1. Lost \in Nat
    BY <1>a, <1>b DEF Lost
  <2> QED BY <1>a, <2>1 DEF ReportsInv, RingInv
<1>1. \A i : i \in A <=> i \in 1 .. Len(events) /\ ServerDay(events[i]) = day
  BY DEF events_on
<1>2. \A i : i \in B <=> i \in 1 .. Len(incidents) /\ ServerDay(incidents[i]) = day /\ i > Lost
  BY DEF events_on
<1> HIDE DEF A, B
<1>3. \A i \in A : i \in Nat /\ i + Lost \in B
  <2> SUFFICES ASSUME NEW i \in A PROVE i \in Nat /\ i + Lost \in B
      OBVIOUS
  <2>1. i \in 1 .. Len(events) /\ i \in Nat /\ i + Lost \in 1 .. Len(incidents) /\ i + Lost > Lost
    BY <1>0, <1>1
  <2> QED BY <1>0, <1>1, <1>2, <2>1
<1>4. \A j \in B : j - Lost \in A /\ (j - Lost) + Lost = j
  <2> SUFFICES ASSUME NEW j \in B PROVE j - Lost \in A /\ (j - Lost) + Lost = j
      OBVIOUS
  <2>1. j - Lost \in 1 .. Len(events) /\ (j - Lost) + Lost = j
    BY <1>0, <1>2
  <2> QED BY <1>0, <1>1, <1>2, <2>1
<1>5. shift \in Bijection(A, B)
  <2>1. shift \in [A -> B]
    BY <1>3
  <2>2. \A a, b \in A : shift[a] = shift[b] => a = b
    BY <1>0, <1>3
  <2>3. \A j \in B : \E i \in A : shift[i] = j
    BY <1>4
  <2> QED BY <2>1, <2>2, <2>3 DEF Bijection, Injection, Surjection, IsInjective
<1>6. IsFiniteSet(A)
  <2>1. A \in SUBSET (1 .. Len(events))
    BY <1>1
  <2> QED BY <1>0, <2>1, CountType
<1>7. Cardinality(A) = Cardinality(B)
  BY <1>5, <1>6, FS_Bijection DEF ExistsBijection
<1> QED BY <1>7 DEF build_report, A, B

-----------------------------------------------------------------------------
(* The preflight.                                                          *)

operatorVars == <<reportVars, preflightVars>>

\* Every step of the operator's world is one of the reports, or leaves them.
LEMMA OperatorReports == [OperatorNext]_operatorVars => [ReportNext]_reportVars
<1> SUFFICES ASSUME [OperatorNext]_operatorVars PROVE [ReportNext]_reportVars
    OBVIOUS
<1>1. CASE UNCHANGED operatorVars
  BY <1>1 DEF operatorVars
<1>2. CASE Reporting
  BY <1>2 DEF ReportNext
<1>3. CASE PreflightNext
  BY <1>3 DEF PreflightNext, ReportNext, OthersFail, OperatorResumes, LoopsToggled,
              live_preflight_check, live_rehearsal, run, PriceMissing, LineAnswers, PriceAnswers,
              CycleSucceeds, CycleFails
<1> QED BY <1>1, <1>2, <1>3 DEF OperatorNext

\* What the preflight relies on of the history: it only grows.
LEMMA HistoryGrows ==
    ASSUME ReportsInv, [ReportNext]_reportVars
    PROVE  /\ Len(incidents) \in Nat /\ Len(incidents') \in Nat
           /\ Len(incidents') >= Len(incidents)
           /\ Incident => Len(incidents') = Len(incidents) + 1
<1>1. incidents \in Seq(Nat) /\ halves \in Nat /\ Len(incidents) \in Nat
  BY LenProperties DEF ReportsInv, ReportType
<1>2. Incident => Len(incidents') = Len(incidents) + 1
  BY <1>1, AppendProperties DEF Incident
<1>3. ~Incident => incidents' = incidents
  BY DEF ReportNext, Reporting, reportVars, HalfDayPasses, SendDaily, SendWeekly, Delivered,
         NotDelivered
<1> QED BY <1>1, <1>2, <1>3

LEMMA InitPreflight ==
    ReportInit /\ PreflightInit
    => PreflightType /\ NotedInv /\ RehearsalInv /\ VerdictInv /\ PassHidesNothing
<1> SUFFICES ASSUME ReportInit, PreflightInit
             PROVE  PreflightType /\ NotedInv /\ RehearsalInv /\ VerdictInv /\ PassHidesNothing
    OBVIOUS
<1>1. PreflightType
  BY DEF PreflightInit, PreflightType, NoCheck, NoVerdict, Waits
<1>2. check.pc = "idle" /\ verdict.ok = FALSE
  BY DEF PreflightInit, NoCheck, NoVerdict
<1>3. verdict.since = 0 /\ Len(incidents) = 0
  <2>1. verdict.since = 0
    BY DEF PreflightInit, NoVerdict
  <2>2. incidents = <<>>
    BY DEF ReportInit
  <2> QED BY <2>1, <2>2
<1> QED BY <1>1, <1>2, <1>3 DEF NotedInv, RehearsalInv, VerdictInv, PassHidesNothing, Waits

\* What a step may do to the history and the flags while the request rests.
LEMMA WorldKeeps ==
    ASSUME OperatorInv, UNCHANGED <<mode, check, own, verdict>>,
           halted' \in BOOLEAN, running' \in BOOLEAN, tickers' \in BOOLEAN,
           Len(incidents) \in Nat, Len(incidents') \in Nat, Len(incidents') >= Len(incidents),
           halted' => halted \/ Len(incidents') > Len(incidents)
    PROVE  PreflightType' /\ NotedInv' /\ RehearsalInv' /\ VerdictInv' /\ PassHidesNothing'
<1>0. check.since \in Nat /\ verdict.since \in Nat
  BY DEF OperatorInv, PreflightType
<1>1. PreflightType'
  BY DEF OperatorInv, PreflightType
<1>2. NotedInv'
  BY <1>0 DEF OperatorInv, NotedInv
<1>3. RehearsalInv'
  BY DEF OperatorInv, RehearsalInv, Required, policy_for
<1>4. PassHidesNothing'
  <2>1. verdict.ok => verdict.since <= Len(incidents)
    BY DEF OperatorInv, VerdictInv
  <2> QED BY <1>0, <2>1 DEF OperatorInv, PassHidesNothing
<1>5. VerdictInv'
  BY <1>0 DEF OperatorInv, VerdictInv
<1> QED BY <1>1, <1>2, <1>3, <1>4, <1>5

\* A request begins with what it can know at once.
LEMMA RunKeeps ==
    ASSUME OperatorInv, NEW stage \in Stages, NEW n \in Nat, run(stage, n)
    PROVE  PreflightType' /\ NotedInv' /\ RehearsalInv' /\ VerdictInv' /\ PassHidesNothing'
<1>0. /\ UNCHANGED <<incidents, mode, halted, running, tickers>>
      /\ own' = 0 /\ verdict' = NoVerdict
      /\ check' = [pc |-> "token", failed |-> FailedNow, conn |-> TRUE, stage |-> stage,
                   cycles |-> n, errors |-> 0, since |-> Len(incidents)]
  BY DEF run, NoCheck, reportVars
<1>1. /\ Len(incidents) \in Nat /\ FailedNow \in SUBSET Found
      /\ ~mode => "trading_mode_live" \in FailedNow
      /\ halted => "runtime_not_halted" \in FailedNow
  <2>1. Len(incidents) \in Nat
    BY LenProperties DEF OperatorInv, ReportsInv, ReportType
  <2> QED BY <2>1 DEF FailedNow, Found
<1> HIDE DEF FailedNow
<1>2. /\ check'.pc = "token" /\ check'.failed = FailedNow /\ check'.errors = 0
      /\ check'.since = Len(incidents)
  BY <1>0
<1>3. PreflightType'
  BY <1>0, <1>1 DEF OperatorInv, PreflightType, NoVerdict, Waits
<1>4. NotedInv'
  BY <1>0, <1>1, <1>2 DEF NotedInv
<1>5. RehearsalInv'
  BY <1>2 DEF RehearsalInv
<1>6. VerdictInv' /\ PassHidesNothing'
  BY <1>0, <1>1 DEF VerdictInv, PassHidesNothing, NoVerdict
<1> QED BY <1>3, <1>4, <1>5, <1>6

\* The broker has answered: the answer of a preflight, or the first cycle.
LEMMA JudgeKeeps ==
    ASSUME OperatorInv, NEW ok \in BOOLEAN, PriceAnswers(ok)
    PROVE  PreflightType' /\ NotedInv' /\ RehearsalInv' /\ VerdictInv' /\ PassHidesNothing'
<1> DEFINE conn == check.conn /\ ok
           failed == check.failed \cup (IF conn THEN {} ELSE {"kiwoom_connectivity"})
           passes == failed \cap Required(check.stage) = {}
<1>0. /\ check.pc \in {"price", "reference"} /\ UNCHANGED <<incidents, mode, halted, running, tickers, own>>
      /\ Judge(conn)
  BY DEF PriceAnswers, reportVars
<1>1. /\ Len(incidents) \in Nat /\ check.since \in Nat /\ conn \in BOOLEAN
      /\ failed \in SUBSET Found /\ check.stage \in Stages \cup {"none"}
      /\ check.errors = 0 /\ own = 0 /\ check.since <= Len(incidents)
      /\ ~mode => "trading_mode_live" \in failed
      /\ (halted /\ "runtime_not_halted" \notin failed) => Len(incidents) > check.since
  <2>1. Len(incidents) \in Nat
    BY LenProperties DEF OperatorInv, ReportsInv, ReportType
  <2>2. conn \in BOOLEAN
    BY DEF OperatorInv, PreflightType
  <2> QED BY <1>0, <2>1, <2>2 DEF OperatorInv, PreflightType, NotedInv, RehearsalInv, Found, Waits
<1>2. passes => /\ mode
                /\ halted => Len(incidents) > check.since
                /\ check.stage # "post_market" => conn
  BY <1>1 DEF Required, policy_for
<1>a. PreflightType
  BY DEF OperatorInv
<1>3. CASE passes /\ check.cycles > 0
  <2>1. /\ check' = [check EXCEPT !.pc = "cycle", !.conn = conn, !.failed = failed]
        /\ UNCHANGED verdict
    BY <1>0, <1>3 DEF Judge
  <2>2. /\ check'.pc = "cycle" /\ check'.conn = conn /\ check'.failed = failed
        /\ check'.errors = check.errors /\ check'.since = check.since /\ check'.stage = check.stage
    BY <1>a, <2>1 DEF PreflightType
  <2> HIDE DEF conn, failed
  <2>3. PreflightType'
    BY <1>0, <1>1, <1>a, <2>1 DEF PreflightType, Waits
  <2>4. NotedInv'
    BY <1>0, <1>1, <2>2 DEF NotedInv
  <2>5. RehearsalInv'
    <3>1. check'.failed \cap Required(check.stage) = {}
      BY <1>3, <2>2
    <3> QED BY <1>2, <1>3, <2>2, <3>1 DEF RehearsalInv, Required, policy_for
  <2>6. VerdictInv' /\ PassHidesNothing'
    BY <1>0, <2>1 DEF OperatorInv, VerdictInv, PassHidesNothing
  <2> QED BY <2>3, <2>4, <2>5, <2>6
<1>4. CASE ~(passes /\ check.cycles > 0)
  <2>1. check' = [NoCheck EXCEPT !.conn = conn] /\ Conclude(passes)
    BY <1>0, <1>4 DEF Judge
  <2>2. check'.pc = "idle" /\ check'.conn = conn
    BY <2>1 DEF NoCheck
  <2>3. verdict' = [ok |-> passes, since |-> check.since, own |-> 0, conn |-> conn, stage |-> check.stage]
    BY <1>0, <1>1, <2>1, <2>2 DEF Conclude
  <2>4. PreflightType'
    <3>1. check' = [pc |-> "idle", failed |-> {}, conn |-> conn, stage |-> "none",
                    cycles |-> 0, errors |-> 0, since |-> 0]
      BY <2>1 DEF NoCheck
    <3>2. passes \in BOOLEAN
      OBVIOUS
    <3> HIDE DEF conn, passes
    <3> QED BY <1>0, <1>1, <1>a, <2>3, <3>1, <3>2 DEF PreflightType, Waits
  <2>5. NotedInv' /\ RehearsalInv'
    BY <2>2 DEF NotedInv, RehearsalInv, Waits
  <2> HIDE DEF conn, passes
  <2>6. VerdictInv' /\ PassHidesNothing'
    BY <1>0, <1>1, <1>2, <2>3 DEF VerdictInv, PassHidesNothing
  <2> QED BY <2>4, <2>5, <2>6
<1> QED BY <1>3, <1>4

\* A cycle of a rehearsal, with the errors so far.
LEMMA CycleKeeps ==
    ASSUME OperatorInv, NEW e \in Nat, own' = e, CycleDone(e),
           check.pc = "cycle", UNCHANGED <<mode, running, tickers>>, halted' \in BOOLEAN,
           Len(incidents) \in Nat, Len(incidents') \in Nat, Len(incidents') >= Len(incidents),
           halted' => halted \/ Len(incidents') > Len(incidents)
    PROVE  PreflightType' /\ NotedInv' /\ RehearsalInv' /\ VerdictInv' /\ PassHidesNothing'
<1>2. /\ check.since \in Nat /\ check.conn \in BOOLEAN /\ check.stage \in Stages \cup {"none"}
      /\ check.since <= Len(incidents) /\ mode
      /\ halted => Len(incidents) > check.since
      /\ check.stage # "post_market" => check.conn
      /\ check.failed \cap Required(check.stage) = {}
  BY DEF OperatorInv, PreflightType, NotedInv, RehearsalInv, Required
<1>a. PreflightType /\ PassHidesNothing /\ VerdictInv
  BY DEF OperatorInv
<1>b. verdict.since \in Nat
  BY <1>a DEF PreflightType
<1>3. CASE check.cycles > 1
  <2>1. check' = [check EXCEPT !.cycles = @ - 1, !.errors = e] /\ UNCHANGED verdict
    BY <1>3 DEF CycleDone
  <2>2. /\ check'.pc = "cycle" /\ check'.conn = check.conn /\ check'.failed = check.failed
        /\ check'.errors = e /\ check'.since = check.since /\ check'.stage = check.stage
    BY <1>a, <2>1 DEF PreflightType
  <2>3. PreflightType'
    <3>1. check.cycles - 1 \in Nat
      BY <1>3, <1>a DEF PreflightType
    <3>2. check' \in [pc : {"idle"} \cup Waits, failed : SUBSET Found, conn : BOOLEAN,
                     stage : Stages \cup {"none"}, cycles : Nat, errors : Nat, since : Nat]
      BY <1>a, <2>1, <3>1 DEF PreflightType
    <3> QED BY <1>a, <2>1, <3>2 DEF PreflightType
  <2>4. NotedInv'
    BY <1>2, <2>2 DEF NotedInv
  <2>5. RehearsalInv'
    BY <1>2, <2>2 DEF RehearsalInv, Required, policy_for
  <2>6. VerdictInv' /\ PassHidesNothing'
    BY <1>a, <1>b, <2>1 DEF VerdictInv, PassHidesNothing
  <2> QED BY <2>3, <2>4, <2>5, <2>6
<1>4. CASE ~(check.cycles > 1)
  <2>1. check' = [NoCheck EXCEPT !.conn = check.conn] /\ Conclude(e = 0)
    BY <1>4 DEF CycleDone
  <2>2. check'.pc = "idle" /\ check'.conn = check.conn
    BY <2>1 DEF NoCheck
  <2>3. verdict' = [ok |-> (e = 0), since |-> check.since, own |-> e, conn |-> check.conn,
                    stage |-> check.stage]
    BY <2>1, <2>2 DEF Conclude
  <2>4. PreflightType'
    <3>1. check' = [pc |-> "idle", failed |-> {}, conn |-> check.conn, stage |-> "none",
                    cycles |-> 0, errors |-> 0, since |-> 0]
      BY <2>1 DEF NoCheck
    <3>2. (e = 0) \in BOOLEAN
      OBVIOUS
    <3> QED BY <1>2, <1>a, <2>3, <3>1, <3>2 DEF PreflightType, Waits
  <2>5. NotedInv' /\ RehearsalInv'
    BY <2>2 DEF NotedInv, RehearsalInv, Waits
  <2>6. VerdictInv' /\ PassHidesNothing'
    <3>1. /\ verdict'.ok => e = 0
          /\ verdict'.since = check.since /\ verdict'.own = e
          /\ verdict'.conn = check.conn /\ verdict'.stage = check.stage
      BY <2>3
    <3>2. mode' /\ (halted' => Len(incidents') > check.since) /\ check.since <= Len(incidents')
      BY <1>2
    <3> QED BY <1>2, <3>1, <3>2 DEF VerdictInv, PassHidesNothing
  <2> QED BY <2>4, <2>5, <2>6
<1> QED BY <1>3, <1>4

\* The questions to the broker note only what it answers.
LEMMA LineKeeps ==
    ASSUME OperatorInv, (\E ok \in BOOLEAN : LineAnswers(ok)) \/ PriceMissing
    PROVE  PreflightType' /\ NotedInv' /\ RehearsalInv' /\ VerdictInv' /\ PassHidesNothing'
<1>a. PreflightType
  BY DEF OperatorInv
<1>1. UNCHANGED <<incidents, mode, halted, running, tickers, own, verdict>>
  BY DEF LineAnswers, PriceMissing, reportVars
<1>2. /\ check.pc \in Waits \ {"cycle"} /\ check'.pc \in Waits \ {"cycle"}
      /\ check'.failed = check.failed /\ check'.errors = check.errors
      /\ check'.since = check.since /\ check'.stage = check.stage /\ check'.cycles = check.cycles
      /\ check'.conn \in BOOLEAN
      /\ check' \in [pc : {"idle"} \cup Waits, failed : SUBSET Found, conn : BOOLEAN,
                     stage : Stages \cup {"none"}, cycles : Nat, errors : Nat, since : Nat]
  BY <1>a DEF PreflightType, Waits, LineAnswers, PriceMissing
<1>3. PreflightType'
  BY <1>a, <1>1, <1>2 DEF PreflightType
<1>4. NotedInv'
  BY <1>1, <1>2 DEF OperatorInv, NotedInv, Waits
<1>5. RehearsalInv'
  BY <1>2 DEF OperatorInv, RehearsalInv
<1>6. VerdictInv' /\ PassHidesNothing'
  BY <1>1 DEF OperatorInv, VerdictInv, PassHidesNothing
<1> QED BY <1>3, <1>4, <1>5, <1>6

LEMMA StepOperator == OperatorInv /\ [OperatorNext]_operatorVars => OperatorInv'
<1> SUFFICES ASSUME OperatorInv, [OperatorNext]_operatorVars PROVE OperatorInv'
    OBVIOUS
<1> DEFINE Keeps == PreflightType' /\ NotedInv' /\ RehearsalInv' /\ VerdictInv' /\ PassHidesNothing'
<1>1. ReportsInv /\ [ReportNext]_reportVars
  BY OperatorReports DEF OperatorInv
<1>2. ReportsInv'
  BY <1>1, StepReports
<1>3. /\ Len(incidents) \in Nat /\ Len(incidents') \in Nat
      /\ Len(incidents') >= Len(incidents)
      /\ Incident => Len(incidents') = Len(incidents) + 1
  BY <1>1, HistoryGrows
<1> SUFFICES Keeps
    BY <1>2 DEF OperatorInv
<1>4. /\ halted \in BOOLEAN /\ running \in BOOLEAN /\ tickers \in BOOLEAN
      /\ own \in Nat /\ (check.pc = "cycle" => own = check.errors)
  BY DEF OperatorInv, PreflightType, NotedInv
<1>5. CASE UNCHANGED preflightVars
  BY <1>3, <1>4, <1>5, WorldKeeps DEF preflightVars
<1>6. CASE OthersFail
  BY <1>3, <1>4, <1>6, WorldKeeps DEF OthersFail
<1>7. CASE OperatorResumes
  BY <1>3, <1>4, <1>7, WorldKeeps DEF OperatorResumes
<1>8. CASE LoopsToggled
  BY <1>3, <1>4, <1>8, WorldKeeps DEF LoopsToggled
<1>9. ASSUME NEW stage \in Stages, live_preflight_check(stage) PROVE Keeps
  BY <1>9, RunKeeps DEF live_preflight_check
<1>10. ASSUME NEW stage \in Stages, NEW n \in 0 .. MaxCycles, live_rehearsal(stage, n) PROVE Keeps
  BY <1>10, RunKeeps DEF live_rehearsal
<1>11. ASSUME PriceMissing \/ \E ok \in BOOLEAN : LineAnswers(ok) PROVE Keeps
  BY <1>11, LineKeeps
<1>12. ASSUME NEW ok \in BOOLEAN, PriceAnswers(ok) PROVE Keeps
  BY <1>12, JudgeKeeps
<1>13. CASE CycleSucceeds
  <2>1. /\ check.pc = "cycle" /\ own' = check.errors /\ check.errors \in Nat
        /\ UNCHANGED <<mode, running, tickers>> /\ halted' = halted
        /\ CycleDone(check.errors)
    BY <1>4, <1>13 DEF CycleSucceeds
  <2> QED BY <1>3, <1>4, <2>1, CycleKeeps
<1>14. CASE CycleFails
  <2>1. /\ check.pc = "cycle" /\ own' = check.errors + 1 /\ check.errors + 1 \in Nat
        /\ UNCHANGED <<mode, running, tickers>> /\ halted' \in BOOLEAN
        /\ CycleDone(check.errors + 1) /\ Incident
    BY <1>4, <1>14 DEF CycleFails
  <2>2. Len(incidents') > Len(incidents)
    BY <1>3, <2>1
  <2> QED BY <1>3, <2>1, <2>2, CycleKeeps
<1> QED
  BY <1>5, <1>6, <1>7, <1>8, <1>9, <1>10, <1>11, <1>12, <1>13, <1>14
     DEF OperatorNext, PreflightNext, operatorVars

\* SafetyService, the daily and weekly reports and the live preflight for every
\* size of the ring and any number of days, requests and incidents: no incident
\* is reported twice or lost but by the ring, and no preflight says ready over a
\* halt that was there when it was asked for.
THEOREM OperatorInformed == OperatorSpec => []OperatorIsInformed
<1>1. ReportInit /\ PreflightInit => OperatorInv
  BY InitReports, InitPreflight DEF OperatorInv
<1>2. OperatorInv /\ [OperatorNext]_operatorVars => OperatorInv'
  BY StepOperator
<1>3. OperatorInv => OperatorIsInformed
  BY RingCounts DEF OperatorInv, OperatorIsInformed, IncidentsReported, ReportsInv
<1> QED BY <1>1, <1>2, <1>3, PTL DEF OperatorSpec, operatorVars

\* The preflight changes nothing the reports rest on: every behaviour of the
\* requests and the runtime together is one of the ring and its reports.
THEOREM PreflightKeepsReports == OperatorSpec => ReportSpec
<1>1. [OperatorNext]_operatorVars => [ReportNext]_reportVars
  BY OperatorReports
<1> QED BY <1>1, PTL DEF OperatorSpec, ReportSpec, operatorVars

-----------------------------------------------------------------------------
(* The automatic booking of flows.                                         *)

\* What Explained says of a pair, with the rows as arguments.
NearIn(F, t) == \E f \in F : t - Tolerance <= f.t /\ f.t <= t + Tolerance
ExplainedIn(T, F, p, limit) ==
    \/ Size(p[2].assets - p[1].assets - RealizedIn(Within(T, p[1].t, p[2].t), p[1].t, p[2].t)) < limit
    \/ NearIn(F, p[2].t)

AutoIn(F) == {f \in F : f.by = "auto"}

\* One snapshot after the other, as far as the times tell.
Adjacent(S, from, to) ==
    /\ from < to
    /\ \E s \in S : s.t = to
    /\ \A s \in S : s.t <= from \/ to <= s.t

DetFields == {"pc", "list", "at", "limit", "amount", "full"}

BookType ==
    /\ IsFiniteSet(snaps) /\ \A s \in snaps : s.t \in Int
    /\ \A f \in flows : f.t \in Int /\ f.from \in Int
    /\ DOMAIN det = DetFields /\ det.pc \in {"idle", "check", "create"} /\ det.full \in BOOLEAN

ApartInv == \A f, g \in AutoIn(flows) : f # g => Size(f.t - g.t) > Tolerance

\* A list read from the snapshots.
Reads(list) == Len(list) \in Nat /\ \A i \in 1 .. Len(list) : list[i] \in snaps

\* While snapshots come in the order of time, no two share one, and a booked
\* change, as one a detection has still to look at, lies between two that follow
\* each other; later snapshots do not come between them.
InOrderInv ==
    inOrder =>
        /\ \A r, s \in snaps : r.t = s.t => r = s
        /\ \A f \in AutoIn(flows) : Adjacent(snaps, f.from, f.t)
        /\ det.pc # "idle" =>
               \A i \in 2 .. Len(det.list) : Adjacent(snaps, det.list[i - 1].t, det.list[i].t)

\* When nothing was written meanwhile, the pairs a detection has left behind are
\* explained; and what it is about to create is near to no flow a detection has
\* created.
DetectionInv ==
    det.pc # "idle" =>
        /\ Reads(det.list) /\ det.at \in 2 .. Len(det.list)
        /\ det.full => /\ det.list \in Ordered(snaps)
                       /\ \A i \in 2 .. det.at - 1 :
                              ExplainedIn(trades, flows, PairAt(det.list, i), det.limit)
        /\ det.pc = "create" => ~NearIn(AutoIn(flows), det.list[det.at].t)

SettledInv ==
    settled # Unsettled =>
        /\ settled.list \in Ordered(snaps)
        /\ \A i \in 2 .. Len(settled.list) :
               ExplainedIn(trades, flows, PairAt(settled.list, i), settled.limit)

BookInv == BookType /\ ApartInv /\ InOrderInv /\ DetectionInv /\ SettledInv

-----------------------------------------------------------------------------
\* A set of naturals has a least member.
LEMMA LeastNatural ==
    ASSUME NEW T \in SUBSET Nat, T # {}
    PROVE  \E m \in T : \A n \in T : m <= n
<1>1. PICK m \in T : \A n \in T : <<n, m>> \notin OpToRel(<, Nat)
  BY NatLessThanWellFounded, WFMin
<1>2. \A n \in T : ~(n < m)
  BY <1>1 DEF OpToRel
<1> QED BY <1>2

\* A finite set of times has a first one: the smallest subset without one
\* would still have one after the removal of a member.
LEMMA FirstExists ==
    ASSUME NEW S \in SUBSET Int, IsFiniteSet(S), S # {}
    PROVE  Min(S) \in S /\ \A y \in S : Min(S) <= y
<1> DEFINE HasMin(T) == \E x \in T : \A y \in T : x <= y
           Bad == {T \in SUBSET S : T # {} /\ ~HasMin(T)}
           Sizes == {Cardinality(T) : T \in Bad}
<1>1. \A T \in SUBSET S : IsFiniteSet(T) /\ Cardinality(T) \in Nat
  BY FS_Subset, FS_CardinalityType
<1>2. Bad = {}
  <2> SUFFICES ASSUME Bad # {} PROVE FALSE
      OBVIOUS
  <2>1. Sizes \in SUBSET Nat /\ Sizes # {}
    BY <1>1
  <2>2. PICK n \in Sizes : \A m \in Sizes : n <= m
    BY <2>1, LeastNatural
  <2>3. PICK T \in Bad : n = Cardinality(T)
    BY <2>2
  <2>4. PICK x \in T : TRUE
    BY <2>3
  <2>5. /\ IsFiniteSet(T) /\ Cardinality(T) \in Nat
        /\ Cardinality(T \ {x}) = Cardinality(T) - 1
    BY <1>1, <2>3, <2>4, FS_RemoveElement
  <2>6. T \ {x} \notin Bad
    <3> SUFFICES ASSUME T \ {x} \in Bad PROVE FALSE
        OBVIOUS
    <3>1. Cardinality(T \ {x}) \in Sizes
      OBVIOUS
    <3> HIDE DEF Bad, Sizes
    <3>2. n <= Cardinality(T) - 1
      BY <2>2, <2>5, <3>1
    <3> QED BY <2>3, <2>5, <3>2
  <2>7. T \subseteq Int /\ x \in Int /\ T \ {x} \in SUBSET S
    BY <2>3, <2>4
  <2>8. CASE T \ {x} = {}
    <3>1. \A y \in T : x <= y
      BY <2>7, <2>8
    <3> QED BY <2>3, <2>4, <3>1
  <2>9. CASE T \ {x} # {}
    <3>1. PICK z \in T \ {x} : \A y \in T \ {x} : z <= y
      BY <2>6, <2>7, <2>9
    <3>2. CASE x <= z
      <4>1. \A y \in T : x <= y
        BY <2>7, <3>1, <3>2
      <4> QED BY <2>3, <2>4, <4>1
    <3>3. CASE z <= x
      <4>1. \A y \in T : z <= y
        BY <2>7, <3>1, <3>3
      <4> QED BY <2>3, <3>1, <4>1
    <3> QED BY <2>7, <3>1, <3>2, <3>3
  <2> QED BY <2>8, <2>9
<1>3. HasMin(S)
  BY <1>2
<1> QED BY <1>3 DEF Min

\* A list in the order of time has every row once.
LEMMA OrderedIs ==
    ASSUME NEW S, IsFiniteSet(S), NEW list \in Ordered(S), NEW n, n = Cardinality(S)
    PROVE  /\ n \in Nat /\ DOMAIN list = 1 .. n /\ Len(list) = n /\ list \in Seq(S)
           /\ \A i \in 1 .. n : list[i] \in S
           /\ \A i, j \in 1 .. n : list[i] = list[j] => i = j
           /\ \A i, j \in 1 .. n : i < j => list[i].t <= list[j].t
           /\ \A s \in S : \E i \in 1 .. n : list[i] = s
<1>1. n \in Nat
  BY FS_CardinalityType
<1>2. /\ list \in [1 .. n -> S] /\ IsInjective(list)
      /\ \A i, j \in DOMAIN list : i < j => list[i].t <= list[j].t
  BY DEF Ordered
<1>3. DOMAIN list = 1 .. n
  BY <1>2
<1>4. \A i, j \in 1 .. n : list[i] = list[j] => i = j
  BY <1>2, <1>3 DEF IsInjective
<1>5. list \in Injection(1 .. n, S)
  BY <1>2 DEF Injection
<1>6. Cardinality(1 .. n) = n
  BY <1>1, FS_Interval
<1>7. list \in Surjection(1 .. n, S)
  BY <1>5, <1>6, FS_Injection
<1>8. \A s \in S : \E i \in 1 .. n : list[i] = s
  BY <1>7 DEF Surjection
<1>9. list \in Seq(S) /\ Len(list) = n
  BY <1>1, <1>2
<1> QED BY <1>1, <1>2, <1>3, <1>4, <1>8, <1>9

LEMMA ExplainedAs ==
    \A p, limit : Explained(p, limit) <=> ExplainedIn(trades, flows, p, limit)
  BY DEF Explained, ExplainedIn, Inferred, sum_realized_pnl, list_trades, has_cash_flow_near, NearIn

\* More flows explain no less.
LEMMA ExplainedStays ==
    ASSUME NEW T, NEW F, NEW G, F \subseteq G, NEW p, NEW limit, ExplainedIn(T, F, p, limit)
    PROVE  ExplainedIn(T, G, p, limit)
  BY DEF ExplainedIn, NearIn

\* A row is stored with an id of its own and is otherwise as it was.
LEMMA StoredSnapshot ==
    ASSUME NEW S, NEW t, NEW a, NEW new, new = NewRow(S, create_snapshot(t, a))
    PROVE  new.t = t /\ new.assets = a
  BY DEF NewRow, create_snapshot

LEMMA StoredFlow ==
    ASSUME NEW S, NEW t, NEW a, NEW by, NEW from, NEW new,
           new = NewRow(S, create_cash_flow(t, a, by, from))
    PROVE  new.t = t /\ new.amount = a /\ new.by = by /\ new.from = from
  BY DEF NewRow, create_cash_flow

LEMMA InitBook == BookInit => BookInv
<1> SUFFICES ASSUME BookInit PROVE BookInv
    OBVIOUS
<1>1. det.pc = "idle" /\ det.full = FALSE /\ DOMAIN det = DetFields
  BY DEF BookInit, NoDetection, DetFields
<1>2. snaps = {} /\ flows = {} /\ settled = Unsettled
  BY DEF BookInit
<1> QED BY <1>1, <1>2, FS_EmptySet
        DEF BookInv, BookType, ApartInv, InOrderInv, AutoIn, DetectionInv, SettledInv

\* Rows recorded while a detection runs: it is no longer the full one, and
\* nothing is settled.
LEMMA RecordKeeps ==
    ASSUME BookInv, settled' = Unsettled, det' = [det EXCEPT !.full = FALSE],
           snaps \subseteq snaps', IsFiniteSet(snaps'), \A s \in snaps' : s.t \in Int,
           \A f \in flows' : f.t \in Int /\ f.from \in Int, AutoIn(flows') = AutoIn(flows),
           inOrder' => /\ inOrder
                       /\ \A r, s \in snaps' : r.t = s.t => r = s
                       /\ \A s \in snaps' \ snaps : \A r \in snaps : r.t <= s.t
    PROVE  BookInv'
<1>0. DOMAIN det = DetFields
  BY DEF BookInv, BookType
<1>1. /\ DOMAIN det' = DetFields /\ det'.full = FALSE
      /\ det'.pc = det.pc /\ det'.list = det.list /\ det'.at = det.at /\ det'.limit = det.limit
  BY <1>0 DEF DetFields
<1>2. BookType'
  BY <1>1 DEF BookInv, BookType
<1>3. ApartInv'
  BY DEF BookInv, ApartInv
<1>4. DetectionInv'
  BY <1>1 DEF BookInv, DetectionInv, Reads
<1>5. SettledInv'
  BY DEF SettledInv
<1>6. InOrderInv'
  <2> SUFFICES ASSUME inOrder' PROVE InOrderInv'
      BY DEF InOrderInv
  <2>1. ASSUME NEW from, NEW to, Adjacent(snaps, from, to) PROVE Adjacent(snaps', from, to)
    <3>1. PICK r \in snaps : r.t = to
      BY <2>1 DEF Adjacent
    <3>2. \A s \in snaps' \ snaps : to <= s.t
      BY <3>1
    <3> QED BY <2>1, <3>2 DEF Adjacent
  <2>2. \A f \in AutoIn(flows') : Adjacent(snaps', f.from, f.t)
    BY <2>1 DEF BookInv, InOrderInv
  <2>3. det'.pc # "idle" =>
            \A i \in 2 .. Len(det'.list) : Adjacent(snaps', det'.list[i - 1].t, det'.list[i].t)
    BY <1>1, <2>1 DEF BookInv, InOrderInv
  <2> QED BY <2>2, <2>3 DEF InOrderInv
<1> QED BY <1>2, <1>3, <1>4, <1>5, <1>6 DEF BookInv

LEMMA AdvanceFields ==
    ASSUME NEW at, DOMAIN det = DetFields, det.full \in BOOLEAN, Advance(at)
    PROVE  DOMAIN det' = DetFields /\ det'.pc \in {"idle", "check", "create"} /\ det'.full \in BOOLEAN
<1>1. CASE at > Len(det.list)
  BY <1>1 DEF Advance, NoDetection, DetFields
<1>2. CASE ~(at > Len(det.list))
  BY <1>2 DEF Advance, DetFields
<1> QED BY <1>1, <1>2

\* The detection goes on to the next place, or ends.
LEMMA AdvanceKeeps ==
    ASSUME BookInv, det.pc # "idle", Advance(det.at + 1),
           UNCHANGED <<snaps, trades, inOrder>>, flows \subseteq flows',
           BookType', ApartInv',
           inOrder => \A f \in AutoIn(flows') : Adjacent(snaps, f.from, f.t),
           ExplainedIn(trades, flows', PairAt(det.list, det.at), det.limit)
    PROVE  BookInv'
<1> DEFINE next == det.at + 1
           ends == next > Len(det.list)
<1>0. /\ DOMAIN det = DetFields /\ det.full \in BOOLEAN
      /\ Reads(det.list) /\ det.at \in 2 .. Len(det.list) /\ Len(det.list) \in Nat
  BY DEF BookInv, BookType, DetectionInv, Reads
<1>1. ASSUME det.full
      PROVE  /\ det.list \in Ordered(snaps)
             /\ \A i \in 2 .. det.at : ExplainedIn(trades, flows', PairAt(det.list, i), det.limit)
  <2>1. /\ det.list \in Ordered(snaps)
        /\ \A i \in 2 .. det.at - 1 : ExplainedIn(trades, flows, PairAt(det.list, i), det.limit)
    BY <1>1 DEF BookInv, DetectionInv
  <2>2. \A i \in 2 .. det.at : i \in 2 .. det.at - 1 \/ i = det.at
    BY <1>0
  <2> QED BY <2>1, <2>2, ExplainedStays
<1>2. /\ det' = IF ends THEN NoDetection ELSE [det EXCEPT !.pc = "check", !.at = next, !.amount = 0]
      /\ settled' = IF ends /\ det.full THEN [list |-> det.list, limit |-> det.limit] ELSE settled
  BY DEF Advance
<1>3. SettledInv'
  <2>1. CASE ends /\ det.full
    <3>1. settled'.list = det.list /\ settled'.limit = det.limit
      BY <1>2, <2>1
    <3>2. 2 .. Len(det.list) \subseteq 2 .. det.at
      BY <1>0, <2>1
    <3> QED BY <1>1, <2>1, <3>1, <3>2 DEF SettledInv, Ordered
  <2>2. CASE ~(ends /\ det.full)
    <3>1. settled' = settled
      BY <1>2, <2>2
    <3> QED BY <3>1, ExplainedStays DEF BookInv, SettledInv, Ordered
  <2> QED BY <2>1, <2>2
<1>4. DetectionInv' /\ InOrderInv'
  <2>1. CASE ends
    <3>1. det'.pc = "idle"
      BY <1>2, <2>1 DEF NoDetection
    <3> QED BY <3>1 DEF DetectionInv, BookInv, InOrderInv
  <2>2. CASE ~ends
    <3>1. /\ det'.pc = "check" /\ det'.at = next /\ det'.list = det.list
          /\ det'.limit = det.limit /\ det'.full = det.full
      BY <1>0, <1>2, <2>2 DEF DetFields
    <3>2. next \in 2 .. Len(det.list) /\ next - 1 = det.at
      BY <1>0, <2>2
    <3>3. DetectionInv'
      BY <1>0, <1>1, <3>1, <3>2 DEF DetectionInv, Reads, Ordered
    <3>4. InOrderInv'
      BY <3>1 DEF BookInv, InOrderInv
    <3> QED BY <3>3, <3>4
  <2> QED BY <2>1, <2>2
<1> QED BY <1>3, <1>4 DEF BookInv

\* The neighbours of a list of all snapshots of a range, when no two share a time.
LEMMA NeighboursAdjacent ==
    ASSUME NEW S, IsFiniteSet(S), \A s \in S : s.t \in Int, \A r, s \in S : r.t = s.t => r = s,
           NEW lo \in Int, NEW hi \in Int, NEW list \in Ordered(Within(S, lo, hi)),
           NEW i \in 2 .. Len(list)
    PROVE  Adjacent(S, list[i - 1].t, list[i].t)
<1> DEFINE W == Within(S, lo, hi)
           n == Cardinality(W)
<1>1. W \subseteq S /\ IsFiniteSet(W)
  BY FS_Subset DEF Within
<1>2. /\ n \in Nat /\ Len(list) = n
      /\ \A k \in 1 .. n : list[k] \in W
      /\ \A k, j \in 1 .. n : list[k] = list[j] => k = j
      /\ \A k, j \in 1 .. n : k < j => list[k].t <= list[j].t
      /\ \A s \in W : \E k \in 1 .. n : list[k] = s
  BY <1>1, OrderedIs
<1>3. i \in 1 .. n /\ i - 1 \in 1 .. n /\ i - 1 < i /\ i - 1 # i
  BY <1>2
<1> DEFINE a == list[i - 1]
           b == list[i]
<1>4. a \in S /\ b \in S /\ lo <= a.t /\ b.t <= hi /\ a.t <= b.t /\ a # b
  BY <1>1, <1>2, <1>3 DEF Within
<1>5. a.t \in Int /\ b.t \in Int /\ a.t # b.t
  BY <1>4
<1>6. a.t < b.t
  BY <1>4, <1>5
<1>7. ASSUME NEW s \in S PROVE s.t <= a.t \/ b.t <= s.t
  <2>0. s.t \in Int
    OBVIOUS
  <2>1. CASE s \notin W
    <3>1. ~(lo <= s.t /\ s.t <= hi)
      BY <2>1 DEF Within
    <3> HIDE DEF a, b
    <3> QED BY <1>4, <1>5, <2>0, <3>1
  <2>2. CASE s \in W
    <3>1. PICK k \in 1 .. n : list[k] = s
      BY <1>2, <2>2
    <3>2. k < i - 1 \/ k = i - 1 \/ k = i \/ i < k
      BY <1>2, <1>3
    <3>3. k < i - 1 => s.t <= a.t
      BY <1>2, <1>3, <3>1
    <3>4. i < k => b.t <= s.t
      BY <1>2, <1>3, <3>1
    <3>5. (k = i - 1 => s = a) /\ (k = i => s = b)
      BY <3>1
    <3> HIDE DEF a, b
    <3> QED BY <1>5, <2>0, <3>2, <3>3, <3>4, <3>5
  <2> QED BY <2>1, <2>2
<1> HIDE DEF a, b
<1>8. Adjacent(S, a.t, b.t)
  BY <1>4, <1>6, <1>7 DEF Adjacent
<1> QED BY <1>8 DEF a, b

\* A list is read.
LEMMA StartKeeps ==
    ASSUME BookInv, NEW lo \in Times, NEW hi \in Times, NEW limit \in Thresholds,
           StartDetection(lo, hi, limit)
    PROVE  BookInv'
<1> DEFINE W == Within(snaps, lo, hi)
           n == Cardinality(W)
<1>0. DOMAIN det = DetFields /\ IsFiniteSet(snaps) /\ (\A s \in snaps : s.t \in Int)
      /\ lo \in Int /\ hi \in Int
  BY TimesAssumption DEF BookInv, BookType
<1>1. /\ n >= 2 /\ UNCHANGED <<snaps, flows, trades, settled, inOrder>>
      /\ \E list \in Ordered(W) :
             det' = Reading(list, limit, W = snaps)
  BY DEF StartDetection, list_snapshots
<1>2. PICK list \in Ordered(W) : det' = Reading(list, limit, W = snaps)
  BY <1>1
<1>3. W \subseteq snaps /\ IsFiniteSet(W)
  BY <1>0, FS_Subset DEF Within
<1>4. n \in Nat /\ Len(list) = n /\ \A i \in 1 .. n : list[i] \in W
  BY <1>3, OrderedIs
<1>5. /\ DOMAIN det' = DetFields /\ det'.pc = "check" /\ det'.list = list /\ det'.at = 2
      /\ det'.limit = limit /\ det'.full = (W = snaps)
  BY <1>0, <1>2 DEF Reading, DetFields
<1>6. inOrder => \A i \in 2 .. Len(list) : Adjacent(snaps, list[i - 1].t, list[i].t)
  BY <1>0, NeighboursAdjacent DEF BookInv, InOrderInv
<1> HIDE DEF W, n
<1>7. DetectionInv'
  <2>1. Reads(list)' /\ 2 \in 2 .. Len(list)
    BY <1>1, <1>3, <1>4 DEF Reads
  <2>2. det'.full => list \in Ordered(snaps)'
    BY <1>1, <1>5 DEF Ordered
  <2>3. 2 .. 2 - 1 = {}
    OBVIOUS
  <2> QED BY <1>5, <2>1, <2>2, <2>3 DEF DetectionInv, Reads
<1>8. BookType'
  BY <1>1, <1>5 DEF BookInv, BookType
<1>9. ApartInv' /\ SettledInv'
  BY <1>1 DEF BookInv, ApartInv, SettledInv, Ordered
<1>10. InOrderInv'
  BY <1>1, <1>5, <1>6 DEF BookInv, InOrderInv
<1> QED BY <1>7, <1>8, <1>9, <1>10 DEF BookInv

\* The flow that is created is near to no other automatic one, and its stretch
\* lies between two snapshots that follow each other.
LEMMA CreateKeeps == BookInv /\ CreateFlow => BookInv'
<1> SUFFICES ASSUME BookInv, CreateFlow PROVE BookInv'
    OBVIOUS
<1> DEFINE t == det.list[det.at].t
           from == det.list[det.at - 1].t
           new == NewRow(flows, create_cash_flow(t, det.amount, "auto", from))
<1>0. /\ det.pc = "create" /\ flows' = flows \cup {new} /\ UNCHANGED <<snaps, trades, inOrder>>
      /\ Advance(det.at + 1)
  BY DEF CreateFlow
<1>1. t \in Int /\ from \in Int /\ Tolerance \in Nat
  <2>1. Len(det.list) \in Nat /\ det.at \in 2 .. Len(det.list)
        /\ \A i \in 1 .. Len(det.list) : det.list[i] \in snaps
    BY <1>0 DEF BookInv, DetectionInv, Reads
  <2>2. det.at \in 1 .. Len(det.list) /\ det.at - 1 \in 1 .. Len(det.list)
    BY <2>1
  <2>3. det.list[det.at] \in snaps /\ det.list[det.at - 1] \in snaps
    BY <2>1, <2>2
  <2> QED BY <2>3, TimesAssumption DEF BookInv, BookType
<1>2. new.t = t /\ new.by = "auto" /\ new.from = from
  BY StoredFlow
<1>a. inOrder => Adjacent(snaps, from, t)
  BY <1>0 DEF BookInv, InOrderInv, DetectionInv
<1>b. ~NearIn(AutoIn(flows), t) /\ PairAt(det.list, det.at)[2].t = t
  BY <1>0 DEF BookInv, DetectionInv, PairAt
<1> HIDE DEF new, t, from
<1>3. BookType'
  <2>1. DOMAIN det' = DetFields /\ det'.pc \in {"idle", "check", "create"} /\ det'.full \in BOOLEAN
    BY <1>0, AdvanceFields DEF BookInv, BookType
  <2> QED BY <1>0, <1>1, <1>2, <2>1 DEF BookInv, BookType
<1>c. AutoIn(flows') = AutoIn(flows) \cup {new}
  BY <1>0, <1>2 DEF AutoIn
<1>4. ApartInv'
  <2>1. \A f \in AutoIn(flows) : f.t \in Int /\ ~(t - Tolerance <= f.t /\ f.t <= t + Tolerance)
    BY <1>b DEF BookInv, BookType, NearIn, AutoIn
  <2>2. \A f \in AutoIn(flows) : Size(f.t - t) > Tolerance /\ Size(t - f.t) > Tolerance
    BY <1>1, <2>1 DEF Size
  <2> QED BY <1>2, <1>c, <2>2 DEF BookInv, ApartInv
<1>5. ExplainedIn(trades, flows', PairAt(det.list, det.at), det.limit)
  <2>1. NearIn(flows', t)
    BY <1>0, <1>1, <1>2 DEF NearIn
  <2> QED BY <1>b, <2>1 DEF ExplainedIn
<1>6. inOrder => \A f \in AutoIn(flows') : Adjacent(snaps, f.from, f.t)
  BY <1>2, <1>a, <1>c DEF BookInv, InOrderInv
<1>7. flows \subseteq flows' /\ det.pc # "idle"
  BY <1>0
<1> QED BY <1>0, <1>3, <1>4, <1>5, <1>6, <1>7, AdvanceKeeps

LEMMA ExplainedKeeps == BookInv /\ PairExplained => BookInv'
<1> SUFFICES ASSUME BookInv, PairExplained PROVE BookInv'
    OBVIOUS
<1>0. /\ det.pc = "check" /\ UNCHANGED <<snaps, flows, trades, inOrder>>
      /\ Advance(det.at + 1) /\ ExplainedIn(trades, flows, PairAt(det.list, det.at), det.limit)
  BY ExplainedAs DEF PairExplained
<1>1. BookType'
  <2>1. DOMAIN det' = DetFields /\ det'.pc \in {"idle", "check", "create"} /\ det'.full \in BOOLEAN
    BY <1>0, AdvanceFields DEF BookInv, BookType
  <2> QED BY <1>0, <2>1 DEF BookInv, BookType
<1>2. ApartInv'
  BY <1>0 DEF BookInv, ApartInv
<1>3. inOrder => \A f \in AutoIn(flows') : Adjacent(snaps, f.from, f.t)
  BY <1>0 DEF BookInv, InOrderInv
<1>4. flows \subseteq flows' /\ det.pc # "idle"
      /\ ExplainedIn(trades, flows', PairAt(det.list, det.at), det.limit)
  BY <1>0
<1> QED BY <1>0, <1>1, <1>2, <1>3, <1>4, AdvanceKeeps

LEMMA InferredKeeps == BookInv /\ PairInferred => BookInv'
<1> SUFFICES ASSUME BookInv, PairInferred PROVE BookInv'
    OBVIOUS
<1> DEFINE p == PairAt(det.list, det.at)
<1>0. /\ det.pc = "check" /\ UNCHANGED <<snaps, flows, trades, settled, inOrder>>
      /\ ~ExplainedIn(trades, flows, p, det.limit)
      /\ det' = [det EXCEPT !.pc = "create", !.amount = Inferred(p)]
  BY ExplainedAs DEF PairInferred
<1>1. ~NearIn(AutoIn(flows), det.list[det.at].t)
  <2>1. p[2].t = det.list[det.at].t
    BY DEF PairAt
  <2> QED BY <1>0, <2>1 DEF ExplainedIn, NearIn, AutoIn
<1>2. DOMAIN det = DetFields
  BY DEF BookInv, BookType
<1>3. /\ DOMAIN det' = DetFields /\ det'.pc = "create" /\ det'.at = det.at
      /\ det'.list = det.list /\ det'.limit = det.limit /\ det'.full = det.full
  BY <1>0, <1>2 DEF DetFields
<1>4. DetectionInv'
  BY <1>0, <1>1, <1>3 DEF BookInv, DetectionInv, Reads, Ordered
<1>5. InOrderInv'
  BY <1>0, <1>3 DEF BookInv, InOrderInv
<1>6. SettledInv'
  BY <1>0 DEF BookInv, SettledInv, Ordered
<1> QED BY <1>0, <1>3, <1>4, <1>5, <1>6 DEF BookInv, BookType, ApartInv

LEMMA StepBook == BookInv /\ [BookNext]_bookVars => BookInv'
<1> SUFFICES ASSUME BookInv, [BookNext]_bookVars PROVE BookInv'
    OBVIOUS
<1>0. /\ IsFiniteSet(snaps) /\ \A s \in snaps : s.t \in Int
      /\ \A f \in flows : f.t \in Int /\ f.from \in Int
      /\ inOrder => \A r, s \in snaps : r.t = s.t => r = s
  BY DEF BookInv, BookType, InOrderInv
<1>1. CASE UNCHANGED bookVars
  BY <1>1 DEF bookVars, BookInv, BookType, ApartInv, InOrderInv, DetectionInv, Reads, SettledInv, Ordered
<1>2. ASSUME NEW t \in Times, NEW a \in Assets, record_snapshot(t, a) PROVE BookInv'
  <2> DEFINE new == NewRow(snaps, create_snapshot(t, a))
  <2>1. /\ snaps' = snaps \cup {new} /\ t \in Int
        /\ inOrder' = (inOrder /\ \A s \in snaps : s.t < t)
        /\ settled' = Unsettled /\ det' = [det EXCEPT !.full = FALSE] /\ UNCHANGED flows
    BY <1>2, TimesAssumption DEF record_snapshot
  <2>2. new.t = t
    BY StoredSnapshot
  <2> HIDE DEF new
  <2>3. IsFiniteSet(snaps') /\ \A s \in snaps' : s.t \in Int
    BY <1>0, <2>1, <2>2, FS_AddElement
  <2>4. ASSUME inOrder'
        PROVE  /\ inOrder
               /\ \A r, s \in snaps' : r.t = s.t => r = s
               /\ \A s \in snaps' \ snaps : \A r \in snaps : r.t <= s.t
    <3>1. inOrder /\ \A s \in snaps : s.t < t
      BY <2>1, <2>4, Zenon
    <3>2. \A s \in snaps : s.t # t
      BY <1>0, <2>1, <3>1
    <3> QED BY <1>0, <2>1, <2>2, <3>1, <3>2
  <2> QED BY <1>0, <2>1, <2>3, <2>4, RecordKeeps
<1>3. ASSUME NEW t \in Times, NEW x \in Amounts, record_cash_flow(t, x) PROVE BookInv'
  <2> DEFINE new == NewRow(flows, create_cash_flow(t, x, "manual", t))
  <2>1. /\ flows' = flows \cup {new} /\ t \in Int /\ UNCHANGED <<snaps, inOrder>>
        /\ settled' = Unsettled /\ det' = [det EXCEPT !.full = FALSE]
    BY <1>3, TimesAssumption DEF record_cash_flow
  <2>2. new.t = t /\ new.by = "manual" /\ new.from = t
    BY StoredFlow
  <2> HIDE DEF new
  <2>3. AutoIn(flows') = AutoIn(flows)
    BY <2>1, <2>2 DEF AutoIn
  <2>4. \A f \in flows' : f.t \in Int /\ f.from \in Int
    BY <1>0, <2>1, <2>2
  <2> QED BY <1>0, <2>1, <2>3, <2>4, RecordKeeps
<1>4. ASSUME NEW t \in Times, NEW x \in Trades, create_trade(t, x) PROVE BookInv'
  <2>1. /\ UNCHANGED <<snaps, flows, inOrder>>
        /\ settled' = Unsettled /\ det' = [det EXCEPT !.full = FALSE]
    BY <1>4 DEF create_trade
  <2> QED BY <1>0, <2>1, RecordKeeps
<1>5. ASSUME NEW lo \in Times, NEW hi \in Times, NEW x \in Thresholds, StartDetection(lo, hi, x)
      PROVE  BookInv'
  BY <1>5, StartKeeps
<1>6. CASE DetectionFails
  <2>1. det'.pc = "idle" /\ DOMAIN det' = DetFields /\ det'.full = FALSE
        /\ UNCHANGED <<snaps, flows, trades, settled, inOrder>>
    BY <1>6 DEF DetectionFails, NoDetection, DetFields
  <2> QED BY <2>1 DEF BookInv, BookType, ApartInv, InOrderInv, DetectionInv, SettledInv, Ordered
<1> QED BY <1>1, <1>2, <1>3, <1>4, <1>5, <1>6, CreateKeeps, ExplainedKeeps, InferredKeeps
        DEF BookNext

\* Two stretches between snapshots that follow each other and end apart do not
\* overlap.
LEMMA StretchesDisjoint ==
    ASSUME NEW S, NEW a \in Int, NEW b \in Int, NEW c \in Int, NEW d \in Int, b # d,
           Adjacent(S, a, b), Adjacent(S, c, d)
    PROVE  b <= c \/ d <= a
<1>1. (b <= c \/ d <= b) /\ (d <= a \/ b <= d)
  BY DEF Adjacent
<1> QED BY <1>1

\* PerformanceService.detect_cash_flows with has_cash_flow_near, for every set of
\* times, tolerance and threshold, one detection at a time: while snapshots come
\* in the order of time no stretch is booked twice, two automatic flows never lie
\* within the tolerance of each other, and a detection that ended on tables
\* nothing was written to since leaves nothing for one that reads the same order.
THEOREM DetectedOnce == BookSpec => []ChangesDetectedOnce
<1>1. BookInv => ChangesDetectedOnce
  <2> SUFFICES ASSUME BookInv PROVE AutoFlowsApart /\ StretchesApart /\ DetectionSettles
      BY DEF ChangesDetectedOnce
  <2>1. AutoFlowsApart
    BY DEF BookInv, ApartInv, AutoIn, AutoFlowsApart
  <2>2. DetectionSettles
    BY ExplainedAs DEF BookInv, SettledInv, DetectionSettles
  <2>3. StretchesApart
    <3> SUFFICES ASSUME inOrder, NEW f \in AutoIn(flows), NEW g \in AutoIn(flows), f # g
                 PROVE  f.t <= g.from \/ g.t <= f.from
        BY DEF StretchesApart, AutoIn
    <3>1. Adjacent(snaps, f.from, f.t) /\ Adjacent(snaps, g.from, g.t)
      BY DEF BookInv, InOrderInv
    <3>2. f.from \in Int /\ f.t \in Int /\ g.from \in Int /\ g.t \in Int /\ Tolerance \in Nat
      BY TimesAssumption DEF BookInv, BookType, AutoIn
    <3>3. Size(f.t - g.t) > Tolerance
      BY DEF BookInv, ApartInv
    <3>4. f.t # g.t
      BY <3>2, <3>3 DEF Size
    <3> QED BY <3>1, <3>2, <3>4, StretchesDisjoint
  <2> QED BY <2>1, <2>2, <2>3
<1> QED BY InitBook, StepBook, <1>1, PTL DEF BookSpec

-----------------------------------------------------------------------------
(* Folds over a finite set, whose members are taken out in an order that   *)
(* nobody chooses.                                                         *)

Pick(s) == CHOOSE x \in s : TRUE
Folded(op, u, f, S, g) ==
    g = [s \in SUBSET S |-> IF s = {} THEN u ELSE op[f[Pick(s)]][g[s \ {Pick(s)}]]]

\* The same for the subsets of up to n members.
FoldedUpTo(op, u, f, S, n, g) ==
    \A s \in SUBSET S : Cardinality(s) <= n =>
        g[s] = IF s = {} THEN u ELSE op[f[Pick(s)]][g[s \ {Pick(s)}]]

LEMMA SubsetSizes ==
    ASSUME NEW S, IsFiniteSet(S), NEW s \in SUBSET S
    PROVE  /\ IsFiniteSet(s) /\ Cardinality(s) \in Nat /\ Cardinality(s) <= Cardinality(S)
           /\ Cardinality(S) \in Nat
           /\ s # {} => Pick(s) \in s
           /\ \A x \in s : Cardinality(s \ {x}) = Cardinality(s) - 1
           /\ Cardinality(s) = 0 <=> s = {}
<1>1. IsFiniteSet(s) /\ Cardinality(s) \in Nat /\ Cardinality(s) <= Cardinality(S) /\ Cardinality(S) \in Nat
  BY FS_Subset, FS_CardinalityType
<1>2. s # {} => Pick(s) \in s
  BY DEF Pick
<1>3. \A x \in s : Cardinality(s \ {x}) = Cardinality(s) - 1
  BY <1>1, FS_RemoveElement
<1> QED BY <1>1, <1>2, <1>3, FS_EmptySet

LEMMA FoldExists ==
    ASSUME NEW S, IsFiniteSet(S), NEW f, NEW op, NEW u
    PROVE  \E g : Folded(op, u, f, S, g)
<1> DEFINE Good(n) == \E g : g = [s \in SUBSET S |-> g[s]] /\ FoldedUpTo(op, u, f, S, n, g)
           Bad == {n \in Nat : ~Good(n)}
<1>1. Bad = {}
  <2> SUFFICES ASSUME Bad # {} PROVE FALSE
      OBVIOUS
  <2>1. PICK n \in Bad : \A m \in Bad : n <= m
    BY LeastNatural
  <2>2. CASE n = 0
    <3> DEFINE g == [s \in SUBSET S |-> u]
    <3>1. g = [s \in SUBSET S |-> g[s]]
      OBVIOUS
    <3>2. FoldedUpTo(op, u, f, S, 0, g)
      <4> SUFFICES ASSUME NEW s \in SUBSET S, Cardinality(s) <= 0
                   PROVE  g[s] = IF s = {} THEN u ELSE op[f[Pick(s)]][g[s \ {Pick(s)}]]
          BY DEF FoldedUpTo
      <4>0. Cardinality(s) \in Nat /\ (Cardinality(s) = 0 <=> s = {})
        BY SubsetSizes
      <4>1. s = {}
        BY <4>0
      <4> QED BY <4>1
    <3> QED BY <2>1, <2>2, <3>1, <3>2
  <2>3. CASE n # 0
    <3>1. n - 1 \in Nat /\ n - 1 \notin Bad
      <4>1. n \in Nat
        BY <2>1
      <4>2. n - 1 \in Nat /\ ~(n <= n - 1)
        BY <2>3, <4>1
      <4> HIDE DEF Bad
      <4> QED BY <2>1, <4>2
    <3>2. PICK g : FoldedUpTo(op, u, f, S, n - 1, g)
      BY <3>1
    <3> DEFINE h == [s \in SUBSET S |-> IF s = {} THEN u ELSE op[f[Pick(s)]][g[s \ {Pick(s)}]]]
    <3>3. \A s \in SUBSET S : Cardinality(s) <= n - 1 => h[s] = g[s]
      <4> SUFFICES ASSUME NEW s \in SUBSET S, Cardinality(s) <= n - 1 PROVE h[s] = g[s]
          OBVIOUS
      <4>1. g[s] = IF s = {} THEN u ELSE op[f[Pick(s)]][g[s \ {Pick(s)}]]
        BY <3>2 DEF FoldedUpTo
      <4> QED BY <4>1
    <3>4. FoldedUpTo(op, u, f, S, n, h)
      <4> SUFFICES ASSUME NEW s \in SUBSET S, Cardinality(s) <= n, s # {}
                   PROVE  h[s \ {Pick(s)}] = g[s \ {Pick(s)}]
          BY DEF FoldedUpTo
      <4>1. s \ {Pick(s)} \in SUBSET S /\ Cardinality(s \ {Pick(s)}) <= n - 1
        BY <2>1, SubsetSizes
      <4> QED BY <3>3, <4>1
    <3>5. h = [s \in SUBSET S |-> h[s]]
      OBVIOUS
    <3> HIDE DEF h
    <3> QED BY <2>1, <3>4, <3>5
  <2> QED BY <2>2, <2>3
<1>2. Cardinality(S) \in Nat /\ \A s \in SUBSET S : Cardinality(s) <= Cardinality(S)
  BY SubsetSizes
<1>3. PICK g : g = [s \in SUBSET S |-> g[s]] /\ FoldedUpTo(op, u, f, S, Cardinality(S), g)
  BY <1>1, <1>2
<1>4. \A s \in SUBSET S : g[s] = IF s = {} THEN u ELSE op[f[Pick(s)]][g[s \ {Pick(s)}]]
  BY <1>2, <1>3 DEF FoldedUpTo
<1>5. Folded(op, u, f, S, g)
  BY <1>3, <1>4 DEF Folded
<1> QED BY <1>5

\* An operation on integers for which the order makes no difference.
Commutes(op) ==
    /\ op \in [Int -> [Int -> Int]]
    /\ \A a, b, c \in Int : op[a][op[b][c]] = op[b][op[a][c]]

LEMMA FoldType ==
    ASSUME NEW S, IsFiniteSet(S), NEW f, \A x \in S : f[x] \in Int,
           NEW op, Commutes(op), NEW u \in Int, NEW g, Folded(op, u, f, S, g)
    PROVE  \A s \in SUBSET S : g[s] \in Int
<1> DEFINE Bad == {s \in SUBSET S : g[s] \notin Int}
           Sizes == {Cardinality(s) : s \in Bad}
<1> SUFFICES ASSUME Bad # {} PROVE FALSE
    OBVIOUS
<1>1. Sizes \in SUBSET Nat /\ Sizes # {}
  BY SubsetSizes
<1>2. PICK n \in Sizes : \A m \in Sizes : n <= m
  BY <1>1, LeastNatural
<1>3. PICK s \in Bad : n = Cardinality(s)
  BY <1>2
<1>4. \A r \in SUBSET S : g[r] = IF r = {} THEN u ELSE op[f[Pick(r)]][g[r \ {Pick(r)}]]
  BY DEF Folded
<1>5. s # {}
  BY <1>3, <1>4
<1> DEFINE r == s \ {Pick(s)}
<1>6. Pick(s) \in s /\ r \in SUBSET S /\ Cardinality(r) = n - 1 /\ n \in Nat
  BY <1>3, <1>5, SubsetSizes
<1>7. r \notin Bad
  <2> SUFFICES ASSUME r \in Bad PROVE FALSE
      OBVIOUS
  <2>1. Cardinality(r) \in Sizes
    OBVIOUS
  <2> HIDE DEF Bad, Sizes, r
  <2> QED BY <1>2, <1>6, <2>1
<1>8. g[s] = op[f[Pick(s)]][g[r]] /\ f[Pick(s)] \in Int /\ g[r] \in Int
  BY <1>3, <1>4, <1>5, <1>6, <1>7
<1> HIDE DEF r
<1>9. \A a, b \in Int : op[a][b] \in Int
  BY DEF Commutes
<1> QED BY <1>3, <1>8, <1>9

\* Any member may be taken out first.
Orderly(op, f, S, g) == \A s \in SUBSET S : \A x \in s : g[s] = op[f[x]][g[s \ {x}]]

LEMMA FoldOrder ==
    ASSUME NEW S, IsFiniteSet(S), NEW f, \A x \in S : f[x] \in Int,
           NEW op, Commutes(op), NEW u \in Int, NEW g, Folded(op, u, f, S, g)
    PROVE  Orderly(op, f, S, g)
<1> DEFINE Fine(s) == \A x \in s : g[s] = op[f[x]][g[s \ {x}]]
           Bad == {s \in SUBSET S : ~Fine(s)}
           Sizes == {Cardinality(s) : s \in Bad}
<1> SUFFICES ASSUME Bad # {} PROVE FALSE
    BY DEF Orderly
<1>0. \A s \in SUBSET S : g[s] \in Int
  BY FoldType
<1>1. Sizes \in SUBSET Nat /\ Sizes # {}
  BY SubsetSizes
<1>2. PICK n \in Sizes : \A m \in Sizes : n <= m
  BY <1>1, LeastNatural
<1>3. PICK s \in Bad : n = Cardinality(s)
  BY <1>2
<1>4. PICK x \in s : g[s] # op[f[x]][g[s \ {x}]]
  BY <1>3
<1> DEFINE y == Pick(s)
           r == s \ {y}
           q == s \ {x}
           both == r \ {x}
<1>5. y \in s /\ s \in SUBSET S /\ g[s] = op[f[y]][g[r]]
  BY <1>3, <1>4, SubsetSizes DEF Folded
<1>6. x # y
  BY <1>4, <1>5
<1>7. /\ Cardinality(r) = n - 1 /\ Cardinality(q) = n - 1 /\ n \in Nat
      /\ r \in SUBSET S /\ q \in SUBSET S /\ both \in SUBSET S /\ both = q \ {y}
      /\ x \in r /\ y \in q
  BY <1>3, <1>4, <1>5, <1>6, SubsetSizes
<1> HIDE DEF r, q, both, y
<1>8. ASSUME NEW z \in {r, q} PROVE Fine(z)
  <2> SUFFICES ASSUME ~Fine(z) PROVE FALSE
      OBVIOUS
  <2>1. z \in Bad /\ Cardinality(z) = n - 1
    BY <1>7
  <2>2. n - 1 \in Sizes
    BY <2>1
  <2> HIDE DEF Bad, Sizes
  <2> QED BY <1>2, <1>7, <2>2
<1>9. g[r] = op[f[x]][g[both]]
  BY <1>7, <1>8 DEF both
<1>10. g[q] = op[f[y]][g[both]]
  BY <1>7, <1>8
<1>11. f[x] \in Int /\ f[y] \in Int /\ g[both] \in Int
  BY <1>0, <1>4, <1>5, <1>7
<1>12. op[f[y]][op[f[x]][g[both]]] = op[f[x]][op[f[y]][g[both]]]
  BY <1>11 DEF Commutes
<1>13. g[s] = op[f[x]][g[q]]
  BY <1>5, <1>9, <1>10, <1>12
<1> QED BY <1>4, <1>13 DEF q

-----------------------------------------------------------------------------
(* Sums and products.                                                      *)

Plus == [a \in Int |-> [b \in Int |-> a + b]]
ByTimes == [a \in Int |-> [b \in Int |-> a * b]]

LEMMA PlusCommutes == Commutes(Plus) /\ \A a, b \in Int : Plus[a][b] = a + b
<1>1. \A a, b \in Int : Plus[a][b] = a + b
  BY DEF Plus
<1>2. Plus \in [Int -> [Int -> Int]]
  BY DEF Plus
<1>3. ASSUME NEW a \in Int, NEW b \in Int, NEW c \in Int
      PROVE  Plus[a][Plus[b][c]] = Plus[b][Plus[a][c]]
  <2>1. b + c \in Int /\ a + c \in Int /\ a + (b + c) = b + (a + c)
    OBVIOUS
  <2> QED BY <1>1, <2>1
<1>4. \A a, b, c \in Int : Plus[a][Plus[b][c]] = Plus[b][Plus[a][c]]
  BY <1>3
<1>5. Commutes(Plus)
  BY ONLY <1>2, <1>4 DEF Commutes
<1> QED BY ONLY <1>1, <1>5

LEMMA TimesCommutes == Commutes(ByTimes) /\ \A a, b \in Int : ByTimes[a][b] = a * b
<1>1. \A a, b \in Int : ByTimes[a][b] = a * b
  BY DEF ByTimes
<1>2. ByTimes \in [Int -> [Int -> Int]]
  BY DEF ByTimes
<1>3. ASSUME NEW a \in Int, NEW b \in Int, NEW c \in Int
      PROVE  ByTimes[a][ByTimes[b][c]] = ByTimes[b][ByTimes[a][c]]
  <2>1. b * c \in Int /\ a * c \in Int
    OBVIOUS
  <2>2. a * (b * c) = b * (a * c)
    OBVIOUS
  <2> QED BY <1>1, <2>1, <2>2
<1>4. \A a, b, c \in Int : ByTimes[a][ByTimes[b][c]] = ByTimes[b][ByTimes[a][c]]
  BY <1>3
<1>5. Commutes(ByTimes)
  BY ONLY <1>2, <1>4 DEF Commutes
<1> QED BY ONLY <1>1, <1>5

Adds(f, S, g) == g = [s \in SUBSET S |-> IF s = {} THEN 0 ELSE f[Pick(s)] + g[s \ {Pick(s)}]]
Multiplies(f, S, g) == g = [s \in SUBSET S |-> IF s = {} THEN 1 ELSE f[Pick(s)] * g[s \ {Pick(s)}]]

LEMMA SumIs ==
    ASSUME NEW f, NEW S, S = DOMAIN f
    PROVE  SumFunction(f) = (CHOOSE g : Adds(f, S, g))[S]
BY DEF SumFunction, SumFunctionOnSet, FoldFunctionOnSet, MapThenFoldSet, Adds, Pick

LEMMA ProductIs ==
    ASSUME NEW f, NEW S, S = DOMAIN f
    PROVE  Product(f) = (CHOOSE g : Multiplies(f, S, g))[S]
BY DEF Product, FoldFunction, FoldFunctionOnSet, MapThenFoldSet, Multiplies, Pick

LEMMA SumInt ==
    ASSUME NEW S, IsFiniteSet(S), NEW f, S = DOMAIN f, \A x \in S : f[x] \in Int
    PROVE  SumFunction(f) \in Int /\ (S = {} => SumFunction(f) = 0)
<1>1. PICK h : Folded(Plus, 0, f, S, h)
  BY FoldExists
<1>2. \A s \in SUBSET S : h[s] \in Int
  BY <1>1, PlusCommutes, FoldType
<1>3. Adds(f, S, h)
  <2>1. \A s \in SUBSET S : s # {} => Plus[f[Pick(s)]][h[s \ {Pick(s)}]] = f[Pick(s)] + h[s \ {Pick(s)}]
    <3> SUFFICES ASSUME NEW s \in SUBSET S, s # {}
                 PROVE  Plus[f[Pick(s)]][h[s \ {Pick(s)}]] = f[Pick(s)] + h[s \ {Pick(s)}]
        OBVIOUS
    <3>1. f[Pick(s)] \in Int /\ h[s \ {Pick(s)}] \in Int
      BY <1>2, SubsetSizes
    <3> QED BY <3>1, PlusCommutes
  <2> QED BY <1>1, <2>1 DEF Folded, Adds
<1> DEFINE g == CHOOSE k : Adds(f, S, k)
<1>4. Adds(f, S, g)
  BY <1>3
<1> HIDE DEF g
<1>5. \A k : Adds(f, S, k) => k = h
  <2> SUFFICES ASSUME NEW k, Adds(f, S, k) PROVE k = h
      OBVIOUS
  <2> DEFINE Bad == {s \in SUBSET S : k[s] # h[s]}
             Sizes == {Cardinality(s) : s \in Bad}
  <2>0. /\ k = [s \in SUBSET S |-> k[s]] /\ h = [s \in SUBSET S |-> h[s]]
        /\ \A s \in SUBSET S : k[s] = IF s = {} THEN 0 ELSE f[Pick(s)] + k[s \ {Pick(s)}]
        /\ \A s \in SUBSET S : h[s] = IF s = {} THEN 0 ELSE f[Pick(s)] + h[s \ {Pick(s)}]
    BY <1>3 DEF Adds
  <2>1. Bad = {}
    <3> SUFFICES ASSUME Bad # {} PROVE FALSE
        OBVIOUS
    <3>1. Sizes \in SUBSET Nat /\ Sizes # {}
      BY SubsetSizes
    <3>2. PICK n \in Sizes : \A m \in Sizes : n <= m
      BY <3>1, LeastNatural
    <3>3. PICK s \in Bad : n = Cardinality(s)
      BY <3>2
    <3>4. s # {}
      BY <2>0, <3>3
    <3> DEFINE r == s \ {Pick(s)}
    <3>5. r \in SUBSET S /\ Cardinality(r) = n - 1 /\ n \in Nat
      BY <3>3, <3>4, SubsetSizes
    <3>6. k[s] = f[Pick(s)] + k[r] /\ h[s] = f[Pick(s)] + h[r]
      BY <2>0, <3>3, <3>4
    <3> HIDE DEF r
    <3>7. r \in Bad
      BY <3>3, <3>5, <3>6
    <3>8. Cardinality(r) \in Sizes
      BY <3>7
    <3> HIDE DEF Bad, Sizes
    <3> QED BY <3>2, <3>5, <3>8
  <2> QED BY <2>0, <2>1
<1>6. SumFunction(f) = h[S]
  BY <1>4, <1>5, SumIs DEF g
<1>7. S = {} => h[S] = 0
  BY <1>1 DEF Folded
<1> QED BY <1>2, <1>6, <1>7

\* The products over the subsets of a set.
Partial(f, S, g) ==
    /\ g[{}] = 1
    /\ \A s \in SUBSET S : g[s] \in Int
    /\ \A s \in SUBSET S : \A x \in s : g[s] = f[x] * g[s \ {x}]

\* A product is built by multiplying with one member after the other.
LEMMA ProductOver ==
    ASSUME NEW S, IsFiniteSet(S), NEW f, S = DOMAIN f, \A x \in S : f[x] \in Int
    PROVE  \E g : Product(f) = g[S] /\ Partial(f, S, g)
<1>1. PICK h : Folded(ByTimes, 1, f, S, h)
  BY FoldExists
<1>2. \A s \in SUBSET S : h[s] \in Int
  BY <1>1, TimesCommutes, FoldType
<1>o. Orderly(ByTimes, f, S, h)
  BY <1>1, TimesCommutes, FoldOrder
<1>3. Multiplies(f, S, h)
  <2>1. \A s \in SUBSET S : s # {} => ByTimes[f[Pick(s)]][h[s \ {Pick(s)}]] = f[Pick(s)] * h[s \ {Pick(s)}]
    <3> SUFFICES ASSUME NEW s \in SUBSET S, s # {}
                 PROVE  ByTimes[f[Pick(s)]][h[s \ {Pick(s)}]] = f[Pick(s)] * h[s \ {Pick(s)}]
        OBVIOUS
    <3>1. f[Pick(s)] \in Int /\ h[s \ {Pick(s)}] \in Int
      BY <1>2, SubsetSizes
    <3> QED BY <3>1, TimesCommutes
  <2> QED BY <1>1, <2>1 DEF Folded, Multiplies
<1> DEFINE g == CHOOSE k : Multiplies(f, S, k)
<1>4. Multiplies(f, S, g)
  BY <1>3
<1>5. Product(f) = g[S]
  BY ProductIs
<1> HIDE DEF g
<1>6. \A k : Multiplies(f, S, k) => k = h
  <2> SUFFICES ASSUME NEW k, Multiplies(f, S, k) PROVE k = h
      OBVIOUS
  <2> DEFINE Bad == {s \in SUBSET S : k[s] # h[s]}
             Sizes == {Cardinality(s) : s \in Bad}
  <2>0. /\ k = [s \in SUBSET S |-> k[s]] /\ h = [s \in SUBSET S |-> h[s]]
        /\ \A s \in SUBSET S : k[s] = IF s = {} THEN 1 ELSE f[Pick(s)] * k[s \ {Pick(s)}]
        /\ \A s \in SUBSET S : h[s] = IF s = {} THEN 1 ELSE f[Pick(s)] * h[s \ {Pick(s)}]
    BY <1>3 DEF Multiplies
  <2>1. Bad = {}
    <3> SUFFICES ASSUME Bad # {} PROVE FALSE
        OBVIOUS
    <3>1. Sizes \in SUBSET Nat /\ Sizes # {}
      BY SubsetSizes
    <3>2. PICK n \in Sizes : \A m \in Sizes : n <= m
      BY <3>1, LeastNatural
    <3>3. PICK s \in Bad : n = Cardinality(s)
      BY <3>2
    <3>4. s # {}
      BY <2>0, <3>3
    <3> DEFINE r == s \ {Pick(s)}
    <3>5. r \in SUBSET S /\ Cardinality(r) = n - 1 /\ n \in Nat
      BY <3>3, <3>4, SubsetSizes
    <3>6. k[s] = f[Pick(s)] * k[r] /\ h[s] = f[Pick(s)] * h[r]
      BY <2>0, <3>3, <3>4
    <3> HIDE DEF r
    <3>7. r \in Bad
      BY <3>3, <3>5, <3>6
    <3>8. Cardinality(r) \in Sizes
      BY <3>7
    <3> HIDE DEF Bad, Sizes
    <3> QED BY <3>2, <3>5, <3>8
  <2> QED BY <2>0, <2>1
<1>7. g = h
  BY <1>4, <1>6
<1>8. ASSUME NEW s \in SUBSET S, NEW x \in s PROVE h[s] = f[x] * h[s \ {x}]
  <2>1. h[s] = ByTimes[f[x]][h[s \ {x}]]
    BY <1>o DEF Orderly
  <2>2. f[x] \in Int /\ h[s \ {x}] \in Int
    BY <1>2
  <2> QED BY <2>1, <2>2, TimesCommutes
<1>9. h[{}] = 1
  BY <1>1 DEF Folded
<1>10. Partial(f, S, h)
  BY <1>2, <1>8, <1>9 DEF Partial
<1> QED BY <1>5, <1>7, <1>10

-----------------------------------------------------------------------------
(* Every amount is a number.                                               *)

AmountInv ==
    /\ \A s \in snaps : s.assets \in Int
    /\ IsFiniteSet(flows) /\ \A f \in flows : f.amount \in Int
    /\ IsFiniteSet(trades) /\ \A x \in trades : x.pnl \in Int
    /\ det.pc = "create" => det.amount \in Int

LEMMA TotalInt ==
    ASSUME NEW F, IsFiniteSet(F), \A f \in F : f.amount \in Int
    PROVE  Total(F) \in Int /\ (F = {} => Total(F) = 0)
<1> DEFINE a == [x \in F |-> x.amount]
<1>1. F = DOMAIN a /\ \A x \in F : a[x] \in Int
  OBVIOUS
<1> HIDE DEF a
<1>2. SumFunction(a) \in Int /\ (F = {} => SumFunction(a) = 0)
  BY <1>1, SumInt
<1> QED BY <1>2 DEF Total, a

LEMMA PnlInt ==
    ASSUME NEW T, IsFiniteSet(T), \A x \in T : x.pnl \in Int
    PROVE  PnlOf(T) \in Int
<1> DEFINE a == [x \in T |-> x.pnl]
<1>1. T = DOMAIN a /\ \A x \in T : a[x] \in Int
  OBVIOUS
<1> HIDE DEF a
<1>2. SumFunction(a) \in Int
  BY <1>1, SumInt
<1> QED BY <1>2 DEF PnlOf, a

\* What a detection infers is a number.
LEMMA InferredInt ==
    ASSUME BookInv, AmountInv, det.pc # "idle"
    PROVE  Inferred(PairAt(det.list, det.at)) \in Int
<1> DEFINE a == det.list[det.at - 1]
           b == det.list[det.at]
<1>1. a \in snaps /\ b \in snaps
  <2>1. Len(det.list) \in Nat /\ det.at \in 2 .. Len(det.list)
        /\ \A i \in 1 .. Len(det.list) : det.list[i] \in snaps
    BY DEF BookInv, DetectionInv, Reads
  <2>2. det.at \in 1 .. Len(det.list) /\ det.at - 1 \in 1 .. Len(det.list)
    BY <2>1
  <2> QED BY <2>1, <2>2
<1>2. PairAt(det.list, det.at) = <<a, b>>
  BY DEF PairAt
<1> HIDE DEF a, b
<1>4. a.assets \in Int /\ b.assets \in Int
  BY <1>1 DEF AmountInv
<1> DEFINE sold == {x \in Between(Within(trades, a.t, b.t), a.t, b.t) : x.closed}
<1>5. sold \subseteq trades
  BY DEF Between, Within
<1>6. IsFiniteSet(sold) /\ \A x \in sold : x.pnl \in Int
  BY <1>5, FS_Subset DEF AmountInv
<1>7. sum_realized_pnl(a.t, b.t) = PnlOf(sold)
  BY DEF sum_realized_pnl, list_trades, RealizedIn
<1> HIDE DEF sold
<1>8. PnlOf(sold) \in Int
  BY <1>6, PnlInt
<1>9. Inferred(<<a, b>>) = b.assets - a.assets - PnlOf(sold)
  BY <1>7 DEF Inferred
<1> QED BY <1>2, <1>4, <1>8, <1>9

LEMMA InitAmount == BookInit => AmountInv
  BY FS_EmptySet DEF BookInit, NoDetection, AmountInv

\* Rows recorded while a detection runs.
LEMMA RecordAmounts ==
    ASSUME BookInv, AmountInv, det' = [det EXCEPT !.full = FALSE],
           \A s \in snaps' : s.assets \in Int,
           IsFiniteSet(flows'), \A f \in flows' : f.amount \in Int,
           IsFiniteSet(trades'), \A x \in trades' : x.pnl \in Int
    PROVE  AmountInv'
<1>1. DOMAIN det = DetFields
  BY DEF BookInv, BookType
<1>2. det'.pc = det.pc /\ det'.amount = det.amount
  BY <1>1 DEF DetFields
<1> QED BY <1>2 DEF AmountInv

LEMMA AdvanceAmounts ==
    ASSUME BookInv, AmountInv, det.pc # "idle", NEW at, Advance(at), UNCHANGED <<snaps, trades>>,
           IsFiniteSet(flows'), \A f \in flows' : f.amount \in Int
    PROVE  AmountInv'
<1>1. DOMAIN det = DetFields
  BY DEF BookInv, BookType
<1>2. CASE at > Len(det.list)
  <2>1. det'.pc = "idle"
    BY <1>2 DEF Advance, NoDetection
  <2> QED BY <2>1 DEF AmountInv
<1>3. CASE ~(at > Len(det.list))
  <2>1. det'.pc = "check"
    BY <1>1, <1>3 DEF Advance, DetFields
  <2> QED BY <2>1 DEF AmountInv
<1> QED BY <1>2, <1>3

LEMMA StepAmount == BookInv /\ AmountInv /\ [BookNext]_bookVars => AmountInv'
<1> SUFFICES ASSUME BookInv, AmountInv, [BookNext]_bookVars PROVE AmountInv'
    OBVIOUS
<1>0. /\ \A s \in snaps : s.assets \in Int
      /\ IsFiniteSet(flows) /\ \A f \in flows : f.amount \in Int
      /\ IsFiniteSet(trades) /\ \A x \in trades : x.pnl \in Int
      /\ DOMAIN det = DetFields
  BY DEF AmountInv, BookInv, BookType
<1>1. CASE UNCHANGED bookVars
  BY <1>1 DEF bookVars, AmountInv
<1>2. ASSUME NEW t \in Times, NEW a \in Assets, record_snapshot(t, a) PROVE AmountInv'
  <2> DEFINE new == NewRow(snaps, create_snapshot(t, a))
  <2>1. snaps' = snaps \cup {new} /\ new.assets = a /\ a \in Int
    BY <1>2, AmountsAssumption, StoredSnapshot DEF record_snapshot
  <2> HIDE DEF new
  <2>2. \A s \in snaps' : s.assets \in Int
    BY <1>0, <2>1
  <2> QED BY <1>0, <1>2, <2>2, RecordAmounts DEF record_snapshot
<1>3. ASSUME NEW t \in Times, NEW x \in Amounts, record_cash_flow(t, x) PROVE AmountInv'
  <2> DEFINE new == NewRow(flows, create_cash_flow(t, x, "manual", t))
  <2>1. flows' = flows \cup {new} /\ new.amount = x /\ x \in Int
    BY <1>3, AmountsAssumption, StoredFlow DEF record_cash_flow
  <2> HIDE DEF new
  <2>2. IsFiniteSet(flows') /\ \A f \in flows' : f.amount \in Int
    BY <1>0, <2>1, FS_AddElement
  <2> QED BY <1>0, <1>3, <2>2, RecordAmounts DEF record_cash_flow
<1>4. ASSUME NEW t \in Times, NEW x \in Trades, create_trade(t, x) PROVE AmountInv'
  <2> DEFINE new == NewRow(trades, [id |-> 0, t |-> t, strat |-> x.strat, base |-> x.base,
                                    closed |-> x.closed, pnl |-> x.pnl])
  <2>1. trades' = trades \cup {new} /\ new.pnl = x.pnl /\ x.pnl \in Int
    BY <1>4, AmountsAssumption DEF create_trade, NewRow
  <2> HIDE DEF new
  <2>2. IsFiniteSet(trades') /\ \A y \in trades' : y.pnl \in Int
    BY <1>0, <2>1, FS_AddElement
  <2> QED BY <1>0, <1>4, <2>2, RecordAmounts DEF create_trade
<1>5. ASSUME NEW lo \in Times, NEW hi \in Times, NEW x \in Thresholds, StartDetection(lo, hi, x)
      PROVE  AmountInv'
  <2>1. PICK list : det' = Reading(list, x, list_snapshots(lo, hi) = snaps)
    BY <1>5 DEF StartDetection
  <2>2. det'.pc = "check" /\ UNCHANGED <<snaps, flows, trades>>
    BY <1>0, <1>5, <2>1 DEF StartDetection, Reading, DetFields
  <2> QED BY <1>0, <2>2 DEF AmountInv
<1>6. CASE PairExplained
  <2>1. det.pc # "idle" /\ Advance(det.at + 1) /\ UNCHANGED <<snaps, flows, trades>>
    BY <1>6 DEF PairExplained
  <2> QED BY <1>0, <2>1, AdvanceAmounts
<1>7. CASE PairInferred
  <2> DEFINE x == Inferred(PairAt(det.list, det.at))
  <2>1. det.pc = "check" /\ det' = [det EXCEPT !.pc = "create", !.amount = x]
        /\ UNCHANGED <<snaps, flows, trades>>
    BY <1>7 DEF PairInferred
  <2>2. x \in Int
    BY <2>1, InferredInt
  <2> HIDE DEF x
  <2>3. det'.amount = x
    BY <1>0, <2>1 DEF DetFields
  <2> QED BY <1>0, <2>1, <2>2, <2>3 DEF AmountInv
<1>8. CASE CreateFlow
  <2> DEFINE new == NewRow(flows, create_cash_flow(det.list[det.at].t, det.amount, "auto",
                                                   det.list[det.at - 1].t))
  <2>1. /\ det.pc = "create" /\ flows' = flows \cup {new} /\ UNCHANGED <<snaps, trades>>
        /\ Advance(det.at + 1)
    BY <1>8 DEF CreateFlow
  <2>2. new.amount \in Int
    BY <2>1, StoredFlow DEF AmountInv
  <2> HIDE DEF new
  <2>3. IsFiniteSet(flows') /\ \A f \in flows' : f.amount \in Int
    BY <1>0, <2>1, <2>2, FS_AddElement
  <2> QED BY <1>0, <2>1, <2>3, AdvanceAmounts
<1>9. CASE DetectionFails
  <2>1. det'.pc = "idle" /\ UNCHANGED <<snaps, flows, trades>>
    BY <1>9 DEF DetectionFails, NoDetection
  <2> QED BY <1>0, <2>1 DEF AmountInv
<1> QED BY <1>1, <1>2, <1>3, <1>4, <1>5, <1>6, <1>7, <1>8, <1>9 DEF BookNext

-----------------------------------------------------------------------------
(* The equity curve, one point after the other.                            *)

First(list, F) ==
    [num |-> 1, den |-> 1, pnl |-> 0, base |-> list[1].assets - Total(UpTo(F, list[1].t))]
IsCurve(list, F, n, p) ==
    p = [i \in 1 .. n |-> IF i = 1 THEN First(list, F) ELSE CurvePoint(list, F, p[i - 1], i)]
IsCurveUpTo(list, F, n, p) ==
    \A i \in 1 .. n : p[i] = IF i = 1 THEN First(list, F) ELSE CurvePoint(list, F, p[i - 1], i)

LEMMA CurveExists ==
    ASSUME NEW list, NEW F, NEW n \in Nat
    PROVE  \E p : IsCurve(list, F, n, p)
<1> DEFINE Good(m) == \E p : p = [i \in 1 .. m |-> p[i]] /\ IsCurveUpTo(list, F, m, p)
           Bad == {m \in Nat : ~Good(m)}
<1>1. Bad = {}
  <2> SUFFICES ASSUME Bad # {} PROVE FALSE
      OBVIOUS
  <2>1. PICK m \in Bad : \A k \in Bad : m <= k
    BY LeastNatural
  <2>2. CASE m = 0
    <3> DEFINE p == [i \in 1 .. 0 |-> 0]
    <3>1. p = [i \in 1 .. 0 |-> p[i]] /\ IsCurveUpTo(list, F, 0, p)
      BY DEF IsCurveUpTo
    <3> QED BY <2>1, <2>2, <3>1
  <2>3. CASE m # 0
    <3>1. m \in Nat /\ m - 1 \in Nat /\ m - 1 \notin Bad
      <4>1. m \in Nat
        BY <2>1
      <4>2. m - 1 \in Nat /\ ~(m <= m - 1)
        BY <2>3, <4>1
      <4> HIDE DEF Bad
      <4> QED BY <2>1, <4>1, <4>2
    <3>2. PICK p : IsCurveUpTo(list, F, m - 1, p)
      BY <3>1
    <3> DEFINE q == [i \in 1 .. m |-> IF i = m THEN IF i = 1 THEN First(list, F)
                                                         ELSE CurvePoint(list, F, p[m - 1], m)
                                             ELSE p[i]]
    <3>3. \A i \in 1 .. m : i # m => q[i] = p[i]
      OBVIOUS
    <3>4. q[m] = IF m = 1 THEN First(list, F) ELSE CurvePoint(list, F, p[m - 1], m)
      BY <2>3, <3>1
    <3>5. q = [i \in 1 .. m |-> q[i]]
      OBVIOUS
    <3> HIDE DEF q
    <3>6. IsCurveUpTo(list, F, m, q)
      <4> SUFFICES ASSUME NEW i \in 1 .. m
                   PROVE  q[i] = IF i = 1 THEN First(list, F) ELSE CurvePoint(list, F, q[i - 1], i)
          BY DEF IsCurveUpTo
      <4>1. i # 1 => i - 1 \in 1 .. m /\ i - 1 # m /\ q[i - 1] = p[i - 1]
        BY <3>1, <3>3
      <4>2. CASE i = m
        BY <3>4, <4>1, <4>2
      <4>3. CASE i # m
        <5>1. i \in 1 .. m - 1
          BY <3>1, <4>3
        <5>2. p[i] = IF i = 1 THEN First(list, F) ELSE CurvePoint(list, F, p[i - 1], i)
          BY <3>2, <5>1 DEF IsCurveUpTo
        <5> QED BY <3>3, <4>1, <4>3, <5>2
      <4> QED BY <4>2, <4>3
    <3> QED BY <2>1, <3>5, <3>6
  <2> QED BY <2>2, <2>3
<1>2. PICK p : p = [i \in 1 .. n |-> p[i]] /\ IsCurveUpTo(list, F, n, p)
  BY <1>1
<1>3. IsCurve(list, F, n, p)
  BY <1>2 DEF IsCurve, IsCurveUpTo
<1> QED BY <1>3

LEMMA CurveIs ==
    ASSUME NEW list, NEW F, Len(list) \in Nat
    PROVE  \E p : IsCurve(list, F, Len(list), p) /\ equity_curve(list, F) = p[Len(list)]
<1> DEFINE q == CHOOSE p : IsCurve(list, F, Len(list), p)
<1>1. IsCurve(list, F, Len(list), q)
  BY CurveExists
<1>2. equity_curve(list, F) = q[Len(list)]
  BY DEF equity_curve, IsCurve, First
<1> QED BY <1>1, <1>2

LEMMA GrossInt ==
    ASSUME NEW F, IsFiniteSet(F), \A f \in F : f.amount \in Int,
           NEW p, p[1].assets \in Int, p[2].assets \in Int
    PROVE  GrossOf(p, F).num \in Int /\ GrossOf(p, F).den = p[1].assets
<1> DEFINE G == Between(F, p[1].t, p[2].t)
           x == p[2].assets - Total(G)
<1>1. IsFiniteSet(G) /\ \A f \in G : f.amount \in Int
  BY FS_Subset DEF Between
<1> HIDE DEF G
<1>2. x \in Int
  BY <1>1, TotalInt
<1> HIDE DEF x
<1>3. Max({x, 0}) \in Int
  <2>1. \E m \in {x, 0} : \A y \in {x, 0} : m >= y
    BY <1>2
  <2>2. Max({x, 0}) \in {x, 0}
    BY <2>1 DEF Max
  <2> QED BY <1>2, <2>2
<1> QED BY <1>3 DEF GrossOf, x, G

\* The places whose pairs the curve has compounded at its i-th point.
Compounded(list, i) == {k \in 2 .. i : list[k - 1].assets > 0}

LEMMA MulCommutes == \A a, b \in Int : a * b = b * a
  OBVIOUS

LEMMA CompoundedGrows ==
    ASSUME NEW list, NEW i \in Nat, i >= 2
    PROVE  IF list[i - 1].assets > 0
           THEN i \in Compounded(list, i) /\ Compounded(list, i) \ {i} = Compounded(list, i - 1)
           ELSE Compounded(list, i) = Compounded(list, i - 1)
<1>1. 2 .. i = (2 .. (i - 1)) \cup {i} /\ i \notin 2 .. (i - 1)
  OBVIOUS
<1> QED BY <1>1 DEF Compounded

\* The last point of the curve has compounded what the report multiplies, in
\* the order of time, and its gain is counted from the first snapshot.
LEMMA CurveCompounds ==
    ASSUME NEW F, IsFiniteSet(F), \A f \in F : f.amount \in Int,
           NEW n \in Nat, n >= 2, NEW list, n = Len(list), \A i \in 1 .. n : list[i].assets \in Int,
           NEW p, IsCurve(list, F, n, p)
    PROVE  /\ p[n].num = compute_twr(list, F).num /\ p[n].den = compute_twr(list, F).den
           /\ p[n].pnl = list[n].assets - Total(UpTo(F, list[n].t)) - First(list, F).base
<1> DEFINE C == {k \in 2 .. Len(list) : list[k - 1].assets > 0}
           N(q) == GrossOf(PairAt(list, q), F).num
           D(q) == GrossOf(PairAt(list, q), F).den
           fn == [q \in C |-> N(q)]
           fd == [q \in C |-> D(q)]
<1>0. n \in Nat /\ n >= 2
  OBVIOUS
<1>1. IsFiniteSet(C)
  <2>1. IsFiniteSet(2 .. n)
    BY FS_Interval
  <2> QED BY <2>1, FS_Subset
<1>2. \A q \in C : N(q) \in Int /\ D(q) \in Int
  <2> SUFFICES ASSUME NEW q \in C PROVE N(q) \in Int /\ D(q) \in Int
      OBVIOUS
  <2>1. q \in 1 .. n /\ q - 1 \in 1 .. n
    OBVIOUS
  <2>2. list[q - 1].assets \in Int /\ list[q].assets \in Int
    BY <2>1
  <2>3. PairAt(list, q)[1] = list[q - 1] /\ PairAt(list, q)[2] = list[q]
    BY DEF PairAt
  <2>4. PairAt(list, q)[1].assets \in Int /\ PairAt(list, q)[2].assets \in Int
    BY <2>2, <2>3
  <2>5. N(q) \in Int /\ D(q) = PairAt(list, q)[1].assets
    BY <2>4, GrossInt
  <2> QED BY <2>4, <2>5
<1>3. compute_twr(list, F).num = Product(fn) /\ compute_twr(list, F).den = Product(fd)
  BY DEF compute_twr
<1>4. /\ Compounded(list, 1) = {} /\ Compounded(list, n) = C
      /\ \A i \in 1 .. n : Compounded(list, i) \in SUBSET C
  BY DEF Compounded
<1>f. /\ C = DOMAIN fn /\ \A q \in C : fn[q] = N(q)
      /\ C = DOMAIN fd /\ \A q \in C : fd[q] = D(q)
  OBVIOUS
<1> HIDE DEF C, fn, fd
<1>5. PICK gn : Product(fn) = gn[C] /\ Partial(fn, C, gn)
  <2>1. \A q \in C : fn[q] \in Int
    BY <1>2, <1>f
  <2> QED BY <1>1, <1>f, <2>1, ProductOver
<1>6. PICK gd : Product(fd) = gd[C] /\ Partial(fd, C, gd)
  <2>1. \A q \in C : fd[q] \in Int
    BY <1>2, <1>f
  <2> QED BY <1>1, <1>f, <2>1, ProductOver
<1>g. /\ gn[{}] = 1 /\ \A s \in SUBSET C : gn[s] \in Int
      /\ \A s \in SUBSET C : \A x \in s : gn[s] = fn[x] * gn[s \ {x}]
      /\ gd[{}] = 1 /\ \A s \in SUBSET C : gd[s] \in Int
      /\ \A s \in SUBSET C : \A x \in s : gd[s] = fd[x] * gd[s \ {x}]
  BY <1>5, <1>6 DEF Partial
<1>7. \A i \in 1 .. n : p[i] = IF i = 1 THEN First(list, F) ELSE CurvePoint(list, F, p[i - 1], i)
  BY DEF IsCurve
<1> DEFINE Told(i) == /\ p[i].num = gn[Compounded(list, i)] /\ p[i].den = gd[Compounded(list, i)]
                      /\ p[i].base = First(list, F).base
<1>8. Told(1)
  <2>1. p[1] = First(list, F)
    BY <1>0, <1>7
  <2>2. First(list, F).num = 1 /\ First(list, F).den = 1
    BY DEF First
  <2> QED BY <1>4, <1>g, <2>1, <2>2
<1>9. ASSUME NEW i \in 2 .. n, Told(i - 1)
      PROVE  Told(i) /\ p[i].pnl = list[i].assets - Total(UpTo(F, list[i].t)) - First(list, F).base
  <2> DEFINE counts == list[i - 1].assets > 0
  <2>0. i \in 1 .. n /\ i - 1 \in 1 .. n /\ i # 1
    BY <1>0
  <2>1. p[i] = CurvePoint(list, F, p[i - 1], i)
    BY <1>7, <2>0
  <2>2. /\ p[i].num = IF counts THEN p[i - 1].num * N(i) ELSE p[i - 1].num
        /\ p[i].den = IF counts THEN p[i - 1].den * D(i) ELSE p[i - 1].den
        /\ p[i].pnl = list[i].assets - Total(UpTo(F, list[i].t)) - p[i - 1].base
        /\ p[i].base = p[i - 1].base
    BY <2>1 DEF CurvePoint
  <2>3. IF counts
        THEN i \in Compounded(list, i) /\ Compounded(list, i) \ {i} = Compounded(list, i - 1)
        ELSE Compounded(list, i) = Compounded(list, i - 1)
    BY <1>0, CompoundedGrows
  <2> HIDE DEF counts, N, D
  <2>4. CASE counts
    <3>1. i \in C /\ Compounded(list, i) \in SUBSET C /\ Compounded(list, i - 1) \in SUBSET C
      BY <1>4, <2>0, <2>3, <2>4
    <3>2. /\ gn[Compounded(list, i)] = fn[i] * gn[Compounded(list, i - 1)]
          /\ gd[Compounded(list, i)] = fd[i] * gd[Compounded(list, i - 1)]
      BY <1>g, <2>3, <2>4, <3>1
    <3>3. /\ fn[i] = N(i) /\ fn[i] \in Int /\ gn[Compounded(list, i - 1)] \in Int
          /\ fd[i] = D(i) /\ fd[i] \in Int /\ gd[Compounded(list, i - 1)] \in Int
      BY <1>2, <1>g, <1>f, <3>1
    <3>4. /\ fn[i] * gn[Compounded(list, i - 1)] = gn[Compounded(list, i - 1)] * fn[i]
          /\ fd[i] * gd[Compounded(list, i - 1)] = gd[Compounded(list, i - 1)] * fd[i]
      BY ONLY <3>3, MulCommutes
    <3> QED BY <1>9, <2>2, <2>4, <3>2, <3>3, <3>4
  <2>5. CASE ~counts
    BY <1>9, <2>2, <2>3, <2>5
  <2> QED BY <2>4, <2>5
<1>10. \A i \in 1 .. n : Told(i)
  <2> DEFINE Bad == {i \in 1 .. n : ~Told(i)}
  <2> SUFFICES ASSUME Bad # {} PROVE FALSE
      OBVIOUS
  <2>1. Bad \in SUBSET Nat
    BY <1>0
  <2>2. PICK i \in Bad : \A j \in Bad : i <= j
    BY <2>1, LeastNatural
  <2>3. i \in 1 .. n /\ ~Told(i)
    BY <2>2
  <2>4. i # 1
    BY <1>8, <2>3
  <2> HIDE DEF Told
  <2>5. i \in 2 .. n /\ i - 1 \in 1 .. n /\ ~(i <= i - 1)
    BY <1>0, <2>3, <2>4
  <2>6. Told(i - 1)
    BY <2>2, <2>5
  <2> QED BY <1>9, <2>3, <2>5, <2>6
<1>11. n \in 2 .. n /\ n \in 1 .. n /\ n - 1 \in 1 .. n
  BY <1>0
<1>12. p[n].pnl = list[n].assets - Total(UpTo(F, list[n].t)) - First(list, F).base
  BY <1>9, <1>10, <1>11
<1>13. Told(n)
  BY <1>10, <1>11
<1> QED BY <1>3, <1>4, <1>5, <1>6, <1>12, <1>13

\* The report and the curve of one range.
LEMMA ReportIs ==
    ASSUME NEW list, NEW F, Len(list) >= 2, Len(list) \in Nat
    PROVE  /\ twr_report(list, F).twr = compute_twr(list, F)
           /\ twr_report(list, F).pnl = list[Len(list)].assets - list[1].assets - Total(F)
<1>1. ~(Len(list) < 2)
  OBVIOUS
<1> QED BY <1>1 DEF twr_report

\* twr_report and equity_curve of PerformanceService, for every set of times,
\* snapshots, flows and trades and whatever a detection has booked: over one
\* range, read in one order, they tell the same time weighted return and, when no
\* flow lies outside the snapshots, the same gain.
THEOREM CurveAgrees == BookSpec => []CurveMatchesReport
<1>1. BookInv /\ AmountInv => CurveMatchesReport
  <2> SUFFICES ASSUME BookInv, AmountInv, NEW lo \in Times, NEW hi \in Times,
                      Cardinality(Within(snaps, lo, hi)) >= 2, NEW list \in Ordered(Within(snaps, lo, hi))
               PROVE  LET told == twr_report(list, Within(flows, lo, hi))
                          curve == equity_curve(list, Within(flows, lo, hi))
                      IN  /\ told.twr.num * curve.den = curve.num * told.twr.den
                          /\ (\A f \in Within(flows, lo, hi) :
                                \E s1, s2 \in Within(snaps, lo, hi) : s1.t < f.t /\ f.t <= s2.t)
                             => told.pnl = curve.pnl
      BY DEF CurveMatchesReport, list_snapshots, list_cash_flows
  <2> DEFINE S == Within(snaps, lo, hi)
             F == Within(flows, lo, hi)
             n == Cardinality(S)
  <2>1. S \subseteq snaps /\ F \subseteq flows
    BY DEF Within
  <2>2. IsFiniteSet(S) /\ \A s \in S : s.t \in Int /\ s.assets \in Int
    <3>1. IsFiniteSet(S)
      BY <2>1, FS_Subset DEF BookInv, BookType
    <3> QED BY <2>1, <3>1 DEF BookInv, BookType, AmountInv
  <2>3. IsFiniteSet(F) /\ \A f \in F : f.amount \in Int /\ f.t \in Int
    <3>1. IsFiniteSet(F)
      BY <2>1, FS_Subset DEF AmountInv
    <3> QED BY <2>1, <3>1 DEF BookInv, BookType, AmountInv
  <2>5. n >= 2 /\ list \in Ordered(S)
    OBVIOUS
  <2> HIDE DEF S, F
  <2>6. /\ n \in Nat /\ Len(list) = n
        /\ \A i \in 1 .. n : list[i] \in S
        /\ \A i, j \in 1 .. n : i < j => list[i].t <= list[j].t
        /\ \A s \in S : \E i \in 1 .. n : list[i] = s
    BY <2>2, <2>5, OrderedIs
  <2>a. \A i \in 1 .. n : list[i].t \in Int /\ list[i].assets \in Int
    BY <2>2, <2>6
  <2> HIDE DEF n
  <2>7. PICK p : IsCurve(list, F, n, p) /\ equity_curve(list, F) = p[n]
    BY <2>6, CurveIs
  <2>8. /\ p[n].num = compute_twr(list, F).num /\ p[n].den = compute_twr(list, F).den
        /\ p[n].pnl = list[n].assets - Total(UpTo(F, list[n].t)) - First(list, F).base
    BY <2>3, <2>5, <2>6, <2>a, <2>7, CurveCompounds
  <2>9. /\ twr_report(list, F).twr = compute_twr(list, F)
        /\ twr_report(list, F).pnl = list[n].assets - list[1].assets - Total(F)
    BY <2>5, <2>6, ReportIs
  <2>10. ASSUME \A f \in F : \E s1, s2 \in S : s1.t < f.t /\ f.t <= s2.t
         PROVE  twr_report(list, F).pnl = p[n].pnl
    <3>0. 1 \in 1 .. n /\ n \in 1 .. n
      BY <2>5, <2>6
    <3>1. \A s \in S : s.t \in Int /\ list[1].t <= s.t /\ s.t <= list[n].t
      <4> SUFFICES ASSUME NEW s \in S
                   PROVE  s.t \in Int /\ list[1].t <= s.t /\ s.t <= list[n].t
          OBVIOUS
      <4>1. PICK i \in 1 .. n : list[i] = s
        BY <2>6
      <4>2. (i = 1 \/ 1 < i) /\ (i = n \/ i < n)
        BY <2>6, <4>1
      <4>4. list[i].t \in Int /\ list[1].t \in Int /\ list[n].t \in Int
        BY <2>a, <3>0, <4>1
      <4>3. list[1].t <= list[i].t /\ list[i].t <= list[n].t
        BY <2>6, <3>0, <4>1, <4>2, <4>4
      <4> QED BY <4>1, <4>3, <4>4
    <3>2. list[1].t \in Int /\ list[n].t \in Int
      BY <2>a, <3>0
    <3>3. \A f \in F : list[1].t < f.t /\ f.t <= list[n].t
      <4> SUFFICES ASSUME NEW f \in F PROVE list[1].t < f.t /\ f.t <= list[n].t
          OBVIOUS
      <4>1. PICK s1 \in S, s2 \in S : s1.t < f.t /\ f.t <= s2.t
        BY <2>10
      <4>2. s1.t \in Int /\ s2.t \in Int /\ f.t \in Int /\ list[1].t <= s1.t /\ s2.t <= list[n].t
        BY <2>3, <3>1, <4>1
      <4> QED BY ONLY <3>2, <4>1, <4>2
    <3>4. UpTo(F, list[n].t) = F
      BY <3>3 DEF UpTo
    <3>5. UpTo(F, list[1].t) = {}
      BY <2>3, <3>2, <3>3 DEF UpTo
    <3>6. Total({}) = 0 /\ Total(F) \in Int
      BY <2>3, TotalInt, FS_EmptySet
    <3>7. list[1].assets \in Int /\ list[n].assets \in Int
      BY <2>a, <3>0
    <3>8. First(list, F).base = list[1].assets - 0
      BY <3>5, <3>6 DEF First
    <3>9. p[n].pnl = list[n].assets - Total(F) - (list[1].assets - 0)
      BY <2>8, <3>4, <3>8
    <3>10. list[n].assets - Total(F) - (list[1].assets - 0) = list[n].assets - list[1].assets - Total(F)
      BY ONLY <3>6, <3>7
    <3> QED BY <2>9, <3>9, <3>10
  <2> QED BY <2>7, <2>8, <2>9, <2>10 DEF S, F
<1>2. BookInit => BookInv /\ AmountInv
  BY InitBook, InitAmount
<1>3. BookInv /\ AmountInv /\ [BookNext]_bookVars => (BookInv /\ AmountInv)'
  BY StepBook, StepAmount
<1> QED BY <1>1, <1>2, <1>3, PTL DEF BookSpec

-----------------------------------------------------------------------------
(* The pages of a list.                                                    *)

\* The last page begins before the end of the list, and reaches it.
LEMMA LastPage ==
    ASSUME NEW n \in Nat, NEW size \in Nat \ {0}, n > 0,
           NEW k, k = total_pages(n, size)
    PROVE  k \in Nat \ {0} /\ (k - 1) * size < n /\ n <= (k - 1) * size + size
<1>1. k = (n + size - 1) \div size
  BY DEF total_pages
<1>2. k \in Int /\ size * k <= n + size - 1 /\ n + size - 1 < size * k + size
  BY <1>1
<1>3. size * k \in Int /\ (k - 1) * size = size * k - size
  BY <1>2
<1>4. k > 0
  <2> SUFFICES ASSUME k <= 0 PROVE FALSE
      BY <1>2
  <2>1. size * k <= 0
    BY <1>2
  <2> QED BY <1>2, <1>3, <2>1
<1> QED BY <1>2, <1>3, <1>4

LEMMA PageStart ==
    ASSUME NEW i \in Nat \ {0}, NEW size \in Nat \ {0}
    PROVE  Offset(i, size) = (i - 1) * size
<1>1. Max({i, 1}) = i
  <2>1. \E m \in {i, 1} : \A y \in {i, 1} : m >= y
    OBVIOUS
  <2>2. Max({i, 1}) \in {i, 1} /\ \A y \in {i, 1} : Max({i, 1}) >= y
    BY <2>1 DEF Max
  <2>3. Max({i, 1}) \in Int /\ Max({i, 1}) >= i /\ Max({i, 1}) >= 1
    BY <2>2
  <2> QED BY <2>2, <2>3
<1> QED BY <1>1 DEF Offset

LEMMA PageStarts ==
    ASSUME NEW n \in Nat, NEW size \in Nat \ {0}, n > 0,
           NEW k, k = total_pages(n, size), NEW i \in 1 .. k
    PROVE  /\ Offset(i, size) \in Nat /\ Offset(i, size) < n
           /\ i = 1 => Offset(i, size) = 0
           /\ i > 1 => Offset(i, size) = Offset(i - 1, size) + size
           /\ i = k => n <= Offset(i, size) + size
<1>1. k \in Nat \ {0} /\ (k - 1) * size < n /\ n <= (k - 1) * size + size
  BY LastPage
<1>2. i \in Nat \ {0} /\ Offset(i, size) = (i - 1) * size
  BY <1>1, PageStart
<1>3. (i - 1) * size \in Nat /\ (k - 1) * size \in Nat /\ (i - 1) * size <= (k - 1) * size
  <2>1. i - 1 \in Nat /\ k - 1 \in Nat /\ i - 1 <= k - 1
    BY <1>1, <1>2
  <2> QED BY <2>1
<1>4. i > 1 => Offset(i, size) = Offset(i - 1, size) + size
  <2> SUFFICES ASSUME i > 1 PROVE (i - 1) * size = ((i - 1) - 1) * size + size /\ i - 1 \in Nat \ {0}
      BY <1>2, PageStart
  <2> QED BY <1>2
<1>5. i = 1 => (i - 1) * size = 0
  OBVIOUS
<1> QED BY <1>1, <1>2, <1>3, <1>4, <1>5

\* The facts of OrderedIs in one.
IsOrder(S, n, list) ==
    /\ n \in Nat
    /\ \A i \in 1 .. n : list[i] \in S
    /\ \A i, j \in 1 .. n : list[i] = list[j] => i = j
    /\ \A i, j \in 1 .. n : i < j => list[i].t <= list[j].t
    /\ \A s \in S : \E i \in 1 .. n : list[i] = s

LEMMA OrdersAre ==
    ASSUME NEW S, IsFiniteSet(S), NEW n, n = Cardinality(S)
    PROVE  \A list \in Ordered(S) : IsOrder(S, n, list)
<1> SUFFICES ASSUME NEW list \in Ordered(S) PROVE IsOrder(S, n, list)
    OBVIOUS
<1> QED BY OrderedIs DEF IsOrder

\* Any two orders of the same rows show the same time at every place: if the
\* first showed an earlier one at the place i, its rows up to i would all have to
\* stand before i in the second.
LEMMA SameTimes ==
    ASSUME NEW S, IsFiniteSet(S), \A s \in S : s.t \in Int,
           NEW a \in Ordered(S), NEW b \in Ordered(S), NEW n, n = Cardinality(S),
           NEW i \in 1 .. n
    PROVE  a[i].t = b[i].t
<1> DEFINE Early(x, y) == x[i].t < y[i].t
<1>1. ASSUME NEW x \in Ordered(S), NEW y \in Ordered(S), Early(x, y) PROVE FALSE
  <2>0. IsOrder(S, n, x) /\ IsOrder(S, n, y)
    BY OrdersAre
  <2>x. /\ n \in Nat
        /\ \A k \in 1 .. n : x[k] \in S
        /\ \A k, j \in 1 .. n : x[k] = x[j] => k = j
        /\ \A k, j \in 1 .. n : k < j => x[k].t <= x[j].t
    BY ONLY <2>0 DEF IsOrder
  <2>y. /\ \A k \in 1 .. n : y[k] \in S
        /\ \A k, j \in 1 .. n : k < j => y[k].t <= y[j].t
        /\ \A s \in S : \E k \in 1 .. n : y[k] = s
    BY ONLY <2>0 DEF IsOrder
  <2>1. /\ n \in Nat
        /\ \A k \in 1 .. n : x[k] \in S /\ y[k] \in S
        /\ \A k, j \in 1 .. n : x[k] = x[j] => k = j
        /\ \A k, j \in 1 .. n : k < j => x[k].t <= x[j].t
        /\ \A k, j \in 1 .. n : k < j => y[k].t <= y[j].t
        /\ \A s \in S : \E k \in 1 .. n : y[k] = s
    BY <2>x, <2>y
  <2>2. \A k \in 1 .. n : x[k].t \in Int /\ y[k].t \in Int
    BY <2>1
  <2> DEFINE place(k) == CHOOSE j \in 1 .. n : y[j] = x[k]
             f == [k \in 1 .. i |-> place(k)]
  <2>3. ASSUME NEW k \in 1 .. i PROVE y[place(k)] = x[k] /\ place(k) \in 1 .. i - 1
    <3>1. k \in 1 .. n
      BY <2>1
    <3>2. \E j \in 1 .. n : y[j] = x[k]
      BY <2>1, <3>1
    <3>3. place(k) \in 1 .. n /\ y[place(k)] = x[k]
      BY <3>2
    <3> HIDE DEF place
    <3>4. x[k].t <= x[i].t
      <4>1. k = i \/ k < i
        BY <2>1, <3>1
      <4>2. CASE k = i
        BY <2>2, <4>2
      <4>3. CASE k < i
        BY <2>1, <3>1, <4>3
      <4> QED BY <4>1, <4>2, <4>3
    <3>5. y[place(k)].t < y[i].t
      BY <1>1, <2>2, <3>1, <3>3, <3>4
    <3>6. place(k) # i /\ ~(i < place(k))
      <4>1. place(k) # i
        BY <2>2, <3>3, <3>5
      <4>2. i < place(k) => y[i].t <= y[place(k)].t
        BY <2>1, <3>3
      <4>3. y[i].t \in Int /\ y[place(k)].t \in Int
        BY <2>2, <3>3
      <4> QED BY ONLY <3>5, <4>1, <4>2, <4>3
    <3> QED BY <2>1, <3>3, <3>6
  <2> HIDE DEF place
  <2>4. f \in [1 .. i -> 1 .. i - 1]
    BY <2>3
  <2>5. i \in Nat /\ i >= 1
    BY <2>1
  <2>6. /\ IsFiniteSet(1 .. i) /\ Cardinality(1 .. i) = i
        /\ IsFiniteSet(1 .. i - 1) /\ Cardinality(1 .. i - 1) = i - 1
    <3>1. IsFiniteSet(1 .. i) /\ Cardinality(1 .. i) = i
      BY <2>5, FS_Interval
    <3>2. i - 1 \in Int /\ (1 > i - 1 <=> i - 1 = 0)
      BY <2>5
    <3>3. IsFiniteSet(1 .. i - 1) /\ Cardinality(1 .. i - 1) = i - 1
      BY <3>2, FS_Interval
    <3> QED BY <3>1, <3>3
  <2>7. PICK k, j \in 1 .. i : k # j /\ f[k] = f[j]
    <3>1. Cardinality(1 .. i - 1) < Cardinality(1 .. i)
      BY <2>5, <2>6
    <3> HIDE DEF f
    <3> QED BY <2>4, <2>6, <3>1, FS_PigeonHole
  <2>8. x[k] = x[j]
    <3>1. place(k) = place(j)
      BY <2>7
    <3> QED BY <2>3, <3>1
  <2>9. k \in 1 .. n /\ j \in 1 .. n
    BY <2>1
  <2> QED BY <2>1, <2>7, <2>8, <2>9
<1>2. a[i].t \in Int /\ b[i].t \in Int
  BY OrdersAre DEF IsOrder
<1>3. ~Early(a, b) /\ ~Early(b, a)
  BY <1>1
<1> QED BY <1>2, <1>3

\* What has been shown after some pages.
WithPage(orders, size, page, G) ==
    {turn[1] \o dashboard_snapshots(turn[2], page, size).items : turn \in G \X orders}
IsTurned(orders, size, k, g) ==
    g = [page \in 0 .. k |-> IF page = 0 THEN {<< >>} ELSE WithPage(orders, size, page, g[page - 1])]

LEMMA ShownIs ==
    ASSUME NEW size, NEW k,
           k = total_pages(dashboard_snapshots(CHOOSE list \in Ordered(snaps) : TRUE, 1, size).total, size)
    PROVE  ShownSnapshots(size) = (CHOOSE g : IsTurned(Ordered(snaps), size, k, g))[k]
  BY DEF ShownSnapshots, Shown, IsTurned, WithPage

LEMMA TurnedExists ==
    ASSUME NEW orders, NEW size, NEW n \in Nat
    PROVE  \E g : IsTurned(orders, size, n, g)
<1> DEFINE Next1(G, page) == WithPage(orders, size, page, G)
           UpToPage(m, g) == \A page \in 0 .. m :
                                 g[page] = IF page = 0 THEN {<< >>} ELSE Next1(g[page - 1], page)
           Good(m) == \E g : g = [page \in 0 .. m |-> g[page]] /\ UpToPage(m, g)
           Bad == {m \in Nat : ~Good(m)}
<1> HIDE DEF Next1
<1>1. Bad = {}
  <2> SUFFICES ASSUME Bad # {} PROVE FALSE
      OBVIOUS
  <2>1. PICK m \in Bad : \A k \in Bad : m <= k
    BY LeastNatural
  <2>2. CASE m = 0
    <3> DEFINE g == [page \in 0 .. 0 |-> {<< >>}]
    <3>1. g = [page \in 0 .. 0 |-> g[page]] /\ UpToPage(0, g)
      OBVIOUS
    <3> QED BY <2>1, <2>2, <3>1
  <2>3. CASE m # 0
    <3>1. m \in Nat /\ m - 1 \in Nat /\ m - 1 \notin Bad
      <4>1. m \in Nat
        BY <2>1
      <4>2. m - 1 \in Nat /\ ~(m <= m - 1)
        BY <2>3, <4>1
      <4> HIDE DEF Bad
      <4> QED BY <2>1, <4>1, <4>2
    <3>2. PICK p : UpToPage(m - 1, p)
      BY <3>1
    <3> DEFINE q == [page \in 0 .. m |-> IF page = m THEN Next1(p[m - 1], m) ELSE p[page]]
    <3>3. \A page \in 0 .. m : page # m => q[page] = p[page]
      OBVIOUS
    <3>4. q[m] = Next1(p[m - 1], m)
      BY <2>3, <3>1
    <3>5. q = [page \in 0 .. m |-> q[page]]
      OBVIOUS
    <3> HIDE DEF q
    <3>6. ASSUME NEW page \in 0 .. m
          PROVE  q[page] = IF page = 0 THEN {<< >>} ELSE Next1(q[page - 1], page)
      <4>1. page # 0 => page - 1 \in 0 .. m /\ page - 1 # m /\ q[page - 1] = p[page - 1]
        BY <3>1, <3>3
      <4>2. CASE page = m
        BY <2>3, <3>4, <4>1, <4>2
      <4>3. CASE page # m
        <5>1. page \in 0 .. m - 1
          BY <3>1, <4>3
        <5>2. p[page] = IF page = 0 THEN {<< >>} ELSE Next1(p[page - 1], page)
          BY <3>2, <5>1
        <5> QED BY <3>3, <4>1, <4>3, <5>2
      <4> QED BY <4>2, <4>3
    <3> QED BY <2>1, <3>5, <3>6
  <2> QED BY <2>2, <2>3
<1>2. PICK g : g = [page \in 0 .. n |-> g[page]] /\ UpToPage(n, g)
  BY <1>1
<1>3. IsTurned(orders, size, n, g)
  BY <1>2 DEF IsTurned, Next1
<1> QED BY <1>3

\* Every one of the first m rows shown stands at its place in some order.
Lists(S, n, orders) == \A list \in orders : list \in Seq(S) /\ Len(list) = n
IsPart(S, orders, m, shown) ==
    /\ shown \in Seq(S) /\ Len(shown) = m
    /\ \A i \in 1 .. m : \E list \in orders : shown[i] = list[i]

\* A page more.
LEMMA PageStands ==
    ASSUME NEW orders, NEW n \in Nat, NEW m \in 0 .. n, NEW c \in m .. n,
           NEW S, Lists(S, n, orders), NEW shown, IsPart(S, orders, m, shown),
           NEW list \in orders, NEW more, more = shown \o SubSeq(list, m + 1, c)
    PROVE  IsPart(S, orders, c, more)
<1> DEFINE page == SubSeq(list, m + 1, c)
<1>1. m \in Nat /\ c \in Nat /\ m <= c /\ c <= n
  OBVIOUS
<1>0. /\ shown \in Seq(S) /\ Len(shown) = m
      /\ \A i \in 1 .. m : \E l \in orders : shown[i] = l[i]
  BY DEF IsPart
<1>2. page \in Seq(S) /\ Len(page) = c - m /\ \A i \in 1 .. c - m : page[i] = list[m + i]
  <2>0. list \in Seq(S) /\ Len(list) = n
    BY DEF Lists
  <2>1. \A i \in m + 1 .. c : i \in 1 .. Len(list)
    BY <1>1, <2>0
  <2>2. page = [i \in 1 .. (c - (m + 1) + 1) |-> list[i + (m + 1) - 1]]
    BY <1>1, <2>0, <2>1
  <2>3. c - (m + 1) + 1 = c - m /\ c - m \in Nat
    BY <1>1
  <2>4. page = [i \in 1 .. (c - m) |-> list[i + (m + 1) - 1]]
    BY <2>2, <2>3
  <2> HIDE DEF page
  <2>5. \A i \in 1 .. c - m : page[i] = list[m + i] /\ m + i \in 1 .. n
    <3> SUFFICES ASSUME NEW i \in 1 .. c - m PROVE page[i] = list[m + i] /\ m + i \in 1 .. n
        OBVIOUS
    <3>1. i + (m + 1) - 1 = m + i /\ m + i \in 1 .. n
      BY <1>1
    <3> QED BY <2>4, <3>1
  <2>6. \A i \in 1 .. n : list[i] \in S
    BY <2>0
  <2>7. page \in [1 .. (c - m) -> S]
    BY <2>4, <2>5, <2>6
  <2> QED BY <2>3, <2>5, <2>7
<1> HIDE DEF page
<1>3. more = shown \o page
  BY DEF page
<1>4. more \in Seq(S) /\ Len(more) = m + (c - m)
      /\ \A i \in 1 .. m + (c - m) : more[i] = IF i <= m THEN shown[i] ELSE page[i - m]
  <2>1. shown \in Seq(S) /\ Len(shown) = m /\ page \in Seq(S) /\ Len(page) = c - m
    BY <1>0, <1>2
  <2>2. /\ shown \o page \in Seq(S)
        /\ Len(shown \o page) = Len(shown) + Len(page)
        /\ \A i \in 1 .. Len(shown) + Len(page) :
               (shown \o page)[i] = IF i <= Len(shown) THEN shown[i] ELSE page[i - Len(shown)]
    BY ONLY <2>1, ConcatProperties, Zenon
  <2> QED BY ONLY <2>1, <2>2, <1>3, Zenon
<1>5. m + (c - m) = c
  BY <1>1
<1>6. ASSUME NEW i \in 1 .. c PROVE \E l \in orders : more[i] = l[i]
  <2>1. CASE i <= m
    BY <1>0, <1>1, <1>4, <1>5, <2>1
  <2>2. CASE ~(i <= m)
    <3>1. i - m \in 1 .. c - m /\ m + (i - m) = i
      BY <1>1, <2>2
    <3>2. more[i] = list[i]
      BY <1>2, <1>4, <1>5, <2>2, <3>1
    <3> QED BY <3>2
  <2> QED BY <2>1, <2>2
<1> QED BY <1>4, <1>5, <1>6 DEF IsPart

-----------------------------------------------------------------------------
(* Every snapshot has a time of the instance.                              *)

TimesInv == \A s \in snaps : s.t \in Times

LEMMA InitTimes == BookInit => TimesInv
  BY DEF BookInit, TimesInv

LEMMA StepTimes == TimesInv /\ [BookNext]_bookVars => TimesInv'
<1> SUFFICES ASSUME TimesInv, [BookNext]_bookVars PROVE TimesInv'
    OBVIOUS
<1>1. ASSUME NEW t \in Times, NEW a \in Assets, record_snapshot(t, a) PROVE TimesInv'
  <2> DEFINE new == NewRow(snaps, create_snapshot(t, a))
  <2>1. snaps' = snaps \cup {new} /\ new.t = t
    BY <1>1, StoredSnapshot DEF record_snapshot
  <2> HIDE DEF new
  <2> QED BY <2>1 DEF TimesInv
<1>2. CASE UNCHANGED snaps
  BY <1>2 DEF TimesInv
<1> QED BY <1>1, <1>2 DEF BookNext, bookVars, record_cash_flow, create_trade, StartDetection,
                          PairExplained, PairInferred, CreateFlow, DetectionFails

\* The range from the first to the last time leaves no snapshot out.
LEMMA RangeIsAll ==
    ASSUME TimesInv
    PROVE  Within(snaps, Earliest, Max(Times)) = snaps
<1> SUFFICES ASSUME NEW s \in snaps PROVE Earliest <= s.t /\ s.t <= Max(Times)
    BY DEF Within
<1>1. s.t \in Times /\ Times \in SUBSET Int /\ IsFiniteSet(Times)
  BY TimesAssumption DEF TimesInv
<1>2. Min(Times) <= s.t
  BY <1>1, FirstExists
<1> DEFINE T == {-t : t \in Times}
           neg == [t \in Times |-> -t]
<1>3. IsFiniteSet(T)
  <2>1. neg \in Surjection(Times, T)
    BY DEF Surjection
  <2> QED BY <1>1, <2>1, FS_Surjection
<1>4. T \in SUBSET Int /\ T # {}
  <2>1. \A t \in Times : -t \in Int
    BY <1>1
  <2>2. -(s.t) \in T
    BY <1>1
  <2> QED BY <2>1, <2>2
<1>5. PICK m \in T : \A y \in T : m <= y
  BY <1>3, <1>4, FirstExists
<1>6. -m \in Times /\ \A t \in Times : -m >= t
  <2>1. PICK u \in Times : m = -u
    BY <1>5
  <2>2. \A t \in Times : -u <= -t
    BY <1>5, <2>1
  <2>3. u \in Int /\ -m = u
    BY <1>1, <2>1
  <2> QED BY <1>1, <2>1, <2>2, <2>3
<1>7. \A t \in Times : Max(Times) >= t
  BY <1>6 DEF Max
<1>8. Max(Times) \in Int
  BY <1>1, <1>6 DEF Max
<1> QED BY <1>1, <1>2, <1>7, <1>8 DEF Earliest

\* The rows shown after some pages: as many as the pages hold.
Turned(S, orders, size, n, page, shown) ==
    IsPart(S, orders, IF page * size < n THEN page * size ELSE n, shown)

\* What the dashboard answers for a page.
Pages(size) ==
    \A list, page : dashboard_snapshots(list, page, size).items = Page(list, Offset(page, size), size)

LEMMA TurnedHolds ==
    ASSUME NEW S, NEW orders, NEW n \in Nat, n > 0, Lists(S, n, orders),
           NEW size \in Nat \ {0}, Pages(size), NEW k, k = total_pages(n, size),
           NEW g, IsTurned(orders, size, k, g), NEW shown \in g[k]
    PROVE  IsPart(S, orders, n, shown)
<1> DEFINE Good(page) == \A x \in g[page] : Turned(S, orders, size, n, page, x)
           Bad == {page \in 0 .. k : ~Good(page)}
<1>1. k \in Nat \ {0} /\ (k - 1) * size < n /\ n <= (k - 1) * size + size
  BY LastPage
<1>2. g = [page \in 0 .. k |->
              IF page = 0 THEN {<< >>} ELSE WithPage(orders, size, page, g[page - 1])]
  BY DEF IsTurned
<1>3. g[0] = {<< >>}
  BY <1>1, <1>2
<1>4. ASSUME NEW page \in 1 .. k
      PROVE  g[page] = WithPage(orders, size, page, g[page - 1])
  <2>1. page \in 0 .. k /\ page # 0
    BY <1>1
  <2> QED BY ONLY <1>2, <2>1
<1>5. Bad = {}
  <2> SUFFICES ASSUME Bad # {} PROVE FALSE
      OBVIOUS
  <2>1. Bad \in SUBSET Nat
    BY <1>1
  <2>2. PICK page \in Bad : \A q \in Bad : page <= q
    BY <2>1, LeastNatural
  <2>3. page # 0
    <3> SUFFICES Good(0)
        BY <2>2
    <3>1. 0 * size = 0
      OBVIOUS
    <3>2. << >> \in Seq(S) /\ Len(<< >>) = 0
      OBVIOUS
    <3> QED BY <1>3, <3>1, <3>2 DEF Turned, IsPart
  <2> HIDE DEF Good
  <2>4. page \in 1 .. k /\ page - 1 \in 0 .. k /\ ~(page <= page - 1)
    BY <1>1, <2>2, <2>3
  <2>5. Good(page - 1)
    BY <2>2, <2>4
  <2>6. Offset(page, size) = (page - 1) * size /\ Offset(page, size) \in Nat /\ Offset(page, size) < n
    <3>1. page \in Nat \ {0}
      BY <1>1, <2>4
    <3> QED BY <2>4, <3>1, PageStarts, PageStart
  <2>7. page * size = (page - 1) * size + size /\ page * size \in Nat
    BY <1>1, <2>4
  <2> DEFINE m == Offset(page, size)
             c == IF m + size < n THEN m + size ELSE n
  <2>8. m \in 0 .. n /\ c \in m .. n /\ m = (page - 1) * size /\ m < n
    BY <2>6
  <2>9. c = IF page * size < n THEN page * size ELSE n
    BY <2>7, <2>8
  <2>10. \A list \in orders : dashboard_snapshots(list, page, size).items = SubSeq(list, m + 1, c)
    <3> SUFFICES ASSUME NEW list \in orders
                 PROVE  dashboard_snapshots(list, page, size).items = SubSeq(list, m + 1, c)
        OBVIOUS
    <3>1. dashboard_snapshots(list, page, size).items = Page(list, m, size)
      BY DEF Pages
    <3>2. Len(list) = n
      BY DEF Lists
    <3>3. Page(list, m, size) = SubSeq(list, m + 1, IF m + size < Len(list) THEN m + size ELSE Len(list))
      BY DEF Page
    <3>4. (IF m + size < Len(list) THEN m + size ELSE Len(list)) = c
      BY <3>2
    <3> QED BY ONLY <3>1, <3>3, <3>4
  <2> HIDE DEF m, c
  <2>11. ASSUME NEW more \in g[page] PROVE Turned(S, orders, size, n, page, more)
    <3>0. more \in WithPage(orders, size, page, g[page - 1])
      BY <1>4, <2>4
    <3>1. PICK turn \in g[page - 1] \X orders :
              more = turn[1] \o dashboard_snapshots(turn[2], page, size).items
      BY <3>0 DEF WithPage
    <3>2. turn[1] \in g[page - 1] /\ turn[2] \in orders
      BY <3>1
    <3>3. more = turn[1] \o SubSeq(turn[2], m + 1, c)
      BY <2>10, <3>1, <3>2
    <3>4. IsPart(S, orders, m, turn[1])
      BY <2>5, <2>8, <3>2 DEF Good, Turned
    <3>5. IsPart(S, orders, c, more)
      BY <2>8, <3>2, <3>3, <3>4, PageStands
    <3> QED BY <2>9, <3>5 DEF Turned
  <2>12. Good(page)
    BY <2>11 DEF Good
  <2> QED BY <2>2, <2>12
<1>6. Good(k)
  BY <1>1, <1>5
<1>7. n <= k * size /\ k * size \in Nat
  BY <1>1
<1> QED BY <1>6, <1>7 DEF Turned

\* What is true of a list of all snapshots as it is shown.
ShownWell(shown) ==
    /\ Len(shown) = Cardinality(snaps)
    /\ \A i \in DOMAIN shown : shown[i] \in snaps
    /\ \A i, j \in DOMAIN shown : i < j => shown[i].t <= shown[j].t
    /\ \A s \in snaps : Lone(s, snaps) => Once(shown, s)

LEMMA PagesOf ==
    ASSUME BookInv, TimesInv, NEW size \in Nat \ {0}
    PROVE  /\ Cardinality(snaps) \in Nat
           /\ \A list, page : dashboard_snapshots(list, page, size)
                                 = [total |-> Cardinality(snaps),
                                    items |-> Page(list, Offset(page, size), size)]
<1>1. Cardinality(snaps) \in Nat
  BY FS_CardinalityType DEF BookInv, BookType
<1>2. count_snapshots(Earliest, Max(Times)) = Cardinality(snaps)
  BY RangeIsAll DEF count_snapshots
<1> QED BY <1>1, <1>2 DEF dashboard_snapshots, list_snapshot_records, Answer

LEMMA TurnedWell ==
    ASSUME BookInv, TimesInv, NEW size \in Nat \ {0},
           NEW g, IsTurned(Ordered(snaps), size, total_pages(Cardinality(snaps), size), g),
           NEW shown \in g[total_pages(Cardinality(snaps), size)]
    PROVE  ShownWell(shown)
<1> DEFINE orders == Ordered(snaps)
           n == Cardinality(snaps)
           k == total_pages(n, size)
<1>s. shown \in g[k]
  OBVIOUS
<1>t. IsTurned(orders, size, k, g)
  OBVIOUS
<1>1. IsFiniteSet(snaps) /\ (\A s \in snaps : s.t \in Int) /\ n \in Nat
  BY FS_CardinalityType DEF BookInv, BookType
<1>6. k \in Nat
  <2>1. CASE n = 0
    BY <2>1 DEF total_pages
  <2>2. CASE n # 0
    BY <1>1, <2>2, LastPage
  <2> QED BY <2>1, <2>2
<1>8. (\A list \in orders : IsOrder(snaps, n, list)) /\ Lists(snaps, n, orders)
  BY <1>1, OrdersAre, OrderedIs DEF Lists
<1>9. Pages(size)
  BY PagesOf DEF Pages
<1> HIDE DEF orders, n, k
<1>10. CASE n = 0
  <2>1. k = 0
    BY <1>10 DEF total_pages, k
  <2>2. g[0] = {<< >>}
    <3>1. 0 \in 0 .. k
      BY <2>1
    <3> QED BY <1>t, <3>1 DEF IsTurned
  <2>3. shown = << >>
    BY <1>s, <2>1, <2>2
  <2>4. snaps = {}
    BY <1>1, <1>10, FS_EmptySet DEF n
  <2> QED BY <1>10, <2>3, <2>4 DEF n, ShownWell
<1>11. CASE n # 0
  <2>1. n > 0
    BY <1>1, <1>11
  <2>2. /\ shown \in Seq(snaps) /\ Len(shown) = n
        /\ \A i \in 1 .. n : \E list \in orders : shown[i] = list[i]
    <3>1. IsPart(snaps, orders, n, shown)
      BY <1>1, <1>s, <1>t, <1>8, <1>9, <2>1, TurnedHolds DEF k
    <3> QED BY <3>1 DEF IsPart
  <2>3. DOMAIN shown = 1 .. n /\ \A i \in 1 .. n : shown[i] \in snaps
    BY <2>2
  <2>4. PICK list \in orders : TRUE
    <3>1. 1 \in 1 .. n
      BY <1>1, <2>1
    <3> QED BY <2>2, <3>1
  <2>5. \A i \in 1 .. n : shown[i].t = list[i].t
    <3> SUFFICES ASSUME NEW i \in 1 .. n PROVE shown[i].t = list[i].t
        OBVIOUS
    <3>1. PICK other \in orders : shown[i] = other[i]
      BY <2>2
    <3>2. other \in Ordered(snaps) /\ list \in Ordered(snaps) /\ i \in 1 .. Cardinality(snaps)
      BY DEF orders, n
    <3>3. other[i].t = list[i].t
      BY <1>1, <3>2, SameTimes
    <3> QED BY <3>1, <3>3
  <2>6. IsOrder(snaps, n, list)
    BY <1>8
  <2>7. \A i, j \in 1 .. n : i < j => shown[i].t <= shown[j].t
    BY <2>5, <2>6 DEF IsOrder
  <2>8. ASSUME NEW s \in snaps, Lone(s, snaps) PROVE Once(shown, s)
    <3>1. PICK j \in 1 .. n : list[j] = s
      BY <2>6 DEF IsOrder
    <3>2. shown[j] = s
      BY <2>3, <2>5, <2>8, <3>1 DEF Lone
    <3>3. ASSUME NEW i \in 1 .. n, shown[i] = s PROVE i = j
      <4>1. list[i] \in snaps /\ list[i].t = s.t
        BY <2>5, <2>6, <3>3 DEF IsOrder
      <4>2. list[i] = s
        BY <2>8, <4>1 DEF Lone
      <4> QED BY <2>6, <3>1, <4>2 DEF IsOrder
    <3>4. {i \in DOMAIN shown : shown[i] = s} = {j}
      BY <2>3, <3>2, <3>3
    <3> QED BY <3>4, FS_Singleton DEF Once
  <2> QED BY <2>2, <2>3, <2>7, <2>8 DEF n, ShownWell
<1> QED BY <1>10, <1>11

\* The snapshots of the dashboard, for every size of a page and however the
\* database orders the rows of one time at each request: the pages up to the last
\* one shown hold as many snapshots as there are, in the order of time, and every
\* one that shares its time with no other exactly once.
THEOREM LoneSnapshotsShown == BookSpec => [](\A size \in Nat \ {0} : SnapshotPages(size))
<1>1. BookInv /\ TimesInv => \A size \in Nat \ {0} : SnapshotPages(size)
  <2> SUFFICES ASSUME BookInv, TimesInv, NEW size \in Nat \ {0} PROVE SnapshotPages(size)
      OBVIOUS
  <2> DEFINE k == total_pages(Cardinality(snaps), size)
             g == CHOOSE h : IsTurned(Ordered(snaps), size, k, h)
  <2>1. k = total_pages(dashboard_snapshots(CHOOSE list \in Ordered(snaps) : TRUE, 1, size).total, size)
    BY PagesOf
  <2>2. ShownSnapshots(size) = g[k]
    <3> HIDE DEF k
    <3> QED BY <2>1, ShownIs
  <2>3. k \in Nat
    <3>1. Cardinality(snaps) \in Nat
      BY PagesOf
    <3>2. CASE Cardinality(snaps) = 0
      BY <3>2 DEF total_pages
    <3>3. CASE Cardinality(snaps) # 0
      BY <3>1, <3>3, LastPage
    <3> QED BY <3>2, <3>3
  <2>4. IsTurned(Ordered(snaps), size, k, g)
    <3> HIDE DEF k
    <3> QED BY <2>3, TurnedExists
  <2> HIDE DEF g
  <2>5. \A shown \in ShownSnapshots(size) : ShownWell(shown)
    BY <2>2, <2>4, TurnedWell
  <2> QED BY <2>5 DEF SnapshotPages, ShownWell
<1> QED BY <1>1, InitBook, StepBook, InitTimes, StepTimes, PTL DEF BookSpec

=============================================================================
