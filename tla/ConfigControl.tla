----------------------------- MODULE ConfigControl ----------------------------
(***************************************************************************)
(* Settings: ConfigManager (core/config.py) holds them in memory,          *)
(* ConfigRepository (repositories/config.py) stores them with a history,   *)
(* ConfigService (services/config_service.py) falls back to memory when    *)
(* the database fails, TelegramCommandService keeps a change of a risk key *)
(* until /confirm, and a new liquidity threshold, a rebalance and a start  *)
(* re-select the universe (main.py, services/universe_bootstrap.py).  The  *)
(* routes are plain functions, so FastAPI runs each request in a thread of *)
(* its pool: one action is what a thread does between two waits for the    *)
(* database.                                                               *)
(***************************************************************************)
EXTENDS Integers

CONSTANTS
    Threads,      \* pool threads that serve requests, the startup task
    Keys,         \* keys a request may name
    Known,        \* the keys of _rules and the strategy overrides
    ReadOnly,     \* daily_base_capital
    ConfirmKeys,  \* confirm_required_keys
    WebOnly,      \* telegram_blocked_keys and strategy overrides
    Threshold,    \* liquidity_threshold
    Values,       \* values a request may carry
    Allowed,      \* the values that pass the rule of a key
    Default,      \* the values of a new ConfigManager, Absent for a key without one
    Symbols,      \* symbols of the universe that may be active
    Turnover,     \* average daily value of a symbol
    MaxCalls,     \* bound on the requests
    MaxFaults     \* bound on database failures and restarts

Absent == -1    \* no value in memory, no row in a table
Removed == 0    \* the row of a key that is no longer known
NoKey == "none"

ASSUME KeysAssumption ==
    /\ ReadOnly \cup ConfirmKeys \cup WebOnly \cup {Threshold} \subseteq Known
    /\ Known \subseteq Keys /\ NoKey \notin Keys
    /\ Values \subseteq Nat /\ Allowed \in [Known -> SUBSET Values]
    /\ Default \in [Known -> Nat \cup {Absent}] /\ Turnover \in [Symbols -> Nat]
    /\ \A k \in Known : Default[k] # Absent => Default[k] \in Allowed[k]
    /\ Default[Threshold] # Absent

VARIABLES
    memory,      \* ConfigManager._values
    db,          \* the config table, Absent where a key has none
    newest,      \* new_value of a key's last config_history row, or Absent
    active,      \* is_active of the symbols
    pendingKey,  \* RuntimeState.pending_change.key, or NoKey
    pendingVal,  \* RuntimeState.pending_change.value
    pc,          \* where a thread is
    key, val,    \* the arguments of its config.set
    confirms,    \* whether it runs _confirm_pending
    old,         \* the row it read
    threshold,   \* threshold_eok of its recomputation
    rows,        \* the symbols it read as active
    alone,       \* history: no other call for the key during this one
    agreed,      \* history: the last write of a key was alone and without failure
    selected,    \* history: so was the last recomputation, and nobody has
                 \* written is_active since
    calls, faults

config == <<memory, db, newest>>
pending == <<pendingKey, pendingVal>>
locals == <<key, val, confirms, old, threshold, rows>>
bounds == <<calls, faults>>
vars == <<config, active, pending, pc, locals, alone, agreed, selected, bounds>>

Over(x) == {s \in Symbols : Turnover[s] >= x}

Busy(k) == {t \in Threads : pc[t] # "idle" /\ key[t] = k}

Init ==
    /\ memory = Default
    /\ db = [k \in Keys |-> IF k \in Known THEN Absent ELSE Removed]
    /\ newest = [k \in Keys |-> Absent]
    /\ active = Over(Default[Threshold])
    /\ pendingKey = NoKey /\ pendingVal = 0
    /\ pc = [t \in Threads |-> "idle"]
    /\ key = [t \in Threads |-> NoKey]
    /\ val = [t \in Threads |-> 0]
    /\ confirms = [t \in Threads |-> FALSE]
    /\ old = [t \in Threads |-> Absent]
    /\ threshold = [t \in Threads |-> 0]
    /\ rows = [t \in Threads |-> {}]
    /\ alone = [t \in Threads |-> TRUE]
    /\ agreed = [k \in Known |-> TRUE]
    /\ selected = TRUE
    /\ calls = 0 /\ faults = 0

-----------------------------------------------------------------------------
(* ConfigManager.set.                                                      *)

\* The checks of ConfigManager.set for a request (allow_read_only is FALSE).
Accepts(k, v) == k \in Known \ ReadOnly /\ v \in Allowed[k]

-----------------------------------------------------------------------------
(* Requests.                                                               *)

\* Two calls for a key at a time: neither is alone.
Joins(t, k) ==
    alone' = [u \in Threads |-> IF u = t THEN Busy(k) = {} ELSE alone[u] /\ u \notin Busy(k)]

Call(t, k, v, confirm) ==
    /\ pc[t] = "idle" /\ calls < MaxCalls
    /\ calls' = calls + 1
    /\ pc' = [pc EXCEPT ![t] = "read"]
    /\ key' = [key EXCEPT ![t] = k]
    /\ val' = [val EXCEPT ![t] = v]
    /\ confirms' = [confirms EXCEPT ![t] = confirm]
    /\ Joins(t, k)
    /\ UNCHANGED <<config, active, old, threshold, rows, agreed, selected, faults>>

\* POST /config and POST /dashboard/settings
WebSet(t) ==
    \E k \in Keys, v \in Values : Call(t, k, v, FALSE) /\ UNCHANGED pending

\* /set of a key that needs no confirmation
TelegramSet(t) ==
    \E k \in Keys \ (WebOnly \cup ConfirmKeys), v \in Values :
        Call(t, k, v, FALSE) /\ UNCHANGED pending

\* /set of a risk key: remembered, and not checked yet
TelegramAsk ==
    /\ calls < MaxCalls /\ calls' = calls + 1
    /\ \E k \in ConfirmKeys, v \in Values : pendingKey' = k /\ pendingVal' = v
    /\ UNCHANGED <<config, active, pc, locals, alone, agreed, selected, faults>>

\* /confirm
Confirm(t) ==
    /\ pendingKey # NoKey
    /\ Call(t, pendingKey, pendingVal, TRUE)
    /\ UNCHANGED pending

-----------------------------------------------------------------------------
(* ConfigService.set and ConfigRepository.set.                             *)

\* The session is opened and the row read.
ReadRow(t) ==
    /\ pc[t] = "read"
    /\ old' = [old EXCEPT ![t] = db[key[t]]]
    /\ pc' = [pc EXCEPT ![t] = "set"]
    /\ UNCHANGED <<config, active, pending, key, val, confirms, threshold, rows, alone,
                   agreed, selected, bounds>>

\* manager.set raises: the session rolls back, a pending change stays.
Reject(t) ==
    /\ pc[t] = "set" /\ ~Accepts(key[t], val[t])
    /\ pc' = [pc EXCEPT ![t] = "idle"]
    /\ UNCHANGED <<config, active, pending, locals, alone, agreed, selected, bounds>>

SetMemory(t) ==
    /\ pc[t] = "set" /\ Accepts(key[t], val[t])
    /\ memory' = [memory EXCEPT ![key[t]] = val[t]]
    /\ pc' = [pc EXCEPT ![t] = "commit"]
    /\ UNCHANGED <<db, newest, active, pending, locals, alone, agreed, selected, bounds>>

\* Mutant: the row is compared with memory, which has the value already.
MutStored(t) == IF memory[key[t]] # val[t] THEN val[t] ELSE db[key[t]]

\* An UPDATE is sent only where the value differs from the one read.
Stored(t) == IF old[t] # val[t] THEN val[t] ELSE db[key[t]]

Commit(t) ==
    /\ pc[t] = "commit"
    /\ old[t] = Absent => db[key[t]] = Absent
    /\ db' = [db EXCEPT ![key[t]] = Stored(t)]
    /\ newest' = [newest EXCEPT ![key[t]] = val[t]]
    /\ agreed' = [agreed EXCEPT ![key[t]] = alone[t]]
    /\ pc' = [pc EXCEPT ![t] = "changed"]
    /\ UNCHANGED <<memory, active, pending, locals, alone, selected, bounds>>

\* Mutant: the fallback writes without the checks.
MutFallback(t) ==
    /\ memory' = IF key[t] \in Known THEN [memory EXCEPT ![key[t]] = val[t]] ELSE memory
    /\ agreed' = IF key[t] \in Known THEN [agreed EXCEPT ![key[t]] = FALSE] ELSE agreed
    /\ pc' = [pc EXCEPT ![t] = "changed"]
    /\ UNCHANGED <<db, newest, active, pending, locals, alone, selected, calls>>

\* The handler of SQLAlchemyError: the value is set in memory only.
Fallback(t) ==
    /\ IF Accepts(key[t], val[t])
       THEN /\ memory' = [memory EXCEPT ![key[t]] = val[t]]
            /\ agreed' = [agreed EXCEPT ![key[t]] = FALSE]
            /\ pc' = [pc EXCEPT ![t] = "changed"]
       ELSE /\ pc' = [pc EXCEPT ![t] = "idle"]
            /\ UNCHANGED <<memory, agreed>>
    /\ UNCHANGED <<db, newest, active, pending, locals, alone, selected, calls>>

DatabaseFails(t) ==
    /\ pc[t] \in {"read", "commit"}
    /\ faults < MaxFaults /\ faults' = faults + 1
    /\ Fallback(t)

\* Another thread inserted the row first: IntegrityError.
InsertFails(t) ==
    /\ pc[t] = "commit" /\ old[t] = Absent /\ db[key[t]] # Absent
    /\ Fallback(t)
    /\ UNCHANGED faults

-----------------------------------------------------------------------------
(* _handle_config_changed and the end of the request.                      *)

\* config_manager.get("liquidity_threshold"), not the value of this call
StartRecompute(t) ==
    /\ pc[t] = "changed" /\ key[t] = Threshold
    /\ threshold' = [threshold EXCEPT ![t] = memory[Threshold]]
    /\ pc' = [pc EXCEPT ![t] = "rows"]
    /\ UNCHANGED <<config, active, pending, key, val, confirms, old, rows, alone, agreed,
                   selected, bounds>>

ReadRows(t) ==
    /\ pc[t] = "rows"
    /\ rows' = [rows EXCEPT ![t] = active]
    /\ pc' = [pc EXCEPT ![t] = "select"]
    /\ UNCHANGED <<config, active, pending, key, val, confirms, old, threshold, alone, agreed,
                   selected, bounds>>

\* Mutant: symbols are switched on and never off.
MutSelection(t) ==
    active \cup Over(threshold[t])

\* should_activate of every symbol; only rows that differ are written.
Selection(t) ==
    (active \cup (Over(threshold[t]) \ rows[t])) \ (rows[t] \ Over(threshold[t]))

CommitSelection(t) ==
    /\ pc[t] = "select"
    /\ active' = Selection(t)
    /\ selected' = alone[t]
    /\ pc' = [pc EXCEPT ![t] = "end"]
    /\ UNCHANGED <<config, pending, locals, alone, agreed, bounds>>

\* The hook's own exception handler only logs.
RecomputeFails(t) ==
    /\ pc[t] \in {"rows", "select"}
    /\ faults < MaxFaults /\ faults' = faults + 1
    /\ selected' = FALSE
    /\ pc' = [pc EXCEPT ![t] = "end"]
    /\ UNCHANGED <<config, active, pending, locals, alone, agreed, calls>>

\* The end of a rebalance and of the startup task select again, at the threshold
\* in memory then.
Reselect(t) ==
    /\ pc[t] = "idle" /\ calls < MaxCalls
    /\ calls' = calls + 1
    /\ threshold' = [threshold EXCEPT ![t] = memory[Threshold]]
    /\ pc' = [pc EXCEPT ![t] = "rows"]
    /\ key' = [key EXCEPT ![t] = Threshold]
    /\ confirms' = [confirms EXCEPT ![t] = FALSE]
    /\ Joins(t, Threshold)
    /\ UNCHANGED <<config, active, pending, val, old, rows, agreed, selected, faults>>

\* POST /system/universe/upsert writes the is_active of the request.
Upsert ==
    /\ calls < MaxCalls /\ calls' = calls + 1
    /\ \E s \in Symbols : active' \in {active \cup {s}, active \ {s}} \ {active}
    /\ selected' = FALSE
    /\ alone' = [t \in Threads |-> alone[t] /\ pc[t] # "select"]
    /\ UNCHANGED <<config, pending, pc, locals, agreed, faults>>

\* _confirm_pending clears whatever is pending now.
Finish(t) ==
    /\ \/ pc[t] = "end"
       \/ pc[t] = "changed" /\ key[t] # Threshold
    /\ pendingKey' = IF confirms[t] THEN NoKey ELSE pendingKey
    /\ pendingVal' = IF confirms[t] THEN 0 ELSE pendingVal
    /\ pc' = [pc EXCEPT ![t] = "idle"]
    /\ UNCHANGED <<config, active, locals, alone, agreed, selected, bounds>>

-----------------------------------------------------------------------------
(* The process dies and starts again.                                      *)

\* load_into_manager skips keys that are no longer known; lifespan selects before
\* the first request.
load_from_db == [k \in Known |-> IF db[k] = Absent THEN Default[k] ELSE db[k]]

Restart ==
    /\ faults < MaxFaults /\ faults' = faults + 1
    /\ \/ memory' = load_from_db /\ UNCHANGED agreed
       \/ memory' = Default /\ agreed' = [k \in Known |-> agreed[k] /\ db[k] = Absent]
    /\ active' = Over(memory'[Threshold])
    /\ selected' = TRUE
    /\ pc' = [t \in Threads |-> "idle"]
    /\ pendingKey' = NoKey /\ pendingVal' = 0
    /\ UNCHANGED <<db, newest, locals, alone, calls>>

Next ==
    \/ \E t \in Threads :
        \/ WebSet(t) \/ TelegramSet(t) \/ Confirm(t)
        \/ ReadRow(t) \/ Reject(t) \/ SetMemory(t) \/ Commit(t)
        \/ DatabaseFails(t) \/ InsertFails(t)
        \/ StartRecompute(t) \/ ReadRows(t) \/ CommitSelection(t) \/ RecomputeFails(t)
        \/ Reselect(t) \/ Finish(t)
    \/ TelegramAsk
    \/ Upsert
    \/ Restart

Spec == Init /\ [][Next]_vars

-----------------------------------------------------------------------------
\* ConfigService.set keeps memory, table and history together: after a write
\* that overlapped no other write of the key and met no database failure, and
\* until the next one begins, memory holds the stored value and the newest
\* history row tells it, over every restart that can read the table.
SettingsAgree ==
    \A k \in Known : (agreed[k] /\ Busy(k) = {}) =>
        /\ db[k] # Absent => memory[k] = db[k] /\ newest[k] = db[k]
        /\ db[k] = Absent => memory[k] = Default[k]

\* No path stores a value its rule forbids, unchecked fallbacks and the unchecked
\* pending change included: load_from_db, which does not catch ValueError, can
\* always start the process.
StoredIsValid ==
    /\ \A k \in Known : memory[k] \in Allowed[k] \/ memory[k] = Default[k]
    /\ \A k \in Known : db[k] # Absent => db[k] \in Allowed[k]
    /\ \A k \in Keys \ Known : db[k] = Removed
    /\ \A k \in ReadOnly : db[k] = Absent /\ memory[k] = Default[k]

\* The active symbols are the ones over the threshold in memory from a
\* recomputation on that overlapped no other and no change of the threshold, did
\* not fail and saw no is_active written behind its reads, until a new one begins
\* or a request writes is_active: whoever recomputes, a change of the setting, a
\* rebalance or a start.
ActiveMatchesThreshold ==
    (selected /\ Busy(Threshold) = {}) => active = Over(memory[Threshold])

=============================================================================
