--------------------------- MODULE LivePreflight ---------------------------
(***************************************************************************)
(* LivePreflightService (app/services/live_preflight.py) with the live     *)
(* connectivity check (app/services/runtime_factory.py): what an operator  *)
(* asks before trading live.  The state of the runtime is read at once,    *)
(* then the broker is asked three times; a rehearsal goes on to run        *)
(* cycles.  Incidents, of its cycles and of others, halt the runtime       *)
(* meanwhile, and the operator resumes it.                                 *)
(***************************************************************************)
EXTENDS IncidentReports

CONSTANTS
    Stages,     \* names of stages a request may give
    MaxCycles,  \* bound on the cycles of a rehearsal
    MaxChecks   \* bound on the requests

ASSUME CyclesAssumption == MaxCycles \in Nat /\ MaxChecks \in Nat /\ Stages \subseteq STRING

VARIABLES
    mode,     \* settings.trading_mode is live
    halted,   \* RuntimeState.halted
    running,  \* the background task runs
    tickers,  \* tickers_provider() gives some
    check,    \* the request: where it waits and what it has found
    own,      \* history: incidents of the request's cycles
    verdict,  \* history: the last answer, and the incidents before its request
    checks    \* requests so far

preflightVars == <<mode, halted, running, tickers, check, own, verdict, checks>>

NoCheck == [pc |-> "idle", failed |-> {}, conn |-> TRUE, stage |-> "none",
            cycles |-> 0, errors |-> 0, since |-> 0]
NoVerdict == [ok |-> FALSE, since |-> 0, own |-> 0, conn |-> TRUE, stage |-> "none"]

PreflightInit ==
    /\ mode \in BOOLEAN /\ running \in BOOLEAN /\ tickers \in BOOLEAN
    /\ halted = FALSE
    /\ check = NoCheck
    /\ own = 0 /\ checks = 0
    /\ verdict = NoVerdict

-----------------------------------------------------------------------------
(* The world around.                                                       *)

\* critical() of a loop or of the order service.
OthersFail ==
    /\ Incident
    /\ halted' = TRUE
    /\ UNCHANGED <<mode, running, tickers, check, own, verdict, checks>>

OperatorResumes ==
    /\ halted /\ halted' = FALSE
    /\ UNCHANGED <<reportVars, mode, running, tickers, check, own, verdict, checks>>

LoopsToggled ==
    /\ running' = ~running
    /\ UNCHANGED <<reportVars, mode, halted, tickers, check, own, verdict, checks>>

-----------------------------------------------------------------------------
(* run().                                                                  *)

\* An unknown stage has the policy of the market.
policy_for(stage) ==
    IF stage = "post_market" THEN {}
    ELSE {"background_running", "runtime_tickers_present", "kiwoom_connectivity"}
Required(stage) == {"trading_mode_live", "runtime_not_halted"} \cup policy_for(stage)

\* Mutant: a halted runtime is not looked at.
MutFailedNow ==
    (IF mode THEN {} ELSE {"trading_mode_live"})
    \cup (IF running THEN {} ELSE {"background_running"})
    \cup (IF tickers THEN {} ELSE {"runtime_tickers_present"})

FailedNow ==
    (IF mode THEN {} ELSE {"trading_mode_live"})
    \cup (IF halted THEN {"runtime_not_halted"} ELSE {})
    \cup (IF running THEN {} ELSE {"background_running"})
    \cup (IF tickers THEN {} ELSE {"runtime_tickers_present"})

\* What can be known without the broker is read before the first await.
run(stage, cycles) ==
    /\ check.pc = "idle" /\ checks < MaxChecks
    /\ checks' = checks + 1
    /\ check' = [NoCheck EXCEPT !.pc = "token", !.stage = stage, !.cycles = cycles,
                                !.failed = FailedNow, !.since = Len(incidents)]
    /\ own' = 0
    /\ verdict' = NoVerdict
    /\ UNCHANGED <<reportVars, mode, halted, running, tickers>>

\* POST /system/live/preflight and POST /system/live/rehearsal.
live_preflight_check(stage) == run(stage, 0)
live_rehearsal(stage, n) == run(stage, IF n > 1 THEN n ELSE 1)

Conclude(ok) ==
    verdict' = [ok |-> ok, since |-> check.since, own |-> own', conn |-> check'.conn,
                stage |-> check.stage]

\* The checks are complete: a rehearsal goes on if all that is required passed.
Judge(conn) ==
    LET failed == check.failed \cup (IF conn THEN {} ELSE {"kiwoom_connectivity"})
        ok == failed \cap Required(check.stage) = {}
    IN  IF ok /\ check.cycles > 0
        THEN /\ check' = [check EXCEPT !.pc = "cycle", !.conn = conn, !.failed = failed]
             /\ UNCHANGED verdict
        ELSE /\ check' = [NoCheck EXCEPT !.conn = conn]
             /\ Conclude(ok)

\* run_live_connectivity_check: token and server time; a failure is noted and
\* the next question asked all the same.
LineAnswers(ok) ==
    /\ check.pc \in {"token", "time"}
    /\ check' = [check EXCEPT !.pc = IF @ = "token" THEN "time" ELSE "price",
                              !.conn = @ /\ ok]
    /\ UNCHANGED <<reportVars, mode, halted, running, tickers, own, verdict, checks>>

\* The price: without one, once more for the reference stock, unless it was
\* asked for already.
PriceMissing ==
    /\ check.pc = "price"
    /\ check' = [check EXCEPT !.pc = "reference"]
    /\ UNCHANGED <<reportVars, mode, halted, running, tickers, own, verdict, checks>>

PriceAnswers(ok) ==
    /\ check.pc \in {"price", "reference"}
    /\ UNCHANGED own
    /\ Judge(check.conn /\ ok)
    /\ UNCHANGED <<reportVars, mode, halted, running, tickers, checks>>

-----------------------------------------------------------------------------
(* run_rehearsal(): run_cycle catches its errors and reports an incident.  *)

CycleDone(errors) ==
    IF check.cycles > 1
    THEN /\ check' = [check EXCEPT !.cycles = @ - 1, !.errors = errors]
         /\ UNCHANGED verdict
    ELSE /\ check' = [NoCheck EXCEPT !.conn = check.conn]
         /\ Conclude(errors = 0)

CycleSucceeds ==
    /\ check.pc = "cycle"
    /\ UNCHANGED own
    /\ CycleDone(check.errors)
    /\ UNCHANGED <<reportVars, mode, halted, running, tickers, checks>>

CycleFails ==
    /\ check.pc = "cycle"
    /\ Incident
    /\ halted' = TRUE
    /\ own' = own + 1
    /\ CycleDone(check.errors + 1)
    /\ UNCHANGED <<mode, running, tickers, checks>>

PreflightNext ==
    \/ OthersFail \/ OperatorResumes \/ LoopsToggled
    \/ \E stage \in Stages : live_preflight_check(stage)
    \/ \E stage \in Stages, n \in 0 .. MaxCycles : live_rehearsal(stage, n)
    \/ PriceMissing
    \/ \E ok \in BOOLEAN : LineAnswers(ok) \/ PriceAnswers(ok)
    \/ CycleSucceeds \/ CycleFails

\* Reports are asked for while a preflight waits, about incidents that halt.
OperatorNext == PreflightNext \/ (Reporting /\ UNCHANGED preflightVars)

OperatorSpec ==
    /\ ReportInit /\ PreflightInit
    /\ [][OperatorNext]_<<reportVars, preflightVars>>

-----------------------------------------------------------------------------
\* A preflight or a rehearsal that passes hides nothing it could know: a halt
\* that is older than the request fails it, whatever is resumed or fails while
\* it waits; no cycle of its own has failed; and outside of the post market
\* stage the broker has answered every question.
PassHidesNothing ==
    verdict.ok =>
        /\ mode
        /\ halted => Len(incidents) > verdict.since
        /\ verdict.own = 0
        /\ verdict.stage # "post_market" => verdict.conn

\* What the operator is told: incidents in the reports, halts by the preflight.
OperatorIsInformed == IncidentsReported /\ PassHidesNothing

=============================================================================
