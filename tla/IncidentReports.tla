--------------------------- MODULE IncidentReports ---------------------------
(***************************************************************************)
(* RuntimeSafetyManager's ring of critical events                          *)
(* (app/services/runtime_safety.py) and DailyIncidentReporter              *)
(* (app/services/daily_report.py), driven by the two report routes of      *)
(* system_core: a request builds its text, checks the mark, waits for      *)
(* Telegram and marks the day or the week it has sent.                     *)
(* Time passes in half days; a report's text is what it counts.            *)
(***************************************************************************)
EXTENDS Integers, Sequences, FiniteSets

CONSTANTS
    Clients,     \* requests that may run at the same time
    RingSize,    \* max_events
    ServerShift, \* settings.server_timezone, in half days
    HostShift,   \* the zone of datetime.now() in the routes
    WeekLength,  \* days of a calendar week
    Span,        \* days a weekly report looks at
    MaxHalves,   \* bound on the time
    MaxIncidents \* bound on the events

ASSUME ReportAssumption ==
    /\ {RingSize, WeekLength, Span} \subseteq Nat \ {0}
    /\ {ServerShift, HostShift, MaxHalves, MaxIncidents} \subseteq Nat

VARIABLES
    halves,    \* the time
    events,    \* _events: when each event of the ring was created
    incidents, \* history: when each critical event happened
    marks,     \* _last_sent_day and _last_weekly_sent_key
    sending,   \* sending[c]: the request of c that awaits send_message
    delivered  \* history: the days and weeks of which Telegram took a report

reportVars == <<halves, events, incidents, marks, sending, delivered>>

NoDay == -1
NotSending == [kind |-> "none", day |-> NoDay, count |-> 0]

ReportInit ==
    /\ halves = 0
    /\ events = <<>> /\ incidents = <<>>
    /\ marks = [daily |-> NoDay, weekly |-> NoDay]
    /\ sending = [c \in Clients |-> NotSending]
    /\ delivered = {}

HalfDayPasses ==
    /\ halves < MaxHalves
    /\ halves' = halves + 1
    /\ UNCHANGED <<events, incidents, marks, sending, delivered>>

Ring(list) == IF Len(list) > RingSize THEN Tail(list) ELSE list

\* critical(): the halt and the alert are actions of TradingLoop.
Incident ==
    /\ Len(incidents) < MaxIncidents
    /\ events' = Ring(Append(events, halves))
    /\ incidents' = Append(incidents, halves)
    /\ UNCHANGED <<halves, marks, sending, delivered>>

ServerDay(t) == (t + ServerShift) \div 2
Today == (halves + HostShift) \div 2
events_on(list, day) == {i \in 1 .. Len(list) : ServerDay(list[i]) = day}

build_report(list, day) == Cardinality(events_on(list, day))
build_weekly_report(list, day) ==
    Cardinality(UNION {events_on(list, d) : d \in (day - Span + 1) .. day})
WeekKey(day) == day \div WeekLength

\* send_report_once_per_day up to the await.
SendDaily(c) ==
    /\ sending[c].kind = "none"
    /\ marks.daily # Today
    /\ sending' = [sending EXCEPT ![c] =
                       [kind |-> "daily", day |-> Today, count |-> build_report(events, Today)]]
    /\ UNCHANGED <<halves, events, incidents, marks, delivered>>

\* send_weekly_report_once_per_week up to the await.
SendWeekly(c) ==
    /\ sending[c].kind = "none"
    /\ marks.weekly # WeekKey(Today)
    /\ sending' = [sending EXCEPT ![c] =
                       [kind |-> "weekly", day |-> Today,
                        count |-> build_weekly_report(events, Today)]]
    /\ UNCHANGED <<halves, events, incidents, marks, delivered>>

KeyOf(s) == IF s.kind = "daily" THEN s.day ELSE WeekKey(s.day)
Marked(s) == [marks EXCEPT ![s.kind] = KeyOf(s)]

Delivered(c) ==
    /\ sending[c].kind # "none"
    /\ delivered' = delivered \cup {<<sending[c].kind, KeyOf(sending[c])>>}
    /\ marks' = Marked(sending[c])
    /\ sending' = [sending EXCEPT ![c] = NotSending]
    /\ UNCHANGED <<halves, events, incidents>>

\* send_message answers False (it catches its own errors): nothing is marked,
\* and the next request tries again.
NotDelivered(c) ==
    /\ sending[c].kind # "none"
    /\ sending' = [sending EXCEPT ![c] = NotSending]
    /\ UNCHANGED <<halves, events, incidents, marks, delivered>>

Reporting ==
    \/ HalfDayPasses
    \/ \E c \in Clients : SendDaily(c) \/ SendWeekly(c) \/ Delivered(c) \/ NotDelivered(c)

ReportNext == Incident \/ Reporting

ReportSpec == ReportInit /\ [][ReportNext]_reportVars

-----------------------------------------------------------------------------
\* A day or a week is marked as reported only by a report of it that Telegram
\* took, however requests overlap, fail and finish in another order: a report
\* that got lost is sent again by the next request.
MarkedIsDelivered ==
    \A kind \in {"daily", "weekly"} :
        marks[kind] # NoDay => <<kind, marks[kind]>> \in delivered

\* The ring holds the newest events, as many as it may: a report of the day
\* counts every incident of the day unless more than max_events have followed.
ReportCountsIncidents ==
    LET lost == IF Len(incidents) > RingSize THEN Len(incidents) - RingSize ELSE 0
    IN  \A day \in {ServerDay(h) : h \in 0 .. MaxHalves} :
            build_report(events, day) =
                Cardinality({i \in events_on(incidents, day) : i > lost})

\* The incident reports: complete while the ring lasts, marked once delivered.
IncidentsReported == MarkedIsDelivered /\ ReportCountsIncidents

=============================================================================
