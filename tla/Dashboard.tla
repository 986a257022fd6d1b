------------------------------ MODULE Dashboard -------------------------------
(***************************************************************************)
(* The dashboard's metrics over the audit trail: counts of two adjacent    *)
(* days that Promise.all sends at once and the database answers one by     *)
(* one, and the change between the days in percent.                        *)
(*                                                                         *)
(* A reader writes nothing, so a state has either a walk over the trail or *)
(* a metrics request.  Failed executions are counted and compared the way  *)
(* events are.  totalEvents, activeWorkflows and tenantCount are single    *)
(* counts that are compared with nothing.  All these are left out.         *)
(***************************************************************************)
EXTENDS Audit, Integers

CONSTANT Day   \* DAY_MS

ASSUME DashboardAssumption == Day \in Nat \ {0}

VARIABLE metrics   \* a caller of GET dashboard/metrics

dashboardVars == <<auditVars, metrics>>

(***************************************************************************)
(* Types.  asked is the time the handler took, counted the events a count  *)
(* has found, start those that were there when the request began.          *)
(***************************************************************************)
Counter == {"last24h", "prev24h"}

MetricsState == [pc      : {"idle", "counting", "answered", "refused"},
                 tenant  : Header,
                 asked   : Times,
                 pending : SUBSET Counter,
                 counted : [Counter -> SUBSET Records],
                 start   : SUBSET Records]

\* Type invariant of the trail with its readers.
DashboardTypeOK ==
  /\ AuditTypeOK
  /\ metrics \in MetricsState

NoMetrics == [pc |-> "idle", tenant |-> NoTenant, asked |-> 0, pending |-> {},
              counted |-> [c \in Counter |-> {}], start |-> {}]

DashboardInit ==
  /\ AuditInit
  /\ metrics = NoMetrics

(***************************************************************************)
(* GetDashboardMetricsHandler.                                             *)
(***************************************************************************)
Since(t) == {e \in Records : record[e].occurredAt >= t}

\* Mutant: the previous day ends with, not before, the start of the last.
PreviousDayClosed(asked) == Since(asked - 2 * Day) \ Since(asked - Day + 1)

LastDay(asked) == Since(asked - Day)

PreviousDay(asked) == Since(asked - 2 * Day) \ Since(asked - Day)

\* The events a count finds.
Found(c) ==
  Trail(metrics.tenant) \cap
    (IF c = "last24h" THEN LastDay(metrics.asked) ELSE PreviousDay(metrics.asked))

ReadersIdle == metrics.pc = "idle" /\ walk.pc = "idle"

BeginMetrics ==
  /\ ReadersIdle
  /\ \E token \in Tokens, tenant \in Header :
       metrics' = IF Refusal(token, tenant, "viewer") = {}
                  THEN [NoMetrics EXCEPT !.pc = "counting", !.tenant = tenant, !.asked = now,
                                         !.pending = Counter, !.start = Trail(tenant)]
                  ELSE [metrics EXCEPT !.pc = "refused"]
  /\ UNCHANGED auditVars

\* One of the counts is answered; with the last, so is the request.
Count(c) ==
  /\ c \in metrics.pending
  /\ metrics' = [metrics EXCEPT !.pending = @ \ {c}, !.counted[c] = Found(c),
                                !.pc = IF metrics.pending = {c} THEN "answered" ELSE @]
  /\ UNCHANGED auditVars

\* GetEventSeriesHandler selects ae."occurredAt", quoted, of a table whose
\* column is occurred_at: a caller the guards let pass is answered 500.
GetEventSeries ==
  /\ ReadersIdle
  /\ metrics' = [metrics EXCEPT !.pc = "refused"]
  /\ UNCHANGED auditVars

(***************************************************************************)
(* percentChange, in tenths of a percent.                                  *)
(***************************************************************************)

\* Mutant: whole percents.
PercentChangeWhole(current, previous) ==
  LET denominator == IF previous > 1 THEN previous ELSE 1
  IN  10 * ((200 * (current - previous) + denominator) \div (2 * denominator))

\* Math.round rounds halves up.  The arithmetic is exact here, in floating point
\* in the code.
PercentChange(current, previous) ==
  LET denominator == IF previous > 1 THEN previous ELSE 1
  IN  (2000 * (current - previous) + denominator) \div (2 * denominator)

-------------------------------------------------------------------------------
DashboardNext ==
  \/ Recording /\ UNCHANGED metrics
  \/ ReadersIdle /\ BeginWalk /\ UNCHANGED metrics
  \/ ReadPage /\ UNCHANGED metrics
  \/ CountRows /\ UNCHANGED metrics
  \/ BeginMetrics
  \/ \E c \in Counter : Count(c)
  \/ GetEventSeries

DashboardSpec == DashboardInit /\ [][DashboardNext]_dashboardVars

-------------------------------------------------------------------------------
(***************************************************************************)
(* Properties.                                                             *)
(***************************************************************************)

\* The counts of the two days never count an event twice, although events
\* arrive between the counts and may lie on the boundary; together they miss no
\* event of the two days that was in the trail when the request began, and
\* count only events of one tenant, the one the request's header names.
DaysDisjointAndComplete ==
  metrics.pc = "answered" =>
    LET last == metrics.counted["last24h"]
        prev == metrics.counted["prev24h"]
    IN  /\ last \cap prev = {}
        /\ metrics.start \cap Since(metrics.asked - 2 * Day) \subseteq last \cup prev
        /\ \A e \in last \cup prev : record[e].tenant = metrics.tenant

\* "((current - previous) / max(previous, 1)) * 100, rounded to 1 decimal": the
\* trend of the counts a request was answered with is no further than half a
\* tenth from the exact change, an empty previous day counting as one event.
TrendRounded ==
  metrics.pc = "answered" =>
    LET current     == Cardinality(metrics.counted["last24h"])
        previous    == Cardinality(metrics.counted["prev24h"])
        denominator == IF previous = 0 THEN 1 ELSE previous
        error       == PercentChange(current, previous) * denominator
                         - 1000 * (current - previous)
    IN  2 * error <= denominator /\ 0 - denominator <= 2 * error
===============================================================================
