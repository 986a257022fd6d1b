-------------------------------- MODULE Audit ---------------------------------
(***************************************************************************)
(* The audit trail: events are recorded with the time their handler began, *)
(* inserted later, and read page by page while others are being inserted.  *)
(* Whether the bus takes the announcement that follows the insert changes  *)
(* nothing here; what becomes of it is in Outbox.                          *)
(*                                                                         *)
(* The table is append-only (a trigger of InitialSchema rejects UPDATE and *)
(* DELETE).  It is taken to have the columns of AuditEventOrmEntity.       *)
(***************************************************************************)
EXTENDS RequestContext, FiniteSets

CONSTANTS
  Records,   \* calls of RecordAuditEventHandler; each stands for its event
  Limit,     \* the page size a reader asks for, at most 200
  MaxTime    \* bound on the clock

ASSUME AuditAssumption ==
  /\ IsFiniteSet(Records) /\ Records # {}
  /\ Limit \in 1..200
  /\ MaxTime \in Nat

VARIABLES
  now,      \* the clock
  record,   \* per recording call: its progress, its event's tenant and time
  walk      \* a caller reading GET audit/events from the first page on

auditVars == <<now, record, walk>>

(***************************************************************************)
(* Types.  The table holds the events of the calls that have inserted.     *)
(***************************************************************************)
Times == 0..MaxTime

RecordState == [pc         : {"new", "insert", "stored", "failed"},
                tenant     : Header,
                occurredAt : Times]

\* seen are the events on the pages read; start those found by the first query
\* if they had all fitted; page is the next page to read.
WalkState == [pc     : {"idle", "data", "count", "ended"},
              tenant : Header,
              page   : 1..(1 + (Cardinality(Records) - 1) \div Limit),
              seen   : SUBSET Records,
              start  : SUBSET Records]

\* Type invariant of the audit trail and a walk over it; in particular no walk
\* asks for more pages than its events could fill.
AuditTypeOK ==
  /\ now \in Times
  /\ record \in [Records -> RecordState]
  /\ walk \in WalkState

NewRecord == [pc |-> "new", tenant |-> NoTenant, occurredAt |-> 0]

AuditInit ==
  /\ now = 0
  /\ record = [e \in Records |-> NewRecord]
  /\ walk = [pc |-> "idle", tenant |-> NoTenant, page |-> 1, seen |-> {}, start |-> {}]

Tick ==
  /\ now < MaxTime
  /\ now' = now + 1
  /\ UNCHANGED <<record, walk>>

(***************************************************************************)
(* RecordAuditEventHandler.                                                *)
(***************************************************************************)
CreateEvent(tenant) == [pc |-> "insert", tenant |-> tenant, occurredAt |-> now]

RecordFails(e) ==
  /\ record' = [record EXCEPT ![e] = [NewRecord EXCEPT !.pc = "failed"]]
  /\ UNCHANGED <<now, walk>>

RecordAuditEvent(e) ==
  /\ record[e].pc = "new"
  /\ \E context \in Header, tenant \in Tenants :
       IF MayWrite(context, CreateEvent(tenant))
       THEN /\ record' = [record EXCEPT ![e] = CreateEvent(tenant)]
            /\ UNCHANGED <<now, walk>>
       ELSE RecordFails(e)

\* append's insert; the announcement follows.
Append(e) ==
  /\ record[e].pc = "insert"
  /\ record' = [record EXCEPT ![e].pc = "stored"]
  /\ UNCHANGED <<now, walk>>

AppendFails(e) ==
  /\ record[e].pc = "insert"
  /\ RecordFails(e)

(***************************************************************************)
(* AuditEventRepository.query and buildPaginationMeta.                     *)
(***************************************************************************)
Trail(tenant) == {e \in Records : record[e].pc = "stored" /\ InScope(tenant, record[e])}

Skip(page) == (page - 1) * Limit

\* Mutant: a last page that is not full does not count.
TotalPagesFloor(total) == total \div Limit

TotalPages(total) == (total + Limit - 1) \div Limit

\* Mutant: there is always one page more.
HasNextPageInclusive(page, total) == page <= TotalPages(total)

HasNextPage(page, total) == page < TotalPages(total)

\* The orders ORDER BY occurredAt DESC allows: rows of the same time come in
\* any order, in another one with each query.
NewestFirst(rows) ==
  {o \in [1..Cardinality(rows) -> rows] :
     /\ \A i, j \in 1..Cardinality(rows) : o[i] = o[j] => i = j
     /\ \A i, j \in 1..Cardinality(rows) :
          i < j => record[o[i]].occurredAt >= record[o[j]].occurredAt}

\* The rows on a page, in one of those orders.
Page(o, page) == {o[i] : i \in {k \in DOMAIN o : k > Skip(page) /\ k <= Skip(page) + Limit}}

BeginWalk ==
  /\ walk.pc = "idle"
  /\ \E token \in Tokens, tenant \in Header :
       walk' = IF Refusal(token, tenant, "admin") = {}
               THEN [walk EXCEPT !.pc = "data", !.tenant = tenant, !.start = Trail(tenant)]
               ELSE [walk EXCEPT !.pc = "ended"]
  /\ UNCHANGED <<now, record>>

\* getManyAndCount is two statements: the rows, then the number of all rows.
ReadPage ==
  /\ walk.pc = "data"
  /\ \E o \in NewestFirst(Trail(walk.tenant)) :
       walk' = [walk EXCEPT !.pc = "count", !.seen = @ \cup Page(o, walk.page)]
  /\ UNCHANGED <<now, record>>

CountRows ==
  /\ walk.pc = "count"
  /\ walk' = IF HasNextPage(walk.page, Cardinality(Trail(walk.tenant)))
             THEN [walk EXCEPT !.pc = "data", !.page = @ + 1]
             ELSE [walk EXCEPT !.pc = "ended"]
  /\ UNCHANGED <<now, record>>

-------------------------------------------------------------------------------
Recording ==
  \/ Tick
  \/ \E e \in Records :
       \/ RecordAuditEvent(e)
       \/ Append(e)
       \/ AppendFails(e)

-------------------------------------------------------------------------------
(***************************************************************************)
(* Properties.                                                             *)
(***************************************************************************)

\* A walk that goes on while there is a next page misses no event that was
\* there when it began, although events inserted meanwhile shift the pages and
\* enlarge the total; excepted are events that share their time with another,
\* whose order may change between two pages.
WalkSeesAll ==
  walk.pc = "ended" =>
    \A e \in walk.start :
      \/ e \in walk.seen
      \/ \E f \in Trail(walk.tenant) \ {e} : record[f].occurredAt = record[e].occurredAt
===============================================================================
