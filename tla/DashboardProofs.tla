---------------------------- MODULE DashboardProofs ----------------------------
(***************************************************************************)
(* Proofs about the audit trail and its readers, for every finite set of   *)
(* events, every page size, clock bound and length of a day.               *)
(***************************************************************************)
EXTENDS Dashboard, FiniteSetTheorems, TLAPS

(***************************************************************************)
(* The inductive invariant.  A walk has put behind it the rows that come   *)
(* before the page it reads next: an event it has not seen and that shares *)
(* its time with no other has at least that many newer events before it,   *)
(* for inserts only ever add to them.                                      *)
(***************************************************************************)
Newer(e) == {f \in Trail(walk.tenant) : record[f].occurredAt > record[e].occurredAt}

Tied(e) ==
  \E f \in Trail(walk.tenant) \ {e} : record[f].occurredAt = record[e].occurredAt

\* Once the rows before row n + 1 have been read, e is not among the missed.
Settled(e, n) == e \in walk.seen \/ Tied(e) \/ Cardinality(Newer(e)) >= n

WalkSound ==
  /\ walk.start \subseteq Trail(walk.tenant)
  /\ walk.pc = "idle" => walk.start = {} /\ walk.seen = {} /\ walk.page = 1
  /\ walk.pc = "data" => \A e \in walk.start : Settled(e, Skip(walk.page))
  /\ walk.pc = "count" => \A e \in walk.start : Settled(e, Skip(walk.page) + Limit)

\* The times a count asks for.
InDay(c, e) ==
  IF c = "last24h" THEN record[e].occurredAt >= metrics.asked - Day
  ELSE /\ record[e].occurredAt >= metrics.asked - 2 * Day
       /\ record[e].occurredAt < metrics.asked - Day

\* What a count that has been answered has found.
CountSound(c) ==
  /\ \A e \in metrics.counted[c] : e \in Trail(metrics.tenant) /\ InDay(c, e)
  /\ \A e \in metrics.start : InDay(c, e) => e \in metrics.counted[c]

MetricsSound ==
  /\ metrics.start \subseteq Trail(metrics.tenant)
  /\ metrics.pc # "counting" => metrics.pending = {}
  /\ metrics.pc \in {"counting", "answered"} =>
       \A c \in Counter \ metrics.pending : CountSound(c)

\* What a walk has read is in its trail.
WalkScoped ==
  \A e \in walk.seen : record[e].pc = "stored" /\ record[e].tenant = walk.tenant

IInv ==
  /\ DashboardTypeOK
  /\ WalkScoped
  /\ WalkSound
  /\ WalkSeesAll
  /\ MetricsSound

(***************************************************************************)
(* Division: pages and percents.                                           *)
(***************************************************************************)

\* Division rounds down.
LEMMA Division ==
  ASSUME NEW a \in Int, NEW b \in Nat \ {0}
  PROVE  /\ a \div b \in Int
         /\ b * (a \div b) <= a
         /\ a < b * (a \div b) + b
  OBVIOUS

\* TotalPages of buildPaginationMeta is enough pages for all rows, and grows
\* with them; that many full pages but one are not enough.
LEMMA PagesHoldAll ==
  ASSUME NEW total \in Nat
  PROVE  /\ TotalPages(total) \in Nat
         /\ \A page \in Nat : page >= TotalPages(total) => page * Limit >= total
         /\ \A page \in Nat : page < TotalPages(total) => page * Limit < total
<1>1. Limit \in Nat \ {0}
  BY AuditAssumption
<1> DEFINE q == TotalPages(total)
<1>2. /\ q \in Int
      /\ Limit * q <= total + Limit - 1
      /\ total + Limit - 1 < Limit * q + Limit
  BY <1>1, Division DEF TotalPages
<1> HIDE DEF q
<1>3. q >= 0
  <2>1. CASE q <= 0 - 1
    <3>1. Limit * q <= Limit * (0 - 1)
      BY <1>1, <1>2, <2>1
    <3> QED BY <1>1, <1>2, <3>1
  <2> QED BY <1>2, <2>1
<1>4. ASSUME NEW page \in Nat, page >= q
      PROVE  page * Limit >= total
  <2>1. page * Limit >= Limit * q
    BY <1>1, <1>2, <1>4
  <2>2. page * Limit \in Int /\ Limit * q \in Int
    BY <1>1, <1>2
  <2> QED BY <1>1, <1>2, <2>1, <2>2
<1>5. ASSUME NEW page \in Nat, page < q
      PROVE  page * Limit < total
  <2>1. page * Limit + Limit <= Limit * q
    <3>1. (page + 1) * Limit <= q * Limit
      BY <1>1, <1>2, <1>5
    <3> QED BY <1>1, <1>2, <3>1
  <2>2. page * Limit \in Int /\ Limit * q \in Int
    BY <1>1, <1>2
  <2> QED BY <1>1, <1>2, <2>1, <2>2
<1> QED
  BY <1>2, <1>3, <1>4, <1>5 DEF q

\* A page that is not the last leads to one a walk may ask for.
LEMMA NextPageExists ==
  ASSUME NEW total \in Nat, total <= Cardinality(Records),
         NEW page \in Nat, HasNextPage(page, total)
  PROVE  page + 1 <= 1 + (Cardinality(Records) - 1) \div Limit
<1>1. Limit \in Nat \ {0} /\ Cardinality(Records) \in Nat
  BY AuditAssumption, FS_CardinalityType
<1>2. page * Limit < total
  BY PagesHoldAll DEF HasNextPage
<1> DEFINE q == (Cardinality(Records) - 1) \div Limit
<1>3. q \in Int /\ Cardinality(Records) - 1 < Limit * q + Limit
  BY <1>1, Division
<1> HIDE DEF q
<1>4. page * Limit < Limit * q + Limit
  <2>1. page * Limit \in Int /\ Limit * q \in Int
    BY <1>1, <1>3
  <2> QED BY <1>1, <1>2, <1>3, <2>1
<1>5. page <= q
  <2>1. CASE page >= q + 1
    <3>1. page * Limit >= (q + 1) * Limit
      BY <1>1, <1>3, <2>1
    <3> QED BY <1>1, <1>3, <1>4, <3>1
  <2> QED BY <1>3, <2>1
<1> QED
  BY <1>3, <1>5 DEF q

\* Every walk may ask for the first page.
LEMMA FirstPageExists == 1 \in 1..(1 + (Cardinality(Records) - 1) \div Limit)
<1>1. Cardinality(Records) \in Nat \ {0} /\ Limit \in Nat \ {0}
  BY AuditAssumption, FS_CardinalityType, FS_EmptySet
<1> DEFINE q == (Cardinality(Records) - 1) \div Limit
<1>2. q \in Int /\ Cardinality(Records) - 1 < Limit * q + Limit
  BY <1>1, Division
<1> HIDE DEF q
<1>3. q >= 0
  <2>1. CASE q + 1 <= 0
    <3>1. (q + 1) * Limit <= 0
      BY <1>1, <1>2, <2>1
    <3> QED BY <1>1, <1>2, <3>1
  <2> QED BY <1>2, <2>1
<1>4. 1 \in 1..(1 + q)
  BY <1>2, <1>3
<1> QED
  BY <1>4 DEF q

(***************************************************************************)
(* The place of an event in the order of a query.                          *)
(***************************************************************************)

\* In ORDER BY occurredAt DESC, whatever the order of ties, an event that has
\* no tie comes right after the newer ones.
LEMMA PlaceOfUntied ==
  ASSUME record \in [Records -> RecordState],
         NEW rows \in SUBSET Records,
         NEW o \in NewestFirst(rows),
         NEW e \in rows,
         \A f \in rows \ {e} : record[f].occurredAt # record[e].occurredAt
  PROVE  \E i \in 1..Cardinality(rows) :
           /\ o[i] = e
           /\ Cardinality({f \in rows : record[f].occurredAt > record[e].occurredAt})
                = i - 1
<1> DEFINE n == Cardinality(rows)
           N == {f \in rows : record[f].occurredAt > record[e].occurredAt}
<1>1. IsFiniteSet(rows) /\ n \in Nat
  BY AuditAssumption, FS_Subset, FS_CardinalityType
<1>2. /\ o \in [1..n -> rows]
      /\ \A i, j \in 1..n : o[i] = o[j] => i = j
      /\ \A i, j \in 1..n : i < j => record[o[i]].occurredAt >= record[o[j]].occurredAt
  BY DEF NewestFirst
<1>3. \A f \in rows : record[f].occurredAt \in Nat
  BY AuditAssumption DEF RecordState, Times
<1>4. o \in Surjection(1..n, rows)
  <2>1. o \in Injection(1..n, rows)
    BY <1>2 DEF Injection, IsInjective
  <2>2. Cardinality(1..n) = n
    BY <1>1, FS_Interval
  <2> QED BY <1>1, <2>1, <2>2, FS_Injection
<1>5. PICK i \in 1..n : o[i] = e
  BY <1>4 DEF Surjection
<1>6. i - 1 \in Nat /\ 1..(i - 1) \subseteq 1..n
  BY <1>1, <1>5
<1> DEFINE g == [k \in 1..(i - 1) |-> o[k]]
<1>7. \A k \in 1..(i - 1) : o[k] \in N
  BY <1>1, <1>2, <1>3, <1>5, <1>6
<1>8. \A f \in N : \E k \in 1..(i - 1) : o[k] = f
  <2> SUFFICES ASSUME NEW f \in N
               PROVE  \E k \in 1..(i - 1) : o[k] = f
    OBVIOUS
  <2>1. PICK j \in 1..n : o[j] = f
    BY <1>4 DEF Surjection
  <2>2. j < i
    BY <1>1, <1>2, <1>3, <1>5, <2>1
  <2> QED BY <1>1, <1>5, <2>1, <2>2
<1>9. g \in Bijection(1..(i - 1), N)
  <2>1. g \in [1..(i - 1) -> N]
    BY <1>7
  <2>2. \A a, b \in 1..(i - 1) : g[a] = g[b] => a = b
    BY <1>2, <1>6
  <2>3. \A f \in N : \E k \in 1..(i - 1) : g[k] = f
    BY <1>8
  <2> HIDE DEF g, N
  <2> QED BY <2>1, <2>2, <2>3 DEF Bijection, Injection, Surjection, IsInjective
<1>10. Cardinality(N) = i - 1
  BY <1>6, <1>9, FS_CountingElements DEF ExistsBijection
<1> QED
  BY <1>5, <1>10

(***************************************************************************)
(* The trail only grows: what every step that writes it does.              *)
(***************************************************************************)
Grows ==
  /\ record' \in [Records -> RecordState]
  /\ \A e \in Records : record[e].pc = "stored" => record'[e] = record[e]

\* The table is append-only: no step of a recording call changes a stored event.
LEMMA RecordingGrows ==
  ASSUME AuditTypeOK, Recording
  PROVE  now' \in Times /\ Grows /\ walk' = walk
<1> USE DEF AuditTypeOK, Grows
<1>1. CASE Tick
  BY <1>1, AuditAssumption DEF Tick, Times
<1>2. ASSUME NEW e \in Records, RecordAuditEvent(e)
      PROVE  now' \in Times /\ Grows /\ walk' = walk
  <2>1. PICK context \in Header, tenant \in Tenants :
          IF MayWrite(context, CreateEvent(tenant))
          THEN /\ record' = [record EXCEPT ![e] = CreateEvent(tenant)]
               /\ UNCHANGED <<now, walk>>
          ELSE RecordFails(e)
    BY <1>2 DEF RecordAuditEvent
  <2>2. record[e].pc = "new"
    BY <1>2 DEF RecordAuditEvent
  <2>3. CreateEvent(tenant) \in RecordState
    BY DEF CreateEvent, RecordState, Header
  <2>4. [NewRecord EXCEPT !.pc = "failed"] \in RecordState
    BY AuditAssumption DEF NewRecord, RecordState, Header, Times
  <2> QED BY <2>1, <2>2, <2>3, <2>4 DEF RecordFails
<1>3. ASSUME NEW e \in Records, Append(e)
      PROVE  now' \in Times /\ Grows /\ walk' = walk
  BY <1>3 DEF Append, RecordState
<1>4. ASSUME NEW e \in Records, AppendFails(e)
      PROVE  now' \in Times /\ Grows /\ walk' = walk
  <2>1. [NewRecord EXCEPT !.pc = "failed"] \in RecordState
    BY AuditAssumption DEF NewRecord, RecordState, Header, Times
  <2> QED BY <1>4, <2>1 DEF AppendFails, RecordFails
<1> QED
  BY <1>1, <1>2, <1>3, <1>4 DEF Recording

\* An event of a walk's trail stays in it, and ties and newer events stay.
LEMMA GrowthKeepsSettled ==
  ASSUME AuditTypeOK, Grows, UNCHANGED walk,
         NEW e \in Trail(walk.tenant), NEW n \in Nat, Settled(e, n)
  PROVE  e \in Trail(walk.tenant)' /\ Settled(e, n)'
<1>1. Trail(walk.tenant) \subseteq Trail(walk.tenant)'
  BY DEF Grows, Trail, InScope
<1>2. \A f \in Trail(walk.tenant) : f \in Records /\ record'[f] = record[f]
  BY DEF Grows, Trail
<1>3. CASE e \in walk.seen
  BY <1>1, <1>3 DEF Settled
<1>4. CASE Tied(e)
  BY <1>1, <1>2, <1>4 DEF Settled, Tied
<1>5. CASE Cardinality(Newer(e)) >= n
  <2>1. Newer(e) \in SUBSET (Newer(e)')
    BY <1>1, <1>2 DEF Newer
  <2>2. IsFiniteSet(Newer(e)')
    <3>1. Newer(e)' \in SUBSET Records
      BY DEF Newer, Trail
    <3> QED BY <3>1, AuditAssumption, FS_Subset
  <2>3. /\ Cardinality(Newer(e)) <= Cardinality(Newer(e)')
        /\ IsFiniteSet(Newer(e))
    BY <2>1, <2>2, FS_Subset
  <2>4. Cardinality(Newer(e)) \in Nat /\ Cardinality(Newer(e)') \in Nat
    BY <2>2, <2>3, FS_CardinalityType
  <2>5. Cardinality(Newer(e)') >= n
    BY <1>5, <2>3, <2>4
  <2> QED BY <1>1, <2>5 DEF Settled
<1> QED
  BY <1>3, <1>4, <1>5 DEF Settled

\* What a walk relies on.
WalkInv == WalkScoped /\ WalkSound /\ WalkSeesAll

\* The rows before a page are counted by full pages.
LEMMA PageNumbers ==
  ASSUME AuditTypeOK
  PROVE  /\ Limit \in Nat \ {0}
         /\ walk.page \in Nat \ {0}
         /\ Skip(walk.page) \in Nat
         /\ Skip(walk.page) + Limit = walk.page * Limit
<1>1. Limit \in Nat \ {0}
  BY AuditAssumption
<1>2. walk.page \in Nat \ {0}
  BY <1>1, AuditAssumption, FS_CardinalityType, Division DEF AuditTypeOK, WalkState
<1> QED
  BY <1>1, <1>2 DEF Skip

\* Inserts behind a walk's back keep what it relies on.
LEMMA GrowthKeepsWalk ==
  ASSUME AuditTypeOK, WalkInv, Grows, UNCHANGED walk
  PROVE  WalkInv'
<1> USE DEF WalkInv
<1>1. WalkScoped'
  BY DEF WalkScoped, Grows, AuditTypeOK, WalkState
<1>2. \A e \in walk.start : e \in Trail(walk.tenant)' /\ record'[e] = record[e]
  BY DEF WalkSound, Grows, Trail, InScope
<1>3. \A n \in Nat : \A e \in walk.start : Settled(e, n) => Settled(e, n)'
  BY GrowthKeepsSettled DEF WalkSound
<1>4. WalkSound'
  <2>1. Skip(walk.page) \in Nat /\ Skip(walk.page) + Limit \in Nat
    BY PageNumbers
  <2>2. walk.pc = "data" => \A e \in walk.start : Settled(e, Skip(walk.page))'
    BY <1>3, <2>1 DEF WalkSound, Skip
  <2>3. walk.pc = "count" => \A e \in walk.start : Settled(e, Skip(walk.page) + Limit)'
    BY <1>3, <2>1 DEF WalkSound, Skip
  <2> QED BY <1>2, <2>2, <2>3 DEF WalkSound
<1>5. WalkSeesAll'
  <2>1. Trail(walk.tenant) \subseteq Trail(walk.tenant)'
    BY DEF Grows, Trail, InScope
  <2>2. \A f \in Trail(walk.tenant) : record'[f] = record[f]
    BY DEF Grows, Trail
  <2> QED BY <1>2, <2>1, <2>2 DEF WalkSeesAll
<1> QED
  BY <1>1, <1>4, <1>5

(***************************************************************************)
(* The steps of a walk.                                                    *)
(***************************************************************************)

\* Nothing lies before the first page.
LEMMA BeginWalkKeeps ==
  ASSUME AuditTypeOK, WalkInv, BeginWalk
  PROVE  AuditTypeOK' /\ WalkInv'
<1> USE DEF WalkInv
<1>1. /\ walk.pc = "idle" /\ walk.start = {} /\ walk.seen = {} /\ walk.page = 1
      /\ now' = now /\ record' = record
  BY DEF BeginWalk, WalkSound
<1>2. PICK token \in Tokens, tenant \in Header :
        walk' = IF Refusal(token, tenant, "admin") = {}
                THEN [walk EXCEPT !.pc = "data", !.tenant = tenant,
                                  !.start = Trail(tenant)]
                ELSE [walk EXCEPT !.pc = "ended"]
  BY DEF BeginWalk
<1>3. AuditTypeOK'
  BY <1>1, <1>2 DEF AuditTypeOK, WalkState, Trail
<1>4. walk'.page = 1 /\ walk'.seen = {}
  BY <1>1, <1>2 DEF AuditTypeOK, WalkState
<1>5. CASE walk' = [walk EXCEPT !.pc = "ended"]
  <2>1. walk'.pc = "ended" /\ walk'.start = {}
    BY <1>1, <1>5 DEF AuditTypeOK, WalkState
  <2> QED BY <1>3, <1>4, <2>1 DEF WalkScoped, WalkSound, WalkSeesAll
<1>6. CASE walk' = [walk EXCEPT !.pc = "data", !.tenant = tenant, !.start = Trail(tenant)]
  <2>1. walk'.pc = "data" /\ walk'.tenant = tenant /\ walk'.start = Trail(tenant)
    BY <1>6 DEF AuditTypeOK, WalkState
  <2>2. walk'.start = Trail(walk.tenant)'
    BY <1>1, <2>1 DEF Trail, InScope
  <2>3. \A e \in walk'.start : Settled(e, Skip(walk.page))'
    <3> SUFFICES ASSUME NEW e \in walk'.start
                 PROVE  Cardinality(Newer(e)') >= Skip(walk.page)'
      BY DEF Settled
    <3>1. Newer(e)' \in SUBSET Records
      BY DEF Newer, Trail
    <3>2. Cardinality(Newer(e)') \in Nat
      BY <3>1, AuditAssumption, FS_Subset, FS_CardinalityType
    <3>3. Skip(walk.page)' = 0
      BY <1>4, AuditAssumption DEF Skip
    <3> QED BY <3>2, <3>3
  <2> QED BY <1>3, <1>4, <2>1, <2>2, <2>3 DEF WalkScoped, WalkSound, WalkSeesAll
<1> QED
  BY <1>2, <1>5, <1>6

\* A page shows rows of the query only.
LEMMA PageOfTrail ==
  ASSUME NEW rows, NEW o \in NewestFirst(rows), NEW page
  PROVE  Page(o, page) \subseteq rows
  BY DEF NewestFirst, Page

\* After a page has been read, the rows up to its end are settled.
LEMMA ReadPageSettles ==
  ASSUME AuditTypeOK,
         NEW o \in NewestFirst(Trail(walk.tenant)),
         NEW e \in Trail(walk.tenant), Settled(e, Skip(walk.page))
  PROVE  \/ e \in walk.seen \cup Page(o, walk.page)
         \/ Tied(e)
         \/ Cardinality(Newer(e)) >= Skip(walk.page) + Limit
<1> SUFFICES ASSUME e \notin walk.seen, ~Tied(e)
             PROVE  \/ e \in Page(o, walk.page)
                    \/ Cardinality(Newer(e)) >= Skip(walk.page) + Limit
  OBVIOUS
<1>1. Trail(walk.tenant) \in SUBSET Records
  BY DEF Trail
<1>2. PICK i \in 1..Cardinality(Trail(walk.tenant)) :
        o[i] = e /\ Cardinality(Newer(e)) = i - 1
  BY <1>1, PlaceOfUntied DEF Tied, Newer, AuditTypeOK
<1>3. Cardinality(Trail(walk.tenant)) \in Nat
  BY <1>1, AuditAssumption, FS_Subset, FS_CardinalityType
<1>4. Cardinality(Newer(e)) >= Skip(walk.page)
  BY DEF Settled
<1>5. i \in DOMAIN o /\ i \in Nat /\ i > Skip(walk.page)
  BY <1>2, <1>3, <1>4, PageNumbers DEF NewestFirst
<1>6. CASE i <= Skip(walk.page) + Limit
  BY <1>2, <1>5, <1>6 DEF Page
<1>7. CASE i > Skip(walk.page) + Limit
  BY <1>2, <1>5, <1>7, PageNumbers
<1> QED
  BY <1>5, <1>6, <1>7, PageNumbers

\* The rows of a query, the first of its two statements.
LEMMA ReadPageKeeps ==
  ASSUME AuditTypeOK, WalkInv, ReadPage
  PROVE  AuditTypeOK' /\ WalkInv'
<1> USE DEF WalkInv
<1>1. walk.pc = "data" /\ now' = now /\ record' = record
  BY DEF ReadPage
<1>2. PICK o \in NewestFirst(Trail(walk.tenant)) :
        walk' = [walk EXCEPT !.pc = "count", !.seen = @ \cup Page(o, walk.page)]
  BY DEF ReadPage
<1>3. /\ walk'.pc = "count" /\ walk'.seen = walk.seen \cup Page(o, walk.page)
      /\ walk'.tenant = walk.tenant /\ walk'.page = walk.page /\ walk'.start = walk.start
  BY <1>2 DEF AuditTypeOK, WalkState
<1>4. Page(o, walk.page) \subseteq Trail(walk.tenant)
  BY PageOfTrail
<1>5. AuditTypeOK'
  <2>1. Page(o, walk.page) \subseteq Records
    BY <1>4 DEF Trail
  <2> QED BY <1>1, <1>2, <2>1 DEF AuditTypeOK, WalkState
<1>6. WalkScoped'
  BY <1>1, <1>3, <1>4 DEF WalkScoped, Trail, InScope
<1>7. Trail(walk.tenant)' = Trail(walk.tenant)
  BY <1>1, <1>3 DEF Trail, InScope
<1>8. \A e \in walk'.start : Settled(e, Skip(walk.page) + Limit)'
  <2> SUFFICES ASSUME NEW e \in walk.start
               PROVE  Settled(e, Skip(walk.page) + Limit)'
    BY <1>3
  <2>1. \/ e \in walk.seen \cup Page(o, walk.page)
        \/ Tied(e)
        \/ Cardinality(Newer(e)) >= Skip(walk.page) + Limit
    BY <1>1, ReadPageSettles DEF WalkSound
  <2>2. Newer(e)' = Newer(e) /\ (Tied(e)' <=> Tied(e))
    BY <1>1, <1>7 DEF Newer, Tied
  <2> QED BY <1>3, <2>1, <2>2 DEF Settled, Skip
<1>9. WalkSound' /\ WalkSeesAll'
  BY <1>3, <1>7, <1>8 DEF WalkSound, WalkSeesAll
<1> QED
  BY <1>5, <1>6, <1>9

\* The number of all rows, the second: a walk ends only when the pages it has
\* read have room for every row, so an event with as many newer ones before it
\* cannot exist.
LEMMA CountRowsKeeps ==
  ASSUME AuditTypeOK, WalkInv, CountRows
  PROVE  AuditTypeOK' /\ WalkInv'
<1> USE DEF WalkInv
<1> DEFINE total == Cardinality(Trail(walk.tenant))
<1>1. /\ walk.pc = "count" /\ now' = now /\ record' = record
      /\ walk' = IF HasNextPage(walk.page, total)
                 THEN [walk EXCEPT !.pc = "data", !.page = @ + 1]
                 ELSE [walk EXCEPT !.pc = "ended"]
  BY DEF CountRows
<1>2. /\ walk'.seen = walk.seen /\ walk'.tenant = walk.tenant /\ walk'.start = walk.start
      /\ walk'.pc \in {"data", "ended"}
  BY <1>1 DEF AuditTypeOK, WalkState
<1>3. Trail(walk.tenant)' = Trail(walk.tenant)
  BY <1>1, <1>2 DEF Trail, InScope
<1>4. \A e : Newer(e)' = Newer(e) /\ (Tied(e)' <=> Tied(e))
  BY <1>1, <1>3 DEF Newer, Tied
<1>5. WalkScoped'
  BY <1>1, <1>2 DEF WalkScoped
<1>6. /\ Trail(walk.tenant) \in SUBSET Records /\ IsFiniteSet(Trail(walk.tenant))
      /\ total \in Nat /\ total <= Cardinality(Records)
  BY AuditAssumption, FS_Subset, FS_CardinalityType DEF Trail
<1>7. CASE HasNextPage(walk.page, total)
  <2>1. walk' = [walk EXCEPT !.pc = "data", !.page = @ + 1]
    BY <1>1, <1>7
  <2>2. walk'.pc = "data" /\ walk'.page = walk.page + 1
    BY <2>1 DEF AuditTypeOK, WalkState
  <2>3. AuditTypeOK'
    <3>1. walk.page + 1 \in 1..(1 + (Cardinality(Records) - 1) \div Limit)
      <4>1. (Cardinality(Records) - 1) \div Limit \in Int
        BY AuditAssumption, FS_CardinalityType, Division
      <4> QED BY <1>6, <1>7, <4>1, NextPageExists, PageNumbers
    <3> QED BY <1>1, <2>1, <3>1 DEF AuditTypeOK, WalkState
  <2>4. Skip(walk.page)' = Skip(walk.page) + Limit
    BY <2>2, PageNumbers DEF Skip
  <2>5. WalkSound'
    <3>1. \A e \in walk'.start : Settled(e, Skip(walk.page))'
      BY <1>1, <1>2, <1>4, <2>4 DEF WalkSound, Settled
    <3> QED BY <1>2, <1>3, <2>2, <3>1 DEF WalkSound
  <2> QED BY <1>5, <2>2, <2>3, <2>5 DEF WalkSeesAll
<1>8. CASE ~HasNextPage(walk.page, total)
  <2>1. walk' = [walk EXCEPT !.pc = "ended"] /\ walk'.pc = "ended"
    BY <1>1, <1>8 DEF AuditTypeOK, WalkState
  <2>2. AuditTypeOK'
    BY <1>1, <2>1 DEF AuditTypeOK, WalkState
  <2>3. WalkSound'
    BY <1>2, <1>3, <2>1 DEF WalkSound
  <2>4. \A e \in walk.start : e \in walk.seen \/ Tied(e)
    <3> SUFFICES ASSUME NEW e \in walk.start, e \notin walk.seen, ~Tied(e)
                 PROVE  FALSE
      OBVIOUS
    <3>1. Cardinality(Newer(e)) >= walk.page * Limit
      BY <1>1, PageNumbers DEF WalkSound, Settled
    <3>2. walk.page * Limit >= total
      BY <1>6, <1>8, PagesHoldAll, PageNumbers DEF HasNextPage
    <3>3. e \in Trail(walk.tenant) /\ e \notin Newer(e)
      BY DEF WalkSound, Newer, Trail, AuditTypeOK, RecordState, Times
    <3>4. Newer(e) \in SUBSET Trail(walk.tenant)
      BY DEF Newer
    <3>5. Cardinality(Newer(e)) <= total /\ Cardinality(Newer(e)) # total
      BY <1>6, <3>3, <3>4, FS_Subset
    <3>6. Cardinality(Newer(e)) \in Nat /\ walk.page * Limit \in Nat
      BY <1>6, <3>4, FS_Subset, FS_CardinalityType, PageNumbers
    <3> QED BY <1>6, <3>1, <3>2, <3>5, <3>6
  <2>5. WalkSeesAll'
    BY <1>1, <1>2, <1>3, <2>4 DEF WalkSeesAll, Tied
  <2> QED BY <1>5, <2>2, <2>3, <2>5
<1> QED
  BY <1>7, <1>8

(***************************************************************************)
(* The metrics.                                                            *)
(***************************************************************************)

\* Inserts keep what the counts have found.
LEMMA GrowthKeepsMetrics ==
  ASSUME AuditTypeOK, metrics \in MetricsState, MetricsSound, Grows, UNCHANGED metrics
  PROVE  MetricsSound'
<1>1. \A e \in Trail(metrics.tenant) :
        e \in Trail(metrics.tenant)' /\ record'[e] = record[e]
  BY DEF Grows, Trail, InScope
<1>2. metrics.start \subseteq Trail(metrics.tenant)'
  BY <1>1 DEF MetricsSound
<1>3. ASSUME NEW c, CountSound(c)
      PROVE  CountSound(c)'
  <2>1. \A e \in metrics.counted[c] : e \in Trail(metrics.tenant)' /\ InDay(c, e)'
    BY <1>1, <1>3 DEF CountSound, InDay
  <2>2. \A e \in metrics.start : InDay(c, e)' => e \in metrics.counted[c]
    BY <1>1, <1>3 DEF CountSound, InDay, MetricsSound
  <2> QED BY <2>1, <2>2 DEF CountSound
<1> QED
  BY <1>2, <1>3 DEF MetricsSound

\* A count finds the events of its day that are in the trail.
LEMMA FoundInDay ==
  ASSUME AuditTypeOK, metrics \in MetricsState, NEW c \in Counter, NEW e \in Records
  PROVE  e \in Found(c) <=> e \in Trail(metrics.tenant) /\ InDay(c, e)
<1>1. /\ record[e].occurredAt \in Int /\ metrics.asked \in Int
      /\ metrics.asked - Day \in Int /\ metrics.asked - 2 * Day \in Int
  BY AuditAssumption, DashboardAssumption
     DEF AuditTypeOK, RecordState, MetricsState, Times
<1>2. e \in LastDay(metrics.asked) <=> record[e].occurredAt >= metrics.asked - Day
  BY DEF LastDay, Since
<1>3. e \in PreviousDay(metrics.asked) <=>
        /\ record[e].occurredAt >= metrics.asked - 2 * Day
        /\ record[e].occurredAt < metrics.asked - Day
  BY <1>1 DEF PreviousDay, Since
<1> QED
  BY <1>2, <1>3 DEF Found, InDay

\* A request that begins takes the time and sends both counts.
LEMMA BeginMetricsKeeps ==
  ASSUME AuditTypeOK, metrics \in MetricsState, MetricsSound, BeginMetrics
  PROVE  (metrics \in MetricsState)' /\ MetricsSound'
<1>1. record' = record /\ metrics.pc = "idle" /\ metrics.pending = {}
  BY DEF BeginMetrics, ReadersIdle, MetricsSound, auditVars
<1>2. PICK token \in Tokens, tenant \in Header :
        metrics' = IF Refusal(token, tenant, "viewer") = {}
                   THEN [NoMetrics EXCEPT !.pc = "counting", !.tenant = tenant, !.asked = now,
                                          !.pending = Counter, !.start = Trail(tenant)]
                   ELSE [metrics EXCEPT !.pc = "refused"]
  BY DEF BeginMetrics
<1>3. CASE metrics' = [metrics EXCEPT !.pc = "refused"]
  <2>1. /\ metrics' \in MetricsState
        /\ metrics'.pc = "refused" /\ metrics'.pending = {}
        /\ metrics'.start = metrics.start /\ metrics'.tenant = metrics.tenant
    BY <1>1, <1>3 DEF MetricsState
  <2>2. Trail(metrics.tenant)' = Trail(metrics.tenant)
    BY <1>1, <2>1 DEF Trail, InScope
  <2> QED BY <2>1, <2>2 DEF MetricsSound
<1>4. CASE metrics' = [NoMetrics EXCEPT !.pc = "counting", !.tenant = tenant, !.asked = now,
                                        !.pending = Counter, !.start = Trail(tenant)]
  <2>1. NoMetrics \in MetricsState
    BY AuditAssumption DEF NoMetrics, MetricsState, Header, Times
  <2>2. Trail(tenant) \subseteq Records /\ now \in Times
    BY DEF Trail, AuditTypeOK
  <2>3. /\ metrics' \in MetricsState
        /\ metrics'.pc = "counting" /\ metrics'.pending = Counter
        /\ metrics'.start = Trail(tenant) /\ metrics'.tenant = tenant
    BY <1>4, <2>1, <2>2 DEF MetricsState
  <2>4. Trail(metrics.tenant)' = Trail(tenant)
    BY <1>1, <2>3 DEF Trail, InScope
  <2> QED BY <2>3, <2>4 DEF MetricsSound
<1> QED
  BY <1>2, <1>3, <1>4

\* One count is answered.
LEMMA CountKeeps ==
  ASSUME AuditTypeOK, metrics \in MetricsState, MetricsSound, NEW c \in Counter, Count(c)
  PROVE  (metrics \in MetricsState)' /\ MetricsSound'
<1>1. /\ record' = record /\ c \in metrics.pending /\ metrics.pc = "counting"
      /\ metrics' = [metrics EXCEPT !.pending = @ \ {c}, !.counted[c] = Found(c),
                                    !.pc = IF metrics.pending = {c} THEN "answered" ELSE @]
  BY DEF Count, MetricsSound, auditVars
<1>2. Found(c) \subseteq Records
  BY DEF Found, Trail
<1>3. /\ metrics' \in MetricsState
      /\ metrics'.pc = IF metrics.pending = {c} THEN "answered" ELSE "counting"
      /\ metrics'.pending = metrics.pending \ {c}
      /\ metrics'.counted[c] = Found(c)
      /\ \A d \in Counter \ {c} : metrics'.counted[d] = metrics.counted[d]
      /\ metrics'.start = metrics.start /\ metrics'.tenant = metrics.tenant
      /\ metrics'.asked = metrics.asked
  BY <1>1, <1>2 DEF MetricsState
<1>4. Trail(metrics.tenant)' = Trail(metrics.tenant)
  BY <1>1, <1>3 DEF Trail, InScope
<1>5. \A d, e : InDay(d, e)' <=> InDay(d, e)
  BY <1>1, <1>3 DEF InDay
<1>6. CountSound(c)'
  <2>1. \A e \in Found(c) : e \in Records
    BY <1>2
  <2>2. \A e \in metrics.start : e \in Records /\ e \in Trail(metrics.tenant)
    BY DEF MetricsSound, Trail
  <2> QED BY <1>3, <1>4, <1>5, <2>1, <2>2, FoundInDay DEF CountSound
<1>7. \A d \in Counter \ metrics'.pending : CountSound(d)'
  <2>1. \A d \in Counter \ metrics.pending : CountSound(d)'
    <3>1. \A d \in Counter \ metrics.pending : CountSound(d) /\ d # c
      BY <1>1 DEF MetricsSound
    <3> QED BY <1>3, <1>4, <1>5, <3>1 DEF CountSound
  <2> QED BY <1>3, <1>6, <2>1
<1> QED
  BY <1>3, <1>4, <1>7 DEF MetricsSound

(***************************************************************************)
(* The invariant.                                                          *)
(***************************************************************************)

\* Every step of the trail and its readers keeps the invariant.
LEMMA StepKeeps ==
  ASSUME IInv, [DashboardNext]_dashboardVars
  PROVE  IInv'
<1> USE DEF IInv, WalkInv
<1>0. AuditTypeOK /\ metrics \in MetricsState /\ WalkInv /\ MetricsSound
  BY DEF DashboardTypeOK
<1>1. ASSUME now' \in Times, Grows, walk' = walk, metrics' = metrics
      PROVE  IInv'
  <2>1. AuditTypeOK'
    BY <1>0, <1>1 DEF AuditTypeOK, Grows
  <2> QED BY <1>0, <1>1, <2>1, GrowthKeepsWalk, GrowthKeepsMetrics DEF DashboardTypeOK
<1>2. ASSUME AuditTypeOK', WalkInv', record' = record, metrics' = metrics
      PROVE  IInv'
  <2>1. Grows
    BY <1>0, <1>2 DEF Grows, AuditTypeOK
  <2> QED BY <1>0, <1>2, <2>1, GrowthKeepsMetrics DEF DashboardTypeOK
<1>3. ASSUME auditVars' = auditVars, (metrics \in MetricsState)', MetricsSound'
      PROVE  IInv'
  <2>1. now' = now /\ record' = record /\ walk' = walk
    BY <1>3 DEF auditVars
  <2>2. AuditTypeOK' /\ Grows
    BY <1>0, <2>1 DEF AuditTypeOK, Grows
  <2> QED BY <1>0, <1>3, <2>1, <2>2, GrowthKeepsWalk DEF DashboardTypeOK
<1>4. CASE Recording /\ UNCHANGED metrics
  BY <1>0, <1>1, <1>4, RecordingGrows
<1>5. CASE ReadersIdle /\ BeginWalk /\ UNCHANGED metrics
  <2>1. record' = record
    BY <1>5 DEF BeginWalk
  <2> QED BY <1>0, <1>2, <1>5, <2>1, BeginWalkKeeps
<1>6. CASE ReadPage /\ UNCHANGED metrics
  <2>1. record' = record
    BY <1>6 DEF ReadPage
  <2> QED BY <1>0, <1>2, <1>6, <2>1, ReadPageKeeps
<1>7. CASE CountRows /\ UNCHANGED metrics
  <2>1. record' = record
    BY <1>7 DEF CountRows
  <2> QED BY <1>0, <1>2, <1>7, <2>1, CountRowsKeeps
<1>8. CASE BeginMetrics
  <2>1. auditVars' = auditVars
    BY <1>8 DEF BeginMetrics
  <2> QED BY <1>0, <1>3, <1>8, <2>1, BeginMetricsKeeps
<1>9. ASSUME NEW c \in Counter, Count(c)
      PROVE  IInv'
  <2>1. auditVars' = auditVars
    BY <1>9 DEF Count
  <2> QED BY <1>0, <1>3, <1>9, <2>1, CountKeeps
<1>10. CASE GetEventSeries
  <2>1. /\ auditVars' = auditVars /\ metrics.pc = "idle"
        /\ metrics' = [metrics EXCEPT !.pc = "refused"]
    BY <1>10 DEF GetEventSeries, ReadersIdle
  <2>2. /\ metrics' \in MetricsState /\ metrics'.pc = "refused"
        /\ metrics'.pending = metrics.pending /\ metrics'.start = metrics.start
        /\ metrics'.tenant = metrics.tenant
    BY <1>0, <2>1 DEF MetricsState
  <2>3. Trail(metrics.tenant)' = Trail(metrics.tenant)
    BY <2>1, <2>2 DEF Trail, InScope, auditVars
  <2>4. MetricsSound'
    BY <1>0, <2>1, <2>2, <2>3 DEF MetricsSound
  <2> QED BY <1>3, <2>1, <2>2, <2>4
<1>11. CASE UNCHANGED dashboardVars
  <2>1. now' = now /\ record' = record /\ walk' = walk /\ metrics' = metrics
    BY <1>11 DEF dashboardVars, auditVars
  <2>2. Grows /\ now' \in Times
    BY <1>0, <2>1 DEF Grows, AuditTypeOK
  <2> QED BY <1>1, <2>1, <2>2
<1> QED
  BY <1>4, <1>5, <1>6, <1>7, <1>8, <1>9, <1>10, <1>11 DEF DashboardNext

\* IInv is an inductive invariant of the trail, a walk and a metrics request.
THEOREM Invariance == DashboardSpec => []IInv
<1>1. DashboardInit => IInv
  <2> SUFFICES ASSUME DashboardInit PROVE IInv
    OBVIOUS
  <2> USE DEF DashboardInit, AuditInit
  <2>1. 1 \in 1..(1 + (Cardinality(Records) - 1) \div Limit)
    BY FirstPageExists
  <2>2. AuditTypeOK
    BY <2>1, AuditAssumption DEF AuditTypeOK, RecordState, NewRecord, WalkState, Header, Times
  <2>3. metrics \in MetricsState
    BY AuditAssumption DEF NoMetrics, MetricsState, Header, Times
  <2>4. WalkScoped /\ WalkSound /\ WalkSeesAll
    BY DEF WalkScoped, WalkSound, WalkSeesAll
  <2>5. MetricsSound
    BY DEF MetricsSound, NoMetrics
  <2> QED BY <2>2, <2>3, <2>4, <2>5 DEF IInv, DashboardTypeOK
<1> QED
  BY <1>1, StepKeeps, PTL DEF DashboardSpec

\* The trail and its readers are of their types, so a walk never asks for a page
\* beyond the ones its events could fill (the meta of buildPaginationMeta).
THEOREM TypeCorrect == DashboardSpec => []DashboardTypeOK
  BY Invariance, PTL DEF IInv

\* A walk over the pages of GET audit/events misses no event that was there when
\* it began and has a time of its own, however many are inserted meanwhile.
THEOREM WalkSafe == DashboardSpec => []WalkSeesAll
  BY Invariance, PTL DEF IInv

\* The two counts of an answered metrics request never share an event, miss none
\* of their days and stay within the tenant of the request's header.
THEOREM DaysSafe == DashboardSpec => []DaysDisjointAndComplete
<1>1. IInv => DaysDisjointAndComplete
  <2> SUFFICES ASSUME IInv, metrics.pc = "answered"
               PROVE  DaysDisjointAndComplete
    BY DEF DaysDisjointAndComplete
  <2> DEFINE last == metrics.counted["last24h"]
             prev == metrics.counted["prev24h"]
  <2>0. AuditTypeOK /\ metrics \in MetricsState
    BY DEF IInv, DashboardTypeOK
  <2>1. CountSound("last24h") /\ CountSound("prev24h")
    BY DEF IInv, MetricsSound, Counter
  <2>2. /\ metrics.asked \in Int /\ Day \in Int
        /\ \A e \in Records : record[e].occurredAt \in Int
    BY <2>0, AuditAssumption, DashboardAssumption
       DEF AuditTypeOK, RecordState, MetricsState, Times
  <2>3. last \subseteq Records /\ prev \subseteq Records
    BY <2>1 DEF CountSound, Trail
  <2>4. last \cap prev = {}
    <3> SUFFICES ASSUME NEW e \in last, e \in prev PROVE FALSE
      OBVIOUS
    <3>1. record[e].occurredAt >= metrics.asked - Day
      BY <2>1 DEF CountSound, InDay
    <3>2. record[e].occurredAt < metrics.asked - Day
      BY <2>1 DEF CountSound, InDay
    <3> QED BY <2>2, <2>3, <3>1, <3>2
  <2>5. metrics.start \cap Since(metrics.asked - 2 * Day) \subseteq last \cup prev
    <3> SUFFICES ASSUME NEW e \in metrics.start, e \in Since(metrics.asked - 2 * Day)
                 PROVE  e \in last \cup prev
      OBVIOUS
    <3>1. e \in Records /\ record[e].occurredAt >= metrics.asked - 2 * Day
      BY DEF Since
    <3>2. CASE record[e].occurredAt >= metrics.asked - Day
      BY <2>1, <3>2 DEF CountSound, InDay
    <3>3. CASE record[e].occurredAt < metrics.asked - Day
      BY <2>1, <3>1, <3>3 DEF CountSound, InDay
    <3> QED BY <2>2, <3>1, <3>2, <3>3
  <2>6. \A e \in last \cup prev : record[e].tenant = metrics.tenant
    BY <2>1 DEF CountSound, Trail, InScope
  <2> QED BY <2>4, <2>5, <2>6 DEF DaysDisjointAndComplete
<1> QED
  BY <1>1, Invariance, PTL

\* percentChange is a whole number of tenths.
LEMMA ChangeIsInteger ==
  ASSUME NEW current \in Nat, NEW previous \in Nat
  PROVE  PercentChange(current, previous) \in Int
  BY DEF PercentChange

\* percentChange is within half a tenth of the exact change.
LEMMA ChangeRounded ==
  ASSUME NEW current \in Nat, NEW previous \in Nat,
         NEW denominator \in Nat, denominator = IF previous = 0 THEN 1 ELSE previous,
         NEW error \in Int,
         error = PercentChange(current, previous) * denominator - 1000 * (current - previous)
  PROVE  2 * error <= denominator /\ 0 - denominator <= 2 * error
<1> DEFINE q == PercentChange(current, previous)
           a == 2000 * (current - previous) + denominator
           b == 2 * denominator
<1>1. denominator \in Nat \ {0} /\ denominator = IF previous > 1 THEN previous ELSE 1
  OBVIOUS
<1>2. q = a \div b
  <2>1. CASE previous > 1
    <3>1. denominator = previous
      BY <1>1, <2>1
    <3> QED BY <2>1, <3>1 DEF PercentChange
  <2>2. CASE ~(previous > 1)
    <3>1. denominator = 1
      BY <1>1, <2>2
    <3> QED BY <2>2, <3>1 DEF PercentChange
  <2> QED BY <2>1, <2>2
<1>3. /\ q \in Int
      /\ (2 * denominator) * q <= 2000 * (current - previous) + denominator
      /\ 2000 * (current - previous) + denominator < (2 * denominator) * q + 2 * denominator
  <2>1. a \in Int /\ b \in Nat \ {0}
    BY <1>1
  <2> HIDE DEF a, b, q
  <2>2. q \in Int /\ b * q <= a /\ a < b * q + b
    BY <1>2, <2>1, Division
  <2> QED BY <2>2 DEF a, b
<1> HIDE DEF q, a, b
<1>4. q * denominator \in Int /\ (2 * denominator) * q = 2 * (q * denominator)
  BY <1>1, <1>3
<1>5. error = q * denominator - 1000 * (current - previous)
  BY DEF q
<1> QED
  BY <1>1, <1>3, <1>4, <1>5

\* The trend an answered request shows is rounded to one decimal.
THEOREM TrendSafe == DashboardSpec => []TrendRounded
<1>1. IInv => TrendRounded
  <2> SUFFICES ASSUME IInv, metrics.pc = "answered"
               PROVE  TrendRounded
    BY DEF TrendRounded
  <2>1. \A c \in Counter : metrics.counted[c] \in SUBSET Records
    BY DEF IInv, DashboardTypeOK, MetricsState
  <2>2. \A c \in Counter : Cardinality(metrics.counted[c]) \in Nat
    BY <2>1, AuditAssumption, FS_Subset, FS_CardinalityType
  <2>3. /\ Cardinality(metrics.counted["last24h"]) \in Nat
        /\ Cardinality(metrics.counted["prev24h"]) \in Nat
    BY <2>2 DEF Counter
  <2> DEFINE current     == Cardinality(metrics.counted["last24h"])
             previous    == Cardinality(metrics.counted["prev24h"])
             denominator == IF previous = 0 THEN 1 ELSE previous
             error       == PercentChange(current, previous) * denominator
                              - 1000 * (current - previous)
  <2>4. 2 * error <= denominator /\ 0 - denominator <= 2 * error
    <3>1. current \in Nat /\ previous \in Nat
      BY <2>3
    <3> HIDE DEF current, previous
    <3>2. denominator = (IF previous = 0 THEN 1 ELSE previous) /\ denominator \in Nat
      BY <3>1
    <3> HIDE DEF denominator
    <3>3. error = PercentChange(current, previous) * denominator
                    - 1000 * (current - previous)
      OBVIOUS
    <3>4. error \in Int
      BY <3>1, <3>2, ChangeIsInteger
    <3> HIDE DEF error
    <3> QED BY <3>1, <3>2, <3>3, <3>4, ChangeRounded
  <2> QED BY <2>4 DEF TrendRounded
<1> QED
  BY <1>1, Invariance, PTL
===============================================================================
