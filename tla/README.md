# Atlas SaaS platform: TLA+ models and proofs

The repository is a NestJS modular monolith (`apps/api`) with two libraries
(`libs/shared-kernel`, `libs/event-contracts`), PostgreSQL through TypeORM, an
event bus (in memory or Redis Streams), and an outbox that forwards events to an
external backbone, "Event Streaming". Several instances of the API may run
against one database and one Redis.

`PROJECT.json` lists components, runs, mutants, the map from definitions to
source lines, findings, hazards and theorems.

## 1. Inventory

| Component | State | Operations | Interacts with |
|---|---|---|---|
| Outbox (`modules/outbox`) | `outbox_entries` rows: status, attempts, createdAt; batches in flight | `processBatch` on a 5 s timer: `findPending`, `ingest`, `markProcessed` / `recordAttemptFailure`, `save` | written by the forwarding bus, posts to the backbone, reset by an operator (ADR-012) |
| Forwarding bus (`platform-events`) | none | `publish`: inner bus, then outbox insert (best effort) | wraps either bus |
| Event Streaming client | none | `ingest` with abort after `timeoutMs` | external backbone |
| Redis Streams bus | streams, consumer group, pending list, DLQ in Redis; handlers map, one consumer connection, sweeps in the process | `publish`, `subscribe`, `unsubscribe`, a sweep every 100 ms, `onModuleDestroy` | Redis, event handlers |
| In-memory bus | handlers map | `publish`, `subscribe`, `unsubscribe` | event handlers |
| Tenant core | `organizations` rows | create, update, suspend | event bus, identity, bootstrap |
| Identity | `users` rows | register, authenticate | organizations, event bus |
| Workflow | `workflow_definitions`, `workflow_executions` | trigger, cancel, queries | event bus, external engine |
| Audit | append-only `audit_events` | record, query | event bus |
| Tenant context, repositories | AsyncLocalStorage per request | middleware, `requireTenantId`, scoping | every tenant-scoped repository |
| Guards, exception filter | none | JWT and role checks, status of errors | every controller |
| Dashboard | none | metrics, event series | audit events, executions, organizations |
| Bootstrap script | none | provision user, provision organization | users, organizations |

What is hard, and where a unit test with mocked repositories sees nothing:

* timers that start work without waiting for the previous run (outbox, Redis
  bus), and several instances doing so;
* load, change, save without lock or version everywhere: stale copies are
  written back (outbox, organizations, users, executions);
* calls whose outcome stays unknown (a timed-out `ingest`), crashes between an
  external effect and its record;
* blocking reads on a connection shared with everything else.

What makes each component correct: the outbox never claims a delivery that did
not happen, gives up only after the stated number of attempts and settles every
entry; the bus hands each event to its handlers and acknowledges only what was
handled; organizations keep unique slugs, their suspension, and announce what
happened to them; users keep unique addresses, and a token names a user who was
let in and a tenant he owns; a run of the bootstrap script that reports success
has made both its user and its organization; an execution that has ended stays
as it ended, and a cancel's answer is true; a reader sees rows of one tenant
only, which ought to be the one his token names; a walk over the audit trail misses nothing that was there when it began,
and the dashboard's two days neither overlap nor leave a gap.

## 2. Modules

| Module | Models | Checked by |
|---|---|---|
| `Outbox` | forwarding bus, outbox table, processor, life of instances, operator reset | `MCOutbox` |
| `OutboxSequential` | `Outbox` with non-overlapping batches, mapped to `EventForwarder` | `MCOutbox` |
| `EventForwarder` | abstract specification: what the outbox promises | through `ForwarderSpec` |
| `OutboxProofs`, `OutboxSequentialProofs` | theorems about the two above | tlapm |
| `RedisStreamsBus` | the Redis Streams bus and the part of Redis it uses | `MCRedisStreamsBus` |
| `BusProofs` | theorems about it | tlapm |
| `TenantCore` | organizations and the bootstrap script's organization | `MCTenantCore`, `MCIdentity` |
| `Identity` | users, login and the bootstrap script, composed with `TenantCore` | `MCIdentity` |
| `IdentityProofs` | theorems about users and organizations together | tlapm |
| `RequestContext` | tenant context, guards, repository scope, error status (operators) | through the three below |
| `Workflow` | executions: trigger, cancel, reads, the engine | `MCWorkflow` |
| `WorkflowProofs` | theorems about it | tlapm |
| `Audit` | the audit trail and a paginated walk over it | `MCDashboard` |
| `Dashboard` | metrics over the trail of `Audit` | `MCDashboard` |
| `DashboardProofs` | theorems about the walk and the metrics | tlapm |

### Outbox

`rows` is the table, one row per event id (the unique constraint). `phase` says
how far the `publish` call of an event got. `batch` holds, per slot, an
invocation of `processBatch`: the snapshot `findPending` returned, the entry
being worked on and the row `save` loaded. Every `await` ends an action:
`FindPending`; `Ingest` and its three outcomes (`IngestSucceeds`, `IngestFails`,
and later perhaps `LateArrival`, when a request the client gave up reaches the
backbone after all); `SaveLoads` and `SaveUpdates`, because TypeORM's `save`
selects the row and then updates the columns that differ; `SaveFails`. A failing
`findPending` changes nothing and is a stuttering step. `received` and `late`
stand for the backbone, which is external. `failures` is a history variable.
`SchemaCurrent` says whether the table has the columns the entity declares; the
migrations in the repository do not create them, and the runs assume the missing
migration. `GlobalEvents` are the events published with tenant `'global'`, which
the uuid column of the table refuses (`outbox_overlap` has one). `failures` counts
over the whole life of an entry, so after an operator's reset
`GivenUpAfterMaxAttempts` speaks of all the calls before and after it.

### Redis Streams bus

A sweep is one call of `consumePendingMessages`. All commands of an instance's
consumer connection form a queue (`conn`) that Redis serves in order
(`Serve...`): a read blocks the queue until its stream has something new. The
array of handlers is shared between the map and the sweeps as in the code:
`subscribe` pushes in place, `unsubscribe` installs a new array and leaves the
old one to the sweeps that walk it (`live`, `hs`). As no handler is in an array
twice, its `filter` removes one position. The catch around a read for a
missing group is unreachable in the model: `XGROUP CREATE` always precedes the
first read of a type on the same connection. Event contents and the order of
handlers across types are not modelled; neither are lost connections and what
ioredis resends. Nothing in the repository calls `subscribe` yet, so the
handlers are those a module could register.

### Tenant core

Each call happens once and stands for the organization it creates. `entity` is
the aggregate in memory, `loaded` the row `save` read, `events` the aggregate's
`domainEvents`. What a repository returns is rebuilt from the row and carries no
events, which is what `tenant_events` shows. `Normal` is the trimming and
lower-casing of `TenantSlug.create`; `existsBySlug` is asked with the slug as
written. A name is checked by `rename` only: creations store what they are given.
`GuardTenantRoot` compares the id asked for with the tenant context.

### Identity

`AccountsSpec` runs users and organizations together. `call` is the progress of
a registration, a login or a run of the bootstrap script with its user, `req` of
`TenantCore` the progress of the same script with its organization: `HasUser` is
the order in which `run` awaits the two. The lookup of an address and the insert
are different steps because the password is hashed in between; the insert meets
the unique index. A login reads the user, then the organization, saves the
user's last login and signs. `BootstrapDies` kills the script at any point, and
two calls of kind `bootstrap` are two runs of it, after each other or at once,
each with an address and a slug of its own, the same or different (`Config`). A
run that finds an organization with its slug reports that one, so `req` records
it like one the run has made. `BootstrapOutcome` says what a reported success is
worth: the admin is stored, and active unless somebody had registered the address;
the organization exists; and it is his, and not in provisioning, except when a
creation of the API or a run for another admin had taken the slug. The endpoints on organizations need a
token somebody was issued; which organization they act on comes from the
`x-tenant-id` header. Statuses of users never change once stored, as nothing
calls `suspend`, so what a login saves is its own column only.

### Request context

Operators that the endpoints of `Workflow`, `Audit` and `Dashboard` share:
`Refusal` is what a caller is answered before the handler finds anything (401,
403 for the role, 500 without a tenant context), `InScope` and `MayWrite` are the
two tenant checks of `TenantScopedRepository`. A token carries the tenant it was
signed for, but only the header gives the context: a valid token without the
header is answered 500, and one with the header of another tenant acts in that
tenant, which is what `tenant_claim` shows. The tenant that
`ContextIsolation` and `DaysDisjointAndComplete` speak of is the header's.

### Workflow

`executions` is the table, `req` the calls. A writer loads the row (`Loaded`),
and saves in two steps, `SaveLoads` and `SaveWrites`, as TypeORM does.
`Persisted` writes the columns that differ and are not undefined. Empty columns
are `Null`; `errorMessage` becomes `Undefined` in an entity, as in `toDomain`.
Times are represented by the call that took them. The engine that starts and
finishes executions is external: it uses the entity's `start`, `complete` and
`fail` through the same repository. It starts an execution once (`TakenUp`), and
again only if saving that start failed. ADR-003:40 and ADR-009:32, 75 describe
at-least-once delivery, so this supposes an engine that recognises a repeated
announcement, the idempotence ADR-009:75 asks of workflows.
The code needs the assumption: `start` checks the copy it was given, so
the save of a second start that loaded the execution in time would empty the
completion time of one that has ended. Publication may fail after the insert.
`contended` records executions that two writers had loaded at once, the only way
the promises of `TerminalSticks` and `CancelAnswerHolds` are lost;
`TerminalHasCompletion`, `TypeOK` and `ContextIsolation` hold even then.
`claim` keeps the header of each call, and `OwnTenantOnly` compares what a caller
was shown with the tenant of his token.

### Audit and dashboard

An event takes its time when its handler begins and is inserted later, perhaps
after events with a later time. A walk asks for page after page while
`hasNextPage` holds; each page is two statements, rows and count, and rows with
equal times come in any order. `metrics` is a request for the dashboard: the two
counts that are compared are answered one by one while events go on being
inserted. The trend is in tenths of a percent. `GetEventSeries` always fails: the
query selects `"occurredAt"`, and the entity names the column `occurred_at`,
contrary to the comment above the query.

## 3. Runs

| Run | Bounds | Shows |
|---|---|---|
| `outbox_overlap` | 1 event and one the table refuses, 2 instances with a batch of size 1 each, 1 fault, 1 reset | `TypeOK`, `ProcessedWasReceived`, `GivenUpAfterMaxAttempts`, `ForwardedWasAccepted` under overlapping batches; `EventuallySettled` although statuses bounce |
| `outbox_sequential` | 2 events, 1 batch of size 1, 1 fault, 1 reset | `SnapshotIsCurrent`, refinement of `EventForwarder`, `EventuallySettled` with a backlog larger than a batch |
| `bus_safety` | 2 events, 2 handlers, 2 instances, 1 fault | `TypeOK`, `HandledAtMostOnce`, `AckedWasHandled` |
| `bus_live` | 2 events of one type, 2 handlers, 2 sweeps of one instance, no faults, 1 unsubscribe, streams trimmed to 1 | `AckedWasHandled`, `AtLeastOnce` |
| `accounts` | 2 runs of the script with any of 3 addresses and 2 slugs (one of each invalid), 1 registration, login, creation, update and suspension, 3 addresses and 3 slugs for these (of each, one invalid and one in two spellings), all concurrent | `AccountsTypeOK`, `SlugsUnique`, `EmailsUnique`, `TokenBound`, `BootstrapOutcome`, `OwnerFirst`, `SuspensionSticks` |
| `workflow` | 1 trigger, finish and read, 2 starts, 2 cancels, 3 definitions of 2 tenants, tokens of both and any header | `TypeOK`, `TerminalHasCompletion`, `CancelAnswerHolds`, `ContextIsolation`, `TerminalSticks` |
| `dashboard` | 4 records of 2 tenants, pages of 2, times 0 to 3, a day of 1 | `DashboardTypeOK`, `WalkSeesAll`, `DaysDisjointAndComplete`, `TrendRounded` |

Two batches are enough for a stale save (one that fetched before and saves after
the other) and an attempt limit of 2 for a lost increment; the two events of
`outbox_sequential` exceed its batch limit of 1.
In `bus_live` and in the violation runs of the bus, one or two sweeps stand for
the many a real timer starts: further ones only queue behind the same connection.
Two runs of the script are the least that race each other and that repeat a dead
one. Two cancels and the engine's two steps give every pair of writers, and the
second start the one that follows a failed save. Four
records give two full pages and one that shifts them; a day of one tick makes
every boundary an instant at which events happen. Records and tenants of the
`dashboard` run are symmetric, and so are the two runs of the script in `accounts`.
Deadlock checking is off: every system here may stop, because events, calls and
faults are bounded.

Runs that find a documented promise broken, each a finding in `PROJECT.json`:

| Run | Promise | What happens |
|---|---|---|
| `outbox_settled` | pending → processed/failed | a stale save takes a processed entry back to pending |
| `bus_idle_type` | at-least-once delivery | an idle type's blocking read starves the others |
| `bus_crash` | at-least-once, survives restart | events read before a crash are never read again |
| `tenant_events` | `tenant.created`, `tenant.suspended` are emitted | the events are lost in the repository's reconstitution |
| `tenant_claim` | the token's tenant comes first, the header counts on internal routes only | a token of one tenant with the header of another is shown the other's executions |

`SuspensionSticks` excludes the organizations two calls had loaded at once
(`contended`): an update that loaded the organization before the suspension saves
the old status back. No document promises otherwise, so the project records it
as a hazard and checks that overlap is the only way to it. `TerminalSticks` and
`CancelAnswerHolds` do the same for executions.

Other disagreements met while modelling, which have no run of their own:

* `forwarding.event-bus.ts:8` says every published event is written to the
  outbox; `user.registered` has tenant `'global'`, which is no uuid, so it is not.
* ADR-010 says all envelope fields have columns in `outbox_entries`; the migration
  lacks six of them and the application does not synchronise the schema. The
  audit and workflow entities likewise use column names (`tenantId`, `actorId`,
  `startedAt`, ...) that `InitialSchema` spells in snake case. The models follow
  the entities.
* `bootstrap-platform-admin.ts:20-21` says the bootstrap user is set as the
  organization's owner. A run that finds its slug taken (`:144-149`) leaves the
  owner as he is and still reports `ownerLinked: true` and role `OWNER`
  (`:231-236`, `:243`). `BootstrapOutcome` delimits it: only an organization that
  the API or a run for another admin made is reported wrongly.
* `dashboard.controller.ts:17-19` says that members read the metrics of their own
  tenant and that the tenant does not come from request input; it comes from the
  header, as in `tenant_claim`.
* The event series' query names a column the entity does not have (above).

### Fairness

`Outbox!FairSpec`: the timer of a running instance keeps starting batches, every
await of a batch or an outbox write settles (`ingest` aborts after `timeoutMs`,
database calls resolve or reject), a stopping process ends and a dead one is
replaced. Nothing is assumed of outcomes; faults and resets are bounded, because
unboundedly many would keep any entry from settling. `RedisStreamsBus!FairSpec`:
the timer ticks, handlers settle, Redis answers the head of a connection's queue
when it can, modules subscribe their handlers after start, a dead instance is
replaced.

## 4. Proofs

Every invariant and action property that a passing run checks is also a theorem,
for every value of the constants that the named assumptions of the modules
allow; so is the refinement of `EventForwarder`. Each proof module defines an
inductive invariant `IInv`, proves `Spec => []IInv` (`Invariance`) with one lemma
per action or per effect that actions share, and draws the properties from it.
The `IInv` of each module held on the instances of the runs before it was proved.
The assumptions say what the constants are (functions between the right sets,
normalisation is idempotent, finitely many events, a page limit between 1 and
200) and nothing about behaviour. The repository caps the limit at 200; that it is
at least 1 is left to the caller, as nothing validates it.

`OutboxProofs`: `TypeOK`, `ProcessedWasReceived`, `GivenUpAfterMaxAttempts` and
`ForwardedWasAccepted`. None of the three safety properties is inductive: a row
may become processed from a copy in some batch. The invariant adds that every
copy of an entry, in the table, in a snapshot or in a batch's hands, is `Backed`:
recorded if present, received if processed, failed at least `MaxAttempts` times
if failed, and with no more attempts than failures. The histories it refers to
only grow (`NextGrows`), so a stale copy stays backed (`BackedStays`), and `save`
mixes the columns of two backed rows (`PersistedColumns`).

`OutboxSequentialProofs` assumes a single batch slot and proves that its
snapshot is the table (`SnapshotCurrent`) and that the outbox implements
`EventForwarder` (`RefinesForwarder`). With two slots both are false.

`BusProofs`: `TypeOK`, `HandledAtMostOnce` and `AckedWasHandled`, with any number
of instances, sweeps, faults and unsubscriptions. An event that a read has
returned lies at or before its group's position, which never moves back, because
`XGROUP CREATE` fails on a group that exists (`GroupSound`); so no other read
returns it, and it is in one sweep's hands at most (`HeldSound`). While handlers
run for it, only those at the first `ran` positions of the sweep's array may
have been called (`DispatchesSound`); as no array holds a handler twice
(`ArraysSound`), the next one is new. `subscribe` lengthens the array a sweep
walks and `unsubscribe` leaves it the old one, and both keep these positions. For
the acknowledgement the invariant follows the command through the connection: a
sweep waits for one command at a time, and the event of an `XACK` under way is
`Finished`, held by nobody and without a failed handler (`ConnectionsSound`). An
array at work is not empty, so some handler has succeeded.

`IdentityProofs`: the properties of `accounts`, over users and organizations
together. Columns that no method changes (slug, owner, address) agree in all
copies of a row, so no save can lose them; an organization made by the script is
owned by the admin of that run (`OwnedByAdmin`). `TokenBound` and `BootstrapOutcome`
need that what a login or the script has looked up is still true when it is used
(`LoginSound`, `BootstrapSound`). That a token's organization is never in
provisioning comes from a fact about the whole program: an organization is in
provisioning if and only if the API created it, as no code ends the provisioning
of one (`Provisioning`), and a login resolves only the script's. For
`SuspensionSticks`, an organization that is not contended has one writer
(`OneWriter`), whose copy has the table's status or is suspended.

`WorkflowProofs`: the properties of `workflow`. `TerminalHasCompletion` holds even
for contended executions. What a stale save may still write is known from its
kind: a cancel and a finish write a completion time of their own, which no row
can have had before, so it always differs and is always written; only a start
writes an empty one, and then it writes `running` as well, because no other start
can have written that status (`OneStart`). `CancelAnswerHolds` and
`TerminalSticks` rest on `OneWriter` for executions that are not contended.

`DashboardProofs`: the properties of `dashboard`. For `WalkSeesAll`: an event that
the walk has not seen and that shares its time with no other has at least as many
newer events before it as the rows of the pages read so far (`Settled`). Inserts
only add newer ones, so they push an unseen event further down, never up; and
when there is no next page, all pages together hold the whole trail
(`PagesHoldAll`, `NextPageExists`), so nothing is unseen. `TrendSafe` is
arithmetic: `ChangeRounded` bounds the error of the rounding for all counts.

Model-checked only: liveness (`EventuallySettled`, `AtLeastOnce`), which the
prover does not reach, and the five runs that show a promise broken.

## 5. Plan

The modules of the plan are written and their safety properties proved. What is
left:

1. an abstract specification of the bus (an event is handed to each handler at
   most once, then settled or lost) and the proof that `RedisStreamsBus`
   implements it;
2. bus facts beyond the two properties: what is on the dead-letter stream was
   run and is not acknowledged, a pending event was delivered;
3. the conditions under which `StatusTransitions` and `AtLeastOnce`, which the
   code breaks, do hold, as far as they are safety properties.

## 6. Not modelled

The in-memory bus (a development adapter without persistence), the selection of
the bus, module wiring, event contracts and configuration: no state beyond what
is modelled elsewhere. `publishBatch` of the buses, `appendBatch`,
`findByDefinition`, `findByTriggerEvent`, `reactivate`, `updateSettings`, the
user's `suspend` and everything that changes a workflow definition have no
caller. Contents of events, log messages, HTTP headers and bodies, body
validation, password hashing and token signing are data or library code. The
filters of the audit query only restrict the rows a walk goes over. The
aggregation of the event series is never reached. Lost Redis connections and
what ioredis resends are outside the bus model.
