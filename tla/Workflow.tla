------------------------------- MODULE Workflow -------------------------------
(***************************************************************************)
(* Workflow executions: triggered by a command, run by an external engine, *)
(* cancelled, read and listed over HTTP.                                   *)
(*                                                                         *)
(* A writer loads an execution, changes it in memory and saves it.  Save   *)
(* reads the row once more and updates the columns that differ from the    *)
(* entity, undefined ones excepted, without lock or version.  Times are    *)
(* represented by the call that took them.  No code in the repository      *)
(* creates or changes definitions: they are constant.                      *)
(***************************************************************************)
EXTENDS RequestContext

CONSTANTS
  Requests,          \* calls, each made at most once
  Kind,              \* what a call does
  Definitions,
  DefinitionTenant,  \* the tenant of a definition
  IsActive,          \* whether its status is 'active'
  Null,              \* an empty column
  Undefined          \* a property the entity does not have

\* The id of an execution is fresh: the call that triggers it stands for it.
Executions == {r \in Requests : Kind[r] = "trigger"}

ASSUME WorkflowAssumption ==
  /\ Kind \in [Requests -> {"trigger", "start", "finish", "cancel", "read"}]
  /\ DefinitionTenant \in [Definitions -> Tenants]
  /\ IsActive \in [Definitions -> BOOLEAN]
  /\ Null \notin Requests
  /\ Undefined \notin Requests \cup {Null}
  /\ Undefined \notin {"pending", "running", "completed", "failed", "cancelled"}

VARIABLES
  executions,  \* the workflow_executions table
  req,         \* per call: its state
  published,   \* executions whose workflow.triggered event the bus has taken
  contended    \* history: executions that two writers had loaded at once

vars == <<executions, req, published, contended>>

(***************************************************************************)
(* Types.                                                                  *)
(***************************************************************************)
Absent == [status |-> "absent"]

Status == {"pending", "running", "completed", "failed", "cancelled"}

Terminal == {"completed", "failed", "cancelled"}

Time == Requests \cup {Null}

\* errorMessage is undefined in an entity loaded from an empty column.
Columns(error) ==
  [definition : Definitions, tenant : Tenants, status : Status,
   startedAt : Time, completedAt : Time, durationMs : Time, errorMessage : error]

Row == Columns(Time)

Entity == Columns(Requests \cup {Undefined})

\* tenant is the call's context, entity the execution it changes, loaded the
\* row that save has read, seen the executions it was answered with and claim
\* the tenant of the token they were asked for with.
RequestState ==
  [pc        : {"new", "insert", "publish", "save", "write", "answered"},
   tenant    : Header,
   execution : Executions \cup {Absent},
   entity    : Entity \cup {Absent},
   loaded    : Row \cup {Absent},
   seen      : SUBSET Executions,
   claim     : Header,
   answer    : Answer \cup {"none"}]

NewRequest ==
  [pc |-> "new", tenant |-> NoTenant, execution |-> Absent, entity |-> Absent,
   loaded |-> Absent, seen |-> {}, claim |-> NoTenant, answer |-> "none"]

\* Type invariant: no column of an execution is ever undefined, and its
\* definition and tenant survive every save.
TypeOK ==
  /\ executions \in [Executions -> Row \cup {Absent}]
  /\ req \in [Requests -> RequestState]
  /\ published \subseteq Executions
  /\ contended \subseteq Executions

Init ==
  /\ executions = [e \in Executions |-> Absent]
  /\ req = [r \in Requests |-> NewRequest]
  /\ published = {}
  /\ contended = {}

Exists(e) == executions[e] # Absent

(***************************************************************************)
(* WorkflowExecutionEntity.                                                *)
(***************************************************************************)
CreateExecution(d, tenant) ==
  [definition |-> d, tenant |-> tenant, status |-> "pending", startedAt |-> Null,
   completedAt |-> Null, durationMs |-> Null, errorMessage |-> Undefined]

\* The duration is taken only of an execution that has a start.
Duration(x, r) == IF x.startedAt = Null THEN x.durationMs ELSE r

Start(x, r) == [x EXCEPT !.status = "running", !.startedAt = r]

Complete(x, r) ==
  [x EXCEPT !.status = "completed", !.completedAt = r, !.durationMs = Duration(x, r)]

Fail(x, r) ==
  [x EXCEPT !.status = "failed", !.completedAt = r, !.errorMessage = r]

\* Mutant: a cancelled execution gets no completion time.
CancelOpenEnded(x, r, reason) ==
  [x EXCEPT !.status = "cancelled",
            !.errorMessage = IF reason THEN r ELSE x.errorMessage]

Cancel(x, r, reason) ==
  [x EXCEPT !.status = "cancelled", !.completedAt = r, !.durationMs = Duration(x, r),
            !.errorMessage = IF reason THEN r ELSE x.errorMessage]

\* Mutant: an execution that has failed may still be cancelled.
CancellableUnlessDone(x) == x.status \notin {"completed", "cancelled"}

\* Mutant: only a running execution may be cancelled.
CancellableRunning(x) == x.status = "running"

Cancellable(x) == x.status \notin Terminal

(***************************************************************************)
(* WorkflowDefinitionRepository and WorkflowExecutionRepository.           *)
(***************************************************************************)
FindDefinition(tenant, d) == InScope(tenant, [tenant |-> DefinitionTenant[d]])

FindById(tenant, e) == Exists(e) /\ InScope(tenant, executions[e])

ToDomain(row) ==
  [row EXCEPT !.errorMessage = IF row.errorMessage = Null THEN Undefined
                                                          ELSE row.errorMessage]

\* Mutant: properties without a value are written as well.
PersistedUndefined(row, loaded, entity) ==
  [c \in DOMAIN row |-> IF entity[c] # loaded[c] THEN entity[c] ELSE row[c]]

\* The columns that differ between the entity and the row save has loaded.
Persisted(row, loaded, entity) ==
  [c \in DOMAIN row |-> IF entity[c] \notin {Undefined, loaded[c]} THEN entity[c]
                                                                   ELSE row[c]]

\* findMany: the executions of one status, or of any.
Matching(tenant, filter) ==
  {e \in Executions : FindById(tenant, e) /\ executions[e].status \in filter}

\* The row an insert makes: what is undefined becomes empty.
Inserted(entity) == [entity EXCEPT !.errorMessage = Null]

(***************************************************************************)
(* How calls go on and end.                                                *)
(***************************************************************************)
Begins(r, kind) ==
  /\ Kind[r] = kind
  /\ req[r].pc = "new"

\* About execution e; what the call had in memory is gone.
AnswersOn(r, e, answer) ==
  req' = [req EXCEPT ![r] = [@ EXCEPT !.pc = "answered", !.answer = answer, !.execution = e,
                                      !.entity = Absent, !.loaded = Absent]]

Answers(r, answer) == AnswersOn(r, req[r].execution, answer)

\* Changed in memory, to be saved.
Loaded(r, tenant, e, entity) ==
  /\ req' = [req EXCEPT ![r].pc = "save", ![r].tenant = tenant,
                        ![r].execution = e, ![r].entity = entity]
  /\ contended' = contended \cup
       {x \in {e} : \E q \in Requests : req[q].pc \in {"save", "write"}
                                          /\ req[q].execution = x}
  /\ UNCHANGED <<executions, published>>

(***************************************************************************)
(* TriggerWorkflowHandler, called with a tenant of its own beside the      *)
(* tenant context.                                                         *)
(***************************************************************************)
TriggerWorkflow(r) ==
  /\ Begins(r, "trigger")
  /\ \E tenant \in Header, commandTenant \in Tenants, d \in Definitions :
       LET execution == CreateExecution(d, commandTenant)
           refusal   == IF ~RequireTenantId(tenant) THEN {"500"}
                        ELSE IF ~FindDefinition(tenant, d) THEN {"404"}
                        ELSE IF ~IsActive[d] THEN {"500"}
                        ELSE IF ~MayWrite(tenant, execution) THEN {"403"}
                        ELSE {}
       IN  \/ \E answer \in refusal : Answers(r, answer)
           \/ /\ refusal = {}
              /\ req' = [req EXCEPT ![r].pc = "insert", ![r].tenant = tenant,
                                    ![r].execution = r, ![r].entity = execution]
  /\ UNCHANGED <<executions, published, contended>>

InsertExecution(r) ==
  /\ req[r].pc = "insert"
  /\ executions' = [executions EXCEPT ![r] = Inserted(req[r].entity)]
  /\ req' = [req EXCEPT ![r].pc = "publish"]
  /\ UNCHANGED <<published, contended>>

PublishTriggered(r) ==
  /\ req[r].pc = "publish"
  /\ published' = published \cup {r}
  /\ Answers(r, "200")
  /\ UNCHANGED <<executions, contended>>

\* The bus throws; the execution stays.
PublishFails(r) ==
  /\ req[r].pc = "publish"
  /\ Answers(r, "500")
  /\ UNCHANGED <<executions, published, contended>>

(***************************************************************************)
(* CancelWorkflowExecutionHandler behind POST executions/:id/cancel.       *)
(***************************************************************************)
CancelExecution(r) ==
  /\ Begins(r, "cancel")
  /\ \E token \in Tokens, tenant \in Header, e \in Executions, reason \in BOOLEAN :
       LET refused == Refusal(token, tenant, "admin")
           found   == FindById(tenant, e)
       IN  \/ /\ \E answer \in refused : Answers(r, answer)
              /\ UNCHANGED <<executions, published, contended>>
           \/ /\ refused = {} /\ ~found
              /\ Answers(r, "404")
              /\ UNCHANGED <<executions, published, contended>>
           \/ /\ refused = {} /\ found /\ ~Cancellable(executions[e])
              /\ AnswersOn(r, e, "409")
              /\ UNCHANGED <<executions, published, contended>>
           \/ /\ refused = {} /\ found /\ Cancellable(executions[e])
              /\ MayWrite(tenant, executions[e])
              /\ Loaded(r, tenant, e, Cancel(ToDomain(executions[e]), r, reason))

(***************************************************************************)
(* The engine, in the context of the execution's tenant: it starts what    *)
(* was announced and finishes what it finds running.  The bus hands it an  *)
(* announcement once (RedisStreamsBus, HandledAtMostOnce), so it starts an *)
(* execution again only when saving the start before has failed.           *)
(***************************************************************************)
TakenUp(e) ==
  \E q \in Requests : Kind[q] = "start" /\ req[q].execution = e /\ req[q].answer # "500"

StartExecution(r) ==
  /\ Begins(r, "start")
  /\ \E e \in published :
       /\ ~TakenUp(e)
       /\ executions[e].status = "pending"
       /\ Loaded(r, executions[e].tenant, e, Start(ToDomain(executions[e]), r))

FinishExecution(r) ==
  /\ Begins(r, "finish")
  /\ \E e \in Executions :
       /\ executions[e].status = "running"
       /\ \E x \in {Complete(ToDomain(executions[e]), r), Fail(ToDomain(executions[e]), r)} :
            Loaded(r, executions[e].tenant, e, x)

(***************************************************************************)
(* save of an execution that is there.                                     *)
(***************************************************************************)
SaveLoads(r) ==
  /\ req[r].pc = "save"
  /\ req' = [req EXCEPT ![r].pc = "write", ![r].loaded = executions[req[r].execution]]
  /\ UNCHANGED <<executions, published, contended>>

SaveWrites(r) ==
  /\ req[r].pc = "write"
  /\ executions' = [executions EXCEPT ![req[r].execution] =
                      Persisted(@, req[r].loaded, req[r].entity)]
  /\ Answers(r, "200")
  /\ UNCHANGED <<published, contended>>

SaveFails(r) ==
  /\ req[r].pc \in {"insert", "save", "write"}
  /\ Answers(r, "500")
  /\ UNCHANGED <<executions, published, contended>>

(***************************************************************************)
(* GetWorkflowExecutionHandler and ListWorkflowExecutionsHandler.          *)
(***************************************************************************)
Sees(r, token, tenant, es) ==
  req' = [req EXCEPT ![r].pc = "answered", ![r].answer = "200", ![r].tenant = tenant,
                     ![r].seen = es, ![r].claim = token.tenant]

GetExecution(r) ==
  /\ Begins(r, "read")
  /\ \E token \in Tokens, tenant \in Header, e \in Executions :
       LET refused == Refusal(token, tenant, "member")
       IN  \/ \E answer \in refused : Answers(r, answer)
           \/ refused = {} /\ ~FindById(tenant, e) /\ Answers(r, "404")
           \/ refused = {} /\ FindById(tenant, e) /\ Sees(r, token, tenant, {e})
  /\ UNCHANGED <<executions, published, contended>>

\* Any page of the executions; which one, and its order, are left open.
ListExecutions(r) ==
  /\ Begins(r, "read")
  /\ \E token \in Tokens, tenant \in Header, filter \in {Status} \cup {{s} : s \in Status} :
       LET refused == Refusal(token, tenant, "member")
       IN  \/ \E answer \in refused : Answers(r, answer)
           \/ /\ refused = {}
              /\ \E page \in SUBSET Matching(tenant, filter) : Sees(r, token, tenant, page)
  /\ UNCHANGED <<executions, published, contended>>

-------------------------------------------------------------------------------
Next ==
  \E r \in Requests :
    \/ TriggerWorkflow(r)
    \/ InsertExecution(r)
    \/ PublishTriggered(r)
    \/ PublishFails(r)
    \/ CancelExecution(r)
    \/ StartExecution(r)
    \/ FinishExecution(r)
    \/ SaveLoads(r)
    \/ SaveWrites(r)
    \/ SaveFails(r)
    \/ GetExecution(r)
    \/ ListExecutions(r)

Spec == Init /\ [][Next]_vars

-------------------------------------------------------------------------------
(***************************************************************************)
(* Properties.                                                             *)
(***************************************************************************)

\* An execution in a terminal status has its completion time, whatever cancels
\* and engine steps overwrite each other's columns.
TerminalHasCompletion ==
  \A e \in Executions : executions[e].status \in Terminal => executions[e].completedAt # Null

\* A cancel answered with success means that the execution is cancelled, and
\* one answered with a conflict that it had ended, both for good, unless
\* another writer had loaded the execution at the same time.
CancelAnswerHolds ==
  \A r \in Requests : Kind[r] = "cancel" =>
    LET e == req[r].execution
    IN  /\ req[r].answer = "200" /\ e \notin contended => executions[e].status = "cancelled"
        /\ req[r].answer = "409" /\ e \notin contended => executions[e].status \in Terminal

\* Executions stay with the tenant of the definition they came from, although
\* a trigger names a tenant of its own beside its context and saves mix columns
\* of two writers; and a reader is shown the executions of one tenant, the one
\* its x-tenant-id header names.  OwnTenantOnly says whose that should be.
ContextIsolation ==
  /\ \A e \in Executions :
       Exists(e) => executions[e].tenant = DefinitionTenant[executions[e].definition]
  /\ \A r \in Requests : \A e \in req[r].seen : executions[e].tenant = req[r].tenant

\* "JWT sub-claim (tenantId) - trusted, signed" comes first and the header is
\* "only trusted on internal/system routes": callers are shown executions of the
\* tenant their token was issued for.
OwnTenantOnly ==
  \A r \in Requests : \A e \in req[r].seen : executions[e].tenant = req[r].claim

\* An execution that has ended keeps its status and its completion time, unless
\* two writers had loaded it at the same time: cancel refuses what has ended,
\* and the engine takes up only what is pending or running.
TerminalSticks ==
  [][\A e \in Executions \ contended : executions[e].status \in Terminal =>
       /\ executions'[e].status = executions[e].status
       /\ executions'[e].completedAt = executions[e].completedAt]_executions
===============================================================================
