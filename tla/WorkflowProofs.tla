---------------------------- MODULE WorkflowProofs ----------------------------
(***************************************************************************)
(* Proofs about Workflow for every set of calls, definitions and tenants.  *)
(***************************************************************************)
EXTENDS Workflow, TLAPS

(***************************************************************************)
(* The inductive invariant.  What a stale writer may still write is known  *)
(* from its kind: a cancel and a finish carry a completion time of their   *)
(* own, which nobody can have written before, and only a start writes an   *)
(* empty one, together with the status running, because no other start of  *)
(* the execution can have written that status before it.                   *)
(***************************************************************************)
Writing(q) == req[q].pc \in {"save", "write"}

\* The table: ended means completed at some time, which is that of a call that
\* has been answered; untouched means without one.
RowSound(e) == Exists(e) =>
  /\ executions[e].tenant = DefinitionTenant[executions[e].definition]
  /\ executions[e].status \in Terminal => executions[e].completedAt # Null
  /\ executions[e].status = "pending" => executions[e].completedAt = Null
  /\ executions[e].status = "running" =>
       \E q \in Requests : Kind[q] = "start" /\ req[q].execution = e /\ req[q].answer = "200"
  /\ executions[e].completedAt \in Requests => req[executions[e].completedAt].pc = "answered"

\* What the entity of a writer says, by the kind of the call.
EntitySound(q, x) ==
  /\ x \in Entity
  /\ Kind[q] \in {"start", "finish", "cancel"}
  /\ Kind[q] = "start" => x.status = "running" /\ x.completedAt = Null
  /\ Kind[q] # "start" => x.status \in Terminal /\ x.completedAt = q
  /\ Kind[q] = "cancel" => x.status = "cancelled"

\* The entity of a writer, the row that its save has loaded and the row there is
\* now belong together, and agree as long as nobody else writes.
WriterSound(q, e, row) ==
  /\ e \in Executions
  /\ row \in Row
  /\ EntitySound(q, req[q].entity)
  /\ req[q].entity.tenant = row.tenant
  /\ req[q].entity.definition = row.definition
  /\ Kind[q] = "start" => row.status # "running"
  /\ e \notin contended => row.status \notin Terminal

LoadedSound(q, e, row) ==
  /\ req[q].loaded \in Row
  /\ req[q].loaded.tenant = row.tenant
  /\ req[q].loaded.definition = row.definition
  /\ req[q].loaded.completedAt # q
  /\ Kind[q] = "start" => req[q].loaded.status # "running"
  /\ row.status = "pending" => req[q].loaded.status = "pending"
  /\ e \notin contended => req[q].loaded = row

CallSound(q) ==
  /\ Kind[q] = "trigger" /\ req[q].pc \in {"new", "insert"} => executions[q] = Absent
  /\ req[q].pc \in {"insert", "publish"} => Kind[q] = "trigger" /\ req[q].execution = q
  /\ req[q].pc = "insert" =>
       \E d \in Definitions : req[q].entity = CreateExecution(d, DefinitionTenant[d])
  /\ req[q].pc = "publish" => Exists(q)
  /\ Writing(q) => WriterSound(q, req[q].execution, executions[req[q].execution])
  /\ req[q].pc = "write" => LoadedSound(q, req[q].execution, executions[req[q].execution])
  /\ \A e \in req[q].seen : Exists(e) /\ executions[e].tenant = req[q].tenant
  /\ req[q].pc # "answered" => req[q].answer = "none" /\ req[q].seen = {}
  /\ Kind[q] = "cancel" /\ req[q].answer \in {"200", "409"} => req[q].execution \in Executions

\* At most one start of an execution is under way or has succeeded.
OneStart ==
  \A p, q \in Requests :
    /\ Kind[p] = "start" /\ Kind[q] = "start" /\ req[p].execution = req[q].execution
    /\ req[p].pc # "new" /\ req[q].pc # "new"
    /\ req[p].answer # "500" /\ req[q].answer # "500"
    => p = q

\* An execution that is not contended has at most one writer.
OneWriter ==
  \A p, q \in Requests :
    /\ Writing(p) /\ Writing(q) /\ req[p].execution = req[q].execution
    /\ req[p].execution \notin contended
    => p = q

PublishedExist == \A e \in published : Exists(e)

IInv ==
  /\ TypeOK
  /\ \A e \in Executions : RowSound(e)
  /\ \A q \in Requests : CallSound(q)
  /\ OneStart
  /\ OneWriter
  /\ PublishedExist
  /\ CancelAnswerHolds

(***************************************************************************)
(* Facts about the entity and repository operators.                        *)
(***************************************************************************)

\* A row and the entity made of it have the same columns, but for the error.
LEMMA ToDomainTypes ==
  ASSUME NEW row \in Row
  PROVE  /\ ToDomain(row) \in Entity
         /\ ToDomain(row).status = row.status
         /\ ToDomain(row).tenant = row.tenant
         /\ ToDomain(row).definition = row.definition
         /\ ToDomain(row).completedAt = row.completedAt
BY WorkflowAssumption DEF Row, Entity, Columns, ToDomain, Time

\* What start, complete and fail make of an entity is what EntitySound says of
\* a writer, and none of them changes its tenant or definition.
LEMMA EngineMethods ==
  ASSUME NEW r \in Requests, NEW x \in Entity
  PROVE  /\ Start(x, r) \in Entity /\ Complete(x, r) \in Entity /\ Fail(x, r) \in Entity
         /\ Start(x, r).status = "running" /\ Start(x, r).completedAt = x.completedAt
         /\ Complete(x, r).status \in Terminal /\ Complete(x, r).completedAt = r
         /\ Fail(x, r).status \in Terminal /\ Fail(x, r).completedAt = r
         /\ \A y \in {Start(x, r), Complete(x, r), Fail(x, r)} :
              y.tenant = x.tenant /\ y.definition = x.definition
BY DEF Entity, Columns, Time, Status, Terminal, Start, Complete, Fail, Duration

\* The same of cancel.
LEMMA CancelMethod ==
  ASSUME NEW r \in Requests, NEW x \in Entity, NEW reason \in BOOLEAN
  PROVE  LET y == Cancel(x, r, reason)
         IN  /\ y \in Entity /\ y.status = "cancelled" /\ y.completedAt = r
             /\ y.tenant = x.tenant /\ y.definition = x.definition
BY DEF Entity, Columns, Time, Status, Cancel, Duration

\* A new execution is a pending one without a completion time, and so is the
\* row its insert makes.
LEMMA CreateTypes ==
  ASSUME NEW d \in Definitions, NEW t \in Tenants
  PROVE  LET x == CreateExecution(d, t)
         IN  /\ x \in Entity
             /\ x.tenant = t /\ x.definition = d
             /\ Inserted(x) \in Row
             /\ Inserted(x).status = "pending" /\ Inserted(x).completedAt = Null
             /\ Inserted(x).tenant = t /\ Inserted(x).definition = d
BY DEF CreateExecution, Inserted, Entity, Row, Columns, Time, Status

\* A row is not the absent one.
LEMMA RowNotAbsent == Absent \notin Row /\ Absent.status = "absent"
BY DEF Row, Columns, Status, Absent

(***************************************************************************)
(* The actions change the state in six ways: a call ends, a trigger drafts *)
(* an execution and inserts it, a writer loads an execution, and its save  *)
(* loads the row and writes it.                                            *)
(***************************************************************************)

\* A call ends without having changed a row.
Ends(r) ==
  /\ req[r].pc # "answered"
  /\ \E y \in RequestState :
       /\ req' = [req EXCEPT ![r] = y]
       /\ y.pc = "answered"
       /\ Kind[r] = "start" => y.answer = "500"
       /\ Kind[r] = "cancel" => y.answer # "200"
       /\ y.answer = "409" =>
            y.execution \in Executions /\ executions[y.execution].status \in Terminal
       /\ \A e \in y.seen : Exists(e) /\ executions[e].tenant = y.tenant
  /\ published' \subseteq Executions
  /\ \A e \in published' : Exists(e)
  /\ UNCHANGED <<executions, contended>>

\* A writer takes up an execution that has not ended.
TakesUp(r) ==
  /\ req[r].pc = "new"
  /\ \E tenant \in Header, e \in Executions, x \in Entity :
       /\ Exists(e)
       /\ EntitySound(r, x)
       /\ x.tenant = executions[e].tenant
       /\ x.definition = executions[e].definition
       /\ executions[e].status \notin Terminal
       /\ Kind[r] = "start" => executions[e].status = "pending" /\ ~TakenUp(e)
       /\ Loaded(r, tenant, e, x)

Drafts(r) ==
  /\ Begins(r, "trigger")
  /\ \E tenant \in Header, d \in Definitions :
       req' = [req EXCEPT ![r].pc = "insert", ![r].tenant = tenant, ![r].execution = r,
                          ![r].entity = CreateExecution(d, DefinitionTenant[d])]
  /\ UNCHANGED <<executions, published, contended>>

\* What answering does to the state of a call.
LEMMA AnswersEffect ==
  ASSUME TypeOK, NEW r \in Requests, NEW e \in Executions \cup {Absent},
         NEW answer \in Answer, AnswersOn(r, e, answer)
  PROVE  \E y \in RequestState :
           /\ req' = [req EXCEPT ![r] = y]
           /\ y.pc = "answered" /\ y.answer = answer /\ y.execution = e
           /\ y.seen = req[r].seen /\ y.tenant = req[r].tenant
<1> DEFINE y == [req[r] EXCEPT !.pc = "answered", !.answer = answer, !.execution = e,
                               !.entity = Absent, !.loaded = Absent]
<1>1. req[r] \in RequestState
  BY DEF TypeOK
<1>2. y \in RequestState
  BY <1>1 DEF RequestState
<1>3. req' = [req EXCEPT ![r] = y]
  BY DEF AnswersOn, TypeOK
<1>4. y.pc = "answered" /\ y.answer = answer /\ y.execution = e
      /\ y.seen = req[r].seen /\ y.tenant = req[r].tenant
  BY <1>1 DEF RequestState
<1>5. QED
  BY <1>2, <1>3, <1>4

\* An answer other than success, and other than a conflict, ends a call.
LEMMA AnswersEnd ==
  ASSUME IInv, NEW r \in Requests, req[r].pc # "answered",
         NEW answer \in Answer, answer # "409", Kind[r] = "start" => answer = "500",
         Kind[r] = "cancel" => answer # "200", Answers(r, answer),
         published' \subseteq Executions, \A e \in published' : Exists(e),
         UNCHANGED <<executions, contended>>
  PROVE  Ends(r)
<1>1. req[r].execution \in Executions \cup {Absent}
  BY DEF IInv, TypeOK, RequestState
<1>2. PICK y \in RequestState :
        /\ req' = [req EXCEPT ![r] = y]
        /\ y.pc = "answered" /\ y.answer = answer
        /\ y.seen = req[r].seen /\ y.tenant = req[r].tenant
  BY <1>1, AnswersEffect DEF IInv, Answers
<1>3. \A e \in y.seen : Exists(e) /\ executions[e].tenant = y.tenant
  BY <1>2 DEF IInv, CallSound
<1>4. QED
  BY <1>2, <1>3 DEF Ends

\* The trigger handler refuses or drafts an execution of the definition's tenant.
LEMMA TriggerEffect ==
  ASSUME IInv, NEW r \in Requests, TriggerWorkflow(r)
  PROVE  Ends(r) \/ Drafts(r)
<1>1. PICK tenant \in Header, commandTenant \in Tenants, d \in Definitions :
        \/ \E answer \in {"403", "404", "500"} : Answers(r, answer)
        \/ /\ FindDefinition(tenant, d)
           /\ MayWrite(tenant, CreateExecution(d, commandTenant))
           /\ req' = [req EXCEPT ![r].pc = "insert", ![r].tenant = tenant,
                      ![r].execution = r, ![r].entity = CreateExecution(d, commandTenant)]
  BY Zenon DEF TriggerWorkflow
<1>2. Kind[r] = "trigger" /\ req[r].pc = "new" /\ UNCHANGED <<executions, published, contended>>
  BY DEF TriggerWorkflow, Begins
<1>3. ASSUME NEW answer \in {"403", "404", "500"}, Answers(r, answer) PROVE Ends(r)
  BY <1>2, <1>3, AnswersEnd DEF Answer, IInv, TypeOK, PublishedExist
<1>4. CASE /\ FindDefinition(tenant, d)
           /\ MayWrite(tenant, CreateExecution(d, commandTenant))
           /\ req' = [req EXCEPT ![r].pc = "insert", ![r].tenant = tenant,
                      ![r].execution = r, ![r].entity = CreateExecution(d, commandTenant)]
  <2>1. commandTenant = DefinitionTenant[d]
    BY <1>4, CreateTypes DEF FindDefinition, InScope, MayWrite
  <2>2. QED
    BY <1>2, <1>4, <2>1 DEF Drafts, Begins
<1>5. QED
  BY <1>1, <1>3, <1>4

\* A publication, and a failing publication or save, end the call.
LEMMA LastStepEffect ==
  ASSUME IInv, NEW r \in Requests, PublishTriggered(r) \/ PublishFails(r) \/ SaveFails(r)
  PROVE  Ends(r)
<1>1. CASE PublishTriggered(r)
  <2>1. Kind[r] = "trigger" /\ Exists(r) /\ r \in Executions
    BY <1>1 DEF PublishTriggered, IInv, CallSound, Executions
  <2>2. published' \subseteq Executions /\ \A e \in published' : Exists(e)
    BY <1>1, <2>1 DEF PublishTriggered, IInv, TypeOK, PublishedExist
  <2>3. QED
    BY <1>1, <2>1, <2>2, AnswersEnd DEF PublishTriggered, Answer
<1>2. CASE PublishFails(r) \/ SaveFails(r)
  BY <1>2, AnswersEnd DEF PublishFails, SaveFails, Answer, IInv, TypeOK, PublishedExist
<1>3. QED
  BY <1>1, <1>2

\* A reader is answered with executions of its own tenant.
LEMMA ReadEffect ==
  ASSUME IInv, NEW r \in Requests, GetExecution(r) \/ ListExecutions(r)
  PROVE  Ends(r)
<1>1. /\ Kind[r] = "read" /\ req[r].pc = "new"
      /\ UNCHANGED <<executions, published, contended>>
  BY DEF GetExecution, ListExecutions, Begins
<1>2. published' \subseteq Executions /\ \A e \in published' : Exists(e)
  BY <1>1 DEF IInv, TypeOK, PublishedExist
<1>3. ASSUME NEW answer \in {"401", "403", "404", "500"}, Answers(r, answer) PROVE Ends(r)
  BY <1>1, <1>2, <1>3, AnswersEnd DEF Answer
<1>4. ASSUME NEW token \in Tokens, NEW tenant \in Header, NEW es \in SUBSET Executions,
             Sees(r, token, tenant, es), \A e \in es : FindById(tenant, e)
      PROVE  Ends(r)
  <2> DEFINE y == [req[r] EXCEPT !.pc = "answered", !.answer = "200", !.tenant = tenant,
                                 !.seen = es, !.claim = token.tenant]
  <2>1. req[r] \in RequestState /\ token.tenant \in Header
    BY ContextAssumption DEF IInv, TypeOK, Token, Header
  <2>2. /\ y \in RequestState /\ y.pc = "answered" /\ y.answer = "200"
        /\ y.seen = es /\ y.tenant = tenant
    BY <2>1 DEF RequestState, Answer
  <2>3. req' = [req EXCEPT ![r] = y]
    BY <1>4 DEF Sees, IInv, TypeOK
  <2>4. \A e \in y.seen : Exists(e) /\ executions[e].tenant = y.tenant
    BY <1>4, <2>2 DEF FindById, InScope
  <2>5. QED
    BY <1>1, <1>2, <2>2, <2>3, <2>4 DEF Ends
<1>5. CASE GetExecution(r)
  <2>1. PICK token \in Tokens, tenant \in Header, e \in Executions :
          \/ \E answer \in {"401", "403", "404", "500"} : Answers(r, answer)
          \/ FindById(tenant, e) /\ Sees(r, token, tenant, {e})
    BY <1>5, Zenon DEF GetExecution, Refusal
  <2>2. QED
    BY <1>3, <1>4, <2>1
<1>6. CASE ListExecutions(r)
  <2>1. PICK token \in Tokens, tenant \in Header,
             filter \in {Status} \cup {{s} : s \in Status} :
          \/ \E answer \in {"401", "403", "404", "500"} : Answers(r, answer)
          \/ \E page \in SUBSET Matching(tenant, filter) : Sees(r, token, tenant, page)
    BY <1>6, Zenon DEF ListExecutions, Refusal
  <2>2. ASSUME NEW page \in SUBSET Matching(tenant, filter),
               Sees(r, token, tenant, page)
        PROVE  Ends(r)
    <3>1. page \in SUBSET Executions /\ \A e \in page : FindById(tenant, e)
      BY <2>2 DEF Matching
    <3>2. QED
      BY <1>4, <2>2, <3>1
  <2>3. QED
    BY <1>3, <2>1, <2>2
<1>7. QED
  BY <1>5, <1>6

\* A cancel is refused, or takes up an execution that has not ended.
LEMMA CancelEffect ==
  ASSUME IInv, NEW r \in Requests, CancelExecution(r)
  PROVE  Ends(r) \/ TakesUp(r)
<1>1. Kind[r] = "cancel" /\ req[r].pc = "new"
  BY DEF CancelExecution, Begins
<1>0. \A token, tenant : Refusal(token, tenant, "admin") \subseteq {"401", "403", "404", "500"}
  BY Zenon DEF Refusal
<1>2. PICK tenant \in Header, e \in Executions, reason \in BOOLEAN :
        \/ /\ \E answer \in {"401", "403", "404", "500"} : Answers(r, answer)
           /\ UNCHANGED <<executions, published, contended>>
        \/ /\ FindById(tenant, e) /\ ~Cancellable(executions[e])
           /\ AnswersOn(r, e, "409")
           /\ UNCHANGED <<executions, published, contended>>
        \/ /\ FindById(tenant, e) /\ Cancellable(executions[e])
           /\ Loaded(r, tenant, e, Cancel(ToDomain(executions[e]), r, reason))
  BY <1>0, SMTT(60) DEF CancelExecution
<1>3. CASE /\ \E answer \in {"401", "403", "404", "500"} : Answers(r, answer)
           /\ UNCHANGED <<executions, published, contended>>
  BY <1>1, <1>3, AnswersEnd DEF Answer, IInv, TypeOK, PublishedExist
<1>4. CASE /\ FindById(tenant, e) /\ ~Cancellable(executions[e])
           /\ AnswersOn(r, e, "409")
           /\ UNCHANGED <<executions, published, contended>>
  <2>1. PICK y \in RequestState :
          /\ req' = [req EXCEPT ![r] = y]
          /\ y.pc = "answered" /\ y.answer = "409" /\ y.execution = e
          /\ y.seen = req[r].seen /\ y.tenant = req[r].tenant
    BY <1>4, AnswersEffect DEF IInv, Answer
  <2>2. \A x \in y.seen : Exists(x) /\ executions[x].tenant = y.tenant
    BY <2>1 DEF IInv, CallSound
  <2>3. executions[e].status \in Terminal
    BY <1>4 DEF Cancellable
  <2>4. QED
    BY <1>1, <1>4, <2>1, <2>2, <2>3 DEF Ends, IInv, TypeOK, PublishedExist
<1>5. CASE /\ FindById(tenant, e) /\ Cancellable(executions[e])
           /\ Loaded(r, tenant, e, Cancel(ToDomain(executions[e]), r, reason))
  <2> DEFINE x == Cancel(ToDomain(executions[e]), r, reason)
  <2>1. Exists(e) /\ executions[e] \in Row /\ executions[e].status \notin Terminal
    BY <1>5 DEF FindById, Exists, Cancellable, IInv, TypeOK
  <2>2. ToDomain(executions[e]) \in Entity
        /\ ToDomain(executions[e]).tenant = executions[e].tenant
        /\ ToDomain(executions[e]).definition = executions[e].definition
    BY <2>1, ToDomainTypes
  <2>3. /\ x \in Entity /\ x.status = "cancelled" /\ x.completedAt = r
        /\ x.tenant = executions[e].tenant /\ x.definition = executions[e].definition
    BY <2>2, CancelMethod
  <2>4. EntitySound(r, x)
    BY <1>1, <2>3 DEF EntitySound, Terminal
  <2>5. Loaded(r, tenant, e, x)
    BY <1>5
  <2> HIDE DEF x
  <2>6. QED
    BY <1>1, <2>1, <2>3, <2>4, <2>5 DEF TakesUp
<1>6. QED
  BY <1>2, <1>3, <1>4, <1>5

\* The engine takes up an execution that is pending or running.
LEMMA EngineEffect ==
  ASSUME IInv, NEW r \in Requests, StartExecution(r) \/ FinishExecution(r)
  PROVE  TakesUp(r)
<1>1. req[r].pc = "new" /\ Kind[r] \in {"start", "finish"}
  BY DEF StartExecution, FinishExecution, Begins
<1>2. ASSUME NEW e \in Executions, executions[e].status \in {"pending", "running"}
      PROVE  /\ Exists(e) /\ executions[e] \in Row /\ executions[e].status \notin Terminal
             /\ ToDomain(executions[e]) \in Entity
             /\ ToDomain(executions[e]).tenant = executions[e].tenant
             /\ ToDomain(executions[e]).definition = executions[e].definition
             /\ ToDomain(executions[e]).completedAt = executions[e].completedAt
             /\ executions[e].tenant \in Header
  <2>1. executions[e] \in Row /\ Exists(e)
    BY <1>2, RowNotAbsent DEF Exists, IInv, TypeOK
  <2>2. executions[e].tenant \in Header
    BY <2>1 DEF Row, Columns, Header
  <2>3. QED
    BY <1>2, <2>1, <2>2, ToDomainTypes DEF Terminal
<1>3. CASE StartExecution(r)
  <2>1. PICK e \in Executions :
          /\ ~TakenUp(e) /\ executions[e].status = "pending"
          /\ Loaded(r, executions[e].tenant, e, Start(ToDomain(executions[e]), r))
    BY <1>3 DEF StartExecution, IInv, TypeOK
  <2> DEFINE x == Start(ToDomain(executions[e]), r)
  <2>2. Kind[r] = "start" /\ executions[e].completedAt = Null
    BY <1>2, <1>3, <2>1 DEF StartExecution, Begins, IInv, RowSound
  <2>6. /\ ToDomain(executions[e]) \in Entity
        /\ ToDomain(executions[e]).tenant = executions[e].tenant
        /\ ToDomain(executions[e]).definition = executions[e].definition
        /\ ToDomain(executions[e]).completedAt = executions[e].completedAt
    BY <1>2, <2>1
  <2>3. /\ x \in Entity /\ x.status = "running" /\ x.completedAt = Null
        /\ x.tenant = executions[e].tenant /\ x.definition = executions[e].definition
    BY <2>1, <2>2, <2>6, EngineMethods
  <2>4. EntitySound(r, x)
    BY <2>2, <2>3 DEF EntitySound
  <2>5. Loaded(r, executions[e].tenant, e, x)
    BY <2>1
  <2> HIDE DEF x
  <2>7. QED
    BY <1>1, <1>2, <2>1, <2>2, <2>3, <2>4, <2>5 DEF TakesUp
<1>4. CASE FinishExecution(r)
  <2>0. PICK e \in Executions :
          /\ executions[e].status = "running"
          /\ \E x \in {Complete(ToDomain(executions[e]), r), Fail(ToDomain(executions[e]), r)} :
               Loaded(r, executions[e].tenant, e, x)
    BY <1>4 DEF FinishExecution
  <2>1. PICK x \in {Complete(ToDomain(executions[e]), r), Fail(ToDomain(executions[e]), r)} :
          Loaded(r, executions[e].tenant, e, x)
    BY <2>0
  <2>2. Kind[r] = "finish"
    BY <1>4 DEF FinishExecution, Begins
  <2>6. /\ ToDomain(executions[e]) \in Entity
        /\ ToDomain(executions[e]).tenant = executions[e].tenant
        /\ ToDomain(executions[e]).definition = executions[e].definition
        /\ ToDomain(executions[e]).completedAt = executions[e].completedAt
    BY <1>2, <2>0
  <2>3. /\ x \in Entity /\ x.status \in Terminal /\ x.completedAt = r
        /\ x.tenant = executions[e].tenant /\ x.definition = executions[e].definition
    BY <2>1, <2>6, EngineMethods
  <2>4. EntitySound(r, x)
    BY <2>2, <2>3 DEF EntitySound
  <2>5. QED
    BY <1>1, <1>2, <2>0, <2>1, <2>2, <2>3, <2>4 DEF TakesUp
<1>5. QED
  BY <1>3, <1>4

(***************************************************************************)
(* Each of the six keeps the invariant.                                    *)
(***************************************************************************)

\* A call that another call's step leaves alone stays sound if the rows there
\* are, and its own, are left alone too; executions only become contended.
LEMMA CallStays ==
  ASSUME IInv, NEW q \in Requests, req'[q] = req[q], contended \subseteq contended',
         \A e \in Executions : Exists(e) \/ e = q => executions'[e] = executions[e]
  PROVE  CallSound(q)'
<1>1. CallSound(q)
  BY DEF IInv
<1>2. \A e \in Executions : Exists(e) => executions'[e] = executions[e] /\ Exists(e)'
  BY DEF Exists
<1>3. Kind[q] = "trigger" => executions'[q] = executions[q]
  BY DEF Executions
<1>4. ASSUME Writing(q) PROVE req[q].execution \in Executions /\ Exists(req[q].execution)
  BY <1>1, <1>4, RowNotAbsent DEF CallSound, WriterSound, Exists
<1>5. Writing(q) => WriterSound(q, req[q].execution, executions[req[q].execution])'
  BY <1>1, <1>2, <1>4 DEF CallSound, WriterSound, EntitySound
<1>6. req[q].pc = "write" => LoadedSound(q, req[q].execution, executions[req[q].execution])'
  BY <1>1, <1>2, <1>4 DEF CallSound, LoadedSound, Writing
<1>7. req[q].seen \subseteq Executions
  BY DEF IInv, TypeOK, RequestState
<1>8. req[q].pc = "publish" => Exists(q)'
  BY <1>1, <1>2 DEF CallSound, Executions
<1>9. QED
  BY <1>1, <1>2, <1>3, <1>5, <1>6, <1>7, <1>8 DEF CallSound, Writing

\* A row that a step leaves alone stays sound if calls that have been answered
\* are left alone.
LEMMA RowStays ==
  ASSUME IInv, NEW e \in Executions, executions'[e] = executions[e],
         \A q \in Requests : req[q].pc = "answered" => req'[q] = req[q]
  PROVE  RowSound(e)'
<1> SUFFICES ASSUME Exists(e)' PROVE RowSound(e)'
  BY DEF RowSound
<1>1. Exists(e) /\ RowSound(e)
  BY DEF Exists, IInv
<1>2. executions[e].status = "running" =>
        \E q \in Requests : /\ Kind[q] = "start" /\ req'[q].execution = e
                           /\ req'[q].answer = "200"
  BY <1>1 DEF RowSound, IInv, CallSound
<1>3. executions[e].completedAt \in Requests => req'[executions[e].completedAt].pc = "answered"
  BY <1>1 DEF RowSound
<1>4. QED
  BY <1>1, <1>2, <1>3 DEF RowSound

\* Ending a call keeps the invariant.
LEMMA EndsKeeps ==
  ASSUME IInv, NEW r \in Requests, Ends(r)
  PROVE  IInv'
<1>1. PICK y \in RequestState :
        /\ req' = [req EXCEPT ![r] = y]
        /\ y.pc = "answered"
        /\ Kind[r] = "start" => y.answer = "500"
        /\ Kind[r] = "cancel" => y.answer # "200"
        /\ y.answer = "409" =>
            y.execution \in Executions /\ executions[y.execution].status \in Terminal
        /\ \A e \in y.seen : Exists(e) /\ executions[e].tenant = y.tenant
  BY DEF Ends
<1>2. /\ req[r].pc # "answered"
      /\ published' \subseteq Executions
      /\ \A e \in published' : Exists(e)
      /\ UNCHANGED <<executions, contended>>
  BY DEF Ends
<1>3. TypeOK'
  BY <1>1, <1>2 DEF IInv, TypeOK
<1>4. req'[r] = y /\ \A q \in Requests \ {r} : req'[q] = req[q]
  BY <1>1 DEF IInv, TypeOK
<1>5. ASSUME NEW e \in Executions PROVE RowSound(e)'
  BY <1>2, <1>4, RowStays
<1>6. ASSUME NEW q \in Requests PROVE CallSound(q)'
  <2>1. CASE q = r
    BY <1>1, <1>2, <1>4, <2>1 DEF CallSound, Writing, Exists
  <2>2. CASE q # r
    BY <1>2, <1>4, <2>2, CallStays
  <2>3. QED
    BY <2>1, <2>2
<1>7. OneStart'
  BY <1>1, <1>4 DEF IInv, OneStart
<1>8. OneWriter'
  BY <1>1, <1>2, <1>4 DEF IInv, OneWriter, Writing
<1>9. CancelAnswerHolds'
  BY <1>1, <1>2, <1>4 DEF IInv, CancelAnswerHolds
<1>10. PublishedExist'
  BY <1>2 DEF PublishedExist, Exists
<1>11. QED
  BY <1>3, <1>5, <1>6, <1>7, <1>8, <1>9, <1>10 DEF IInv

\* Drafting an execution keeps it.
LEMMA DraftsKeeps ==
  ASSUME IInv, NEW r \in Requests, Drafts(r)
  PROVE  IInv'
<1> USE WorkflowAssumption
<1>1. PICK tenant \in Header, d \in Definitions :
        req' = [req EXCEPT ![r].pc = "insert", ![r].tenant = tenant, ![r].execution = r,
                           ![r].entity = CreateExecution(d, DefinitionTenant[d])]
  BY DEF Drafts
<1>2. /\ Kind[r] = "trigger" /\ req[r].pc = "new" /\ req[r].answer = "none"
      /\ r \in Executions /\ UNCHANGED <<executions, published, contended>>
  BY DEF Drafts, Begins, IInv, CallSound, Executions
<1>3. TypeOK'
  <2>1. CreateExecution(d, DefinitionTenant[d]) \in Entity
    BY CreateTypes
  <2>2. \A x \in RequestState :
          [x EXCEPT !.pc = "insert", !.tenant = tenant, !.execution = r,
                    !.entity = CreateExecution(d, DefinitionTenant[d])] \in RequestState
    BY <1>2, <2>1 DEF RequestState
  <2>3. req' \in [Requests -> RequestState]
    BY <1>1, <2>2 DEF IInv, TypeOK
  <2>4. QED
    BY <1>2, <2>3 DEF IInv, TypeOK
<1>4. /\ req'[r].pc = "insert" /\ req'[r].execution = r
      /\ req'[r].entity = CreateExecution(d, DefinitionTenant[d])
      /\ req'[r].answer = "none"
      /\ \A q \in Requests \ {r} : req'[q] = req[q]
  BY <1>1, <1>2 DEF IInv, TypeOK, RequestState
<1>5. ASSUME NEW e \in Executions PROVE RowSound(e)'
  BY <1>2, <1>4, RowStays
<1>6. ASSUME NEW q \in Requests PROVE CallSound(q)'
  <2>1. CASE q = r
    <3>1. executions[r] = Absent
      BY <1>2 DEF IInv, CallSound
    <3>2. req'[r].seen = {}
      <4>1. req'[r].seen = req[r].seen
        BY <1>1 DEF IInv, TypeOK, RequestState
      <4>2. QED
        BY <1>2, <4>1 DEF IInv, CallSound
    <3>3. QED
      BY <1>2, <1>4, <2>1, <3>1, <3>2 DEF CallSound, Writing, Exists
  <2>2. CASE q # r
    BY <1>2, <1>4, <2>2, CallStays
  <2>3. QED
    BY <2>1, <2>2
<1>7. OneStart'
  BY <1>2, <1>4 DEF IInv, OneStart
<1>8. OneWriter'
  BY <1>2, <1>4 DEF IInv, OneWriter, Writing
<1>9. CancelAnswerHolds'
  BY <1>2, <1>4 DEF IInv, CancelAnswerHolds
<1>10. PublishedExist'
  BY <1>2 DEF PublishedExist, Exists, IInv
<1>11. QED
  BY <1>3, <1>5, <1>6, <1>7, <1>8, <1>9, <1>10 DEF IInv

\* The insert of a drafted execution keeps it: the row is new.
LEMMA InsertKeeps ==
  ASSUME IInv, NEW r \in Requests, InsertExecution(r)
  PROVE  IInv'
<1> USE WorkflowAssumption
<1>1. /\ req[r].pc = "insert" /\ Kind[r] = "trigger" /\ req[r].answer = "none"
      /\ r \in Executions /\ executions[r] = Absent /\ req[r].execution = r
      /\ req[r].seen = {}
      /\ UNCHANGED <<published, contended>>
  BY DEF InsertExecution, IInv, CallSound, Executions
<1>2. PICK d \in Definitions : req[r].entity = CreateExecution(d, DefinitionTenant[d])
  BY <1>1 DEF IInv, CallSound
<1>3. PICK row \in Row :
        /\ executions' = [executions EXCEPT ![r] = row]
        /\ row.status = "pending" /\ row.completedAt = Null
        /\ row.tenant = DefinitionTenant[row.definition]
  <2>1. Inserted(req[r].entity) \in Row
        /\ Inserted(req[r].entity).status = "pending"
        /\ Inserted(req[r].entity).completedAt = Null
        /\ Inserted(req[r].entity).tenant = DefinitionTenant[d]
        /\ Inserted(req[r].entity).definition = d
    BY <1>2, CreateTypes
  <2>2. QED
    BY <2>1 DEF InsertExecution
<1>4. /\ executions'[r] = row
      /\ \A e \in Executions \ {r} : executions'[e] = executions[e]
  BY <1>1, <1>3 DEF IInv, TypeOK
<1>5. /\ req'[r].pc = "publish" /\ req'[r].execution = r /\ req'[r].answer = "none"
      /\ req'[r].seen = {}
      /\ \A q \in Requests \ {r} : req'[q] = req[q]
  BY <1>1 DEF InsertExecution, IInv, TypeOK, RequestState
<1>6. TypeOK'
  <2>1. executions' \in [Executions -> Row \cup {Absent}]
    BY <1>1, <1>3 DEF IInv, TypeOK
  <2>2. req' \in [Requests -> RequestState]
    BY DEF InsertExecution, IInv, TypeOK, RequestState
  <2>3. QED
    BY <1>1, <2>1, <2>2 DEF IInv, TypeOK
<1>7. ASSUME NEW e \in Executions PROVE RowSound(e)'
  <2>1. CASE e = r
    BY <1>3, <1>4, <2>1 DEF RowSound, Terminal
  <2>2. CASE e # r
    BY <1>1, <1>4, <1>5, <2>2, RowStays
  <2>3. QED
    BY <2>1, <2>2
<1>8. ASSUME NEW q \in Requests PROVE CallSound(q)'
  <2>1. CASE q = r
    BY <1>1, <1>4, <1>5, <2>1, RowNotAbsent DEF CallSound, Writing, Exists
  <2>2. CASE q # r
    BY <1>1, <1>4, <1>5, <2>2, CallStays DEF Exists
  <2>3. QED
    BY <2>1, <2>2
<1>9. OneStart'
  BY <1>1, <1>5 DEF IInv, OneStart
<1>10. OneWriter'
  BY <1>1, <1>5 DEF IInv, OneWriter, Writing
<1>11. CancelAnswerHolds'
  <2> SUFFICES ASSUME NEW q \in Requests, Kind[q] = "cancel",
                      req'[q].execution \notin contended',
                      req'[q].answer \in {"200", "409"}
               PROVE  /\ req'[q].answer = "200" =>
                           executions'[req'[q].execution].status = "cancelled"
                      /\ req'[q].answer = "409" =>
                           executions'[req'[q].execution].status \in Terminal
    BY DEF CancelAnswerHolds
  <2>1. req'[q] = req[q] /\ req[q].execution \in Executions
    BY <1>1, <1>5 DEF IInv, CallSound
  <2>2. CASE req[q].execution = r
    BY <1>1, <2>1, <2>2, RowNotAbsent DEF IInv, CancelAnswerHolds, Terminal
  <2>3. CASE req[q].execution # r
    <3>1. executions'[req[q].execution] = executions[req[q].execution]
      BY <1>4, <2>1, <2>3
    <3>2. QED
      BY <1>1, <2>1, <3>1 DEF IInv, CancelAnswerHolds
  <2>4. QED
    BY <2>2, <2>3
<1>12. PublishedExist'
  BY <1>1, <1>4, RowNotAbsent DEF PublishedExist, Exists, IInv, TypeOK
<1>13. QED
  BY <1>6, <1>7, <1>8, <1>9, <1>10, <1>11, <1>12 DEF IInv

\* Taking up an execution keeps it: a second writer makes it contended, and a
\* start is the only one of it.
LEMMA TakesUpKeeps ==
  ASSUME IInv, NEW r \in Requests, TakesUp(r)
  PROVE  IInv'
<1>1. PICK tenant \in Header, e \in Executions, x \in Entity :
        /\ Exists(e) /\ EntitySound(r, x)
        /\ x.tenant = executions[e].tenant /\ x.definition = executions[e].definition
        /\ executions[e].status \notin Terminal
        /\ Kind[r] = "start" => executions[e].status = "pending" /\ ~TakenUp(e)
        /\ Loaded(r, tenant, e, x)
  BY DEF TakesUp
<1>2. /\ req[r].pc = "new" /\ req[r].answer = "none" /\ req[r].seen = {}
      /\ Kind[r] \in {"start", "finish", "cancel"}
      /\ UNCHANGED <<executions, published>>
  BY <1>1 DEF TakesUp, IInv, CallSound, EntitySound, Loaded
<1>3. /\ contended \subseteq contended' /\ contended' \subseteq Executions
      /\ \A q \in Requests : Writing(q) /\ req[q].execution = e => e \in contended'
  BY <1>1 DEF Loaded, Writing, IInv, TypeOK
<1>4. req' \in [Requests -> RequestState]
  <2>1. \A y \in RequestState :
          [y EXCEPT !.pc = "save", !.tenant = tenant, !.execution = e, !.entity = x]
            \in RequestState
    BY <1>1 DEF RequestState
  <2>2. QED
    BY <1>1, <2>1 DEF Loaded, IInv, TypeOK
<1>5. /\ req'[r].pc = "save" /\ req'[r].execution = e /\ req'[r].entity = x
      /\ req'[r].answer = "none" /\ req'[r].seen = {}
      /\ \A q \in Requests \ {r} : req'[q] = req[q]
  BY <1>1, <1>2 DEF Loaded, IInv, TypeOK, RequestState
<1>6. TypeOK'
  BY <1>2, <1>3, <1>4 DEF IInv, TypeOK
<1>7. ASSUME NEW f \in Executions PROVE RowSound(f)'
  BY <1>2, <1>5, RowStays
<1>8. ASSUME NEW q \in Requests PROVE CallSound(q)'
  <2>1. CASE q = r
    <3>1. executions[e] \in Row
      BY <1>1 DEF Exists, IInv, TypeOK
    <3>2. WriterSound(r, e, executions[e])'
      BY <1>1, <1>2, <1>5, <3>1 DEF WriterSound, EntitySound
    <3>3. QED
      BY <1>2, <1>5, <2>1, <3>2 DEF CallSound, Writing
  <2>2. CASE q # r
    BY <1>2, <1>3, <1>5, <2>2, CallStays
  <2>3. QED
    BY <2>1, <2>2
<1>9. OneStart'
  BY <1>1, <1>5 DEF IInv, OneStart, TakenUp
<1>10. OneWriter'
  BY <1>3, <1>5 DEF IInv, OneWriter, Writing
<1>11. CancelAnswerHolds'
  BY <1>2, <1>3, <1>5 DEF IInv, CancelAnswerHolds
<1>12. PublishedExist'
  BY <1>2 DEF IInv, PublishedExist, Exists
<1>13. QED
  BY <1>6, <1>7, <1>8, <1>9, <1>10, <1>11, <1>12 DEF IInv

\* The load of a save keeps it: the row has no completion time of this call.
LEMMA SaveLoadsKeeps ==
  ASSUME IInv, NEW r \in Requests, SaveLoads(r)
  PROVE  IInv'
<1>1. PICK e \in Executions :
        /\ e = req[r].execution /\ WriterSound(r, e, executions[e])
        /\ req[r].pc = "save" /\ Writing(r) /\ req[r].answer = "none" /\ req[r].seen = {}
        /\ UNCHANGED <<executions, published, contended>>
  BY DEF SaveLoads, IInv, CallSound, Writing, WriterSound
<1>2. executions[e] \in Row /\ Exists(e)
  BY <1>1, RowNotAbsent DEF WriterSound, Exists
<1>3. req' \in [Requests -> RequestState]
  <2>1. \A y \in RequestState :
          [y EXCEPT !.pc = "write", !.loaded = executions[e]] \in RequestState
    BY <1>2 DEF RequestState
  <2>2. QED
    BY <1>1, <2>1 DEF SaveLoads, IInv, TypeOK
<1>4. /\ req'[r].pc = "write" /\ req'[r].execution = e /\ req'[r].entity = req[r].entity
      /\ req'[r].loaded = executions[e]
      /\ req'[r].answer = "none" /\ req'[r].seen = {}
      /\ \A q \in Requests \ {r} : req'[q] = req[q]
  BY <1>1 DEF SaveLoads, IInv, TypeOK, RequestState
<1>5. TypeOK'
  BY <1>1, <1>3 DEF IInv, TypeOK
<1>6. ASSUME NEW f \in Executions PROVE RowSound(f)'
  BY <1>1, <1>4, RowStays
<1>7. ASSUME NEW q \in Requests PROVE CallSound(q)'
  <2>1. CASE q = r
    <3>1. executions[e].completedAt # r
      BY <1>1, <1>2 DEF IInv, RowSound
    <3>2. WriterSound(r, e, executions[e])'
      BY <1>1, <1>4 DEF WriterSound, EntitySound
    <3>3. LoadedSound(r, e, executions[e])'
      BY <1>1, <1>2, <1>4, <3>1 DEF LoadedSound, WriterSound
    <3>4. Kind[r] \in {"start", "finish", "cancel"}
      BY <1>1 DEF WriterSound, EntitySound
    <3>5. QED
      BY <1>4, <2>1, <3>2, <3>3, <3>4 DEF CallSound, Writing
  <2>2. CASE q # r
    BY <1>1, <1>4, <2>2, CallStays
  <2>3. QED
    BY <2>1, <2>2
<1>8. OneStart'
  BY <1>1, <1>4 DEF IInv, OneStart
<1>9. OneWriter'
  BY <1>1, <1>4 DEF IInv, OneWriter, Writing
<1>10. CancelAnswerHolds'
  BY <1>1, <1>4 DEF IInv, CancelAnswerHolds
<1>11. PublishedExist'
  BY <1>1 DEF IInv, PublishedExist, Exists
<1>12. QED
  BY <1>5, <1>6, <1>7, <1>8, <1>9, <1>10, <1>11 DEF IInv

\* The row a sound writer writes: it stays with its tenant and definition, is no
\* longer pending, has a completion time if it has ended, and has the writer's
\* status if nobody else wrote it.
LEMMA WrittenRow ==
  ASSUME IInv, NEW r \in Requests, NEW e \in Executions, e = req[r].execution,
         req[r].pc = "write", NEW row, row = executions[e], NEW x, x = req[r].entity,
         NEW new, new = Persisted(row, req[r].loaded, x)
  PROVE  /\ row \in Row /\ new \in Row /\ EntitySound(r, x)
         /\ new.tenant = row.tenant /\ new.definition = row.definition
         /\ new.status \in {row.status, x.status} /\ new.status # "pending"
         /\ new.status \in Terminal => new.completedAt # Null
         /\ new.completedAt \in {row.completedAt, r, Null}
         /\ e \notin contended => new.status = x.status /\ row.status \notin Terminal
<1>1. PICK l : l = req[r].loaded
  OBVIOUS
<1>2. WriterSound(r, e, row) /\ LoadedSound(r, e, row) /\ RowSound(e)
  BY DEF IInv, CallSound, Writing
<1>3. /\ row \in Row /\ x \in Entity /\ l \in Row /\ Exists(e)
      /\ x.status # "pending"
  BY <1>1, <1>2, RowNotAbsent DEF WriterSound, LoadedSound, EntitySound, Terminal, Exists
\* A column changes to what the entity has, if that is defined and differs from
\* what was loaded, and stays as it is otherwise.
<1>4. /\ new \in Row
      /\ new.tenant \in {row.tenant, x.tenant}
      /\ new.definition \in {row.definition, x.definition}
      /\ new.status = IF x.status = l.status THEN row.status ELSE x.status
      /\ new.completedAt = IF x.completedAt = l.completedAt
                           THEN row.completedAt ELSE x.completedAt
  <2>1. new = Persisted(row, l, x)
    BY <1>1
  <2>2. row \in Row /\ x \in Entity /\ l \in Row
    BY <1>3
  <2>3. QED
    BY <2>1, <2>2, WorkflowAssumption DEF Persisted, Row, Entity, Columns, Time, Status
<1>5. new.tenant = row.tenant /\ new.definition = row.definition
  BY <1>2, <1>4 DEF WriterSound
<1>6. new.status # "pending"
  BY <1>1, <1>2, <1>3, <1>4 DEF LoadedSound
<1>7. new.status \in Terminal => new.completedAt # Null
  <2>1. CASE Kind[r] = "start"
    BY <1>1, <1>2, <1>4, <2>1 DEF WriterSound, EntitySound, LoadedSound, Terminal
  <2>2. CASE Kind[r] # "start"
    BY <1>1, <1>2, <1>4, <2>2, WorkflowAssumption DEF WriterSound, EntitySound, LoadedSound
  <2>3. QED
    BY <2>1, <2>2
<1>8. new.completedAt \in {row.completedAt, r, Null}
  BY <1>2, <1>4 DEF WriterSound, EntitySound
<1>9. e \notin contended => new.status = x.status /\ row.status \notin Terminal
  BY <1>1, <1>2, <1>4 DEF WriterSound, LoadedSound
<1>10. EntitySound(r, x) /\ new.status \in {row.status, x.status}
  BY <1>2, <1>4 DEF WriterSound
<1>11. QED
  BY <1>3, <1>4, <1>5, <1>6, <1>7, <1>8, <1>9, <1>10

\* The write of a save keeps it.  The writer is the only one unless the
\* execution is contended, and another start cannot have run.
LEMMA SaveWritesKeeps ==
  ASSUME IInv, NEW r \in Requests, SaveWrites(r)
  PROVE  IInv'
<1>1. PICK e \in Executions :
        /\ e = req[r].execution /\ Exists(e)
        /\ req[r].pc = "write" /\ Writing(r) /\ req[r].seen = {}
        /\ Kind[r] \in {"start", "finish", "cancel"}
        /\ UNCHANGED <<published, contended>>
  BY RowNotAbsent DEF SaveWrites, IInv, CallSound, Writing, WriterSound, EntitySound, Exists
<1>2. PICK row, x, new : /\ row = executions[e] /\ x = req[r].entity
                         /\ new = Persisted(row, req[r].loaded, x)
  OBVIOUS
<1>3. /\ row \in Row /\ new \in Row /\ EntitySound(r, x)
      /\ new.tenant = row.tenant /\ new.definition = row.definition
      /\ new.status \in {row.status, x.status} /\ new.status # "pending"
      /\ new.status \in Terminal => new.completedAt # Null
      /\ new.completedAt \in {row.completedAt, r, Null}
      /\ e \notin contended => new.status = x.status /\ row.status \notin Terminal
  BY <1>1, <1>2, WrittenRow
<1>4. executions' = [executions EXCEPT ![e] = new]
  BY <1>1, <1>2 DEF SaveWrites
<1>5. /\ executions'[e] = new
      /\ \A f \in Executions \ {e} : executions'[f] = executions[f]
      /\ \A f \in Executions : Exists(f) => Exists(f)' /\ executions'[f].tenant = executions[f].tenant
  BY <1>2, <1>3, <1>4, RowNotAbsent DEF IInv, TypeOK, Exists
<1>6. PICK y \in RequestState :
        /\ req' = [req EXCEPT ![r] = y]
        /\ y.pc = "answered" /\ y.answer = "200" /\ y.execution = e
        /\ y.seen = {} /\ y.tenant = req[r].tenant
  BY <1>1, AnswersEffect DEF SaveWrites, Answers, IInv, Answer
<1>7. req'[r] = y /\ \A q \in Requests \ {r} : req'[q] = req[q]
  BY <1>6 DEF IInv, TypeOK
<1>8. TypeOK'
  BY <1>1, <1>3, <1>4, <1>6 DEF IInv, TypeOK
<1>9. ASSUME NEW f \in Executions PROVE RowSound(f)'
  <2>1. CASE f = e
    <3>1. RowSound(e) /\ row # Absent
      BY <1>1, <1>2 DEF IInv, Exists
    <3>2. ASSUME new.status = "running"
          PROVE  \E q \in Requests : Kind[q] = "start" /\ req'[q].execution = e
                                      /\ req'[q].answer = "200"
      <4>1. CASE x.status = "running"
        BY <1>3, <1>6, <1>7, <4>1 DEF EntitySound, Terminal
      <4>2. CASE row.status = "running"
        <5>1. PICK q \in Requests : Kind[q] = "start" /\ req[q].execution = e
                                     /\ req[q].answer = "200"
          BY <1>1, <1>2, <3>1, <4>2 DEF RowSound
        <5>2. q # r
          BY <1>1, <5>1 DEF IInv, CallSound
        <5>3. QED
          BY <1>7, <5>1, <5>2
      <4>3. QED
        BY <1>3, <3>2, <4>1, <4>2
    <3>3. ASSUME new.completedAt \in Requests PROVE req'[new.completedAt].pc = "answered"
      <4>1. CASE new.completedAt = r
        BY <1>6, <1>7, <4>1
      <4>2. CASE new.completedAt = row.completedAt /\ new.completedAt # r
        BY <1>1, <1>2, <1>7, <3>1, <3>3, <4>2 DEF RowSound
      <4>3. QED
        BY <1>3, <3>3, <4>1, <4>2, WorkflowAssumption
    <3>4. new.tenant = DefinitionTenant[new.definition]
      BY <1>1, <1>2, <1>3, <3>1 DEF RowSound
    <3>5. QED
      BY <1>3, <1>5, <2>1, <3>2, <3>3, <3>4 DEF RowSound
  <2>2. CASE f # e
    BY <1>1, <1>5, <1>7, <2>2, RowStays
  <2>3. QED
    BY <2>1, <2>2
<1>10. ASSUME NEW q \in Requests PROVE CallSound(q)'
  <2>1. CASE q = r
    BY <1>1, <1>6, <1>7, <2>1 DEF CallSound, Writing
  <2>2. CASE q # r /\ ~(Writing(q) /\ req[q].execution = e)
    <3>1. CallSound(q) /\ req'[q] = req[q]
      BY <1>7, <2>2 DEF IInv
    <3>2. Kind[q] = "trigger" /\ req[q].pc \in {"new", "insert"} => executions'[q] = Absent
      BY <1>1, <1>5, <3>1 DEF CallSound, Executions, Exists
    <3>3. req[q].pc = "publish" => Exists(q)'
      BY <1>5, <3>1 DEF CallSound, Executions
    <3>4. \A f \in req[q].seen : Exists(f)' /\ executions'[f].tenant = req[q].tenant
      BY <1>5, <3>1 DEF CallSound, IInv, TypeOK, RequestState
    <3>5. Writing(q) => WriterSound(q, req[q].execution, executions[req[q].execution])'
      BY <1>1, <1>5, <2>2, <3>1 DEF CallSound, WriterSound, EntitySound
    <3>6. req[q].pc = "write" => LoadedSound(q, req[q].execution, executions[req[q].execution])'
      BY <1>1, <1>5, <2>2, <3>1 DEF CallSound, WriterSound, LoadedSound, Writing
    <3>7. QED
      BY <3>1, <3>2, <3>3, <3>4, <3>5, <3>6 DEF CallSound, Writing
  <2>3. CASE q # r /\ Writing(q) /\ req[q].execution = e
    <3>1. /\ CallSound(q) /\ req'[q] = req[q] /\ e \in contended
          /\ WriterSound(q, e, row) /\ (req[q].pc = "write" => LoadedSound(q, e, row))
      BY <1>1, <1>2, <1>7, <2>3 DEF IInv, CallSound, OneWriter
    <3>2. Kind[q] = "start" => new.status # "running"
      <4>1. Kind[q] = "start" => Kind[r] # "start"
        BY <1>1, <2>3 DEF IInv, OneStart, CallSound, Writing
      <4>2. QED
        BY <1>3, <3>1, <4>1 DEF WriterSound, EntitySound, Terminal
    <3>3. WriterSound(q, e, executions[e])'
      BY <1>1, <1>3, <1>5, <3>1, <3>2 DEF WriterSound, EntitySound
    <3>4. req[q].pc = "write" => LoadedSound(q, e, executions[e])'
      BY <1>1, <1>3, <1>5, <3>1 DEF LoadedSound
    <3>5. Kind[q] \in {"start", "finish", "cancel"}
      BY <3>1 DEF WriterSound, EntitySound
    <3>6. QED
      BY <2>3, <3>1, <3>3, <3>4, <3>5 DEF CallSound, Writing
  <2>4. QED
    BY <2>1, <2>2, <2>3
<1>11. OneStart'
  BY <1>1, <1>6, <1>7 DEF IInv, OneStart, CallSound
<1>12. OneWriter'
  BY <1>1, <1>6, <1>7 DEF IInv, OneWriter, Writing
<1>13. CancelAnswerHolds'
  <2> SUFFICES ASSUME NEW q \in Requests, Kind[q] = "cancel",
                      req'[q].execution \notin contended',
                      req'[q].answer \in {"200", "409"}
               PROVE  /\ req'[q].answer = "200" =>
                           executions'[req'[q].execution].status = "cancelled"
                      /\ req'[q].answer = "409" =>
                           executions'[req'[q].execution].status \in Terminal
    BY DEF CancelAnswerHolds
  <2>1. CASE q = r
    BY <1>1, <1>3, <1>5, <1>6, <1>7, <2>1 DEF EntitySound
  <2>2. CASE q # r
    <3>1. req'[q] = req[q] /\ req[q].execution \in Executions
      BY <1>7, <2>2 DEF IInv, CallSound
    <3>2. req[q].execution # e
      BY <1>1, <1>2, <1>3, <3>1 DEF IInv, CancelAnswerHolds, Terminal
    <3>3. QED
      BY <1>1, <1>5, <3>1, <3>2 DEF IInv, CancelAnswerHolds
  <2>3. QED
    BY <2>1, <2>2
<1>14. PublishedExist'
  BY <1>1, <1>5 DEF IInv, TypeOK, PublishedExist
<1>15. QED
  BY <1>8, <1>9, <1>10, <1>11, <1>12, <1>13, <1>14 DEF IInv

(***************************************************************************)
(* The theorems.                                                           *)
(***************************************************************************)

\* Before any call nothing is stored.
LEMMA InitIInv == Init => IInv
<1> SUFFICES ASSUME Init PROVE IInv
  OBVIOUS
<1> USE DEF Init
<1>1. TypeOK
  <2>1. NewRequest \in RequestState
    BY DEF NewRequest, RequestState, Header
  <2>2. QED
    BY <2>1 DEF TypeOK
<1>2. ASSUME NEW e \in Executions PROVE RowSound(e)
  BY DEF RowSound, Exists
<1>3. ASSUME NEW q \in Requests PROVE CallSound(q)
  BY DEF CallSound, NewRequest, Writing, Executions
<1>4. OneStart /\ OneWriter
  BY DEF OneStart, OneWriter, NewRequest, Writing
<1>5. PublishedExist /\ CancelAnswerHolds
  BY DEF PublishedExist, CancelAnswerHolds, NewRequest
<1>6. QED
  BY <1>1, <1>2, <1>3, <1>4, <1>5 DEF IInv

\* Every action has one of the six effects.
LEMMA NextKeeps == IInv /\ [Next]_vars => IInv'
<1> SUFFICES ASSUME IInv, [Next]_vars PROVE IInv'
  OBVIOUS
<1>1. CASE UNCHANGED vars
  <2>1. /\ \A q \in Requests : CallSound(q)'
        /\ \A e \in Executions : RowSound(e)'
    BY <1>1, CallStays, RowStays DEF vars
  <2>2. TypeOK' /\ OneStart' /\ OneWriter' /\ PublishedExist' /\ CancelAnswerHolds'
    BY <1>1 DEF vars, IInv, TypeOK, OneStart, OneWriter, Writing, PublishedExist, Exists,
                CancelAnswerHolds
  <2>3. QED
    BY <2>1, <2>2 DEF IInv
<1>2. ASSUME NEW r \in Requests, TriggerWorkflow(r) PROVE IInv'
  BY <1>2, TriggerEffect, EndsKeeps, DraftsKeeps
<1>3. ASSUME NEW r \in Requests, InsertExecution(r) PROVE IInv'
  BY <1>3, InsertKeeps
<1>4. ASSUME NEW r \in Requests, PublishTriggered(r) \/ PublishFails(r) \/ SaveFails(r)
      PROVE  IInv'
  BY <1>4, LastStepEffect, EndsKeeps
<1>5. ASSUME NEW r \in Requests, CancelExecution(r) PROVE IInv'
  BY <1>5, CancelEffect, EndsKeeps, TakesUpKeeps
<1>6. ASSUME NEW r \in Requests, StartExecution(r) \/ FinishExecution(r) PROVE IInv'
  BY <1>6, EngineEffect, TakesUpKeeps
<1>7. ASSUME NEW r \in Requests, SaveLoads(r) PROVE IInv'
  BY <1>7, SaveLoadsKeeps
<1>8. ASSUME NEW r \in Requests, SaveWrites(r) PROVE IInv'
  BY <1>8, SaveWritesKeeps
<1>9. ASSUME NEW r \in Requests, GetExecution(r) \/ ListExecutions(r) PROVE IInv'
  BY <1>9, ReadEffect, EndsKeeps
<1>10. QED
  BY <1>1, <1>2, <1>3, <1>4, <1>5, <1>6, <1>7, <1>8, <1>9 DEF Next

\* The inductive invariant holds in every reachable state, whatever calls
\* interleave.
THEOREM Invariance == Spec => []IInv
BY InitIInv, NextKeeps, PTL DEF Spec

\* Type correctness of the table and of the calls: no column is ever undefined.
THEOREM TypeCorrect == Spec => []TypeOK
<1>1. IInv => TypeOK
  BY DEF IInv
<1>2. QED
  BY <1>1, Invariance, PTL

\* An execution in a terminal status has its completion time, for any number of
\* cancels, starts and finishes that overwrite each other's columns.
THEOREM CompletionSafe == Spec => []TerminalHasCompletion
<1>1. IInv => TerminalHasCompletion
  <2> SUFFICES ASSUME IInv, NEW e \in Executions, executions[e].status \in Terminal
               PROVE  executions[e].completedAt # Null
    BY DEF TerminalHasCompletion
  <2>1. Exists(e)
    BY RowNotAbsent DEF Exists, Terminal
  <2>2. QED
    BY <2>1 DEF IInv, RowSound
<1>2. QED
  BY <1>1, Invariance, PTL

\* The answers of cancels hold for good unless writers overlapped.
THEOREM CancelAnswerSafe == Spec => []CancelAnswerHolds
<1>1. IInv => CancelAnswerHolds
  BY DEF IInv
<1>2. QED
  BY <1>1, Invariance, PTL

\* Executions stay with the tenant of their definition, and callers are shown
\* executions of the tenant their header names only.
THEOREM IsolationSafe == Spec => []ContextIsolation
<1>1. IInv => ContextIsolation
  BY DEF IInv, RowSound, CallSound, ContextIsolation
<1>2. QED
  BY <1>1, Invariance, PTL

\* A step that changes the row of an execution that has ended is a save, and
\* a save that nobody overlapped has loaded an execution that had not ended.
LEMMA TerminalStep ==
  ASSUME IInv, [Next]_vars, NEW e \in Executions, e \notin contended,
         executions[e].status \in Terminal
  PROVE  executions'[e] = executions[e]
<1>1. ASSUME NEW r \in Requests, InsertExecution(r) PROVE executions'[e] = executions[e]
  <2>1. Kind[r] = "trigger" /\ executions[r] = Absent
    BY <1>1 DEF InsertExecution, IInv, CallSound
  <2>2. r # e
    BY <2>1, RowNotAbsent DEF Terminal
  <2>3. QED
    BY <1>1, <2>2 DEF InsertExecution, IInv, TypeOK
<1>2. ASSUME NEW r \in Requests, SaveWrites(r) PROVE executions'[e] = executions[e]
  <2>1. req[r].execution # e
    BY <1>2 DEF SaveWrites, IInv, CallSound, Writing, WriterSound
  <2>2. QED
    BY <1>2, <2>1 DEF SaveWrites, IInv, TypeOK
<1>3. ASSUME NEW r \in Requests, TriggerWorkflow(r) \/ PublishTriggered(r) \/ PublishFails(r)
                \/ SaveLoads(r) \/ SaveFails(r) \/ GetExecution(r) \/ ListExecutions(r)
      PROVE  executions' = executions
  BY <1>3, Zenon DEF TriggerWorkflow, PublishTriggered, PublishFails, SaveLoads, SaveFails,
       GetExecution, ListExecutions
<1>4. ASSUME NEW r \in Requests,
             CancelExecution(r) \/ StartExecution(r) \/ FinishExecution(r)
      PROVE  executions' = executions
  BY <1>4, Zenon DEF CancelExecution, StartExecution, FinishExecution, Loaded
<1>5. QED
  BY <1>1, <1>2, <1>3, <1>4 DEF Next, vars

\* An execution that has ended keeps its status and completion time unless
\* writers overlapped.
THEOREM TerminalSafe == Spec => TerminalSticks
<1>1. IInv /\ [Next]_vars =>
        [\A e \in Executions \ contended : executions[e].status \in Terminal =>
           /\ executions'[e].status = executions[e].status
           /\ executions'[e].completedAt = executions[e].completedAt]_executions
  BY TerminalStep
<1>2. QED
  BY <1>1, Invariance, PTL DEF Spec, TerminalSticks
===============================================================================
