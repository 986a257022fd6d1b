------------------------------ MODULE TenantCore ------------------------------
(***************************************************************************)
(* Organizations: creation through the API, creation by the bootstrap      *)
(* script, update and suspension.                                          *)
(*                                                                         *)
(* A handler loads an aggregate, changes it in memory and saves it.  Save  *)
(* is TypeORM's: it loads the row once more and writes the columns that    *)
(* differ from the aggregate, without lock or version, so other requests   *)
(* may come in between.  createdAt, updatedAt and settings play no part    *)
(* and are left out.                                                       *)
(***************************************************************************)
EXTENDS Naturals

CONSTANTS
  Requests,     \* calls, each made at most once
  Kind,         \* what a call does; register and login belong to Identity
  Slugs,        \* slugs as callers write them
  Normal,       \* a slug trimmed and in lower case
  ValidSlugs,   \* the normal slugs TenantSlug.PATTERN accepts
  Names,        \* organization names the table can hold
  ValidNames,   \* those of 2 to 100 characters besides blanks, as rename wants
  Plans,        \* plan tiers
  Unchanged     \* stands for a field the caller leaves out

\* The id of an organization is fresh: the call that makes it stands for it.
Orgs == {r \in Requests : Kind[r] \in {"create", "bootstrap"}}

\* So is the id of a user.
Users == {r \in Requests : Kind[r] \in {"register", "bootstrap"}}

ASSUME TenantAssumption ==
  /\ Kind \in [Requests -> {"create", "bootstrap", "update", "suspend",
                        "register", "login"}]
  /\ Normal \in [Slugs -> Slugs]
  /\ \A s \in Slugs : Normal[Normal[s]] = Normal[s]
  /\ ValidSlugs \subseteq {s \in Slugs : Normal[s] = s}
  /\ ValidNames \subseteq Names
  /\ Unchanged \notin Names \cup Plans

VARIABLES
  orgs,       \* the organizations table
  req,        \* per call: its state
  published,  \* events handed to the event bus, as <<org, event>>
  contended   \* history: organizations that two calls had loaded at once

vars == <<orgs, req, published, contended>>

(***************************************************************************)
(* Types.                                                                  *)
(***************************************************************************)
Absent == [status |-> "absent"]

Row == [status : {"provisioning", "active", "suspended"},
        slug : ValidSlugs, name : Names, plan : Plans, owner : Users]

Event == {"created", "provisioned", "suspended"}

\* org and entity are the aggregate a call works on, or org the one the script
\* has found, events its domainEvents, loaded the row that save() has read.
RequestState == [pc     : {"new", "insert", "save", "write", "publish", "done", "failed"},
                 org    : Orgs \cup {Absent},
                 entity : Row \cup {Absent},
                 events : SUBSET Event,
                 loaded : Row \cup {Absent}]

NewRequest == [pc |-> "new", org |-> Absent, entity |-> Absent,
               events |-> {}, loaded |-> Absent]

\* Type invariant: a stored organization has a status, a valid normal slug, a
\* name, a plan and an owner, whatever the handlers interleave.
TypeOK ==
  /\ orgs \in [Orgs -> Row \cup {Absent}]
  /\ req \in [Requests -> RequestState]
  /\ published \subseteq Orgs \X Event
  /\ contended \subseteq Orgs

Init ==
  /\ orgs = [o \in Orgs |-> Absent]
  /\ req = [r \in Requests |-> NewRequest]
  /\ published = {}
  /\ contended = {}

Exists(o) == orgs[o] # Absent

\* A call has loaded organization o and not yet saved it.
Changing(r, o) == req[r].pc \in {"save", "write"} /\ req[r].org = o

Begins(r, kind) ==
  /\ Kind[r] = kind
  /\ req[r].pc = "new"

Fails(r) ==
  /\ req' = [req EXCEPT ![r].pc = "failed"]
  /\ UNCHANGED <<orgs, published, contended>>

\* The aggregate the call goes on with.
Holds(r, pc, o, entity, events) ==
  req' = [req EXCEPT ![r] = [pc |-> pc, org |-> o, entity |-> entity,
                             events |-> events, loaded |-> Absent]]

(***************************************************************************)
(* OrganizationAggregate and OrganizationRepository.                       *)
(***************************************************************************)
\* TenantSlug.create takes the slug.
SlugAccepted(slug) == Normal[slug] \in ValidSlugs

ExistsBySlug(slug) == \E o \in Orgs : Exists(o) /\ orgs[o].slug = slug

Create(slug, name, plan, owner) ==
  [status |-> "provisioning", slug |-> Normal[slug], name |-> name, plan |-> plan,
   owner |-> owner]

MarkProvisioned(org) == [org EXCEPT !.status = "active"]

Suspend(org) == [org EXCEPT !.status = "suspended"]

\* Mutant: a plan change turns a suspended organization back on.
RevisedReactivating(org, name, plan) ==
  [status |-> IF plan = Unchanged THEN org.status ELSE "active",
   slug   |-> org.slug,
   name   |-> IF name = Unchanged THEN org.name ELSE name,
   plan   |-> IF plan = Unchanged THEN org.plan ELSE plan,
   owner  |-> org.owner]

\* rename and changePlan, each only if the caller sent the field.
Revised(org, name, plan) ==
  [status |-> org.status,
   slug   |-> org.slug,
   name   |-> IF name = Unchanged THEN org.name ELSE name,
   plan   |-> IF plan = Unchanged THEN org.plan ELSE plan,
   owner  |-> org.owner]

\* A caller reaches the organization its tenant context names.
GuardTenantRoot(caller, o) == caller = o

FindById(caller, o) == GuardTenantRoot(caller, o) /\ Exists(o)

\* The columns that differ between the aggregate and the row save() loaded.
Persisted(row, loaded, entity) ==
  [c \in DOMAIN row |-> IF entity[c] # loaded[c] THEN entity[c] ELSE row[c]]

(***************************************************************************)
(* CreateOrganizationHandler, and provisionOrganization of the bootstrap   *)
(* script, which reuses an organization that has the slug.                 *)
(***************************************************************************)
CreateOrganization(r, owner) ==
  /\ Begins(r, "create")
  /\ \E slug \in Slugs, name \in Names, plan \in Plans :
       IF ExistsBySlug(slug) \/ ~SlugAccepted(slug)
       THEN Fails(r)
       ELSE /\ Holds(r, "insert", r, Create(slug, name, plan, owner), {"created"})
            /\ UNCHANGED <<orgs, published, contended>>

ProvisionOrganization(r, owner, slug) ==
  /\ Begins(r, "bootstrap")
  /\ \/ /\ \E o \in Orgs :
             /\ Exists(o) /\ orgs[o].slug = slug
             /\ req' = [req EXCEPT ![r].pc = "done", ![r].org = o]
        /\ UNCHANGED <<orgs, published, contended>>
     \/ /\ ~ExistsBySlug(slug)
        /\ ~SlugAccepted(slug)
        /\ Fails(r)
     \/ /\ ~ExistsBySlug(slug)
        /\ SlugAccepted(slug)
        /\ \E name \in Names, plan \in Plans :
             Holds(r, "insert", r, MarkProvisioned(Create(slug, name, plan, owner)),
                   {"created", "provisioned"})
        /\ UNCHANGED <<orgs, published, contended>>

\* The script is killed: it writes nothing more.
BootstrapDies(r) ==
  /\ Kind[r] = "bootstrap"
  /\ req[r].pc \notin {"done", "failed"}
  /\ Fails(r)

\* What the repository returns is built from the row: no domain events.
Saved(r, row) ==
  /\ orgs' = [orgs EXCEPT ![req[r].org] = row]
  /\ Holds(r, "publish", req[r].org, req[r].entity, {})
  /\ UNCHANGED <<published, contended>>

\* Mutant: the slug index is not unique.
ProvisionUnchecked(r) ==
  /\ req[r].pc = "insert"
  /\ Saved(r, req[r].entity)

\* repository.provision: the insert fails on the unique index of slug.
Provision(r) ==
  /\ req[r].pc = "insert"
  /\ IF ExistsBySlug(req[r].entity.slug) THEN Fails(r) ELSE Saved(r, req[r].entity)

(***************************************************************************)
(* UpdateOrganizationHandler and SuspendOrganizationHandler.               *)
(***************************************************************************)
Loaded(r, o, entity, events) ==
  /\ Holds(r, "save", o, entity, events)
  /\ contended' = contended \cup {x \in {o} : \E q \in Requests : Changing(q, x)}
  /\ UNCHANGED <<orgs, published>>

UpdateOrganization(r) ==
  /\ Begins(r, "update")
  /\ \E caller, o \in Orgs, name \in Names \cup {Unchanged}, plan \in Plans \cup {Unchanged} :
       IF FindById(caller, o) /\ name \in ValidNames \cup {Unchanged}
       THEN Loaded(r, o, Revised(orgs[o], name, plan), {})
       ELSE Fails(r)

SuspendOrganization(r) ==
  /\ Begins(r, "suspend")
  /\ \E caller, o \in Orgs :
       IF FindById(caller, o) /\ orgs[o].status = "active"
       THEN Loaded(r, o, Suspend(orgs[o]), {"suspended"})
       ELSE Fails(r)

SaveLoads(r) ==
  /\ req[r].pc = "save"
  /\ req' = [req EXCEPT ![r].pc = "write", ![r].loaded = orgs[req[r].org]]
  /\ UNCHANGED <<orgs, published, contended>>

SaveWrites(r) ==
  /\ req[r].pc = "write"
  /\ Saved(r, Persisted(orgs[req[r].org], req[r].loaded, req[r].entity))

\* The events of the aggregate that save or provision returned are published.
\* The bootstrap script publishes nothing.
PublishEvents(r) ==
  /\ req[r].pc = "publish"
  /\ published' = published \cup
       (IF Kind[r] \in {"create", "suspend"} THEN {req[r].org} \X req[r].events ELSE {})
  /\ req' = [req EXCEPT ![r].pc = "done"]
  /\ UNCHANGED <<orgs, contended>>

-------------------------------------------------------------------------------
Next ==
  \E r \in Requests :
    \/ \E owner \in Users : CreateOrganization(r, owner)
    \/ \E owner \in Users, s \in Slugs : ProvisionOrganization(r, owner, Normal[s])
    \/ Provision(r)
    \/ BootstrapDies(r)
    \/ UpdateOrganization(r)
    \/ SuspendOrganization(r)
    \/ SaveLoads(r)
    \/ SaveWrites(r)
    \/ PublishEvents(r)

Spec == Init /\ [][Next]_vars

-------------------------------------------------------------------------------
(***************************************************************************)
(* Properties.                                                             *)
(***************************************************************************)

\* No two organizations have the same slug, although the handler asks for the
\* slug as the caller wrote it, stores it normalised, and other creations run
\* between the question and the insert.
SlugsUnique ==
  \A o, p \in Orgs : Exists(o) /\ Exists(p) /\ orgs[o].slug = orgs[p].slug => o = p

\* A suspended organization stays suspended, and an active one never returns
\* to provisioning, unless two calls had loaded it at the same time: no handler
\* reactivates, and an update saves the status it has read.
SuspensionSticks ==
  [][\A o \in Orgs \ contended : Exists(o) =>
       /\ orgs[o].status = "suspended" => orgs'[o].status = "suspended"
       /\ orgs[o].status = "active" => orgs'[o].status # "provisioning"]_orgs

\* "Emitted when a new organization is created", "Emitted when tenant is
\* suspended": the events of a creation or suspension that has succeeded have
\* been published.
ChangesAnnounced ==
  \A r \in Requests : req[r].pc = "done" =>
    /\ Kind[r] = "create" => <<r, "created">> \in published
    /\ Kind[r] = "suspend" => <<req[r].org, "suspended">> \in published
===============================================================================
