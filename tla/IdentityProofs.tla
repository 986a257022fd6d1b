---------------------------- MODULE IdentityProofs ----------------------------
(***************************************************************************)
(* Proofs about the users and organizations of Identity and TenantCore,    *)
(* for every set of calls, slugs, names, plans and addresses.              *)
(***************************************************************************)
EXTENDS Identity, TLAPS

(***************************************************************************)
(* The inductive invariant.  Columns that no method changes agree in all   *)
(* copies of a row, so no save can lose them; whether an organization is   *)
(* in provisioning follows from the call that made it, for no code ends    *)
(* the provisioning of one that the API has created; and what a login or   *)
(* the bootstrap script has looked up stays true until it is used.         *)
(***************************************************************************)
Provisioning(o, org) == org.status = "provisioning" <=> Kind[o] = "create"

OrgsSound == \A o \in Orgs : Exists(o) => Provisioning(o, orgs[o])

\* An organization that a call has in memory and is going to insert.
InsertSound(q) ==
  /\ q \in Orgs
  /\ req[q].org = q
  /\ req[q].entity \in Row
  /\ Provisioning(q, req[q].entity)
  /\ Stored(req[q].entity.owner)
  /\ Kind[q] = "bootstrap" => req[q].entity.owner = call[q].user

\* One it is going to save, and the row that the save has loaded.
SaveSound(q, o, row) ==
  /\ Kind[q] \in {"update", "suspend"}
  /\ o \in Orgs
  /\ row \in Row
  /\ req[q].entity \in Row
  /\ req[q].entity.slug = row.slug
  /\ req[q].entity.owner = row.owner
  /\ Provisioning(o, req[q].entity)
  /\ o \notin contended => req[q].entity.status \in {row.status, "suspended"}

LoadedSound(q, o, row) ==
  /\ req[q].loaded \in Row
  /\ req[q].loaded.slug = row.slug
  /\ req[q].loaded.owner = row.owner
  /\ o \notin contended => req[q].loaded.status = row.status

RequestSound(q) ==
  /\ q \in Orgs /\ req[q].pc \in {"new", "insert"} => orgs[q] = Absent
  /\ req[q].pc = "insert" => InsertSound(q)
  /\ req[q].pc \in {"save", "write"} => SaveSound(q, req[q].org, orgs[req[q].org])
  /\ req[q].pc = "write" => LoadedSound(q, req[q].org, orgs[req[q].org])
  /\ req[q].pc = "publish" => req[q].org \in Orgs

\* An organization that is not contended has at most one call about to save it.
OneWriter ==
  \A p, q \in Requests :
    /\ req[p].pc \in {"save", "write"} /\ req[q].pc \in {"save", "write"}
    /\ req[p].org = req[q].org /\ req[p].org \notin contended
    => p = q

\* The organization that a run of the script has found or made is there.
Bootstrapped(q) == req[q].org \in Orgs /\ Exists(req[q].org)

BootstrapSound(q) ==
  Kind[q] = "bootstrap" /\ req[q].pc \in {"insert", "publish", "done"} =>
    /\ call[q].pc = "organization"
    /\ req[q].pc # "insert" => Bootstrapped(q)

\* One that a run has made belongs to its admin, whom it keeps, even when dead.
OwnedByAdmin(o) ==
  Exists(o) /\ Kind[o] = "bootstrap" =>
    call[o].pc \in {"organization", "over"} /\ orgs[o].owner = call[o].user

\* The rows and copies of users, and what calls have found out about them.
LoginSound(q, u, o) ==
  /\ u \in Users /\ Stored(u) /\ users[u].status = "active"
  /\ call[q].pc \in {"record", "sign"} =>
       o \in Orgs /\ Exists(o) /\ orgs[o].owner = u /\ Kind[o] = "bootstrap"
  /\ call[q].pc = "sign" => users[u].loggedIn

CallSound(q) ==
  /\ q \in Users /\ call[q].pc \in {"new", "insert"} => users[q] = Absent
  /\ call[q].pc = "insert" =>
       /\ q \in Users /\ call[q].user = q /\ call[q].entity \in UserRow
       /\ Kind[q] = "bootstrap" => call[q].entity.status = "active"
  /\ call[q].pc = "organization" => call[q].user \in Users /\ Stored(call[q].user)
  /\ call[q].pc \in {"resolve", "record", "sign"} =>
       Kind[q] = "login" /\ LoginSound(q, call[q].user, call[q].org)

UsersSound == \A u \in Users : Stored(u) /\ Kind[u] = "bootstrap" => users[u].status = "active"

TokensSound ==
  \A t \in tokens :
    /\ Stored(t.user) /\ users[t.user].status = "active" /\ users[t.user].loggedIn
    /\ Exists(t.tenant) /\ orgs[t.tenant].owner = t.user /\ Kind[t.tenant] = "bootstrap"

OrgInv ==
  /\ OrgsSound
  /\ \A q \in Requests : RequestSound(q)
  /\ OneWriter
  /\ SlugsUnique

UserInv ==
  /\ \A q \in Requests : CallSound(q) /\ BootstrapSound(q)
  /\ \A o \in Orgs : OwnedByAdmin(o)
  /\ UsersSound
  /\ TokensSound
  /\ EmailsUnique

IInv == AccountsTypeOK /\ OrgInv /\ UserInv

(***************************************************************************)
(* Facts about the aggregates.                                             *)
(***************************************************************************)

\* A row is not the absent one.
LEMMA RowNotAbsent == Absent \notin Row /\ Absent \notin UserRow
BY DEF Row, UserRow, Absent

\* OrganizationAggregate.create makes a provisioning organization with the
\* normalised slug, and markProvisioned an active one.
LEMMA CreateTypes ==
  ASSUME NEW slug \in Slugs, SlugAccepted(slug), NEW name \in Names, NEW plan \in Plans,
         NEW owner \in Users, NEW org \in {Create(slug, name, plan, owner),
                                          MarkProvisioned(Create(slug, name, plan, owner))}
  PROVE  org \in Row /\ org.slug = Normal[slug] /\ org.owner = owner
BY DEF Row, Create, MarkProvisioned, SlugAccepted

\* rename and changePlan keep slug, owner and status.
LEMMA ReviseTypes ==
  ASSUME NEW org \in Row, NEW name \in ValidNames \cup {Unchanged},
         NEW plan \in Plans \cup {Unchanged}
  PROVE  /\ Revised(org, name, plan) \in Row
         /\ Revised(org, name, plan).slug = org.slug
         /\ Revised(org, name, plan).owner = org.owner
         /\ Revised(org, name, plan).status = org.status
BY TenantAssumption DEF Row, Revised

\* suspend keeps slug and owner.
LEMMA SuspendTypes ==
  ASSUME NEW org \in Row
  PROVE  /\ Suspend(org) \in Row
         /\ Suspend(org).slug = org.slug
         /\ Suspend(org).owner = org.owner
         /\ Suspend(org).status = "suspended"
BY DEF Row, Suspend

\* A save writes a row, and its status is the loaded one's or the entity's.
LEMMA PersistedTypes ==
  ASSUME NEW row \in Row, NEW loaded \in Row, NEW x \in Row,
         x.slug = loaded.slug, x.owner = loaded.owner
  PROVE  /\ Persisted(row, loaded, x) \in Row
         /\ Persisted(row, loaded, x).slug = row.slug
         /\ Persisted(row, loaded, x).owner = row.owner
         /\ x.status # loaded.status => Persisted(row, loaded, x).status = x.status
         /\ x.status = loaded.status => Persisted(row, loaded, x).status = row.status
BY DEF Persisted, Row

(***************************************************************************)
(* What steps of users leave of the organizations, and the other way round.*)
(***************************************************************************)
OrgsGrow ==
  \A o \in Orgs : Exists(o) =>
    Exists(o)' /\ orgs'[o].slug = orgs[o].slug /\ orgs'[o].owner = orgs[o].owner

\* An organization that a step adds is owned by the admin it was made for.
NewOrgsOwned == \A o \in Orgs : ~Exists(o) => OwnedByAdmin(o)'

UsersGrow ==
  \A u \in Users : Stored(u) =>
    /\ Stored(u)' /\ users'[u].email = users[u].email /\ users'[u].status = users[u].status
    /\ users[u].loggedIn => users'[u].loggedIn

\* What is known of an organization to be inserted stays known.
LEMMA InsertStays ==
  ASSUME IInv, UsersGrow, NEW q \in Requests, InsertSound(q), req'[q] = req[q],
         Kind[q] = "bootstrap" => call'[q].user = call[q].user
  PROVE  InsertSound(q)'
<1>1. req[q].entity.owner \in Users
  BY DEF InsertSound, Row
<1>2. QED
  BY <1>1 DEF InsertSound, UsersGrow, Provisioning

\* A call that a step leaves alone stays sound if the rows there are, and its
\* own, are left alone; organizations only become contended.
LEMMA RequestStays ==
  ASSUME IInv, UsersGrow, NEW q \in Requests, req'[q] = req[q],
         Kind[q] = "bootstrap" /\ req[q].pc = "insert" => call'[q].user = call[q].user,
         contended \subseteq contended',
         \A o \in Orgs : Exists(o) \/ o = q => orgs'[o] = orgs[o]
  PROVE  RequestSound(q)'
<1>1. RequestSound(q)
  BY DEF IInv, OrgInv
<1>2. q \in Orgs => orgs'[q] = orgs[q]
  OBVIOUS
<1>3. ASSUME req[q].pc \in {"save", "write"}
      PROVE  req[q].org \in Orgs /\ orgs'[req[q].org] = orgs[req[q].org]
  BY <1>1, <1>3, RowNotAbsent DEF RequestSound, SaveSound, Exists
<1>4. req[q].pc = "insert" => InsertSound(q)'
  BY <1>1, InsertStays DEF RequestSound
<1>5. req[q].pc \in {"save", "write"} => SaveSound(q, req[q].org, orgs[req[q].org])'
  BY <1>1, <1>3 DEF RequestSound, SaveSound, Provisioning
<1>6. req[q].pc = "write" => LoadedSound(q, req[q].org, orgs[req[q].org])'
  BY <1>1, <1>3 DEF RequestSound, LoadedSound
<1>7. QED
  BY <1>1, <1>2, <1>4, <1>5, <1>6 DEF RequestSound

\* A step of users keeps what is known of organizations.
LEMMA OrgInvStays ==
  ASSUME IInv, UNCHANGED vars, UsersGrow,
         \A q \in Requests :
           Kind[q] = "bootstrap" /\ req[q].pc = "insert" => call'[q] = call[q]
  PROVE  OrgInv'
<1>1. ASSUME NEW q \in Requests PROVE RequestSound(q)'
  BY RequestStays DEF vars
<1>2. OrgsSound' /\ OneWriter' /\ SlugsUnique'
  BY DEF vars, IInv, OrgInv, OrgsSound, Exists, Provisioning, OneWriter, SlugsUnique
<1>3. QED
  BY <1>1, <1>2 DEF OrgInv

\* What the script has left behind stays.
LEMMA BootstrappedStays ==
  ASSUME OrgsGrow, NEW q \in Requests, Bootstrapped(q), req'[q].org = req[q].org
  PROVE  Bootstrapped(q)'
BY DEF OrgsGrow, Bootstrapped

\* A step of organizations keeps what is known of users.
LEMMA UserInvStays ==
  ASSUME IInv, UNCHANGED identityVars, OrgsGrow, NewOrgsOwned,
         \A q \in Requests : BootstrapSound(q)'
  PROVE  UserInv'
<1>1. ASSUME NEW q \in Requests PROVE CallSound(q)'
  BY DEF IInv, UserInv, CallSound, LoginSound, identityVars, OrgsGrow, Stored
<1>2. UsersSound' /\ EmailsUnique'
  BY DEF IInv, UserInv, UsersSound, EmailsUnique, Stored, identityVars
<1>3. TokensSound'
  BY DEF IInv, UserInv, TokensSound, OrgsGrow, Stored, identityVars, AccountsTypeOK, Token
<1>4. ASSUME NEW o \in Orgs PROVE OwnedByAdmin(o)'
  BY DEF IInv, UserInv, OwnedByAdmin, OrgsGrow, NewOrgsOwned, identityVars
<1>5. QED
  BY <1>1, <1>2, <1>3, <1>4 DEF UserInv

(***************************************************************************)
(* Steps of organizations.                                                 *)
(***************************************************************************)

\* A call that ends has only its own state changed.
LEMMA EndEffect ==
  ASSUME TypeOK, NEW r \in Requests, NEW p \in {"done", "failed"},
         req' = [req EXCEPT ![r].pc = p]
  PROVE  /\ req' \in [Requests -> RequestState]
         /\ req'[r].pc = p /\ req'[r].org = req[r].org
         /\ \A q \in Requests \ {r} : req'[q] = req[q]
BY DEF TypeOK, RequestState

\* What a call keeps when it ends.
LEMMA EndKeeps ==
  ASSUME IInv, NEW r \in Requests, req' \in [Requests -> RequestState],
         req'[r].pc \in {"done", "failed"}, \A q \in Requests \ {r} : req'[q] = req[q],
         UNCHANGED <<orgs, contended, users>>, published' \subseteq Orgs \X Event,
         \A q \in Requests : call'[q].user = call[q].user
  PROVE  TypeOK' /\ OrgsGrow /\ NewOrgsOwned /\ OrgInv'
<1>1. TypeOK'
  BY DEF IInv, AccountsTypeOK, TypeOK
<1>2. req'[r].pc \in {"done", "failed"} /\ \A q \in Requests \ {r} : req'[q] = req[q]
  OBVIOUS
<1>3. OrgsGrow /\ NewOrgsOwned /\ UsersGrow
  BY DEF OrgsGrow, NewOrgsOwned, OwnedByAdmin, UsersGrow, Exists, Stored
<1>4. ASSUME NEW q \in Requests PROVE RequestSound(q)'
  <2>1. CASE q = r
    BY <1>2, <2>1 DEF RequestSound
  <2>2. CASE q # r
    BY <1>2, <1>3, <2>2, RequestStays
  <2>3. QED
    BY <2>1, <2>2
<1>5. OneWriter'
  BY <1>2 DEF IInv, OrgInv, OneWriter
<1>6. OrgsSound' /\ SlugsUnique'
  BY DEF IInv, OrgInv, OrgsSound, Exists, Provisioning, SlugsUnique
<1>7. QED
  BY <1>1, <1>3, <1>4, <1>5, <1>6 DEF OrgInv

\* A call that goes on with an aggregate: nothing is stored yet.
LEMMA HoldsEffect ==
  ASSUME TypeOK, NEW r \in Requests,
         NEW pc \in {"insert", "save", "publish"}, NEW o \in Orgs, NEW x \in Row,
         NEW events \in SUBSET Event, Holds(r, pc, o, x, events)
  PROVE  /\ req' \in [Requests -> RequestState]
         /\ req'[r].pc = pc /\ req'[r].org = o /\ req'[r].entity = x
         /\ \A q \in Requests \ {r} : req'[q] = req[q]
BY DEF TypeOK, Holds, RequestState

\* A call drafts an organization.
LEMMA DraftKeeps ==
  ASSUME IInv, NEW r \in Requests, req[r].pc = "new", r \in Orgs, NEW x \in Row,
         NEW events \in SUBSET Event, Holds(r, "insert", r, x, events),
         Provisioning(r, x), Stored(x.owner),
         Kind[r] = "bootstrap" =>
           x.owner = call[r].user /\ call[r].pc = "organization",
         UNCHANGED <<orgs, published, contended, identityVars>>
  PROVE  IInv'
<1>1. /\ req' \in [Requests -> RequestState]
      /\ req'[r].pc = "insert" /\ req'[r].org = r /\ req'[r].entity = x
      /\ \A q \in Requests \ {r} : req'[q] = req[q]
  BY HoldsEffect DEF IInv, AccountsTypeOK
<1>2. AccountsTypeOK'
  BY <1>1 DEF IInv, AccountsTypeOK, TypeOK, identityVars
<1>3. OrgsGrow /\ NewOrgsOwned /\ UsersGrow /\ UNCHANGED <<users, call>>
  BY DEF OrgsGrow, NewOrgsOwned, OwnedByAdmin, UsersGrow, Exists, Stored, identityVars
<1>4. ASSUME NEW q \in Requests PROVE RequestSound(q)'
  <2>1. CASE q = r
    <3>1. orgs[r] = Absent
      BY DEF IInv, OrgInv, RequestSound
    <3>2. InsertSound(r)'
      BY <1>1, <1>3 DEF InsertSound, Provisioning, Stored
    <3>3. QED
      BY <1>1, <2>1, <3>1, <3>2 DEF RequestSound
  <2>2. CASE q # r
    BY <1>1, <1>3, <2>2, RequestStays
  <2>3. QED
    BY <2>1, <2>2
<1>5. OneWriter'
  BY <1>1 DEF IInv, OrgInv, OneWriter
<1>6. OrgsSound' /\ SlugsUnique'
  BY DEF IInv, OrgInv, OrgsSound, Exists, Provisioning, SlugsUnique
<1>7. ASSUME NEW q \in Requests PROVE BootstrapSound(q)'
  <2>1. BootstrapSound(q)
    BY DEF IInv, UserInv
  <2>2. QED
    BY <1>1, <1>3, <2>1, BootstrappedStays DEF BootstrapSound
<1>8. QED
  BY <1>2, <1>3, <1>4, <1>5, <1>6, <1>7, UserInvStays DEF IInv, OrgInv

\* A call that fails keeps it.
LEMMA FailKeeps ==
  ASSUME IInv, NEW r \in Requests, Fails(r), UNCHANGED identityVars
  PROVE  IInv'
<1>1. /\ req' \in [Requests -> RequestState] /\ req'[r].pc = "failed"
      /\ \A q \in Requests \ {r} : req'[q] = req[q]
  BY EndEffect DEF Fails, IInv, AccountsTypeOK
<1>2. TypeOK' /\ OrgsGrow /\ NewOrgsOwned /\ OrgInv'
  BY <1>1, EndKeeps DEF Fails, identityVars, IInv, AccountsTypeOK, TypeOK
<1>3. ASSUME NEW q \in Requests PROVE BootstrapSound(q)'
  BY <1>1, <1>2, BootstrappedStays DEF IInv, UserInv, BootstrapSound, identityVars
<1>4. QED
  BY <1>2, <1>3, UserInvStays DEF IInv, AccountsTypeOK, identityVars

\* CreateOrganizationHandler fails or drafts an organization of the caller.
LEMMA CreateKeeps ==
  ASSUME IInv, NEW r \in Requests, NEW t \in tokens, CreateOrganization(r, t.user),
         UNCHANGED identityVars
  PROVE  IInv'
<1>1. Kind[r] = "create" /\ req[r].pc = "new" /\ r \in Orgs
  BY DEF CreateOrganization, Begins, Orgs
<1>2. t.user \in Users /\ Stored(t.user)
  BY DEF IInv, AccountsTypeOK, Token, UserInv, TokensSound
<1>3. CASE Fails(r)
  BY <1>3, FailKeeps
<1>4. ASSUME NEW slug \in Slugs, NEW name \in Names, NEW plan \in Plans, SlugAccepted(slug),
             Holds(r, "insert", r, Create(slug, name, plan, t.user), {"created"}),
             UNCHANGED <<orgs, published, contended>>
      PROVE  IInv'
  <2>1. PICK x \in Row : x = Create(slug, name, plan, t.user) /\ x.owner = t.user
    BY <1>2, <1>4, CreateTypes
  <2>2. Provisioning(r, x)
    BY <1>1, <2>1 DEF Provisioning, Create
  <2>3. QED
    BY <1>1, <1>2, <1>4, <2>1, <2>2, DraftKeeps DEF Event
<1>5. QED
  BY <1>3, <1>4 DEF CreateOrganization

\* provisionOrganization finds the organization, fails, or drafts it for the
\* admin.
LEMMA ProvisionKeeps ==
  ASSUME IInv, NEW r \in Requests, HasUser(r), NEW slug \in AdminSlugs,
         ProvisionOrganization(r, call[r].user, slug), UNCHANGED identityVars
  PROVE  IInv'
<1>1. Kind[r] = "bootstrap" /\ req[r].pc = "new" /\ r \in Orgs /\ orgs[r] = Absent
  BY DEF ProvisionOrganization, Begins, Orgs, IInv, OrgInv, RequestSound
<1>2. call[r].pc = "organization" /\ call[r].user \in Users /\ Stored(call[r].user)
  BY DEF HasUser, IInv, UserInv, CallSound
<1>3. slug \in Slugs
  BY TenantAssumption, IdentityAssumption
<1>4. CASE Fails(r)
  BY <1>4, FailKeeps
<1>5. ASSUME NEW o \in Orgs, Exists(o),
             req' = [req EXCEPT ![r].pc = "done", ![r].org = o],
             UNCHANGED <<orgs, published, contended>>
      PROVE  IInv'
  <2>1. /\ req' \in [Requests -> RequestState]
        /\ req'[r].pc = "done" /\ req'[r].org = o
        /\ \A q \in Requests \ {r} : req'[q] = req[q]
    BY <1>5 DEF IInv, AccountsTypeOK, TypeOK, RequestState
  <2>2. TypeOK' /\ OrgsGrow /\ NewOrgsOwned /\ OrgInv'
    BY <1>5, <2>1, EndKeeps DEF identityVars, IInv, AccountsTypeOK, TypeOK
  <2>3. ASSUME NEW q \in Requests PROVE BootstrapSound(q)'
    <3>1. CASE q = r
      BY <1>2, <1>5, <2>1, <3>1 DEF BootstrapSound, Bootstrapped, Exists, identityVars
    <3>2. CASE q # r
      BY <2>1, <2>2, <3>2, BootstrappedStays DEF IInv, UserInv, BootstrapSound, identityVars
    <3>3. QED
      BY <3>1, <3>2
  <2>4. QED
    BY <2>2, <2>3, UserInvStays DEF IInv, AccountsTypeOK, identityVars
<1>6. ASSUME SlugAccepted(slug), NEW name \in Names, NEW plan \in Plans,
             Holds(r, "insert", r,
                   MarkProvisioned(Create(slug, name, plan, call[r].user)),
                   {"created", "provisioned"}),
             UNCHANGED <<orgs, published, contended>>
      PROVE  IInv'
  <2>1. PICK x \in Row :
          /\ x = MarkProvisioned(Create(slug, name, plan, call[r].user))
          /\ x.owner = call[r].user
    BY <1>2, <1>3, <1>6, CreateTypes
  <2>2. Provisioning(r, x)
    BY <1>1, <2>1 DEF Provisioning, Create, MarkProvisioned
  <2>3. QED
    BY <1>1, <1>2, <1>6, <2>1, <2>2, DraftKeeps DEF Event
<1>7. QED
  BY <1>4, <1>5, <1>6 DEF ProvisionOrganization

\* The insert of a drafted organization: the slug is new, and so is the row.
LEMMA InsertKeeps ==
  ASSUME IInv, NEW r \in Requests, Provision(r), UNCHANGED identityVars
  PROVE  IInv'
<1>1. CASE Fails(r)
  BY <1>1, FailKeeps
<1>2. CASE ~ExistsBySlug(req[r].entity.slug) /\ Saved(r, req[r].entity)
  <2>1. PICK x \in Row : /\ x = req[r].entity /\ r \in Orgs /\ req[r].org = r
                         /\ Provisioning(r, x) /\ orgs[r] = Absent
                         /\ Kind[r] = "bootstrap" => x.owner = call[r].user
                         /\ req[r].pc = "insert"
    BY DEF Provision, IInv, OrgInv, RequestSound, InsertSound
  <2>2. /\ orgs' = [orgs EXCEPT ![r] = x] /\ Holds(r, "publish", r, x, {})
        /\ UNCHANGED <<published, contended>>
    BY <1>2, <2>1 DEF Saved
  <2>3. /\ req' \in [Requests -> RequestState]
        /\ req'[r].pc = "publish" /\ req'[r].org = r
        /\ \A q \in Requests \ {r} : req'[q] = req[q]
    BY <2>1, <2>2, HoldsEffect DEF IInv, AccountsTypeOK
  <2>4. AccountsTypeOK'
    BY <2>1, <2>2, <2>3 DEF IInv, AccountsTypeOK, TypeOK, identityVars
  <2>5. /\ orgs'[r] = x /\ x # Absent
        /\ \A o \in Orgs \ {r} : orgs'[o] = orgs[o]
    BY <2>1, <2>2, RowNotAbsent DEF IInv, AccountsTypeOK, TypeOK
  <2>6. OrgsGrow /\ UsersGrow
    BY <2>1, <2>5 DEF OrgsGrow, UsersGrow, Exists, Stored, identityVars
  <2>7. ASSUME NEW q \in Requests PROVE RequestSound(q)'
    <3>1. CASE q = r
      BY <2>1, <2>3, <3>1 DEF RequestSound
    <3>2. CASE q # r
      BY <2>1, <2>2, <2>3, <2>5, <2>6, <3>2, RequestStays DEF Exists, identityVars
    <3>3. QED
      BY <3>1, <3>2
  <2>8. OneWriter'
    BY <2>2, <2>3 DEF IInv, OrgInv, OneWriter
  <2>9. OrgsSound'
    BY <2>1, <2>5 DEF IInv, OrgInv, OrgsSound, Exists, Provisioning
  <2>10. SlugsUnique'
    BY <1>2, <2>1, <2>5 DEF IInv, OrgInv, SlugsUnique, ExistsBySlug, Exists
  <2>11. ASSUME NEW q \in Requests PROVE BootstrapSound(q)'
    <3>1. CASE q = r
      <4>1. Kind[r] = "bootstrap" => Bootstrapped(r)'
        BY <2>1, <2>3, <2>5 DEF Bootstrapped, Exists
      <4>2. Kind[r] = "bootstrap" => call[r].pc = "organization"
        BY <2>1 DEF IInv, UserInv, BootstrapSound
      <4>3. QED
        BY <3>1, <4>1, <4>2 DEF BootstrapSound, identityVars
    <3>2. CASE q # r
      BY <2>3, <2>6, <3>2, BootstrappedStays DEF IInv, UserInv, BootstrapSound, identityVars
    <3>3. QED
      BY <3>1, <3>2
  <2>12. NewOrgsOwned
    <3>1. Kind[r] = "bootstrap" => call[r].pc = "organization"
      BY <2>1 DEF IInv, UserInv, BootstrapSound
    <3>2. QED
      BY <2>1, <2>5, <3>1 DEF NewOrgsOwned, OwnedByAdmin, Exists, identityVars
  <2>13. QED
    BY <2>4, <2>6, <2>7, <2>8, <2>9, <2>10, <2>11, <2>12, UserInvStays DEF IInv, OrgInv
<1>3. QED
  BY <1>1, <1>2 DEF Provision

\* A handler has loaded an organization and changed it in memory.
LEMMA LoadKeeps ==
  ASSUME IInv, NEW r \in Requests, Kind[r] \in {"update", "suspend"}, NEW o \in Orgs,
         Exists(o), NEW x \in Row, NEW events \in SUBSET Event,
         x.slug = orgs[o].slug, x.owner = orgs[o].owner, Provisioning(o, x),
         x.status \in {orgs[o].status, "suspended"},
         Loaded(r, o, x, events), UNCHANGED identityVars
  PROVE  IInv'
<1>1. /\ contended \subseteq contended' /\ contended' \subseteq Orgs
      /\ \A q \in Requests : Changing(q, o) => o \in contended'
      /\ UNCHANGED <<orgs, published>>
  BY DEF Loaded, IInv, AccountsTypeOK, TypeOK
<1>2. /\ req' \in [Requests -> RequestState]
      /\ req'[r].pc = "save" /\ req'[r].org = o /\ req'[r].entity = x
      /\ \A q \in Requests \ {r} : req'[q] = req[q]
  BY HoldsEffect DEF Loaded, IInv, AccountsTypeOK
<1>3. AccountsTypeOK'
  BY <1>1, <1>2 DEF IInv, AccountsTypeOK, TypeOK, identityVars
<1>4. OrgsGrow /\ NewOrgsOwned /\ UsersGrow
  BY <1>1 DEF OrgsGrow, NewOrgsOwned, OwnedByAdmin, UsersGrow, Exists, Stored, identityVars
<1>5. ASSUME NEW q \in Requests PROVE RequestSound(q)'
  <2>1. CASE q = r
    <3>1. orgs[o] \in Row
      BY DEF Exists, IInv, AccountsTypeOK, TypeOK
    <3>2. SaveSound(r, o, orgs[o])'
      BY <1>1, <1>2, <3>1 DEF SaveSound, Provisioning
    <3>3. r \notin Orgs
      BY DEF Orgs
    <3>4. QED
      BY <1>2, <2>1, <3>2, <3>3 DEF RequestSound
  <2>2. CASE q # r
    BY <1>1, <1>2, <1>4, <2>2, RequestStays DEF identityVars
  <2>3. QED
    BY <2>1, <2>2
<1>6. OneWriter'
  BY <1>1, <1>2 DEF IInv, OrgInv, OneWriter, Changing
<1>7. OrgsSound' /\ SlugsUnique'
  BY <1>1 DEF IInv, OrgInv, OrgsSound, Exists, Provisioning, SlugsUnique
<1>8. ASSUME NEW q \in Requests PROVE BootstrapSound(q)'
  BY <1>2, <1>4, BootstrappedStays DEF IInv, UserInv, BootstrapSound, identityVars
<1>9. QED
  BY <1>3, <1>4, <1>5, <1>6, <1>7, <1>8, UserInvStays DEF IInv, OrgInv

\* UpdateOrganizationHandler and SuspendOrganizationHandler fail or load.
LEMMA ChangeKeeps ==
  ASSUME IInv, NEW r \in Requests, UpdateOrganization(r) \/ SuspendOrganization(r),
         UNCHANGED identityVars
  PROVE  IInv'
<1>1. CASE Fails(r)
  BY <1>1, FailKeeps
<1>2. ASSUME NEW o \in Orgs, Exists(o)
      PROVE  orgs[o] \in Row /\ Provisioning(o, orgs[o])
  BY <1>2 DEF Exists, IInv, AccountsTypeOK, TypeOK, OrgInv, OrgsSound
<1>3. ASSUME UpdateOrganization(r), NEW o \in Orgs, Exists(o),
             NEW name \in ValidNames \cup {Unchanged}, NEW plan \in Plans \cup {Unchanged},
             Loaded(r, o, Revised(orgs[o], name, plan), {})
      PROVE  IInv'
  <2>1. Kind[r] \in {"update", "suspend"}
    BY <1>3 DEF UpdateOrganization, Begins
  <2>2. PICK x \in Row :
          /\ x = Revised(orgs[o], name, plan)
          /\ x.slug = orgs[o].slug /\ x.owner = orgs[o].owner /\ x.status = orgs[o].status
    BY <1>2, <1>3, ReviseTypes
  <2>3. Provisioning(o, x)
    BY <1>2, <1>3, <2>2 DEF Provisioning
  <2>4. QED
    BY <1>3, <2>1, <2>2, <2>3, LoadKeeps
<1>4. ASSUME SuspendOrganization(r), NEW o \in Orgs, Exists(o), orgs[o].status = "active",
             Loaded(r, o, Suspend(orgs[o]), {"suspended"})
      PROVE  IInv'
  <2>1. Kind[r] \in {"update", "suspend"}
    BY <1>4 DEF SuspendOrganization, Begins
  <2>2. PICK x \in Row :
          /\ x = Suspend(orgs[o])
          /\ x.slug = orgs[o].slug /\ x.owner = orgs[o].owner /\ x.status = "suspended"
    BY <1>2, <1>4, SuspendTypes
  <2>3. Provisioning(o, x)
    BY <1>2, <1>4, <2>2 DEF Provisioning
  <2>4. QED
    BY <1>4, <2>1, <2>2, <2>3, LoadKeeps DEF Event
<1>5. QED
  BY <1>1, <1>3, <1>4 DEF UpdateOrganization, SuspendOrganization, FindById

\* The load of a save.
LEMMA SaveLoadsKeeps ==
  ASSUME IInv, NEW r \in Requests, SaveLoads(r), UNCHANGED identityVars
  PROVE  IInv'
<1>1. PICK o \in Orgs :
        /\ o = req[r].org /\ SaveSound(r, o, orgs[o]) /\ orgs[o] \in Row
        /\ req[r].pc = "save" /\ r \notin Orgs
        /\ UNCHANGED <<orgs, published, contended>>
  BY DEF SaveLoads, IInv, OrgInv, RequestSound, SaveSound, Orgs
<1>2. /\ req' \in [Requests -> RequestState]
      /\ req'[r].pc = "write" /\ req'[r].org = o /\ req'[r].entity = req[r].entity
      /\ req'[r].loaded = orgs[o]
      /\ \A q \in Requests \ {r} : req'[q] = req[q]
  BY <1>1 DEF SaveLoads, IInv, AccountsTypeOK, TypeOK, RequestState
<1>3. AccountsTypeOK'
  BY <1>1, <1>2 DEF IInv, AccountsTypeOK, TypeOK, identityVars
<1>4. OrgsGrow /\ NewOrgsOwned /\ UsersGrow
  BY <1>1 DEF OrgsGrow, NewOrgsOwned, OwnedByAdmin, UsersGrow, Exists, Stored, identityVars
<1>5. ASSUME NEW q \in Requests PROVE RequestSound(q)'
  <2>1. CASE q = r
    <3>1. SaveSound(r, o, orgs[o])'
      BY <1>1, <1>2 DEF SaveSound, Provisioning
    <3>2. LoadedSound(r, o, orgs[o])'
      BY <1>1, <1>2 DEF LoadedSound
    <3>3. QED
      BY <1>1, <1>2, <2>1, <3>1, <3>2 DEF RequestSound
  <2>2. CASE q # r
    BY <1>1, <1>2, <1>4, <2>2, RequestStays DEF identityVars
  <2>3. QED
    BY <2>1, <2>2
<1>6. OneWriter'
  BY <1>1, <1>2 DEF IInv, OrgInv, OneWriter
<1>7. OrgsSound' /\ SlugsUnique'
  BY <1>1 DEF IInv, OrgInv, OrgsSound, Exists, Provisioning, SlugsUnique
<1>8. ASSUME NEW q \in Requests PROVE BootstrapSound(q)'
  BY <1>2, <1>4, BootstrappedStays DEF IInv, UserInv, BootstrapSound, identityVars
<1>9. QED
  BY <1>3, <1>4, <1>5, <1>6, <1>7, <1>8, UserInvStays DEF IInv, OrgInv

\* What a save writes keeps slug, owner and provisioning; if nobody overlapped,
\* the status stays or becomes suspended.
LEMMA WrittenRow ==
  ASSUME IInv, NEW r \in Requests, req[r].pc = "write", NEW o \in Orgs, o = req[r].org
  PROVE  \E new \in Row :
           /\ new = Persisted(orgs[o], req[r].loaded, req[r].entity)
           /\ Exists(o) /\ new.slug = orgs[o].slug /\ new.owner = orgs[o].owner
           /\ Provisioning(o, new)
           /\ o \notin contended => new.status \in {orgs[o].status, "suspended"}
<1>1. SaveSound(r, o, orgs[o]) /\ LoadedSound(r, o, orgs[o])
  BY DEF IInv, OrgInv, RequestSound
<1>2. PICK row \in Row, l \in Row, x \in Row :
        row = orgs[o] /\ l = req[r].loaded /\ x = req[r].entity
  BY <1>1 DEF SaveSound, LoadedSound
<1>3. Exists(o) /\ Provisioning(o, row)
  BY <1>2, RowNotAbsent DEF Exists, IInv, OrgInv, OrgsSound
<1>4. PICK new \in Row :
        /\ new = Persisted(row, l, x)
        /\ new.slug = row.slug /\ new.owner = row.owner
        /\ x.status # l.status => new.status = x.status
        /\ x.status = l.status => new.status = row.status
  <2>1. x.slug = l.slug /\ x.owner = l.owner
    BY <1>1, <1>2 DEF SaveSound, LoadedSound
  <2>2. QED
    BY <2>1, PersistedTypes
<1>5. Provisioning(o, new)
  BY <1>1, <1>2, <1>3, <1>4 DEF SaveSound, Provisioning
<1>6. o \notin contended => new.status \in {row.status, "suspended"}
  BY <1>1, <1>2, <1>4 DEF SaveSound, LoadedSound
<1>7. QED
  BY <1>2, <1>3, <1>4, <1>5, <1>6

\* The write of a save.
LEMMA SaveWritesKeeps ==
  ASSUME IInv, NEW r \in Requests, SaveWrites(r), UNCHANGED identityVars
  PROVE  IInv'
<1>1. PICK o \in Orgs :
        /\ o = req[r].org /\ req[r].entity \in Row /\ req[r].pc = "write" /\ r \notin Orgs
        /\ Kind[r] \in {"update", "suspend"}
  BY DEF SaveWrites, IInv, OrgInv, RequestSound, SaveSound, Orgs
<1>2. PICK new \in Row :
        /\ new = Persisted(orgs[o], req[r].loaded, req[r].entity)
        /\ Exists(o) /\ new.slug = orgs[o].slug /\ new.owner = orgs[o].owner
        /\ Provisioning(o, new)
  BY <1>1, WrittenRow
<1>3. /\ orgs' = [orgs EXCEPT ![o] = new] /\ Holds(r, "publish", o, req[r].entity, {})
      /\ UNCHANGED <<published, contended>>
  BY <1>1, <1>2 DEF SaveWrites, Saved
<1>4. /\ req' \in [Requests -> RequestState]
      /\ req'[r].pc = "publish" /\ req'[r].org = o
      /\ \A q \in Requests \ {r} : req'[q] = req[q]
  BY <1>1, <1>3, HoldsEffect DEF IInv, AccountsTypeOK
<1>5. AccountsTypeOK'
  BY <1>1, <1>3, <1>4 DEF IInv, AccountsTypeOK, TypeOK, identityVars
<1>6. /\ orgs'[o] = new /\ new # Absent
      /\ \A x \in Orgs \ {o} : orgs'[x] = orgs[x]
  BY <1>3, RowNotAbsent DEF IInv, AccountsTypeOK, TypeOK
<1>7. OrgsGrow /\ NewOrgsOwned /\ UsersGrow
  BY <1>2, <1>6 DEF OrgsGrow, NewOrgsOwned, OwnedByAdmin, UsersGrow, Exists, Stored, identityVars
<1>8. ASSUME NEW q \in Requests PROVE RequestSound(q)'
  <2>1. CASE q = r
    BY <1>1, <1>4, <2>1 DEF RequestSound
  <2>2. CASE q # r /\ req[q].pc \in {"save", "write"} /\ req[q].org = o
    <3>1. /\ SaveSound(q, o, orgs[o]) /\ (req[q].pc = "write" => LoadedSound(q, o, orgs[o]))
          /\ req'[q] = req[q] /\ o \in contended
      BY <1>1, <1>4, <2>2 DEF IInv, OrgInv, RequestSound, OneWriter
    <3>2. SaveSound(q, o, orgs[o])'
      BY <1>2, <1>3, <1>6, <3>1 DEF SaveSound, Provisioning
    <3>3. req[q].pc = "write" => LoadedSound(q, o, orgs[o])'
      BY <1>2, <1>3, <1>6, <3>1 DEF LoadedSound
    <3>4. QED
      BY <2>2, <3>1, <3>2, <3>3 DEF RequestSound
  <2>3. CASE q # r /\ ~(req[q].pc \in {"save", "write"} /\ req[q].org = o)
    <3>1. RequestSound(q) /\ req'[q] = req[q]
      BY <1>4, <2>3 DEF IInv, OrgInv
    <3>2. q \in Orgs /\ req[q].pc \in {"new", "insert"} => orgs'[q] = Absent
      BY <1>2, <1>6, <3>1 DEF RequestSound, Exists
    <3>3. req[q].pc = "insert" => InsertSound(q)'
      BY <1>7, <3>1, InsertStays DEF RequestSound, identityVars
    <3>4. req[q].pc \in {"save", "write"} => SaveSound(q, req[q].org, orgs[req[q].org])'
      BY <1>3, <1>6, <2>3, <3>1 DEF RequestSound, SaveSound, Provisioning
    <3>5. req[q].pc = "write" => LoadedSound(q, req[q].org, orgs[req[q].org])'
      BY <1>3, <1>6, <2>3, <3>1 DEF RequestSound, SaveSound, LoadedSound
    <3>6. QED
      BY <3>1, <3>2, <3>3, <3>4, <3>5 DEF RequestSound
  <2>4. QED
    BY <2>1, <2>2, <2>3
<1>9. OneWriter'
  BY <1>3, <1>4 DEF IInv, OrgInv, OneWriter
<1>10. OrgsSound'
  BY <1>2, <1>6 DEF IInv, OrgInv, OrgsSound, Exists, Provisioning
<1>11. SlugsUnique'
  BY <1>2, <1>6 DEF IInv, OrgInv, SlugsUnique, Exists
<1>12. ASSUME NEW q \in Requests PROVE BootstrapSound(q)'
  BY <1>1, <1>4, <1>7, BootstrappedStays DEF IInv, UserInv, BootstrapSound, identityVars
<1>13. QED
  BY <1>5, <1>7, <1>8, <1>9, <1>10, <1>11, <1>12, UserInvStays DEF IInv, OrgInv

\* The end of a call that has stored its organization.
LEMMA PublishKeeps ==
  ASSUME IInv, NEW r \in Requests, PublishEvents(r), UNCHANGED identityVars
  PROVE  IInv'
<1>1. req[r].pc = "publish" /\ req[r].org \in Orgs /\ req[r].events \subseteq Event
  BY DEF PublishEvents, IInv, OrgInv, RequestSound, AccountsTypeOK, TypeOK, RequestState
<1>2. published' \subseteq Orgs \X Event
  BY <1>1 DEF PublishEvents, IInv, AccountsTypeOK, TypeOK
<1>3. /\ req' \in [Requests -> RequestState]
      /\ req'[r].pc = "done" /\ req'[r].org = req[r].org
      /\ \A q \in Requests \ {r} : req'[q] = req[q]
  BY EndEffect DEF PublishEvents, IInv, AccountsTypeOK
<1>4. TypeOK' /\ OrgsGrow /\ NewOrgsOwned /\ OrgInv'
  BY <1>2, <1>3, EndKeeps DEF PublishEvents, identityVars
<1>5. ASSUME NEW q \in Requests PROVE BootstrapSound(q)'
  <2>1. BootstrapSound(q)
    BY DEF IInv, UserInv
  <2>2. QED
    BY <1>1, <1>3, <1>4, <2>1, BootstrappedStays DEF BootstrapSound, identityVars
<1>6. QED
  BY <1>4, <1>5, UserInvStays DEF IInv, AccountsTypeOK, identityVars

(***************************************************************************)
(* Steps of users.                                                         *)
(***************************************************************************)

\* What has to be shown of a step of call r: its own state, the users and the
\* tokens.  Organizations and other calls are not concerned.
LEMMA UserFrame ==
  ASSUME IInv, NEW r \in Requests, call[r].pc \notin {"organization", "over"},
         UNCHANGED vars,
         UsersGrow, AccountsTypeOK', CallSound(r)', UsersSound', TokensSound', EmailsUnique',
         \A q \in Requests \ {r} : call'[q] = call[q],
         \A u \in Users \ {r} : ~Stored(u) => users'[u] = users[u]
  PROVE  IInv'
<1>1. ASSUME NEW q \in Requests, Kind[q] = "bootstrap", req[q].pc \in {"insert", "publish", "done"}
      PROVE  q # r /\ call'[q] = call[q] /\ BootstrapSound(q)
  BY <1>1 DEF IInv, UserInv, BootstrapSound
<1>2. OrgInv'
  BY <1>1, OrgInvStays
<1>3. ASSUME NEW q \in Requests, q # r PROVE CallSound(q)'
  <2>1. CallSound(q) /\ call'[q] = call[q]
    BY <1>3 DEF IInv, UserInv
  <2>2. q \in Users /\ call[q].pc \in {"new", "insert"} => users'[q] = Absent
    BY <1>3, <2>1 DEF CallSound, Stored
  <2>3. ASSUME call[q].pc \in {"resolve", "record", "sign"}
        PROVE  LoginSound(q, call[q].user, call[q].org)'
    BY <2>1, <2>3 DEF CallSound, LoginSound, UsersGrow, vars, Exists
  <2>4. QED
    BY <2>1, <2>2, <2>3 DEF CallSound, UsersGrow
<1>4. ASSUME NEW q \in Requests PROVE BootstrapSound(q)'
  <2>1. OrgsGrow
    BY DEF OrgsGrow, vars, Exists
  <2>2. QED
    BY <1>1, <2>1, BootstrappedStays DEF BootstrapSound, vars
<1>5. ASSUME NEW o \in Orgs PROVE OwnedByAdmin(o)'
  <2>1. OwnedByAdmin(o)
    BY DEF IInv, UserInv
  <2>2. QED
    BY <2>1 DEF OwnedByAdmin, Orgs, Exists, vars
<1>6. QED
  BY <1>2, <1>3, <1>4, <1>5 DEF IInv, UserInv

\* A step that only takes the call on: neither users nor tokens change.
LEMMA AdvanceKeeps ==
  ASSUME IInv, NEW r \in Requests, call[r].pc \notin {"organization", "over"},
         UNCHANGED vars,
         UNCHANGED <<users, tokens>>, call' \in [Requests -> CallState],
         \A q \in Requests \ {r} : call'[q] = call[q], CallSound(r)'
  PROVE  IInv'
<1>1. AccountsTypeOK'
  BY DEF IInv, AccountsTypeOK, TypeOK, vars
<1>2. UsersGrow /\ UsersSound' /\ TokensSound' /\ EmailsUnique'
  BY DEF IInv, UserInv, UsersGrow, UsersSound, TokensSound, EmailsUnique, Stored, Exists, vars
<1>3. QED
  BY <1>1, <1>2, UserFrame

\* A call that is denied.
LEMMA DeniedKeeps ==
  ASSUME IInv, NEW r \in Requests, call[r].pc \notin {"organization", "over"},
         UNCHANGED vars, Denied(r)
  PROVE  IInv'
<1>1. /\ call' \in [Requests -> CallState] /\ call'[r].pc = "over"
      /\ \A q \in Requests \ {r} : call'[q] = call[q]
  BY DEF Denied, Advance, IInv, AccountsTypeOK, CallState
<1>2. CallSound(r)'
  BY <1>1 DEF CallSound
<1>3. QED
  BY <1>1, <1>2, AdvanceKeeps DEF Denied

\* A new user is drafted, by a registration or by the script.
LEMMA DraftUserKeeps ==
  ASSUME IInv, NEW r \in Requests, call[r].pc = "new", UNCHANGED vars, r \in Users,
         NEW email \in Emails, EmailAccepted(email),
         NEW status \in {"pending_verification", "active"},
         Kind[r] = "bootstrap" => status = "active", Drafts(r, email, status)
  PROVE  IInv'
<1>1. CreateUser(email, status) \in UserRow /\ CreateUser(email, status).status = status
  BY DEF CreateUser, UserRow, EmailAccepted
<1>2. /\ call' \in [Requests -> CallState]
      /\ call'[r].pc = "insert" /\ call'[r].user = r
      /\ call'[r].entity = CreateUser(email, status)
      /\ \A q \in Requests \ {r} : call'[q] = call[q]
  BY <1>1 DEF Drafts, IInv, AccountsTypeOK, CallState
<1>3. users[r] = Absent /\ UNCHANGED <<users, tokens>>
  BY DEF IInv, UserInv, CallSound, Drafts
<1>4. CallSound(r)'
  BY <1>1, <1>2, <1>3 DEF CallSound
<1>5. QED
  BY <1>2, <1>3, <1>4, AdvanceKeeps

\* A call has found the user it works for.
LEMMA FoundUserKeeps ==
  ASSUME IInv, NEW r \in Requests, call[r].pc = "new", UNCHANGED vars,
         NEW u \in Users, Stored(u), NEW pc \in {"organization", "resolve"},
         pc = "resolve" => Kind[r] = "login" /\ users[u].status = "active",
         call' = [call EXCEPT ![r].pc = pc, ![r].user = u], UNCHANGED <<users, tokens>>
  PROVE  IInv'
<1>1. /\ call' \in [Requests -> CallState] /\ call'[r].pc = pc /\ call'[r].user = u
      /\ \A q \in Requests \ {r} : call'[q] = call[q]
  BY DEF IInv, AccountsTypeOK, CallState
<1>2. CallSound(r)'
  BY <1>1 DEF CallSound, LoginSound, Stored
<1>3. QED
  BY <1>1, <1>2, AdvanceKeeps

\* RegisterUserHandler refuses or drafts.
LEMMA RegisterKeeps ==
  ASSUME IInv, NEW r \in Requests, RegisterUser(r), UNCHANGED vars
  PROVE  IInv'
<1>1. Kind[r] = "register" /\ call[r].pc = "new" /\ r \in Users
  BY DEF RegisterUser, Starts, Users
<1>2. CASE Denied(r)
  BY <1>1, <1>2, DeniedKeeps
<1>3. ASSUME NEW email \in Emails, EmailAccepted(email), Drafts(r, email, "pending_verification")
      PROVE  IInv'
  BY <1>1, <1>3, DraftUserKeeps
<1>4. QED
  BY <1>2, <1>3 DEF RegisterUser

\* provisionAdminUser refuses, drafts the admin, or goes on with the user who
\* has the address.
LEMMA AdminKeeps ==
  ASSUME IInv, NEW r \in Requests, ProvisionAdminUser(r), UNCHANGED vars
  PROVE  IInv'
<1>1. Kind[r] = "bootstrap" /\ call[r].pc = "new" /\ r \in Users
  BY DEF ProvisionAdminUser, Starts, Users
<1>2. CASE Denied(r)
  BY <1>1, <1>2, DeniedKeeps
<1>3. ASSUME NEW email \in Emails, EmailAccepted(email), Drafts(r, email, "active")
      PROVE  IInv'
  BY <1>1, <1>3, DraftUserKeeps
<1>4. ASSUME NEW u \in Users, Stored(u),
             call' = [call EXCEPT ![r].pc = "organization", ![r].user = u],
             UNCHANGED <<users, tokens>>
      PROVE  IInv'
  BY <1>1, <1>4, FoundUserKeeps
<1>5. {cfg.email : cfg \in Config} \subseteq Emails
  BY IdentityAssumption DEF Config
<1>6. QED
  BY <1>2, <1>3, <1>4, <1>5 DEF ProvisionAdminUser, FindByEmail

\* AuthenticateHandler refuses or goes on with an active user.
LEMMA AuthenticateKeeps ==
  ASSUME IInv, NEW r \in Requests, Authenticate(r), UNCHANGED vars
  PROVE  IInv'
<1>1. Kind[r] = "login" /\ call[r].pc = "new"
  BY DEF Authenticate, Starts
<1>2. CASE Denied(r)
  BY <1>1, <1>2, DeniedKeeps
<1>3. ASSUME NEW u \in Users, Stored(u), users[u].status = "active",
             call' = [call EXCEPT ![r].pc = "resolve", ![r].user = u],
             UNCHANGED <<users, tokens>>
      PROVE  IInv'
  BY <1>1, <1>3, FoundUserKeeps
<1>4. QED
  BY <1>2, <1>3 DEF Authenticate, FindByEmail

\* The login finds an active organization of its user: one the script has made.
LEMMA ResolveKeeps ==
  ASSUME IInv, NEW r \in Requests, ResolveOrganization(r), UNCHANGED vars
  PROVE  IInv'
<1>1. call[r].pc = "resolve" /\ Kind[r] = "login" /\ LoginSound(r, call[r].user, call[r].org)
  BY DEF ResolveOrganization, IInv, UserInv, CallSound
<1>2. CASE Denied(r)
  BY <1>1, <1>2, DeniedKeeps
<1>3. ASSUME NEW o \in Orgs, Exists(o), MayEnter(call[r].user, o),
             call' = [call EXCEPT ![r].pc = "record", ![r].org = o],
             UNCHANGED <<users, tokens>>
      PROVE  IInv'
  <2>1. Kind[o] = "bootstrap"
    BY <1>3, TenantAssumption DEF MayEnter, IInv, OrgInv, OrgsSound, Provisioning, Orgs
  <2>2. /\ call' \in [Requests -> CallState]
        /\ call'[r].pc = "record" /\ call'[r].user = call[r].user /\ call'[r].org = o
        /\ \A q \in Requests \ {r} : call'[q] = call[q]
    BY <1>3 DEF IInv, AccountsTypeOK, CallState
  <2>3. CallSound(r)'
    BY <1>1, <1>3, <2>1, <2>2 DEF CallSound, LoginSound, MayEnter, Stored, Exists, vars
  <2>4. QED
    BY <1>1, <1>3, <2>2, <2>3, AdvanceKeeps
<1>4. QED
  BY <1>2, <1>3 DEF ResolveOrganization, Resolvable

\* The insert of a drafted user: the address is new, and so is the row.
LEMMA InsertUserKeeps ==
  ASSUME IInv, NEW r \in Requests, InsertUser(r), UNCHANGED vars
  PROVE  IInv'
<1>1. /\ call[r].pc = "insert" /\ r \in Users /\ call[r].user = r
      /\ call[r].entity \in UserRow /\ users[r] = Absent
      /\ Kind[r] = "bootstrap" => call[r].entity.status = "active"
  BY DEF InsertUser, IInv, UserInv, CallSound
<1>2. CASE Denied(r)
  BY <1>1, <1>2, DeniedKeeps
<1>3. CASE /\ FindByEmail(call[r].entity.email) = {}
           /\ users' = [users EXCEPT ![r] = call[r].entity]
           /\ Advance(r, IF Kind[r] = "bootstrap" THEN "organization" ELSE "over")
           /\ UNCHANGED tokens
  <2>1. PICK x \in UserRow : x = call[r].entity
    BY <1>1
  <2>2. /\ users' \in [Users -> UserRow \cup {Absent}] /\ users'[r] = x /\ x # Absent
        /\ \A u \in Users \ {r} : users'[u] = users[u]
    BY <1>1, <1>3, <2>1, RowNotAbsent DEF IInv, AccountsTypeOK
  <2>3. /\ call' \in [Requests -> CallState] /\ call'[r].user = r
        /\ call'[r].pc = IF Kind[r] = "bootstrap" THEN "organization" ELSE "over"
        /\ \A q \in Requests \ {r} : call'[q] = call[q]
    BY <1>1, <1>3 DEF Advance, IInv, AccountsTypeOK, CallState
  <2>4. AccountsTypeOK'
    BY <1>3, <2>2, <2>3 DEF IInv, AccountsTypeOK, TypeOK, vars
  <2>5. UsersGrow
    BY <1>1, <2>2 DEF UsersGrow, Stored
  <2>6. CallSound(r)'
    BY <1>1, <2>2, <2>3 DEF CallSound, Stored
  <2>7. UsersSound'
    BY <1>1, <2>1, <2>2 DEF IInv, UserInv, UsersSound, Stored
  <2>8. TokensSound'
    <3>1. \A t \in tokens : t.user \in Users
      BY DEF IInv, AccountsTypeOK, Token
    <3>2. QED
      BY <1>3, <2>5, <3>1 DEF IInv, UserInv, TokensSound, UsersGrow, vars, Exists
  <2>9. EmailsUnique'
    <3>1. NormalEmail[x.email] = x.email
      BY IdentityAssumption DEF UserRow
    <3>2. \A u \in Users : Stored(u) => users[u].email # x.email
      BY <1>3, <2>1, <3>1 DEF FindByEmail
    <3>3. QED
      BY <2>2, <3>2 DEF IInv, UserInv, EmailsUnique, Stored
  <2>10. QED
    BY <1>1, <2>2, <2>3, <2>4, <2>5, <2>6, <2>7, <2>8, <2>9, UserFrame
<1>4. QED
  BY <1>2, <1>3 DEF InsertUser

\* The login is recorded with the user.
LEMMA RecordKeeps ==
  ASSUME IInv, NEW r \in Requests, RecordLogin(r), UNCHANGED vars
  PROVE  IInv'
<1>1. PICK u \in Users :
        /\ u = call[r].user /\ call[r].pc = "record" /\ Kind[r] = "login"
        /\ LoginSound(r, u, call[r].org)
  BY DEF RecordLogin, IInv, UserInv, CallSound, LoginSound
<1>2. users[u] \in UserRow
  BY <1>1 DEF LoginSound, Stored, IInv, AccountsTypeOK
<1>3. PICK x \in UserRow :
        x = [users[u] EXCEPT !.loggedIn = TRUE] /\ x.loggedIn
        /\ x.email = users[u].email /\ x.status = users[u].status
  <2>1. /\ [users[u] EXCEPT !.loggedIn = TRUE] \in UserRow
        /\ [users[u] EXCEPT !.loggedIn = TRUE].loggedIn
        /\ [users[u] EXCEPT !.loggedIn = TRUE].email = users[u].email
        /\ [users[u] EXCEPT !.loggedIn = TRUE].status = users[u].status
    BY <1>2 DEF UserRow
  <2>2. QED
    BY <2>1
<1>4. users' = [users EXCEPT ![u] = x] /\ Advance(r, "sign") /\ UNCHANGED tokens
  BY <1>1, <1>3 DEF RecordLogin, IInv, AccountsTypeOK
<1>5. /\ users' \in [Users -> UserRow \cup {Absent}] /\ users'[u] = x /\ x # Absent
      /\ \A v \in Users \ {u} : users'[v] = users[v]
  BY <1>4, RowNotAbsent DEF IInv, AccountsTypeOK
<1>6. /\ call' \in [Requests -> CallState] /\ call'[r].pc = "sign"
      /\ call'[r].user = u /\ call'[r].org = call[r].org
      /\ \A q \in Requests \ {r} : call'[q] = call[q]
  BY <1>1, <1>4 DEF Advance, IInv, AccountsTypeOK, CallState
<1>7. AccountsTypeOK'
  BY <1>4, <1>5, <1>6 DEF IInv, AccountsTypeOK, TypeOK, vars
<1>8. UsersGrow /\ \A v \in Users : ~Stored(v) => users'[v] = users[v]
  <2>1. users[u] # Absent
    BY <1>1 DEF LoginSound, Stored
  <2>2. ASSUME NEW v \in Users
        PROVE  /\ Stored(v) =>
                    /\ Stored(v)' /\ users'[v].email = users[v].email
                    /\ users'[v].status = users[v].status
                    /\ users[v].loggedIn => users'[v].loggedIn
               /\ ~Stored(v) => users'[v] = users[v]
    <3>1. CASE v = u
      BY <1>3, <1>5, <2>1, <3>1 DEF Stored
    <3>2. CASE v # u
      BY <1>5, <3>2 DEF Stored
    <3>3. QED
      BY <3>1, <3>2
  <2>3. QED
    BY <2>2 DEF UsersGrow
<1>9. CallSound(r)'
  <2>1. LoginSound(r, u, call[r].org)'
    BY <1>1, <1>3, <1>5, <1>6 DEF LoginSound, Stored, Exists, vars
  <2>2. QED
    BY <1>1, <1>6, <2>1 DEF CallSound
<1>10. UsersSound' /\ EmailsUnique'
  <2>1. \A v \in Users : Stored(v)' => /\ Stored(v) /\ users'[v].email = users[v].email
                                       /\ users'[v].status = users[v].status
    BY <1>8 DEF UsersGrow, Stored
  <2>2. QED
    BY <2>1 DEF IInv, UserInv, UsersSound, EmailsUnique
<1>11. TokensSound'
  <2>1. \A t \in tokens : t.user \in Users
    BY DEF IInv, AccountsTypeOK, Token
  <2>2. QED
    BY <1>4, <1>8, <2>1 DEF IInv, UserInv, TokensSound, UsersGrow, vars, Exists
<1>12. QED
  BY <1>1, <1>6, <1>7, <1>8, <1>9, <1>10, <1>11, UserFrame

\* The token pair is signed.
LEMMA SignKeeps ==
  ASSUME IInv, NEW r \in Requests, Sign(r), UNCHANGED vars
  PROVE  IInv'
<1>1. call[r].pc = "sign" /\ LoginSound(r, call[r].user, call[r].org)
  BY DEF Sign, IInv, UserInv, CallSound
<1>2. PICK t \in Token :
        /\ t.user = call[r].user /\ t.tenant = call[r].org
        /\ tokens' = tokens \cup {t} /\ Advance(r, "over") /\ UNCHANGED users
  BY <1>1 DEF Sign, LoginSound, Token
<1>3. /\ call' \in [Requests -> CallState] /\ call'[r].pc = "over"
      /\ \A q \in Requests \ {r} : call'[q] = call[q]
  BY <1>2 DEF Advance, IInv, AccountsTypeOK, CallState
<1>4. AccountsTypeOK'
  BY <1>2, <1>3 DEF IInv, AccountsTypeOK, TypeOK, vars
<1>5. UsersGrow /\ UsersSound' /\ EmailsUnique'
  BY <1>2 DEF IInv, UserInv, UsersGrow, UsersSound, EmailsUnique, Stored
<1>6. TokensSound'
  BY <1>1, <1>2 DEF IInv, UserInv, TokensSound, LoginSound, Stored, Exists, vars
<1>7. CallSound(r)'
  BY <1>3 DEF CallSound
<1>8. QED
  BY <1>1, <1>2, <1>3, <1>4, <1>5, <1>6, <1>7, UserFrame

\* The script is killed: both halves of its call are over.
LEMMA DiesKeeps ==
  ASSUME IInv, NEW r \in Requests, BootstrapDies(r), Denied(r)
  PROVE  IInv'
<1>1. /\ call' \in [Requests -> CallState] /\ call'[r].pc = "over"
      /\ \A q \in Requests : call'[q].user = call[q].user
      /\ \A q \in Requests \ {r} : call'[q] = call[q]
      /\ UNCHANGED <<users, tokens>>
  BY DEF Denied, Advance, IInv, AccountsTypeOK, CallState
<1>2. /\ req' \in [Requests -> RequestState] /\ req'[r].pc = "failed"
      /\ \A q \in Requests \ {r} : req'[q] = req[q]
  BY EndEffect DEF BootstrapDies, Fails, IInv, AccountsTypeOK
<1>3. TypeOK' /\ OrgsGrow /\ OrgInv'
  BY <1>1, <1>2, EndKeeps DEF BootstrapDies, Fails, IInv, AccountsTypeOK, TypeOK
<1>4. AccountsTypeOK'
  BY <1>1, <1>3 DEF IInv, AccountsTypeOK
<1>5. ASSUME NEW q \in Requests PROVE CallSound(q)'
  <2>1. CASE q = r
    BY <1>1, <2>1 DEF CallSound
  <2>2. CASE q # r
    BY <1>1, <1>3, <2>2 DEF IInv, UserInv, CallSound, LoginSound, OrgsGrow, Stored
  <2>3. QED
    BY <2>1, <2>2
<1>6. UsersSound' /\ EmailsUnique'
  BY <1>1 DEF IInv, UserInv, UsersSound, EmailsUnique, Stored
<1>7. TokensSound'
  BY <1>1, <1>3 DEF IInv, UserInv, TokensSound, OrgsGrow, Stored, AccountsTypeOK, Token
<1>8. ASSUME NEW q \in Requests PROVE BootstrapSound(q)'
  BY <1>1, <1>2, <1>3, BootstrappedStays DEF IInv, UserInv, BootstrapSound
<1>9. ASSUME NEW o \in Orgs PROVE OwnedByAdmin(o)'
  <2>1. OwnedByAdmin(o) /\ o \in Requests /\ UNCHANGED orgs
    BY DEF IInv, UserInv, Orgs, BootstrapDies, Fails
  <2>2. QED
    BY <1>1, <2>1 DEF OwnedByAdmin, Exists
<1>10. QED
  BY <1>3, <1>4, <1>5, <1>6, <1>7, <1>8, <1>9 DEF IInv, UserInv

(***************************************************************************)
(* The theorems.                                                           *)
(***************************************************************************)

\* Before any call both tables are empty.
LEMMA InitIInv == AccountsInit => IInv
<1> SUFFICES ASSUME AccountsInit PROVE IInv
  OBVIOUS
<1> USE DEF AccountsInit, Init
<1>1. AccountsTypeOK
  <2>1. NewRequest \in RequestState /\ NewCall \in CallState
    BY DEF NewRequest, RequestState, NewCall, CallState
  <2>2. QED
    BY <2>1 DEF AccountsTypeOK, TypeOK
<1>2. OrgInv
  BY DEF OrgInv, OrgsSound, Exists, RequestSound, NewRequest, OneWriter, SlugsUnique
<1>3. UserInv
  BY DEF UserInv, CallSound, BootstrapSound, OwnedByAdmin, Exists, NewRequest, NewCall,
         UsersSound, TokensSound, EmailsUnique, Stored
<1>4. QED
  BY <1>1, <1>2, <1>3 DEF IInv

\* Every action keeps the inductive invariant.
LEMMA NextKeeps == IInv /\ [AccountsNext]_accountVars => IInv'
<1> SUFFICES ASSUME IInv, [AccountsNext]_accountVars PROVE IInv'
  OBVIOUS
<1>1. CASE UNCHANGED accountVars
  <2>1. /\ UsersGrow /\ OrgsGrow /\ NewOrgsOwned
        /\ UNCHANGED vars /\ UNCHANGED identityVars
    BY <1>1 DEF accountVars, vars, identityVars, UsersGrow, OrgsGrow, NewOrgsOwned,
         OwnedByAdmin, Stored, Exists
  <2>2. OrgInv'
    BY <2>1, OrgInvStays DEF identityVars
  <2>3. \A q \in Requests : BootstrapSound(q)'
    BY <2>1, BootstrappedStays DEF IInv, UserInv, BootstrapSound, vars, identityVars
  <2>4. AccountsTypeOK'
    BY <2>1 DEF IInv, AccountsTypeOK, TypeOK, vars, identityVars
  <2>5. QED
    BY <2>1, <2>2, <2>3, <2>4, UserInvStays DEF IInv
<1>2. ASSUME NEW r \in Requests, UserStep(r), UNCHANGED vars PROVE IInv'
  BY <1>2, RegisterKeeps, InsertUserKeeps, AdminKeeps, AuthenticateKeeps, ResolveKeeps,
     RecordKeeps, SignKeeps DEF UserStep
<1>3. ASSUME NEW r \in Requests, OrganizationStep(r), UNCHANGED identityVars PROVE IInv'
  <2>1. \A cfg \in Config : cfg.slug \in AdminSlugs
    BY DEF Config
  <2>2. QED
    BY <1>3, <2>1, CreateKeeps, ProvisionKeeps, InsertKeeps, ChangeKeeps, SaveLoadsKeeps,
       SaveWritesKeeps, PublishKeeps DEF OrganizationStep
<1>4. ASSUME NEW r \in Requests, BootstrapDies(r), Denied(r) PROVE IInv'
  BY <1>4, DiesKeeps
<1>5. QED
  BY <1>1, <1>2, <1>3, <1>4 DEF AccountsNext

\* The inductive invariant holds in every reachable state, whatever calls and
\* runs of the script interleave or die.
THEOREM Invariance == AccountsSpec => []IInv
BY InitIInv, NextKeeps, PTL DEF AccountsSpec

\* Type correctness of both tables, the calls and the tokens.
THEOREM TypeCorrect == AccountsSpec => []AccountsTypeOK
<1>1. IInv => AccountsTypeOK
  BY DEF IInv
<1>2. QED
  BY <1>1, Invariance, PTL

\* No two organizations have the same slug.
THEOREM SlugsSafe == AccountsSpec => []SlugsUnique
<1>1. IInv => SlugsUnique
  BY DEF IInv, OrgInv
<1>2. QED
  BY <1>1, Invariance, PTL

\* No two users have the same address.
THEOREM EmailsSafe == AccountsSpec => []EmailsUnique
<1>1. IInv => EmailsUnique
  BY DEF IInv, UserInv
<1>2. QED
  BY <1>1, Invariance, PTL

\* A token names an active user with a recorded login and a provisioned
\* organization of his.
THEOREM TokenSafe == AccountsSpec => []TokenBound
<1>1. IInv => TokenBound
  <2> SUFFICES ASSUME IInv, NEW t \in tokens
               PROVE  /\ Stored(t.user) /\ users[t.user].status = "active"
                      /\ users[t.user].loggedIn
                      /\ Exists(t.tenant) /\ orgs[t.tenant].owner = t.user
                      /\ orgs[t.tenant].status # "provisioning"
    BY DEF TokenBound
  <2>1. t.tenant \in Orgs
    BY DEF IInv, AccountsTypeOK, Token
  <2>2. QED
    BY <2>1 DEF IInv, UserInv, TokensSound, OrgInv, OrgsSound, Provisioning
<1>2. QED
  BY <1>1, Invariance, PTL

\* The admin and the organization that a run of the bootstrap script reports are
\* there, and he owns it if it was made for him.
THEOREM BootstrapSafe == AccountsSpec => []BootstrapOutcome
<1>1. IInv => BootstrapOutcome
  <2> SUFFICES ASSUME IInv, NEW r \in Requests, Kind[r] = "bootstrap", req[r].pc = "done"
               PROVE  /\ Stored(call[r].user)
                      /\ Kind[call[r].user] = "bootstrap" => users[call[r].user].status = "active"
                      /\ req[r].org \in Orgs /\ Exists(req[r].org)
                      /\ Kind[req[r].org] = "bootstrap" /\ call[req[r].org].user = call[r].user =>
                           /\ orgs[req[r].org].owner = call[r].user
                           /\ orgs[req[r].org].status # "provisioning"
    BY DEF BootstrapOutcome
  <2>1. call[r].pc = "organization" /\ Bootstrapped(r)
    BY DEF IInv, UserInv, BootstrapSound
  <2>2. call[r].user \in Users /\ Stored(call[r].user)
    BY <2>1 DEF IInv, UserInv, CallSound
  <2>3. Kind[call[r].user] = "bootstrap" => users[call[r].user].status = "active"
    BY <2>2 DEF IInv, UserInv, UsersSound
  <2>4. QED
    BY <2>1, <2>2, <2>3 DEF Bootstrapped, IInv, OrgInv, OrgsSound, Provisioning, UserInv,
         OwnedByAdmin
<1>2. QED
  BY <1>1, Invariance, PTL

\* The owner of an organization that is about to be inserted is stored.
THEOREM OwnerSafe == AccountsSpec => []OwnerFirst
<1>1. IInv => OwnerFirst
  BY DEF IInv, OrgInv, RequestSound, InsertSound, OwnerFirst
<1>2. QED
  BY <1>1, Invariance, PTL

\* Only a save changes the status of an organization that is there; one that
\* nobody overlapped leaves it as it is or suspends.
LEMMA StatusStep ==
  ASSUME IInv, [AccountsNext]_accountVars, NEW o \in Orgs, o \notin contended, Exists(o)
  PROVE  orgs'[o].status \in {orgs[o].status, "suspended"}
<1>1. ASSUME NEW r \in Requests, SaveWrites(r)
      PROVE  orgs'[o].status \in {orgs[o].status, "suspended"}
  <2>1. req[r].pc = "write" /\ req[r].org \in Orgs
    BY <1>1 DEF SaveWrites, IInv, OrgInv, RequestSound, SaveSound
  <2>2. CASE req[r].org = o
    <3>1. orgs'[o] = Persisted(orgs[o], req[r].loaded, req[r].entity)
      BY <1>1, <2>2 DEF SaveWrites, Saved, IInv, AccountsTypeOK, TypeOK
    <3>2. QED
      BY <2>1, <2>2, <3>1, WrittenRow
  <2>3. CASE req[r].org # o
    BY <1>1, <2>3 DEF SaveWrites, Saved, IInv, AccountsTypeOK, TypeOK
  <2>4. QED
    BY <2>2, <2>3
<1>2. ASSUME NEW r \in Requests, Provision(r) PROVE orgs'[o] = orgs[o]
  <2>1. req[r].org # o
    BY <1>2 DEF Provision, IInv, OrgInv, RequestSound, InsertSound, Exists
  <2>2. QED
    BY <1>2, <2>1 DEF Provision, Fails, Saved, IInv, AccountsTypeOK, TypeOK
<1>3. ASSUME NEW r \in Requests, NEW owner, NEW slug,
             CreateOrganization(r, owner) \/ ProvisionOrganization(r, owner, slug)
      PROVE  orgs' = orgs
  BY <1>3 DEF CreateOrganization, ProvisionOrganization, Fails
<1>4. ASSUME NEW r \in Requests,
             UpdateOrganization(r) \/ SuspendOrganization(r) \/ SaveLoads(r)
               \/ PublishEvents(r) \/ BootstrapDies(r)
      PROVE  orgs' = orgs
  BY <1>4 DEF UpdateOrganization, SuspendOrganization, Loaded, SaveLoads, PublishEvents,
              BootstrapDies, Fails
<1>5. QED
  BY <1>1, <1>2, <1>3, <1>4 DEF AccountsNext, OrganizationStep, accountVars, vars

\* A suspended organization stays suspended and an active one out of
\* provisioning unless two calls overlapped.
THEOREM SuspensionSafe == AccountsSpec => SuspensionSticks
<1>1. IInv /\ [AccountsNext]_accountVars =>
        [\A o \in Orgs \ contended : Exists(o) =>
           /\ orgs[o].status = "suspended" => orgs'[o].status = "suspended"
           /\ orgs[o].status = "active" => orgs'[o].status # "provisioning"]_orgs
  BY StatusStep
<1>2. QED
  BY <1>1, Invariance, PTL DEF AccountsSpec, SuspensionSticks
===============================================================================
