------------------------------- MODULE Identity -------------------------------
(***************************************************************************)
(* Users: registration, login and the bootstrap script, composed with the  *)
(* organizations of TenantCore.  A user enters a tenant by owning it, the  *)
(* tokens a login returns are what the organization endpoints require, and *)
(* the bootstrap script makes the first user and the first organization.   *)
(*                                                                         *)
(* A user's status and e-mail never change once the row is there (nothing  *)
(* calls suspend, and activate only before the insert), so the save of a   *)
(* login writes last_login_at alone.  A registration ends by publishing    *)
(* user.registered, which changes nothing here: what becomes of the event  *)
(* is in Outbox (GlobalEvents).  Passwords and display names are left out. *)
(***************************************************************************)
EXTENDS TenantCore

CONSTANTS
  Emails,        \* addresses as callers write them, without blanks around them
  NormalEmail,   \* an address in lower case
  ValidEmails,   \* the normal addresses Email.PATTERN accepts
  AdminEmails,   \* what INITIAL_ADMIN_EMAIL may be, trimmed, in a run of the script
  AdminSlugs,    \* what slugify may return in a run
  NoUser         \* no user

ASSUME IdentityAssumption ==
  /\ NormalEmail \in [Emails -> Emails]
  /\ \A e \in Emails : NormalEmail[NormalEmail[e]] = NormalEmail[e]
  /\ ValidEmails \subseteq {e \in Emails : NormalEmail[e] = e}
  /\ AdminEmails \subseteq Emails
  /\ AdminSlugs \subseteq {Normal[s] : s \in Slugs}
  /\ NoUser \notin Requests

VARIABLES
  users,    \* the users table
  call,     \* per call: its progress with a user
  tokens    \* the token pairs issued

identityVars == <<users, call, tokens>>

accountVars == <<vars, identityVars>>

(***************************************************************************)
(* Types.                                                                  *)
(***************************************************************************)
UserRow == [email : ValidEmails, status : {"pending_verification", "active"},
            loggedIn : BOOLEAN]

\* user is who the call works for and org the organization a login resolved.
CallState == [pc     : {"new", "insert", "organization", "resolve", "record", "sign", "over"},
              user   : Users \cup {NoUser},
              entity : UserRow \cup {Absent},
              org    : Orgs \cup {Absent}]

NewCall == [pc |-> "new", user |-> NoUser, entity |-> Absent, org |-> Absent]

Token == [user : Users, tenant : Orgs]

\* Type invariant: a stored user has a valid normal address and a status, and
\* tokens name a user and an organization.
AccountsTypeOK ==
  /\ TypeOK
  /\ users \in [Users -> UserRow \cup {Absent}]
  /\ call \in [Requests -> CallState]
  /\ tokens \subseteq Token

AccountsInit ==
  /\ Init
  /\ users = [u \in Users |-> Absent]
  /\ call = [r \in Requests |-> NewCall]
  /\ tokens = {}

(***************************************************************************)
(* UserAggregate and UserRepository.                                       *)
(***************************************************************************)
Stored(u) == users[u] # Absent

\* Email.create takes the address.
EmailAccepted(email) == NormalEmail[email] \in ValidEmails

FindByEmail(email) == {u \in Users : Stored(u) /\ users[u].email = NormalEmail[email]}

\* Mutant: the address is kept as the caller wrote it.
CreateUserRaw(email, status) == [email |-> email, status |-> status, loggedIn |-> FALSE]

\* Mutant: activate is forgotten.
CreateUserPending(email, status) ==
  [email |-> NormalEmail[email], status |-> "pending_verification", loggedIn |-> FALSE]

CreateUser(email, status) ==
  [email |-> NormalEmail[email], status |-> status, loggedIn |-> FALSE]

Advance(r, pc) == call' = [call EXCEPT ![r].pc = pc]

\* The call ends here with an error.
Denied(r) == Advance(r, "over") /\ UNCHANGED <<users, tokens>>

Starts(r, kind) ==
  /\ Kind[r] = kind
  /\ call[r].pc = "new"

\* The new user is in memory, to be inserted.
Drafts(r, email, status) ==
  /\ call' = [call EXCEPT ![r].pc = "insert", ![r].user = r,
                          ![r].entity = CreateUser(email, status)]
  /\ UNCHANGED <<users, tokens>>

\* Mutant: users.email is not unique.
InsertUserUnchecked(r) ==
  /\ call[r].pc = "insert"
  /\ users' = [users EXCEPT ![r] = call[r].entity]
  /\ Advance(r, IF Kind[r] = "bootstrap" THEN "organization" ELSE "over")
  /\ UNCHANGED tokens

\* save of a new user: the insert fails on the unique index of email.
InsertUser(r) ==
  /\ call[r].pc = "insert"
  /\ IF FindByEmail(call[r].entity.email) # {}
     THEN Denied(r)
     ELSE /\ users' = [users EXCEPT ![r] = call[r].entity]
          /\ Advance(r, IF Kind[r] = "bootstrap" THEN "organization" ELSE "over")
          /\ UNCHANGED tokens

(***************************************************************************)
(* RegisterUserHandler.  Other calls run while the password is hashed.     *)
(***************************************************************************)
RegisterUser(r) ==
  /\ Starts(r, "register")
  /\ \E email \in Emails :
       IF FindByEmail(email) # {} \/ ~EmailAccepted(email)
       THEN Denied(r)
       ELSE Drafts(r, email, "pending_verification")

(***************************************************************************)
(* The bootstrap script's user, before its organization.                   *)
(***************************************************************************)
\* readConfig: the variables a run of the script may be given.
Config == [email : AdminEmails, slug : AdminSlugs]

ProvisionAdminUser(r) ==
  /\ Starts(r, "bootstrap")
  /\ \E email \in {cfg.email : cfg \in Config} :
       \/ /\ FindByEmail(email) = {}
          /\ IF EmailAccepted(email)
             THEN Drafts(r, email, "active")
             ELSE Denied(r)
       \/ \E u \in FindByEmail(email) :
            /\ call' = [call EXCEPT ![r].pc = "organization", ![r].user = u]
            /\ UNCHANGED <<users, tokens>>

\* Mutant: the organization comes before its owner.
HasUserEarly(r) == call[r].pc \in {"insert", "organization"}

\* The script goes on to its organization once it has its user.
HasUser(r) == call[r].pc = "organization"

(***************************************************************************)
(* AuthenticateHandler.  The password may be right or wrong.               *)
(***************************************************************************)
Authenticate(r) ==
  /\ Starts(r, "login")
  /\ \E email \in Emails :
       \/ \E u \in FindByEmail(email) :
            /\ users[u].status = "active"
            /\ call' = [call EXCEPT ![r].pc = "resolve", ![r].user = u]
            /\ UNCHANGED <<users, tokens>>
       \/ Denied(r)

\* Mutant: whose organization the slug names is not asked.
MayEnterAny(u, o) == orgs[o].status = "active"

MayEnter(u, o) == orgs[o].owner = u /\ orgs[o].status = "active"

\* By the slug of the caller, as written, or else any organization it owns.
Resolvable(u, slug) ==
  {o \in Orgs : Exists(o) /\ IF slug = Unchanged THEN orgs[o].owner = u
                                                 ELSE orgs[o].slug = slug}

ResolveOrganization(r) ==
  /\ call[r].pc = "resolve"
  /\ \E slug \in Slugs \cup {Unchanged} :
       \/ \E o \in Resolvable(call[r].user, slug) :
            /\ MayEnter(call[r].user, o)
            /\ call' = [call EXCEPT ![r].pc = "record", ![r].org = o]
            /\ UNCHANGED <<users, tokens>>
       \/ /\ \/ Resolvable(call[r].user, slug) = {}
             \/ \E o \in Resolvable(call[r].user, slug) : ~MayEnter(call[r].user, o)
          /\ Denied(r)

RecordLogin(r) ==
  /\ call[r].pc = "record"
  /\ users' = [users EXCEPT ![call[r].user].loggedIn = TRUE]
  /\ Advance(r, "sign")
  /\ UNCHANGED tokens

Sign(r) ==
  /\ call[r].pc = "sign"
  /\ tokens' = tokens \cup {[user |-> call[r].user, tenant |-> call[r].org]}
  /\ Advance(r, "over")
  /\ UNCHANGED users

-------------------------------------------------------------------------------
UserStep(r) ==
  \/ RegisterUser(r)
  \/ InsertUser(r)
  \/ ProvisionAdminUser(r)
  \/ Authenticate(r)
  \/ ResolveOrganization(r)
  \/ RecordLogin(r)
  \/ Sign(r)

\* The organization endpoints want a token; those a login signs carry the role
\* of an owner, which passes every RBAC check.
OrganizationStep(r) ==
  \/ \E t \in tokens : CreateOrganization(r, t.user)
  \/ HasUser(r) /\ \E cfg \in Config : ProvisionOrganization(r, call[r].user, cfg.slug)
  \/ Provision(r)
  \/ tokens # {} /\ UpdateOrganization(r)
  \/ tokens # {} /\ SuspendOrganization(r)
  \/ SaveLoads(r)
  \/ SaveWrites(r)
  \/ PublishEvents(r)

AccountsNext ==
  \E r \in Requests :
    \/ UserStep(r) /\ UNCHANGED vars
    \/ OrganizationStep(r) /\ UNCHANGED identityVars
    \/ /\ BootstrapDies(r)
       /\ call[r].pc # "over"
       /\ Denied(r)

AccountsSpec == AccountsInit /\ [][AccountsNext]_accountVars

-------------------------------------------------------------------------------
(***************************************************************************)
(* Properties.                                                             *)
(***************************************************************************)

\* No two users have the same address, although registrations and the
\* bootstrap script ask first, hash a password and insert afterwards.
EmailsUnique ==
  \A u, v \in Users : Stored(u) /\ Stored(v) /\ users[u].email = users[v].email => u = v

\* A token is bound to a tenant its user owns: the user is active and has a
\* recorded login, the organization is his and has been provisioned, although
\* users and organizations change between the lookups and the signature.
TokenBound ==
  \A t \in tokens :
    /\ Stored(t.user) /\ users[t.user].status = "active" /\ users[t.user].loggedIn
    /\ Exists(t.tenant) /\ orgs[t.tenant].owner = t.user
    /\ orgs[t.tenant].status # "provisioning"

\* "Re-runs are safe": the admin and the organization that a run of the
\* bootstrap script reports are there, whatever runs died, overlapped or met
\* registrations on the way.  The admin is active unless he was registered
\* before.  He owns the organization, as the script always reports, if this run
\* or an earlier one for him made it; the API, or a run for another admin,
\* having taken the slug first is the only way in which the report is wrong.
BootstrapOutcome ==
  \A r \in Requests : Kind[r] = "bootstrap" /\ req[r].pc = "done" =>
    LET u == call[r].user
        o == req[r].org
    IN  /\ Stored(u)
        /\ Kind[u] = "bootstrap" => users[u].status = "active"
        /\ o \in Orgs /\ Exists(o)
        /\ Kind[o] = "bootstrap" /\ call[o].user = u =>
             orgs[o].owner = u /\ orgs[o].status # "provisioning"

\* An organization is only ever inserted after its owner: organizations.owner_id
\* references users, and the insert never meets that constraint.
OwnerFirst ==
  \A r \in Requests : req[r].pc = "insert" => Stored(req[r].entity.owner)
===============================================================================
