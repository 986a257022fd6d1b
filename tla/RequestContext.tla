---------------------------- MODULE RequestContext ----------------------------
(***************************************************************************)
(* What stands between an HTTP request and a handler: the middleware that  *)
(* takes the tenant context from the x-tenant-id header, the JWT and RBAC  *)
(* guards, the tenant scope of the repositories, and the status an error   *)
(* is answered with.  The context lives in AsyncLocalStorage, so a request *)
(* keeps its own through every await; it is part of the request's state.   *)
(* The header alone makes the context: the middleware runs before the      *)
(* guards, and nothing compares it with the tenant of the token later.     *)
(***************************************************************************)
EXTENDS Naturals

CONSTANTS
  Tenants,    \* tenant ids
  NoTenant,   \* a request without the header, or with an empty one
  Tokens      \* the bearer tokens callers send

Role == {"owner", "admin", "member", "viewer"}

Rank == [owner |-> 4, admin |-> 3, member |-> 2, viewer |-> 1]

\* A bearer token whose signature and expiry are in order, with the tenant it
\* was issued for; "none" stands for all others.
Token == [type : {"access", "refresh", "none"}, role : Role, tenant : Tenants]

ASSUME ContextAssumption ==
  /\ NoTenant \notin Tenants
  /\ Tokens \subseteq Token

Header == Tenants \cup {NoTenant}

Answer == {"200", "401", "403", "404", "409", "500"}

JwtAuth(token) == token.type = "access"

Rbac(token, required) == Rank[token.role] >= Rank[required]

\* The first thing every repository method does.
RequireTenantId(header) == header # NoTenant

\* What a request is answered before its handler finds anything: the guards
\* run first, then the repository asks for the context.
Refusal(token, header, required) ==
  IF ~JwtAuth(token) THEN {"401"}
  ELSE IF ~Rbac(token, required) THEN {"403"}
  ELSE IF ~RequireTenantId(header) THEN {"500"}
  ELSE {}

\* Mutant: a repository that forgets the tenant in its query.
InScopeOfAnyone(tenant, row) == tenant \in Tenants

\* scopedWhere and scopedQb: the rows a context may find.
InScope(tenant, row) == row.tenant = tenant

\* guardTenantOwnership: the rows a context may write.
MayWrite(tenant, row) == row.tenant = tenant
===============================================================================
