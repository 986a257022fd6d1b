------------------------------ MODULE MCIdentity ------------------------------
(* Small instances of Identity.                                               *)
EXTENDS Identity, TLC

CONSTANTS r1, r2, r3, r4, r5, r6, r7,
          acme, Acme, beta, invalid, admin, Admin, other, noAddress

\* "Acme" and "acme" are one slug to TenantSlug, "Admin@..." and "admin@..." one
\* address to Email; "invalid" and "noAddress" are refused.
Lowered == (Acme :> acme) @@ [s \in Slugs |-> s]
LoweredEmail == (Admin :> admin) @@ [e \in Emails |-> e]

\* Two runs of the script, for one platform admin or for two, and a registration
\* race for an address; a login then allows to work on the organizations.
Calls ==
  (r1 :> "bootstrap") @@ (r2 :> "bootstrap") @@ (r3 :> "register") @@ (r4 :> "login")
    @@ (r5 :> "suspend") @@ (r6 :> "update") @@ (r7 :> "create")

\* The two runs of the script.
Interchangeable == Permutations({r1, r2})
===============================================================================
