----------------------------- MODULE MCDashboard ------------------------------
(* Small instances of Dashboard.                                              *)
EXTENDS Dashboard, TLC

\* A member may read the metrics but not the trail.  Tokens of every tenant, so
\* that tenants stay interchangeable.
Callers == [type : {"none"}, role : {"viewer"}, tenant : Tenants]
             \cup [type : {"access"}, role : {"member", "admin"}, tenant : Tenants]

Interchangeable == Permutations(Records) \cup Permutations(Tenants)
===============================================================================
