--------------------------- MODULE MCRedisStreamsBus ---------------------------
(* Small instances of RedisStreamsBus.                                        *)
EXTENDS RedisStreamsBus, TLC

CONSTANTS m1, m2, t1, t2, s1, s2, i1, i2

\* All events have type t1; the stream of t2, where there is one, stays idle.
OneType == [m \in Messages |-> t1]

OneHost == [s \in Sweeps |-> i1]

TwoHosts == (s1 :> i1) @@ (s2 :> i2)
===============================================================================
