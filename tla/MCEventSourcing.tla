-------------------------- MODULE MCEventSourcing --------------------------
EXTENDS EventSourcing, TLC

CONSTANTS c1, c2, c3, s1, s2, t1, t2, r1

\* Two servers with a thread each, which are interchangeable.
TwoHosts == (t1 :> s1) @@ (t2 :> s2)
ServersInterchangeable == {(s1 :> s2) @@ (s2 :> s1) @@ (t1 :> t2) @@ (t2 :> t1)}

\* Two threads of one server, whose mailboxes of the aggregate overlap, and a query.
OneHost == [w \in Workers |-> s1]
ThreadsInterchangeable == Permutations(Threads)
=============================================================================
