-------------------------- MODULE MCStubLifecycle --------------------------
(* Values for the functions among the constants of StubLifecycle. *)
EXTENDS StubLifecycle, TLC
CONSTANTS c1, p1, p2, s1, s2, a, b

OneConsumer == s1 :> c1 @@ s2 :> c1
OneProvider == s1 :> p1 @@ s2 :> p1
TwoProviders == s1 :> p1 @@ s2 :> p2

\* Commands are alike: no property of these runs tells one process from another.
ProcSymmetry == Permutations(Procs)
=============================================================================
