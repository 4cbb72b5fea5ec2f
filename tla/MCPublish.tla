----------------------------- MODULE MCPublish -----------------------------
(* Publish on two repos, one of which owns a hoisted contract. *)
EXTENDS Publish, TLC

CONSTANTS r1, r2, k1

TwoRepos == {r1, r2}
OneContract == {k1}
OwnedByFirst == k1 :> r1
=============================================================================
