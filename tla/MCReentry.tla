----------------------------- MODULE MCReentry -----------------------------
(* Instances of Reentry for TLC: one file to move, which a rule then rewrites, so  *)
(* that the phase owes two commits of two workers.                                 *)
EXTENDS Reentry
First == {1}
=============================================================================
