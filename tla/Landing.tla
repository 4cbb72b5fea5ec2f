------------------------------ MODULE Landing ------------------------------
(***************************************************************************)
(* What phase 2 promises of one repo, whatever crashes, checkpoints,       *)
(* resumes and losses of the clone lie in between: the work is a set of    *)
(* units, each lands on the branch once, and the phase reports success     *)
(* only with every unit landed.  Reentry implements it.                    *)
(***************************************************************************)
CONSTANTS Unit

VARIABLES
  landed,     \* the units on the branch
  verdict,    \* "open", "succeeded" or "given_up"
  excused     \* another command rewound the branch

vars == <<landed, verdict, excused>>

Init == landed = {} /\ verdict = "open" /\ excused = FALSE

Land(u) == u \notin landed /\ landed' = landed \cup {u} /\ UNCHANGED <<verdict, excused>>

\* The clone is lost and cut again.  A standing verdict goes with it only when a
\* resume notices (Reopen).
Lose == landed' = {} /\ UNCHANGED <<verdict, excused>>

Rewind == landed' \subseteq landed /\ excused' = TRUE /\ UNCHANGED verdict

Succeed == /\ verdict = "open"
           /\ landed = Unit \/ excused
           /\ verdict' = "succeeded"
           /\ UNCHANGED <<landed, excused>>

GiveUp == verdict = "open" /\ verdict' = "given_up" /\ UNCHANGED <<landed, excused>>

\* `fleet resume` found the work of a succeeded phase gone.
Reopen == verdict = "succeeded" /\ verdict' = "open" /\ UNCHANGED <<landed, excused>>

Next == (\E u \in Unit : Land(u)) \/ Lose \/ Rewind \/ Succeed \/ GiveUp \/ Reopen

Spec == Init /\ [][Next]_vars
=============================================================================
