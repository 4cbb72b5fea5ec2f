---------------------------- MODULE PhaseStatus ----------------------------
(***************************************************************************)
(* The status machine every row of the `phases` table obeys                *)
(* (fleet/models/enums.py): the statuses, the one-step transition relation *)
(* behind transition(), and the sets other components read off it.         *)
(***************************************************************************)

PENDING   == "PENDING"
RUNNING   == "RUNNING"
SUCCEEDED == "SUCCEEDED"
BLOCKED   == "BLOCKED"
DEGRADED  == "DEGRADED"
RHI       == "REQUIRES_HUMAN_INTERVENTION"
SKIPPED   == "SKIPPED"

RepoStatus == {PENDING, RUNNING, SUCCEEDED, BLOCKED, DEGRADED, RHI, SKIPPED}

TERMINAL_STATUSES == {SUCCEEDED, RHI, SKIPPED}

\* What the wave scheduler treats as "this member needs nothing more now".
SETTLED_STATUSES == TERMINAL_STATUSES \cup {BLOCKED, DEGRADED}

\* What un-blocking accepts as proof that a blocker's work landed.
LANDED_STATUSES == {SUCCEEDED}

ALLOWED_TRANSITIONS ==
  [s \in RepoStatus |->
     CASE s = PENDING  -> {RUNNING, BLOCKED, SKIPPED}
       [] s = RUNNING  -> {PENDING, SUCCEEDED, DEGRADED, BLOCKED, RHI}
       [] s = BLOCKED  -> {PENDING, SKIPPED}
       [] s = DEGRADED -> {RUNNING, SUCCEEDED, RHI}
       [] OTHER        -> {}]

\* transition(current, new) returns rather than raises: writing the status a
\* row already has is a no-op the gate admits.
transition(current, new) ==
  current = new \/ new \in ALLOWED_TRANSITIONS[current]

=============================================================================
