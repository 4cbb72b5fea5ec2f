----------------------------- MODULE PhaseTable -----------------------------
(***************************************************************************)
(* One row of the `phases` table and the transactions the program runs on  *)
(* it.  Every operator below is one `StateWriter` unit: it is executed     *)
(* inside one BEGIN IMMEDIATE, so it is atomic, and it maps the row it     *)
(* finds to the row it leaves.                                             *)
(*                                                                         *)
(* Abstractions.  `lease_expires_at` is compared with the caller's clock   *)
(* and with nothing else, so the three-valued `lease` stands for it: NULL, *)
(* not yet past, past.  `lease_owner` is determined by `fence` (every      *)
(* acquisition mints a new one) and is left out.  Timestamps, error text   *)
(* and the failure class recorded for humans carry no control.             *)
(***************************************************************************)
EXTENDS Naturals, PhaseStatus

CONSTANTS Repos,         \* repo ids of the run
          MaxAttempts    \* phases.max_attempts: rungs of the retry ladder

ASSUME MaxAttemptsAssumption == MaxAttempts \in Nat \ {0}

LeaseState == {"null", "live", "expired"}

PhaseRow == [status     : RepoStatus,
             fence      : Nat,
             lease      : LeaseState,
             attempts   : Nat,
             transient  : Nat,
             blocked_by : SUBSET Repos]

\* The row `upsert_phase` inserts: the schema's column defaults.
FreshRow == [status |-> PENDING, fence |-> 0, lease |-> "null",
             attempts |-> 0, transient |-> 0, blocked_by |-> {}]

-----------------------------------------------------------------------------
(* Leases *)

\* The lease CAS matches a PENDING row only.
Acquirable(row) == row.status = PENDING

\* Mutants: every lease starts at fence 1; no expiry is stored.
acquire_FenceReset(row) ==
  [row EXCEPT !.status = RUNNING, !.fence = 1, !.lease = "live"]
acquire_NoExpiry(row) ==
  [row EXCEPT !.status = RUNNING, !.fence = row.fence + 1, !.lease = "null"]

acquire_phase_lease(row) ==
  [row EXCEPT !.status = RUNNING, !.fence = row.fence + 1, !.lease = "live"]

\* renew_phase_lease matches only the RUNNING row under the caller's fence;
\* no match is LeaseStolenError.
Renewable(row, fence) == row.status = RUNNING /\ row.fence = fence

renew_phase_lease(row) == [row EXCEPT !.lease = "live"]

\* Mutant: the reaper takes every row without a live lease.
LeaseReapable_AnyStatus(row) == row.lease # "live"

\* The lease half of the reaper (reap_expired_phase_leases, first statement).
LeaseReapable(row) == row.status = RUNNING /\ row.lease = "expired"

ReclaimLease(row) ==
  [row EXCEPT !.status = PENDING, !.fence = row.fence + 1, !.lease = "null"]

-----------------------------------------------------------------------------
(* Completion *)

\* Mutant: the escalation comes one attempt late.
CompletionTarget_Late(row, status) ==
  IF status = PENDING /\ row.attempts >= MaxAttempts THEN RHI ELSE status

\* complete_phase turns a PENDING that would exhaust the ladder into RHI.
CompletionTarget(row, status) ==
  IF status = PENDING /\ row.attempts + 1 >= MaxAttempts THEN RHI ELSE status

complete_phase(row, status) ==
  [row EXCEPT !.status = CompletionTarget(row, status),
              !.attempts = row.attempts + 1, !.lease = "null"]

\* PhaseRunner._terminate_uncharged: fenced, but written past transition().
terminate_uncharged(row, status) ==
  [row EXCEPT !.status = status, !.lease = "null"]

\* PhaseRunner._record_diagnostics: the transient budget is stored as the
\* runner's own count, not incremented in place.
record_diagnostics(row, transient) == [row EXCEPT !.transient = transient]

-----------------------------------------------------------------------------
(* Containment and the operator's writes *)

\* Rows append_blocked_by skips: terminal ones, and those transition() refuses
\* to move to BLOCKED (DEGRADED).
Blockable(row) ==
  row.status \notin TERMINAL_STATUSES /\ transition(row.status, BLOCKED)

\* The lease, the fence and a worker holding them are left as they are.
append_blocked_by(row, blocker) ==
  IF Blockable(row)
  THEN [row EXCEPT !.status = BLOCKED, !.blocked_by = row.blocked_by \cup {blocker}]
  ELSE row

\* clear_blocked_by with the names the plan removes.
clear_blocked_by(row, removed) ==
  LET keep == row.blocked_by \ removed
  IN  IF keep = row.blocked_by
      THEN row
      ELSE [row EXCEPT !.blocked_by = keep,
                       !.status = IF keep = {} /\ row.status = BLOCKED
                                  THEN PENDING ELSE row.status]

\* reopen_to_pending moves the status alone: attempts are not reset.
reopen_to_pending(row) == [row EXCEPT !.status = PENDING]

\* demote_to_floor on one row of the span: landed work goes back, and keeps the
\* attempts it took; every other status stays.
demote(row) == IF row.status = SUCCEEDED THEN [row EXCEPT !.status = PENDING] ELSE row

\* stub_degrade_transform, in any phase: a success over an active stub is none.
stub_degrade_transform(row) ==
  IF row.status = SUCCEEDED THEN [row EXCEPT !.status = DEGRADED] ELSE row

\* apply_stub_consumer_status: a revalidated stub settles its consumer.
apply_stub_consumer_status(row, status) ==
  IF row.status = DEGRADED THEN [row EXCEPT !.status = status] ELSE row

\* `fleet quarantine` on a row it read as movable: every status but RUNNING.
quarantine_movable(row) ==
  IF row.status = RUNNING
  THEN row
  ELSE [row EXCEPT !.status = SKIPPED, !.fence = row.fence + 1, !.lease = "null"]

\* `_abandon_repo`: git preparation failed before any lease existed.
abandon_repo(row) == IF row.status = PENDING THEN [row EXCEPT !.status = RHI] ELSE row

\* `fleet abort`: every RUNNING row, whatever its lease says.
abort_reset(row) == IF row.status = RUNNING THEN ReclaimLease(row) ELSE row

=============================================================================
