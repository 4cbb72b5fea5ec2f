------------------------------ MODULE Reentry ------------------------------
(***************************************************************************)
(* One repo across crashes: the four phase rows, the clone and the branch  *)
(* `migrate/<repo>` that hold what the phases did, the checkpoint and the  *)
(* coarse task that say what is still owed, and `fleet resume`, which      *)
(* brings the rows back in line with git (orchestrator/reentry.py, the     *)
(* resume steps of cli.py, workers/relocate.py, workers/rewrite.py,        *)
(* vcs/commits.py, workers/clone.py, state/checkpoints.py).                *)
(*                                                                         *)
(* TRANSFORM is modelled commit by commit.  A unit k <= NSources moves     *)
(* source k; unit NSources + k rewrites target k.  Each lands as one       *)
(* commit above the phase anchor, so the branch is the sequence of units   *)
(* landed since the anchor and the anchor itself is position 0.  The other *)
(* phases are one step each, with the effect their evidence reads.         *)
(*                                                                         *)
(* A lease expires only under a dead process (heartbeats renew it while    *)
(* the process lives), and `fleet resume` may overlap `fleet transform`:   *)
(* no command excludes another.                                            *)
(***************************************************************************)
EXTENDS PhaseTable, Sequences, FiniteSets, FiniteSetsExt

CONSTANTS
  NSources, Targets,   \* files to move, and the moved files some rule matches
  Stubbed,             \* the repo stands on stubs: TRANSFORM ends DEGRADED
  MaxFaults,           \* bound: crashes
  MaxLosses            \* bound: losses of the mirror or of the worktree

ASSUME ReentryAssumption ==
  /\ NSources \in Nat \ {0} /\ Targets \subseteq 1..NSources
  /\ Stubbed \in BOOLEAN /\ MaxFaults \in Nat /\ MaxLosses \in Nat

SCAN == 1
TRANSFORM == 2
BUILD == 3
VERIFY == 4
Phase == SCAN..VERIFY

Unit      == 1..NSources \cup {NSources + k : k \in Targets}
Source(u) == IF u <= NSources THEN u ELSE u - NSources
None      == 0

VARIABLES
  row,      \* table phases
  post,     \* phases.post_commit_sha of TRANSFORM and BUILD
  report,   \* a VerificationReport is stored
  chk,      \* table checkpoints, TRANSFORM
  task,     \* table tasks: the coarse REWRITE row
  git,      \* the mirror, the worktree and the branch
  t,        \* the `fleet transform` process
  s,        \* the `fleet resume` process
  faults, losses,
  excused   \* history: a resume or a rescan took commits from under a worker or a
            \* checkpoint

tables == <<row, post, report, chk, task>>
vars   == <<tables, git, t, s, faults, losses, excused>>

-----------------------------------------------------------------------------
(* State *)

\* A commit id: which repository holds it, and which commit of it.
Commit    == [in : {"nowhere", "clone", "monorepo"}, age : Nat, unit : Unit \cup {None}]
NoCommit  == [in |-> "nowhere", age |-> 0, unit |-> None]
Published == [in |-> "monorepo", age |-> 0, unit |-> None]
NoChk  == [saved |-> FALSE, remaining |-> {}]

\* tree: the worktree directory is absent, usable, or points into a mirror that is gone.
Git == [mirror : BOOLEAN, tree : {"none", "ok", "broken"}, cut : BOOLEAN,
        branch : Seq(Unit), dirty : BOOLEAN, age : Nat]

Worker == [pc : {"idle", "prepare", "acquire", "enter", "claim", "guard", "commit", "finish",
                 "sink", "save", "complete"},
           fence : Nat, resumed : BOOLEAN, todo : SUBSET Unit, landed : SUBSET Unit,
           last : Unit \cup {None}, mark : Nat, rewriting : BOOLEAN,
           res : {"none", "ok", "partial", "failed", "rejected", "raised"}]

IdleWorker == [pc |-> "idle", fence |-> 0, resumed |-> FALSE, todo |-> {}, landed |-> {},
               last |-> None, mark |-> 0, rewriting |-> FALSE, res |-> "none"]

\* A tip of the branch; at 0 it is the upstream commit every clone holds.
Anchor == [age : Nat, at : Nat]
Tip    == [age |-> git.age, at |-> Len(git.branch)]

Resume == [pc : {"idle", "reset", "tasks", "arbitrate", "discard", "persist", "rows", "probe",
                 "demote"},
           anchor : Anchor, len : Nat, verdict : {"none", "landed", "partial", "discarded"},
           last : Unit \cup {None}, seen : [Phase -> RepoStatus],
           held : [Phase -> BOOLEAN], floor : Phase \cup {None}]

IdleResume == [pc |-> "idle", anchor |-> [age |-> 0, at |-> 0], len |-> 0, verdict |-> "none", last |-> None,
               seen |-> [p \in Phase |-> PENDING], held |-> [p \in Phase |-> FALSE],
               floor |-> None]

TypeOK ==
  /\ row \in [Phase -> PhaseRow]
  /\ post \in [{TRANSFORM, BUILD} -> Commit] /\ report \in BOOLEAN
  /\ chk \in [saved : BOOLEAN, remaining : SUBSET Unit]
  /\ task \in [status : {"none", "PENDING", "RUNNING", "DONE"}, anchor : Anchor]
  /\ git \in Git /\ t \in Worker /\ s \in Resume
  /\ faults \in Nat /\ losses \in Nat /\ excused \in BOOLEAN

\* A run just seeded: no clone, every row as upsert_phase wrote it.
Init ==
  /\ row = [p \in Phase |-> FreshRow] /\ report = FALSE
  /\ post = [p \in {TRANSFORM, BUILD} |-> NoCommit]
  /\ chk = NoChk /\ task = [status |-> "none", anchor |-> [age |-> 0, at |-> 0]]
  /\ git = [mirror |-> FALSE, tree |-> "none", cut |-> FALSE, branch |-> <<>>,
            dirty |-> FALSE, age |-> 0]
  /\ t = IdleWorker /\ s = IdleResume /\ faults = 0 /\ losses = 0 /\ excused = FALSE

Status(p) == row[p].status
Landed    == {git.branch[i] : i \in DOMAIN git.branch}

-----------------------------------------------------------------------------
(* Evidence and the floor *)

Resolves(sha) == sha.in = "clone" /\ sha.age = git.age

ScanEvidence == git.mirror /\ git.tree = "ok"

TransformEvidence ==
  /\ git.tree = "ok" /\ git.cut
  /\ Resolves(post[TRANSFORM]) /\ post[TRANSFORM].unit \in Landed

\* Resolved in the repo's clone, where BUILD's commit is not: it is the monorepo's.
BuildEvidence == git.tree = "ok" /\ Resolves(post[BUILD])

\* VERIFY's evidence reads BUILD's status off the rows the caller read.
evidence_holds(p, seen) ==
  CASE p = SCAN      -> ScanEvidence
    [] p = TRANSFORM -> TransformEvidence
    [] p = BUILD     -> BuildEvidence
    [] OTHER         -> seen[BUILD] = SUCCEEDED /\ report

SettledForDemotion == {SUCCEEDED, SKIPPED, DEGRADED}
HardStops          == {DEGRADED, SKIPPED}

Unsettled(seen) == {p \in Phase : seen[p] \notin SettledForDemotion}

\* Mutant: the walk down from the frontier stops at hard stops only.
phase_floor_PastEvidence(seen, held) ==
  IF RHI \in {seen[p] : p \in Phase} \/ Unsettled(seen) = {} THEN None
  ELSE LET stops == {p \in 1..(Min(Unsettled(seen)) - 1) : seen[p] \in HardStops}
       IN  IF stops = {} THEN SCAN ELSE Max(stops) + 1

\* Mutant: the floor is at most one phase below the frontier.
phase_floor_OneStep(seen, held) ==
  IF RHI \in {seen[p] : p \in Phase} \/ Unsettled(seen) = {} THEN None
  ELSE LET frontier == Min(Unsettled(seen))
       IN  IF frontier = SCAN \/ seen[frontier - 1] \in HardStops \/ held[frontier - 1]
           THEN frontier ELSE frontier - 1

\* The first unsettled phase, moved down past what has neither evidence nor a stop.
phase_floor(seen, held) ==
  IF RHI \in {seen[p] : p \in Phase} \/ Unsettled(seen) = {} THEN None
  ELSE LET frontier == Min(Unsettled(seen))
           stops    == {p \in 1..(frontier - 1) : seen[p] \in HardStops \/ held[p]}
       IN  IF stops = {} THEN SCAN ELSE Max(stops) + 1

demotable_phases(seen, floor) == {p \in Phase : p >= floor /\ seen[p] = SUCCEEDED}

-----------------------------------------------------------------------------
(* `fleet scan`, `fleet build`, `fleet verify` and what happens to the disk *)

\* A phase that is one step here.  Nobody else meets its lease, so the fence is left at
\* 0, and attempts past the end of the ladder are all alike.
OneStep(p, verdict) ==
  [complete_phase(acquire_phase_lease(row[p]), verdict) EXCEPT
     !.fence = 0, !.attempts = Min({@, MaxAttempts})]

\* CloneWorker: a mirror that is there is refreshed with --prune, which deletes the
\* migrate branch and the anchors with every other ref upstream lacks; a worktree is
\* cut only where no .git entry is.
Cloned ==
  [git EXCEPT !.mirror = TRUE, !.cut = FALSE, !.branch = <<>>, !.dirty = FALSE,
              !.age = git.age + 1,
              !.tree = IF git.tree = "none" \/ (git.tree = "ok" /\ git.mirror /\ ~git.cut)
                       THEN "ok" ELSE "broken"]

\* A rescan deletes the branch whoever works on it, and no checkpoint.
PrunedUnder == (git.cut /\ t.pc \notin {"idle", "prepare"}) \/ chk.saved

\* The scan fails on a worktree it cannot read, and may fail on anything else.
Scan ==
  /\ Status(SCAN) = PENDING
  /\ git' = Cloned /\ excused' = (excused \/ PrunedUnder)
  /\ \E verdict \in {SUCCEEDED, PENDING} :
       /\ verdict = SUCCEEDED => git'.tree = "ok"
       /\ row' = [row EXCEPT ![SCAN] = OneStep(SCAN, verdict)]
  /\ UNCHANGED <<post, report, chk, task, t, s, faults, losses>>

\* `fleet build` ingests the branch, abandoning a repo it cannot read it from, publishes
\* into the monorepo and records the commit there.
Build ==
  /\ Status(TRANSFORM) \in {SUCCEEDED, DEGRADED} /\ Status(BUILD) = PENDING
  /\ IF git.tree = "ok" /\ git.cut
     THEN \E verdict \in {SUCCEEDED, PENDING} :
            /\ row' = [row EXCEPT ![BUILD] = OneStep(BUILD, verdict)]
            /\ post' = [post EXCEPT ![BUILD] = IF verdict = SUCCEEDED THEN Published ELSE @]
     ELSE row' = [row EXCEPT ![BUILD] = abandon_repo(row[BUILD])] /\ UNCHANGED post
  /\ UNCHANGED <<report, chk, task, git, t, s, faults, losses, excused>>

\* The sink stores the report before complete_phase writes the verdict.
Verify ==
  /\ Status(BUILD) \in {SUCCEEDED, DEGRADED} /\ Status(VERIFY) = PENDING
  /\ \E verdict \in {SUCCEEDED, PENDING} :
       row' = [row EXCEPT ![VERIFY] = OneStep(VERIFY, verdict)]
  /\ report' = TRUE
  /\ UNCHANGED <<post, chk, task, git, t, s, faults, losses, excused>>

\* stub_degrade_transform, after the wave that completed TRANSFORM.
StubDegrade ==
  /\ Stubbed /\ Status(TRANSFORM) = SUCCEEDED /\ Status(BUILD) = PENDING
  /\ row' = [row EXCEPT ![TRANSFORM].status = DEGRADED]
  /\ UNCHANGED <<post, report, chk, task, git, t, s, faults, losses, excused>>

\* The mirror is evicted (`fleet gc`, which refuses beneath RUNNING rows, or an
\* operator), and every ref with it.  Nobody deletes the clone under a running command.
LoseMirror ==
  /\ losses < MaxLosses /\ git.mirror /\ t.pc = "idle"
  /\ git' = [git EXCEPT !.mirror = FALSE, !.cut = FALSE, !.branch = <<>>, !.dirty = FALSE,
                        !.tree = IF git.tree = "none" THEN "none" ELSE "broken"]
  /\ losses' = losses + 1
  /\ UNCHANGED <<tables, t, s, faults, excused>>

\* The worktree is removed; the branch lives on in the mirror.
LoseTree ==
  /\ losses < MaxLosses /\ git.tree # "none" /\ t.pc = "idle"
  /\ git' = [git EXCEPT !.tree = "none", !.dirty = FALSE]
  /\ losses' = losses + 1
  /\ UNCHANGED <<tables, t, s, faults, excused>>

-----------------------------------------------------------------------------
(* `fleet transform`: from the command to the lease *)

\* reap_expired_phase_leases, then the wave admits the repo.
TransformStart ==
  /\ t.pc = "idle" /\ Status(SCAN) = SUCCEEDED
  /\ LET swept == IF LeaseReapable(row[TRANSFORM]) THEN ReclaimLease(row[TRANSFORM])
                 ELSE row[TRANSFORM]
     IN  /\ Acquirable(swept)
         /\ row' = [row EXCEPT ![TRANSFORM] = swept]
  /\ t' = [IdleWorker EXCEPT !.pc = "prepare"]
  /\ UNCHANGED <<post, report, chk, task, git, s, faults, losses, excused>>

\* _prepare_repo: without a readable worktree the repo is abandoned; a dirty one is
\* cleaned; the branch and its anchor are cut once.
Prepare ==
  /\ t.pc = "prepare"
  /\ IF git.tree = "ok"
     THEN /\ git' = [git EXCEPT !.dirty = FALSE, !.cut = TRUE]
          /\ t' = [t EXCEPT !.pc = "acquire"]
          /\ UNCHANGED row
     ELSE /\ row' = [row EXCEPT ![TRANSFORM] = abandon_repo(row[TRANSFORM])]
          /\ t' = IdleWorker
          /\ UNCHANGED git
  /\ UNCHANGED <<post, report, chk, task, s, faults, losses, excused>>

Acquire ==
  /\ t.pc = "acquire"
  /\ IF Acquirable(row[TRANSFORM])
     THEN /\ row' = [row EXCEPT ![TRANSFORM] = acquire_phase_lease(row[TRANSFORM])]
          /\ t' = [IdleWorker EXCEPT !.pc = "enter", !.fence = row[TRANSFORM].fence + 1]
     ELSE t' = IdleWorker /\ UNCHANGED row
  /\ UNCHANGED <<post, report, chk, task, git, s, faults, losses, excused>>

\* _re_entry and the first precondition: the checkpoint is replayed when the worktree
\* directory is there and every file it owes is where the plan looks for it.
Enter ==
  /\ t.pc = "enter"
  /\ LET resumed == chk.saved /\ git.tree = "ok"
         todo    == IF resumed THEN chk.remaining ELSE Unit
     IN  t' = [t EXCEPT !.pc = "claim", !.resumed = resumed, !.todo = todo,
                        !.landed = Unit \ todo]
  /\ UNCHANGED <<tables, git, s, faults, losses, excused>>

\* _TransformClaimHook: the coarse row is minted, its anchor is the tip, and the CAS
\* takes it only from PENDING; a refusal is ignored.
Claim ==
  /\ t.pc = "claim"
  /\ task' = IF task.status \in {"none", "PENDING"}
             THEN [status |-> "RUNNING", anchor |-> Tip] ELSE task
  /\ t' = [t EXCEPT !.pc = "guard"]
  /\ UNCHANGED <<row, post, report, chk, git, s, faults, losses, excused>>

-----------------------------------------------------------------------------
(* The workers: relocate, then rewrite, one unit at a time *)

Stop(res) == t' = [t EXCEPT !.pc = "finish", !.res = res]

\* The rewrite worker's own precondition: a target a checkpoint owes is at its new place.
TargetsPresent == \A u \in t.todo : Source(u) \in Landed

EnterRewrite ==
  /\ t.pc = "guard" /\ ~t.rewriting /\ \A u \in t.todo : u > NSources
  /\ t' = [t EXCEPT !.rewriting = TRUE,
                    !.todo = IF t.resumed /\ ~TargetsPresent
                             THEN {u \in Unit : u > NSources} ELSE t.todo]
  /\ UNCHANGED <<tables, git, s, faults, losses, excused>>

Ready == /\ t.pc = "guard" /\ t.todo # {}
         /\ t.rewriting \/ \E u \in t.todo : u <= NSources

\* Mutant: the guard trusts the checkpoint and not the branch.
Guard_Unchecked ==
  /\ Ready /\ git.tree = "ok"
  /\ git' = [git EXCEPT !.dirty = TRUE]
  /\ t' = [t EXCEPT !.pc = "commit", !.mark = Len(git.branch)]
  /\ UNCHANGED <<tables, s, faults, losses, excused>>

\* guard and `git apply --index`: a unit whose effect is at the tip is skipped and
\* reported with the commit that holds it.
Guard ==
  /\ Ready /\ git.tree = "ok"
  /\ LET u == Min(t.todo)
     IN  IF u \in Landed
         THEN /\ t' = [t EXCEPT !.todo = @ \ {u}, !.landed = @ \cup {u}, !.last = u]
              /\ UNCHANGED git
         ELSE /\ Source(u) = u \/ Source(u) \in Landed
              /\ git' = [git EXCEPT !.dirty = TRUE]
              /\ t' = [t EXCEPT !.pc = "commit", !.mark = Len(git.branch)]
  /\ UNCHANGED <<tables, s, faults, losses, excused>>

\* `git commit`; with nothing staged any more it fails, and land_patches resets to the
\* tip it started from.
CommitUnit ==
  /\ t.pc = "commit"
  /\ LET u == Min(t.todo)
     IN  IF git.tree = "ok" /\ git.dirty
         THEN /\ git' = [git EXCEPT !.branch = Append(@, u), !.dirty = FALSE]
              /\ t' = [t EXCEPT !.pc = "guard", !.todo = @ \ {u}, !.landed = @ \cup {u},
                                !.last = u]
         ELSE UNCHANGED git /\ Stop("failed")
  /\ UNCHANGED <<tables, s, faults, losses, excused>>

\* The patch does not apply, no rule and no repair covers the unit (failed), or the
\* refusal is one a retry cannot change (rejected).
Decline ==
  /\ Ready /\ Min(t.todo) \notin Landed
  /\ \E res \in {"failed", "rejected"} : Stop(res)
  /\ UNCHANGED <<tables, git, s, faults, losses, excused>>

\* git or the file under the unit is gone: an exception reaches the runner.
Raise ==
  /\ Ready
  /\ LET u == Min(t.todo)
     IN  git.tree # "ok" \/ (u \notin Landed /\ Source(u) # u /\ Source(u) \notin Landed)
  /\ Stop("raised")
  /\ UNCHANGED <<tables, git, s, faults, losses, excused>>

\* The deadline or a cancellation, seen at a unit boundary.
Interrupt ==
  /\ Ready
  /\ Stop(IF t.landed # {} THEN "partial" ELSE "failed")
  /\ UNCHANGED <<tables, git, s, faults, losses, excused>>

Exhausted ==
  /\ t.pc = "guard" /\ t.rewriting /\ t.todo = {}
  /\ Stop("ok")
  /\ UNCHANGED <<tables, git, s, faults, losses, excused>>

-----------------------------------------------------------------------------
(* The worker's result *)

Fenced == Renewable(row[TRANSFORM], t.fence)

\* A result under a fence that is no longer current is dropped.
CheckFence ==
  /\ t.pc = "finish"
  /\ t' = IF Fenced THEN [t EXCEPT !.pc = IF t.res = "raised" THEN "complete" ELSE "sink"]
           ELSE IdleWorker
  /\ UNCHANGED <<tables, git, s, faults, losses, excused>>

\* _TransformSink: the last commit under the fence; the task whatever the fence.
Sink ==
  /\ t.pc = "sink"
  /\ post' = IF t.last # None /\ row[TRANSFORM].fence = t.fence
             THEN [post EXCEPT ![TRANSFORM] =
                     [in |-> "clone", age |-> git.age, unit |-> t.last]]
             ELSE post
  /\ task' = IF task.status = "RUNNING"
             THEN [task EXCEPT !.status = IF t.res = "ok" THEN "DONE" ELSE "PENDING"] ELSE task
  /\ t' = [t EXCEPT !.pc = IF t.res = "partial" THEN "save" ELSE "complete"]
  /\ UNCHANGED <<row, report, chk, git, s, faults, losses, excused>>

\* Mutant: a partial result is stored as if it owed what the payload owed.
Save_Nothing ==
  /\ t.pc = "save"
  /\ chk' = [saved |-> TRUE, remaining |-> {}]
  /\ t' = [t EXCEPT !.pc = "complete"]
  /\ UNCHANGED <<row, post, report, task, git, s, faults, losses, excused>>

Save ==
  /\ t.pc = "save"
  /\ chk' = [saved |-> TRUE, remaining |-> Unit \ t.landed]
  /\ t' = [t EXCEPT !.pc = "complete"]
  /\ UNCHANGED <<row, post, report, task, git, s, faults, losses, excused>>

Verdict == CASE t.res = "ok" -> SUCCEEDED [] t.res = "rejected" -> RHI [] OTHER -> PENDING

\* complete_phase, and the next rung in the same process when it left PENDING.
Complete ==
  /\ t.pc = "complete"
  /\ IF Fenced
     THEN /\ row' = [row EXCEPT ![TRANSFORM] = complete_phase(row[TRANSFORM], Verdict)]
          /\ t' = [IdleWorker EXCEPT
                     !.pc = IF row'[TRANSFORM].status = PENDING THEN "acquire" ELSE "idle"]
     ELSE t' = IdleWorker /\ UNCHANGED row
  /\ UNCHANGED <<post, report, chk, task, git, s, faults, losses, excused>>

-----------------------------------------------------------------------------
(* `fleet resume` *)

ResumeStart ==
  /\ s.pc = "idle"
  /\ s' = [IdleResume EXCEPT !.pc = "reset"]
  /\ UNCHANGED <<tables, git, t, faults, losses, excused>>

\* Step 3: rows whose heartbeat is stale.
ResetStale ==
  /\ s.pc = "reset"
  /\ row' = [row EXCEPT ![TRANSFORM] = IF LeaseReapable(@) THEN ReclaimLease(@) ELSE @]
  /\ s' = [s EXCEPT !.pc = "tasks"]
  /\ UNCHANGED <<post, report, chk, task, git, t, faults, losses, excused>>

\* Step 4's candidates: RUNNING tasks of phases no live worker holds.
Arbitrated == /\ task.status = "RUNNING"
              /\ ~(Status(TRANSFORM) = RUNNING /\ row[TRANSFORM].lease = "live")

ReadTasks ==
  /\ s.pc = "tasks"
  /\ s' = IF Arbitrated THEN [s EXCEPT !.pc = "arbitrate", !.anchor = task.anchor]
          ELSE [s EXCEPT !.pc = "rows"]
  /\ UNCHANGED <<tables, git, t, faults, losses, excused>>

\* One trailer search per unit.  A question git cannot be asked leaves the task alone.
Arbitrate ==
  /\ s.pc = "arbitrate"
  /\ s' = IF git.tree # "ok" \/ ~git.cut THEN [s EXCEPT !.pc = "rows"]
          ELSE IF Unit \subseteq Landed
          THEN [s EXCEPT !.pc = "persist", !.verdict = "landed", !.last = Max(Unit)]
          ELSE IF Landed # {} THEN [s EXCEPT !.pc = "persist", !.verdict = "partial"]
          ELSE [s EXCEPT !.pc = "discard", !.verdict = "discarded",
                              !.len = Len(git.branch)]
  /\ UNCHANGED <<tables, git, t, faults, losses, excused>>

\* discard_task to the anchor the task row carried: refused unless it is an ancestor.
Discard ==
  /\ s.pc = "discard"
  /\ IF /\ git.tree = "ok" /\ git.cut /\ s.anchor.at <= Len(git.branch)
        /\ s.anchor.at = 0 \/ s.anchor.age = git.age
     THEN /\ git' = [git EXCEPT !.branch = SubSeq(@, 1, s.anchor.at), !.dirty = FALSE]
          /\ s' = [s EXCEPT !.pc = "persist"]
          /\ excused' = (excused \/ Len(git.branch) # s.len)
     ELSE s' = [s EXCEPT !.pc = "rows"] /\ UNCHANGED <<git, excused>>
  /\ UNCHANGED <<tables, t, faults, losses>>

\* _persist_arbitration: by task id alone, no compare-and-swap.
Persist ==
  /\ s.pc = "persist"
  /\ task' = [task EXCEPT !.status = IF s.verdict = "landed" THEN "DONE" ELSE "PENDING"]
  /\ post' = IF s.verdict = "landed"
             THEN [post EXCEPT ![TRANSFORM] = [in |-> "clone", age |-> git.age, unit |-> s.last]]
             ELSE post
  /\ s' = [s EXCEPT !.pc = "rows"]
  /\ UNCHANGED <<row, report, chk, git, t, faults, losses, excused>>

\* Step 5 reads the rows, then asks the disk, then writes.
ReadRows ==
  /\ s.pc = "rows"
  /\ s' = [s EXCEPT !.pc = "probe", !.seen = [p \in Phase |-> Status(p)]]
  /\ UNCHANGED <<tables, git, t, faults, losses, excused>>

Probe ==
  /\ s.pc = "probe"
  /\ LET held  == [p \in Phase |-> evidence_holds(p, s.seen)]
         floor == phase_floor(s.seen, held)
     IN  s' = IF floor = None \/ demotable_phases(s.seen, floor) = {} THEN IdleResume
              ELSE [s EXCEPT !.pc = "demote", !.held = held, !.floor = floor]
  /\ UNCHANGED <<tables, git, t, faults, losses, excused>>

\* The checkpoints a demotion deletes: the span, DEGRADED rows excepted.
Swept(floor) == {p \in Phase : p >= floor /\ Status(p) # DEGRADED}

\* demote_to_floor: nothing if a row wants a human or moved since it was read.
Demote ==
  /\ s.pc = "demote"
  /\ IF \E p \in Phase : Status(p) = RHI \/ Status(p) # s.seen[p]
     THEN UNCHANGED <<row, chk>>
     ELSE /\ row' = [p \in Phase |-> IF p \in demotable_phases(s.seen, s.floor)
                                    THEN reopen_to_pending(row[p]) ELSE row[p]]
          /\ chk' = IF TRANSFORM \in Swept(s.floor) THEN NoChk ELSE chk
  /\ s' = IdleResume
  /\ UNCHANGED <<post, report, task, git, t, faults, losses, excused>>

-----------------------------------------------------------------------------
(* Crashes *)

CrashTransform ==
  /\ faults < MaxFaults /\ t.pc # "idle"
  /\ t' = IdleWorker /\ faults' = faults + 1
  /\ UNCHANGED <<tables, git, s, losses, excused>>

CrashResume ==
  /\ faults < MaxFaults /\ s.pc # "idle"
  /\ s' = IdleResume /\ faults' = faults + 1
  /\ UNCHANGED <<tables, git, t, losses, excused>>

\* The heartbeat of a process that is gone goes stale.
Expire ==
  /\ Status(TRANSFORM) = RUNNING /\ row[TRANSFORM].lease = "live"
  /\ t.fence # row[TRANSFORM].fence
  /\ row' = [row EXCEPT ![TRANSFORM].lease = "expired"]
  /\ UNCHANGED <<post, report, chk, task, git, t, s, faults, losses, excused>>

-----------------------------------------------------------------------------

Transform == \/ Prepare \/ Acquire \/ Enter \/ Claim \/ EnterRewrite \/ Guard \/ CommitUnit
             \/ Raise \/ Exhausted \/ CheckFence \/ Sink \/ Save \/ Complete

ResumeStep == \/ ResetStale \/ ReadTasks \/ Arbitrate \/ Discard \/ Persist \/ ReadRows
              \/ Probe \/ Demote

Commands == Scan \/ TransformStart \/ Build \/ Verify

Next == \/ Commands \/ Transform \/ Decline \/ Interrupt \/ StubDegrade
        \/ ResumeStart \/ ResumeStep
        \/ LoseMirror \/ LoseTree \/ CrashTransform \/ CrashResume \/ Expire

Spec == Init /\ [][Next]_vars

\* A process that runs keeps running, a dead one's heartbeat goes stale, and operators
\* run the command that is due and resume again and again: a resume between `fleet
\* build` and `fleet verify` takes BUILD back (see IntactIsKept), so verify needs an
\* operator who sometimes gets to it first.
FairSpec == /\ Spec
            /\ WF_vars(Transform) /\ WF_vars(ResumeStep) /\ WF_vars(Expire)
            /\ WF_vars(ResumeStart)
            /\ SF_vars(Scan) /\ SF_vars(TransformStart) /\ SF_vars(Build) /\ SF_vars(Verify)

-----------------------------------------------------------------------------
(* Properties *)

\* A unit is committed at most once above the anchor: replays, checkpoints and second
\* attempts find the commit that is there (vcs/commits.guard, find_task_commit).
OneCommitPerUnit ==
  \A i, j \in DOMAIN git.branch : git.branch[i] = git.branch[j] => i = j

\* What the phase reports to the rest of the fleet.
PhaseVerdict == CASE Status(TRANSFORM) \in {SUCCEEDED, DEGRADED} -> "succeeded"
                  [] Status(TRANSFORM) = RHI -> "given_up"
                  [] OTHER -> "open"

\* TRANSFORM implements Landing: it succeeds only with every unit on the branch,
\* whatever checkpoints, crashes, losses of the clone and resumes led there, unless a
\* resume rewound the branch, or a rescan pruned it, under the worker.
TransformLands == INSTANCE Landing WITH landed <- Landed, verdict <- PhaseVerdict
LandsEverything == TransformLands!Spec

\* A resume demotes a succeeded phase below the frontier only where its evidence is
\* gone (phase_floor walks down from the frontier and stops at the first holder).
GreenWorkKept ==
  [][\A p \in Phase :
       Status(p) = SUCCEEDED /\ row'[p].status = PENDING
         => s.floor <= p /\ (p < Min(Unsettled(s.seen)) => ~s.held[p])]_vars

\* When a resume has written its floor and the disk has not changed since it looked,
\* the phase below the new frontier stands: its evidence holds, or it is a hard stop.
FloorIsSound ==
  [][s.pc = "demote" /\ s'.pc = "idle" /\ row' # row
       /\ (\A p \in Phase : evidence_holds(p, s.seen) = s.held[p])
       => LET now      == [p \in Phase |-> row'[p].status]
              frontier == Min(Unsettled(now))
          IN  \/ frontier = SCAN
              \/ now[frontier - 1] \in HardStops
              \/ evidence_holds(frontier - 1, now)]_vars

\* The repo comes to rest: done, or in a human's hands.
AtRest == Unsettled([p \in Phase |-> Status(p)]) = {} \/ \E p \in Phase : Status(p) = RHI
ComesToRest == <>[]AtRest

\* Claimed of `fleet resume`: an intact repo is left alone ("a no-op stays a no-op").
IntactIsKept ==
  [][\A p \in Phase : losses = 0 /\ Status(p) = SUCCEEDED => row'[p].status # PENDING]_vars

\* Claimed of step 4: durable commits are never deleted.
CommitsAreKept ==
  [][git'.age = git.age /\ git'.cut /\ git.cut => Len(git'.branch) >= Len(git.branch)]_vars

=============================================================================
