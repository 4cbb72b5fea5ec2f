------------------------------ MODULE Publish ------------------------------
(***************************************************************************)
(* Phases 3 and 4 around the one thing every repo shares: the integration  *)
(* branch of the monorepo and the worktree it is checked out in.           *)
(*                                                                         *)
(* `fleet build` merges every repo's history, snapshots the branch, cuts a *)
(* worktree per repo from the snapshot, writes the fleet-wide root files   *)
(* and drives the waves; each worker generates and verifies in its own     *)
(* worktree and then publishes: a commit there, and a merge of that commit *)
(* into the shared worktree under the integration mutex.  Between two      *)
(* waves the branch is snapshotted and the worktrees are cut again.        *)
(* `fleet verify` snapshots the branch under the same mutex.               *)
(*                                                                         *)
(* A tree is the sources merged (src, with what each owner kept of its     *)
(* hoisted contracts), the packages whose BUILD.bazel it holds (gen) and   *)
(* the units its MODULE.bazel describes (root).  The                       *)
(* captured MODULE.bazel.lock is a step that may fail, without content.    *)
(* Ladder, leases and containment are PhaseRunner's; here a transient      *)
(* failure costs a fault of the bound instead of a transient retry.        *)
(***************************************************************************)
EXTENDS PhaseTable, BuildSteps

CONSTANTS Contracts,   \* hoisted contracts: sources of their own on the branch
          Owner,       \* contracts.owning_repo_id
          MaxFaults,   \* bound: crashes, failed git commands, lock timeouts, transients
          MaxRuns      \* bound: `fleet build` commands

ASSUME PublishAssumption ==
  /\ MaxFaults \in Nat /\ MaxRuns \in Nat /\ Repos # {}
  /\ Owner \in [Contracts -> Repos] /\ Contracts \cap Repos = {}

Waves == 1..2

VARIABLES
  wave,        \* wave_members of the run
  row,         \* table phases, BUILD
  chk,         \* the checkpoint owes PUBLISH alone
  tip,         \* the integration branch
  merges,      \* its merge commits, by the source their trailers name
  stuck,       \* MERGE_HEAD in the shared worktree
  mutex,       \* the flock and its holder
  tree,        \* the build worktree of each repo
  w,           \* the workers
  c,           \* the `fleet build` command
  v,           \* the `fleet verify` command
  verified,    \* table verification_reports, and VERIFY rows that failed
  green,       \* history: what the last VERIFY unit found, by its processes
  faulted,     \* history: repos with a failed git step
  faults, runs

monorepo == <<tip, merges, stuck>>
history  == <<green, faulted>>
vars     == <<wave, row, chk, monorepo, mutex, tree, w, c, v, verified, history, faults, runs>>

-----------------------------------------------------------------------------
(* State *)

Source == Repos \cup Contracts

\* kept: contracts whose files came in with their owner's history.
Tree  == [src : SUBSET Source, kept : SUBSET Contracts, gen : SUBSET Repos, root : SUBSET Repos]
Empty == [src |-> {}, kept |-> {}, gen |-> {}, root |-> {}]

\* base: the snapshot it was cut from; head: what is committed in it; files: the
\* generated files lie in it.
Worktree == [base : Tree, head : Tree, files : BOOLEAN]

\* module: this attempt wrote MODULE.bazel; lock: bazel left a MODULE.bazel.lock;
\* commit: this attempt committed.
Worker == [pc : {"idle", "build", "stage", "mutex", "land", "complete"},
           module : BOOLEAN, lock : BOOLEAN, commit : BOOLEAN,
           res : {"none", "ok", "partial", "retry", "fatal"}]
IdleWorker == [pc |-> "idle", module |-> FALSE, lock |-> FALSE, commit |-> FALSE, res |-> "none"]

Command == [pc : {"idle", "contracts", "ingest", "snapshot", "plan", "roots", "gazelle", "wave",
                 "resnapshot", "replan", "run"},
            todo : SUBSET Source, hoisted : SUBSET Contracts, domain : SUBSET Repos, snap : Tree, wave : Nat,
            published : BOOLEAN]
IdleCommand == [pc |-> "idle", todo |-> {}, hoisted |-> {}, domain |-> {}, snap |-> Empty, wave |-> 0,
                published |-> FALSE]

Free == "free"

\* The holders of the mutex are told apart.
ASSUME ActorAssumption == {Free, "build", "verify"} \cap Repos = {}

TypeOK ==
  /\ wave \in [Repos -> Waves] /\ row \in [Repos -> PhaseRow] /\ chk \in [Repos -> BOOLEAN]
  /\ tip \in Tree /\ merges \in [Source -> Nat] /\ stuck \in BOOLEAN
  /\ mutex \in Repos \cup {Free, "build", "verify"}
  /\ tree \in [Repos -> Worktree] /\ w \in [Repos -> Worker] /\ c \in Command
  /\ v \in [pc : {"idle", "snapshot", "run"}, repo : Repos \cup {Free}]
  /\ verified \in [Repos -> {"none", "failed", "PASS", "FAIL"}]
  /\ green \in [Repos -> BOOLEAN] /\ faulted \subseteq Repos
  /\ faults \in 0..MaxFaults /\ runs \in 0..MaxRuns

\* TRANSFORM is done for every repo, and phase 3 has not begun.
Init ==
  /\ wave \in [Repos -> Waves] /\ row = [r \in Repos |-> FreshRow]
  /\ chk = [r \in Repos |-> FALSE] /\ tip = Empty /\ merges = [x \in Source |-> 0]
  /\ stuck = FALSE /\ mutex = Free
  /\ tree = [r \in Repos |-> [base |-> Empty, head |-> Empty, files |-> FALSE]]
  /\ w = [r \in Repos |-> IdleWorker] /\ c = IdleCommand
  /\ v = [pc |-> "idle", repo |-> Free] /\ verified = [r \in Repos |-> "none"]
  /\ green = [r \in Repos |-> FALSE] /\ faulted = {} /\ faults = 0 /\ runs = 0

Status(r) == row[r].status
Settled(r) == Status(r) \in SETTLED_STATUSES

Fault(r) == faults < MaxFaults /\ faults' = faults + 1 /\ faulted' = faulted \cup {r}

-----------------------------------------------------------------------------
(* The integration mutex *)

Acquire(actor) == mutex = Free /\ mutex' = actor

Release(actor) == mutex' = Free

-----------------------------------------------------------------------------
(* fleet build: ingest, snapshot, plan *)

\* Rows are reaped, the eligible ones are upserted, and the domain of the root
\* files is every repo TRANSFORM landed, settled ones included.
StartBuild ==
  /\ c.pc = "idle" /\ runs < MaxRuns
  /\ \E r \in Repos : ~Settled(r)
  /\ row' = [r \in Repos |-> IF LeaseReapable(row[r]) THEN ReclaimLease(row[r]) ELSE row[r]]
  /\ c' = [IdleCommand EXCEPT !.pc = "contracts", !.todo = Contracts, !.domain = Repos]
  /\ runs' = runs + 1
  /\ UNCHANGED <<wave, chk, monorepo, mutex, tree, w, v, verified, history, faults>>

\* Mutant: no merge commit is recognised.
already_ingested_Never(x) == FALSE

\* The trailers of a merge commit on the branch name the source.
already_ingested(x) == merges[x] > 0

\* A pending merge is aborted on the way to a new one, and only there.
merge_source(x, kept) ==
  /\ stuck' = FALSE
  /\ tip' = [tip EXCEPT !.src = @ \cup {x}, !.kept = @ \cup kept]
  /\ merges' = [merges EXCEPT ![x] = @ + 1]

ingest(x, kept) ==
  IF already_ingested(x) THEN UNCHANGED monorepo ELSE merge_source(x, kept)

\* The contract's paths, off the owner's mirror.
IngestContract(k) ==
  /\ c.pc = "contracts" /\ k \in c.todo /\ mutex = Free
  /\ ingest(k, {})
  /\ c' = [c EXCEPT !.todo = @ \ {k}, !.hoisted = @ \cup {k}]
  /\ UNCHANGED <<wave, row, chk, mutex, tree, w, v, verified, history, faults, runs>>

\* A finding, and the run goes on.
ContractFails(k) ==
  /\ c.pc = "contracts" /\ k \in c.todo
  /\ faults < MaxFaults /\ faults' = faults + 1
  /\ c' = [c EXCEPT !.todo = @ \ {k}]
  /\ UNCHANGED <<wave, row, chk, monorepo, mutex, tree, w, v, verified, history, runs>>

ContractsDone ==
  /\ c.pc = "contracts" /\ c.todo = {}
  /\ c' = [c EXCEPT !.pc = "ingest", !.todo = Repos]
  /\ UNCHANGED <<wave, row, chk, monorepo, mutex, tree, w, v, verified, history, faults, runs>>

\* Mutant: every contract of the owner is subtracted, landed or not.
Kept_Nothing(r) == {}

\* The owner's relocation excludes the paths of the contracts this command ingested.
Kept(r) == {k \in Contracts : Owner[k] = r} \ c.hoisted

Ingest(r) ==
  /\ c.pc = "ingest" /\ r \in c.todo /\ mutex = Free
  /\ ingest(r, Kept(r))
  /\ c' = [c EXCEPT !.todo = @ \ {r}]
  /\ UNCHANGED <<wave, row, chk, mutex, tree, w, v, verified, history, faults, runs>>

\* Mutant: the repo stays in the domain it is not part of.
Excluded_Kept(r) == c.domain

Excluded(r) == c.domain \ {r}

\* The repo leaves the domain of the root files and a PENDING row is handed to a
\* human.  A settled row stays as it is.
Exclude(r) ==
  /\ Fault(r)
  /\ c' = [c EXCEPT !.todo = @ \ {r}, !.domain = Excluded(r)]
  /\ row' = [row EXCEPT ![r] = abandon_repo(@)]
  /\ UNCHANGED <<wave, chk, monorepo, mutex, tree, w, v, verified, green, runs>>

\* The history cannot be merged; the worktree cannot be cut; a root file cannot be
\* rendered or resolved; gazelle fails.
IngestFails(r)  == c.pc = "ingest" /\ r \in c.todo /\ Exclude(r)
PlanFails(r)    == c.pc = "plan" /\ r \in c.todo /\ Exclude(r)
RootsFail(r)    == c.pc = "roots" /\ r \in c.domain /\ Exclude(r)
GazelleFails(r) == c.pc = "gazelle" /\ r \in c.domain /\ Exclude(r)

Ingested ==
  /\ c.pc = "ingest" /\ c.todo = {}
  /\ c' = IF c.domain = {} THEN IdleCommand ELSE [c EXCEPT !.pc = "snapshot"]
  /\ UNCHANGED <<wave, row, chk, monorepo, mutex, tree, w, v, verified, history, faults, runs>>

\* _wave_snapshot reads the highest number and writes the next under the mutex.
SnapshotBegin ==
  /\ c.pc \in {"snapshot", "resnapshot"} /\ mutex # "build" /\ Acquire("build")
  /\ UNCHANGED <<wave, row, chk, monorepo, tree, w, c, v, verified, history, faults, runs>>

Members == {r \in Repos : wave[r] = c.wave}

SnapshotEnd ==
  /\ c.pc \in {"snapshot", "resnapshot"} /\ mutex = "build" /\ Release("build")
  /\ c' = [c EXCEPT !.snap = tip,
                    !.pc = IF c.pc = "snapshot" THEN "plan" ELSE "replan",
                    !.todo = IF c.pc = "snapshot" THEN c.domain ELSE Members \cap c.domain,
                    !.published = FALSE]
  /\ UNCHANGED <<wave, row, chk, monorepo, tree, w, v, verified, history, faults, runs>>

\* _plan_build removes the worktree it finds and cuts it from the snapshot.
Plan(r) ==
  /\ c.pc \in {"plan", "replan"} /\ r \in c.todo
  /\ tree' = [tree EXCEPT ![r] = [base |-> c.snap, head |-> c.snap, files |-> FALSE]]
  /\ c' = [c EXCEPT !.todo = @ \ {r}]
  /\ UNCHANGED <<wave, row, chk, monorepo, mutex, w, v, verified, history, faults, runs>>

\* A worktree that cannot be cut again makes the repo undispatchable; its plan, and
\* with it the domain, stays.
ReplanFails(r) ==
  /\ c.pc = "replan" /\ r \in c.todo /\ Fault(r)
  /\ row' = [row EXCEPT ![r] = abandon_repo(@)]
  /\ c' = [c EXCEPT !.todo = @ \ {r}]
  /\ UNCHANGED <<wave, chk, monorepo, mutex, tree, w, v, verified, green, runs>>

\* Plans, then the fleet-wide root files, then gazelle, then the first wave.
Planned ==
  /\ c.todo = {}
  /\ \/ c.pc = "plan"    /\ c' = [c EXCEPT !.pc = "roots"]
     \/ c.pc = "roots"   /\ c' = [c EXCEPT !.pc = "gazelle"]
     \/ c.pc = "gazelle" /\ c' = [c EXCEPT !.pc = "wave", !.wave = 1]
     \/ c.pc = "replan"  /\ c' = [c EXCEPT !.pc = "run"]
  /\ UNCHANGED <<wave, row, chk, monorepo, mutex, tree, w, v, verified, history, faults, runs>>

-----------------------------------------------------------------------------
(* fleet build: the waves *)

\* Mutant: the first snapshot serves every wave.
Stale_Never == FALSE

Stale == c.published

EarlierSettled == \A r \in Repos : wave[r] < c.wave => Settled(r)

\* A wave whose members are all settled is not open; a wave before which another is
\* unsettled ends the command (WaveNotReadyError).
EnterWave ==
  /\ c.pc = "wave"
  /\ c' = CASE c.wave > 2 -> IdleCommand
            [] c.wave \in Waves /\ \A r \in Members : Settled(r) -> [c EXCEPT !.wave = @ + 1]
            [] c.wave \in Waves /\ (\E r \in Members : ~Settled(r)) /\ ~EarlierSettled ->
                 IdleCommand
            [] OTHER -> [c EXCEPT !.pc = IF Stale THEN "resnapshot" ELSE "run"]
  /\ UNCHANGED <<wave, row, chk, monorepo, mutex, tree, w, v, verified, history, faults, runs>>

Active == \E r \in Repos : w[r].pc # "idle"

Dispatchable(r) == c.pc = "run" /\ r \in Members \cap c.domain /\ Acquirable(row[r])

\* The wave is over when nothing runs and nothing can be leased; it may have
\* published, so the next wave starts from a new snapshot.
WaveOver ==
  /\ c.pc = "run" /\ ~Active /\ \A r \in Repos : ~Dispatchable(r)
  /\ c' = [c EXCEPT !.pc = "wave", !.wave = @ + 1, !.published = TRUE]
  /\ UNCHANGED <<wave, row, chk, monorepo, mutex, tree, w, v, verified, history, faults, runs>>

\* What _check_root_file_domain asks of a worktree before the wave is dispatched.
RootFileDomainHolds(r) == c.domain \subseteq tree[r].base.src

-----------------------------------------------------------------------------
(* The worker of one repo *)

\* A checkpoint is honoured whenever the worktree is a directory.
Start(r) ==
  /\ Dispatchable(r) /\ w[r].pc = "idle"
  /\ row' = [row EXCEPT ![r] = acquire_phase_lease(@)]
  /\ w' = [w EXCEPT ![r] = [IdleWorker EXCEPT !.pc = IF chk[r] THEN "stage" ELSE "build"]]
  /\ UNCHANGED <<wave, chk, monorepo, mutex, tree, c, v, verified, history, faults, runs>>

GoodGen == [stop |-> "no", adapter |-> TRUE, policy |-> FALSE, full |-> FALSE,
            conflict |-> FALSE, answer |-> "none", late |-> "no"]
GoodVer == [full |-> FALSE, image |-> TRUE, probe |-> "ok", stop |-> "no", build |-> "ok",
            late |-> "no", run_tests |-> TRUE, test |-> "ok",
            base |-> [ok |-> FALSE, count |-> 0], query |-> "ok", count |-> 0]

\* Every way VERIFY can go, one stage at a time: a stage that fails is the last.
GateInput(f, i, p, s) == [GoodVer EXCEPT !.full = f, !.image = i, !.probe = p, !.stop = s]
BuildInput(p, s)      == [GoodVer EXCEPT !.build = p, !.late = s]
TestInput(t, p, b, q, n) ==
  [GoodVer EXCEPT !.run_tests = t, !.test = p, !.base = b, !.query = q, !.count = n]

VerifyInputs ==
  {GateInput(f, i, p, s) : f \in BOOLEAN, i \in BOOLEAN, p \in Proc, s \in Stop}
  \cup {BuildInput(p, s) : p \in Proc, s \in Stop}
  \cup {TestInput(t, p, b, q, n) :
          t \in BOOLEAN, p \in Proc, b \in Baselines, q \in {"ok", "failed"}, n \in 0..1}

\* RetryPolicy.decide and the runner's halts, by failure class.
Verdict(res) ==
  IF      res.status = "ok"                     THEN "ok"
  ELSE IF res.failure.class = "DISK_EXHAUSTED"  THEN "halt"
  ELSE IF res.failure.class = "TRANSIENT_INFRA" THEN "transient"
  ELSE IF res.failure.retryable                 THEN "retry"
  ELSE                                               "fatal"

Generated == {Verdict(generate_and_verify(x, GoodVer, FALSE)) : x \in BuildgenInput}

Outcomes ==
  {[verdict |-> d, green |-> FALSE] : d \in Generated \ {"ok"}}
  \cup {[verdict |-> Verdict(generate_and_verify(GoodGen, x, h)), green |-> Green(x)] :
          x \in VerifyInputs, h \in BOOLEAN}

\* GENERATE and VERIFY, both in the repo's own worktree.
Build(r) ==
  /\ w[r].pc = "build"
  /\ \E o \in Outcomes, lock \in BOOLEAN :
       /\ o.verdict \in {"ok", "retry", "fatal"}
       /\ green' = [green EXCEPT ![r] = o.green]
       /\ tree' = [tree EXCEPT ![r].files = TRUE]
       /\ w' = [w EXCEPT ![r].pc = IF o.verdict = "ok" THEN "stage" ELSE "complete",
                         ![r].res = IF o.verdict = "ok" THEN "none" ELSE o.verdict,
                         ![r].module = o.verdict = "ok", ![r].lock = lock /\ o.verdict = "ok"]
  /\ UNCHANGED <<wave, row, chk, monorepo, mutex, c, v, verified, faulted, faults, runs>>

\* A transient failure is retried on the same rung; a full disk halts the run.
BuildInterrupted(r) ==
  /\ w[r].pc = "build" /\ faults < MaxFaults /\ faults' = faults + 1
  /\ \E o \in Outcomes :
       \/ o.verdict = "transient" /\ UNCHANGED <<w, c>>
       \/ o.verdict = "halt" /\ w' = [q \in Repos |-> IdleWorker] /\ c' = IdleCommand
  /\ mutex' = IF w' # w /\ mutex \in Repos THEN Free ELSE mutex
  /\ UNCHANGED <<wave, row, chk, monorepo, tree, v, verified, history, runs>>

\* PUBLISH stopped on a GitError: GENERATE and VERIFY have landed, PUBLISH is owed.
PublishFailed(r) == w' = [w EXCEPT ![r].pc = "complete", ![r].res = "partial"]

\* One MODULE.bazel for the fleet: it is rendered from the plans of the whole domain.
RootDomain == c.domain

\* Mutant: MODULE.bazel is left out of the paths.
Staged_NoModule(r) == [tree[r].head EXCEPT !.gen = @ \cup {r}]

\* The files `git add` is given: BUILD.bazel always, MODULE.bazel when this attempt
\* wrote it.
Staged(r) ==
  [tree[r].head EXCEPT !.gen = @ \cup {r}, !.root = IF w[r].module THEN RootDomain ELSE @]

\* `git add` needs BUILD.bazel on disk.
CanStage(r) == tree[r].files \/ r \in tree[r].head.gen

\* Nothing staged and no lockfile: already published, nothing to merge.
Stage(r) ==
  /\ w[r].pc = "stage" /\ CanStage(r)
  /\ LET published == Staged(r) # tree[r].head
     IN  /\ tree' = [tree EXCEPT ![r].head = Staged(r)]
         /\ w' = [w EXCEPT ![r].commit = published,
                           ![r].pc = IF published \/ w[r].lock THEN "mutex" ELSE "complete",
                           ![r].res = IF published \/ w[r].lock THEN "none" ELSE "ok"]
  /\ UNCHANGED <<wave, row, chk, monorepo, mutex, c, v, verified, history, faults, runs>>

StageFails(r) ==
  /\ w[r].pc = "stage" /\ PublishFailed(r)
  /\ IF CanStage(r) THEN Fault(r) ELSE UNCHANGED <<faults, faulted>>
  /\ UNCHANGED <<wave, row, chk, monorepo, mutex, tree, c, v, verified, green, runs>>

TakeMutex(r) ==
  /\ w[r].pc = "mutex" /\ Acquire(r)
  /\ w' = [w EXCEPT ![r].pc = "land"]
  /\ UNCHANGED <<wave, row, chk, monorepo, tree, c, v, verified, history, faults, runs>>

\* LockTimeoutError is a GitError.
MutexTimeout(r) ==
  /\ w[r].pc = "mutex" /\ mutex # Free /\ PublishFailed(r) /\ Fault(r)
  /\ UNCHANGED <<wave, row, chk, monorepo, mutex, tree, c, v, verified, green, runs>>

\* The three-way merge of what the worktree committed since its base.
Merged(r) ==
  LET base == tree[r].base
      head == tree[r].head
  IN  [tip EXCEPT !.gen = @ \cup (head.gen \ base.gen),
                  !.root = IF head.root = base.root THEN @ ELSE head.root]

\* Merge, then the lockfile, then the mutex is let go.
Land(r) ==
  /\ w[r].pc = "land" /\ ~stuck
  /\ tip' = IF w[r].commit THEN Merged(r) ELSE tip
  /\ w' = [w EXCEPT ![r].pc = "complete", ![r].res = "ok"]
  /\ Release(r)
  /\ UNCHANGED <<wave, row, chk, merges, stuck, tree, c, v, verified, history, faults, runs>>

\* The merge fails, leaving MERGE_HEAD or not, or the lockfile's commit fails after
\* it.  With MERGE_HEAD already there neither can succeed.
LandFails(r) ==
  /\ w[r].pc = "land" /\ PublishFailed(r) /\ Release(r)
  /\ faulted' = faulted \cup {r}
  /\ IF stuck THEN UNCHANGED <<faults, tip, stuck>>
     ELSE /\ faults < MaxFaults /\ faults' = faults + 1
          /\ \/ w[r].commit /\ stuck' \in BOOLEAN /\ UNCHANGED tip
             \/ w[r].lock /\ tip' = (IF w[r].commit THEN Merged(r) ELSE tip) /\ UNCHANGED stuck
  /\ UNCHANGED <<wave, row, chk, merges, tree, c, v, verified, green, runs>>

\* The sink, the checkpoint of a partial result, and complete_phase.  A terminal
\* failure is written as REQUIRES_HUMAN_INTERVENTION.
Complete(r) ==
  /\ w[r].pc = "complete"
  /\ row' = [row EXCEPT ![r] =
               complete_phase(@, CASE w[r].res = "ok" -> SUCCEEDED
                                   [] w[r].res = "fatal" -> RHI
                                   [] OTHER -> PENDING)]
  /\ chk' = [chk EXCEPT ![r] = @ \/ w[r].res = "partial"]
  /\ w' = [w EXCEPT ![r] = IdleWorker]
  /\ UNCHANGED <<wave, monorepo, mutex, tree, c, v, verified, history, faults, runs>>

\* The process dies; the kernel drops its flock.  A `git merge` it was running may
\* leave MERGE_HEAD.
Crash ==
  /\ c.pc # "idle" /\ faults < MaxFaults /\ faults' = faults + 1
  /\ c' = IdleCommand /\ w' = [r \in Repos |-> IdleWorker]
  /\ mutex' = IF mutex = "verify" THEN mutex ELSE Free
  /\ IF \E r \in Repos : w[r].pc = "land" /\ w[r].commit
     THEN stuck' \in {stuck, TRUE} ELSE UNCHANGED stuck
  /\ UNCHANGED <<wave, row, chk, tip, merges, tree, v, verified, history, runs>>

\* Nobody renews the lease of a worker that is gone.
LeaseExpires(r) ==
  /\ w[r].pc = "idle" /\ Status(r) = RUNNING /\ row[r].lease = "live"
  /\ row' = [row EXCEPT ![r].lease = "expired"]
  /\ UNCHANGED <<wave, chk, monorepo, mutex, tree, w, c, v, verified, history, faults, runs>>

-----------------------------------------------------------------------------
(* fleet verify *)

StartVerify(r) ==
  /\ v.pc = "idle" /\ Status(r) = SUCCEEDED /\ verified[r] = "none" /\ Acquire("verify")
  /\ v' = [pc |-> "snapshot", repo |-> r]
  /\ UNCHANGED <<wave, row, chk, monorepo, tree, w, c, verified, history, faults, runs>>

\* _prepare_verify: the snapshot and the worktree cut from it.
PrepareVerify ==
  /\ v.pc = "snapshot" /\ Release("verify") /\ v' = [v EXCEPT !.pc = "run"]
  /\ UNCHANGED <<wave, row, chk, monorepo, tree, w, c, verified, history, faults, runs>>

VerifyOutcomes ==
  LET Reports == {verify(o, d) : o \in {x \in VerifyInputs : x.base.count = 0},
                                 d \in {x \in RdepverifyInput : x.stop = "no" \/ x.test = "ok"}}
  IN  {IF p.status = "ok" THEN p.verdict ELSE "failed" : p \in Reports}

RunVerify ==
  /\ v.pc = "run"
  /\ \E o \in VerifyOutcomes : verified' = [verified EXCEPT ![v.repo] = o]
  /\ v' = [pc |-> "idle", repo |-> Free]
  /\ UNCHANGED <<wave, row, chk, monorepo, mutex, tree, w, c, history, faults, runs>>

-----------------------------------------------------------------------------

Next ==
  \/ StartBuild \/ Ingested \/ SnapshotBegin \/ SnapshotEnd \/ Planned \/ EnterWave \/ WaveOver
  \/ Crash \/ PrepareVerify \/ RunVerify \/ ContractsDone
  \/ \E k \in Contracts : IngestContract(k) \/ ContractFails(k)
  \/ \E r \in Repos :
       \/ Ingest(r) \/ IngestFails(r) \/ Plan(r) \/ PlanFails(r) \/ RootsFail(r)
       \/ GazelleFails(r) \/ ReplanFails(r)
       \/ Start(r) \/ Build(r) \/ BuildInterrupted(r) \/ Stage(r) \/ StageFails(r)
       \/ TakeMutex(r) \/ MutexTimeout(r) \/ Land(r) \/ LandFails(r) \/ Complete(r)
       \/ LeaseExpires(r) \/ StartVerify(r)

Spec == Init /\ [][Next]_vars

-----------------------------------------------------------------------------
(* Properties *)

\* Of the build command's snapshots, the verify command's and the workers' merges,
\* one at a time touches the integration branch (IntegrationMutex).
Writers ==
  {r \in Repos : w[r].pc = "land"}
  \cup {a \in {"build"} : c.pc \in {"snapshot", "resnapshot"} /\ mutex = "build"}
  \cup {a \in {"verify"} : v.pc = "snapshot"}
OneWriter == \A a, b \in Writers : a = b

\* However often a build is cut off and run again, the history of a repo is merged
\* once (the trailers make ingest idempotent).
OneMergePerSource == \A x \in Source : merges[x] <= 1

\* The files of a hoisted contract are never lost between their owner and their new
\* place: once the owner is merged they came with it, or the contract is merged.
ContractKept ==
  \A k \in Contracts : Owner[k] \in tip.src => k \in tip.src \cup tip.kept

\* A repo whose BUILD row says SUCCEEDED is on the integration branch, with its
\* package and its entry in the root module file, whatever crashed on the way.
\* Repos one of whose git steps failed are not covered: see PublishedIsMerged.
PublishedUnlessFaulted ==
  \A r \in Repos : Status(r) = SUCCEEDED /\ r \notin faulted
                     => r \in tip.src \cap tip.gen \cap tip.root

\* A repo is built on a tree that holds what every earlier wave published.
WaveSeesPublished ==
  \A r, q \in Repos :
    w[r].pc = "build" /\ wave[q] < wave[r] /\ Status(q) = SUCCEEDED /\ q \notin faulted
      => q \in tree[r].base.gen

\* _check_root_file_domain never trips: a worktree that is dispatched holds the
\* sources of every unit the root files describe.
DomainIsMerged == \A r \in Repos : w[r].pc \in {"build", "stage"} => RootFileDomainHolds(r)

\* Phase 3 succeeds only over a build that was green: it compiled, its tests passed
\* or there never were any, and none of the baseline's tests went missing.
OnlyGreenSucceeds == \A r \in Repos : Status(r) = SUCCEEDED => green[r]

\* Claimed of PUBLISH ("idempotent by git"): SUCCEEDED means published, also when a
\* git step failed once and PUBLISH was retried.
PublishedIsMerged == \A r \in Repos : Status(r) = SUCCEEDED => r \in tip.gen

\* Claimed of phase 4 ("exit 4 is success"): a repo that verified has a PASS report.
VerifiedMeansPass == \A r \in Repos : verified[r] # "FAIL"

=============================================================================
