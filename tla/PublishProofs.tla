--------------------------- MODULE PublishProofs ---------------------------
(***************************************************************************)
(* Theorems about Publish, for any repos, hoisted contracts, waves of the  *)
(* repos and number of crashes and failed git commands.                    *)
(***************************************************************************)
EXTENDS Publish, TLAPS

-----------------------------------------------------------------------------
(* The transactions on a row of `phases` *)

\* Every transaction on a row leaves a row.
LEMMA RowOperatorsType ==
  ASSUME NEW l \in PhaseRow
  PROVE  /\ acquire_phase_lease(l) \in PhaseRow
         /\ ReclaimLease(l) \in PhaseRow
         /\ \A to \in {SUCCEEDED, PENDING, RHI} : complete_phase(l, to) \in PhaseRow
         /\ abandon_repo(l) \in PhaseRow
         /\ [l EXCEPT !.lease = "expired"] \in PhaseRow
<1> USE DEF PhaseRow, RepoStatus, LeaseState, PENDING, RUNNING, SUCCEEDED,
            BLOCKED, DEGRADED, RHI, SKIPPED
<1>1. l.fence + 1 \in Nat /\ l.attempts + 1 \in Nat
  OBVIOUS
<1>2. \A to \in {SUCCEEDED, PENDING, RHI} : complete_phase(l, to) \in PhaseRow
  <2>1. \A to \in {SUCCEEDED, PENDING, RHI} : CompletionTarget(l, to) \in {SUCCEEDED, PENDING, RHI}
    BY DEF CompletionTarget
  <2> QED  BY <1>1, <2>1 DEF complete_phase
<1> QED  BY <1>1, <1>2 DEF acquire_phase_lease, ReclaimLease, abandon_repo

-----------------------------------------------------------------------------
(* The steps of BuildSteps *)

\* The verification answers "ok" only when the processes it read were green.
LEMMA BuildverifyGreen ==
  ASSUME NEW x, x.count \in Nat, x.base.count \in Nat, buildverify(x).status = "ok"
  PROVE  Green(x)
<1>1. x.build = "ok" /\ (~x.run_tests \/ _test(x).status = "ok")
  <2>1. ~x.full /\ _c_toolchain_gate(x) = NoFailure
    BY DEF buildverify, _output
  <2>2. x.stop = "no"
    BY <2>1 DEF buildverify, _output, _interrupted
  <2>3. x.build = "ok"
    BY <2>1, <2>2 DEF buildverify, _output, _failed
  <2> QED  BY <2>1, <2>2, <2>3 DEF buildverify, _output
<1>2. CASE ~x.run_tests
  BY <1>1, <1>2 DEF Green
<1>3. CASE x.run_tests
  <2> DEFINE nothing_to_test == no_test_targets(x.test, "test") /\ ~tests_lost(x)
  <2>1. x.late = "no"
    BY <1>1, <1>3 DEF _test, _interrupted, _output
  <2>2. x.test = "ok" \/ nothing_to_test
    BY <1>1, <1>3, <2>1 DEF _test, _failed, _output
  <2>3. x.base.ok => _count_tests(x).status = "ok"
    BY <1>1, <1>3, <2>1, <2>2 DEF _test
  <2>4. x.base.ok => ~test_count_regressed(x)
    BY <2>3 DEF _count_tests, _output
  <2>5. nothing_to_test => x.test = "no_tests" /\ x.base.count = 0
    BY DEF no_test_targets, tests_lost
  <2> QED
    BY <1>1, <2>2, <2>4, <2>5 DEF Green, test_count_regressed
<1> QED  BY <1>2, <1>3

LEMMA VerifyInputsCount ==
  ASSUME NEW x \in VerifyInputs
  PROVE  x.count \in Nat /\ x.base.count \in Nat
<1>1. \A b \in Baselines : b.count \in Nat
  BY DEF Baselines, baseline, _measure, _classify
<1>2. GoodVer.count = 0 /\ GoodVer.base.count = 0
  BY DEF GoodVer
<1>3. ASSUME NEW f, NEW i, NEW p, NEW s, x = GateInput(f, i, p, s)
      PROVE  x.count = 0 /\ x.base.count = 0
  BY <1>2, <1>3 DEF GateInput, GoodVer
<1>4. ASSUME NEW p, NEW s, x = BuildInput(p, s)
      PROVE  x.count = 0 /\ x.base.count = 0
  BY <1>2, <1>4 DEF BuildInput, GoodVer
<1>5. ASSUME NEW t, NEW p, NEW b, NEW q, NEW n, x = TestInput(t, p, b, q, n)
      PROVE  x.count = n /\ x.base = b
  BY <1>5 DEF TestInput, GoodVer
<1> QED  BY <1>1, <1>3, <1>4, <1>5 DEF VerifyInputs

\* A step that is handed off is never "ok".
LEMMA HandoffFails == ASSUME NEW s PROVE _handoff(s).status # "ok"
BY DEF _handoff

LEMMA VerdictOk == ASSUME NEW res PROVE Verdict(res) = "ok" <=> res.status = "ok"
BY DEF Verdict

\* Whatever GENERATE and VERIFY answer, "ok" is green.
LEMMA OutcomeGreen ==
  ASSUME NEW o \in Outcomes
  PROVE  /\ o.green \in BOOLEAN
         /\ o.verdict = "ok" => o.green
<1>1. CASE \E d \in Generated \ {"ok"} : o = [verdict |-> d, green |-> FALSE]
  BY <1>1
<1>2. CASE \E x \in VerifyInputs, h \in BOOLEAN :
             o = [verdict |-> Verdict(generate_and_verify(GoodGen, x, h)), green |-> Green(x)]
  <2>1. PICK x \in VerifyInputs, h \in BOOLEAN :
               o = [verdict |-> Verdict(generate_and_verify(GoodGen, x, h)), green |-> Green(x)]
    BY <1>2
  <2>2. Green(x) \in BOOLEAN
    BY DEF Green
  <2>3. ASSUME o.verdict = "ok" PROVE Green(x)
    <3>1. generate_and_verify(GoodGen, x, h).status = "ok"
      BY <2>1, <2>3, VerdictOk
    <3>2. buildverify(x).status = "ok"
      BY <3>1, HandoffFails DEF generate_and_verify
    <3> QED  BY <3>2, BuildverifyGreen, VerifyInputsCount
  <2> QED  BY <2>1, <2>2, <2>3
<1> QED  BY <1>1, <1>2 DEF Outcomes

\* What VERIFY writes.
LEMMA VerifyOutcomesType == VerifyOutcomes \subseteq {"failed", "PASS", "FAIL"}
<1>1. ASSUME NEW own, NEW x PROVE rdepverify(own, x).verdict \in {"PASS", "FAIL"}
  BY DEF rdepverify, _report
<1>2. ASSUME NEW o, NEW d, verify(o, d).status = "ok"
      PROVE  verify(o, d).verdict \in {"PASS", "FAIL"}
  BY <1>1, <1>2, HandoffFails DEF verify
<1> QED  BY <1>2 DEF VerifyOutcomes


-----------------------------------------------------------------------------
(* Types *)

LEMMA IdleTypes == /\ Empty \in Tree /\ IdleCommand \in Command /\ IdleWorker \in Worker
                   /\ FreshRow \in PhaseRow
BY DEF Empty, Tree, IdleCommand, Command, IdleWorker, Worker, FreshRow, PhaseRow, RepoStatus,
       LeaseState, PENDING

\* What Build and BuildInterrupted come to.
Built(r, verdict, found, lock) ==
  /\ verdict = "ok" => found
  /\ green' = [green EXCEPT ![r] = found]
  /\ tree' = [tree EXCEPT ![r].files = TRUE]
  /\ w' = [w EXCEPT ![r].pc = IF verdict = "ok" THEN "stage" ELSE "complete",
                    ![r].res = IF verdict = "ok" THEN "none" ELSE verdict,
                    ![r].module = verdict = "ok", ![r].lock = lock /\ verdict = "ok"]
  /\ UNCHANGED <<wave, row, chk, tip, merges, stuck, mutex, c, v, verified, faulted, faults, runs>>

LEMMA BuildEffect ==
  ASSUME NEW r \in Repos, Build(r)
  PROVE  /\ w[r].pc = "build"
         /\ \E verdict \in {"ok", "retry", "fatal"}, found \in BOOLEAN, lock \in BOOLEAN :
              Built(r, verdict, found, lock)
<1>1. PICK o \in Outcomes, lock \in BOOLEAN :
        /\ o.verdict \in {"ok", "retry", "fatal"}
        /\ green' = [green EXCEPT ![r] = o.green]
        /\ tree' = [tree EXCEPT ![r].files = TRUE]
        /\ w' = [w EXCEPT ![r].pc = IF o.verdict = "ok" THEN "stage" ELSE "complete",
                          ![r].res = IF o.verdict = "ok" THEN "none" ELSE o.verdict,
                          ![r].module = o.verdict = "ok", ![r].lock = lock /\ o.verdict = "ok"]
  BY DEF Build
<1>2. UNCHANGED <<wave, row, chk, tip, merges, stuck, mutex, c, v, verified, faulted, faults, runs>>
  BY DEF Build, monorepo
<1>3. Built(r, o.verdict, o.green, lock)
  BY <1>1, <1>2, OutcomeGreen DEF Built
<1> QED  BY <1>1, <1>3, OutcomeGreen DEF Build

LEMMA InterruptEffect ==
  ASSUME TypeOK, NEW r \in Repos, BuildInterrupted(r)
  PROVE  /\ faults' = faults + 1 /\ faults < MaxFaults /\ w[r].pc = "build"
         /\ \/ UNCHANGED <<w, c, mutex>>
            \/ /\ w' = [q \in Repos |-> IdleWorker] /\ c' = IdleCommand
               /\ mutex' = IF mutex \in Repos THEN Free ELSE mutex
         /\ UNCHANGED <<wave, row, chk, tip, merges, stuck, tree, v, verified, green, faulted, runs>>
<1>1. w' = [q \in Repos |-> IdleWorker] => w' # w
  BY DEF BuildInterrupted, IdleWorker
<1> QED  BY <1>1 DEF BuildInterrupted, monorepo, history

LEMMA WaveEffect ==
  ASSUME EnterWave
  PROVE  /\ c.pc = "wave"
         /\ \/ c' = IdleCommand
            \/ c' = [c EXCEPT !.wave = @ + 1]
            \/ ~c.published /\ c' = [c EXCEPT !.pc = "run"]
            \/ c.published /\ c' = [c EXCEPT !.pc = "resnapshot"]
<1> DEFINE over == \A r \in Members : Settled(r)
           open == (\E r \in Members : ~Settled(r)) /\ ~EarlierSettled
<1>1. c' = CASE c.wave > 2 -> IdleCommand
             [] c.wave \in Waves /\ over -> [c EXCEPT !.wave = @ + 1]
             [] c.wave \in Waves /\ open -> IdleCommand
             [] OTHER -> [c EXCEPT !.pc = IF c.published THEN "resnapshot" ELSE "run"]
  BY DEF EnterWave, Stale
<1> HIDE DEF over, open
<1> QED  BY <1>1 DEF EnterWave

LEMMA InitType == Init => TypeOK
<1> SUFFICES ASSUME Init PROVE TypeOK
  OBVIOUS
<1>1. [base |-> Empty, head |-> Empty, files |-> FALSE] \in Worktree
  BY IdleTypes DEF Worktree
<1>2. merges \in [Source -> Nat] /\ tree \in [Repos -> Worktree]
  BY <1>1 DEF Init
<1>3. 0 \in 0..MaxFaults /\ 0 \in 0..MaxRuns
  BY PublishAssumption
<1> QED
  BY <1>2, <1>3, IdleTypes DEF Init, TypeOK

\* fleet build outside the workers.
BuildCommandStep ==
  \/ StartBuild \/ Ingested \/ SnapshotBegin \/ SnapshotEnd \/ Planned \/ EnterWave \/ WaveOver
  \/ Crash \/ ContractsDone
  \/ \E k \in Contracts : IngestContract(k) \/ ContractFails(k)
  \/ \E r \in Repos : \/ Ingest(r) \/ IngestFails(r) \/ Plan(r) \/ PlanFails(r) \/ RootsFail(r)
                      \/ GazelleFails(r) \/ ReplanFails(r)

WorkerStep(r) ==
  \/ Start(r) \/ Build(r) \/ BuildInterrupted(r) \/ Stage(r) \/ StageFails(r)
  \/ TakeMutex(r) \/ MutexTimeout(r) \/ Land(r) \/ LandFails(r) \/ Complete(r)

LEMMA StepKinds ==
  Next <=> \/ BuildCommandStep
           \/ \E r \in Repos : WorkerStep(r) \/ LeaseExpires(r) \/ StartVerify(r)
           \/ PrepareVerify \/ RunVerify
BY Zenon DEF Next, BuildCommandStep, WorkerStep

LEMMA OneMore ==
  ASSUME TypeOK
  PROVE  /\ faults < MaxFaults => faults + 1 \in 0..MaxFaults
         /\ runs < MaxRuns => runs + 1 \in 0..MaxRuns
BY PublishAssumption DEF TypeOK

LEMMA IngestType ==
  ASSUME TypeOK, NEW x \in Source, NEW kept \in SUBSET Contracts, ingest(x, kept)
  PROVE  tip' \in Tree /\ merges' \in [Source -> Nat] /\ stuck' \in BOOLEAN
<1>1. CASE already_ingested(x)
  BY <1>1 DEF ingest, TypeOK, monorepo
<1>2. CASE ~already_ingested(x)
  <2>1. merge_source(x, kept)
    BY <1>2 DEF ingest
  <2>2. tip' \in Tree
    BY <2>1 DEF merge_source, TypeOK, Tree
  <2>3. merges[x] + 1 \in Nat
    BY DEF TypeOK
  <2>4. merges' \in [Source -> Nat]
    BY <2>1, <2>3 DEF merge_source, TypeOK
  <2> QED  BY <2>1, <2>2, <2>4 DEF merge_source
<1> QED  BY <1>1, <1>2

LEMMA ExcludeType ==
  ASSUME TypeOK, NEW r \in Repos, Exclude(r)
  PROVE  TypeOK'
<1>1. c' \in Command
  BY DEF Exclude, Excluded, TypeOK, Command
<1>2. row' \in [Repos -> PhaseRow]
  BY RowOperatorsType DEF Exclude, TypeOK
<1> QED
  BY <1>1, <1>2, OneMore DEF Exclude, Fault, TypeOK, monorepo

LEMMA CommandStepType == TypeOK /\ BuildCommandStep => TypeOK'
<1> SUFFICES ASSUME TypeOK, BuildCommandStep PROVE TypeOK'
  OBVIOUS
<1> USE DEF monorepo, history
<1>0. c \in Command /\ tip \in Tree /\ IdleCommand \in Command /\ IdleWorker \in Worker /\ c.wave \in Nat
  BY IdleTypes DEF TypeOK, Command
<1>1. CASE StartBuild
  <2>1. c' \in Command
    BY <1>0, <1>1 DEF StartBuild, Command, Source
  <2>2. row' \in [Repos -> PhaseRow]
    BY <1>1, RowOperatorsType DEF StartBuild, TypeOK
  <2> QED  BY <1>1, <2>1, <2>2, OneMore DEF StartBuild, TypeOK
<1>2. CASE Ingested
  <2>1. c' \in Command
    BY <1>0, <1>2 DEF Ingested, Command
  <2> QED  BY <1>2, <2>1 DEF Ingested, TypeOK
<1>3. CASE SnapshotBegin
  BY <1>3 DEF SnapshotBegin, Acquire, TypeOK
<1>4. CASE SnapshotEnd
  <2>1. c.domain \subseteq Source /\ Members \cap c.domain \subseteq Source
    BY <1>0 DEF Command, Source
  <2>2. c' \in Command
    BY <1>0, <1>4, <2>1 DEF SnapshotEnd, Command
  <2> QED  BY <1>4, <2>2 DEF SnapshotEnd, Release, TypeOK
<1>5. CASE Planned
  <2>1. c' \in Command
    <3>1. ASSUME NEW at \in {"roots", "gazelle", "run"} PROVE [c EXCEPT !.pc = at] \in Command
      BY <1>0 DEF Command
    <3>2. [c EXCEPT !.pc = "wave", !.wave = 1] \in Command
      BY <1>0 DEF Command
    <3> QED  BY <1>5, <3>1, <3>2 DEF Planned
  <2> QED  BY <1>5, <2>1 DEF Planned, TypeOK
<1>6. CASE EnterWave
  <2>1. c.wave + 1 \in Nat
    BY <1>0
  <2>2. c' \in Command
    BY <1>0, <1>6, <2>1, WaveEffect DEF Command
  <2> QED  BY <1>6, <2>2 DEF EnterWave, TypeOK
<1>7. CASE WaveOver
  <2>0. c.wave + 1 \in Nat
    BY <1>0
  <2>1. c' \in Command
    BY <1>0, <1>7, <2>0 DEF WaveOver, Command
  <2> QED  BY <1>7, <2>1 DEF WaveOver, TypeOK
<1>8. CASE Crash
  <2>1. stuck' \in BOOLEAN
    BY <1>8 DEF Crash, TypeOK
  <2> QED  BY <1>0, <1>8, <2>1, OneMore DEF Crash, TypeOK
<1>9. CASE ContractsDone
  <2>1. c' \in Command
    BY <1>0, <1>9 DEF ContractsDone, Command, Source
  <2> QED  BY <1>9, <2>1 DEF ContractsDone, TypeOK
<1>10. ASSUME NEW k \in Contracts, IngestContract(k) PROVE TypeOK'
  <2>1. c' \in Command
    BY <1>0, <1>10 DEF IngestContract, Command
  <2>2. tip' \in Tree /\ merges' \in [Source -> Nat] /\ stuck' \in BOOLEAN
    BY <1>10, IngestType DEF IngestContract, Source
  <2> QED  BY <1>10, <2>1, <2>2 DEF IngestContract, TypeOK
<1>11. ASSUME NEW k \in Contracts, ContractFails(k) PROVE TypeOK'
  <2>1. c' \in Command
    BY <1>0, <1>11 DEF ContractFails, Command
  <2> QED  BY <1>11, <2>1, OneMore DEF ContractFails, TypeOK
<1>12. ASSUME NEW r \in Repos, Ingest(r) PROVE TypeOK'
  <2>1. c' \in Command
    BY <1>0, <1>12 DEF Ingest, Command
  <2>2. tip' \in Tree /\ merges' \in [Source -> Nat] /\ stuck' \in BOOLEAN
    BY <1>12, IngestType DEF Ingest, Source, Kept
  <2> QED  BY <1>12, <2>1, <2>2 DEF Ingest, TypeOK
<1>13. ASSUME NEW r \in Repos, IngestFails(r) \/ PlanFails(r) \/ RootsFail(r) \/ GazelleFails(r)
       PROVE  TypeOK'
  BY <1>13, ExcludeType DEF IngestFails, PlanFails, RootsFail, GazelleFails
<1>14. ASSUME NEW r \in Repos, Plan(r) PROVE TypeOK'
  <2>1. c' \in Command
    BY <1>0, <1>14 DEF Plan, Command
  <2>2. [base |-> c.snap, head |-> c.snap, files |-> FALSE] \in Worktree
    BY <1>0 DEF Command, Worktree
  <2> QED  BY <1>14, <2>1, <2>2 DEF Plan, TypeOK
<1>15. ASSUME NEW r \in Repos, ReplanFails(r) PROVE TypeOK'
  <2>1. c' \in Command
    BY <1>0, <1>15 DEF ReplanFails, Command
  <2>2. row' \in [Repos -> PhaseRow]
    BY <1>15, RowOperatorsType DEF ReplanFails, TypeOK
  <2> QED  BY <1>15, <2>1, <2>2, OneMore DEF ReplanFails, Fault, TypeOK
<1> QED
  BY <1>1, <1>2, <1>3, <1>4, <1>5, <1>6, <1>7, <1>8, <1>9, <1>10, <1>11, <1>12, <1>13, <1>14,
     <1>15
  DEF BuildCommandStep

LEMMA TreesType ==
  ASSUME TypeOK, NEW r \in Repos
  PROVE  /\ w[r] \in Worker /\ tree[r] \in Worktree /\ tree[r].head \in Tree /\ tree[r].base \in Tree
         /\ Staged(r) \in Tree /\ Merged(r) \in Tree
<1>1. w[r] \in Worker /\ tree[r] \in Worktree /\ c.domain \subseteq Repos
  BY DEF TypeOK, Command
<1>2. tree[r].head \in Tree /\ tree[r].base \in Tree
  BY <1>1 DEF Worktree
<1>3. Staged(r) \in Tree
  BY <1>1, <1>2 DEF Staged, RootDomain, Tree
<1>4. Merged(r) \in Tree
  BY <1>2 DEF Merged, Tree, TypeOK
<1> QED  BY <1>1, <1>2, <1>3, <1>4

\* A step that leaves r's worker in a worker's state.
LEMMA WorkersType ==
  ASSUME TypeOK, NEW r \in Repos, NEW l \in Worker, w' = [w EXCEPT ![r] = l]
  PROVE  w' \in [Repos -> Worker]
BY DEF TypeOK

LEMMA PublishFailedType ==
  ASSUME TypeOK, NEW r \in Repos, PublishFailed(r)
  PROVE  w' \in [Repos -> Worker]
<1>1. [w[r] EXCEPT !.pc = "complete", !.res = "partial"] \in Worker
  BY TreesType DEF Worker
<1> QED  BY <1>1 DEF PublishFailed, TypeOK

LEMMA WorkerStepType ==
  ASSUME TypeOK, NEW r \in Repos, WorkerStep(r)
  PROVE  TypeOK'
<1> USE DEF monorepo, history
<1>0. w[r] \in Worker /\ IdleWorker \in Worker /\ IdleCommand \in Command
  BY IdleTypes, TreesType
<1>1. CASE Start(r)
  <2>1. [IdleWorker EXCEPT !.pc = IF chk[r] THEN "stage" ELSE "build"] \in Worker
    BY <1>0 DEF Worker
  <2>2. w' \in [Repos -> Worker]
    BY <1>1, <2>1 DEF Start, TypeOK
  <2>3. row' \in [Repos -> PhaseRow]
    BY <1>1, RowOperatorsType DEF Start, TypeOK
  <2> QED  BY <1>1, <2>2, <2>3 DEF Start, TypeOK
<1>2. CASE Build(r)
  <2>1. PICK verdict \in {"ok", "retry", "fatal"}, found \in BOOLEAN, lock \in BOOLEAN :
               Built(r, verdict, found, lock)
    BY <1>2, BuildEffect
  <2>2. [tree[r] EXCEPT !.files = TRUE] \in Worktree
    BY TreesType DEF Worktree
  <2>3. tree' \in [Repos -> Worktree]
    BY <2>1, <2>2 DEF Built, TypeOK
  <2> DEFINE ok == verdict = "ok"
             l == [w[r] EXCEPT !.pc = IF ok THEN "stage" ELSE "complete",
                               !.res = IF ok THEN "none" ELSE verdict,
                               !.module = ok, !.lock = lock /\ ok]
  <2>4. l \in Worker
    <3>1. ok \in BOOLEAN /\ (lock /\ ok) \in BOOLEAN
      OBVIOUS
    <3> DEFINE kept == lock /\ ok
    <3> HIDE DEF ok, kept
    <3>2. [w[r] EXCEPT !.pc = IF ok THEN "stage" ELSE "complete",
                       !.res = IF ok THEN "none" ELSE verdict, !.module = ok, !.lock = kept]
            \in Worker
      BY <1>0, <3>1 DEF Worker, kept
    <3> QED  BY <3>2 DEF kept
  <2>5. w' = [w EXCEPT ![r] = l]
    BY <2>1 DEF Built, TypeOK
  <2>6. w' \in [Repos -> Worker]
    BY <2>4, <2>5, WorkersType
  <2> QED  BY <2>1, <2>3, <2>6 DEF Built, TypeOK
<1>3. CASE BuildInterrupted(r)
  <2>1. w' \in [Repos -> Worker] /\ c' \in Command /\ mutex' \in Repos \cup {Free, "build", "verify"}
    BY <1>0, <1>3, InterruptEffect DEF TypeOK
  <2> QED  BY <1>3, <2>1, InterruptEffect, OneMore DEF TypeOK
<1>4. CASE Stage(r)
  <2> DEFINE published == Staged(r) # tree[r].head
             l == [w[r] EXCEPT !.commit = published,
                               !.pc = IF published \/ w[r].lock THEN "mutex" ELSE "complete",
                               !.res = IF published \/ w[r].lock THEN "none" ELSE "ok"]
  <2>1. l \in Worker
    <3> HIDE DEF published
    <3>1. published \in BOOLEAN
      BY DEF published
    <3> QED  BY <1>0, <3>1 DEF Worker
  <2>2. w' = [w EXCEPT ![r] = l]
    BY <1>4 DEF Stage, TypeOK
  <2>3. [tree[r] EXCEPT !.head = Staged(r)] \in Worktree
    BY TreesType DEF Worktree
  <2>4. tree' \in [Repos -> Worktree]
    BY <1>4, <2>3 DEF Stage, TypeOK
  <2>5. w' \in [Repos -> Worker]
    BY <2>1, <2>2, WorkersType
  <2> QED  BY <1>4, <2>4, <2>5 DEF Stage, TypeOK
<1>5. CASE StageFails(r)
  <2>1. w' \in [Repos -> Worker]
    BY <1>5, PublishFailedType DEF StageFails
  <2>2. faulted' \subseteq Repos /\ faults' \in 0..MaxFaults
    BY <1>5, OneMore DEF StageFails, Fault, TypeOK
  <2> QED  BY <1>5, <2>1, <2>2 DEF StageFails, TypeOK
<1>6. CASE TakeMutex(r)
  <2>1. [w[r] EXCEPT !.pc = "land"] \in Worker
    BY <1>0 DEF Worker
  <2> QED  BY <1>6, <2>1 DEF TakeMutex, Acquire, TypeOK
<1>7. CASE MutexTimeout(r)
  <2>1. w' \in [Repos -> Worker]
    BY <1>7, PublishFailedType DEF MutexTimeout
  <2> QED  BY <1>7, <2>1, OneMore DEF MutexTimeout, Fault, TypeOK
<1>8. CASE Land(r)
  <2>1. [w[r] EXCEPT !.pc = "complete", !.res = "ok"] \in Worker
    BY <1>0 DEF Worker
  <2>2. tip' \in Tree
    BY <1>8, TreesType DEF Land, TypeOK
  <2> QED  BY <1>8, <2>1, <2>2 DEF Land, Release, TypeOK
<1>9. CASE LandFails(r)
  <2>1. w' \in [Repos -> Worker]
    BY <1>9, PublishFailedType DEF LandFails
  <2>2. tip' \in Tree /\ stuck' \in BOOLEAN /\ faults' \in 0..MaxFaults
    BY <1>9, TreesType, OneMore DEF LandFails, TypeOK
  <2> QED  BY <1>9, <2>1, <2>2 DEF LandFails, Release, TypeOK
<1>10. CASE Complete(r)
  <2>1. row' \in [Repos -> PhaseRow]
    BY <1>10, RowOperatorsType DEF Complete, TypeOK
  <2>2. w' \in [Repos -> Worker]
    BY <1>0, <1>10 DEF Complete, TypeOK
  <2>3. chk' \in [Repos -> BOOLEAN]
    BY <1>10 DEF Complete, TypeOK
  <2> QED  BY <1>10, <2>1, <2>2, <2>3 DEF Complete, TypeOK
<1> QED
  BY <1>1, <1>2, <1>3, <1>4, <1>5, <1>6, <1>7, <1>8, <1>9, <1>10 DEF WorkerStep

LEMMA NextType == TypeOK /\ [Next]_vars => TypeOK'
<1> SUFFICES ASSUME TypeOK, [Next]_vars PROVE TypeOK'
  OBVIOUS
<1>1. CASE BuildCommandStep
  BY <1>1, CommandStepType
<1>2. ASSUME NEW r \in Repos, WorkerStep(r) PROVE TypeOK'
  BY <1>2, WorkerStepType
<1>3. ASSUME NEW r \in Repos, LeaseExpires(r) PROVE TypeOK'
  <2>1. row' \in [Repos -> PhaseRow]
    BY <1>3, RowOperatorsType DEF LeaseExpires, TypeOK
  <2> QED  BY <1>3, <2>1 DEF LeaseExpires, TypeOK, monorepo, history
<1>4. ASSUME NEW r \in Repos, StartVerify(r) PROVE TypeOK'
  BY <1>4 DEF StartVerify, Acquire, TypeOK, monorepo, history
<1>5. CASE PrepareVerify
  BY <1>5 DEF PrepareVerify, Release, TypeOK, monorepo, history
<1>6. CASE RunVerify
  BY <1>6, VerifyOutcomesType DEF RunVerify, TypeOK, monorepo, history
<1>7. CASE UNCHANGED vars
  BY <1>7 DEF vars, TypeOK, monorepo, history
<1> QED
  BY <1>1, <1>2, <1>3, <1>4, <1>5, <1>6, <1>7, StepKinds

\* Every variable keeps to its type: what a worker, a command or a tree may hold.
THEOREM TypeInvariant == Spec => []TypeOK
<1> QED  BY InitType, NextType, PTL DEF Spec

-----------------------------------------------------------------------------
(* The inductive invariant. *)

\* The command has cut a worktree for every repo of its domain.
Dispatching == c.pc \in {"roots", "gazelle", "wave", "resnapshot", "replan", "run"}

\* It has cut r's.
IsCut(r) == Dispatching \/ (c.pc = "plan" /\ r \notin c.todo)

MutexHeld ==
  /\ \A r \in Repos : mutex = r <=> w[r].pc = "land"
  /\ mutex = "verify" <=> v.pc = "snapshot"
  /\ mutex = "build" => c.pc \in {"snapshot", "resnapshot"}

\* A worker that runs is of the open wave and of the domain, and holds its row.
WorkersOfWave ==
  \A r \in Repos : w[r].pc # "idle" =>
    c.pc = "run" /\ r \in c.domain /\ wave[r] = c.wave /\ Status(r) = RUNNING

LEMMA RowEffect ==
  ASSUME NEW l \in PhaseRow
  PROVE  /\ acquire_phase_lease(l).status = RUNNING
         /\ ReclaimLease(l).status = PENDING
         /\ [l EXCEPT !.lease = "expired"].status = l.status
         /\ abandon_repo(l).status # PENDING /\ (l.status # PENDING => abandon_repo(l) = l)
         /\ (l.status = PENDING => abandon_repo(l).status = RHI)
         /\ \A to : complete_phase(l, to).status = IF to = PENDING /\ l.attempts + 1 >= MaxAttempts
                                                  THEN RHI ELSE to
BY DEF PhaseRow, acquire_phase_lease, ReclaimLease, abandon_repo, complete_phase, CompletionTarget,
    PENDING, RHI

LEMMA StatusNames ==
  /\ PENDING # RUNNING /\ PENDING # SUCCEEDED /\ PENDING # RHI
  /\ RUNNING # SUCCEEDED /\ RUNNING # RHI /\ SUCCEEDED # RHI
BY DEF PENDING, RUNNING, SUCCEEDED, RHI

LEMMA IdleFields ==
  /\ IdleWorker.pc = "idle" /\ IdleCommand.pc = "idle" /\ IdleCommand.hoisted = {}
  /\ IdleCommand.domain = {} /\ IdleCommand.snap = Empty
BY DEF IdleWorker, IdleCommand

LEMMA NextWorkers ==
  ASSUME TypeOK, WorkersOfWave, [Next]_vars
  PROVE  WorkersOfWave'
<1> USE IdleFields, RowEffect, StatusNames DEF monorepo, history
<1>0. row \in [Repos -> PhaseRow] /\ w \in [Repos -> Worker] /\ c \in Command
  BY DEF TypeOK
<1>1. ASSUME UNCHANGED <<w, row, wave>>, UNCHANGED c \/ c.pc # "run" PROVE WorkersOfWave'
  BY <1>1 DEF WorkersOfWave, Status
<1>2. CASE BuildCommandStep
  <2>1. CASE StartBuild
    BY <1>0, <2>1 DEF StartBuild, WorkersOfWave, Status
  <2>2. CASE Ingested \/ SnapshotBegin \/ SnapshotEnd \/ Planned \/ EnterWave \/ ContractsDone
    BY <2>2, <1>1 DEF Ingested, SnapshotBegin, SnapshotEnd, Planned, EnterWave, ContractsDone
  <2>3. CASE WaveOver
    BY <2>3 DEF WaveOver, Active, WorkersOfWave
  <2>4. CASE Crash
    BY <2>4 DEF Crash, WorkersOfWave
  <2>5. ASSUME NEW k \in Contracts, IngestContract(k) \/ ContractFails(k) PROVE WorkersOfWave'
    BY <2>5, <1>1 DEF IngestContract, ContractFails
  <2>6. ASSUME NEW r \in Repos, Ingest(r) \/ Plan(r) PROVE WorkersOfWave'
    BY <2>6, <1>1 DEF Ingest, Plan
  <2>7. ASSUME NEW r \in Repos,
               IngestFails(r) \/ PlanFails(r) \/ RootsFail(r) \/ GazelleFails(r) \/ ReplanFails(r)
        PROVE  WorkersOfWave'
    BY <1>0, <2>7
    DEF IngestFails, PlanFails, RootsFail, GazelleFails, ReplanFails, Exclude, WorkersOfWave, Status
  <2> QED
    BY <1>2, <2>1, <2>2, <2>3, <2>4, <2>5, <2>6, <2>7 DEF BuildCommandStep
<1>3. ASSUME NEW r \in Repos, WorkerStep(r) PROVE WorkersOfWave'
  <2>1. CASE Start(r)
    BY <1>0, <2>1 DEF Start, Dispatchable, Members, WorkersOfWave, Status
  <2>2. CASE Build(r)
    <3>1. PICK verdict \in {"ok", "retry", "fatal"}, found \in BOOLEAN, lock \in BOOLEAN :
                 Built(r, verdict, found, lock)
      BY <2>2, BuildEffect
    <3> QED  BY <1>0, <2>2, <3>1, BuildEffect DEF Built, WorkersOfWave, Status
  <2>3. CASE BuildInterrupted(r)
    BY <2>3, InterruptEffect DEF WorkersOfWave, Status
  <2>4. CASE Stage(r) \/ StageFails(r) \/ TakeMutex(r) \/ MutexTimeout(r) \/ Land(r) \/ LandFails(r)
    BY <1>0, <2>4
    DEF Stage, StageFails, TakeMutex, MutexTimeout, Land, LandFails, PublishFailed, WorkersOfWave, Status
  <2>5. CASE Complete(r)
    BY <1>0, <2>5 DEF Complete, WorkersOfWave, Status
  <2> QED
    BY <1>3, <2>1, <2>2, <2>3, <2>4, <2>5 DEF WorkerStep
<1>4. ASSUME NEW r \in Repos, LeaseExpires(r) PROVE WorkersOfWave'
  BY <1>0, <1>4 DEF LeaseExpires, WorkersOfWave, Status
<1>5. CASE (\E r \in Repos : StartVerify(r)) \/ PrepareVerify \/ RunVerify \/ UNCHANGED vars
  BY <1>5, <1>1 DEF StartVerify, PrepareVerify, RunVerify, vars
<1> QED
  BY <1>2, <1>3, <1>4, <1>5, StepKinds

\* Only r's worker moves.
Only(r) == \A q \in Repos \ {r} : w'[q] = w[q]

\* Where the worker's steps leave it.
LEMMA FailedEffect ==
  ASSUME TypeOK, NEW r \in Repos, PublishFailed(r)
  PROVE  Only(r) /\ w'[r].pc = "complete" /\ w'[r].res = "partial"
<1>1. w \in [Repos -> Worker] /\ w' = [w EXCEPT ![r] = [w[r] EXCEPT !.pc = "complete", !.res = "partial"]]
  BY DEF TypeOK, PublishFailed
<1>2. Only(r) /\ w'[r] = [w[r] EXCEPT !.pc = "complete", !.res = "partial"] /\ w[r] \in Worker
  BY <1>1 DEF Only
<1> QED  BY <1>2 DEF Worker

LEMMA BuiltEffect ==
  ASSUME TypeOK, NEW r \in Repos, NEW verdict \in {"ok", "retry", "fatal"}, NEW found, NEW lock,
         Built(r, verdict, found, lock)
  PROVE  /\ Only(r) /\ w'[r].pc = IF verdict = "ok" THEN "stage" ELSE "complete"
         /\ verdict = "ok" => w'[r].module
         /\ verdict # "ok" => w'[r].res = verdict
<1> DEFINE l == [w[r] EXCEPT !.pc = IF verdict = "ok" THEN "stage" ELSE "complete",
                            !.res = IF verdict = "ok" THEN "none" ELSE verdict,
                            !.module = verdict = "ok", !.lock = lock /\ verdict = "ok"]
<1>1. w \in [Repos -> Worker] /\ w' = [w EXCEPT ![r] = l]
  BY DEF TypeOK, Built
<1>2. Only(r) /\ w'[r] = l /\ w[r] \in Worker
  BY <1>1 DEF Only
<1> QED  BY <1>2 DEF Worker

LEMMA StageEffect ==
  ASSUME TypeOK, NEW r \in Repos, Stage(r)
  PROVE  /\ Only(r) /\ w'[r].commit = (Staged(r) # tree[r].head)
         /\ \/ /\ w'[r].pc = "mutex"
               /\ Staged(r) # tree[r].head \/ w[r].lock
            \/ /\ w'[r].pc = "complete" /\ w'[r].res = "ok" /\ Staged(r) = tree[r].head
<1> DEFINE published == Staged(r) # tree[r].head
           l == [w[r] EXCEPT !.commit = published,
                             !.pc = IF published \/ w[r].lock THEN "mutex" ELSE "complete",
                             !.res = IF published \/ w[r].lock THEN "none" ELSE "ok"]
<1>1. w \in [Repos -> Worker] /\ w' = [w EXCEPT ![r] = l]
  BY DEF TypeOK, Stage
<1>2. Only(r) /\ w'[r] = l /\ w[r] \in Worker
  BY <1>1 DEF Only
<1> QED  BY <1>2 DEF Worker

LEMMA LandedEffect ==
  ASSUME TypeOK, NEW r \in Repos, Land(r)
  PROVE  Only(r) /\ w'[r].pc = "complete" /\ w'[r].res = "ok"
<1>1. w \in [Repos -> Worker] /\ w' = [w EXCEPT ![r] = [w[r] EXCEPT !.pc = "complete", !.res = "ok"]]
  BY DEF TypeOK, Land
<1>2. Only(r) /\ w'[r] = [w[r] EXCEPT !.pc = "complete", !.res = "ok"] /\ w[r] \in Worker
  BY <1>1 DEF Only
<1> QED  BY <1>2 DEF Worker

LEMMA NextMutex ==
  ASSUME TypeOK, WorkersOfWave, MutexHeld, [Next]_vars
  PROVE  MutexHeld'
<1> USE IdleFields, ActorAssumption DEF monorepo, history
<1>0. /\ w \in [Repos -> Worker] /\ Free \notin Repos /\ "build" \notin Repos /\ "verify" \notin Repos
      /\ Free # "build" /\ Free # "verify"
  BY DEF TypeOK, Free
<1>1. ASSUME UNCHANGED <<w, v, mutex>>, UNCHANGED c \/ mutex # "build" \/ c'.pc \in {"snapshot", "resnapshot"}
      PROVE  MutexHeld'
  BY <1>1 DEF MutexHeld
<1>2. CASE BuildCommandStep
  <2>1. CASE StartBuild \/ Ingested \/ Planned \/ EnterWave \/ ContractsDone \/ WaveOver
    <3>1. c.pc \notin {"snapshot", "resnapshot"} /\ UNCHANGED <<w, v, mutex>>
      BY <2>1 DEF StartBuild, Ingested, Planned, EnterWave, ContractsDone, WaveOver
    <3> QED  BY <3>1, <1>1 DEF MutexHeld
  <2>2. CASE SnapshotBegin
    BY <1>0, <2>2 DEF SnapshotBegin, Acquire, MutexHeld
  <2>3. CASE SnapshotEnd
    BY <1>0, <2>3 DEF SnapshotEnd, Release, MutexHeld
  <2>4. CASE Crash
    BY <1>0, <2>4 DEF Crash, MutexHeld
  <2>5. ASSUME NEW k \in Contracts, IngestContract(k) \/ ContractFails(k) PROVE MutexHeld'
    BY <2>5, <1>1 DEF IngestContract, ContractFails, MutexHeld
  <2>6. ASSUME NEW r \in Repos, Ingest(r) \/ Plan(r) PROVE MutexHeld'
    BY <2>6, <1>1 DEF Ingest, Plan, MutexHeld
  <2>7. ASSUME NEW r \in Repos,
               IngestFails(r) \/ PlanFails(r) \/ RootsFail(r) \/ GazelleFails(r) \/ ReplanFails(r)
        PROVE  MutexHeld'
    BY <2>7, <1>1
    DEF IngestFails, PlanFails, RootsFail, GazelleFails, ReplanFails, Exclude, MutexHeld
  <2> QED
    BY <1>2, <2>1, <2>2, <2>3, <2>4, <2>5, <2>6, <2>7 DEF BuildCommandStep
<1>3. ASSUME NEW r \in Repos, WorkerStep(r) PROVE MutexHeld'
  <2>1. CASE Start(r)
    BY <1>0, <2>1 DEF Start, MutexHeld
  <2>2. CASE Build(r)
    <3>1. PICK verdict \in {"ok", "retry", "fatal"}, found \in BOOLEAN, lock \in BOOLEAN :
                 Built(r, verdict, found, lock)
      BY <2>2, BuildEffect
    <3>2. \A q \in Repos : w'[q].pc = "land" <=> w[q].pc = "land"
      BY <2>2, <3>1, BuildEffect, BuiltEffect DEF Only
    <3> QED  BY <3>1, <3>2 DEF Built, MutexHeld
  <2>3. CASE BuildInterrupted(r)
    BY <1>0, <2>3, InterruptEffect DEF MutexHeld, WorkersOfWave
  <2>4. CASE Stage(r)
    <3>1. \A q \in Repos : w'[q].pc = "land" <=> w[q].pc = "land"
      BY <2>4, StageEffect DEF Only, Stage
    <3> QED  BY <2>4, <3>1 DEF Stage, MutexHeld
  <2>5. CASE StageFails(r) \/ MutexTimeout(r)
    <3>1. PublishFailed(r) /\ w[r].pc \in {"stage", "mutex"}
      BY <2>5 DEF StageFails, MutexTimeout
    <3>2. \A q \in Repos : w'[q].pc = "land" <=> w[q].pc = "land"
      BY <3>1, FailedEffect DEF Only
    <3> QED  BY <2>5, <3>2 DEF StageFails, MutexTimeout, MutexHeld
  <2>6. CASE TakeMutex(r)
    <3>1. \A q \in Repos : w'[q].pc = "land" <=> q = r \/ w[q].pc = "land"
      BY <1>0, <2>6 DEF TakeMutex
    <3> QED  BY <1>0, <2>6, <3>1 DEF TakeMutex, Acquire, MutexHeld
  <2>7. CASE Land(r) \/ LandFails(r)
    <3>1. \A q \in Repos : w'[q].pc = "land" <=> q # r /\ w[q].pc = "land"
      BY <2>7, FailedEffect, LandedEffect DEF Only, LandFails
    <3>2. w[r].pc = "land" /\ mutex' = Free /\ UNCHANGED <<v, c>>
      BY <2>7 DEF Land, LandFails, Release
    <3> QED  BY <1>0, <3>1, <3>2 DEF MutexHeld
  <2>8. CASE Complete(r)
    BY <1>0, <2>8 DEF Complete, MutexHeld
  <2> QED
    BY <1>3, <2>1, <2>2, <2>3, <2>4, <2>5, <2>6, <2>7, <2>8 DEF WorkerStep
<1>4. ASSUME NEW r \in Repos, StartVerify(r) PROVE MutexHeld'
  BY <1>0, <1>4 DEF StartVerify, Acquire, MutexHeld
<1>5. CASE PrepareVerify
  BY <1>0, <1>5 DEF PrepareVerify, Release, MutexHeld
<1>6. CASE (\E r \in Repos : LeaseExpires(r)) \/ UNCHANGED vars
  BY <1>6, <1>1 DEF LeaseExpires, vars
<1>7. CASE RunVerify
  BY <1>7 DEF RunVerify, MutexHeld
<1> QED
  BY <1>2, <1>3, <1>4, <1>5, <1>6, <1>7, StepKinds

-----------------------------------------------------------------------------
(* Sources, contracts and the domain *)

\* A source is merged once, and the branch holds it.
MergesRecorded == \A x \in Source : merges[x] = IF x \in tip.src THEN 1 ELSE 0

\* What the command ingested of the contracts is on the branch.
HoistedMerged == c.hoisted \subseteq tip.src

\* The branch takes a source in, is merged into by a worker, or stays as it is.
TipStep ==
  \/ \E k \in Contracts : IngestContract(k)
  \/ \E r \in Repos : Ingest(r)
  \/ /\ tip'.src = tip.src /\ tip'.kept = tip.kept /\ UNCHANGED merges
     /\ c'.hoisted \in {c.hoisted, {}}

LEMMA TipEffect ==
  ASSUME TypeOK, [Next]_vars
  PROVE  TipStep
<1> USE IdleFields DEF monorepo, history
<1>0. c \in Command /\ tip \in Tree
  BY DEF TypeOK
<1>1. ASSUME UNCHANGED <<tip, merges>>, c'.hoisted \in {c.hoisted, {}} PROVE TipStep
  BY <1>1 DEF TipStep
<1>2. CASE BuildCommandStep
  <2>1. CASE \/ StartBuild \/ Ingested \/ SnapshotBegin \/ SnapshotEnd \/ Planned \/ ContractsDone
             \/ WaveOver \/ Crash
    <3>1. ASSUME Planned PROVE c'.hoisted = c.hoisted
      BY <1>0, <3>1 DEF Planned, Command
    <3>2. ASSUME Ingested PROVE c'.hoisted \in {c.hoisted, {}}
      BY <1>0, <3>2 DEF Ingested, Command
    <3>3. ASSUME StartBuild PROVE c'.hoisted = {}
      BY <3>3 DEF StartBuild, IdleCommand
    <3>4. ASSUME SnapshotEnd \/ ContractsDone \/ WaveOver PROVE c'.hoisted = c.hoisted
      BY <1>0, <3>4 DEF SnapshotEnd, ContractsDone, WaveOver, Command
    <3>5. c'.hoisted \in {c.hoisted, {}}
      BY <2>1, <3>1, <3>2, <3>3, <3>4 DEF SnapshotBegin, Crash
    <3> QED
      BY <1>1, <2>1, <3>5
      DEF StartBuild, Ingested, SnapshotBegin, SnapshotEnd, Planned, ContractsDone, WaveOver, Crash
  <2>2. CASE EnterWave
    <3>1. c'.hoisted \in {c.hoisted, {}}
      BY <1>0, <2>2, WaveEffect DEF Command
    <3> QED  BY <1>1, <2>2, <3>1 DEF EnterWave
  <2>3. ASSUME NEW k \in Contracts, IngestContract(k) \/ ContractFails(k) PROVE TipStep
    BY <1>0, <1>1, <2>3 DEF ContractFails, Command, TipStep
  <2>4. ASSUME NEW r \in Repos, Ingest(r) \/ Plan(r) PROVE TipStep
    BY <1>0, <1>1, <2>4 DEF Plan, Command, TipStep
  <2>5. ASSUME NEW r \in Repos,
               IngestFails(r) \/ PlanFails(r) \/ RootsFail(r) \/ GazelleFails(r) \/ ReplanFails(r)
        PROVE  TipStep
    BY <1>0, <1>1, <2>5
    DEF IngestFails, PlanFails, RootsFail, GazelleFails, ReplanFails, Exclude, Command
  <2> QED
    BY <1>2, <2>1, <2>2, <2>3, <2>4, <2>5 DEF BuildCommandStep
<1>3. ASSUME NEW r \in Repos, WorkerStep(r) PROVE TipStep
  <2>1. CASE Build(r)
    BY <1>1, <2>1 DEF Build
  <2>2. CASE BuildInterrupted(r)
    BY <1>1, <2>2, InterruptEffect
  <2>3. CASE Start(r) \/ Stage(r) \/ StageFails(r) \/ TakeMutex(r) \/ MutexTimeout(r) \/ Complete(r)
    BY <1>1, <2>3 DEF Start, Stage, StageFails, TakeMutex, MutexTimeout, Complete
  <2>4. CASE Land(r) \/ LandFails(r)
    <3>1. Merged(r).src = tip.src /\ Merged(r).kept = tip.kept
      BY <1>0 DEF Merged, Tree
    <3>2. tip' \in {tip, Merged(r)} /\ UNCHANGED <<merges, c>>
      BY <2>4 DEF Land, LandFails
    <3> QED  BY <3>1, <3>2 DEF TipStep
  <2> QED
    BY <1>3, <2>1, <2>2, <2>3, <2>4 DEF WorkerStep
<1>4. CASE \/ \E r \in Repos : LeaseExpires(r) \/ StartVerify(r)
           \/ PrepareVerify \/ RunVerify \/ UNCHANGED vars
  BY <1>4, <1>1 DEF LeaseExpires, StartVerify, PrepareVerify, RunVerify, vars
<1> QED
  BY <1>2, <1>3, <1>4, StepKinds

LEMMA IngestEffect ==
  ASSUME TypeOK, MergesRecorded, NEW x \in Source, NEW kept \in SUBSET Contracts, ingest(x, kept)
  PROVE  /\ MergesRecorded'
         /\ tip'.src = tip.src \cup {x}
         /\ tip'.kept = IF x \in tip.src THEN tip.kept ELSE tip.kept \cup kept
         /\ tip'.gen = tip.gen /\ tip'.root = tip.root
<1>1. /\ tip \in Tree /\ merges \in [Source -> Nat]
      /\ already_ingested(x) <=> x \in tip.src
  BY DEF TypeOK, already_ingested, MergesRecorded
<1>2. CASE x \in tip.src
  BY <1>1, <1>2 DEF ingest, monorepo, MergesRecorded
<1>3. CASE x \notin tip.src
  <2>1. merge_source(x, kept)
    BY <1>1, <1>3 DEF ingest
  <2>2. /\ tip'.src = tip.src \cup {x} /\ tip'.kept = tip.kept \cup kept
        /\ tip'.gen = tip.gen /\ tip'.root = tip.root
    BY <1>1, <2>1 DEF merge_source, Tree
  <2>3. merges[x] = 0 /\ 0 + 1 = 1
    BY <1>3 DEF MergesRecorded
  <2>4. \A y \in Source : merges'[y] = IF y = x THEN 1 ELSE merges[y]
    BY <1>1, <2>1, <2>3 DEF merge_source
  <2>5. MergesRecorded'
    BY <2>2, <2>4 DEF MergesRecorded
  <2> QED  BY <1>3, <2>2, <2>5
<1> QED  BY <1>2, <1>3

LEMMA NextSources ==
  ASSUME TypeOK, MergesRecorded, HoistedMerged, ContractKept, [Next]_vars
  PROVE  MergesRecorded' /\ HoistedMerged' /\ ContractKept'
<1>0. /\ c \in Command /\ Owner \in [Contracts -> Repos] /\ Contracts \cap Repos = {}
      /\ Repos \subseteq Source /\ Contracts \subseteq Source
  BY PublishAssumption DEF TypeOK, Source
<1>1. ASSUME NEW k \in Contracts, IngestContract(k)
      PROVE  MergesRecorded' /\ HoistedMerged' /\ ContractKept'
  <2>1. /\ MergesRecorded' /\ tip'.src = tip.src \cup {k} /\ tip.kept \subseteq tip'.kept
    BY <1>0, <1>1, IngestEffect DEF IngestContract
  <2>2. HoistedMerged'
    BY <1>0, <1>1, <2>1 DEF IngestContract, HoistedMerged, Command
  <2>3. ContractKept'
    BY <1>0, <2>1 DEF ContractKept
  <2> QED  BY <2>1, <2>2, <2>3
<1>2. ASSUME NEW r \in Repos, Ingest(r)
      PROVE  MergesRecorded' /\ HoistedMerged' /\ ContractKept'
  <2>1. /\ MergesRecorded' /\ tip'.src = tip.src \cup {r}
        /\ tip'.kept = IF r \in tip.src THEN tip.kept ELSE tip.kept \cup Kept(r)
    BY <1>0, <1>2, IngestEffect DEF Ingest, Kept
  <2>2. HoistedMerged'
    BY <1>0, <1>2, <2>1 DEF Ingest, HoistedMerged, Command
  <2>3. ContractKept'
    BY <1>0, <2>1 DEF ContractKept, Kept, HoistedMerged
  <2> QED  BY <2>1, <2>2, <2>3
<1>3. CASE /\ tip'.src = tip.src /\ tip'.kept = tip.kept /\ UNCHANGED merges
           /\ c'.hoisted \in {c.hoisted, {}}
  BY <1>3 DEF MergesRecorded, HoistedMerged, ContractKept
<1> QED  BY <1>1, <1>2, <1>3, TipEffect DEF TipStep

\* Every repo of the domain is on the branch from the end of the ingest, in the
\* snapshot cut after it, and in every worktree cut from that.
DomainMerged ==
  /\ c.pc = "ingest" => c.domain \ c.todo \subseteq tip.src
  /\ c.pc \in {"snapshot", "plan"} \/ Dispatching => c.domain \subseteq tip.src
  /\ c.pc = "plan" \/ Dispatching => c.domain \subseteq c.snap.src
  /\ \A r \in c.domain : IsCut(r) => c.domain \subseteq tree[r].base.src

LEMMA WorkerKeeps ==
  ASSUME TypeOK, NEW r \in Repos, WorkerStep(r)
  PROVE  /\ c' = c \/ c' = IdleCommand
         /\ \A q \in Repos : tree'[q].base = tree[q].base
         /\ ~Stage(r) => \A q \in Repos : tree'[q].head = tree[q].head
         /\ UNCHANGED <<wave, v, verified>>
<1> USE DEF monorepo, history
<1>0. tree \in [Repos -> Worktree]
  BY DEF TypeOK
<1>1. CASE Build(r)
  <2>1. tree' = [tree EXCEPT ![r].files = TRUE] /\ UNCHANGED <<c, wave, v, verified>>
    BY <1>1 DEF Build
  <2> QED  BY <1>0, <2>1 DEF Worktree
<1>2. CASE BuildInterrupted(r)
  BY <1>2, InterruptEffect
<1>3. CASE Stage(r)
  <2>1. tree' = [tree EXCEPT ![r].head = Staged(r)] /\ UNCHANGED <<c, wave, v, verified>>
    BY <1>3 DEF Stage
  <2> QED  BY <1>0, <1>3, <2>1 DEF Worktree
<1>4. CASE \/ Start(r) \/ StageFails(r) \/ TakeMutex(r) \/ MutexTimeout(r) \/ Land(r) \/ LandFails(r)
           \/ Complete(r)
  BY <1>4 DEF Start, StageFails, TakeMutex, MutexTimeout, Land, LandFails, Complete
<1> QED  BY <1>1, <1>2, <1>3, <1>4 DEF WorkerStep

LEMMA SourcesGrow ==
  ASSUME TypeOK, MergesRecorded, [Next]_vars
  PROVE  tip.src \subseteq tip'.src
<1>1. ASSUME NEW k \in Contracts, IngestContract(k) PROVE tip.src \subseteq tip'.src
  BY <1>1, IngestEffect DEF IngestContract, Source
<1>2. ASSUME NEW r \in Repos, Ingest(r) PROVE tip.src \subseteq tip'.src
  BY <1>2, IngestEffect DEF Ingest, Source, Kept
<1> QED  BY <1>1, <1>2, TipEffect DEF TipStep

\* What the steps of the build command do to its locals.
SameDomain == c'.domain = c.domain /\ c'.snap = c.snap
SameWave   == c'.wave = c.wave /\ c'.published = c.published

LEMMA CommandEffect ==
  ASSUME TypeOK
  PROVE  /\ StartBuild => /\ c'.pc = "contracts" /\ c'.domain = Repos /\ c'.snap = Empty
                          /\ UNCHANGED tree
         /\ ContractsDone => /\ c.pc = "contracts" /\ c'.pc = "ingest" /\ c'.todo = Repos
                             /\ SameDomain /\ UNCHANGED tree
         /\ \A k \in Contracts : IngestContract(k) \/ ContractFails(k) =>
              c.pc = "contracts" /\ c'.pc = "contracts" /\ SameDomain /\ UNCHANGED tree
         /\ \A r \in Repos : Ingest(r) =>
              /\ c.pc = "ingest" /\ c'.pc = "ingest" /\ c'.todo = c.todo \ {r}
              /\ SameDomain /\ UNCHANGED tree
         /\ Ingested =>
              /\ c.pc = "ingest" /\ c.todo = {} /\ UNCHANGED <<tip, tree>>
              /\ c' = IdleCommand \/ (c'.pc = "snapshot" /\ SameDomain)
         /\ SnapshotEnd =>
              /\ c'.snap = tip /\ c'.domain = c.domain /\ c'.wave = c.wave /\ ~c'.published
              /\ UNCHANGED <<tip, tree>>
              /\ \/ c.pc = "snapshot" /\ c'.pc = "plan" /\ c'.todo = c.domain
                 \/ c.pc = "resnapshot" /\ c'.pc = "replan" /\ c'.todo = Members \cap c.domain
         /\ \A r \in Repos : Plan(r) =>
              /\ c.pc \in {"plan", "replan"} /\ c'.pc = c.pc /\ c'.todo = c.todo \ {r}
              /\ SameDomain /\ SameWave /\ UNCHANGED tip
              /\ \A q \in Repos \ {r} : tree'[q] = tree[q]
              /\ tree'[r].base = c.snap /\ tree'[r].head = c.snap
         /\ \A r \in Repos : IngestFails(r) \/ PlanFails(r) \/ RootsFail(r) \/ GazelleFails(r) =>
              /\ c.pc \in {"ingest", "plan", "roots", "gazelle"} /\ c'.pc = c.pc
              /\ c'.domain = c.domain \ {r} /\ c'.todo = c.todo \ {r} /\ c'.snap = c.snap
              /\ SameWave /\ UNCHANGED <<tip, tree>>
         /\ \A r \in Repos : ReplanFails(r) =>
              /\ c.pc = "replan" /\ c'.pc = "replan" /\ c'.todo = c.todo \ {r}
              /\ SameDomain /\ SameWave /\ UNCHANGED <<tip, tree>>
         /\ Planned =>
              /\ c.todo = {} /\ SameDomain /\ UNCHANGED <<tip, tree>> /\ c'.published = c.published
              /\ \/ c.pc = "plan" /\ c'.pc = "roots"
                 \/ c.pc = "roots" /\ c'.pc = "gazelle"
                 \/ c.pc = "gazelle" /\ c'.pc = "wave"
                 \/ c.pc = "replan" /\ c'.pc = "run" /\ c'.wave = c.wave
         /\ EnterWave =>
              /\ c.pc = "wave" /\ UNCHANGED <<tip, tree>>
              /\ \/ c' = IdleCommand
                 \/ c'.pc = "wave" /\ SameDomain /\ c'.published = c.published
                 \/ c'.pc = "run" /\ SameDomain /\ SameWave /\ ~c.published
                 \/ c'.pc = "resnapshot" /\ SameDomain /\ SameWave
         /\ WaveOver => c.pc = "run" /\ c'.pc = "wave" /\ SameDomain /\ c'.published /\ UNCHANGED <<tip, tree>>
<1> USE DEF monorepo, history, SameDomain, SameWave
<1>0. c \in Command /\ tree \in [Repos -> Worktree]
  BY DEF TypeOK
<1>1. ASSUME StartBuild
      PROVE  c'.pc = "contracts" /\ c'.domain = Repos /\ c'.snap = Empty /\ UNCHANGED tree
  BY <1>1 DEF StartBuild, IdleCommand
<1>2. ASSUME ContractsDone
      PROVE  /\ c.pc = "contracts" /\ c'.pc = "ingest" /\ c'.todo = Repos
             /\ SameDomain /\ UNCHANGED tree
  BY <1>0, <1>2 DEF ContractsDone, Command
<1>3. ASSUME NEW k \in Contracts, IngestContract(k) \/ ContractFails(k)
      PROVE  c.pc = "contracts" /\ c'.pc = "contracts" /\ SameDomain /\ UNCHANGED tree
  BY <1>0, <1>3 DEF IngestContract, ContractFails, Command
<1>4. ASSUME NEW r \in Repos, Ingest(r)
      PROVE  /\ c.pc = "ingest" /\ c'.pc = "ingest" /\ c'.todo = c.todo \ {r}
             /\ SameDomain /\ UNCHANGED tree
  BY <1>0, <1>4 DEF Ingest, Command
<1>5. ASSUME Ingested
      PROVE  /\ c.pc = "ingest" /\ c.todo = {} /\ UNCHANGED <<tip, tree>>
             /\ c' = IdleCommand \/ (c'.pc = "snapshot" /\ SameDomain)
  <2>1. c' = IdleCommand \/ c' = [c EXCEPT !.pc = "snapshot"]
    BY <1>5 DEF Ingested
  <2> QED  BY <1>0, <1>5, <2>1 DEF Ingested, Command
<1>6. ASSUME SnapshotEnd
      PROVE  /\ c'.snap = tip /\ c'.domain = c.domain /\ c'.wave = c.wave /\ ~c'.published
             /\ UNCHANGED <<tip, tree>>
             /\ \/ c.pc = "snapshot" /\ c'.pc = "plan" /\ c'.todo = c.domain
                \/ c.pc = "resnapshot" /\ c'.pc = "replan" /\ c'.todo = Members \cap c.domain
  BY <1>0, <1>6 DEF SnapshotEnd, Command
<1>7. ASSUME NEW r \in Repos, Plan(r)
      PROVE  /\ c.pc \in {"plan", "replan"} /\ c'.pc = c.pc /\ c'.todo = c.todo \ {r}
             /\ SameDomain /\ SameWave /\ UNCHANGED tip
             /\ \A q \in Repos \ {r} : tree'[q] = tree[q]
             /\ tree'[r].base = c.snap /\ tree'[r].head = c.snap
  BY <1>0, <1>7 DEF Plan, Command
<1>8. ASSUME NEW r \in Repos, IngestFails(r) \/ PlanFails(r) \/ RootsFail(r) \/ GazelleFails(r)
      PROVE  /\ c.pc \in {"ingest", "plan", "roots", "gazelle"} /\ c'.pc = c.pc
             /\ c'.domain = c.domain \ {r} /\ c'.todo = c.todo \ {r} /\ c'.snap = c.snap
             /\ SameWave /\ UNCHANGED <<tip, tree>>
  BY <1>0, <1>8 DEF IngestFails, PlanFails, RootsFail, GazelleFails, Exclude, Excluded, Command
<1>9. ASSUME NEW r \in Repos, ReplanFails(r)
      PROVE  /\ c.pc = "replan" /\ c'.pc = "replan" /\ c'.todo = c.todo \ {r}
             /\ SameDomain /\ SameWave /\ UNCHANGED <<tip, tree>>
  BY <1>0, <1>9 DEF ReplanFails, Command
<1>10. ASSUME Planned
       PROVE  /\ c.todo = {} /\ SameDomain /\ UNCHANGED <<tip, tree>> /\ c'.published = c.published
              /\ \/ c.pc = "plan" /\ c'.pc = "roots"
                 \/ c.pc = "roots" /\ c'.pc = "gazelle"
                 \/ c.pc = "gazelle" /\ c'.pc = "wave"
                 \/ c.pc = "replan" /\ c'.pc = "run" /\ c'.wave = c.wave
  BY <1>0, <1>10 DEF Planned, Command
<1>11. ASSUME EnterWave
       PROVE  /\ c.pc = "wave" /\ UNCHANGED <<tip, tree>>
              /\ \/ c' = IdleCommand
                 \/ c'.pc = "wave" /\ SameDomain /\ c'.published = c.published
                 \/ c'.pc = "run" /\ SameDomain /\ SameWave /\ ~c.published
                 \/ c'.pc = "resnapshot" /\ SameDomain /\ SameWave
  <2>1. c.pc = "wave" /\ UNCHANGED <<tip, tree>>
    BY <1>11 DEF EnterWave
  <2> QED  BY <1>0, <1>11, <2>1, WaveEffect DEF Command
<1>12. ASSUME WaveOver
       PROVE  c.pc = "run" /\ c'.pc = "wave" /\ SameDomain /\ c'.published /\ UNCHANGED <<tip, tree>>
  BY <1>0, <1>12 DEF WaveOver, Command
<1> HIDE DEF SameDomain, SameWave
<1> QED
  BY <1>1, <1>2, <1>3, <1>4, <1>5, <1>6, <1>7, <1>8, <1>9, <1>10, <1>11, <1>12

LEMMA NextDomain ==
  ASSUME TypeOK, MergesRecorded, DomainMerged, [Next]_vars
  PROVE  DomainMerged'
<1> USE IdleFields DEF monorepo, history
<1>0. /\ tip.src \subseteq tip'.src /\ c.domain \subseteq Repos
      /\ tree \in [Repos -> Worktree]
  BY SourcesGrow DEF TypeOK, Command
<1>1. ASSUME c' = c \/ c' = IdleCommand, \A q \in Repos : tree'[q].base = tree[q].base
      PROVE  DomainMerged'
  <2>1. CASE c' = c
    BY <1>0, <1>1, <2>1 DEF DomainMerged, Dispatching, IsCut
  <2>2. CASE c' = IdleCommand
    BY <2>2 DEF DomainMerged, Dispatching, IsCut
  <2> QED  BY <1>1, <2>1, <2>2
<1>2. ASSUME UNCHANGED tree, c'.domain \subseteq c.domain, c'.snap = c.snap,
             Dispatching' => Dispatching \/ (c.pc = "plan" /\ c.todo = {}),
             c'.pc = "plan" => c.pc = "plan" /\ \A r \in c'.domain \ c'.todo : r \notin c.todo,
             c'.pc = "ingest" => c'.domain \ c'.todo \subseteq tip'.src,
             c'.pc = "snapshot" => c'.domain \subseteq tip'.src
      PROVE  DomainMerged'
  BY <1>0, <1>2 DEF DomainMerged, Dispatching, IsCut
<1>3. CASE BuildCommandStep
  <2>1. CASE StartBuild
    BY <2>1, CommandEffect DEF DomainMerged, Dispatching, IsCut
  <2>2. CASE ContractsDone
    BY <1>0, <1>2, <2>2, CommandEffect DEF Dispatching, SameDomain
  <2>3. CASE Ingested
    BY <1>0, <1>1, <1>2, <2>3, CommandEffect DEF Dispatching, SameDomain, DomainMerged
  <2>4. CASE SnapshotBegin \/ Crash
    BY <1>1, <2>4 DEF SnapshotBegin, Crash
  <2>5. CASE SnapshotEnd
    BY <2>5, CommandEffect DEF DomainMerged, Dispatching, IsCut
  <2>6. CASE Planned
    BY <1>2, <2>6, CommandEffect DEF Dispatching, SameDomain
  <2>7. CASE EnterWave
    BY <1>1, <1>2, <2>7, CommandEffect DEF Dispatching, SameDomain
  <2>8. CASE WaveOver
    BY <1>2, <2>8, CommandEffect DEF Dispatching, SameDomain
  <2>9. ASSUME NEW k \in Contracts, IngestContract(k) \/ ContractFails(k) PROVE DomainMerged'
    BY <1>2, <2>9, CommandEffect DEF Dispatching, SameDomain
  <2>10. ASSUME NEW r \in Repos, Ingest(r) PROVE DomainMerged'
    <3>1. tip'.src = tip.src \cup {r}
      BY <2>10, IngestEffect DEF Ingest, Source, Kept
    <3> QED  BY <1>0, <1>2, <2>10, <3>1, CommandEffect DEF Dispatching, SameDomain, DomainMerged
  <2>11. ASSUME NEW r \in Repos, IngestFails(r) \/ PlanFails(r) \/ RootsFail(r) \/ GazelleFails(r)
         PROVE  DomainMerged'
    BY <1>0, <1>2, <2>11, CommandEffect DEF Dispatching, DomainMerged
  <2>12. ASSUME NEW r \in Repos, Plan(r) PROVE DomainMerged'
    BY <1>0, <2>12, CommandEffect DEF SameDomain, DomainMerged, Dispatching, IsCut
  <2>13. ASSUME NEW r \in Repos, ReplanFails(r) PROVE DomainMerged'
    BY <1>2, <2>13, CommandEffect DEF Dispatching, SameDomain
  <2> QED
    BY <1>3, <2>1, <2>2, <2>3, <2>4, <2>5, <2>6, <2>7, <2>8, <2>9, <2>10, <2>11, <2>12, <2>13
    DEF BuildCommandStep
<1>4. ASSUME NEW r \in Repos, WorkerStep(r) PROVE DomainMerged'
  BY <1>1, <1>4, WorkerKeeps
<1>5. CASE \/ \E r \in Repos : LeaseExpires(r) \/ StartVerify(r)
           \/ PrepareVerify \/ RunVerify \/ UNCHANGED vars
  BY <1>1, <1>5 DEF LeaseExpires, StartVerify, PrepareVerify, RunVerify, vars
<1> QED
  BY <1>3, <1>4, <1>5, StepKinds


-----------------------------------------------------------------------------
(* What is published *)

\* A repo outside the domain of the running command is one whose git step failed.
FaultedOutside == c.pc # "idle" => Repos \ c.domain \subseteq faulted

\* What a step leaves of r when r's own worker did not take it.
Quiet(r) ==
  /\ w'[r] = w[r] \/ w'[r] = IdleWorker
  /\ green'[r] = green[r] /\ chk'[r] = chk[r]
  /\ w'[r].pc # "idle" => tree'[r] = tree[r] /\ c'.domain = c.domain
  /\ Status(r)' = SUCCEEDED => Status(r) = SUCCEEDED
  /\ Status(r)' = PENDING /\ c.pc # "idle" => Status(r) = PENDING

LEMMA QuietCommand ==
  ASSUME TypeOK, WorkersOfWave, BuildCommandStep, NEW r \in Repos
  PROVE  Quiet(r) /\ green' = green /\ faulted \subseteq faulted'
<1> USE RowEffect, StatusNames DEF monorepo, history
<1>0. /\ row \in [Repos -> PhaseRow] /\ w \in [Repos -> Worker] /\ c \in Command
      /\ tree \in [Repos -> Worktree]
  BY DEF TypeOK
<1>1. ASSUME UNCHANGED <<w, row, chk, green, tree>>, c'.domain = c.domain \/ w[r].pc = "idle"
      PROVE  Quiet(r)
  BY <1>1 DEF Quiet, Status
<1>2. CASE StartBuild
  <2>1. w[r].pc = "idle" /\ c.pc = "idle"
    BY <1>2 DEF StartBuild, WorkersOfWave
  <2>2. row'[r] = row[r] \/ row'[r].status = PENDING
    BY <1>0, <1>2 DEF StartBuild
  <2> QED  BY <1>2, <2>1, <2>2 DEF StartBuild, Quiet, Status
<1>3. CASE Ingested \/ SnapshotBegin \/ SnapshotEnd \/ Planned \/ EnterWave \/ ContractsDone
  <2>1. w[r].pc = "idle" /\ UNCHANGED <<w, row, chk, green, tree, faulted>>
    BY <1>3 DEF Ingested, SnapshotBegin, SnapshotEnd, Planned, EnterWave, ContractsDone, WorkersOfWave
  <2> QED  BY <1>1, <2>1
<1>4. CASE WaveOver
  <2>1. w[r].pc = "idle" /\ UNCHANGED <<w, row, chk, green, tree, faulted>>
    BY <1>4 DEF WaveOver, Active
  <2> QED  BY <1>1, <2>1
<1>5. CASE Crash
  BY <1>5, IdleFields DEF Crash, Quiet, Status
<1>6. ASSUME NEW k \in Contracts, IngestContract(k) \/ ContractFails(k)
      PROVE  Quiet(r) /\ green' = green /\ faulted \subseteq faulted'
  <2>1. w[r].pc = "idle" /\ UNCHANGED <<w, row, chk, green, tree, faulted>>
    BY <1>6 DEF IngestContract, ContractFails, WorkersOfWave
  <2> QED  BY <1>1, <2>1
<1>7. ASSUME NEW q \in Repos, Ingest(q) \/ Plan(q)
      PROVE  Quiet(r) /\ green' = green /\ faulted \subseteq faulted'
  <2>1. w[r].pc = "idle" /\ UNCHANGED <<w, row, chk, green, faulted>>
    BY <1>7 DEF Ingest, Plan, WorkersOfWave
  <2> QED  BY <2>1 DEF Quiet, Status
<1>8. ASSUME NEW q \in Repos,
             IngestFails(q) \/ PlanFails(q) \/ RootsFail(q) \/ GazelleFails(q) \/ ReplanFails(q)
      PROVE  Quiet(r) /\ green' = green /\ faulted \subseteq faulted'
  <2>1. /\ w[r].pc = "idle" /\ UNCHANGED <<w, chk, green>> /\ faulted \subseteq faulted'
        /\ row' = [row EXCEPT ![q] = abandon_repo(@)]
    BY <1>8
    DEF IngestFails, PlanFails, RootsFail, GazelleFails, ReplanFails, Exclude, Fault, WorkersOfWave
  <2>2. row'[r] = row[r] \/ row'[r].status = RHI
    BY <1>0, <2>1
  <2> QED  BY <2>1, <2>2 DEF Quiet, Status
<1>9. ASSUME Ingested \/ SnapshotBegin \/ SnapshotEnd \/ Planned \/ EnterWave \/ ContractsDone
             \/ WaveOver \/ StartBuild \/ Crash
      PROVE  UNCHANGED history
  BY <1>9 DEF Ingested, SnapshotBegin, SnapshotEnd, Planned, EnterWave, ContractsDone, WaveOver,
              StartBuild, Crash
<1> QED
  BY <1>2, <1>3, <1>4, <1>5, <1>6, <1>7, <1>8, <1>9 DEF BuildCommandStep

LEMMA QuietWorker ==
  ASSUME TypeOK, WorkersOfWave, NEW q \in Repos, WorkerStep(q), NEW r \in Repos, r # q
  PROVE  Quiet(r)
<1> USE DEF monorepo, history
<1>0. /\ row \in [Repos -> PhaseRow] /\ w \in [Repos -> Worker] /\ c \in Command
      /\ tree \in [Repos -> Worktree] /\ chk \in [Repos -> BOOLEAN] /\ green \in [Repos -> BOOLEAN]
  BY DEF TypeOK
<1>1. CASE Build(q)
  <2>1. PICK verdict \in {"ok", "retry", "fatal"}, found \in BOOLEAN, lock \in BOOLEAN :
               Built(q, verdict, found, lock)
    BY <1>1, BuildEffect
  <2>2. w'[r] = w[r]
    BY <2>1, BuiltEffect DEF Only
  <2> QED  BY <1>0, <2>1, <2>2 DEF Built, Quiet, Status
<1>2. CASE BuildInterrupted(q)
  BY <1>2, InterruptEffect, IdleFields DEF Quiet, Status
<1>3. CASE Stage(q)
  <2>1. w'[r] = w[r] /\ tree'[r] = tree[r] /\ UNCHANGED <<row, chk, green, c>>
    BY <1>0, <1>3, StageEffect DEF Stage, Only
  <2> QED  BY <2>1 DEF Quiet, Status
<1>4. CASE StageFails(q) \/ MutexTimeout(q) \/ LandFails(q)
  <2>1. w'[r] = w[r] /\ UNCHANGED <<row, chk, green, c, tree>>
    BY <1>4, FailedEffect DEF StageFails, MutexTimeout, LandFails, Only
  <2> QED  BY <2>1 DEF Quiet, Status
<1>5. CASE Land(q)
  <2>1. w'[r] = w[r] /\ UNCHANGED <<row, chk, green, c, tree>>
    BY <1>5, LandedEffect DEF Land, Only
  <2> QED  BY <2>1 DEF Quiet, Status
<1>6. CASE Start(q) \/ TakeMutex(q) \/ Complete(q)
  <2>1. /\ w'[r] = w[r] /\ row'[r] = row[r] /\ chk'[r] = chk[r] /\ UNCHANGED <<green, c, tree>>
    BY <1>0, <1>6 DEF Start, TakeMutex, Complete
  <2> QED  BY <2>1 DEF Quiet, Status
<1> QED  BY <1>1, <1>2, <1>3, <1>4, <1>5, <1>6 DEF WorkerStep

\* Every step is one of r's worker or quiet for r.
LEMMA QuietOrOwn ==
  ASSUME TypeOK, WorkersOfWave, [Next]_vars, NEW r \in Repos
  PROVE  WorkerStep(r) \/ Quiet(r)
<1> USE DEF monorepo, history
<1>0. row \in [Repos -> PhaseRow]
  BY DEF TypeOK
<1>1. ASSUME NEW q \in Repos, LeaseExpires(q) PROVE Quiet(r)
  <2>1. row'[r].status = row[r].status
    BY <1>0, <1>1, RowEffect DEF LeaseExpires
  <2> QED  BY <1>1, <2>1 DEF LeaseExpires, Quiet, Status
<1>2. CASE (\E q \in Repos : StartVerify(q)) \/ PrepareVerify \/ RunVerify \/ UNCHANGED vars
  BY <1>2 DEF StartVerify, PrepareVerify, RunVerify, vars, Quiet, Status
<1>3. ASSUME NEW q \in Repos, WorkerStep(q) PROVE WorkerStep(r) \/ Quiet(r)
  BY <1>3, QuietWorker
<1> QED  BY <1>1, <1>2, <1>3, QuietCommand, StepKinds


\* A failed git step is never forgotten, and a worker's is its own.
LEMMA FaultedGrows ==
  ASSUME TypeOK, WorkersOfWave, [Next]_vars
  PROVE  /\ faulted \subseteq faulted'
         /\ \A r \in Repos : WorkerStep(r) => faulted' \subseteq faulted \cup {r}
<1> USE DEF monorepo, history
<1>1. ASSUME NEW r \in Repos, WorkerStep(r)
      PROVE  faulted \subseteq faulted' /\ faulted' \subseteq faulted \cup {r}
  <2>1. CASE Build(r) \/ BuildInterrupted(r)
    BY <2>1, InterruptEffect DEF Build
  <2>2. CASE Start(r) \/ Stage(r) \/ TakeMutex(r) \/ Land(r) \/ Complete(r)
    BY <2>2 DEF Start, Stage, TakeMutex, Land, Complete
  <2>3. CASE StageFails(r) \/ MutexTimeout(r) \/ LandFails(r)
    BY <2>3 DEF StageFails, MutexTimeout, LandFails, Fault
  <2> QED  BY <1>1, <2>1, <2>2, <2>3 DEF WorkerStep
<1>2. CASE BuildCommandStep
  <2>1. PICK r \in Repos : TRUE
    BY PublishAssumption
  <2> QED  BY <1>1, <1>2, <2>1, QuietCommand
<1>3. CASE \/ \E r \in Repos : LeaseExpires(r) \/ StartVerify(r)
           \/ PrepareVerify \/ RunVerify \/ UNCHANGED vars
  BY <1>3 DEF LeaseExpires, StartVerify, PrepareVerify, RunVerify, vars
<1> QED  BY <1>1, <1>2, <1>3, StepKinds

LEMMA NextFaulted ==
  ASSUME TypeOK, WorkersOfWave, FaultedOutside, [Next]_vars
  PROVE  FaultedOutside'
<1> USE IdleFields, CommandEffect DEF monorepo, history
<1>0. faulted \subseteq faulted'
  BY FaultedGrows
<1>1. ASSUME c.pc # "idle", c' = IdleCommand \/ c'.domain = c.domain PROVE FaultedOutside'
  BY <1>0, <1>1 DEF FaultedOutside
<1>2. ASSUME c' = IdleCommand \/ c' = c PROVE FaultedOutside'
  BY <1>0, <1>2 DEF FaultedOutside
<1>3. CASE BuildCommandStep
  <2>1. CASE StartBuild
    BY <2>1 DEF FaultedOutside
  <2>2. CASE ContractsDone \/ Ingested \/ Planned \/ EnterWave \/ WaveOver
    BY <1>1, <2>2 DEF SameDomain
  <2>3. CASE SnapshotEnd
    BY <1>1, <2>3
  <2>4. CASE SnapshotBegin \/ Crash
    BY <1>2, <2>4 DEF SnapshotBegin, Crash
  <2>5. ASSUME NEW k \in Contracts, IngestContract(k) \/ ContractFails(k) PROVE FaultedOutside'
    BY <1>1, <2>5 DEF SameDomain
  <2>6. ASSUME NEW r \in Repos, Ingest(r) \/ Plan(r) \/ ReplanFails(r) PROVE FaultedOutside'
    BY <1>1, <2>6 DEF SameDomain
  <2>7. ASSUME NEW r \in Repos, IngestFails(r) \/ PlanFails(r) \/ RootsFail(r) \/ GazelleFails(r)
        PROVE  FaultedOutside'
    <3>1. c.pc # "idle" /\ c'.domain = c.domain \ {r}
      BY <2>7
    <3>2. faulted' = faulted \cup {r}
      BY <2>7 DEF IngestFails, PlanFails, RootsFail, GazelleFails, Exclude, Fault
    <3> QED  BY <3>1, <3>2 DEF FaultedOutside
  <2> QED
    BY <1>3, <2>1, <2>2, <2>3, <2>4, <2>5, <2>6, <2>7 DEF BuildCommandStep
<1>4. ASSUME NEW r \in Repos, WorkerStep(r) PROVE FaultedOutside'
  BY <1>2, <1>4, WorkerKeeps
<1>5. CASE \/ \E r \in Repos : LeaseExpires(r) \/ StartVerify(r)
           \/ PrepareVerify \/ RunVerify \/ UNCHANGED vars
  BY <1>2, <1>5 DEF LeaseExpires, StartVerify, PrepareVerify, RunVerify, vars
<1> QED  BY <1>3, <1>4, <1>5, StepKinds

\* Everything the tree holds is on the branch, save for units whose git step failed.
Behind(t) == t.gen \subseteq tip.gen /\ t.root \ faulted \subseteq tip.root

\* r's worker has committed and has not merged.
Owes(r) == w[r].pc \in {"mutex", "land"} /\ w[r].commit

\* r's worktree is one commit ahead of the branch at most; its module file is of its
\* base's domain or of the command's.
HeadBehind(r) ==
  /\ c.pc \in {"plan", "roots", "gazelle"} => tree[r].head = tree[r].base
  /\ tree[r].head.root \in {tree[r].base.root, c.domain}
  /\ r \notin faulted /\ ~Owes(r) => Behind(tree[r].head)

\* The branch is never behind a snapshot or a worktree, but for the commits that are
\* on their way to it.
TreesBehind ==
  /\ Behind(c.snap)
  /\ \A r \in Repos : Behind(tree[r].base)
  /\ \A r \in c.domain : IsCut(r) => HeadBehind(r)

\* The branch loses nothing but units whose git step failed.
Grows ==
  /\ faulted \subseteq faulted' /\ tip.src \subseteq tip'.src
  /\ tip.gen \subseteq tip'.gen /\ tip.root \ faulted' \subseteq tip'.root

\* What r's merge leaves on the branch.
LEMMA MergedEffect ==
  ASSUME TypeOK, WorkersOfWave, FaultedOutside, TreesBehind, NEW r \in Repos, w[r].pc = "land"
  PROVE  /\ tip.gen \subseteq Merged(r).gen /\ tip.root \ faulted \subseteq Merged(r).root
         /\ tree[r].head.gen \subseteq Merged(r).gen
         /\ tree[r].head.root \ faulted \subseteq Merged(r).root
<1>1. tip \in Tree /\ tree[r].head \in Tree /\ tree[r].base \in Tree
  BY DEF TypeOK, Worktree
<1>2. /\ Merged(r).gen = tip.gen \cup (tree[r].head.gen \ tree[r].base.gen)
      /\ Merged(r).root = IF tree[r].head.root = tree[r].base.root THEN tip.root ELSE tree[r].head.root
  BY <1>1 DEF Merged, Tree
<1>3. /\ Behind(tree[r].base) /\ tree[r].head.root \in {tree[r].base.root, c.domain}
      /\ Repos \ c.domain \subseteq faulted /\ tip.root \subseteq Repos
  BY <1>1 DEF TreesBehind, HeadBehind, WorkersOfWave, IsCut, Dispatching, FaultedOutside, Tree
<1> QED  BY <1>2, <1>3 DEF Behind

LEMMA NextGrows ==
  ASSUME TypeOK, WorkersOfWave, MergesRecorded, FaultedOutside, TreesBehind, [Next]_vars
  PROVE  Grows
<1> USE DEF monorepo, history
<1>0. faulted \subseteq faulted' /\ tip.src \subseteq tip'.src
  BY FaultedGrows, SourcesGrow
<1>1. ASSUME tip'.gen = tip.gen, tip'.root = tip.root PROVE Grows
  BY <1>0, <1>1 DEF Grows
<1>2. CASE BuildCommandStep
  <2>1. CASE \/ StartBuild \/ Ingested \/ SnapshotBegin \/ SnapshotEnd \/ Planned \/ EnterWave
             \/ ContractsDone \/ WaveOver \/ Crash
    BY <1>1, <2>1
    DEF StartBuild, Ingested, SnapshotBegin, SnapshotEnd, Planned, EnterWave, ContractsDone, WaveOver, Crash
  <2>2. ASSUME NEW k \in Contracts, IngestContract(k) \/ ContractFails(k) PROVE Grows
    BY <1>1, <2>2, IngestEffect DEF IngestContract, ContractFails, Source
  <2>3. ASSUME NEW r \in Repos, Ingest(r) \/ Plan(r) PROVE Grows
    BY <1>1, <2>3, IngestEffect DEF Ingest, Plan, Source, Kept
  <2>4. ASSUME NEW r \in Repos,
               IngestFails(r) \/ PlanFails(r) \/ RootsFail(r) \/ GazelleFails(r) \/ ReplanFails(r)
        PROVE  Grows
    BY <1>1, <2>4 DEF IngestFails, PlanFails, RootsFail, GazelleFails, ReplanFails, Exclude
  <2> QED  BY <1>2, <2>1, <2>2, <2>3, <2>4 DEF BuildCommandStep
<1>3. ASSUME NEW r \in Repos, WorkerStep(r) PROVE Grows
  <2>1. CASE Build(r) \/ BuildInterrupted(r)
    BY <1>1, <2>1, InterruptEffect DEF Build
  <2>2. CASE Start(r) \/ Stage(r) \/ StageFails(r) \/ TakeMutex(r) \/ MutexTimeout(r) \/ Complete(r)
    BY <1>1, <2>2 DEF Start, Stage, StageFails, TakeMutex, MutexTimeout, Complete
  <2>3. CASE Land(r) \/ LandFails(r)
    <3>1. w[r].pc = "land" /\ tip' \in {tip, Merged(r)}
      BY <2>3 DEF Land, LandFails
    <3> QED  BY <1>0, <1>1, <3>1, MergedEffect DEF Grows
  <2> QED  BY <1>3, <2>1, <2>2, <2>3 DEF WorkerStep
<1>4. CASE \/ \E r \in Repos : LeaseExpires(r) \/ StartVerify(r)
           \/ PrepareVerify \/ RunVerify \/ UNCHANGED vars
  BY <1>1, <1>4 DEF LeaseExpires, StartVerify, PrepareVerify, RunVerify, vars
<1> QED  BY <1>2, <1>3, <1>4, StepKinds


\* Where snapshots and bases come from.
LEMMA SnapEffect ==
  ASSUME TypeOK, [Next]_vars
  PROVE  /\ c'.snap \in {c.snap, tip, Empty}
         /\ \A r \in Repos : tree'[r].base \in {tree[r].base, c.snap}
<1> USE IdleFields, CommandEffect DEF monorepo, history, SameDomain
<1> DEFINE G == /\ c'.snap \in {c.snap, tip, Empty}
                /\ \A r \in Repos : tree'[r].base \in {tree[r].base, c.snap}
<1>1. CASE BuildCommandStep
  <2>1. CASE StartBuild \/ ContractsDone \/ Ingested \/ SnapshotEnd \/ Planned \/ EnterWave \/ WaveOver
    BY <2>1
  <2>2. CASE SnapshotBegin \/ Crash
    BY <2>2 DEF SnapshotBegin, Crash
  <2>3. ASSUME NEW k \in Contracts, IngestContract(k) \/ ContractFails(k) PROVE G
    BY <2>3
  <2>4. ASSUME NEW r \in Repos, Ingest(r) \/ ReplanFails(r) PROVE G
    BY <2>4
  <2>5. ASSUME NEW r \in Repos, IngestFails(r) \/ PlanFails(r) \/ RootsFail(r) \/ GazelleFails(r) PROVE G
    BY <2>5
  <2>6. ASSUME NEW r \in Repos, Plan(r) PROVE G
    BY <2>6
  <2> QED  BY <1>1, <2>1, <2>2, <2>3, <2>4, <2>5, <2>6 DEF BuildCommandStep
<1>2. ASSUME NEW r \in Repos, WorkerStep(r) PROVE G
  BY <1>2, WorkerKeeps
<1>3. CASE \/ \E r \in Repos : LeaseExpires(r) \/ StartVerify(r)
           \/ PrepareVerify \/ RunVerify \/ UNCHANGED vars
  BY <1>3 DEF LeaseExpires, StartVerify, PrepareVerify, RunVerify, vars
<1> QED  BY <1>1, <1>2, <1>3, StepKinds

LEMMA HeadsOfCommand ==
  ASSUME TypeOK, WorkersOfWave, TreesBehind, Grows, BuildCommandStep,
         NEW r \in Repos, r \in c'.domain, IsCut(r)'
  PROVE  HeadBehind(r)'
<1> USE IdleFields, CommandEffect DEF monorepo, history
<1>1. ASSUME r \in c.domain, IsCut(r), tree'[r] = tree[r], c'.domain = c.domain,
             c'.pc \in {"plan", "roots", "gazelle"} => c.pc \in {"plan", "roots", "gazelle"}, UNCHANGED w
      PROVE  HeadBehind(r)'
  BY <1>1 DEF TreesBehind, HeadBehind, Behind, Grows, Owes
<1>2. CASE StartBuild \/ ContractsDone \/ SnapshotBegin \/ Crash
  BY <1>2 DEF IsCut, Dispatching, SnapshotBegin, Crash, TreesBehind, HeadBehind, Behind, Grows, Owes
<1>3. CASE Ingested
  BY <1>3 DEF IsCut, Dispatching
<1>4. CASE SnapshotEnd
  <2>1. c.pc = "resnapshot" /\ c'.pc = "replan" /\ UNCHANGED <<tree, w>> /\ c'.domain = c.domain
    BY <1>4 DEF IsCut, Dispatching, SnapshotEnd
  <2> QED  BY <1>1, <2>1 DEF IsCut, Dispatching
<1>5. CASE Planned
  <2>1. UNCHANGED <<tree, w>> /\ c'.domain = c.domain /\ IsCut(r)
    BY <1>5 DEF IsCut, Dispatching, Planned, SameDomain
  <2> QED  BY <1>1, <1>5, <2>1
<1>6. CASE EnterWave \/ WaveOver
  <2>1. UNCHANGED <<tree, w>> /\ c'.domain = c.domain /\ IsCut(r) /\ c'.pc \notin {"plan", "roots", "gazelle"}
    BY <1>6 DEF IsCut, Dispatching, EnterWave, WaveOver, SameDomain
  <2> QED  BY <1>1, <2>1
<1>7. ASSUME NEW k \in Contracts, IngestContract(k) \/ ContractFails(k) PROVE HeadBehind(r)'
  BY <1>7 DEF IsCut, Dispatching
<1>8. ASSUME NEW q \in Repos, Ingest(q) \/ ReplanFails(q) PROVE HeadBehind(r)'
  <2>1. UNCHANGED <<tree, w>> /\ c'.domain = c.domain /\ c'.pc = c.pc
    BY <1>8 DEF Ingest, ReplanFails, SameDomain
  <2>2. IsCut(r)
    BY <1>8 DEF IsCut, Dispatching
  <2> QED  BY <1>1, <2>1, <2>2
<1>9. ASSUME NEW q \in Repos, Plan(q) PROVE HeadBehind(r)'
  <2>1. UNCHANGED w /\ c'.domain = c.domain /\ c'.pc = c.pc /\ c'.todo = c.todo \ {q}
    BY <1>9 DEF Plan, SameDomain
  <2>2. CASE r = q
    <3>1. tree'[r].base = c.snap /\ tree'[r].head = c.snap
      BY <1>9, <2>2
    <3> QED  BY <3>1 DEF TreesBehind, HeadBehind, Behind, Grows
  <2>3. CASE r # q
    BY <1>1, <1>9, <2>1, <2>3 DEF IsCut, Dispatching
  <2> QED  BY <2>2, <2>3
<1>10. ASSUME NEW q \in Repos, IngestFails(q) \/ PlanFails(q) \/ RootsFail(q) \/ GazelleFails(q)
       PROVE  HeadBehind(r)'
  <2>1. /\ UNCHANGED <<w, tree>> /\ c'.pc = c.pc /\ c'.todo = c.todo \ {q} /\ c'.domain = c.domain \ {q}
        /\ c.pc \in {"ingest", "plan", "roots", "gazelle"}
    BY <1>10 DEF IngestFails, PlanFails, RootsFail, GazelleFails, Exclude
  <2>2. IsCut(r) /\ r \in c.domain /\ w[r].pc = "idle"
    BY <2>1 DEF IsCut, Dispatching, WorkersOfWave
  <2> QED  BY <2>1, <2>2 DEF TreesBehind, HeadBehind, Behind, Grows, Owes, IsCut, Dispatching
<1> QED
  BY <1>2, <1>3, <1>4, <1>5, <1>6, <1>7, <1>8, <1>9, <1>10 DEF BuildCommandStep


LEMMA HeadsOfWorker ==
  ASSUME TypeOK, WorkersOfWave, FaultedOutside, TreesBehind, Grows,
         NEW q \in Repos, WorkerStep(q), c' # IdleCommand,
         NEW r \in Repos, r \in c'.domain, IsCut(r)'
  PROVE  HeadBehind(r)'
<1> USE DEF monorepo, history
<1>0. c' = c /\ r \in c.domain /\ IsCut(r) /\ HeadBehind(r) /\ tree'[r].base = tree[r].base
  BY WorkerKeeps DEF IsCut, Dispatching, TreesBehind
<1>1. ASSUME tree'[r].head = tree[r].head, Owes(r) => Owes(r)' \/ r \in faulted' PROVE HeadBehind(r)'
  BY <1>0, <1>1 DEF HeadBehind, Behind, Grows
<1>2. CASE r # q
  <2>1. w'[r] = w[r] \/ w'[r] = IdleWorker
    BY <1>2, QuietWorker DEF Quiet
  <2>2. tree'[r].head = tree[r].head
    <3>1. CASE Stage(q)
      BY <1>2, <3>1 DEF Stage, TypeOK
    <3> QED  BY <3>1, WorkerKeeps
  <2>3. w'[r] = w[r]
    <3>1. CASE BuildInterrupted(q)
      BY <1>0, <3>1, InterruptEffect
    <3>2. CASE Build(q)
      BY <1>2, <3>2, BuildEffect, BuiltEffect DEF Only
    <3>3. CASE Start(q) \/ TakeMutex(q) \/ Complete(q)
      BY <1>2, <3>3 DEF Start, TakeMutex, Complete, TypeOK
    <3>4. CASE Stage(q) \/ StageFails(q) \/ MutexTimeout(q) \/ Land(q) \/ LandFails(q)
      BY <1>2, <3>4, StageEffect, FailedEffect, LandedEffect
      DEF Only, StageFails, MutexTimeout, LandFails
    <3> QED  BY <3>1, <3>2, <3>3, <3>4 DEF WorkerStep
  <2> QED  BY <1>1, <2>2, <2>3 DEF Owes
<1>3. CASE r = q /\ Stage(q)
  <2>1. tree'[r].head = Staged(r) /\ w[r].pc = "stage"
    BY <1>3 DEF Stage, TypeOK, Worktree
  <2>2. Staged(r).root \in {tree[r].head.root, c.domain}
    BY DEF Staged, RootDomain, TypeOK, Worktree, Tree
  <2>3. CASE Staged(r) = tree[r].head
    BY <1>1, <2>1, <2>3 DEF Owes
  <2>4. CASE Staged(r) # tree[r].head
    <3>1. Owes(r)'
      BY <1>3, <2>4, StageEffect DEF Owes
    <3> QED  BY <1>0, <2>1, <2>2, <3>1, <1>3 DEF HeadBehind, WorkersOfWave
  <2> QED  BY <2>3, <2>4
<1>4. CASE r = q /\ Land(q)
  <2>1. /\ w[r].pc = "land" /\ UNCHANGED <<tree, faulted>>
        /\ tip' = IF w[r].commit THEN Merged(r) ELSE tip
    BY <1>4 DEF Land
  <2>2. CASE w[r].commit
    BY <1>0, <2>1, <2>2, MergedEffect DEF HeadBehind, Behind
  <2>3. CASE ~w[r].commit
    BY <1>1, <2>1, <2>3 DEF Owes
  <2> QED  BY <2>2, <2>3
<1>5. CASE r = q /\ (LandFails(q) \/ MutexTimeout(q))
  BY <1>1, <1>5 DEF LandFails, MutexTimeout, Fault
<1>6. CASE r = q /\ (Start(q) \/ Build(q) \/ BuildInterrupted(q) \/ StageFails(q) \/ Complete(q))
  <2>1. w[r].pc \in {"idle", "build", "stage", "complete"}
    BY <1>6, BuildEffect, InterruptEffect DEF Start, StageFails, Complete
  <2>2. ~Stage(q)
    BY <1>6, <2>1, BuildEffect, InterruptEffect, StageEffect, FailedEffect
    DEF Stage, Start, StageFails, Complete
  <2> QED  BY <1>1, <1>6, <2>1, <2>2, WorkerKeeps DEF Owes
<1>7. CASE r = q /\ TakeMutex(q)
  <2>1. UNCHANGED tree /\ w'[r] = [w[r] EXCEPT !.pc = "land"] /\ w[r] \in Worker
    BY <1>7 DEF TakeMutex, TypeOK
  <2>2. w'[r].pc = "land" /\ w'[r].commit = w[r].commit
    BY <2>1 DEF Worker
  <2> QED  BY <1>1, <2>1, <2>2 DEF Owes
<1> QED  BY <1>2, <1>3, <1>4, <1>5, <1>6, <1>7 DEF WorkerStep

LEMMA NextTrees ==
  ASSUME TypeOK, WorkersOfWave, FaultedOutside, TreesBehind, Grows, [Next]_vars
  PROVE  TreesBehind'
<1> USE DEF monorepo, history
<1>0. /\ c \in Command /\ c' \in Command
  BY NextType DEF TypeOK
<1>1. Behind(c.snap)' /\ \A r \in Repos : Behind(tree[r].base)'
  BY SnapEffect DEF TreesBehind, Behind, Grows, Empty
<1>2. ASSUME NEW r \in Repos, r \in c'.domain, IsCut(r)' PROVE HeadBehind(r)'
  <2>1. CASE BuildCommandStep
    BY <1>2, <2>1, HeadsOfCommand
  <2>2. ASSUME NEW q \in Repos, WorkerStep(q) PROVE HeadBehind(r)'
    BY <1>2, <2>2, HeadsOfWorker, IdleFields
  <2>3. CASE \/ \E q \in Repos : LeaseExpires(q) \/ StartVerify(q)
             \/ PrepareVerify \/ RunVerify \/ UNCHANGED vars
    <3>1. UNCHANGED <<c, tree, w, tip, faulted>>
      BY <2>3 DEF LeaseExpires, StartVerify, PrepareVerify, RunVerify, vars
    <3> QED  BY <1>2, <3>1 DEF TreesBehind, HeadBehind, Behind, Owes, IsCut, Dispatching
  <2> QED  BY <2>1, <2>2, <2>3, StepKinds
<1> QED  BY <1>0, <1>1, <1>2 DEF TreesBehind, Command


\* PUBLISH is reached only over a green build, in this attempt or in the one whose
\* checkpoint owes PUBLISH.
Earned(r) ==
  /\ w[r].pc = "build" => ~chk[r]
  /\ chk[r] => green[r]
  /\ w[r].pc \in {"stage", "mutex", "land"} => green[r]
  /\ w[r].pc = "complete" /\ w[r].res \in {"ok", "partial"} => green[r]
  /\ Status(r) = SUCCEEDED => green[r]

OnBranch(r) == r \in tip.src \cap tip.gen \cap tip.root

\* How far PUBLISH has come for a repo none of whose git steps failed.
Published(r) ==
  /\ chk[r] => r \in faulted
  /\ w[r].pc = "complete" /\ w[r].res = "partial" => r \in faulted
  /\ r \notin faulted =>
       /\ w[r].pc = "stage" => w[r].module /\ tree[r].files
       /\ w[r].pc \in {"mutex", "land"} => r \in tree[r].head.gen /\ tree[r].head.root = c.domain
       /\ w[r].pc = "complete" /\ w[r].res = "ok" => OnBranch(r)
       /\ Status(r) = SUCCEEDED => OnBranch(r)

LEMMA QuietKeeps ==
  ASSUME Grows, NEW r \in Repos, Quiet(r), Earned(r), Published(r)
  PROVE  Earned(r)' /\ Published(r)'
BY IdleFields DEF Grows, Quiet, Earned, Published, OnBranch

\* The row of a worker that completes.
LEMMA CompleteEffect ==
  ASSUME TypeOK, NEW r \in Repos, Complete(r)
  PROVE  /\ w'[r] = IdleWorker /\ (chk'[r] <=> chk[r] \/ w[r].res = "partial")
         /\ Status(r)' = SUCCEEDED <=> w[r].res = "ok"
         /\ UNCHANGED <<tip, tree, c, green, faulted>>
<1> USE DEF monorepo, history
<1>1. row \in [Repos -> PhaseRow] /\ w \in [Repos -> Worker] /\ chk \in [Repos -> BOOLEAN]
  BY DEF TypeOK
<1>2. w'[r] = IdleWorker /\ (chk'[r] <=> chk[r] \/ w[r].res = "partial")
  BY <1>1 DEF Complete
<1> DEFINE to == CASE w[r].res = "ok" -> SUCCEEDED [] w[r].res = "fatal" -> RHI [] OTHER -> PENDING
<1>3. row'[r] = complete_phase(row[r], to)
  BY <1>1 DEF Complete
<1>4. to \in {SUCCEEDED, RHI, PENDING} /\ (to = SUCCEEDED <=> w[r].res = "ok")
  BY <1>1, StatusNames
<1> HIDE DEF to
<1>5. row'[r].status = SUCCEEDED <=> w[r].res = "ok"
  BY <1>1, <1>3, <1>4, RowEffect, StatusNames
<1> QED  BY <1>2, <1>5 DEF Complete, Status

LEMMA StartEffect ==
  ASSUME TypeOK, NEW r \in Repos, Start(r)
  PROVE  /\ w'[r].pc = IF chk[r] THEN "stage" ELSE "build"
         /\ Status(r) = PENDING /\ Status(r)' = RUNNING
         /\ c.pc = "run" /\ r \in Members \cap c.domain
         /\ UNCHANGED <<tip, tree, c, green, faulted, chk>>
BY RowEffect
DEF TypeOK, Start, IdleWorker, Dispatchable, Acquirable, Status, monorepo, history

LEMMA OwnBuild ==
  ASSUME TypeOK, NEW r \in Repos, Build(r)
  PROVE  /\ w[r].pc = "build" /\ tree'[r].files /\ UNCHANGED <<chk, row, faulted, tip, c>>
         /\ \/ w'[r].pc = "stage" /\ w'[r].module /\ green'[r]
            \/ w'[r].pc = "complete" /\ w'[r].res \notin {"ok", "partial"}
<1>0. tree \in [Repos -> Worktree] /\ green \in [Repos -> BOOLEAN]
  BY DEF TypeOK
<1>1. PICK verdict \in {"ok", "retry", "fatal"}, found \in BOOLEAN, lock \in BOOLEAN :
             Built(r, verdict, found, lock)
  BY BuildEffect
<1>2. /\ w[r].pc = "build" /\ tree'[r].files /\ green'[r] = found /\ (verdict = "ok" => found)
      /\ UNCHANGED <<chk, row, faulted, tip, c>>
  <2>1. /\ tree' = [tree EXCEPT ![r].files = TRUE] /\ green' = [green EXCEPT ![r] = found]
        /\ (verdict = "ok" => found) /\ UNCHANGED <<chk, row, faulted, tip, c>>
    BY <1>1 DEF Built
  <2>2. tree'[r].files
    BY <1>0, <2>1 DEF Worktree
  <2>3. green'[r] = found
    BY <1>0, <2>1
  <2> QED  BY <2>1, <2>2, <2>3, BuildEffect
<1>3. CASE verdict = "ok"
  BY <1>1, <1>2, <1>3, BuiltEffect
<1>4. CASE verdict # "ok"
  BY <1>1, <1>2, <1>4, BuiltEffect
<1> QED  BY <1>3, <1>4

LEMMA OwnEarned ==
  ASSUME TypeOK, WorkersOfWave, NEW r \in Repos, WorkerStep(r), Earned(r)
  PROVE  Earned(r)'
<1> USE IdleFields, StatusNames DEF monorepo, history
<1>1. CASE Start(r)
  BY <1>1, StartEffect DEF Earned
<1>2. CASE Build(r)
  <2>1. Status(r)' # SUCCEEDED /\ ~chk'[r]
    BY <1>2, OwnBuild DEF WorkersOfWave, Status, Earned
  <2> QED  BY <1>2, <2>1, OwnBuild DEF Earned
<1>3. CASE BuildInterrupted(r)
  BY <1>3, InterruptEffect DEF Earned, Status
<1>4. CASE Stage(r)
  BY <1>4, StageEffect DEF Stage, Earned, Status
<1>5. CASE StageFails(r) \/ MutexTimeout(r) \/ LandFails(r)
  BY <1>5, FailedEffect DEF StageFails, MutexTimeout, LandFails, Earned, Status
<1>6. CASE TakeMutex(r)
  BY <1>6 DEF TakeMutex, Earned, Status, TypeOK
<1>7. CASE Land(r)
  BY <1>7, LandedEffect DEF Land, Earned, Status
<1>8. CASE Complete(r)
  BY <1>8, CompleteEffect DEF Complete, Earned
<1> QED  BY <1>1, <1>2, <1>3, <1>4, <1>5, <1>6, <1>7, <1>8 DEF WorkerStep

LEMMA OwnPublished ==
  ASSUME TypeOK, WorkersOfWave, FaultedOutside, DomainMerged, TreesBehind, Grows,
         NEW r \in Repos, WorkerStep(r), Earned(r), Published(r)
  PROVE  Published(r)'
<1> USE IdleFields, StatusNames DEF monorepo, history
<1>0. w[r].pc # "idle" =>
        /\ Status(r) = RUNNING /\ r \in c.domain /\ r \in tip.src
        /\ Behind(tree[r].base) /\ HeadBehind(r)
  BY DEF WorkersOfWave, DomainMerged, TreesBehind, IsCut, Dispatching
<1>1. CASE Start(r)
  BY <1>1, StartEffect DEF Published
<1>2. CASE Build(r)
  BY <1>0, <1>2, OwnBuild DEF Published, Status
<1>3. CASE BuildInterrupted(r)
  BY <1>3, InterruptEffect DEF Published, Status, OnBranch
<1>4. CASE Stage(r)
  <2>1. /\ w[r].pc = "stage" /\ tree'[r].head = Staged(r) /\ UNCHANGED <<chk, row, faulted, tip, c>>
        /\ w[r] \in Worker
    BY <1>4 DEF Stage, TypeOK, Worktree
  <2>2. /\ Staged(r).gen = tree[r].head.gen \cup {r}
        /\ w[r].module => Staged(r).root = c.domain
    BY DEF Staged, RootDomain, TypeOK, Worktree, Tree
  <2>3. ASSUME r \notin faulted, Staged(r) = tree[r].head PROVE OnBranch(r)
    <3>1. Behind(tree[r].head) /\ tree[r].head.root = c.domain /\ r \in tree[r].head.gen
      BY <1>0, <2>1, <2>2, <2>3 DEF HeadBehind, Owes, Published
    <3> QED  BY <1>0, <2>1, <2>3, <3>1 DEF Behind, OnBranch
  <2> QED  BY <1>0, <1>4, <2>1, <2>2, <2>3, StageEffect DEF Published, Status, OnBranch
<1>5. CASE StageFails(r) \/ MutexTimeout(r) \/ LandFails(r)
  <2>1. /\ w'[r].pc = "complete" /\ w'[r].res = "partial" /\ UNCHANGED <<chk, row>>
        /\ w[r].pc # "idle"
    BY <1>5, FailedEffect DEF StageFails, MutexTimeout, LandFails
  <2>2. r \in faulted'
    BY <1>5 DEF StageFails, MutexTimeout, LandFails, Fault, Published, CanStage
  <2> QED  BY <2>1, <2>2 DEF Published
<1>6. CASE TakeMutex(r)
  BY <1>6 DEF TakeMutex, Published, Status, TypeOK, OnBranch
<1>7. CASE Land(r)
  <2>1. /\ w[r].pc = "land" /\ UNCHANGED <<chk, row, tree, faulted, c>>
        /\ tip' = IF w[r].commit THEN Merged(r) ELSE tip
        /\ w'[r].pc = "complete" /\ w'[r].res = "ok"
    BY <1>7, LandedEffect DEF Land
  <2>2. ASSUME r \notin faulted PROVE OnBranch(r)'
    <3>1. r \in tree[r].head.gen /\ r \in tree[r].head.root /\ r \in tip'.src
      BY <1>0, <2>1, <2>2 DEF Published, Grows
    <3>2. CASE w[r].commit
      BY <2>1, <2>2, <3>1, <3>2, MergedEffect DEF OnBranch
    <3>3. CASE ~w[r].commit
      BY <1>0, <2>1, <2>2, <3>1, <3>3 DEF HeadBehind, Behind, Owes, OnBranch
    <3> QED  BY <3>2, <3>3
  <2> QED  BY <1>0, <2>1, <2>2 DEF Published, Status
<1>8. CASE Complete(r)
  BY <1>8, CompleteEffect DEF Complete, Published, OnBranch
<1> QED  BY <1>1, <1>2, <1>3, <1>4, <1>5, <1>6, <1>7, <1>8 DEF WorkerStep


AllPublished == \A r \in Repos : Earned(r) /\ Published(r)

LEMMA NextPublished ==
  ASSUME TypeOK, WorkersOfWave, FaultedOutside, DomainMerged, TreesBehind, Grows, AllPublished, [Next]_vars
  PROVE  AllPublished'
<1>1. ASSUME NEW r \in Repos PROVE Earned(r)' /\ Published(r)'
  <2>1. Earned(r) /\ Published(r)
    BY DEF AllPublished
  <2> QED  BY <2>1, QuietOrOwn, QuietKeeps, OwnEarned, OwnPublished
<1> QED  BY <1>1 DEF AllPublished

-----------------------------------------------------------------------------
(* What a wave is built on *)

Done(q) == Status(q) = SUCCEEDED /\ q \notin faulted

\* No worker has run since the snapshot.
Unused == c.pc \in {"plan", "roots", "gazelle", "replan"} \/ (c.pc = "wave" /\ ~c.published)

\* Every worktree of the domain was cut from the snapshot.
AllFresh == c.pc \in {"roots", "gazelle"} \/ (c.pc = "wave" /\ ~c.published)

\* The snapshot holds what is published, but for the open wave's own; the worktree of
\* a member that may run or runs was cut from it.
SnapFresh ==
  /\ Unused => \A q \in Repos : Done(q) => q \in c.snap.gen
  /\ c.pc = "run" => \A q \in Repos : Done(q) /\ wave[q] # c.wave => q \in c.snap.gen
  /\ AllFresh => \A r \in c.domain : tree[r].base = c.snap
  /\ c.pc = "plan" => \A r \in c.domain \ c.todo : tree[r].base = c.snap
  /\ c.pc = "replan" => \A r \in (Members \cap c.domain) \ c.todo :
                          Status(r) = PENDING => tree[r].base = c.snap
  /\ c.pc = "run" => \A r \in Members \cap c.domain :
                          Status(r) = PENDING \/ w[r].pc # "idle" => tree[r].base = c.snap

\* A plan never changes under a build.
LEMMA WavesFixed ==
  ASSUME TypeOK, [Next]_vars
  PROVE  UNCHANGED wave
<1>1. CASE BuildCommandStep
  BY <1>1
  DEF BuildCommandStep, StartBuild, Ingested, SnapshotBegin, SnapshotEnd, Planned, EnterWave, WaveOver,
      Crash, ContractsDone, IngestContract, ContractFails, Ingest, IngestFails, Plan, PlanFails,
      RootsFail, GazelleFails, ReplanFails, Exclude
<1>2. ASSUME NEW r \in Repos, WorkerStep(r) PROVE UNCHANGED wave
  BY <1>2, WorkerKeeps
<1>3. CASE \/ \E r \in Repos : LeaseExpires(r) \/ StartVerify(r)
           \/ PrepareVerify \/ RunVerify \/ UNCHANGED vars
  BY <1>3 DEF LeaseExpires, StartVerify, PrepareVerify, RunVerify, vars
<1> QED  BY <1>1, <1>2, <1>3, StepKinds

\* A worker moves only in its wave, from a row that was PENDING or already its own.
LEMMA WorkerMoves ==
  ASSUME TypeOK, WorkersOfWave, NEW r \in Repos, WorkerStep(r)
  PROVE  /\ c.pc = "run" /\ r \in Members \cap c.domain
         /\ Status(r) = PENDING \/ w[r].pc # "idle"
<1>1. CASE Start(r)
  BY <1>1, StartEffect
<1>2. CASE ~Start(r)
  <2>1. w[r].pc # "idle"
    BY <1>2, BuildEffect, InterruptEffect
    DEF WorkerStep, Stage, StageFails, TakeMutex, MutexTimeout, Land, LandFails, Complete
  <2> QED  BY <2>1 DEF WorkersOfWave, Members
<1> QED  BY <1>1, <1>2

LEMMA SnapOfCommand ==
  ASSUME TypeOK, WorkersOfWave, AllPublished, FaultedOutside, SnapFresh, BuildCommandStep,
         UNCHANGED wave
  PROVE  SnapFresh'
<1> USE IdleFields, CommandEffect DEF monorepo, history, SameDomain, SameWave
<1>0. \A q \in Repos : /\ Done(q)' => Done(q)
                       /\ c.pc # "idle" /\ Status(q)' = PENDING => Status(q) = PENDING
  BY QuietCommand DEF Quiet, Done
<1>1. ASSUME c'.pc \in {"idle", "contracts", "ingest", "snapshot", "resnapshot"} PROVE SnapFresh'
  BY <1>1 DEF SnapFresh, Unused, AllFresh
<1>2. CASE StartBuild \/ ContractsDone \/ Ingested \/ SnapshotBegin \/ Crash
  BY <1>1, <1>2 DEF SnapshotBegin, Crash
<1>3. CASE SnapshotEnd
  <2>1. \A q \in Repos : Done(q)' => q \in c'.snap.gen
    BY <1>0, <1>3 DEF AllPublished, Published, Done, OnBranch
  <2>2. Members' = Members
    BY <1>3 DEF Members
  <2> QED  BY <1>3, <2>1, <2>2 DEF SnapFresh, Unused, AllFresh
<1>4. CASE Planned
  <2>1. UNCHANGED <<tree, w, row, faulted>> /\ c'.snap = c.snap /\ c'.domain = c.domain /\ c.todo = {}
    BY <1>4 DEF Planned
  <2>2. CASE c.pc = "replan" /\ c'.pc = "run" /\ c'.wave = c.wave
    <3>1. Members' = Members /\ \A r \in Repos : w[r].pc = "idle"
      BY <2>2 DEF Members, WorkersOfWave
    <3>2. Members \subseteq Repos
      BY DEF Members
    <3> QED  BY <1>0, <2>1, <2>2, <3>1, <3>2 DEF SnapFresh, Unused, AllFresh, Status
  <2>3. CASE (c.pc = "plan" /\ c'.pc = "roots") \/ (c.pc = "roots" /\ c'.pc = "gazelle")
    BY <1>0, <2>1, <2>3 DEF SnapFresh, Unused, AllFresh
  <2>4. CASE c.pc = "gazelle" /\ c'.pc = "wave"
    BY <1>0, <2>1, <2>4 DEF SnapFresh, Unused, AllFresh
  <2> QED  BY <1>4, <2>2, <2>3, <2>4
<1>5. CASE EnterWave
  <2>1. UNCHANGED <<tree, w, row, faulted>> /\ c.pc = "wave"
    BY <1>5 DEF EnterWave
  <2>2. CASE c'.pc = "wave" /\ SameDomain /\ c'.published = c.published
    BY <1>0, <2>1, <2>2 DEF SnapFresh, Unused, AllFresh
  <2>3. CASE c'.pc = "run" /\ SameDomain /\ SameWave /\ ~c.published
    BY <1>0, <2>1, <2>3 DEF SnapFresh, Unused, AllFresh, Members
  <2> QED  BY <1>1, <1>5, <2>2, <2>3
<1>6. CASE WaveOver
  BY <1>6 DEF SnapFresh, Unused, AllFresh
<1>7. ASSUME NEW k \in Contracts, IngestContract(k) \/ ContractFails(k) PROVE SnapFresh'
  BY <1>1, <1>7
<1>8. ASSUME NEW r \in Repos, Ingest(r) PROVE SnapFresh'
  BY <1>1, <1>8
<1>9. ASSUME NEW r \in Repos, Plan(r) PROVE SnapFresh'
  <2>1. /\ c'.pc = c.pc /\ c'.snap = c.snap /\ c'.domain = c.domain /\ c'.todo = c.todo \ {r}
        /\ c.pc \in {"plan", "replan"} /\ Members' = Members
    BY <1>9 DEF Members
  <2>2. /\ tree'[r].base = c.snap
        /\ \A q \in Repos \ {r} : tree'[q] = tree[q]
    BY <1>9
  <2>3. c.domain \subseteq Repos
    BY DEF TypeOK, Command
  <2> QED  BY <1>0, <2>1, <2>2, <2>3 DEF SnapFresh, Unused, AllFresh
<1>10. ASSUME NEW r \in Repos, IngestFails(r) \/ PlanFails(r) \/ RootsFail(r) \/ GazelleFails(r)
       PROVE  SnapFresh'
  <2>1. /\ c'.pc = c.pc /\ c'.snap = c.snap /\ c'.domain = c.domain \ {r} /\ c'.todo = c.todo \ {r}
        /\ c.pc \in {"ingest", "plan", "roots", "gazelle"} /\ UNCHANGED tree
    BY <1>10
  <2> QED  BY <1>0, <2>1 DEF SnapFresh, Unused, AllFresh
<1>11. ASSUME NEW r \in Repos, ReplanFails(r) PROVE SnapFresh'
  <2>1. /\ c'.pc = c.pc /\ c'.snap = c.snap /\ c'.domain = c.domain /\ c'.todo = c.todo \ {r}
        /\ c.pc = "replan" /\ UNCHANGED tree /\ Members' = Members
    BY <1>11 DEF Members
  <2>2. Status(r)' # PENDING
    BY <1>11, RowEffect DEF ReplanFails, Status, TypeOK
  <2>3. c.domain \subseteq Repos
    BY DEF TypeOK, Command
  <2> QED  BY <1>0, <2>1, <2>2, <2>3 DEF SnapFresh, Unused, AllFresh
<1> QED
  BY <1>2, <1>3, <1>4, <1>5, <1>6, <1>7, <1>8, <1>9, <1>10, <1>11 DEF BuildCommandStep

LEMMA NextSnap ==
  ASSUME TypeOK, WorkersOfWave, AllPublished, FaultedOutside, SnapFresh, [Next]_vars
  PROVE  SnapFresh'
<1> USE DEF monorepo, history
<1>0. UNCHANGED wave /\ faulted \subseteq faulted'
  BY WavesFixed, FaultedGrows
<1>1. CASE BuildCommandStep
  BY <1>0, <1>1, SnapOfCommand
<1>2. ASSUME NEW r \in Repos, WorkerStep(r) PROVE SnapFresh'
  <2>1. CASE c' = IdleCommand
    BY <2>1, IdleFields DEF SnapFresh, Unused, AllFresh
  <2>2. CASE c' = c
    <3>1. /\ c.pc = "run" /\ r \in Members \cap c.domain /\ Members' = Members
          /\ Status(r) = PENDING \/ w[r].pc # "idle"
      BY <1>0, <1>2, <2>2, WorkerMoves DEF Members
    <3>2. \A q \in Repos : tree'[q].base = tree[q].base
      BY <1>2, WorkerKeeps
    <3>3. ASSUME NEW q \in Repos, q # r
          PROVE  /\ Done(q)' => Done(q)
                 /\ Status(q)' = PENDING \/ w'[q].pc # "idle" => Status(q) = PENDING \/ w[q].pc # "idle"
      BY <1>0, <1>2, <3>1, <3>3, QuietWorker, IdleFields DEF Quiet, Done
    <3> QED  BY <1>0, <2>2, <3>1, <3>2, <3>3 DEF SnapFresh, Unused, AllFresh, Members
  <2> QED  BY <1>2, <2>1, <2>2, WorkerKeeps
<1>3. ASSUME NEW r \in Repos, LeaseExpires(r) PROVE SnapFresh'
  <2>1. \A q \in Repos : Status(q)' = Status(q)
    BY <1>3, RowEffect DEF LeaseExpires, Status, TypeOK
  <2> QED  BY <1>3, <2>1 DEF LeaseExpires, SnapFresh, Unused, AllFresh, Members, Done
<1>4. CASE (\E r \in Repos : StartVerify(r)) \/ PrepareVerify \/ RunVerify \/ UNCHANGED vars
  BY <1>4
  DEF StartVerify, PrepareVerify, RunVerify, vars, SnapFresh, Unused, AllFresh, Members, Done, Status
<1> QED  BY <1>1, <1>2, <1>3, <1>4, StepKinds


-----------------------------------------------------------------------------
(* The theorems *)

IInv ==
  /\ TypeOK /\ WorkersOfWave /\ MutexHeld
  /\ MergesRecorded /\ HoistedMerged /\ ContractKept /\ DomainMerged
  /\ FaultedOutside /\ TreesBehind /\ AllPublished /\ SnapFresh

LEMMA InitInvariant == Init => IInv
<1> SUFFICES ASSUME Init PROVE IInv
  OBVIOUS
<1> USE IdleFields, StatusNames DEF Init
<1>1. TypeOK
  BY InitType
<1>2. WorkersOfWave /\ MutexHeld
  BY ActorAssumption DEF WorkersOfWave, MutexHeld, Free
<1>3. MergesRecorded /\ HoistedMerged
  BY DEF MergesRecorded, HoistedMerged, Empty
<1>4. ContractKept
  BY DEF ContractKept, Empty
<1>5. DomainMerged /\ FaultedOutside
  BY DEF DomainMerged, FaultedOutside, Dispatching, IsCut
<1>6. TreesBehind
  BY DEF TreesBehind, Behind, Empty
<1>7. AllPublished
  BY DEF AllPublished, Earned, Published, Status, FreshRow
<1>8. SnapFresh
  BY DEF SnapFresh, Unused, AllFresh
<1> QED  BY <1>1, <1>2, <1>3, <1>4, <1>5, <1>6, <1>7, <1>8 DEF IInv

LEMMA NextInvariant == IInv /\ [Next]_vars => IInv'
<1> SUFFICES ASSUME IInv, [Next]_vars PROVE IInv'
  OBVIOUS
<1> USE DEF IInv
<1>1. TypeOK' /\ WorkersOfWave' /\ MutexHeld'
  BY NextType, NextWorkers, NextMutex
<1>2. MergesRecorded' /\ HoistedMerged' /\ ContractKept' /\ DomainMerged'
  BY NextSources, NextDomain
<1>3. Grows
  BY NextGrows
<1>4. FaultedOutside' /\ TreesBehind' /\ AllPublished' /\ SnapFresh'
  BY <1>3, NextFaulted, NextTrees, NextPublished, NextSnap
<1> QED  BY <1>1, <1>2, <1>4

LEMMA Invariant == Spec => []IInv
<1> QED  BY InitInvariant, NextInvariant, PTL DEF Spec

\* The integration branch has one writer at a time: the snapshots of `fleet build` and
\* of `fleet verify` and the merge of each worker exclude each other, across crashes
\* (IntegrationMutex).
THEOREM OneWriterAlways == Spec => []OneWriter
<1>1. IInv => OneWriter
  BY ActorAssumption DEF IInv, MutexHeld, OneWriter, Writers
<1> QED  BY <1>1, Invariant, PTL

\* However often a build is cut off and run again, the history of a repo or contract is
\* merged once (already_ingested over the trailers).
THEOREM OneMergePerSourceAlways == Spec => []OneMergePerSource
<1>1. IInv => OneMergePerSource
  BY DEF IInv, MergesRecorded, OneMergePerSource
<1> QED  BY <1>1, Invariant, PTL

\* Between the ingest of a contract and the ingest of its owner, in any order and with
\* any of them failing, the contract's files are never dropped from the branch.
THEOREM ContractsAreKept == Spec => []ContractKept
<1>1. IInv => ContractKept
  BY DEF IInv
<1> QED  BY <1>1, Invariant, PTL

\* A dispatched worktree holds the sources of every unit the root files describe:
\* _check_root_file_domain never trips.
THEOREM DomainIsMergedAlways == Spec => []DomainIsMerged
<1>1. IInv => DomainIsMerged
  BY DEF IInv, DomainIsMerged, RootFileDomainHolds, DomainMerged, WorkersOfWave, IsCut, Dispatching
<1> QED  BY <1>1, Invariant, PTL

\* BUILD is SUCCEEDED only over a build that was green, whatever was retried, resumed
\* from a checkpoint or cut off in between.
THEOREM OnlyGreenSucceedsAlways == Spec => []OnlyGreenSucceeds
<1>1. IInv => OnlyGreenSucceeds
  BY DEF IInv, AllPublished, Earned, OnlyGreenSucceeds
<1> QED  BY <1>1, Invariant, PTL

\* A repo that is SUCCEEDED, and none of whose git steps failed, has its source, its
\* package and its entry of the root module file on the integration branch, and no
\* later merge of another worktree takes them away.
THEOREM SucceededIsPublished == Spec => []PublishedUnlessFaulted
<1>1. IInv => PublishedUnlessFaulted
  BY DEF IInv, AllPublished, Published, OnBranch, PublishedUnlessFaulted
<1> QED  BY <1>1, Invariant, PTL

\* A repo is built in a worktree that holds the packages every earlier wave published:
\* the snapshot between the waves and the second cut of the worktrees.
THEOREM WaveSeesPublishedAlways == Spec => []WaveSeesPublished
<1>1. ASSUME IInv, NEW r \in Repos, NEW q \in Repos, w[r].pc = "build", wave[q] < wave[r],
             Status(q) = SUCCEEDED, q \notin faulted
      PROVE  q \in tree[r].base.gen
  <2>1. c.pc = "run" /\ r \in c.domain /\ wave[r] = c.wave /\ r \in Members
    BY <1>1 DEF IInv, WorkersOfWave, Members
  <2>2. tree[r].base = c.snap
    BY <1>1, <2>1 DEF IInv, SnapFresh
  <2>3. wave[q] # c.wave
    BY <1>1, <2>1 DEF IInv, TypeOK, Waves
  <2> QED  BY <1>1, <2>1, <2>2, <2>3 DEF IInv, SnapFresh, Done
<1>2. IInv => WaveSeesPublished
  BY <1>1 DEF WaveSeesPublished
<1> QED  BY <1>2, Invariant, PTL

=============================================================================
