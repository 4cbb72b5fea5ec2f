------------------------- MODULE PhaseRunnerProofs -------------------------
(* Theorems about PhaseRunner, for any number of processes and repos. *)
EXTENDS PhaseRunner, TLAPS

-----------------------------------------------------------------------------
(* Who takes a step: a command as a whole, one of its members, something    *)
(* that happens to one row from outside, or anybody else.                   *)

CommandStep(p) ==
  \/ StartCommand(p) \/ SweepRead(p) \/ SweepOne(p) \/ FirstWave(p) \/ OpenWave(p)
  \/ WaveReturns(p) \/ StubRecord(p) \/ NextWave(p) \/ Halt(p) \/ Crash(p)

MemberStep(p, r) ==
  \/ AbandonRepo(p, r) \/ Admit(p, r) \/ Drive(p, r) \/ TaskStep(p, r)
  \/ Heartbeat(p, r) \/ StubDegrade(p, r)

OutsideStep(r) ==
  \/ ExpireLease(r) \/ ExpireHold(r) \/ ResetStaleRunning(r) \/ Unblock(r)
  \/ Retry(r) \/ Demote(r) \/ StubVerdict(r)
  \/ QuarantineRead(r) \/ QuarantineWrite(r) \/ QuarantineBlock(r)

FleetStep ==
  \/ \E e \in Repos \X Repos : ContainedElsewhere(e) \/ StubRecorded(e) \/ StubMoves(e)
  \/ AppendWave \/ AbortRecord \/ AbortReset

LEMMA NextCases ==
  ASSUME [Next]_vars
  PROVE  \/ \E p \in Procs : CommandStep(p)
         \/ \E p \in Procs, r \in Repos : MemberStep(p, r)
         \/ \E r \in Repos : OutsideStep(r)
         \/ FleetStep
         \/ UNCHANGED vars
  BY DEF Next, CommandStep, MemberStep, OutsideStep, FleetStep

-----------------------------------------------------------------------------
(* The transactions on a row of `phases` *)

\* Every transaction on a row leaves a row.
LEMMA RowOperatorsType ==
  ASSUME NEW row \in PhaseRow
  PROVE  /\ acquire_phase_lease(row) \in PhaseRow
         /\ renew_phase_lease(row) \in PhaseRow
         /\ ReclaimLease(row) \in PhaseRow
         /\ \A t \in {SUCCEEDED, PENDING, RHI} :
              /\ CompletionTarget(row, t) \in {SUCCEEDED, PENDING, RHI}
              /\ complete_phase(row, t) \in PhaseRow
         /\ terminate_uncharged(row, RHI) \in PhaseRow
         /\ \A n \in Nat : record_diagnostics(row, n) \in PhaseRow
         /\ \A b \in Repos : append_blocked_by(row, b) \in PhaseRow
         /\ \A removed : clear_blocked_by(row, removed) \in PhaseRow
         /\ reopen_to_pending(row) \in PhaseRow
         /\ quarantine_movable(row) \in PhaseRow
         /\ demote(row) \in PhaseRow
         /\ stub_degrade_transform(row) \in PhaseRow
         /\ \A s \in {SUCCEEDED, RHI} : apply_stub_consumer_status(row, s) \in PhaseRow
         /\ abandon_repo(row) \in PhaseRow
         /\ abort_reset(row) \in PhaseRow
         /\ [row EXCEPT !.lease = "expired"] \in PhaseRow
         /\ [row EXCEPT !.fence = @ + 1] \in PhaseRow
  <1> USE DEF PhaseRow, RepoStatus, LeaseState, PENDING, RUNNING, SUCCEEDED,
              BLOCKED, DEGRADED, RHI, SKIPPED
  <1>a. row.fence + 1 \in Nat /\ row.attempts + 1 \in Nat
    OBVIOUS
  <1>1. /\ acquire_phase_lease(row) \in PhaseRow
        /\ renew_phase_lease(row) \in PhaseRow
        /\ ReclaimLease(row) \in PhaseRow
    BY <1>a DEF acquire_phase_lease, renew_phase_lease, ReclaimLease
  <1>2. \A t \in {SUCCEEDED, PENDING, RHI} :
          CompletionTarget(row, t) \in {SUCCEEDED, PENDING, RHI}
    BY DEF CompletionTarget
  <1>3. \A t \in {SUCCEEDED, PENDING, RHI} : complete_phase(row, t) \in PhaseRow
    BY <1>a, <1>2 DEF complete_phase
  <1>4. /\ terminate_uncharged(row, RHI) \in PhaseRow
        /\ \A n \in Nat : record_diagnostics(row, n) \in PhaseRow
        /\ \A b \in Repos : append_blocked_by(row, b) \in PhaseRow
    BY DEF terminate_uncharged, record_diagnostics, append_blocked_by
  <1>5. \A removed : clear_blocked_by(row, removed) \in PhaseRow
    BY DEF clear_blocked_by
  <1>6. /\ reopen_to_pending(row) \in PhaseRow
        /\ quarantine_movable(row) \in PhaseRow
        /\ abandon_repo(row) \in PhaseRow
    BY <1>a DEF reopen_to_pending, quarantine_movable, abandon_repo
  <1>9. /\ demote(row) \in PhaseRow
        /\ stub_degrade_transform(row) \in PhaseRow
        /\ \A s \in {SUCCEEDED, RHI} : apply_stub_consumer_status(row, s) \in PhaseRow
    BY DEF demote, stub_degrade_transform, apply_stub_consumer_status
  <1>7. abort_reset(row) \in PhaseRow
    BY <1>1 DEF abort_reset
  <1>8. /\ [row EXCEPT !.lease = "expired"] \in PhaseRow
        /\ [row EXCEPT !.fence = @ + 1] \in PhaseRow
    OBVIOUS
  <1> QED BY <1>1, <1>2, <1>3, <1>4, <1>5, <1>6, <1>7, <1>8, <1>9

\* What the transactions do to the columns the effects mention.
LEMMA RowOperatorsEffect ==
  ASSUME NEW row \in PhaseRow
  PROVE  /\ LET new == acquire_phase_lease(row)
            IN  /\ new.status = RUNNING /\ new.fence = row.fence + 1
                /\ new.attempts = row.attempts
         /\ LET new == renew_phase_lease(row)
            IN  /\ new.status = row.status /\ new.fence = row.fence
                /\ new.attempts = row.attempts
         /\ LET new == ReclaimLease(row)
            IN  /\ new.status = PENDING /\ new.fence = row.fence + 1
                /\ new.attempts = row.attempts
         /\ \A t : LET new == complete_phase(row, t)
                   IN  /\ new.status = CompletionTarget(row, t)
                       /\ new.fence = row.fence /\ new.attempts = row.attempts + 1
         /\ LET new == terminate_uncharged(row, RHI)
            IN  /\ new.status = RHI /\ new.fence = row.fence
                /\ new.attempts = row.attempts
         /\ \A n : LET new == record_diagnostics(row, n)
                   IN  /\ new.status = row.status /\ new.fence = row.fence
                       /\ new.attempts = row.attempts
         /\ LET new == reopen_to_pending(row)
            IN  /\ new.status = PENDING /\ new.fence = row.fence
                /\ new.attempts = row.attempts
         /\ LET new == [row EXCEPT !.lease = "expired"]
            IN  /\ new.status = row.status /\ new.fence = row.fence
                /\ new.attempts = row.attempts
         /\ LET new == [row EXCEPT !.fence = @ + 1]
            IN  /\ new.status = row.status /\ new.fence = row.fence + 1
                /\ new.attempts = row.attempts
  BY DEF PhaseRow, acquire_phase_lease, renew_phase_lease, ReclaimLease, complete_phase,
         terminate_uncharged, record_diagnostics, reopen_to_pending

-----------------------------------------------------------------------------
(* Types *)

LEMMA DescendantsType == \A r \in Repos : Descendants(r) \subseteq Repos
  BY DEF Descendants

LEMMA TaskOperatorsType ==
  ASSUME NEW t \in Task, NEW r \in Repos
  PROVE  /\ Idle \in Task
         /\ Done \in Task
         /\ Containing(r) \in Task
         /\ decide(t) \in Task
         /\ \A written : AfterComplete(t, r, written) \in Task
         /\ \A pc \in Pc : [t EXCEPT !.pc = pc] \in Task
         /\ \A pc \in Pc, o \in Outcome : [t EXCEPT !.pc = pc, !.outcome = o] \in Task
         /\ \A pc \in Pc, n \in Nat : [t EXCEPT !.pc = pc, !.fence = n] \in Task
         /\ \A pc \in Pc, n, m \in Nat :
              [t EXCEPT !.pc = pc, !.attempts = n, !.transient = m] \in Task
         /\ \A d : [t EXCEPT !.todo = @ \ {d}] \in Task
  <1> USE DEF Task
  <1>a. t.attempts + 1 \in Nat /\ t.transient + 1 \in Nat
    OBVIOUS
  <1>b. Descendants(r) \in SUBSET Repos
    BY DescendantsType
  <1>c. /\ {"idle", "done", "contain", "terminate", "halt", "renew", "complete",
            "acquire"} \subseteq Pc
        /\ {"none", "exhausted", "advance"} \subseteq Outcome
    BY DEF Pc, Outcome
  <1>1. Idle \in Task
    BY <1>c DEF Idle
  <1>2. Done \in Task
    BY <1>1, <1>c DEF Done
  <1>3. decide(t) \in Task
    BY <1>a, <1>c DEF decide
  <1>4. Containing(r) \in Task
    BY <1>1, <1>b, <1>c DEF Containing
  <1>5. \A written : AfterComplete(t, r, written) \in Task
    BY <1>a, <1>c, <1>2, <1>4 DEF AfterComplete
  <1>6. /\ \A pc \in Pc : [t EXCEPT !.pc = pc] \in Task
        /\ \A pc \in Pc, o \in Outcome : [t EXCEPT !.pc = pc, !.outcome = o] \in Task
        /\ \A pc \in Pc, n \in Nat : [t EXCEPT !.pc = pc, !.fence = n] \in Task
        /\ \A pc \in Pc, n, m \in Nat :
             [t EXCEPT !.pc = pc, !.attempts = n, !.transient = m] \in Task
        /\ \A d : [t EXCEPT !.todo = @ \ {d}] \in Task
    OBVIOUS
  <1> QED BY <1>1, <1>2, <1>3, <1>4, <1>5, <1>6

LEMMA InitType == Init => TypeOK
  <1> SUFFICES ASSUME Init PROVE TypeOK
    OBVIOUS
  <1>1. FreshRow \in PhaseRow
    BY DEF FreshRow, PhaseRow, RepoStatus, LeaseState, PENDING
  <1>2. Idle \in Task
    BY DEF Idle, Task, Pc, Outcome
  <1>3. NoOp \in Op
    BY DEF NoOp, Op
  <1>4. /\ phase \in 2..4 /\ wave_of \in [Repos -> Nat]
        /\ freed \in SUBSET Repos /\ reopened \in [Repos -> Nat]
    BY RunnerAssumption DEF Init
  <1>5. stub \in [Repos \X Repos -> {"none", "ACTIVE", "closed"}]
    BY DEF Init
  <1> QED BY <1>1, <1>2, <1>3, <1>4, <1>5 DEF Init, TypeOK

\* What SetRow and SetTask do to the types of the two tables.
LEMMA SetType ==
  ASSUME TypeOK, NEW p \in Procs, NEW r \in Repos
  PROVE  /\ phases[r] \in PhaseRow /\ task[p, r] \in Task
         /\ \A row \in PhaseRow : SetRow(r, row) => phases' \in [Repos -> PhaseRow]
         /\ \A t \in Task : SetTask(p, r, t) => task' \in [Procs \X Repos -> Task]
         /\ Return(p, r) => task' \in [Procs \X Repos -> Task]
         /\ \A pc \in Pc : Goto(p, r, pc) => task' \in [Procs \X Repos -> Task]
         /\ \A pc \in Pc, o \in Outcome :
              GotoWith(p, r, pc, o) => task' \in [Procs \X Repos -> Task]
  <1>1. phases[r] \in PhaseRow /\ task[p, r] \in Task
    BY DEF TypeOK
  <1>2. \A row \in PhaseRow : SetRow(r, row) => phases' \in [Repos -> PhaseRow]
    BY DEF TypeOK, SetRow
  <1>3. \A t \in Task : SetTask(p, r, t) => task' \in [Procs \X Repos -> Task]
    BY DEF TypeOK, SetTask
  <1> QED BY <1>1, <1>2, <1>3, TaskOperatorsType DEF Return, Goto, GotoWith

LEMMA FaultType == TypeOK /\ (Fault \/ UNCHANGED faults) => faults' \in Nat
  <1>1. TypeOK => faults \in Nat
    BY DEF TypeOK
  <1> QED BY <1>1 DEF Fault

LEMMA ReleaseType ==
  ASSUME TypeOK, NEW p \in Procs, NEW r \in Repos, Release(p, r) \/ UNCHANGED holds
  PROVE  holds' \in [Repos -> SUBSET Hold]
  <1>1. holds \in [Repos -> SUBSET Hold]
    BY DEF TypeOK
  <1> QED BY <1>1 DEF Release

LEMMA StoppedType ==
  ASSUME TypeOK, NEW p \in Procs, Stopped(p)
  PROVE  /\ cmd' \in [Procs -> {"down", "reaped", "sweep", "prepare", "wave", "report"}]
         /\ waves' \in [Procs -> SUBSET Nat]
         /\ pairs' \in [Procs -> SUBSET (Repos \X Repos)]
         /\ stub_blocked' \in [Procs -> BOOLEAN]
         /\ task' \in [Procs \X Repos -> Task]
  <1>1. Idle \in Task
    BY DEF Idle, Task, Pc, Outcome
  <1> QED BY <1>1 DEF TypeOK, Stopped, ClearTasks

LEMMA EnterWaveType ==
  ASSUME TypeOK, NEW p \in Procs, NEW left \in SUBSET Nat, EnterWave(p, left)
  PROVE  /\ cmd' \in [Procs -> {"down", "reaped", "sweep", "prepare", "wave", "report"}]
         /\ waves' \in [Procs -> SUBSET Nat]
         /\ pairs' \in [Procs -> SUBSET (Repos \X Repos)]
         /\ stub_blocked' \in [Procs -> BOOLEAN]
         /\ task' \in [Procs \X Repos -> Task]
  <1>1. Idle \in Task
    BY DEF Idle, Task, Pc, Outcome
  <1>2. CASE left = {}
    BY <1>2, StoppedType DEF EnterWave
  <1>3. CASE left # {}
    BY <1>1, <1>3, ZenonT(30) DEF TypeOK, EnterWave, ClearTasks
  <1> QED BY <1>2, <1>3

LEMMA CommandType ==
  ASSUME TypeOK, NEW p \in Procs, CommandStep(p)
  PROVE  TypeOK'
  <1>w. Waves \subseteq Nat /\ OpenWaves \subseteq Nat
    BY DEF TypeOK, Waves, OpenWaves
  <1>1. CASE StartCommand(p)
    <2>1. ASSUME NEW r \in Repos PROVE Reaped(phases[r], holds[r]) \in PhaseRow
      <3>1. ReclaimLease(phases[r]) \in PhaseRow /\ phases[r] \in PhaseRow
        BY RowOperatorsType DEF TypeOK
      <3> QED BY <3>1, RowOperatorsType DEF Reaped
    <2>2. waves' \in [Procs -> SUBSET Nat]
      <3>1. PICK ws \in {OpenWaves} \cup {{w} : w \in Waves \cap WaveFlags} :
                   waves' = [waves EXCEPT ![p] = ws]
        BY <1>1 DEF StartCommand
      <3>2. ws \subseteq Nat
        BY <1>w
      <3> QED BY <3>1, <3>2 DEF TypeOK
    <2>3. stub_blocked' \in [Procs -> BOOLEAN]
      BY <1>1, RunnerAssumption DEF StartCommand, TypeOK
    <2> QED BY <1>1, <2>1, <2>2, <2>3 DEF StartCommand, TypeOK, opVars, fleetVars
  <1>8. CASE SweepRead(p)
    <2>1. Owed(phases, stub) \subseteq Repos \X Repos
      BY DEF Owed
    <2> QED BY <1>8, <2>1 DEF SweepRead, TypeOK, opVars, fleetVars
  <1>2. CASE SweepOne(p)
    <2>1. PICK e \in pairs[p] :
            /\ SetRow(e[2], append_blocked_by(phases[e[2]], e[1]))
            /\ pairs' = [pairs EXCEPT ![p] = @ \ {e}]
      BY <1>2 DEF SweepOne
    <2>2. e[1] \in Repos /\ e[2] \in Repos
      BY DEF TypeOK
    <2>3. phases' \in [Repos -> PhaseRow]
      BY <2>1, <2>2, RowOperatorsType, SetType
    <2> QED BY <1>2, <2>1, <2>3 DEF SweepOne, TypeOK, opVars, fleetVars
  <1>3. CASE FirstWave(p)
    <2>1. waves[p] \in SUBSET Nat
      BY DEF TypeOK
    <2> QED BY <1>3, <2>1, EnterWaveType DEF FirstWave, TypeOK, opVars, fleetVars
  <1>4. CASE OpenWave(p)
    BY <1>4, StoppedType DEF OpenWave, TypeOK, opVars, fleetVars
  <1>9. CASE WaveReturns(p)
    <2>1. \A abandoned : Triggers(Members(Current(p)), abandoned) \subseteq Repos \X Repos
      BY DEF Triggers, Members
    <2>3. UNCHANGED pairs \/ \E es \in SUBSET (Repos \X Repos) : pairs' = [pairs EXCEPT ![p] = es]
      <3>1. CASE phase = 2 /\ stub_blocked[p]
        <4>1. \E abandoned :
                pairs' = [pairs EXCEPT ![p] = Triggers(Members(Current(p)), abandoned)]
          BY <1>9, <3>1, Zenon DEF WaveReturns
        <4> QED BY <2>1, <4>1
      <3> QED BY <1>9, <3>1, Zenon DEF WaveReturns
    <2>2. pairs' \in [Procs -> SUBSET (Repos \X Repos)]
      BY <2>3 DEF TypeOK
    <2> QED BY <1>9, <2>2 DEF WaveReturns, TypeOK, opVars, fleetVars
  <1>10. CASE StubRecord(p)
    <2>1. PICK e \in pairs[p] :
            /\ stub' = [stub EXCEPT ![e] = IF @ = "none" THEN "ACTIVE" ELSE @]
            /\ pairs' = [pairs EXCEPT ![p] = @ \ {e}]
      BY <1>10 DEF StubRecord
    <2>2. stub' \in [Repos \X Repos -> {"none", "ACTIVE", "closed"}]
      BY <2>1 DEF TypeOK
    <2> QED BY <1>10, <2>1, <2>2 DEF StubRecord, TypeOK
  <1>5. CASE NextWave(p)
    <2>1. waves[p] \ {Current(p)} \in SUBSET Nat
      BY DEF TypeOK
    <2> QED BY <1>5, <2>1, EnterWaveType DEF NextWave, TypeOK, opVars, fleetVars
  <1>6. CASE Halt(p)
    <2>1. holds' \in [Repos -> SUBSET Hold]
      <3>1. PICK leaked \in SUBSET {r \in Repos : task[p, r].pc = "leased"} :
              holds' = [r \in Repos |->
                          IF r \in leaked
                          THEN holds[r] \cup {[fence |-> task[p, r].fence, live |-> TRUE]}
                          ELSE IF task[p, r].pc \in {"reserved", "running", "settle"}
                          THEN holds[r] \ HoldsOf(p, r) ELSE holds[r]]
        BY <1>6 DEF Halt
      <3>2. \A r \in Repos : [fence |-> task[p, r].fence, live |-> TRUE] \in Hold
        BY DEF TypeOK, Task, Hold
      <3>3. \A r \in Repos : holds[r] \in SUBSET Hold
        BY DEF TypeOK
      <3> QED BY <3>1, <3>2, <3>3
    <2>2. faults' \in Nat
      BY <1>6, FaultType DEF Halt
    <2>3. task' \in [Procs \X Repos -> Task] /\ waves' \in [Procs -> SUBSET Nat]
      <3>1. Done \in Task
        BY DEF Done, Idle, Task, Pc, Outcome
      <3> QED BY <1>6, <3>1 DEF Halt, TypeOK
    <2> QED BY <1>6, <2>1, <2>2, <2>3 DEF Halt, TypeOK, opVars, fleetVars
  <1>7. CASE Crash(p)
    BY <1>7, StoppedType DEF Crash, Fault, TypeOK, opVars, fleetVars
  <1> QED BY <1>1, <1>2, <1>3, <1>4, <1>5, <1>6, <1>7, <1>8, <1>9, <1>10 DEF CommandStep

LEMMA TaskStepType ==
  ASSUME TypeOK, NEW p \in Procs, NEW r \in Repos, MemberStep(p, r)
  PROVE  TypeOK'
  <1> DEFINE Rows == phases' \in [Repos -> PhaseRow]
             Tasks == task' \in [Procs \X Repos -> Task]
  <1>a. phases[r] \in PhaseRow /\ task[p, r] \in Task
    BY SetType
  <1>b. /\ task[p, r].fence \in Nat /\ task[p, r].transient \in Nat
        /\ task[p, r].outcome \in Outcome /\ task[p, r].todo \subseteq Repos
    BY <1>a DEF Task
  <1>c. phases[r].attempts \in Nat /\ phases[r].transient \in Nat
    BY <1>a DEF PhaseRow
  <1>d. /\ {"admitted", "acquire", "leased", "reserved", "running", "settle", "checkpoint", "diagnose",
            "breach", "complete", "closed"} \subseteq Pc
        /\ Failure \cup {"ok", "partial", "stale", "breach"} \subseteq Outcome
    BY DEF Pc, Outcome
  <1>e. Requested(task[p, r].outcome) \in {SUCCEEDED, PENDING, RHI}
    BY DEF Requested
  <1>1. CASE AbandonRepo(p, r)
    BY <1>1, <1>a, RowOperatorsType, SetType DEF AbandonRepo, TypeOK, cmdVars, opVars, fleetVars
  <1>2. CASE Drive(p, r)
    <2>1. Tasks
      BY <1>2, <1>a, <1>c, <1>d, TaskOperatorsType, SetType DEF Drive
    <2> QED BY <1>2, <2>1 DEF Drive, TypeOK, cmdVars, opVars, fleetVars
  <1>3. CASE Acquire(p, r)
    <2>1. acquire_phase_lease(phases[r]) \in PhaseRow
      BY <1>a, RowOperatorsType
    <2>2. acquire_phase_lease(phases[r]).fence \in Nat
      BY <2>1 DEF PhaseRow
    <2>3. Rows
      BY <1>3, <2>1, SetType DEF Acquire, TypeOK
    <2>4. Tasks
      BY <1>3, <1>a, <1>d, <2>2, TaskOperatorsType, SetType DEF Acquire
    <2> QED BY <1>3, <2>3, <2>4 DEF Acquire, TypeOK, cmdVars, opVars, fleetVars
  <1>4. CASE Reserve(p, r)
    <2>1. Tasks
      BY <1>4, <1>d, SetType DEF Reserve
    <2>2. holds' \in [Repos -> SUBSET Hold]
      <3>1. [fence |-> task[p, r].fence, live |-> TRUE] \in Hold
        BY <1>b DEF Hold
      <3>2. holds \in [Repos -> SUBSET Hold]
        BY DEF TypeOK
      <3> QED BY <1>4, <3>1, <3>2 DEF Reserve
    <2> QED BY <1>4, <2>1, <2>2 DEF Reserve, TypeOK, cmdVars, opVars, fleetVars
  <1>5. CASE Execute(p, r)
    <2>1. Tasks
      BY <1>5, <1>d, SetType DEF Execute
    <2>2. holds' \in [Repos -> SUBSET Hold] /\ faults' \in Nat
      BY <1>5, FaultType, ReleaseType DEF Execute
    <2> QED BY <1>5, <2>1, <2>2 DEF Execute, TypeOK, cmdVars, opVars, fleetVars
  <1>6. CASE RunReturns(p, r)
    <2>1. Tasks
      BY <1>6, <1>d, SetType DEF RunReturns
    <2>2. faults' \in Nat
      BY <1>6, FaultType DEF RunReturns
    <2> QED BY <1>6, <2>1, <2>2 DEF RunReturns, TypeOK, cmdVars, opVars, fleetVars
  <1>7. CASE Settle(p, r)
    <2>1. AfterSettle(task[p, r].outcome) \in Pc
      BY <1>d DEF AfterSettle
    <2>2. Tasks
      BY <1>7, <1>d, <2>1, SetType DEF Settle
    <2>3. holds' \in [Repos -> SUBSET Hold] /\ faults' \in Nat
      BY <1>7, FaultType, ReleaseType DEF Settle
    <2> QED BY <1>7, <2>2, <2>3 DEF Settle, TypeOK, cmdVars, opVars, fleetVars
  <1>8. CASE SaveCheckpoint(p, r)
    <2>1. Tasks
      BY <1>8, <1>d, SetType DEF SaveCheckpoint
    <2> QED BY <1>8, <2>1 DEF SaveCheckpoint, TypeOK, cmdVars, opVars, fleetVars
  <1>9. CASE Diagnose(p, r)
    <2>1. decide(task[p, r]) \in Task
      BY <1>a, TaskOperatorsType
    <2>2. record_diagnostics(phases[r], decide(task[p, r]).transient) \in PhaseRow
      BY <1>a, <2>1, RowOperatorsType DEF Task
    <2>3. Rows /\ Tasks
      BY <1>9, <2>1, <2>2, SetType DEF Diagnose, TypeOK
    <2> QED BY <1>9, <2>3 DEF Diagnose, TypeOK, cmdVars, opVars, fleetVars
  <1>10. CASE Renew(p, r)
    <2>1. Rows
      BY <1>10, <1>a, RowOperatorsType, SetType DEF Renew, TypeOK
    <2>2. Tasks
      BY <1>10, <1>d, SetType DEF Renew
    <2> QED BY <1>10, <2>1, <2>2 DEF Renew, TypeOK, cmdVars, opVars, fleetVars
  <1>11. CASE OnBreach(p, r)
    <2>1. Rows
      BY <1>11, <1>a, <1>b, RowOperatorsType, SetType DEF OnBreach, TypeOK
    <2>2. Tasks
      BY <1>11, <1>d, SetType DEF OnBreach
    <2> QED BY <1>11, <2>1, <2>2 DEF OnBreach, TypeOK, cmdVars, opVars, fleetVars
  <1>12. CASE Complete(p, r)
    <2>1. complete_phase(phases[r], Requested(task[p, r].outcome)) \in PhaseRow
      BY <1>a, <1>e, RowOperatorsType
    <2>2. \A s : AfterComplete(task[p, r], r, s) \in Task
      BY <1>a, TaskOperatorsType
    <2>3. Rows
      BY <1>12, <2>1, SetType DEF Complete, TypeOK
    <2>4. Tasks
      BY <1>12, <2>2, SetType DEF Complete
    <2> QED BY <1>12, <2>3, <2>4 DEF Complete, TypeOK, cmdVars, opVars, fleetVars
  <1>13. CASE Terminate(p, r)
    <2>1. Rows
      BY <1>13, <1>a, RowOperatorsType, SetType DEF Terminate, TypeOK
    <2>2. Tasks
      BY <1>13, <1>a, TaskOperatorsType, SetType DEF Terminate
    <2> QED BY <1>13, <2>1, <2>2 DEF Terminate, TypeOK, cmdVars, opVars, fleetVars
  <1>14. CASE Contain(p, r)
    <2>1. ASSUME NEW d \in task[p, r].todo
          PROVE  d \in Repos /\ append_blocked_by(phases[d], r) \in PhaseRow
      BY <1>b, RowOperatorsType DEF TypeOK
    <2>2. Rows
      BY <1>14, <2>1, SetType DEF Contain, TypeOK
    <2>3. Tasks
      BY <1>14, <1>a, TaskOperatorsType, SetType DEF Contain
    <2> QED BY <1>14, <2>2, <2>3 DEF Contain, TypeOK, cmdVars, opVars, fleetVars
  <1>16. CASE Admit(p, r)
    <2>1. Tasks
      BY <1>16, <1>d, SetType DEF Admit
    <2> QED BY <1>16, <2>1 DEF Admit, TypeOK, cmdVars, opVars, fleetVars
  <1>15. CASE Heartbeat(p, r)
    BY <1>15, <1>a, RowOperatorsType, SetType DEF Heartbeat, TypeOK, cmdVars, opVars, fleetVars
  <1>17. CASE StubDegrade(p, r)
    <2>1. Rows
      BY <1>17, <1>a, RowOperatorsType, SetType DEF StubDegrade, TypeOK
    <2>2. [Idle EXCEPT !.pc = "closed"] \in Task
      BY <1>d DEF Idle, Task, Outcome
    <2>3. Tasks
      BY <1>17, <2>2, SetType DEF StubDegrade
    <2> QED BY <1>17, <2>1, <2>3 DEF StubDegrade, TypeOK, cmdVars, opVars, fleetVars
  <1> QED BY <1>1, <1>2, <1>3, <1>4, <1>5, <1>6, <1>7, <1>8, <1>9, <1>10, <1>11,
             <1>12, <1>13, <1>14, <1>15, <1>16, <1>17 DEF MemberStep, TaskStep

LEMMA OutsideType ==
  ASSUME TypeOK, NEW r \in Repos, OutsideStep(r)
  PROVE  TypeOK'
  <1> DEFINE Rows == phases' \in [Repos -> PhaseRow]
  <1>a. /\ phases[r] \in PhaseRow
        /\ \A row \in PhaseRow : SetRow(r, row) => Rows
    BY DEF TypeOK, SetRow
  <1>b. Operate => ops' \in Nat
    BY DEF TypeOK, Operate
  <1>1. CASE ExpireLease(r)
    <2>1. Rows
      BY <1>1, <1>a, RowOperatorsType DEF ExpireLease
    <2>2. faults' \in Nat
      BY <1>1, FaultType DEF ExpireLease
    <2> QED BY <1>1, <2>1, <2>2 DEF ExpireLease, TypeOK, cmdVars, opVars, fleetVars
  <1>2. CASE ExpireHold(r)
    <2>1. faults' \in Nat
      BY <1>2, FaultType DEF ExpireHold
    <2>2. holds' \in [Repos -> SUBSET Hold]
      <3>1. ASSUME NEW h \in holds[r] PROVE [h EXCEPT !.live = FALSE] \in Hold
        <4>1. h \in Hold
          BY DEF TypeOK
        <4> QED BY <4>1 DEF Hold
      <3>2. holds \in [Repos -> SUBSET Hold]
        BY DEF TypeOK
      <3> QED BY <1>2, <3>1, <3>2 DEF ExpireHold
    <2> QED BY <1>2, <2>1, <2>2 DEF ExpireHold, TypeOK, cmdVars, opVars, fleetVars
  <1>3. CASE ResetStaleRunning(r)
    <2>1. Rows
      BY <1>3, <1>a, RowOperatorsType DEF ResetStaleRunning
    <2> QED BY <1>3, <2>1 DEF ResetStaleRunning, TypeOK, cmdVars, opVars, fleetVars
  <1>c. Reopens(r) => reopened' \in [Repos -> Nat]
    BY DEF TypeOK, Reopens
  <1>4. CASE Unblock(r)
    <2>1. Rows
      BY <1>4, <1>a, RowOperatorsType DEF Unblock
    <2>2. freed' \in SUBSET Repos
      BY <1>4 DEF Unblock, TypeOK
    <2>3. ops' \in Nat
      BY <1>4, <1>b DEF Unblock, TypeOK
    <2>4. UNCHANGED <<checkpoint, holds, cmdVars, task, phase, stub, wave_of, reopened, op, faults>>
      BY <1>4 DEF Unblock
    <2> QED BY <2>1, <2>2, <2>3, <2>4 DEF TypeOK, cmdVars
  <1>5. CASE Retry(r)
    <2>1. Rows
      BY <1>5, <1>a, RowOperatorsType DEF Retry
    <2> QED BY <1>5, <1>b, <1>c, <2>1 DEF Retry, TypeOK, cmdVars
  <1>9. CASE Demote(r)
    <2>1. Rows
      BY <1>9, <1>a, RowOperatorsType DEF Demote
    <2>2. reopened' \in [Repos -> Nat]
      BY <1>9, <1>c DEF Demote, TypeOK
    <2>3. checkpoint' \in [Repos -> {"none", "more", "done"}]
      BY <1>9 DEF Demote, TypeOK
    <2> QED BY <1>9, <1>b, <2>1, <2>2, <2>3 DEF Demote, TypeOK, cmdVars
  <1>10. CASE StubVerdict(r)
    <2>1. Rows
      BY <1>10, <1>a, RowOperatorsType DEF StubVerdict
    <2> QED BY <1>10, <2>1 DEF StubVerdict, TypeOK, cmdVars, opVars, fleetVars
  <1>6. CASE QuarantineRead(r)
    <2>1. op' \in Op
      BY <1>6 DEF QuarantineRead, Op
    <2> QED BY <1>6, <1>b, <2>1 DEF QuarantineRead, TypeOK, cmdVars, fleetVars
  <1>7. CASE QuarantineWrite(r)
    <2>1. op' \in Op
      BY <1>7, DescendantsType DEF QuarantineWrite, TypeOK, Op
    <2>2. Rows
      BY <1>7, <1>a, RowOperatorsType DEF QuarantineWrite
    <2> QED BY <1>7, <2>1, <2>2 DEF QuarantineWrite, TypeOK, cmdVars, fleetVars
  <1>8. CASE QuarantineBlock(r)
    <2>1. op' \in Op
      <3>1. NoOp \in Op /\ op \in Op
        BY DEF NoOp, Op, TypeOK
      <3>2. \A d : [op EXCEPT !.todo = @ \ {d}] \in Op
        BY <3>1 DEF Op
      <3> QED BY <1>8, <3>1, <3>2 DEF QuarantineBlock
    <2>2. ASSUME NEW d \in op.todo
          PROVE  d \in Repos /\ append_blocked_by(phases[d], r) \in PhaseRow
      <3>1. d \in Repos
        BY DEF TypeOK, Op
      <3> QED BY <3>1, RowOperatorsType DEF TypeOK
    <2>3. Rows
      BY <1>8, <2>2 DEF QuarantineBlock, SetRow, TypeOK
    <2> QED BY <1>8, <2>1, <2>3 DEF QuarantineBlock, TypeOK, cmdVars, fleetVars
  <1> QED BY <1>1, <1>2, <1>3, <1>4, <1>5, <1>6, <1>7, <1>8, <1>9, <1>10 DEF OutsideStep

LEMMA FleetType ==
  ASSUME TypeOK, FleetStep
  PROVE  TypeOK'
  <1>b. Operate => ops' \in Nat
    BY DEF TypeOK, Operate
  <1>1. CASE AbortRecord
    <2>1. op' \in Op
      BY <1>1 DEF AbortRecord, NoOp, Op
    <2> QED BY <1>1, <1>b, <2>1 DEF AbortRecord, TypeOK, cmdVars, fleetVars
  <1>2. CASE AbortReset
    <2>1. op' \in Op
      BY <1>2 DEF AbortReset, NoOp, Op
    <2>2. \A r \in Repos : abort_reset(phases[r]) \in PhaseRow
      BY RowOperatorsType DEF TypeOK
    <2> QED BY <1>2, <2>1, <2>2 DEF AbortReset, TypeOK, cmdVars, fleetVars
  <1>3. CASE AppendWave
    <2>1. Waves \subseteq Nat
      BY DEF TypeOK, Waves
    <2>2. wave_of' \in [Repos -> Nat] /\ freed' \in SUBSET Repos
      BY <1>3, <2>1 DEF AppendWave, TypeOK
    <2> QED BY <1>3, <2>2 DEF AppendWave, TypeOK, cmdVars
  <1>4. ASSUME NEW e \in Repos \X Repos, ContainedElsewhere(e) PROVE TypeOK'
    <2>1. append_blocked_by(phases[e[2]], e[1]) \in PhaseRow
      BY RowOperatorsType DEF TypeOK
    <2>2. phases' \in [Repos -> PhaseRow]
      BY <1>4, <2>1 DEF ContainedElsewhere, SetRow, TypeOK
    <2> QED BY <1>4, <1>b, <2>2 DEF ContainedElsewhere, TypeOK, cmdVars, fleetVars
  <1>5. ASSUME NEW e \in Repos \X Repos, StubRecorded(e) \/ StubMoves(e) PROVE TypeOK'
    <2>1. stub' \in [Repos \X Repos -> {"none", "ACTIVE", "closed"}]
      BY <1>5 DEF StubRecorded, StubMoves, TypeOK
    <2> QED BY <1>5, <1>b, <2>1 DEF StubRecorded, StubMoves, TypeOK, cmdVars
  <1> QED BY <1>1, <1>2, <1>3, <1>4, <1>5 DEF FleetStep

LEMMA NextType == TypeOK /\ [Next]_vars => TypeOK'
  <1> SUFFICES ASSUME TypeOK, [Next]_vars PROVE TypeOK'
    OBVIOUS
  <1>1. CASE UNCHANGED vars
    BY <1>1 DEF vars, cmdVars, opVars, fleetVars, TypeOK
  <1> QED BY <1>1, NextCases, CommandType, TaskStepType, OutsideType, FleetType

\* Every variable keeps its type: in particular no transaction, raw SQL or
\* gated, writes a status outside RepoStatus or a negative counter.
THEOREM TypeInvariant == Spec => []TypeOK
  BY InitType, NextType, PTL DEF Spec

-----------------------------------------------------------------------------
(* What one step can do to one row and to the fences held on it.  Whatever   *)
(* the action, row r sees one of twelve effects; the theorems below need no  *)
(* more than that.                                                           *)

\* The tasks on r keep their fences or give them up.
FencesShrink(r) ==
  \A p \in Procs : task'[p, r].fence = task[p, r].fence \/ task'[p, r].fence = 0

\* Task p gives up its fence on r, the row's own; nobody else's changes.
GivesUp(p, r) ==
  /\ task[p, r].fence # 0 /\ task[p, r].fence = phases[r].fence
  /\ task'[p, r].fence = 0
  /\ \A q \in Procs \ {p} : task'[q, r].fence = task[q, r].fence
  /\ phases'[r].fence = phases[r].fence

Uncharged(r) ==
  phases'[r].attempts = phases[r].attempts /\ reopened'[r] = reopened[r]

\* Statuses a row can still be charged an attempt from, now or later.
Runnable == {PENDING, RUNNING, BLOCKED}

Keep(r) ==
  /\ Uncharged(r) /\ FencesShrink(r)
  /\ phases'[r].status = phases[r].status
  /\ phases'[r].fence >= phases[r].fence

Grant(r) ==
  /\ Uncharged(r)
  /\ phases[r].status = PENDING /\ phases'[r].status = RUNNING
  /\ phases'[r].fence = phases[r].fence + 1
  /\ \E p \in Procs :
       /\ task'[p, r].fence = phases[r].fence + 1
       /\ \A q \in Procs \ {p} : task'[q, r].fence = task[q, r].fence

Reclaim(r) ==
  /\ Uncharged(r) /\ FencesShrink(r)
  /\ phases[r].status = RUNNING /\ phases'[r].status = PENDING
  /\ phases'[r].fence >= phases[r].fence

Charge(r) ==
  /\ phases'[r].attempts = phases[r].attempts + 1 /\ reopened'[r] = reopened[r]
  /\ \E p \in Procs : GivesUp(p, r) /\ task[p, r].pc = "complete"
  /\ phases'[r].status \in {SUCCEEDED, PENDING, RHI}
  /\ transition(phases[r].status, phases'[r].status)
  /\ phases'[r].status = PENDING => phases[r].attempts + 1 < MaxAttempts

Fail(r) ==
  /\ Uncharged(r)
  /\ \E p \in Procs : GivesUp(p, r)
  /\ phases'[r].status = RHI

Block(r) ==
  /\ Uncharged(r) /\ FencesShrink(r)
  /\ phases[r].status \in Runnable /\ phases'[r].status = BLOCKED
  /\ phases'[r].fence = phases[r].fence

Free(r) ==
  /\ Uncharged(r) /\ FencesShrink(r)
  /\ phases[r].status = BLOCKED /\ phases'[r].status = PENDING
  /\ phases'[r].fence = phases[r].fence

Reopen(r) ==
  /\ phases'[r].attempts = phases[r].attempts /\ reopened'[r] = reopened[r] + 1
  /\ FencesShrink(r)
  /\ phases[r].status \in {SUCCEEDED, RHI} /\ phases'[r].status = PENDING
  /\ phases'[r].fence = phases[r].fence

Skip(r) ==
  /\ Uncharged(r) /\ FencesShrink(r)
  /\ r \in op.repo /\ phases'[r].status = SKIPPED
  /\ phases'[r].fence >= phases[r].fence

Abandon(r) ==
  /\ Uncharged(r) /\ FencesShrink(r)
  /\ phases[r].status = PENDING /\ phases'[r].status = RHI
  /\ phases'[r].fence = phases[r].fence

Degrade(r) ==
  /\ Uncharged(r) /\ FencesShrink(r)
  /\ phases[r].status = SUCCEEDED /\ phases'[r].status = DEGRADED
  /\ phases'[r].fence = phases[r].fence
  /\ OnLiveStub(r)
  /\ \E p \in Procs : cmd[p] = "report" /\ r \in Members(Current(p)) /\ Corrects(p)

Judge(r) ==
  /\ Uncharged(r) /\ FencesShrink(r)
  /\ phases[r].status = DEGRADED /\ phases'[r].status \in {SUCCEEDED, RHI}
  /\ phases'[r].fence = phases[r].fence

Effect(r) == \/ Keep(r) \/ Grant(r) \/ Reclaim(r) \/ Charge(r) \/ Fail(r)
             \/ Block(r) \/ Free(r) \/ Reopen(r) \/ Skip(r) \/ Abandon(r)
             \/ Degrade(r) \/ Judge(r)

\* A task between its lease and its last write holds a fence.
WorkingHasFence ==
  \A p \in Procs, r \in Repos :
    task[p, r].pc \notin {"idle", "admitted", "acquire", "contain", "done", "closed"} =>
      task[p, r].fence # 0

\* The transactions that test the row first.
LEMMA GuardedOperatorsEffect ==
  ASSUME NEW row \in PhaseRow
  PROVE  /\ \A b : LET new == append_blocked_by(row, b)
                   IN  /\ new.fence = row.fence /\ new.attempts = row.attempts
                       /\ \/ new.status = row.status
                          \/ row.status \in Runnable /\ new.status = BLOCKED
         /\ \A x : LET new == clear_blocked_by(row, x)
                   IN  /\ new.fence = row.fence /\ new.attempts = row.attempts
                       /\ \/ new.status = row.status
                          \/ row.status = BLOCKED /\ new.status = PENDING
         /\ LET new == demote(row)
            IN  /\ new.fence = row.fence /\ new.attempts = row.attempts
                /\ new.status = IF row.status = SUCCEEDED THEN PENDING ELSE row.status
         /\ LET new == stub_degrade_transform(row)
            IN  /\ new.fence = row.fence /\ new.attempts = row.attempts
                /\ \/ new.status = row.status
                   \/ row.status = SUCCEEDED /\ new.status = DEGRADED
         /\ \A s : LET new == apply_stub_consumer_status(row, s)
                   IN  /\ new.fence = row.fence /\ new.attempts = row.attempts
                       /\ \/ new.status = row.status
                          \/ row.status = DEGRADED /\ new.status = s
         /\ LET new == quarantine_movable(row)
            IN  /\ new.fence >= row.fence /\ new.attempts = row.attempts
                /\ new.status = row.status \/ new.status = SKIPPED
         /\ LET new == abandon_repo(row)
            IN  /\ new.fence = row.fence /\ new.attempts = row.attempts
                /\ \/ new.status = row.status
                   \/ row.status = PENDING /\ new.status = RHI
         /\ LET new == abort_reset(row)
            IN  /\ new.fence >= row.fence /\ new.attempts = row.attempts
                /\ \/ new.status = row.status
                   \/ row.status = RUNNING /\ new.status = PENDING
         /\ \A held : LET new == Reaped(row, held)
            IN  /\ new.fence >= row.fence /\ new.attempts = row.attempts
                /\ \/ new.status = row.status
                   \/ row.status = RUNNING /\ new.status = PENDING
  <1>1. row.fence \in Nat /\ row.fence + 1 >= row.fence /\ row.fence >= row.fence
    BY DEF PhaseRow
  <1>2. /\ \A b : LET new == append_blocked_by(row, b)
                  IN  /\ new.fence = row.fence /\ new.attempts = row.attempts
                      /\ \/ new.status = row.status
                         \/ row.status \in Runnable /\ new.status = BLOCKED
        /\ \A x : LET new == clear_blocked_by(row, x)
                  IN  /\ new.fence = row.fence /\ new.attempts = row.attempts
                      /\ \/ new.status = row.status
                         \/ row.status = BLOCKED /\ new.status = PENDING
    <2>1. Blockable(row) => row.status \in Runnable
      BY DEF Blockable, transition, ALLOWED_TRANSITIONS, TERMINAL_STATUSES, Runnable, PhaseRow,
             RepoStatus, PENDING, RUNNING, SUCCEEDED, BLOCKED, DEGRADED, RHI, SKIPPED
    <2> QED BY <2>1 DEF PhaseRow, append_blocked_by, clear_blocked_by
  <1>3. LET new == quarantine_movable(row)
        IN  /\ new.fence >= row.fence /\ new.attempts = row.attempts
            /\ new.status = row.status \/ new.status = SKIPPED
    BY <1>1 DEF PhaseRow, quarantine_movable
  <1>4. LET new == abandon_repo(row)
        IN  /\ new.fence = row.fence /\ new.attempts = row.attempts
            /\ \/ new.status = row.status
               \/ row.status = PENDING /\ new.status = RHI
    BY DEF PhaseRow, abandon_repo
  <1>5. LET new == abort_reset(row)
        IN  /\ new.fence >= row.fence /\ new.attempts = row.attempts
            /\ \/ new.status = row.status
               \/ row.status = RUNNING /\ new.status = PENDING
    BY <1>1, RowOperatorsEffect DEF abort_reset
  <1>6. ASSUME NEW held
        PROVE  LET new == Reaped(row, held)
               IN  /\ new.fence >= row.fence /\ new.attempts = row.attempts
                   /\ \/ new.status = row.status
                      \/ row.status = RUNNING /\ new.status = PENDING
    <2> DEFINE reclaimed == IF LeaseReapable(row) THEN ReclaimLease(row) ELSE row
    <2>1. /\ reclaimed \in PhaseRow
          /\ reclaimed.fence >= row.fence /\ reclaimed.attempts = row.attempts
          /\ \/ reclaimed.status = row.status
             \/ row.status = RUNNING /\ reclaimed.status = PENDING
      BY <1>1, RowOperatorsType, RowOperatorsEffect DEF LeaseReapable
    <2>2. reclaimed.fence \in Nat
      BY <2>1 DEF PhaseRow
    <2>3. Reaped(row, held) = IF \E h \in held : ~h.live
                              THEN [reclaimed EXCEPT !.fence = @ + 1] ELSE reclaimed
      BY DEF Reaped
    <2> HIDE DEF reclaimed
    <2> QED BY <1>1, <2>1, <2>2, <2>3, RowOperatorsEffect
  <1>7. LET new == demote(row)
        IN  /\ new.fence = row.fence /\ new.attempts = row.attempts
            /\ new.status = IF row.status = SUCCEEDED THEN PENDING ELSE row.status
    BY DEF PhaseRow, demote
  <1>8. LET new == stub_degrade_transform(row)
        IN  /\ new.fence = row.fence /\ new.attempts = row.attempts
            /\ \/ new.status = row.status
               \/ row.status = SUCCEEDED /\ new.status = DEGRADED
    BY DEF PhaseRow, stub_degrade_transform
  <1>9. \A s : LET new == apply_stub_consumer_status(row, s)
               IN  /\ new.fence = row.fence /\ new.attempts = row.attempts
                   /\ \/ new.status = row.status
                      \/ row.status = DEGRADED /\ new.status = s
    BY DEF PhaseRow, apply_stub_consumer_status
  <1> QED BY <1>2, <1>3, <1>4, <1>5, <1>6, <1>7, <1>8, <1>9

LEMMA NatFacts ==
  ASSUME TypeOK, NEW r \in Repos
  PROVE  /\ phases[r] \in PhaseRow /\ phases[r].fence \in Nat
         /\ phases[r].attempts \in Nat /\ reopened[r] \in Nat
         /\ phases[r].fence >= phases[r].fence
  BY DEF TypeOK, PhaseRow

\* A row and its tasks that a step leaves alone.
LEMMA KeepFrame ==
  ASSUME TypeOK, NEW r \in Repos, phases'[r] = phases[r], reopened'[r] = reopened[r],
         \A p \in Procs : task'[p, r].fence = task[p, r].fence \/ task'[p, r].fence = 0
  PROVE  Keep(r)
  <1>1. phases[r].fence >= phases[r].fence
    BY NatFacts
  <1>2. Uncharged(r)
    BY DEF Uncharged
  <1>3. FencesShrink(r)
    BY DEF FencesShrink
  <1> QED BY <1>1, <1>2, <1>3, Zenon DEF Keep

\* A command that ends, is halted or goes on to another wave takes its tasks with it.
LEMMA ClearedFences ==
  ASSUME NEW p \in Procs,
         \/ ClearTasks(p)
         \/ task' = [t \in Procs \X Repos |-> IF t[1] = p THEN Done ELSE task[t]],
         NEW r \in Repos, NEW q \in Procs
  PROVE  task'[q, r].fence = task[q, r].fence \/ task'[q, r].fence = 0
  <1>1. Idle.fence = 0 /\ Done.fence = 0
    BY DEF Idle, Done
  <1>2. task'[q, r] \in {Idle, Done, task[q, r]}
    BY DEF ClearTasks
  <1> QED BY <1>1, <1>2

LEMMA CommandTasks ==
  ASSUME NEW p \in Procs, CommandStep(p)
  PROVE  \/ task' = task
         \/ ClearTasks(p)
         \/ task' = [t \in Procs \X Repos |-> IF t[1] = p THEN Done ELSE task[t]]
  BY DEF CommandStep, StartCommand, SweepRead, SweepOne, FirstWave, OpenWave, WaveReturns,
         StubRecord, NextWave, Halt, Crash, EnterWave, Stopped

LEMMA CommandEffect ==
  ASSUME TypeOK, NEW p \in Procs, NEW x \in Repos, CommandStep(p)
  PROVE  Effect(x)
  <1>a. reopened'[x] = reopened[x]
    BY DEF CommandStep, StartCommand, SweepRead, SweepOne, FirstWave, OpenWave, WaveReturns,
           StubRecord, NextWave, Halt, Crash, opVars, fleetVars
  <1>b. FencesShrink(x)
    BY CommandTasks, ClearedFences DEF FencesShrink
  <1>1. CASE StartCommand(p)
    <2>1. phases'[x] = Reaped(phases[x], holds[x])
      BY <1>1 DEF StartCommand
    <2> QED BY <1>a, <1>b, <2>1, NatFacts, GuardedOperatorsEffect
            DEF Effect, Keep, Reclaim, Uncharged
  <1>2. CASE SweepOne(p)
    <2>2. PICK e \in pairs[p] : SetRow(e[2], append_blocked_by(phases[e[2]], e[1]))
      BY <1>2 DEF SweepOne
    <2>3. e[2] \in Repos
      BY DEF TypeOK
    <2>4. CASE x = e[2]
      <3>1. phases'[x] = append_blocked_by(phases[x], e[1])
        BY <2>2, <2>3, <2>4 DEF SetRow, TypeOK
      <3> QED BY <1>a, <1>b, <3>1, NatFacts, GuardedOperatorsEffect
              DEF Effect, Keep, Block, Uncharged
    <2>5. CASE x # e[2]
      <3>1. phases'[x] = phases[x]
        BY <2>2, <2>3, <2>5 DEF SetRow, TypeOK
      <3> QED BY <1>a, <1>b, <3>1, KeepFrame DEF Effect, FencesShrink
    <2> QED BY <2>4, <2>5
  <1>3. CASE phases' = phases
    BY <1>a, <1>b, <1>3, KeepFrame DEF Effect, FencesShrink
  <1>4. StartCommand(p) \/ SweepOne(p) \/ phases' = phases
    BY DEF CommandStep, SweepRead, FirstWave, OpenWave, WaveReturns, StubRecord, NextWave, Halt,
           Crash
  <1> QED BY <1>1, <1>2, <1>3, <1>4

\* A step that writes r's row and task, seen from any row x.
LEMMA SetEffect ==
  ASSUME TypeOK, NEW p \in Procs, NEW r \in Repos, NEW new, SetTask(p, r, new)
  PROVE  /\ task'[p, r] = new
         /\ \A q \in Procs, y \in Repos : q # p \/ y # r => task'[q, y] = task[q, y]
  BY DEF SetTask, TypeOK

LEMMA FencesKept ==
  ASSUME TypeOK, NEW p \in Procs, NEW r \in Repos, NEW new,
         SetTask(p, r, new), new.fence = task[p, r].fence \/ new.fence = 0,
         NEW x \in Repos
  PROVE  FencesShrink(x)
  <1> SUFFICES ASSUME NEW q \in Procs
               PROVE  task'[q, x].fence = task[q, x].fence \/ task'[q, x].fence = 0
    BY DEF FencesShrink
  <1>1. task'[q, x] = IF q = p /\ x = r THEN new ELSE task[q, x]
    BY DEF SetTask, TypeOK
  <1> QED BY <1>1

\* The ways a task moves on without a new fence.
LEMMA MoveFences ==
  ASSUME TypeOK, NEW p \in Procs, NEW r \in Repos, NEW x \in Repos,
         \/ Return(p, r)
         \/ \E pc : Goto(p, r, pc)
         \/ \E pc, o : GotoWith(p, r, pc, o)
  PROVE  FencesShrink(x)
  <1>1. task[p, r] \in Task
    BY SetType
  <1>2. CASE Return(p, r)
    <2>1. Done.fence = 0
      BY DEF Done, Idle
    <2> QED BY <1>2, <2>1, FencesKept DEF Return
  <1>3. CASE \E pc : Goto(p, r, pc)
    <2>1. PICK pc : SetTask(p, r, [task[p, r] EXCEPT !.pc = pc])
      BY <1>3 DEF Goto
    <2>2. [task[p, r] EXCEPT !.pc = pc].fence = task[p, r].fence
      BY <1>1 DEF Task
    <2> QED BY <2>1, <2>2, FencesKept
  <1>4. CASE \E pc, o : GotoWith(p, r, pc, o)
    <2>1. PICK pc, o : SetTask(p, r, [task[p, r] EXCEPT !.pc = pc, !.outcome = o])
      BY <1>4 DEF GotoWith
    <2>2. [task[p, r] EXCEPT !.pc = pc, !.outcome = o].fence = task[p, r].fence
      BY <1>1 DEF Task
    <2> QED BY <2>1, <2>2, FencesKept
  <1> QED BY <1>2, <1>3, <1>4

\* A row whose status, fence and attempts a step leaves alone.
LEMMA SameEffect ==
  ASSUME TypeOK, NEW x \in Repos, FencesShrink(x), reopened'[x] = reopened[x],
         phases'[x].status = phases[x].status,
         phases'[x].attempts = phases[x].attempts,
         phases'[x].fence = phases[x].fence
  PROVE  Effect(x)
  BY NatFacts DEF Effect, Keep, Uncharged

\* A write of r's row that leaves those columns alone, seen from any row.
LEMMA QuietEffect ==
  ASSUME TypeOK, NEW x \in Repos, FencesShrink(x), reopened'[x] = reopened[x],
         NEW r \in Repos,
         \/ UNCHANGED phases
         \/ \E row : /\ SetRow(r, row) /\ row.status = phases[r].status
                    /\ row.attempts = phases[r].attempts
                    /\ row.fence = phases[r].fence
  PROVE  Effect(x)
  <1>1. /\ phases'[x].status = phases[x].status
        /\ phases'[x].attempts = phases[x].attempts
        /\ phases'[x].fence = phases[x].fence
    BY DEF SetRow, TypeOK
  <1> QED BY <1>1, SameEffect

LEMMA QuietRow ==
  ASSUME TypeOK, NEW x \in Repos, FencesShrink(x), reopened'[x] = reopened[x],
         NEW r \in Repos,
         \/ UNCHANGED phases
         \/ SetRow(r, renew_phase_lease(phases[r]))
         \/ \E n : SetRow(r, record_diagnostics(phases[r], n))
         \/ SetRow(r, [phases[r] EXCEPT !.lease = "expired"])
  PROVE  Effect(x)
  <1>1. phases[r] \in PhaseRow
    BY DEF TypeOK
  <1>2. CASE UNCHANGED phases
    BY <1>2, QuietEffect
  <1>3. ASSUME NEW row, SetRow(r, row), row.status = phases[r].status,
               row.attempts = phases[r].attempts, row.fence = phases[r].fence
        PROVE  Effect(x)
    BY <1>3, QuietEffect
  <1>4. CASE SetRow(r, renew_phase_lease(phases[r]))
    <2> DEFINE row == renew_phase_lease(phases[r])
    <2>1. /\ row.status = phases[r].status /\ row.attempts = phases[r].attempts
          /\ row.fence = phases[r].fence
      BY <1>1, RowOperatorsEffect
    <2> QED BY <1>3, <1>4, <2>1
  <1>5. ASSUME NEW n, SetRow(r, record_diagnostics(phases[r], n)) PROVE Effect(x)
    <2> DEFINE row == record_diagnostics(phases[r], n)
    <2>1. /\ row.status = phases[r].status /\ row.attempts = phases[r].attempts
          /\ row.fence = phases[r].fence
      BY <1>1, RowOperatorsEffect
    <2> QED BY <1>3, <1>5, <2>1
  <1>6. CASE SetRow(r, [phases[r] EXCEPT !.lease = "expired"])
    <2> DEFINE row == [phases[r] EXCEPT !.lease = "expired"]
    <2>1. /\ row.status = phases[r].status /\ row.attempts = phases[r].attempts
          /\ row.fence = phases[r].fence
      BY <1>1 DEF PhaseRow
    <2> QED BY <1>3, <1>6, <2>1
  <1> QED BY <1>2, <1>4, <1>5, <1>6

\* Containment, whoever does it.
LEMMA BlockEffect ==
  ASSUME TypeOK, NEW x \in Repos, FencesShrink(x), reopened'[x] = reopened[x],
         NEW d \in Repos, NEW b, SetRow(d, append_blocked_by(phases[d], b))
  PROVE  Effect(x)
  <1>1. phases'[x] = IF x = d THEN append_blocked_by(phases[x], b) ELSE phases[x]
    BY DEF SetRow, TypeOK
  <1> QED BY <1>1, NatFacts, GuardedOperatorsEffect DEF Effect, Keep, Block, Uncharged

\* The steps of a task that take no lease and write no verdict.
LEMMA QuietStepEffect ==
  ASSUME TypeOK, NEW p \in Procs, NEW r \in Repos, NEW x \in Repos,
         \/ AbandonRepo(p, r) \/ Admit(p, r) \/ Drive(p, r) \/ Reserve(p, r) \/ Execute(p, r)
         \/ RunReturns(p, r) \/ Settle(p, r) \/ SaveCheckpoint(p, r)
         \/ Diagnose(p, r) \/ Renew(p, r) \/ OnBreach(p, r)
         \/ Contain(p, r) \/ Heartbeat(p, r) \/ StubDegrade(p, r)
  PROVE  Effect(x)
  <1>a. reopened'[x] = reopened[x]
    BY DEF AbandonRepo, Admit, Drive, Reserve, Execute, RunReturns, Settle, SaveCheckpoint,
           Diagnose, Renew, OnBreach, Contain, Heartbeat, StubDegrade, opVars, fleetVars
  <1>b. phases[r] \in PhaseRow /\ task[p, r] \in Task
    BY SetType
  <1>1. CASE AbandonRepo(p, r)
    <2>1. phases'[x] = IF x = r THEN abandon_repo(phases[x]) ELSE phases[x]
      BY <1>1 DEF AbandonRepo, SetRow, TypeOK
    <2>2. FencesShrink(x)
      BY <1>1 DEF AbandonRepo, FencesShrink
    <2> QED BY <1>a, <2>1, <2>2, NatFacts, GuardedOperatorsEffect
            DEF Effect, Keep, Abandon, Uncharged
  <1>2. CASE Drive(p, r)
    <2> DEFINE new == [task[p, r] EXCEPT !.pc = "acquire",
                                         !.attempts = phases[r].attempts,
                                         !.transient = phases[r].transient]
    <2>1. new.fence = task[p, r].fence
      BY <1>b DEF Task
    <2>2. SetTask(p, r, new) /\ UNCHANGED phases
      BY <1>2 DEF Drive
    <2>3. FencesShrink(x)
      BY <2>1, <2>2, FencesKept
    <2> QED BY <1>a, <2>2, <2>3, QuietEffect
  <1>3. CASE Admit(p, r) \/ Reserve(p, r) \/ Execute(p, r) \/ RunReturns(p, r)
             \/ Settle(p, r) \/ SaveCheckpoint(p, r)
    <2>1. UNCHANGED phases
      BY <1>3 DEF Admit, Reserve, Execute, RunReturns, Settle, SaveCheckpoint
    <2>2. Return(p, r) \/ (\E pc : Goto(p, r, pc)) \/ (\E pc, o : GotoWith(p, r, pc, o))
      BY <1>3 DEF Admit, Reserve, Execute, RunReturns, Settle, SaveCheckpoint
    <2> QED BY <1>a, <2>1, <2>2, MoveFences, QuietEffect
  <1>4. CASE Diagnose(p, r)
    <2> DEFINE new == decide(task[p, r])
    <2>1. new.fence = task[p, r].fence
      BY <1>b DEF decide, Task
    <2>2. CASE FenceIsCurrent(p, r)
      <3>1. SetTask(p, r, new) /\ SetRow(r, record_diagnostics(phases[r], new.transient))
        BY <1>4, <2>2 DEF Diagnose
      <3>2. FencesShrink(x)
        BY <2>1, <3>1, FencesKept
      <3> QED BY <1>a, <3>1, <3>2, QuietRow
    <2>3. CASE ~FenceIsCurrent(p, r)
      BY <1>4, <1>a, <2>3, MoveFences, QuietEffect DEF Diagnose
    <2> QED BY <2>2, <2>3
  <1>5. CASE Renew(p, r)
    <2>1. FencesShrink(x)
      BY <1>5, MoveFences DEF Renew
    <2> QED BY <1>5, <1>a, <2>1, QuietRow DEF Renew
  <1>6. CASE OnBreach(p, r)
    <2>1. FencesShrink(x)
      BY <1>6, MoveFences DEF OnBreach
    <2> QED BY <1>6, <1>a, <2>1, QuietRow DEF OnBreach
  <1>7. CASE Contain(p, r)
    <2>1. CASE task[p, r].todo = {} /\ Return(p, r) /\ UNCHANGED phases
      BY <1>a, <2>1, MoveFences, QuietEffect
    <2>2. ASSUME NEW d \in task[p, r].todo,
                 SetRow(d, append_blocked_by(phases[d], r)),
                 SetTask(p, r, [task[p, r] EXCEPT !.todo = @ \ {d}])
          PROVE  Effect(x)
      <3>1. d \in Repos /\ [task[p, r] EXCEPT !.todo = @ \ {d}].fence = task[p, r].fence
        BY <1>b DEF Task
      <3>2. FencesShrink(x)
        BY <2>2, <3>1, FencesKept
      <3> QED BY <1>a, <2>2, <3>1, <3>2, BlockEffect
    <2> QED BY <1>7, <2>1, <2>2 DEF Contain
  <1>8. CASE Heartbeat(p, r)
    <2>1. FencesShrink(x)
      BY <1>8 DEF Heartbeat, FencesShrink
    <2> QED BY <1>8, <1>a, <2>1, QuietRow DEF Heartbeat
  <1>9. CASE StubDegrade(p, r)
    <2> DEFINE new == [Idle EXCEPT !.pc = "closed"]
    <2>1. SetTask(p, r, new) /\ new.fence = 0
      BY <1>9 DEF StubDegrade, Idle
    <2>2. FencesShrink(x)
      BY <2>1, FencesKept
    <2>3. CASE OnLiveStub(r) /\ x = r
      <3>1. phases'[r] = stub_degrade_transform(phases[r])
        BY <1>9, <2>3 DEF StubDegrade, SetRow, TypeOK
      <3>2. cmd[p] = "report" /\ Corrects(p) /\ r \in Members(Current(p))
        BY <1>9 DEF StubDegrade
      <3>3. /\ phases'[r].fence = phases[r].fence /\ phases'[r].attempts = phases[r].attempts
            /\ \/ phases'[r].status = phases[r].status
               \/ phases[r].status = SUCCEEDED /\ phases'[r].status = DEGRADED
        BY <1>b, <3>1, GuardedOperatorsEffect
      <3>4. CASE phases'[r].status = phases[r].status
        BY <1>a, <2>2, <2>3, <3>3, <3>4, SameEffect
      <3>5. CASE phases[r].status = SUCCEEDED /\ phases'[r].status = DEGRADED
        BY <1>a, <2>2, <2>3, <3>2, <3>3, <3>5 DEF Effect, Degrade, Uncharged
      <3> QED BY <3>3, <3>4, <3>5
    <2>4. CASE ~(OnLiveStub(r) /\ x = r)
      <3>1. phases'[x] = phases[x]
        BY <1>9, <2>4 DEF StubDegrade, SetRow, TypeOK
      <3> QED BY <1>a, <2>2, <3>1, SameEffect
    <2> QED BY <2>3, <2>4
  <1> QED BY <1>1, <1>2, <1>3, <1>4, <1>5, <1>6, <1>7, <1>8, <1>9

LEMMA AcquireEffect ==
  ASSUME TypeOK, NEW p \in Procs, NEW r \in Repos, NEW x \in Repos, Acquire(p, r)
  PROVE  Effect(x)
  <1>a. reopened'[x] = reopened[x] /\ reopened'[r] = reopened[r]
    BY DEF Acquire, opVars, fleetVars
  <1>b. phases[r] \in PhaseRow /\ task[p, r] \in Task
    BY SetType
  <1>1. CASE Acquirable(phases[r])
    <2> DEFINE row == acquire_phase_lease(phases[r])
               new == [task[p, r] EXCEPT !.pc = "leased", !.fence = row.fence]
    <2>1. SetRow(r, row) /\ SetTask(p, r, new)
      BY <1>1 DEF Acquire
    <2>2. new.fence = phases[r].fence + 1 /\ row.fence = phases[r].fence + 1
      BY <1>b, RowOperatorsEffect DEF Task
    <2>3. /\ row.status = RUNNING /\ phases[r].status = PENDING
          /\ row.attempts = phases[r].attempts
      BY <1>b, <1>1, RowOperatorsEffect DEF Acquirable
    <2> HIDE DEF row, new
    <2>4. CASE x = r
      <3>1. phases'[r] = row
        BY <2>1 DEF SetRow, TypeOK
      <3>2. /\ task'[p, r].fence = phases[r].fence + 1
            /\ \A q \in Procs \ {p} : task'[q, r].fence = task[q, r].fence
        BY <2>1, <2>2, SetEffect, ZenonT(30)
      <3>3. Uncharged(r)
        BY <1>a, <2>3, <3>1, NatFacts DEF Uncharged
      <3> QED BY <2>2, <2>3, <2>4, <3>1, <3>2, <3>3 DEF Effect, Grant
    <2>5. CASE x # r
      <3>1. phases'[x] = phases[x]
        BY <2>1, <2>5 DEF SetRow, TypeOK
      <3>2. FencesShrink(x)
        <4>1. \A q \in Procs : task'[q, x] = task[q, x]
          BY <2>1, <2>5 DEF SetTask, TypeOK
        <4> QED BY <4>1 DEF FencesShrink
      <3> QED BY <1>a, <3>1, <3>2, SameEffect
    <2> QED BY <2>4, <2>5
  <1>2. CASE ~Acquirable(phases[r])
    BY <1>a, <1>2, MoveFences, QuietEffect DEF Acquire
  <1> QED BY <1>1, <1>2

\* A verdict or a requeue under the current fence: the fence is given up with it.
LEMMA VerdictEffect ==
  ASSUME TypeOK, WorkingHasFence, NEW p \in Procs, NEW r \in Repos, NEW x \in Repos,
         Complete(p, r) \/ Terminate(p, r)
  PROVE  Effect(x)
  <1>a. reopened'[x] = reopened[x] /\ reopened'[r] = reopened[r]
    BY DEF Complete, Terminate, opVars, fleetVars
  <1>b. phases[r] \in PhaseRow /\ task[p, r] \in Task
    BY SetType
  <1>c. task[p, r].fence # 0
    BY DEF Complete, Terminate, WorkingHasFence
  \* Seen from another row, or when the fence turns out to be stale.
  <1>d. ASSUME NEW row, NEW new, SetRow(r, row), SetTask(p, r, new), x # r
        PROVE  Effect(x)
    <2>1. phases'[x] = phases[x]
      BY <1>d DEF SetRow, TypeOK
    <2>2. FencesShrink(x)
      <3>1. \A q \in Procs : task'[q, x] = task[q, x]
        BY <1>d DEF SetTask, TypeOK
      <3> QED BY <3>1 DEF FencesShrink
    <2> QED BY <1>a, <2>1, <2>2, SameEffect
  <1>e. ASSUME Return(p, r), UNCHANGED phases PROVE Effect(x)
    BY <1>a, <1>e, MoveFences, QuietEffect
  <1>f. ASSUME NEW row, NEW new, SetRow(r, row), SetTask(p, r, new),
               row.fence = phases[r].fence, new.fence = 0, FenceIsCurrent(p, r)
        PROVE  GivesUp(p, r) /\ phases'[r] = row
    <2>1. phases'[r] = row
      BY <1>f DEF SetRow, TypeOK
    <2>2. /\ task'[p, r].fence = 0
          /\ \A q \in Procs \ {p} : task'[q, r].fence = task[q, r].fence
      BY <1>f, SetEffect, ZenonT(30)
    <2> QED BY <1>c, <1>f, <2>1, <2>2 DEF GivesUp, FenceIsCurrent
  <1>1. CASE Complete(p, r)
    <2> DEFINE request == Requested(task[p, r].outcome)
               target  == CompletionTarget(phases[r], request)
               row     == complete_phase(phases[r], request)
               new     == AfterComplete(task[p, r], r, target)
    <2>1. CASE FenceIsCurrent(p, r) /\ transition(phases[r].status, target)
      <3>1. SetRow(r, row) /\ SetTask(p, r, new)
        BY <1>1, <2>1 DEF Complete
      <3>2. /\ row.fence = phases[r].fence /\ row.status = target
            /\ row.attempts = phases[r].attempts + 1
        BY <1>b, RowOperatorsEffect, ZenonT(30)
      <3>3. new.fence = 0
        BY <1>b DEF AfterComplete, Containing, Done, Idle, Task
      <3>4. /\ target \in {SUCCEEDED, PENDING, RHI}
            /\ target = PENDING => phases[r].attempts + 1 < MaxAttempts
        <4>1. request \in {SUCCEEDED, PENDING, RHI}
          BY DEF Requested
        <4>2. phases[r].attempts \in Nat /\ MaxAttempts \in Nat
          BY NatFacts, MaxAttemptsAssumption
        <4>3. \A a, m \in Nat : ~(a + 1 >= m) => a + 1 < m
          OBVIOUS
        <4> HIDE DEF request
        <4>4. CASE request = PENDING /\ phases[r].attempts + 1 >= MaxAttempts
          BY <4>4 DEF CompletionTarget, PENDING, RHI
        <4>5. CASE ~(request = PENDING /\ phases[r].attempts + 1 >= MaxAttempts)
          <5>1. target = request
            BY <4>5 DEF CompletionTarget
          <5> QED BY <4>1, <4>2, <4>3, <4>5, <5>1
        <4> QED BY <4>4, <4>5
      <3> HIDE DEF row, new, target
      <3>5. GivesUp(p, r) /\ phases'[r] = row
        BY <1>f, <2>1, <3>1, <3>2, <3>3
      <3>6. task[p, r].pc = "complete"
        BY <1>1 DEF Complete
      <3>7. Charge(r)
        BY <1>a, <2>1, <3>2, <3>4, <3>5, <3>6, Zenon DEF Charge
      <3> QED BY <1>d, <3>1, <3>7 DEF Effect
    <2> QED BY <1>1, <1>e, <2>1 DEF Complete
  <1>2. CASE Terminate(p, r)
    <2> DEFINE row == terminate_uncharged(phases[r], RHI)
    <2>1. CASE FenceIsCurrent(p, r)
      <3>1. SetRow(r, row) /\ SetTask(p, r, Containing(r))
        BY <1>2, <2>1 DEF Terminate
      <3>2. /\ row.fence = phases[r].fence /\ row.status = RHI
            /\ row.attempts = phases[r].attempts
        BY <1>b, RowOperatorsEffect
      <3>3. Containing(r).fence = 0
        BY DEF Containing, Idle
      <3> HIDE DEF row
      <3>4. GivesUp(p, r) /\ phases'[r] = row
        BY <1>f, <2>1, <3>1, <3>2, <3>3
      <3>5. Fail(r)
        BY <1>a, <3>2, <3>4, NatFacts DEF Fail, Uncharged
      <3> QED BY <1>d, <3>1, <3>5 DEF Effect
    <2> QED BY <1>2, <1>e, <2>1 DEF Terminate
  <1> QED BY <1>1, <1>2

LEMMA OutsideEffect ==
  ASSUME TypeOK, NEW r \in Repos, NEW x \in Repos, OutsideStep(r)
  PROVE  Effect(x)
  <1>a. FencesShrink(x)
    BY DEF OutsideStep, ExpireLease, ExpireHold, ResetStaleRunning, Unblock, Retry, Demote,
           StubVerdict, QuarantineRead, QuarantineWrite, QuarantineBlock, FencesShrink
  <1>b. ASSUME NEW row, SetRow(r, row)
        PROVE  phases'[x] = IF x = r THEN row ELSE phases[x]
    BY <1>b DEF SetRow, TypeOK
  <1>c. \/ reopened'[x] = reopened[x]
        \/ Retry(r) \/ Demote(r)
    BY DEF OutsideStep, ExpireLease, ExpireHold, ResetStaleRunning, Unblock, StubVerdict,
           QuarantineRead, QuarantineWrite, QuarantineBlock, opVars, fleetVars
  <1>d. Reopens(r) => reopened'[x] = IF x = r THEN reopened[x] + 1 ELSE reopened[x]
    BY DEF Reopens, TypeOK
  <1>e. ASSUME phases'[x] = phases[x], reopened'[x] = reopened[x] PROVE Effect(x)
    BY <1>a, <1>e, SameEffect
  <1>5. CASE Retry(r)
    <2>1. /\ phases[r].status = RHI /\ Reopens(r)
          /\ phases'[x] = IF x = r THEN reopen_to_pending(phases[x]) ELSE phases[x]
      BY <1>5, <1>b DEF Retry
    <2>2. CASE x = r
      BY <1>a, <1>d, <2>1, <2>2, NatFacts, RowOperatorsEffect DEF Effect, Reopen
    <2> QED BY <1>d, <1>e, <2>1, <2>2
  <1>9. CASE Demote(r)
    <2>1. /\ phases'[x] = IF x = r THEN demote(phases[x]) ELSE phases[x]
          /\ IF phases[r].status = SUCCEEDED THEN Reopens(r) ELSE UNCHANGED reopened
      BY <1>9, <1>b DEF Demote
    <2>2. CASE x = r /\ phases[r].status = SUCCEEDED
      BY <1>a, <1>d, <2>1, <2>2, NatFacts, GuardedOperatorsEffect DEF Effect, Reopen
    <2>3. CASE x = r /\ phases[r].status # SUCCEEDED
      <3>1. phases'[x] = phases[x]
        BY <2>1, <2>3 DEF demote
      <3> QED BY <1>e, <2>1, <2>3, <3>1
    <2>4. CASE x # r
      BY <1>d, <1>e, <2>1, <2>4
    <2> QED BY <2>2, <2>3, <2>4
  <1> SUFFICES ASSUME reopened'[x] = reopened[x] PROVE Effect(x)
    BY <1>c, <1>5, <1>9
  <1>1. CASE ExpireLease(r)
    BY <1>1, <1>a, QuietRow DEF ExpireLease
  <1>2. CASE ExpireHold(r)
    BY <1>2, <1>e DEF ExpireHold
  <1>3. CASE ResetStaleRunning(r)
    <2>1. phases'[x] = IF x = r THEN abort_reset(phases[x]) ELSE phases[x]
      BY <1>3, <1>b DEF ResetStaleRunning
    <2> QED BY <1>a, <2>1, NatFacts, GuardedOperatorsEffect
            DEF Effect, Keep, Reclaim, Uncharged
  <1>4. CASE Unblock(r)
    <2>1. PICK removed :
            phases'[x] = IF x = r THEN clear_blocked_by(phases[x], removed) ELSE phases[x]
      BY <1>4, <1>b DEF Unblock
    <2> QED BY <1>a, <2>1, NatFacts, GuardedOperatorsEffect
            DEF Effect, Keep, Free, Uncharged
  <1>10. CASE StubVerdict(r)
    <2>1. PICK verdict \in {SUCCEEDED, RHI} :
            phases'[x] = IF x = r THEN apply_stub_consumer_status(phases[x], verdict) ELSE phases[x]
      BY <1>10, <1>b DEF StubVerdict
    <2>2. phases[r].status = DEGRADED
      BY <1>10 DEF StubVerdict
    <2> QED BY <1>a, <1>e, <2>1, <2>2, NatFacts, GuardedOperatorsEffect
            DEF Effect, Keep, Judge, Uncharged
  <1>6. CASE QuarantineRead(r)
    BY <1>6, <1>e DEF QuarantineRead
  <1>7. CASE QuarantineWrite(r)
    <2>1. r \in op.repo
      BY <1>7 DEF QuarantineWrite
    <2>2. CASE x # r
      BY <1>7, <1>b, <1>e, <2>2 DEF QuarantineWrite
    <2>3. CASE x = r
      <3>1. \/ phases'[r] = quarantine_movable(phases[r])
            \/ phases'[r] = phases[r]
        BY <1>7, <1>b, <2>3 DEF QuarantineWrite
      <3> QED BY <1>a, <1>e, <2>1, <2>3, <3>1, NatFacts, GuardedOperatorsEffect
              DEF Effect, Keep, Skip, Uncharged
    <2> QED BY <2>2, <2>3
  <1>8. CASE QuarantineBlock(r)
    <2>2. CASE UNCHANGED phases
      BY <1>e, <2>2
    <2>3. ASSUME NEW d \in op.todo, SetRow(d, append_blocked_by(phases[d], r))
          PROVE  Effect(x)
      <3>1. d \in Repos
        BY DEF TypeOK, Op
      <3> QED BY <1>a, <2>3, <3>1, BlockEffect
    <2> QED BY <1>8, <2>2, <2>3 DEF QuarantineBlock
  <1> QED BY <1>1, <1>2, <1>3, <1>4, <1>5, <1>6, <1>7, <1>8, <1>9, <1>10 DEF OutsideStep

LEMMA FleetEffect ==
  ASSUME TypeOK, NEW x \in Repos, FleetStep
  PROVE  Effect(x)
  <1>1. FencesShrink(x) /\ reopened'[x] = reopened[x]
    BY DEF FleetStep, ContainedElsewhere, StubRecorded, StubMoves, AppendWave, AbortRecord,
           AbortReset, FencesShrink, fleetVars
  <1>2. CASE phases' = phases
    BY <1>1, <1>2, SameEffect
  <1>3. CASE AbortReset
    <2>1. phases'[x] = abort_reset(phases[x])
      BY <1>3 DEF AbortReset
    <2> QED BY <1>1, <2>1, NatFacts, GuardedOperatorsEffect
            DEF Effect, Keep, Reclaim, Uncharged
  <1>4. ASSUME NEW e \in Repos \X Repos, ContainedElsewhere(e) PROVE Effect(x)
    <2>1. e[2] \in Repos /\ SetRow(e[2], append_blocked_by(phases[e[2]], e[1]))
      BY <1>4 DEF ContainedElsewhere
    <2> QED BY <1>1, <2>1, BlockEffect
  <1> QED BY <1>2, <1>3, <1>4
          DEF FleetStep, StubRecorded, StubMoves, AppendWave, AbortRecord

\* Whatever the step, each row sees one of the twelve effects.
LEMMA NextEffect ==
  ASSUME TypeOK, WorkingHasFence, [Next]_vars, NEW x \in Repos
  PROVE  Effect(x)
  <1>1. CASE UNCHANGED vars
    BY <1>1, KeepFrame DEF vars, opVars, fleetVars, Effect
  <1>2. ASSUME NEW p \in Procs, NEW r \in Repos, MemberStep(p, r) PROVE Effect(x)
    BY <1>2, QuietStepEffect, AcquireEffect, VerdictEffect DEF MemberStep, TaskStep
  <1> QED BY <1>1, <1>2, NextCases, CommandEffect, OutsideEffect, FleetEffect

-----------------------------------------------------------------------------
(* A task between its lease and its last write holds a fence. *)

Resting == {"idle", "admitted", "acquire", "contain", "done", "closed"}

LEMMA WorkingSet ==
  ASSUME TypeOK, WorkingHasFence, NEW p \in Procs, NEW r \in Repos, NEW new,
         SetTask(p, r, new), new.pc \in Resting \/ new.fence # 0
  PROVE  WorkingHasFence'
  <1> SUFFICES ASSUME NEW q \in Procs, NEW y \in Repos
               PROVE  task'[q, y].pc \in Resting \/ task'[q, y].fence # 0
    BY DEF WorkingHasFence, Resting
  <1>1. task'[q, y] = IF q = p /\ y = r THEN new ELSE task[q, y]
    BY DEF SetTask, TypeOK
  <1> QED BY <1>1 DEF WorkingHasFence, Resting

LEMMA WorkingMove ==
  ASSUME TypeOK, WorkingHasFence, NEW p \in Procs, NEW r \in Repos,
         \/ Return(p, r)
         \/ /\ task[p, r].fence # 0
            /\ \/ \E pc : Goto(p, r, pc)
               \/ \E pc, o : GotoWith(p, r, pc, o)
  PROVE  WorkingHasFence'
  <1>1. task[p, r] \in Task
    BY SetType
  <1>2. CASE Return(p, r)
    <2>1. Done.pc \in Resting
      BY DEF Done, Idle, Resting
    <2> QED BY <1>2, <2>1, WorkingSet DEF Return
  <1>3. ASSUME NEW pc, task[p, r].fence # 0, Goto(p, r, pc) PROVE WorkingHasFence'
    <2>1. [task[p, r] EXCEPT !.pc = pc].fence = task[p, r].fence
      BY <1>1 DEF Task
    <2> QED BY <1>3, <2>1, WorkingSet DEF Goto
  <1>4. ASSUME NEW pc, NEW o, task[p, r].fence # 0, GotoWith(p, r, pc, o)
        PROVE  WorkingHasFence'
    <2>1. [task[p, r] EXCEPT !.pc = pc, !.outcome = o].fence = task[p, r].fence
      BY <1>1 DEF Task
    <2> QED BY <1>4, <2>1, WorkingSet DEF GotoWith
  <1> QED BY <1>2, <1>3, <1>4

LEMMA WorkingTaskStep ==
  ASSUME TypeOK, WorkingHasFence, NEW p \in Procs, NEW r \in Repos,
         MemberStep(p, r)
  PROVE  WorkingHasFence'
  <1>b. phases[r] \in PhaseRow /\ task[p, r] \in Task
    BY SetType
  <1>8. CASE Admit(p, r)
    <2>1. [task[p, r] EXCEPT !.pc = "admitted"].pc \in Resting
      BY <1>b DEF Task, Resting
    <2>2. SetTask(p, r, [task[p, r] EXCEPT !.pc = "admitted"]) \/ Return(p, r)
      BY <1>8 DEF Admit, Goto
    <2> QED BY <2>1, <2>2, WorkingSet, WorkingMove
  <1>1. CASE Drive(p, r)
    <2> DEFINE new == [task[p, r] EXCEPT !.pc = "acquire",
                                         !.attempts = phases[r].attempts,
                                         !.transient = phases[r].transient]
    <2>1. new.pc \in Resting
      BY <1>b DEF Task, Resting
    <2>2. SetTask(p, r, new)
      BY <1>1 DEF Drive
    <2> HIDE DEF new
    <2> QED BY <2>1, <2>2, WorkingSet
  <1>2. CASE Acquire(p, r)
    <2> DEFINE row == acquire_phase_lease(phases[r])
               new == [task[p, r] EXCEPT !.pc = "leased", !.fence = row.fence]
    <2>1. new.fence = phases[r].fence + 1
      BY <1>b, RowOperatorsEffect DEF Task
    <2>2. phases[r].fence + 1 # 0
      BY NatFacts
    <2>3. SetTask(p, r, new) \/ Return(p, r)
      BY <1>2 DEF Acquire
    <2> HIDE DEF new
    <2> QED BY <2>1, <2>2, <2>3, WorkingSet, WorkingMove
  <1>3. CASE Reserve(p, r) \/ Execute(p, r) \/ RunReturns(p, r) \/ Settle(p, r)
             \/ SaveCheckpoint(p, r) \/ Renew(p, r) \/ OnBreach(p, r)
    <2>1. Return(p, r) \/ (\E pc : Goto(p, r, pc)) \/ (\E pc, o : GotoWith(p, r, pc, o))
      BY <1>3 DEF Reserve, Execute, RunReturns, Settle, SaveCheckpoint, Renew, OnBreach
    <2>2. task[p, r].fence # 0
      BY <1>3 DEF Reserve, Execute, RunReturns, Settle, SaveCheckpoint, Renew, OnBreach,
                  WorkingHasFence
    <2> QED BY <2>1, <2>2, WorkingMove
  <1>4. CASE Diagnose(p, r)
    <2> DEFINE new == decide(task[p, r])
    <2>1. new.fence = task[p, r].fence
      BY <1>b DEF decide, Task
    <2>2. task[p, r].fence # 0
      BY <1>4 DEF Diagnose, WorkingHasFence
    <2>3. SetTask(p, r, new) \/ Return(p, r)
      BY <1>4 DEF Diagnose
    <2> HIDE DEF new
    <2> QED BY <2>1, <2>2, <2>3, WorkingSet, WorkingMove
  <1>5. CASE Complete(p, r)
    <2>1. \A s : AfterComplete(task[p, r], r, s).pc \in Resting
      BY <1>b DEF AfterComplete, Containing, Done, Idle, Task, Resting
    <2>2. (\E s : SetTask(p, r, AfterComplete(task[p, r], r, s))) \/ Return(p, r)
      BY <1>5 DEF Complete
    <2> QED BY <2>1, <2>2, WorkingSet, WorkingMove
  <1>6. CASE Terminate(p, r)
    <2>1. Containing(r).pc \in Resting
      BY DEF Containing, Idle, Resting
    <2>2. SetTask(p, r, Containing(r)) \/ Return(p, r)
      BY <1>6 DEF Terminate
    <2> QED BY <2>1, <2>2, WorkingSet, WorkingMove
  <1>7. CASE Contain(p, r)
    <2>1. \A d : [task[p, r] EXCEPT !.todo = @ \ {d}].pc = task[p, r].pc
      BY <1>b DEF Task
    <2>2. task[p, r].pc \in Resting
      BY <1>7 DEF Contain, Resting
    <2>3. (\E d : SetTask(p, r, [task[p, r] EXCEPT !.todo = @ \ {d}])) \/ Return(p, r)
      BY <1>7 DEF Contain
    <2>4. ASSUME NEW d, SetTask(p, r, [task[p, r] EXCEPT !.todo = @ \ {d}])
          PROVE  WorkingHasFence'
      <3>1. [task[p, r] EXCEPT !.todo = @ \ {d}].pc \in Resting
        BY <2>1, <2>2
      <3> QED BY <2>4, <3>1, WorkingSet
    <2> QED BY <2>3, <2>4, WorkingMove
  <1>9. CASE StubDegrade(p, r)
    <2>1. SetTask(p, r, [Idle EXCEPT !.pc = "closed"])
      BY <1>9 DEF StubDegrade
    <2>2. [Idle EXCEPT !.pc = "closed"].pc \in Resting
      BY DEF Idle, Resting
    <2> QED BY <2>1, <2>2, WorkingSet
  <1>10. CASE AbandonRepo(p, r) \/ Heartbeat(p, r)
    BY <1>10 DEF AbandonRepo, Heartbeat, WorkingHasFence
  <1> QED BY <1>1, <1>2, <1>3, <1>4, <1>5, <1>6, <1>7, <1>8, <1>9, <1>10
          DEF MemberStep, TaskStep

LEMMA WorkingNext == TypeOK /\ WorkingHasFence /\ [Next]_vars => WorkingHasFence'
  <1> SUFFICES ASSUME TypeOK, WorkingHasFence, [Next]_vars PROVE WorkingHasFence'
    OBVIOUS
  <1>1. CASE task' = task
    BY <1>1 DEF WorkingHasFence
  <1>2. ASSUME NEW p \in Procs, CommandStep(p) PROVE WorkingHasFence'
    <2> SUFFICES ASSUME NEW q \in Procs, NEW y \in Repos
                 PROVE  task'[q, y].pc \in Resting \/ task'[q, y].fence # 0
      BY DEF WorkingHasFence, Resting
    <2>1. Idle.pc \in Resting /\ Done.pc \in Resting
      BY DEF Idle, Done, Resting
    <2>2. task'[q, y] \in {Idle, Done, task[q, y]}
      BY <1>2, CommandTasks DEF ClearTasks
    <2>3. task[q, y].pc \in Resting \/ task[q, y].fence # 0
      BY DEF WorkingHasFence, Resting
    <2> QED BY <2>1, <2>2, <2>3
  <1>3. ASSUME NEW r \in Repos, OutsideStep(r) PROVE task' = task
    BY <1>3 DEF OutsideStep, ExpireLease, ExpireHold, ResetStaleRunning, Unblock, Retry, Demote,
                StubVerdict, QuarantineRead, QuarantineWrite, QuarantineBlock
  <1>4. FleetStep => task' = task
    BY DEF FleetStep, ContainedElsewhere, StubRecorded, StubMoves, AppendWave, AbortRecord, AbortReset
  <1>5. UNCHANGED vars => task' = task
    BY DEF vars
  <1> QED BY <1>1, <1>2, <1>3, <1>4, <1>5, NextCases, WorkingTaskStep

-----------------------------------------------------------------------------
(* The inductive invariant.  OneFenceHolder is inductive given the effects;  *)
(* the ladder and the finality of a verdict are not, until they also speak   *)
(* of a task that still holds the current fence on a row that is no longer   *)
(* RUNNING (containment and quarantine leave such a task behind), and of     *)
(* DEGRADED rows, which a stub verdict makes a success again.                *)

\* Some task still passes the fence test on r.
Held(r) == \E p \in Procs : task[p, r].fence # 0 /\ task[p, r].fence = phases[r].fence

FenceHolder(r) ==
  \A p \in Procs :
    task[p, r].fence # 0 =>
      /\ task[p, r].fence <= phases[r].fence
      /\ \A q \in Procs \ {p} : task[q, r].fence # task[p, r].fence

\* An attempt is left on every row that can still be charged one.
Ladder(r) ==
  /\ phases[r].attempts <= MaxAttempts + reopened[r]
  /\ phases[r].status \in Runnable \/ Held(r) =>
       phases[r].attempts < MaxAttempts + reopened[r]

\* Success is written last: nobody is left who could overwrite it, nor what a
\* stub made of it.
SuccessReleased(r) == phases[r].status \in {SUCCEEDED, DEGRADED} => ~Held(r)

RowInvariant(r) == FenceHolder(r) /\ Ladder(r) /\ SuccessReleased(r)

IInv == TypeOK /\ WorkingHasFence /\ \A r \in Repos : RowInvariant(r)

LEMMA InitIInv == Init => IInv
  <1> SUFFICES ASSUME Init PROVE IInv
    OBVIOUS
  <1>1. TypeOK
    BY InitType
  <1>2. \A p \in Procs, r \in Repos : task[p, r] = Idle
    BY DEF Init
  <1>3. Idle.pc = "idle" /\ Idle.fence = 0
    BY DEF Idle
  <1>4. WorkingHasFence
    BY <1>2, <1>3 DEF WorkingHasFence
  <1>5. ASSUME NEW r \in Repos PROVE RowInvariant(r)
    <2>1. FenceHolder(r) /\ ~Held(r)
      BY <1>2, <1>3 DEF FenceHolder, Held
    <2>2. phases[r].attempts = 0 /\ phases[r].status = PENDING /\ reopened[r] = 0
      BY DEF Init, FreshRow
    <2>3. Ladder(r)
      BY <2>1, <2>2, MaxAttemptsAssumption DEF Ladder
    <2> QED BY <2>1, <2>3 DEF RowInvariant, SuccessReleased
  <1> QED BY <1>1, <1>4, <1>5 DEF IInv

\* Facts about one row on both sides of a step.
LEMMA StepFacts ==
  ASSUME TypeOK, TypeOK', NEW r \in Repos
  PROVE  /\ phases[r].fence \in Nat /\ phases'[r].fence \in Nat
         /\ phases[r].attempts \in Nat /\ phases'[r].attempts \in Nat
         /\ reopened[r] \in Nat /\ reopened'[r] \in Nat /\ MaxAttempts \in Nat
         /\ \A p \in Procs : task[p, r].fence \in Nat /\ task'[p, r].fence \in Nat
  <1>1. ASSUME NEW p \in Procs PROVE task[p, r].fence \in Nat /\ task'[p, r].fence \in Nat
    BY DEF TypeOK, Task
  <1> QED BY <1>1, MaxAttemptsAssumption DEF TypeOK, PhaseRow

LEMMA NatOrder ==
  /\ \A a, b, c \in Nat : a <= b /\ (c >= b \/ c = b) => a <= c
  /\ \A a, b, c \in Nat : a <= b /\ (c >= b \/ c = b) /\ a = c => a = b
  /\ \A b \in Nat : b + 1 <= b + 1 /\ 0 # b + 1
  /\ \A a, b \in Nat : a = 0 \/ a <= b => a <= b + 1 /\ a # b + 1
  OBVIOUS

\* While fences only shrink and the row's own never falls, holders stay apart
\* and whoever passes the fence test afterwards passed it before.
LEMMA ShrinkFacts ==
  ASSUME TypeOK, TypeOK', NEW r \in Repos, FenceHolder(r), FencesShrink(r),
         phases'[r].fence >= phases[r].fence \/ phases'[r].fence = phases[r].fence
  PROVE  FenceHolder(r)' /\ (Held(r)' => Held(r))
  <1>1. phases[r].fence \in Nat /\ phases'[r].fence \in Nat
    BY StepFacts
  <1>2. ASSUME NEW p \in Procs, task'[p, r].fence # 0
        PROVE  /\ task'[p, r].fence = task[p, r].fence /\ task[p, r].fence # 0
               /\ task[p, r].fence \in Nat /\ task[p, r].fence <= phases[r].fence
    BY <1>2, StepFacts DEF FencesShrink, FenceHolder
  <1>3. FenceHolder(r)'
    <2>1. ASSUME NEW p \in Procs, task'[p, r].fence # 0
          PROVE  task'[p, r].fence <= phases'[r].fence
      BY <1>1, <1>2, <2>1, NatOrder
    <2>2. ASSUME NEW p \in Procs, task'[p, r].fence # 0, NEW q \in Procs \ {p}
          PROVE  task'[q, r].fence # task'[p, r].fence
      BY <1>2, <2>2 DEF FencesShrink, FenceHolder
    <2> QED BY <2>1, <2>2 DEF FenceHolder
  <1>4. ASSUME NEW p \in Procs, task'[p, r].fence # 0, task'[p, r].fence = phases'[r].fence
        PROVE  task[p, r].fence # 0 /\ task[p, r].fence = phases[r].fence
    BY <1>1, <1>2, <1>4, NatOrder
  <1> QED BY <1>3, <1>4 DEF Held

\* A task that gives up the current fence leaves nobody who holds it.
LEMMA GiveUpFacts ==
  ASSUME TypeOK, TypeOK', NEW r \in Repos, FenceHolder(r),
         NEW p \in Procs, GivesUp(p, r)
  PROVE  FenceHolder(r)' /\ Held(r) /\ ~Held(r)'
  BY StepFacts DEF FenceHolder, GivesUp, Held

LEMMA GrantFacts ==
  ASSUME TypeOK, TypeOK', NEW r \in Repos, FenceHolder(r), Grant(r)
  PROVE  FenceHolder(r)'
  <1>1. phases[r].fence \in Nat /\ phases'[r].fence = phases[r].fence + 1
    BY StepFacts DEF Grant
  <1>2. PICK p \in Procs : /\ task'[p, r].fence = phases[r].fence + 1
                          /\ \A q \in Procs \ {p} : task'[q, r].fence = task[q, r].fence
    BY DEF Grant
  <1>3. ASSUME NEW q \in Procs
        PROVE  task[q, r].fence <= phases[r].fence + 1 /\ task[q, r].fence # phases[r].fence + 1
    <2>1. task[q, r].fence \in Nat
      BY StepFacts
    <2>2. task[q, r].fence = 0 \/ task[q, r].fence <= phases[r].fence
      BY DEF FenceHolder
    <2> QED BY <1>1, <2>1, <2>2, NatOrder
  <1>4. ASSUME NEW a \in Procs, task'[a, r].fence # 0
        PROVE  /\ task'[a, r].fence <= phases'[r].fence
               /\ \A b \in Procs \ {a} : task'[b, r].fence # task'[a, r].fence
    <2>1. CASE a = p
      <3>1. task'[a, r].fence = phases[r].fence + 1
        BY <1>2, <2>1
      <3>2. task'[a, r].fence <= phases'[r].fence
        BY <1>1, <3>1, NatOrder
      <3>3. \A b \in Procs \ {a} : task'[b, r].fence = task[b, r].fence
        BY <1>2, <2>1
      <3> QED BY <1>3, <3>1, <3>2, <3>3
    <2>2. CASE a # p
      <3>1. task'[a, r].fence = task[a, r].fence
        BY <1>2, <2>2
      <3>2. task'[a, r].fence <= phases'[r].fence
        BY <1>1, <1>3, <3>1
      <3>3. ASSUME NEW b \in Procs \ {a} PROVE task'[b, r].fence # task'[a, r].fence
        <4>1. CASE b = p
          BY <1>2, <1>3, <3>1, <4>1
        <4>2. CASE b # p
          BY <1>2, <1>4, <3>1, <4>2 DEF FenceHolder
        <4> QED BY <4>1, <4>2
      <3> QED BY <3>2, <3>3
    <2> QED BY <2>1, <2>2
  <1> QED BY <1>4 DEF FenceHolder

LEMMA RowStep ==
  ASSUME TypeOK, TypeOK', NEW r \in Repos, RowInvariant(r), Effect(r)
  PROVE  RowInvariant(r)'
  <1> USE DEF RowInvariant
  <1>a. /\ phases[r].attempts \in Nat /\ reopened[r] \in Nat /\ reopened'[r] \in Nat
        /\ MaxAttempts \in Nat
    BY StepFacts
  \* Effects that charge nothing and under which holders only disappear.
  <1>b. ASSUME Uncharged(r), FenceHolder(r)', Held(r)' => Held(r),
               phases'[r].status \in Runnable => phases[r].status \in Runnable,
               phases'[r].status \in {SUCCEEDED, DEGRADED} =>
                 phases[r].status \in {SUCCEEDED, DEGRADED}
        PROVE  RowInvariant(r)'
    <2>1. Ladder(r)'
      BY <1>a, <1>b DEF Ladder, Uncharged
    <2> QED BY <1>b, <2>1 DEF SuccessReleased
  <1>c. /\ PENDING \in Runnable /\ RUNNING \in Runnable /\ BLOCKED \in Runnable
        /\ {SUCCEEDED, DEGRADED, RHI, SKIPPED} \cap Runnable = {}
        /\ {PENDING, RUNNING, BLOCKED, RHI, SKIPPED} \cap {SUCCEEDED, DEGRADED} = {}
    BY DEF Runnable, PENDING, RUNNING, BLOCKED, SUCCEEDED, DEGRADED, RHI, SKIPPED
  <1>1. CASE Keep(r)
    BY <1>1, <1>b, ShrinkFacts DEF Keep
  <1>2. CASE Grant(r)
    <2>1. FenceHolder(r)'
      BY <1>2, GrantFacts
    <2>2. Ladder(r)'
      <3>1. phases[r].attempts < MaxAttempts + reopened[r]
        BY <1>2, <1>c DEF Grant, Ladder
      <3>2. phases'[r].attempts = phases[r].attempts /\ reopened'[r] = reopened[r]
        BY <1>2 DEF Grant, Uncharged
      <3> QED BY <1>a, <3>1, <3>2 DEF Ladder
    <2> QED BY <1>2, <1>c, <2>1, <2>2 DEF Grant, SuccessReleased
  <1>3. CASE Reclaim(r)
    BY <1>3, <1>b, <1>c, ShrinkFacts DEF Reclaim
  <1>4. CASE Charge(r)
    <2>1. PICK p \in Procs : GivesUp(p, r)
      BY <1>4 DEF Charge
    <2>2. FenceHolder(r)' /\ Held(r) /\ ~Held(r)'
      BY <2>1, GiveUpFacts
    <2>3. Ladder(r)'
      <3>1. phases[r].attempts < MaxAttempts + reopened[r]
        BY <2>2 DEF Ladder
      <3>2. /\ phases'[r].attempts = phases[r].attempts + 1 /\ reopened'[r] = reopened[r]
            /\ phases'[r].status \in Runnable => phases[r].attempts + 1 < MaxAttempts
        BY <1>4, <1>c DEF Charge
      <3> QED BY <1>a, <2>2, <3>1, <3>2 DEF Ladder
    <2> QED BY <2>2, <2>3 DEF SuccessReleased
  <1>5. CASE Fail(r)
    <2>1. PICK p \in Procs : GivesUp(p, r)
      BY <1>5 DEF Fail
    <2>2. FenceHolder(r)' /\ Held(r) /\ ~Held(r)'
      BY <2>1, GiveUpFacts
    <2> QED BY <1>5, <1>b, <1>c, <2>2 DEF Fail
  <1>6. CASE Block(r)
    BY <1>6, <1>b, <1>c, ShrinkFacts DEF Block
  <1>7. CASE Free(r)
    BY <1>7, <1>b, <1>c, ShrinkFacts DEF Free
  <1>8. CASE Reopen(r)
    <2>1. FenceHolder(r)'
      BY <1>8, ShrinkFacts DEF Reopen
    <2>2. Ladder(r)'
      BY <1>8, <1>a DEF Reopen, Ladder
    <2> QED BY <1>8, <1>c, <2>1, <2>2 DEF Reopen, SuccessReleased
  <1>9. CASE Skip(r)
    BY <1>9, <1>b, <1>c, ShrinkFacts DEF Skip
  <1>10. CASE Abandon(r)
    BY <1>10, <1>b, <1>c, ShrinkFacts DEF Abandon
  <1>11. CASE Degrade(r)
    BY <1>11, <1>b, <1>c, ShrinkFacts DEF Degrade
  <1>12. CASE Judge(r)
    BY <1>12, <1>b, <1>c, ShrinkFacts DEF Judge
  <1> QED BY <1>1, <1>2, <1>3, <1>4, <1>5, <1>6, <1>7, <1>8, <1>9, <1>10, <1>11, <1>12
          DEF Effect

LEMMA NextIInv == IInv /\ [Next]_vars => IInv'
  <1> SUFFICES ASSUME IInv, [Next]_vars PROVE IInv'
    OBVIOUS
  <1>1. TypeOK'
    BY NextType DEF IInv
  <1>2. WorkingHasFence'
    BY WorkingNext DEF IInv
  <1>3. ASSUME NEW r \in Repos PROVE RowInvariant(r)'
    BY <1>1, NextEffect, RowStep DEF IInv
  <1> QED BY <1>1, <1>2, <1>3 DEF IInv

LEMMA InductiveInvariant == Spec => []IInv
  BY InitIInv, NextIInv, PTL DEF Spec

-----------------------------------------------------------------------------
(* The theorems *)

\* Mutual exclusion of the fence, for any number of processes, repos, crashes
\* and operator commands: two tasks never hold the same fence of a row, and no
\* task holds one the row has not reached.
THEOREM FenceExclusion == Spec => []OneFenceHolder
  <1>1. IInv => OneFenceHolder
    BY DEF IInv, RowInvariant, FenceHolder, OneFenceHolder, HasFence
  <1> QED BY <1>1, InductiveInvariant, PTL

\* The retry ladder is finite whoever drives it: each retry of an abandoned
\* repo and each demotion of a succeeded one gives that repo one attempt more
\* than max_attempts, nothing else does, and a row that can still run always
\* has an attempt left.
THEOREM LadderTheorem == Spec => []LadderBounded
  <1>1. IInv => LadderBounded
    BY DEF IInv, RowInvariant, Ladder, LadderBounded, Runnable
  <1> QED BY <1>1, InductiveInvariant, PTL

\* Only the task that holds the current fence charges an attempt, one at a
\* time.
THEOREM ChargeTheorem == Spec => ChargedByHolder
  <1> DEFINE Step(r) ==
        phases'[r].attempts # phases[r].attempts =>
          /\ phases'[r].attempts = phases[r].attempts + 1
          /\ \E p \in Procs : /\ task[p, r].pc = "complete"
                             /\ task[p, r].fence = phases[r].fence
  <1>1. ASSUME IInv, [Next]_vars, NEW r \in Repos PROVE Step(r)
    <2>1. Effect(r)
      BY <1>1, NextEffect DEF IInv
    <2> QED BY <2>1 DEF Effect, Keep, Grant, Reclaim, Charge, Fail, Block, Free, Reopen,
                       Skip, Abandon, Degrade, Judge, Uncharged, GivesUp
  <1>2. IInv /\ [Next]_vars => [\A r \in Repos : Step(r)]_vars
    BY <1>1
  <1> QED BY <1>2, InductiveInvariant, PTL DEF Spec, ChargedByHolder

\* A verdict stands until `fleet retry` or a demotion takes it back, a
\* quarantine skips the repo, or the command that drove its wave degrades a
\* success over a live stub.
THEOREM VerdictTheorem == Spec => VerdictIsFinal
  <1> DEFINE Step(r) ==
        phases[r].status \in {SUCCEEDED, RHI}
        /\ phases'[r].status # phases[r].status =>
          \/ phases'[r].status = PENDING /\ reopened'[r] = reopened[r] + 1
          \/ phases'[r].status = SKIPPED /\ r \in op.repo
          \/ /\ phases'[r].status = DEGRADED /\ phases[r].status = SUCCEEDED
             /\ OnLiveStub(r)
             /\ \E p \in Procs : /\ cmd[p] = "report" /\ r \in Members(Current(p))
                                /\ Corrects(p)
  <1>1. ASSUME IInv, [Next]_vars, NEW r \in Repos PROVE Step(r)
    <2> SUFFICES ASSUME phases[r].status \in {SUCCEEDED, RHI},
                        phases'[r].status # phases[r].status
                 PROVE  \/ Reopen(r)
                        \/ Skip(r)
                        \/ Degrade(r)
      BY DEF Reopen, Skip, Degrade
    <2>1. Effect(r) /\ RowInvariant(r)
      BY <1>1, NextEffect DEF IInv
    <2>2. /\ ~Keep(r) /\ ~Grant(r) /\ ~Reclaim(r) /\ ~Block(r) /\ ~Free(r) /\ ~Abandon(r)
          /\ ~Judge(r)
      BY DEF Keep, Grant, Reclaim, Block, Free, Abandon, Judge, Runnable, SUCCEEDED,
             RHI, SKIPPED, PENDING, RUNNING, BLOCKED, DEGRADED
    <2>3. ~Charge(r)
      BY DEF Charge, transition, ALLOWED_TRANSITIONS, RepoStatus, SUCCEEDED, RHI,
             SKIPPED, PENDING, RUNNING, BLOCKED, DEGRADED
    <2>4. ~Fail(r)
      <3> SUFFICES ASSUME Fail(r) PROVE FALSE
        OBVIOUS
      <3>1. Held(r)
        BY DEF Fail, GivesUp, Held
      <3>2. phases[r].status = SUCCEEDED
        BY DEF Fail
      <3> QED BY <2>1, <3>1, <3>2 DEF RowInvariant, SuccessReleased
    <2> QED BY <2>1, <2>2, <2>3, <2>4 DEF Effect
  <1>2. IInv /\ [Next]_vars => [\A r \in Repos : Step(r)]_vars
    BY <1>1
  <1> QED BY <1>2, InductiveInvariant, PTL DEF Spec, VerdictIsFinal

-----------------------------------------------------------------------------
(* What the steps of one command leave alone. *)

\* Before its waves.
Early == {"down", "reaped", "sweep"}

LEMMA MemberFrame ==
  ASSUME NEW p \in Procs, NEW r \in Repos, MemberStep(p, r)
  PROVE  UNCHANGED <<cmdVars, opVars>>
  BY DEF MemberStep, AbandonRepo, Admit, Drive, TaskStep, Heartbeat, StubDegrade, Acquire, Reserve,
         Execute, RunReturns, Settle, SaveCheckpoint, Diagnose, Renew, OnBreach, Complete, Terminate,
         Contain

\* Whoever is not a process leaves processes alone, and acts as an operator, goes on with an
\* operator's command, or changes neither the operator nor the stubs.
LEMMA OutsideFrame ==
  ASSUME NEW r \in Repos, OutsideStep(r)
  PROVE  /\ UNCHANGED <<cmdVars, task>>
         /\ \/ UNCHANGED <<op, ops, stub>>
            \/ ops' = ops + 1
            \/ ops' = ops /\ op.step # "none" /\ stub' = stub
  BY DEF OutsideStep, ExpireLease, ExpireHold, ResetStaleRunning, Unblock, Retry, Demote, StubVerdict,
         QuarantineRead, QuarantineWrite, QuarantineBlock, opVars, fleetVars, Operate

LEMMA FleetFrame ==
  ASSUME FleetStep
  PROVE  /\ UNCHANGED <<cmdVars, task>>
         /\ \/ UNCHANGED <<phases, op, ops, stub>>
            \/ ops' = ops + 1
            \/ ops' = ops /\ op.step # "none" /\ stub' = stub
  BY DEF FleetStep, ContainedElsewhere, StubRecorded, StubMoves, AppendWave, AbortRecord, AbortReset,
         fleetVars, Operate

LEMMA CommandFrame ==
  ASSUME TypeOK, NEW p \in Procs, CommandStep(p)
  PROVE  /\ UNCHANGED <<op, ops>>
         /\ stub' = stub \/ StubRecord(p)
         /\ \A q \in Procs : q # p => cmd'[q] = cmd[q] /\ pairs'[q] = pairs[q]
         /\ \/ task' = task /\ (cmd'[p] \in Early => cmd[p] \in Early)
            \/ ClearTasks(p)
            \/ /\ cmd'[p] \notin Early
               /\ \A q \in Procs, x \in Repos : q # p => task'[q, x] = task[q, x]
         /\ cmd'[p] = "sweep" => SweepRead(p) \/ SweepOne(p)
         /\ cmd[p] = "sweep" /\ cmd'[p] = "prepare" => pairs[p] = {} /\ phases' = phases
  <1>0. /\ cmd \in [Procs -> {"down", "reaped", "sweep", "prepare", "wave", "report"}]
        /\ pairs \in [Procs -> SUBSET (Repos \X Repos)]
    BY DEF TypeOK
  <1>1. UNCHANGED <<op, ops>> /\ (stub' = stub \/ StubRecord(p))
    BY DEF CommandStep, StartCommand, SweepRead, SweepOne, FirstWave, OpenWave, WaveReturns, StubRecord,
           NextWave, Halt, Crash, opVars, fleetVars
  <1>2. ASSUME Stopped(p)
        PROVE  /\ \A q \in Procs : q # p => cmd'[q] = cmd[q] /\ pairs'[q] = pairs[q]
               /\ ClearTasks(p)
               /\ cmd'[p] = "down"
    BY <1>0, <1>2 DEF Stopped
  <1>e. ASSUME NEW left, EnterWave(p, left)
        PROVE  /\ \A q \in Procs : q # p => cmd'[q] = cmd[q] /\ pairs'[q] = pairs[q]
               /\ ClearTasks(p)
               /\ cmd'[p] \in {"down", "prepare"}
    <2>1. CASE left = {}
      BY <1>2, <1>e, <2>1 DEF EnterWave
    <2>2. CASE left # {}
      BY <1>0, <1>e, <2>2 DEF EnterWave
    <2> QED BY <2>1, <2>2
  <1>3. CASE StartCommand(p)
    BY <1>0, <1>1, <1>3 DEF StartCommand, Early
  <1>4. CASE SweepRead(p)
    BY <1>0, <1>1, <1>4 DEF SweepRead, Early
  <1>5. CASE SweepOne(p)
    BY <1>0, <1>1, <1>5 DEF SweepOne, Early
  <1>6. CASE FirstWave(p)
    <2>1. pairs[p] = {} /\ phases' = phases /\ EnterWave(p, waves[p])
      BY <1>6 DEF FirstWave
    <2> QED BY <1>1, <1>e, <2>1
  <1>7. CASE OpenWave(p)
    <2>1. cmd[p] = "prepare"
      BY <1>7 DEF OpenWave
    <2>2. CASE Stopped(p)
      BY <1>1, <1>2, <2>1, <2>2
    <2>3. CASE cmd' = [cmd EXCEPT ![p] = "wave"] /\ UNCHANGED <<waves, pairs, stub_blocked, task>>
      BY <1>0, <1>1, <2>1, <2>3 DEF Early
    <2> QED BY <1>7, <2>2, <2>3 DEF OpenWave
  <1>10. CASE WaveReturns(p)
    <2>1. /\ cmd[p] = "wave" /\ cmd' = [cmd EXCEPT ![p] = "report"] /\ task' = task
          /\ UNCHANGED pairs \/ \E es : pairs' = [pairs EXCEPT ![p] = es]
      BY <1>10 DEF WaveReturns
    <2> QED BY <1>0, <1>1, <2>1 DEF Early
  <1>11. CASE StubRecord(p)
    <2>1. /\ cmd[p] = "report" /\ cmd' = cmd /\ task' = task
          /\ \E es : pairs' = [pairs EXCEPT ![p] = es]
      BY <1>11 DEF StubRecord
    <2> QED BY <1>0, <1>1, <2>1 DEF Early
  <1>8. CASE NextWave(p)
    <2>1. cmd[p] = "report" /\ EnterWave(p, waves[p] \ {Current(p)})
      BY <1>8 DEF NextWave
    <2> QED BY <1>1, <1>e, <2>1
  <1>9. CASE Halt(p)
    <2>1. /\ cmd[p] = "wave" /\ UNCHANGED <<cmd, pairs>>
          /\ task' = [t \in Procs \X Repos |-> IF t[1] = p THEN Done ELSE task[t]]
      BY <1>9 DEF Halt
    <2> QED BY <1>1, <2>1 DEF Early
  <1>12. CASE Crash(p)
    <2>1. Stopped(p)
      BY <1>12 DEF Crash
    <2> QED BY <1>1, <1>2, <2>1
  <1> QED BY <1>3, <1>4, <1>5, <1>6, <1>7, <1>8, <1>9, <1>10, <1>11, <1>12 DEF CommandStep

-----------------------------------------------------------------------------
(* Containment.  What a row's blocked_by names depends on what every         *)
(* broadcast still owes: a sweep, a task's containment, a quarantine.        *)

\* Everybody a broadcast is about to tell depends on the repo it is about.
Targeted ==
  /\ \A p \in Procs : cmd[p] = "sweep" => \A e \in pairs[p] : e[2] \in Descendants(e[1])
  /\ \A p \in Procs, r \in Repos : task[p, r].todo \subseteq Descendants(r)
  /\ \A a, b \in op.repo : a = b /\ op.todo \subseteq Descendants(a)

\* The columns containment reads, left alone.
Apart(row, new) == new.blocked_by = row.blocked_by /\ (new.status = BLOCKED => row.status = BLOCKED)

LEMMA ApartOperators ==
  ASSUME NEW row \in PhaseRow
  PROVE  /\ Apart(row, row)
         /\ Apart(row, acquire_phase_lease(row)) /\ Apart(row, renew_phase_lease(row))
         /\ \A t \in {SUCCEEDED, PENDING, RHI} : Apart(row, complete_phase(row, t))
         /\ Apart(row, terminate_uncharged(row, RHI))
         /\ \A n : Apart(row, record_diagnostics(row, n))
         /\ Apart(row, reopen_to_pending(row)) /\ Apart(row, quarantine_movable(row))
         /\ Apart(row, demote(row)) /\ Apart(row, stub_degrade_transform(row))
         /\ \A s \in {SUCCEEDED, RHI} : Apart(row, apply_stub_consumer_status(row, s))
         /\ Apart(row, abandon_repo(row))
         /\ Apart(row, abort_reset(row)) /\ Apart(row, [row EXCEPT !.lease = "expired"])
         /\ \A held : Apart(row, Reaped(row, held))
  <1> USE DEF Apart, PhaseRow, PENDING, RUNNING, SUCCEEDED, RHI, SKIPPED, BLOCKED
  <1>1. Apart(row, acquire_phase_lease(row)) /\ Apart(row, renew_phase_lease(row))
    BY DEF acquire_phase_lease, renew_phase_lease
  <1>2. \A t \in {SUCCEEDED, PENDING, RHI} : Apart(row, complete_phase(row, t))
    BY DEF complete_phase, CompletionTarget
  <1>3. /\ Apart(row, terminate_uncharged(row, RHI)) /\ \A n : Apart(row, record_diagnostics(row, n))
        /\ Apart(row, reopen_to_pending(row)) /\ Apart(row, quarantine_movable(row))
    BY DEF terminate_uncharged, record_diagnostics, reopen_to_pending, quarantine_movable
  <1>7. /\ Apart(row, demote(row)) /\ Apart(row, stub_degrade_transform(row))
        /\ \A s \in {SUCCEEDED, RHI} : Apart(row, apply_stub_consumer_status(row, s))
    BY DEF demote, stub_degrade_transform, apply_stub_consumer_status, DEGRADED
  <1>4. /\ Apart(row, abandon_repo(row))
        /\ Apart(row, abort_reset(row)) /\ Apart(row, [row EXCEPT !.lease = "expired"])
    BY DEF abandon_repo, abort_reset, ReclaimLease
  <1>5. \A held : Apart(row, Reaped(row, held))
    BY DEF Reaped, ReclaimLease
  <1>6. Apart(row, row)
    OBVIOUS
  <1> QED BY <1>1, <1>2, <1>3, <1>4, <1>5, <1>6, <1>7

Told(r)   == \E b \in Repos : r \in Descendants(b) /\ phases'[r] = append_blocked_by(phases[r], b)
\* Un-blocking takes what landed; what --stub-blocked lets it take besides is counted.
Untold(r) ==
  \E x : /\ phases'[r] = clear_blocked_by(phases[r], x)
         /\ ops' = ops => \A b \in x : phases[b].status \in LANDED_STATUSES

BlockStep(r) == Apart(phases[r], phases'[r]) \/ Told(r) \/ Untold(r)

\* A write of one row.
LEMMA SetRowEffect ==
  ASSUME TypeOK, NEW r \in Repos, NEW row, SetRow(r, row), NEW x \in Repos
  PROVE  phases'[x] = IF x = r THEN row ELSE phases[x]
  BY DEF SetRow, TypeOK

LEMMA ApartWrite ==
  ASSUME TypeOK, NEW r \in Repos, NEW row, SetRow(r, row), Apart(phases[r], row), NEW x \in Repos
  PROVE  BlockStep(x)
  <1>1. phases[x] \in PhaseRow
    BY DEF TypeOK
  <1> QED BY <1>1, SetRowEffect, ApartOperators DEF BlockStep

LEMMA ToldWrite ==
  ASSUME TypeOK, NEW b \in Repos, NEW d \in Repos, d \in Descendants(b),
         SetRow(d, append_blocked_by(phases[d], b)), NEW x \in Repos
  PROVE  BlockStep(x)
  <1>1. phases[x] \in PhaseRow
    BY DEF TypeOK
  <1>2. phases'[x] = IF x = d THEN append_blocked_by(phases[d], b) ELSE phases[x]
    BY SetRowEffect
  <1> QED BY <1>1, <1>2, ApartOperators DEF BlockStep, Told

LEMMA SameRows ==
  ASSUME TypeOK, phases' = phases, NEW x \in Repos
  PROVE  BlockStep(x)
  <1>1. phases[x] \in PhaseRow
    BY DEF TypeOK
  <1> QED BY <1>1, ApartOperators DEF BlockStep

LEMMA TaskBlocks ==
  ASSUME TypeOK, Targeted, NEW p \in Procs, NEW r \in Repos, NEW x \in Repos,
         MemberStep(p, r)
  PROVE  BlockStep(x)
  <1>a. phases[r] \in PhaseRow /\ task[p, r] \in Task
    BY SetType
  <1>b. Requested(task[p, r].outcome) \in {SUCCEEDED, PENDING, RHI}
    BY DEF Requested
  <1>1. CASE phases' = phases
    BY <1>1, SameRows
  <1>2. ASSUME NEW row, SetRow(r, row), Apart(phases[r], row) PROVE BlockStep(x)
    BY <1>2, ApartWrite
  <1>3. CASE AbandonRepo(p, r)
    BY <1>2, <1>3, <1>a, ApartOperators DEF AbandonRepo
  <1>4. CASE Heartbeat(p, r)
    BY <1>2, <1>4, <1>a, ApartOperators DEF Heartbeat
  <1>5. CASE Acquire(p, r)
    BY <1>1, <1>2, <1>5, <1>a, ApartOperators DEF Acquire
  <1>6. CASE Diagnose(p, r)
    BY <1>1, <1>2, <1>6, <1>a, ApartOperators DEF Diagnose
  <1>7. CASE Renew(p, r) \/ OnBreach(p, r)
    BY <1>1, <1>2, <1>7, <1>a, ApartOperators DEF Renew, OnBreach
  <1>8. CASE Complete(p, r)
    BY <1>1, <1>2, <1>8, <1>a, <1>b, ApartOperators DEF Complete
  <1>9. CASE Terminate(p, r)
    BY <1>1, <1>2, <1>9, <1>a, ApartOperators DEF Terminate
  <1>10. CASE Contain(p, r)
    <2>1. ASSUME NEW d \in task[p, r].todo, SetRow(d, append_blocked_by(phases[d], r))
          PROVE  BlockStep(x)
      <3>1. d \in Repos /\ d \in Descendants(r)
        BY <1>a, <2>1 DEF Targeted, Task
      <3> QED BY <2>1, <3>1, ToldWrite
    <2> QED BY <1>1, <1>10, <2>1 DEF Contain
  <1>11. CASE Admit(p, r) \/ Drive(p, r) \/ Reserve(p, r) \/ Execute(p, r) \/ RunReturns(p, r)
              \/ Settle(p, r) \/ SaveCheckpoint(p, r)
    BY <1>1, <1>11 DEF Admit, Drive, Reserve, Execute, RunReturns, Settle, SaveCheckpoint
  <1>12. CASE StubDegrade(p, r)
    BY <1>1, <1>2, <1>12, <1>a, ApartOperators DEF StubDegrade
  <1> QED BY <1>3, <1>4, <1>5, <1>6, <1>7, <1>8, <1>9, <1>10, <1>11, <1>12
          DEF MemberStep, TaskStep

LEMMA NextBlocks ==
  ASSUME TypeOK, Targeted, [Next]_vars, NEW x \in Repos
  PROVE  BlockStep(x)
  <1>r. \A r \in Repos : phases[r] \in PhaseRow
    BY DEF TypeOK
  <1>1. CASE phases' = phases
    BY <1>1, SameRows
  <1>2. ASSUME NEW r \in Repos, NEW row, SetRow(r, row), Apart(phases[r], row) PROVE BlockStep(x)
    BY <1>2, ApartWrite
  <1>3. ASSUME NEW p \in Procs, CommandStep(p)
        PROVE  BlockStep(x)
    <2>1. CASE StartCommand(p)
      <3>1. phases'[x] = Reaped(phases[x], holds[x])
        BY <2>1 DEF StartCommand
      <3> QED BY <1>r, <3>1, ApartOperators DEF BlockStep
    <2>2. CASE SweepOne(p)
      <3>1. PICK e \in pairs[p] : SetRow(e[2], append_blocked_by(phases[e[2]], e[1]))
        BY <2>2 DEF SweepOne
      <3>2. e[1] \in Repos /\ e[2] \in Repos
        BY DEF TypeOK
      <3>3. e[2] \in Descendants(e[1])
        BY <2>2, Zenon DEF Targeted, SweepOne
      <3> QED BY <3>1, <3>2, <3>3, ToldWrite
    <2>3. StartCommand(p) \/ SweepOne(p) \/ phases' = phases
      BY <1>3 DEF CommandStep, SweepRead, FirstWave, OpenWave, WaveReturns, StubRecord, NextWave, Halt,
                  Crash
    <2> QED BY <1>1, <2>1, <2>2, <2>3
  <1>4. ASSUME NEW r \in Repos, OutsideStep(r)
        PROVE  BlockStep(x)
    <2>1. CASE ExpireLease(r)
      BY <1>2, <1>r, <2>1, ApartOperators DEF ExpireLease
    <2>2. CASE ExpireHold(r) \/ QuarantineRead(r)
      BY <1>1, <2>2 DEF ExpireHold, QuarantineRead
    <2>3. CASE ResetStaleRunning(r) \/ Retry(r) \/ Demote(r)
      BY <1>2, <1>r, <2>3, ApartOperators DEF ResetStaleRunning, Retry, Demote
    <2>7. CASE StubVerdict(r)
      BY <1>2, <1>r, <2>7, ApartOperators DEF StubVerdict
    <2>4. CASE Unblock(r)
      <3>1. PICK removed :
              /\ SetRow(r, clear_blocked_by(phases[r], removed))
              /\ ops' = ops + 1 \/ \A a \in removed : phases[a].status \in LANDED_STATUSES
        BY <2>4 DEF Unblock, Operate
      <3>2. CASE x = r
        <4>1. ops + 1 # ops
          BY DEF TypeOK
        <4> QED BY <3>1, <3>2, <4>1, SetRowEffect DEF BlockStep, Untold
      <3>3. CASE x # r
        <4>1. phases'[x] = phases[x]
          BY <3>1, <3>3, SetRowEffect
        <4> QED BY <1>r, <4>1, ApartOperators DEF BlockStep
      <3> QED BY <3>2, <3>3
    <2>5. CASE QuarantineWrite(r)
      <3> DEFINE row == IF op.movable THEN quarantine_movable(phases[r]) ELSE phases[r]
      <3>1. SetRow(r, row)
        BY <2>5 DEF QuarantineWrite
      <3>2. Apart(phases[r], row)
        BY <1>r, ApartOperators
      <3> HIDE DEF row
      <3> QED BY <1>2, <3>1, <3>2
    <2>6. CASE QuarantineBlock(r)
      <3>1. ASSUME NEW d \in op.todo, SetRow(d, append_blocked_by(phases[d], r))
            PROVE  BlockStep(x)
        <4>1. d \in Repos /\ d \in Descendants(r)
          BY <2>6, <3>1, DescendantsType DEF Targeted, QuarantineBlock
        <4> QED BY <3>1, <4>1, ToldWrite
      <3> QED BY <1>1, <2>6, <3>1 DEF QuarantineBlock
    <2> QED BY <1>4, <2>1, <2>2, <2>3, <2>4, <2>5, <2>6, <2>7 DEF OutsideStep
  <1>6. CASE AbortReset
    <2>1. phases'[x] = abort_reset(phases[x])
      BY <1>6 DEF AbortReset
    <2> QED BY <1>r, <2>1, ApartOperators DEF BlockStep
  <1>5. ASSUME NEW e \in Repos \X Repos, ContainedElsewhere(e) PROVE BlockStep(x)
    <2>1. /\ e[1] \in Repos /\ e[2] \in Repos /\ e[2] \in Descendants(e[1])
          /\ SetRow(e[2], append_blocked_by(phases[e[2]], e[1]))
      BY <1>5 DEF ContainedElsewhere
    <2> QED BY <2>1, ToldWrite
  <1>8. CASE FleetStep
    <2>1. (\E e \in Repos \X Repos : ContainedElsewhere(e)) \/ AbortReset \/ phases' = phases
      BY <1>8 DEF FleetStep, StubRecorded, StubMoves, AppendWave, AbortRecord
    <2> QED BY <1>1, <1>5, <1>6, <2>1
  <1>7. CASE UNCHANGED vars
    BY <1>1, <1>7 DEF vars
  <1> QED BY <1>3, <1>4, <1>7, <1>8, TaskBlocks, NextCases


\* What the task operators leave in the list of dependents to tell.
LEMMA TodoOperators ==
  ASSUME NEW t \in Task, NEW r \in Repos, t.todo \subseteq Descendants(r)
  PROVE  /\ Idle.todo \subseteq Descendants(r) /\ Done.todo \subseteq Descendants(r)
         /\ Containing(r).todo \subseteq Descendants(r)
         /\ decide(t).todo \subseteq Descendants(r)
         /\ \A written : AfterComplete(t, r, written).todo \subseteq Descendants(r)
         /\ \A pc : [t EXCEPT !.pc = pc].todo \subseteq Descendants(r)
         /\ \A pc, o : [t EXCEPT !.pc = pc, !.outcome = o].todo \subseteq Descendants(r)
         /\ \A pc, n : [t EXCEPT !.pc = pc, !.fence = n].todo \subseteq Descendants(r)
         /\ \A pc, n, m :
              [t EXCEPT !.pc = pc, !.attempts = n, !.transient = m].todo \subseteq Descendants(r)
         /\ \A d : [t EXCEPT !.todo = @ \ {d}].todo \subseteq Descendants(r)
  <1>1. Idle.todo = {} /\ Done.todo = {} /\ Containing(r).todo = Descendants(r)
    BY DEF Idle, Done, Containing
  <1>2. decide(t).todo = t.todo
    BY DEF decide, Task
  <1>3. ASSUME NEW written PROVE AfterComplete(t, r, written).todo \in {t.todo, {}, Descendants(r)}
    BY <1>1 DEF AfterComplete, Task
  <1>4. /\ \A pc : [t EXCEPT !.pc = pc].todo = t.todo
        /\ \A pc, o : [t EXCEPT !.pc = pc, !.outcome = o].todo = t.todo
        /\ \A pc, n : [t EXCEPT !.pc = pc, !.fence = n].todo = t.todo
        /\ \A pc, n, m : [t EXCEPT !.pc = pc, !.attempts = n, !.transient = m].todo = t.todo
        /\ \A d : [t EXCEPT !.todo = @ \ {d}].todo = t.todo \ {d}
    BY DEF Task
  <1> QED BY <1>1, <1>2, <1>3, <1>4

LEMMA TodoStep ==
  ASSUME TypeOK, Targeted, NEW p \in Procs, NEW r \in Repos,
         MemberStep(p, r), NEW q \in Procs, NEW x \in Repos
  PROVE  task'[q, x].todo \subseteq Descendants(x)
  <1>a. task[p, r] \in Task /\ task[p, r].todo \subseteq Descendants(r)
    BY SetType DEF Targeted
  <1>1. ASSUME NEW new, SetTask(p, r, new), new.todo \subseteq Descendants(r)
        PROVE  task'[q, x].todo \subseteq Descendants(x)
    <2>1. task'[q, x] = IF q = p /\ x = r THEN new ELSE task[q, x]
      BY <1>1 DEF SetTask, TypeOK
    <2> QED BY <1>1, <2>1 DEF Targeted
  <1>2. ASSUME \/ Return(p, r) \/ (\E pc : Goto(p, r, pc)) \/ (\E pc, o : GotoWith(p, r, pc, o))
        PROVE  task'[q, x].todo \subseteq Descendants(x)
    BY <1>a, <1>1, <1>2, TodoOperators DEF Return, Goto, GotoWith
  <1>3. CASE Admit(p, r) \/ Reserve(p, r) \/ Execute(p, r) \/ RunReturns(p, r) \/ Settle(p, r)
             \/ SaveCheckpoint(p, r) \/ Renew(p, r) \/ OnBreach(p, r)
    BY <1>2, <1>3
    DEF Admit, Reserve, Execute, RunReturns, Settle, SaveCheckpoint, Renew, OnBreach
  <1>4. CASE Drive(p, r)
    BY <1>a, <1>1, <1>4, TodoOperators DEF Drive
  <1>5. CASE Acquire(p, r)
    BY <1>a, <1>1, <1>2, <1>5, TodoOperators DEF Acquire
  <1>6. CASE Diagnose(p, r)
    BY <1>a, <1>1, <1>2, <1>6, TodoOperators DEF Diagnose
  <1>7. CASE Complete(p, r)
    BY <1>a, <1>1, <1>2, <1>7, TodoOperators DEF Complete
  <1>8. CASE Terminate(p, r)
    BY <1>a, <1>1, <1>2, <1>8, TodoOperators DEF Terminate
  <1>9. CASE Contain(p, r)
    BY <1>a, <1>1, <1>2, <1>9, TodoOperators DEF Contain
  <1>10. CASE AbandonRepo(p, r) \/ Heartbeat(p, r)
    BY <1>10 DEF AbandonRepo, Heartbeat, Targeted
  <1>11. CASE StubDegrade(p, r)
    <2>1. [Idle EXCEPT !.pc = "closed"].todo = {}
      BY DEF Idle
    <2> QED BY <1>1, <1>11, <2>1 DEF StubDegrade
  <1> QED BY <1>3, <1>4, <1>5, <1>6, <1>7, <1>8, <1>9, <1>10, <1>11 DEF MemberStep, TaskStep

LEMMA NextTargeted == TypeOK /\ Targeted /\ [Next]_vars => Targeted'
  <1> SUFFICES ASSUME TypeOK, Targeted, [Next]_vars PROVE Targeted'
    OBVIOUS
  <1> DEFINE Sweeps == \A p \in Procs : cmd[p] = "sweep" =>
                         \A e \in pairs[p] : e[2] \in Descendants(e[1])
             Tasks  == \A p \in Procs, r \in Repos : task[p, r].todo \subseteq Descendants(r)
             Ops    == \A a, b \in op.repo : a = b /\ op.todo \subseteq Descendants(a)
  <1>a. Targeted => Sweeps /\ Tasks /\ Ops
    BY DEF Targeted
  <1>b. Sweeps' /\ Tasks' /\ Ops' => Targeted'
    BY DEF Targeted
  <1>c. /\ cmd' = cmd /\ pairs' = pairs => Sweeps'
        /\ task' = task => Tasks'
        /\ op' = op => Ops'
    BY <1>a
  <1>1. ASSUME NEW p \in Procs, CommandStep(p) PROVE Targeted'
    <2>1. Sweeps'
      <3> SUFFICES ASSUME NEW q \in Procs, cmd'[q] = "sweep", NEW e \in pairs'[q]
                   PROVE  e[2] \in Descendants(e[1])
        OBVIOUS
      <3>1. CASE q # p
        <4>1. cmd[q] = "sweep" /\ e \in pairs[q]
          BY <1>1, <3>1, CommandFrame
        <4> QED BY <1>a, <4>1, Zenon
      <3>2. CASE q = p /\ SweepRead(p)
        <4>1. pairs'[p] = {} \/ pairs'[p] = Owed(phases, stub)
          BY <3>2 DEF SweepRead, TypeOK
        <4>2. e \in Owed(phases, stub)
          BY <3>2, <4>1
        <4> QED BY <4>2 DEF Owed
      <3>3. CASE q = p /\ SweepOne(p)
        <4>1. cmd[p] = "sweep" /\ pairs'[p] \subseteq pairs[p]
          BY <3>3 DEF SweepOne, TypeOK
        <4>2. e \in pairs[p]
          BY <3>3, <4>1
        <4> QED BY <1>a, <4>1, <4>2, Zenon
      <3> QED BY <1>1, <3>1, <3>2, <3>3, CommandFrame
    <2>2. Tasks'
      <3> SUFFICES ASSUME NEW q \in Procs, NEW r \in Repos PROVE task'[q, r].todo \subseteq Descendants(r)
        OBVIOUS
      <3>1. task'[q, r] \in {Idle, Done, task[q, r]}
        BY <1>1, CommandTasks DEF ClearTasks
      <3>2. Idle.todo = {} /\ Done.todo = {}
        BY DEF Idle, Done
      <3> QED BY <1>a, <3>1, <3>2
    <2>3. Ops'
      BY <1>1, <1>c, CommandFrame
    <2> HIDE DEF Sweeps, Tasks, Ops
    <2> QED BY <1>b, <2>1, <2>2, <2>3
  <1>3. ASSUME NEW p \in Procs, NEW r \in Repos, MemberStep(p, r) PROVE Targeted'
    <2>1. cmd' = cmd /\ pairs' = pairs /\ op' = op
      BY <1>3, MemberFrame DEF cmdVars, opVars
    <2>2. Tasks'
      BY <1>3, TodoStep
    <2> HIDE DEF Sweeps, Tasks, Ops
    <2> QED BY <1>b, <1>c, <2>1, <2>2
  <1>4. ASSUME NEW r \in Repos, OutsideStep(r) PROVE Targeted'
    <2>1. cmd' = cmd /\ pairs' = pairs /\ task' = task
      BY <1>4, OutsideFrame DEF cmdVars
    <2>2. Ops'
      <3>1. CASE QuarantineRead(r)
        <4>1. op'.repo = {r} /\ op'.todo = {}
          BY <3>1 DEF QuarantineRead
        <4> QED BY <4>1
      <3>2. CASE QuarantineWrite(r)
        <4>1. op'.repo = op.repo /\ op'.todo = Descendants(r) /\ r \in op.repo
          BY <3>2 DEF QuarantineWrite, TypeOK, Op
        <4> QED BY <1>a, <4>1
      <3>3. CASE QuarantineBlock(r)
        <4>1. op' = NoOp \/ \E d : op' = [op EXCEPT !.todo = @ \ {d}]
          BY <3>3 DEF QuarantineBlock
        <4>2. CASE op' = NoOp
          BY <4>2 DEF NoOp
        <4>3. ASSUME NEW d, op' = [op EXCEPT !.todo = @ \ {d}] PROVE Ops'
          <5>1. op'.repo = op.repo /\ op'.todo = op.todo \ {d}
            BY <4>3 DEF TypeOK, Op
          <5> QED BY <1>a, <5>1
        <4> QED BY <4>1, <4>2, <4>3
      <3>4. CASE op' = op
        BY <1>c, <3>4
      <3>5. QuarantineRead(r) \/ QuarantineWrite(r) \/ QuarantineBlock(r) \/ op' = op
        BY <1>4 DEF OutsideStep, ExpireLease, ExpireHold, ResetStaleRunning, Unblock, Retry, Demote,
                    StubVerdict, opVars
      <3> QED BY <3>1, <3>2, <3>3, <3>4, <3>5
    <2> HIDE DEF Sweeps, Tasks, Ops
    <2> QED BY <1>b, <1>c, <2>1, <2>2
  <1>5. CASE FleetStep
    <2>1. cmd' = cmd /\ pairs' = pairs /\ task' = task
      BY <1>5, FleetFrame DEF cmdVars
    <2>2. op' = op \/ op'.repo = {}
      BY <1>5 DEF FleetStep, ContainedElsewhere, StubRecorded, StubMoves, AppendWave, AbortRecord,
                  AbortReset, NoOp
    <2>3. Ops'
      BY <1>c, <2>2
    <2> HIDE DEF Sweeps, Tasks, Ops
    <2> QED BY <1>b, <1>c, <2>1, <2>3
  <1>6. CASE UNCHANGED vars
    <2>1. cmd' = cmd /\ pairs' = pairs /\ task' = task /\ op' = op
      BY <1>6 DEF vars, cmdVars, opVars
    <2> HIDE DEF Sweeps, Tasks, Ops
    <2> QED BY <1>b, <1>c, <2>1
  <1> QED BY <1>1, <1>3, <1>4, <1>5, <1>6, NextCases


\* The two transactions of containment, on the columns it reads.
LEMMA BlockOperators ==
  ASSUME NEW row \in PhaseRow
  PROVE  /\ \A b : LET new == append_blocked_by(row, b)
                   IN  \/ new = row /\ row.status \in TERMINAL_STATUSES \cup {DEGRADED}
                       \/ /\ new.status = BLOCKED /\ new.blocked_by = row.blocked_by \cup {b}
                          /\ row.status \notin TERMINAL_STATUSES \cup {DEGRADED}
         /\ \A x : LET new == clear_blocked_by(row, x)
                   IN  /\ new.blocked_by = row.blocked_by \ x
                       /\ \/ new.status = row.status /\ (row.blocked_by # {} => new.blocked_by # {})
                          \/ new.status = row.status /\ row.status # BLOCKED
                          \/ row.status = BLOCKED /\ new.status = PENDING /\ new.blocked_by = {}
  <1> USE DEF PENDING, RUNNING, SUCCEEDED, BLOCKED, DEGRADED, RHI, SKIPPED
  <1>1. Blockable(row) <=> row.status \notin TERMINAL_STATUSES \cup {DEGRADED}
    BY DEF Blockable, transition, ALLOWED_TRANSITIONS, TERMINAL_STATUSES, RepoStatus, PhaseRow
  <1>2. ASSUME NEW b
        PROVE  LET new == append_blocked_by(row, b)
               IN  \/ new = row /\ row.status \in TERMINAL_STATUSES \cup {DEGRADED}
                   \/ /\ new.status = BLOCKED /\ new.blocked_by = row.blocked_by \cup {b}
                      /\ row.status \notin TERMINAL_STATUSES \cup {DEGRADED}
    BY <1>1 DEF append_blocked_by, PhaseRow
  <1>3. ASSUME NEW x
        PROVE  LET new == clear_blocked_by(row, x)
               IN  /\ new.blocked_by = row.blocked_by \ x
                   /\ \/ new.status = row.status /\ (row.blocked_by # {} => new.blocked_by # {})
                      \/ new.status = row.status /\ row.status # BLOCKED
                      \/ row.status = BLOCKED /\ new.status = PENDING /\ new.blocked_by = {}
    BY DEF clear_blocked_by, PhaseRow
  <1> QED BY <1>2, <1>3

LEMMA NextBlockedBy == TypeOK /\ Targeted /\ BlockedByDependencies /\ [Next]_vars => BlockedByDependencies'
  <1> SUFFICES ASSUME TypeOK, Targeted, BlockedByDependencies, [Next]_vars, NEW r \in Repos
               PROVE  /\ \A b \in phases'[r].blocked_by : r \in Descendants(b)
                      /\ phases'[r].status = BLOCKED => phases'[r].blocked_by # {}
    BY DEF BlockedByDependencies
  <1>0. phases[r] \in PhaseRow
    BY DEF TypeOK
  <1>1. /\ \A b \in phases[r].blocked_by : r \in Descendants(b)
        /\ phases[r].status = BLOCKED => phases[r].blocked_by # {}
    BY DEF BlockedByDependencies
  <1>2. CASE Apart(phases[r], phases'[r])
    BY <1>1, <1>2 DEF Apart
  <1>3. CASE Told(r)
    <2>1. PICK b \in Repos : r \in Descendants(b) /\ phases'[r] = append_blocked_by(phases[r], b)
      BY <1>3 DEF Told
    <2> QED BY <1>0, <1>1, <2>1, BlockOperators
  <1>4. CASE Untold(r)
    <2>1. PICK x : phases'[r] = clear_blocked_by(phases[r], x)
      BY <1>4 DEF Untold
    <2>2. /\ phases'[r].blocked_by = phases[r].blocked_by \ x
          /\ \/ /\ phases'[r].status = phases[r].status
                /\ phases[r].blocked_by # {} => phases'[r].blocked_by # {}
             \/ phases'[r].status = phases[r].status /\ phases[r].status # BLOCKED
             \/ phases'[r].status = PENDING
      BY <1>0, <2>1, BlockOperators
    <2> QED BY <1>1, <2>2 DEF PENDING, BLOCKED
  <1> QED BY <1>2, <1>3, <1>4, NextBlocks DEF BlockStep

\* Containment reaches the dependents of an abandoned or quarantined repo and nobody else,
\* and a BLOCKED row always names what blocks it, whatever broadcasts, sweeps, quarantines
\* and un-blockings interleave (append_blocked_by, clear_blocked_by).
THEOREM ContainmentIsAimed == Spec => []BlockedByDependencies
  <1>1. Init => Targeted /\ BlockedByDependencies
    <2> SUFFICES ASSUME Init PROVE Targeted /\ BlockedByDependencies
      OBVIOUS
    <2>1. /\ \A p \in Procs : pairs[p] = {}
          /\ \A p \in Procs, r \in Repos : task[p, r].todo = {}
          /\ op.repo = {}
          /\ \A r \in Repos : phases[r].blocked_by = {} /\ phases[r].status = PENDING
      BY DEF Init, Idle, NoOp, FreshRow
    <2> QED BY <2>1 DEF Targeted, BlockedByDependencies, PENDING, BLOCKED
  <1> QED BY <1>1, NextTargeted, NextBlockedBy, TypeInvariant, PTL DEF Spec

-----------------------------------------------------------------------------
(* The sweep *)

\* Before its waves a command has no tasks.
Unstarted == \A p \in Procs, r \in Repos : cmd[p] \in Early => task[p, r] = Idle

\* Without an operator nothing of one is under way, and no stub has been settled.
NoOperator == ops = 0 => op = NoOp /\ \A e \in Repos \X Repos : stub[e] # "closed"

\* d stays out of every wave while b is abandoned: only a verdict of an operator moves it.
Sheltered(b, d) ==
  \/ phases[d].status \in TERMINAL_STATUSES \cup {DEGRADED}
  \/ phases[d].status = BLOCKED /\ b \in phases[d].blocked_by

\* d is the sweep's business: it depends on an abandoned b and does not stand on b's stub.
Exposed(b, d) == d \in Descendants(b) /\ phases[b].status = RHI /\ stub[<<b, d>>] # "ACTIVE"

\* In the middle of its sweep a lone command has sheltered every dependent it no longer owes.
Shelters ==
  \A p \in Procs, b, d \in Repos :
    Procs = {p} /\ ops = 0 /\ cmd[p] = "sweep" /\ ~stub_blocked[p] /\ Exposed(b, d)
      => <<b, d>> \in pairs[p] \/ Sheltered(b, d)

\* Who moves: a member's step is of a command in its wave.
LEMMA StepsOfStarted ==
  ASSUME TypeOK, Unstarted, NEW p \in Procs, NEW r \in Repos, MemberStep(p, r)
  PROVE  /\ cmd[p] \notin Early /\ UNCHANGED <<cmdVars, opVars>>
         /\ \A q \in Procs, x \in Repos : q # p => task'[q, x] = task[q, x]
  <1>1. cmd[p] \notin Early
    <2>1. CASE AbandonRepo(p, r) \/ Admit(p, r) \/ Heartbeat(p, r) \/ StubDegrade(p, r)
      BY <2>1 DEF AbandonRepo, Admit, Heartbeat, Heartbeating, StubDegrade, Early
    <2>2. CASE Drive(p, r) \/ TaskStep(p, r)
      <3>1. task[p, r].pc # "idle"
        BY <2>2 DEF Drive, TaskStep, Acquire, Reserve, Execute, RunReturns, Settle, SaveCheckpoint,
                    Diagnose, Renew, OnBreach, Complete, Terminate, Contain
      <3>2. Idle.pc = "idle"
        BY DEF Idle
      <3> QED BY <3>1, <3>2 DEF Unstarted
    <2> QED BY <2>1, <2>2 DEF MemberStep
  <1>3. task' = task \/ \E new : SetTask(p, r, new)
    BY DEF MemberStep, AbandonRepo, Admit, Drive, TaskStep, Heartbeat, StubDegrade, Acquire, Reserve,
           Execute, RunReturns, Settle, SaveCheckpoint, Diagnose, Renew, OnBreach, Complete, Terminate,
           Contain, Return, Goto, GotoWith
  <1>4. \A q \in Procs, x \in Repos : q # p => task'[q, x] = task[q, x]
    <2>1. CASE task' = task
      BY <2>1
    <2>2. ASSUME NEW new, SetTask(p, r, new)
          PROVE  \A q \in Procs, x \in Repos : q # p => task'[q, x] = task[q, x]
      <3>1. \A q \in Procs, x \in Repos : q # p \/ x # r => task'[q, x] = task[q, x]
        BY <2>2, SetEffect, Zenon
      <3> QED BY <3>1
    <2> QED BY <1>3, <2>1, <2>2
  <1> QED BY <1>1, <1>4, MemberFrame

LEMMA NextUnstarted == TypeOK /\ Unstarted /\ [Next]_vars => Unstarted'
  <1> SUFFICES ASSUME TypeOK, Unstarted, [Next]_vars, NEW q \in Procs, NEW x \in Repos,
                      cmd'[q] \in Early
               PROVE  task'[q, x] = Idle
    BY DEF Unstarted
  <1>1. ASSUME NEW p \in Procs, CommandStep(p) PROVE task'[q, x] = Idle
    <2>1. CASE task' = task /\ (cmd'[p] \in Early => cmd[p] \in Early)
      <3>1. cmd[q] \in Early
        BY <1>1, <2>1, CommandFrame
      <3> QED BY <2>1, <3>1 DEF Unstarted
    <2>2. CASE ClearTasks(p)
      <3>1. task'[q, x] = IF q = p THEN Idle ELSE task[q, x]
        BY <2>2 DEF ClearTasks
      <3>2. q # p => cmd[q] \in Early
        BY <1>1, CommandFrame
      <3> QED BY <3>1, <3>2 DEF Unstarted
    <2>3. CASE /\ cmd'[p] \notin Early
               /\ \A q_1 \in Procs, x_1 \in Repos : q_1 # p => task'[q_1, x_1] = task[q_1, x_1]
      <3>1. q # p /\ cmd[q] \in Early
        BY <1>1, <2>3, CommandFrame
      <3> QED BY <2>3, <3>1 DEF Unstarted
    <2> QED BY <1>1, <2>1, <2>2, <2>3, CommandFrame
  <1>2. ASSUME NEW p \in Procs, NEW r \in Repos, MemberStep(p, r) PROVE task'[q, x] = Idle
    <2>1. cmd[p] \notin Early /\ cmd' = cmd /\ (q # p => task'[q, x] = task[q, x])
      BY <1>2, StepsOfStarted DEF cmdVars
    <2> QED BY <2>1 DEF Unstarted
  <1>3. CASE UNCHANGED <<cmd, task>>
    BY <1>3 DEF Unstarted
  <1>4. (\E r \in Repos : OutsideStep(r)) \/ FleetStep \/ UNCHANGED vars => UNCHANGED <<cmd, task>>
    BY OutsideFrame, FleetFrame DEF vars, cmdVars
  <1> QED BY <1>1, <1>2, <1>3, <1>4, NextCases

\* The operator's counter only grows, and without it nobody but a command touches the stubs.
LEMMA OperatorStep ==
  ASSUME TypeOK, [Next]_vars
  PROVE  \/ /\ UNCHANGED <<op, ops>>
            /\ stub' = stub \/ \E p \in Procs : StubRecord(p)
         \/ ops' = ops + 1
         \/ ops' = ops /\ op.step # "none" /\ stub' = stub
  <1>1. ASSUME NEW p \in Procs, CommandStep(p)
        PROVE  UNCHANGED <<op, ops>> /\ (stub' = stub \/ StubRecord(p))
    BY <1>1, CommandFrame
  <1>2. ASSUME NEW p \in Procs, NEW r \in Repos, MemberStep(p, r)
        PROVE  UNCHANGED <<op, ops, stub>>
    BY <1>2, MemberFrame DEF opVars, fleetVars
  <1>3. CASE UNCHANGED vars
    BY <1>3 DEF vars, opVars, fleetVars
  <1> QED BY <1>1, <1>2, <1>3, OutsideFrame, FleetFrame, NextCases

LEMMA NextNoOperator == TypeOK /\ NoOperator /\ [Next]_vars => NoOperator'
  <1> SUFFICES ASSUME TypeOK, NoOperator, [Next]_vars, ops' = 0
               PROVE  op' = NoOp /\ \A e \in Repos \X Repos : stub'[e] # "closed"
    BY DEF NoOperator
  <1>1. ops \in Nat /\ NoOp.step = "none"
    BY DEF TypeOK, NoOp
  <1>2. ops = 0
    BY <1>1, OperatorStep
  <1>3. op = NoOp /\ \A e \in Repos \X Repos : stub[e] # "closed"
    BY <1>2 DEF NoOperator
  <1>4. UNCHANGED <<op, ops>> /\ (stub' = stub \/ \E p \in Procs : StubRecord(p))
    BY <1>1, <1>2, <1>3, OperatorStep
  <1>5. ASSUME NEW p \in Procs, StubRecord(p), NEW e \in Repos \X Repos PROVE stub'[e] # "closed"
    <2>1. PICK f : stub' = [stub EXCEPT ![f] = IF @ = "none" THEN "ACTIVE" ELSE @]
      BY <1>5 DEF StubRecord
    <2>2. stub \in [Repos \X Repos -> {"none", "ACTIVE", "closed"}]
      BY DEF TypeOK
    <2>3. stub'[e] \in {stub[e], "ACTIVE"}
      BY <2>1, <2>2
    <2> QED BY <1>3, <2>3
  <1> QED BY <1>3, <1>4, <1>5

\* What happens to a row and to the stubs while a lone command sweeps: the row is told,
\* un-blocked by what landed, or moved by the lease clock.
LEMMA SweepRowStep ==
  ASSUME TypeOK, Targeted, Unstarted, NoOperator, [Next]_vars, NEW p \in Procs, Procs = {p},
         ops' = 0, cmd'[p] = "sweep", cmd[p] = "sweep", NEW x \in Repos
  PROVE  /\ ops = 0 /\ UNCHANGED <<stub, stub_blocked>>
         /\ \/ phases'[x] = phases[x]
            \/ /\ phases'[x].blocked_by = phases[x].blocked_by
               /\ phases[x].status = RUNNING /\ phases'[x].status \in {RUNNING, PENDING}
            \/ \E e \in pairs[p] : e[2] = x /\ phases'[x] = append_blocked_by(phases[x], e[1])
            \/ Untold(x)
         /\ \/ pairs' = pairs
            \/ \E e \in pairs[p] : /\ pairs'[p] = pairs[p] \ {e}
                                   /\ phases'[e[2]] = append_blocked_by(phases[e[2]], e[1])
  <1>r. \A r \in Repos : phases[r] \in PhaseRow
    BY DEF TypeOK
  <1>0. /\ ops \in Nat /\ ops = 0 /\ op.step = "none"
        /\ \A e \in Repos \X Repos : stub[e] # "closed"
    <2>1. ops \in Nat /\ NoOp.step = "none"
      BY DEF TypeOK, NoOp
    <2>2. ops = 0
      BY <2>1, OperatorStep
    <2> QED BY <2>1, <2>2 DEF NoOperator
  <1>a. ~(ops' = ops + 1)
    BY <1>0
  <1>1. ASSUME NEW q \in Procs, CommandStep(q) PROVE SweepOne(p)
    <2>1. q = p /\ (SweepRead(p) \/ SweepOne(p))
      BY <1>1, CommandFrame
    <2> QED BY <2>1 DEF SweepRead
  <1>2. CASE SweepOne(p)
    <2>1. PICK e \in pairs[p] :
            /\ SetRow(e[2], append_blocked_by(phases[e[2]], e[1]))
            /\ pairs' = [pairs EXCEPT ![p] = @ \ {e}]
      BY <1>2 DEF SweepOne
    <2>2. e[2] \in Repos
      BY DEF TypeOK
    <2>3. pairs'[p] = pairs[p] \ {e}
      BY <2>1 DEF TypeOK
    <2>4. phases'[e[2]] = append_blocked_by(phases[e[2]], e[1])
      BY <2>1, <2>2, SetRowEffect
    <2>5. phases'[x] = phases[x] \/ (e[2] = x /\ phases'[x] = append_blocked_by(phases[x], e[1]))
      BY <2>1, <2>2, <2>4, SetRowEffect
    <2>6. UNCHANGED <<stub, stub_blocked>>
      BY <1>2 DEF SweepOne, opVars, fleetVars
    <2> QED BY <1>0, <2>3, <2>4, <2>5, <2>6
  <1>3. ASSUME NEW q \in Procs, NEW r \in Repos, MemberStep(q, r)
        PROVE  FALSE
    BY <1>3, StepsOfStarted DEF Early
  <1>4. ASSUME NEW r \in Repos,
               \/ Retry(r) \/ Demote(r) \/ StubVerdict(r)
               \/ QuarantineRead(r) \/ QuarantineWrite(r) \/ QuarantineBlock(r)
        PROVE  FALSE
    <2>1. \/ ops' = ops + 1 \/ op.step # "none"
          \/ \E b \in Repos : stub[<<b, r>>] = "closed"
      BY <1>4 DEF Retry, Demote, StubVerdict, QuarantineRead, QuarantineWrite, QuarantineBlock, Operate
    <2> QED BY <1>0, <1>a, <2>1
  <1>5. ASSUME NEW r \in Repos, ExpireLease(r) \/ ResetStaleRunning(r)
        PROVE  \/ phases'[x] = phases[x]
               \/ /\ phases'[x].blocked_by = phases[x].blocked_by
                  /\ phases[x].status = RUNNING /\ phases'[x].status \in {RUNNING, PENDING}
    <2>1. phases[r].status = RUNNING
      BY <1>5 DEF ExpireLease, ResetStaleRunning, LeaseReapable
    <2>2. PICK row : /\ SetRow(r, row)
                     /\ row = [phases[r] EXCEPT !.lease = "expired"] \/ row = abort_reset(phases[r])
      BY <1>5 DEF ExpireLease, ResetStaleRunning
    <2>3. row.blocked_by = phases[r].blocked_by
      BY <1>r, <2>2, ApartOperators, ZenonT(30) DEF Apart
    <2>4. row.status \in {RUNNING, PENDING}
      <3>1. CASE row = [phases[r] EXCEPT !.lease = "expired"]
        BY <1>r, <2>1, <3>1, RowOperatorsEffect
      <3>2. CASE row = abort_reset(phases[r])
        <4>1. phases[r] \in PhaseRow /\ row = ReclaimLease(phases[r])
          BY <1>r, <2>1, <3>2 DEF abort_reset
        <4> QED BY <4>1, RowOperatorsEffect
      <3> QED BY <2>2, <3>1, <3>2
    <2>5. phases'[x] = IF x = r THEN row ELSE phases[x]
      BY <2>2, SetRowEffect
    <2> QED BY <2>1, <2>3, <2>4, <2>5
  <1>7. ASSUME NEW r \in Repos, Unblock(r)
        PROVE  phases'[x] = phases[x] \/ Untold(x)
    <2>1. PICK removed :
            /\ SetRow(r, clear_blocked_by(phases[r], removed))
            /\ \A a \in removed : phases[a].status \in LANDED_STATUSES
      BY <1>7, <1>a DEF Unblock, Operate
    <2>2. CASE x = r
      BY <2>1, <2>2, SetRowEffect DEF Untold
    <2>3. CASE x # r
      BY <2>1, <2>3, SetRowEffect
    <2> QED BY <2>2, <2>3
  <1>8. ASSUME NEW r \in Repos, OutsideStep(r)
        PROVE  /\ UNCHANGED <<stub, stub_blocked, pairs>>
               /\ \/ phases'[x] = phases[x]
                  \/ /\ phases'[x].blocked_by = phases[x].blocked_by
                     /\ phases[x].status = RUNNING /\ phases'[x].status \in {RUNNING, PENDING}
                  \/ Untold(x)
    <2>1. UNCHANGED <<stub, stub_blocked, pairs>>
      BY <1>8, <1>0, <1>a, OutsideFrame DEF cmdVars
    <2>2. ExpireHold(r) => phases' = phases
      BY DEF ExpireHold
    <2> QED BY <1>8, <1>4, <1>5, <1>7, <2>1, <2>2 DEF OutsideStep
  <1>9. FleetStep => UNCHANGED <<phases, stub, stub_blocked, pairs>>
    BY <1>0, <1>a, FleetFrame DEF cmdVars
  <1>10. UNCHANGED vars => UNCHANGED <<phases, stub, stub_blocked, pairs>>
    BY DEF vars, cmdVars, opVars, fleetVars
  <1> QED BY <1>0, <1>1, <1>2, <1>3, <1>8, <1>9, <1>10, NextCases

\* Nobody but the command itself begins or ends its sweep.
LEMMA SweepMoves ==
  ASSUME TypeOK, Unstarted, [Next]_vars, NEW p \in Procs, Procs = {p},
         cmd'[p] # cmd[p], cmd[p] = "sweep" \/ cmd'[p] = "sweep"
  PROVE  CommandStep(p)
  <1>1. ASSUME NEW q \in Procs, NEW r \in Repos, MemberStep(q, r) PROVE cmd' = cmd
    BY <1>1, MemberFrame DEF cmdVars
  <1>2. (\E r \in Repos : OutsideStep(r)) \/ FleetStep \/ UNCHANGED vars => cmd' = cmd
    BY OutsideFrame, FleetFrame DEF vars, cmdVars
  <1> QED BY <1>1, <1>2, NextCases

LEMMA NextShelters ==
  TypeOK /\ Targeted /\ Unstarted /\ NoOperator /\ Shelters /\ [Next]_vars => Shelters'
  <1> SUFFICES ASSUME TypeOK, Targeted, Unstarted, NoOperator, Shelters, [Next]_vars,
                      NEW p \in Procs, NEW b \in Repos, NEW d \in Repos,
                      Procs = {p}, ops' = 0, cmd'[p] = "sweep", ~stub_blocked'[p],
                      Exposed(b, d)'
               PROVE  <<b, d>> \in pairs'[p] \/ Sheltered(b, d)'
    BY DEF Shelters
  <1>r. phases[b] \in PhaseRow /\ phases[d] \in PhaseRow
    BY DEF TypeOK
  <1>x. d \in Descendants(b) /\ phases'[b].status = RHI /\ stub'[<<b, d>>] # "ACTIVE"
    BY DEF Exposed, Descendants
  <1> USE DEF PENDING, RUNNING, SUCCEEDED, BLOCKED, DEGRADED, RHI, SKIPPED
  <1>1. CASE cmd[p] # "sweep"
    <2>1. SweepRead(p)
      <3>1. CommandStep(p)
        BY <1>1, SweepMoves
      <3>2. SweepRead(p) \/ SweepOne(p)
        BY <3>1, CommandFrame
      <3> QED BY <1>1, <3>2 DEF SweepOne
    <2>2. phases' = phases /\ stub' = stub /\ pairs'[p] = Owed(phases, stub)
      BY <2>1 DEF SweepRead, TypeOK, opVars, fleetVars
    <2>3. <<b, d>> \in Owed(phases, stub)
      BY <1>x, <2>2 DEF Owed
    <2> QED BY <2>2, <2>3
  <1>2. CASE cmd[p] = "sweep"
    <2>1. ASSUME NEW x \in Repos
          PROVE  /\ ops = 0 /\ UNCHANGED <<stub, stub_blocked>>
                 /\ \/ phases'[x] = phases[x]
                    \/ /\ phases'[x].blocked_by = phases[x].blocked_by
                       /\ phases[x].status = RUNNING /\ phases'[x].status \in {RUNNING, PENDING}
                    \/ \E a : phases'[x] = append_blocked_by(phases[x], a)
                    \/ Untold(x)
      BY <1>2, SweepRowStep
    <2>2. phases[b].status = RHI
      <3>1. CASE \E a : phases'[b] = append_blocked_by(phases[b], a)
        BY <1>r, <1>x, <3>1, BlockOperators
      <3>2. CASE Untold(b)
        BY <1>r, <1>x, <3>2, BlockOperators DEF Untold
      <3> QED BY <1>x, <2>1, <3>1, <3>2
    <2>3. <<b, d>> \in pairs[p] \/ Sheltered(b, d)
      BY <1>2, <1>x, <2>1, <2>2 DEF Shelters, Exposed
    <2>4. CASE Sheltered(b, d)
      <3>1. CASE phases'[d] = phases[d]
        BY <2>4, <3>1 DEF Sheltered
      <3>2. CASE phases[d].status = RUNNING
        BY <2>4, <3>2 DEF Sheltered, TERMINAL_STATUSES
      <3>3. ASSUME NEW a, phases'[d] = append_blocked_by(phases[d], a) PROVE Sheltered(b, d)'
        BY <1>r, <2>4, <3>3, BlockOperators DEF Sheltered
      <3>4. CASE Untold(d)
        <4>1. PICK gone : /\ phases'[d] = clear_blocked_by(phases[d], gone)
                          /\ ops' = ops => \A a \in gone : phases[a].status \in LANDED_STATUSES
          BY <3>4 DEF Untold
        <4>2. b \notin gone
          BY <2>1, <2>2, <4>1 DEF LANDED_STATUSES
        <4>3. /\ phases'[d].blocked_by = phases[d].blocked_by \ gone
              /\ \/ phases'[d].status = phases[d].status
                 \/ phases[d].status = BLOCKED /\ phases'[d].blocked_by = {}
          BY <1>r, <4>1, BlockOperators
        <4> QED BY <2>4, <4>2, <4>3 DEF Sheltered, TERMINAL_STATUSES
      <3> QED BY <2>1, <3>1, <3>2, <3>3, <3>4
    <2>5. CASE <<b, d>> \in pairs[p]
      <3>1. \/ pairs' = pairs
            \/ \E e \in pairs[p] : /\ pairs'[p] = pairs[p] \ {e}
                                   /\ phases'[e[2]] = append_blocked_by(phases[e[2]], e[1])
        BY <1>2, SweepRowStep
      <3>2. CASE pairs' = pairs
        BY <2>5, <3>2
      <3>3. ASSUME NEW e \in pairs[p], pairs'[p] = pairs[p] \ {e},
                   phases'[e[2]] = append_blocked_by(phases[e[2]], e[1])
            PROVE  <<b, d>> \in pairs'[p] \/ Sheltered(b, d)'
        <4>1. CASE e = <<b, d>>
          <5>1. phases'[d] = append_blocked_by(phases[d], b)
            BY <3>3, <4>1
          <5> QED BY <1>r, <5>1, BlockOperators DEF Sheltered
        <4>2. CASE e # <<b, d>>
          BY <2>5, <3>3, <4>2
        <4> QED BY <4>1, <4>2
      <3> QED BY <3>1, <3>2, <3>3
    <2> QED BY <2>3, <2>4, <2>5
  <1> QED BY <1>1, <1>2

\* The sweep makes good what preparation failures, partial results and cut-off broadcasts
\* left undone: a lone command without --stub-blocked, with no operator about, enters its
\* waves with the dependents of every abandoned repo out of their reach, all but those on an
\* active stub of that very repo (_repropagate_terminal_providers).
THEOREM SweepSheltersAlways == Spec => SweepShelters
  <1> DEFINE Inv == Targeted /\ Unstarted /\ NoOperator /\ Shelters
  <1>1. Init => Inv
    <2> SUFFICES ASSUME Init PROVE Inv
      OBVIOUS
    <2>1. /\ \A p \in Procs : pairs[p] = {} /\ cmd[p] = "down"
          /\ \A p \in Procs, r \in Repos : task[p, r] = Idle
          /\ op = NoOp
      BY DEF Init
    <2>2. Idle.todo = {} /\ NoOp.repo = {}
      BY DEF Idle, NoOp
    <2>3. \A e \in Repos \X Repos : stub[e] # "closed"
      BY DEF Init
    <2> QED BY <2>1, <2>2, <2>3 DEF Targeted, Unstarted, NoOperator, Shelters
  <1>2. TypeOK /\ Inv /\ [Next]_vars => Inv'
    BY NextTargeted, NextUnstarted, NextNoOperator, NextShelters
  <1>3. ASSUME TypeOK, Inv, [Next]_vars, NEW p \in Procs, NEW b \in Repos, NEW d \in Repos,
               cmd[p] = "sweep", cmd'[p] = "prepare", ~stub_blocked[p], Procs = {p}, ops = 0,
               d \in Descendants(b), phases[b].status = RHI, stub[<<b, d>>] # "ACTIVE"
        PROVE  phases[d].status \in SETTLED_STATUSES
    <2>1. pairs[p] = {}
      BY <1>3, SweepMoves, CommandFrame
    <2>2. Sheltered(b, d)
      BY <1>3, <2>1 DEF Shelters, Exposed
    <2> QED BY <2>2 DEF Sheltered, SETTLED_STATUSES
  <1>4. TypeOK /\ Inv /\ [Next]_vars
          => [\A p \in Procs, b, d \in Repos :
                /\ cmd[p] = "sweep" /\ cmd'[p] = "prepare" /\ ~stub_blocked[p]
                /\ Procs = {p} /\ ops = 0
                /\ d \in Descendants(b) /\ phases[b].status = RHI /\ stub[<<b, d>>] # "ACTIVE"
                => phases[d].status \in SETTLED_STATUSES]_vars
    BY <1>3
  <1> QED BY <1>1, <1>2, <1>4, TypeInvariant, PTL DEF Spec, SweepShelters

=============================================================================
