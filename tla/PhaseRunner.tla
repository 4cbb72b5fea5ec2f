---------------------------- MODULE PhaseRunner ----------------------------
(***************************************************************************)
(* The phase runner of Fleet Engine: the per-repo tasks that lease a phase *)
(* row, run a worker under a fence and write the result back, in several   *)
(* processes at once, together with everything else that writes the same   *)
(* rows: the reaper and the blocked_by sweep at the start of a command,    *)
(* containment, the stub corrections after a wave, `fleet retry`,          *)
(* `fleet quarantine`, `fleet abort`, and demotion, un-blocking and stub   *)
(* verdicts of `fleet resume`.                                             *)
(*                                                                         *)
(* One behaviour is one run and one of its phases 2 to 4: `phases[r]` is   *)
(* the row of repo r in that phase.  SCAN drives its rows by a loop of its *)
(* own (module Scan).  What the other phases do to these rows and to the   *)
(* `stubs` table is a free choice where the code does not decide it here.  *)
(* Process p drives repo r in `task[p, r]`; the                            *)
(* pc values name the await between two transactions of                    *)
(* PhaseRunner._drive / _dispatch:                                         *)
(*                                                                         *)
(*   idle       the wave's admission has not read this member yet          *)
(*   admitted   admission found it neither settled nor BLOCKED             *)
(*   acquire    row read, ladder built; the lease CAS is next              *)
(*   leased     fence granted; checkpoint load and reservation next        *)
(*   reserved   dollars held; worker.execute's first fence check next      *)
(*   running    worker.run in flight                                       *)
(*   settle     the reservation is settled on the way out of dispatch()    *)
(*   checkpoint partial result: _save_checkpoint next                      *)
(*   diagnose   failed result: decide() and _record_diagnostics next       *)
(*   renew      RETRY_TRANSIENT: backoff, then renew under the same fence  *)
(*   breach     repo-scoped ledger refusal: _on_breach next                *)
(*   complete   complete_phase next                                        *)
(*   terminate  _terminate_uncharged next                                  *)
(*   contain    RHI written: blocked_by is broadcast, one dependent a time *)
(*   halt       RunHalted is about to leave the task                       *)
(*   done       the task returned                                          *)
(*   closed     the command has corrected the row after the wave           *)
(*                                                                         *)
(* The ledger appears here only as the holds it keeps in `reservations`;   *)
(* whether it grants or refuses is a free choice (module CostLedger has    *)
(* the amounts).  What a worker computes is a free choice of outcome.      *)
(***************************************************************************)
EXTENDS PhaseTable, FiniteSets

CONSTANTS Procs,          \* processes that may run a fleet command
          Edges,          \* ordering edges <<dependency, dependent>>
          WaveOf,         \* wave_members as `fleet sequence` left them
          Phases,         \* 2 TRANSFORM, 3 BUILD, 4 VERIFY
          Published,      \* providers whose stub is a PUBLISHED_ARTIFACT
          StubFlags,      \* values --stub-blocked takes
          WaveFlags,      \* values --wave takes where it is given
          MaxTransient,   \* RetryPolicy.max_transient_retries
          MaxFaults,      \* bound: crashes, halts, escapes, overspends, early expiries
          MaxOps,         \* bound: operator commands, and steps of other phases
          MaxWave         \* bound: wave indices

ASSUME RunnerAssumption ==
  /\ Edges \subseteq Repos \X Repos
  /\ WaveOf \in [Repos -> Nat]
  /\ Phases \subseteq 2..4
  /\ Published \subseteq Repos
  /\ StubFlags \subseteq BOOLEAN
  /\ WaveFlags \subseteq Nat
  /\ MaxTransient \in Nat
  /\ MaxFaults \in Nat
  /\ MaxOps \in Nat
  /\ MaxWave \in Nat

VARIABLES phases,       \* the phases table
          checkpoint,   \* phase_checkpoints: none | more | done
          holds,        \* HELD rows of reservations, per repo
          cmd, waves,   \* what each process is doing, and the waves it has left
          pairs,        \* <<provider, dependent>> pairs it still has to write
          stub_blocked, \* the flag its command was given
          task,         \* the per-repo tasks
          phase,        \* the phase the behaviour is about
          stub,         \* stubs rows, per <<provider, consumer>>
          wave_of,      \* wave_members
          freed,        \* repos `fleet resume` un-blocked and has yet to move
          reopened,     \* history: how often a verdict on the repo was taken back
          op,           \* the operator's `fleet quarantine`, between its steps
          faults, ops   \* the two bounds

cmdVars   == <<cmd, waves, pairs, stub_blocked>>
fleetVars == <<phase, stub, wave_of, freed, reopened>>
opVars    == <<op, ops, fleetVars>>
vars == <<phases, checkpoint, holds, cmdVars, task, opVars, faults>>

-----------------------------------------------------------------------------
(* State *)

Pc == {"idle", "admitted", "acquire", "leased", "reserved", "running", "settle",
       "checkpoint", "diagnose", "renew", "breach", "complete",
       "terminate", "contain", "halt", "done", "closed"}

\* What a dispatch produced; the last three are decide()'s verdict on it.
Failure == {"retryable", "transient", "fatal", "halting"}
Outcome == Failure \cup {"none", "ok", "partial", "stale",
                         "advance", "exhausted", "breach"}

Task == [pc : Pc, fence : Nat, attempts : Nat, transient : Nat,
         outcome : Outcome, todo : SUBSET Repos]

Idle == [pc |-> "idle", fence |-> 0, attempts |-> 0, transient |-> 0,
         outcome |-> "none", todo |-> {}]
Done == [Idle EXCEPT !.pc = "done"]

Hold == [fence : Nat, live : BOOLEAN]

NoOp == [step |-> "none", repo |-> {}, movable |-> FALSE, todo |-> {}]
Op == [step : {"none", "read", "block", "abort"}, repo : SUBSET Repos,
       movable : BOOLEAN, todo : SUBSET Repos]

TypeOK ==
  /\ phases \in [Repos -> PhaseRow]
  /\ checkpoint \in [Repos -> {"none", "more", "done"}]
  /\ holds \in [Repos -> SUBSET Hold]
  /\ cmd \in [Procs -> {"down", "reaped", "sweep", "prepare", "wave", "report"}]
  /\ waves \in [Procs -> SUBSET Nat]
  /\ pairs \in [Procs -> SUBSET (Repos \X Repos)]
  /\ stub_blocked \in [Procs -> BOOLEAN]
  /\ task \in [Procs \X Repos -> Task]
  /\ phase \in 2..4
  /\ stub \in [Repos \X Repos -> {"none", "ACTIVE", "closed"}]
  /\ wave_of \in [Repos -> Nat]
  /\ freed \in SUBSET Repos
  /\ reopened \in [Repos -> Nat]
  /\ op \in Op
  /\ faults \in Nat
  /\ ops \in Nat

\* ordering_descendants: everything reachable along the edges, so a repo on a
\* cycle is its own descendant; the broadcast leaves it out.
Descendants(r) ==
  LET Closed(S) == /\ \A e \in Edges : e[1] = r => e[2] \in S
                   /\ \A e \in Edges : e[1] \in S => e[2] \in S
  IN  {d \in Repos : \A S \in SUBSET Repos : Closed(S) => d \in S} \ {r}

Init ==
  /\ phases = [r \in Repos |-> FreshRow]
  /\ checkpoint = [r \in Repos |-> "none"]
  /\ holds = [r \in Repos |-> {}]
  /\ cmd = [p \in Procs |-> "down"]
  /\ waves = [p \in Procs |-> {}]
  /\ pairs = [p \in Procs |-> {}]
  /\ stub_blocked = [p \in Procs |-> FALSE]
  /\ task = [t \in Procs \X Repos |-> Idle]
  /\ phase \in Phases
  \* BUILD and VERIFY find the stubs TRANSFORM recorded.
  /\ stub \in {[e \in Repos \X Repos |-> IF e \in stubbed THEN "ACTIVE" ELSE "none"] :
                 stubbed \in IF phase = 2 THEN {{}}
                            ELSE SUBSET {e \in Repos \X Repos : e[2] \in Descendants(e[1])}}
  /\ wave_of = WaveOf
  /\ freed = {}
  /\ reopened = [r \in Repos |-> 0]
  /\ op = NoOp
  /\ faults = 0
  /\ ops = 0

-----------------------------------------------------------------------------
(* Vocabulary of the actions *)

FenceIsCurrent(p, r) == phases[r].fence = task[p, r].fence

\* The task was granted a fence and has not given it up.
HasFence(p, r) == task[p, r].fence # 0

\* The heartbeat task lives exactly as long as _dispatch does.
Heartbeating(p, r) ==
  cmd[p] = "wave" /\ task[p, r].pc \in {"leased", "reserved", "running", "settle"}

SetTask(p, r, t) == task' = [task EXCEPT ![<<p, r>>] = t]
Goto(p, r, pc) == SetTask(p, r, [task[p, r] EXCEPT !.pc = pc])
GotoWith(p, r, pc, outcome) ==
  SetTask(p, r, [task[p, r] EXCEPT !.pc = pc, !.outcome = outcome])
Return(p, r) == SetTask(p, r, Done)
SetRow(r, row) == phases' = [phases EXCEPT ![r] = row]

HoldsOf(p, r) == {h \in holds[r] : h.fence = task[p, r].fence}
Release(p, r) == holds' = [holds EXCEPT ![r] = @ \ HoldsOf(p, r)]

Fault == faults < MaxFaults /\ faults' = faults + 1

-----------------------------------------------------------------------------
(* A command: reap, sweep, drive the waves *)

\* reap_expired_phase_leases.  The second statement bumps the fence of the row
\* that owns an expired hold: it compares neither the hold's own lease_fence
\* nor the row's status.
Reaped(row, held) ==
  LET reclaimed == IF LeaseReapable(row) THEN ReclaimLease(row) ELSE row
  IN  IF \E h \in held : ~h.live
      THEN [reclaimed EXCEPT !.fence = @ + 1] ELSE reclaimed

\* Waves of wave_members, and the ones with a member not at an end yet: what a
\* command without --wave drives.
Waves == {wave_of[r] : r \in Repos}
Members(w) == {r \in Repos : wave_of[r] = w}
OpenWaves == {wave_of[r] : r \in {m \in Repos : phases[m].status \notin TERMINAL_STATUSES}}

\* Mutant: the sweep looks for SKIPPED providers only.
Owed_SkippedOnly(rows, stubs) ==
  {e \in Repos \X Repos : /\ rows[e[1]].status = SKIPPED
                          /\ e[2] \in Descendants(e[1])
                          /\ stubs[e] # "ACTIVE"}

\* The <<provider, dependent>> pairs the sweep re-propagates: not to a
\* dependent that stands on an active stub of that very provider.
Owed(rows, stubs) ==
  {e \in Repos \X Repos : /\ rows[e[1]].status = RHI
                          /\ e[2] \in Descendants(e[1])
                          /\ stubs[e] # "ACTIVE"}

\* A command starts, with or without --wave and --stub-blocked: it lists its
\* waves and reaps ...
StartCommand(p) ==
  /\ cmd[p] = "down"
  /\ cmd' = [cmd EXCEPT ![p] = "reaped"]
  /\ \E ws \in {OpenWaves} \cup {{w} : w \in Waves \cap WaveFlags} : waves' = [waves EXCEPT ![p] = ws]
  /\ \E flag \in StubFlags : stub_blocked' = [stub_blocked EXCEPT ![p] = flag]
  /\ phases' = [r \in Repos |-> Reaped(phases[r], holds[r])]
  /\ holds' = [r \in Repos |-> {h \in holds[r] : h.live}]
  /\ UNCHANGED <<checkpoint, pairs, task, opVars, faults>>

\* ... reads which providers are abandoned (_repropagate_terminal_providers),
\* under --stub-blocked not at all ...
SweepRead(p) ==
  /\ cmd[p] = "reaped"
  /\ cmd' = [cmd EXCEPT ![p] = "sweep"]
  /\ pairs' = [pairs EXCEPT ![p] = IF stub_blocked[p] THEN {} ELSE Owed(phases, stub)]
  /\ UNCHANGED <<phases, checkpoint, holds, waves, stub_blocked, task, opVars, faults>>

\* ... and tells their dependents, one transaction each.
SweepOne(p) ==
  /\ cmd[p] = "sweep"
  /\ \E e \in pairs[p] :
       /\ SetRow(e[2], append_blocked_by(phases[e[2]], e[1]))
       /\ pairs' = [pairs EXCEPT ![p] = @ \ {e}]
  /\ UNCHANGED <<checkpoint, holds, cmd, waves, stub_blocked, task, opVars, faults>>

\* The process is gone, or its command returned: its tasks go with it.
ClearTasks(p) == task' = [t \in Procs \X Repos |-> IF t[1] = p THEN Idle ELSE task[t]]
Stopped(p) == /\ cmd' = [cmd EXCEPT ![p] = "down"]
              /\ waves' = [waves EXCEPT ![p] = {}]
              /\ pairs' = [pairs EXCEPT ![p] = {}]
              /\ stub_blocked' = [stub_blocked EXCEPT ![p] = FALSE]
              /\ ClearTasks(p)

\* Waves are driven in ascending order, each prepared before it is opened.
Current(p) == CHOOSE w \in waves[p] : \A v \in waves[p] : w <= v
EnterWave(p, left) ==
  IF left = {}
  THEN Stopped(p)
  ELSE /\ cmd' = [cmd EXCEPT ![p] = "prepare"]
       /\ waves' = [waves EXCEPT ![p] = left]
       /\ ClearTasks(p)
       /\ UNCHANGED <<pairs, stub_blocked>>

FirstWave(p) ==
  /\ cmd[p] = "sweep" /\ pairs[p] = {}
  /\ EnterWave(p, waves[p])
  /\ UNCHANGED <<phases, checkpoint, holds, opVars, faults>>

\* Preparation of a repo failed before its task exists (_abandon_repo).
AbandonRepo(p, r) ==
  /\ cmd[p] = "prepare" /\ r \in Members(Current(p))
  /\ phases[r].status = PENDING
  /\ SetRow(r, abandon_repo(phases[r]))
  /\ UNCHANGED <<checkpoint, holds, cmdVars, task, opVars, faults>>

\* open_wave: every earlier wave must be CLOSED, or the command ends with
\* WaveNotReadyError.
EarlierWavesClosed(w) ==
  \A r \in Repos : wave_of[r] < w => phases[r].status \in SETTLED_STATUSES

OpenWave(p) ==
  /\ cmd[p] = "prepare"
  /\ IF EarlierWavesClosed(Current(p))
     THEN /\ cmd' = [cmd EXCEPT ![p] = "wave"]
          /\ UNCHANGED <<waves, pairs, stub_blocked, task>>
     ELSE Stopped(p)
  /\ UNCHANGED <<phases, checkpoint, holds, opVars, faults>>

\* detect_stub_triggers: a member on an abandoned provider, or on a repo that
\* itself stands on an active stub which is not empty, whose provider it takes.
Triggers(members, abandoned) ==
  {e \in Repos \X members :
     \/ e \in Edges /\ e[1] \in abandoned
     \/ /\ e[1] \in Published
        /\ \E i \in Repos \ abandoned : <<i, e[2]>> \in Edges /\ stub[<<e[1], i>>] = "ACTIVE"}

\* Every task of the wave returned, or was cancelled by a halt: run_wave gives
\* its report.  A --stub-blocked TRANSFORM looks for the stubs it calls for; a
\* provider may have been abandoned in a phase other than this one.
WaveReturns(p) ==
  /\ cmd[p] = "wave"
  /\ \A r \in Repos : task[p, r].pc \in {"idle", "done"}
  /\ \A r \in Members(Current(p)) : task[p, r].pc = "done"
  /\ cmd' = [cmd EXCEPT ![p] = "report"]
  /\ IF phase = 2 /\ stub_blocked[p]
     THEN \E elsewhere \in SUBSET Repos :
            LET abandoned == elsewhere \cup {r \in Repos : phases[r].status = RHI}
            IN  pairs' = [pairs EXCEPT ![p] = Triggers(Members(Current(p)), abandoned)]
     ELSE UNCHANGED pairs
  /\ UNCHANGED <<phases, checkpoint, holds, waves, stub_blocked, task, opVars, faults>>

\* _create_stub_records: check, then insert.
StubRecord(p) ==
  /\ cmd[p] = "report"
  /\ \E e \in pairs[p] :
       /\ stub' = [stub EXCEPT ![e] = IF @ = "none" THEN "ACTIVE" ELSE @]
       /\ pairs' = [pairs EXCEPT ![p] = @ \ {e}]
  /\ UNCHANGED <<phases, checkpoint, holds, cmd, waves, stub_blocked, task,
                 phase, wave_of, freed, reopened, op, ops, faults>>

\* BUILD and VERIFY correct every member after a wave, TRANSFORM only under
\* --stub-blocked.
Corrects(p) == phase # 2 \/ stub_blocked[p]

\* An empty stub degrades nobody.
OnLiveStub(r) == \E b \in Published : stub[<<b, r>>] = "ACTIVE"

StubDegrade(p, r) ==
  /\ cmd[p] = "report" /\ pairs[p] = {} /\ Corrects(p)
  /\ r \in Members(Current(p)) /\ task[p, r].pc = "done"
  /\ IF OnLiveStub(r) THEN SetRow(r, stub_degrade_transform(phases[r])) ELSE UNCHANGED phases
  /\ SetTask(p, r, [Idle EXCEPT !.pc = "closed"])
  /\ UNCHANGED <<checkpoint, holds, cmdVars, opVars, faults>>

\* On to the next wave, or the command ends.
NextWave(p) ==
  /\ cmd[p] = "report" /\ pairs[p] = {}
  /\ Corrects(p) => \A r \in Members(Current(p)) : task[p, r].pc # "done"
  /\ EnterWave(p, waves[p] \ {Current(p)})
  /\ UNCHANGED <<phases, checkpoint, holds, opVars, faults>>

-----------------------------------------------------------------------------
(* One task *)

\* WaveScheduler.admit: a member that needs nothing now gets no task.
Admit(p, r) ==
  /\ cmd[p] = "wave" /\ r \in Members(Current(p)) /\ task[p, r].pc = "idle"
  /\ IF phases[r].status \in SETTLED_STATUSES THEN Return(p, r) ELSE Goto(p, r, "admitted")
  /\ UNCHANGED <<phases, checkpoint, holds, cmdVars, opVars, faults>>

\* Once every member is admitted or not, the tasks start.  _drive reads the row
\* and builds the ladder from it, before any lease.
Drive(p, r) ==
  /\ task[p, r].pc = "admitted"
  /\ \A m \in Members(Current(p)) : task[p, m].pc # "idle"
  /\ SetTask(p, r, [task[p, r] EXCEPT !.pc = "acquire",
                                      !.attempts = phases[r].attempts,
                                      !.transient = phases[r].transient])
  /\ UNCHANGED <<phases, checkpoint, holds, cmdVars, opVars, faults>>

Acquire(p, r) ==
  /\ task[p, r].pc = "acquire"
  /\ IF Acquirable(phases[r])
     THEN LET row == acquire_phase_lease(phases[r])
          IN  /\ SetRow(r, row)
              /\ SetTask(p, r, [task[p, r] EXCEPT !.pc = "leased",
                                                  !.fence = row.fence])
     ELSE Return(p, r) /\ UNCHANGED phases
  /\ UNCHANGED <<checkpoint, holds, cmdVars, opVars, faults>>

\* The checkpoint is loaded and the ledger reserves.  A loaded checkpoint with
\* nothing remaining, whose preconditions hold, completes without a worker.
Reserve(p, r) ==
  /\ task[p, r].pc = "leased"
  /\ \/ /\ holds' = [holds EXCEPT ![r] =
                       @ \cup {[fence |-> task[p, r].fence, live |-> TRUE]}]
        /\ \/ Goto(p, r, "reserved")
           \/ /\ checkpoint[r] = "done"
              /\ GotoWith(p, r, "settle", "ok")
     \/ /\ Goto(p, r, "breach") /\ UNCHANGED holds
  /\ UNCHANGED <<phases, checkpoint, cmdVars, opVars, faults>>

\* worker.execute's check before the work; a payload that cannot be built
\* raises out of _dispatch instead, and an exception of the pre-dispatch hook is
\* classified into a failure that skips the check.
Execute(p, r) ==
  /\ task[p, r].pc = "reserved"
  /\ \/ /\ \/ FenceIsCurrent(p, r) /\ Goto(p, r, "running")
           \/ \E o \in (Failure \ {"halting"}) \cup {"stale"} :
                /\ o = "stale" => ~FenceIsCurrent(p, r)
                /\ GotoWith(p, r, "settle", o)
        /\ UNCHANGED <<holds, faults>>
     \/ Return(p, r) /\ Release(p, r) /\ Fault
  /\ UNCHANGED <<phases, checkpoint, cmdVars, opVars>>

\* worker.run returned (or was cancelled, or timed out) and the fence is read
\* again: a result is kept only under the fence it was produced under.
RunReturns(p, r) ==
  /\ task[p, r].pc = "running"
  /\ \E o \in {"ok", "partial", "stale"} \cup Failure :
       /\ (o = "stale") <=> ~FenceIsCurrent(p, r)
       /\ IF o = "halting" THEN Fault ELSE UNCHANGED faults
       /\ GotoWith(p, r, "settle", o)
  /\ UNCHANGED <<phases, checkpoint, holds, cmdVars, opVars>>

AfterSettle(outcome) ==
  CASE outcome = "ok"      -> "complete"
    [] outcome = "partial" -> "checkpoint"
    [] OTHER               -> "diagnose"

\* settle() needs the reservation still HELD.  If the reaper expired it the
\* exception escapes to _isolated; if a ceiling refuses, the hold stays.  A
\* result sink that raises escapes too, with the row left RUNNING.
Settle(p, r) ==
  /\ task[p, r].pc = "settle"
  /\ IF HoldsOf(p, r) = {}
     THEN Return(p, r) /\ UNCHANGED <<holds, faults>>
     ELSE \/ /\ Release(p, r) /\ UNCHANGED faults
             /\ IF task[p, r].outcome = "stale" THEN Return(p, r)
                ELSE Goto(p, r, AfterSettle(task[p, r].outcome))
          \/ Goto(p, r, "breach") /\ UNCHANGED holds /\ Fault
          \/ Release(p, r) /\ Return(p, r) /\ Fault
  /\ UNCHANGED <<phases, checkpoint, cmdVars, opVars>>

\* _save_checkpoint: an upsert with no fence in it.
SaveCheckpoint(p, r) ==
  /\ task[p, r].pc = "checkpoint"
  /\ \E c \in {"more", "done"} : checkpoint' = [checkpoint EXCEPT ![r] = c]
  /\ Goto(p, r, "complete")
  /\ UNCHANGED <<phases, holds, cmdVars, opVars, faults>>

\* Mutant: a transient retry is not counted.
decide_FreeTransient(t) ==
  IF t.outcome = "fatal" THEN [t EXCEPT !.pc = "terminate"]
  ELSE IF t.outcome = "halting" THEN [t EXCEPT !.pc = "halt"]
  ELSE IF t.outcome = "transient" /\ t.transient < MaxTransient
       THEN [t EXCEPT !.pc = "renew"]
  ELSE [t EXCEPT !.pc = "complete", !.attempts = @ + 1,
                 !.outcome = IF t.attempts + 1 >= MaxAttempts THEN "exhausted"
                             ELSE "advance"]

\* RetryPolicy.decide on the task's ladder: next pc, outcome and ladder.
decide(t) ==
  IF t.outcome = "fatal" THEN [t EXCEPT !.pc = "terminate"]
  ELSE IF t.outcome = "halting" THEN [t EXCEPT !.pc = "halt"]
  ELSE IF t.outcome = "transient" /\ t.transient < MaxTransient
       THEN [t EXCEPT !.pc = "renew", !.transient = @ + 1]
  ELSE [t EXCEPT !.pc = "complete", !.attempts = @ + 1,
                 !.outcome = IF t.attempts + 1 >= MaxAttempts THEN "exhausted"
                             ELSE "advance"]

Diagnose(p, r) ==
  /\ task[p, r].pc = "diagnose"
  /\ IF FenceIsCurrent(p, r)
     THEN LET next == decide(task[p, r])
          IN  /\ SetRow(r, record_diagnostics(phases[r], next.transient))
              /\ SetTask(p, r, next)
     ELSE Return(p, r) /\ UNCHANGED phases
  /\ UNCHANGED <<checkpoint, holds, cmdVars, opVars, faults>>

\* RETRY_TRANSIENT: same rung, same fence.
Renew(p, r) ==
  /\ task[p, r].pc = "renew"
  /\ IF Renewable(phases[r], task[p, r].fence)
     THEN SetRow(r, renew_phase_lease(phases[r])) /\ Goto(p, r, "leased")
     ELSE Return(p, r) /\ UNCHANGED phases
  /\ UNCHANGED <<checkpoint, holds, cmdVars, opVars, faults>>

\* _on_breach records diagnostics without looking at the answer.
OnBreach(p, r) ==
  /\ task[p, r].pc = "breach"
  /\ IF FenceIsCurrent(p, r)
     THEN SetRow(r, record_diagnostics(phases[r], task[p, r].transient))
     ELSE UNCHANGED phases
  /\ GotoWith(p, r, "complete", "breach")
  /\ UNCHANGED <<checkpoint, holds, cmdVars, opVars, faults>>

\* The status the runner asks complete_phase for.
Requested(outcome) ==
  CASE outcome = "ok"                     -> SUCCEEDED
    [] outcome \in {"partial", "advance"} -> PENDING
    [] OTHER                              -> RHI

\* Mutant: the whole fleet is told, not the dependents.
Containing_WholeFleet(r) == [Idle EXCEPT !.pc = "contain", !.todo = Repos \ {r}]

\* The task left with nothing but the broadcast to r's dependents.
Containing(r) == [Idle EXCEPT !.pc = "contain", !.todo = Descendants(r)]

\* Where the task goes once complete_phase wrote `written`.  A partial result
\* that exhausted the ladder returns without containment.
AfterComplete(t, r, written) ==
  IF written = PENDING
  THEN [t EXCEPT !.pc = "acquire", !.fence = 0, !.outcome = "none",
                 !.attempts = IF t.outcome = "partial" THEN @ + 1 ELSE @]
  ELSE IF written = RHI /\ t.outcome # "partial"
  THEN Containing(r)
  ELSE Done

\* Mutant: complete_phase without its `lease_fence = ?`.
Complete_Unfenced(p, r) ==
  /\ task[p, r].pc = "complete"
  /\ LET row     == phases[r]
         request == Requested(task[p, r].outcome)
         target  == CompletionTarget(row, request)
     IN  IF transition(row.status, target)
         THEN /\ SetRow(r, complete_phase(row, request))
              /\ SetTask(p, r, AfterComplete(task[p, r], r, target))
         ELSE Return(p, r) /\ UNCHANGED phases
  /\ UNCHANGED <<checkpoint, holds, cmdVars, opVars, faults>>

\* complete_phase: no row under this fence is LeaseStolenError, a transition
\* the gate refuses is PhaseTransitionRefusedError; both end the task.
Complete(p, r) ==
  /\ task[p, r].pc = "complete"
  /\ LET row     == phases[r]
         request == Requested(task[p, r].outcome)
         target  == CompletionTarget(row, request)
     IN  IF FenceIsCurrent(p, r) /\ transition(row.status, target)
         THEN /\ SetRow(r, complete_phase(row, request))
              /\ SetTask(p, r, AfterComplete(task[p, r], r, target))
         ELSE Return(p, r) /\ UNCHANGED phases
  /\ UNCHANGED <<checkpoint, holds, cmdVars, opVars, faults>>

Terminate(p, r) ==
  /\ task[p, r].pc = "terminate"
  /\ IF FenceIsCurrent(p, r)
     THEN /\ SetRow(r, terminate_uncharged(phases[r], RHI))
          /\ SetTask(p, r, Containing(r))
     ELSE Return(p, r) /\ UNCHANGED phases
  /\ UNCHANGED <<checkpoint, holds, cmdVars, opVars, faults>>

\* _contain -> propagate_blocked: one transaction per dependent.
Contain(p, r) ==
  /\ task[p, r].pc = "contain"
  /\ \/ /\ task[p, r].todo = {} /\ Return(p, r) /\ UNCHANGED phases
     \/ \E d \in task[p, r].todo :
          /\ SetRow(d, append_blocked_by(phases[d], r))
          /\ SetTask(p, r, [task[p, r] EXCEPT !.todo = @ \ {d}])
  /\ UNCHANGED <<checkpoint, holds, cmdVars, opVars, faults>>

-----------------------------------------------------------------------------
(* Time, halts and crashes *)

Heartbeat(p, r) ==
  /\ Heartbeating(p, r)
  /\ Renewable(phases[r], task[p, r].fence) /\ phases[r].lease = "expired"
  /\ SetRow(r, renew_phase_lease(phases[r]))
  /\ UNCHANGED <<checkpoint, holds, cmdVars, task, opVars, faults>>

\* Some live task still works under this fence of r.
Working(r, fence) == \E p \in Procs : HasFence(p, r) /\ task[p, r].fence = fence

\* lease_expires_at passes; only a RUNNING row's lease is ever looked at.
ExpireLease(r) ==
  /\ phases[r].status = RUNNING /\ phases[r].lease = "live"
  /\ SetRow(r, [phases[r] EXCEPT !.lease = "expired"])
  /\ IF Working(r, phases[r].fence) THEN Fault ELSE UNCHANGED faults
  /\ UNCHANGED <<checkpoint, holds, cmdVars, task, opVars>>

\* reservations.expires_at passes: nothing renews a hold.
ExpireHold(r) ==
  /\ \E h \in holds[r] :
       /\ h.live
       /\ holds' = [holds EXCEPT ![r] = (@ \ {h}) \cup {[h EXCEPT !.live = FALSE]}]
       /\ IF Working(r, h.fence) THEN Fault ELSE UNCHANGED faults
  /\ UNCHANGED <<phases, checkpoint, cmdVars, task, opVars>>

Halting(p) == \E r \in Repos : task[p, r].pc = "halt"

\* RunHalted leaves a task (guard, wave or run budget, disk, every backend
\* down): the TaskGroup cancels the siblings, whose dispatch() settles on the
\* way out, and the report says it was the last wave.  Rows are left as they
\* are, and a reservation queued when its task was cancelled still commits.
Halt(p) ==
  /\ cmd[p] = "wave"
  /\ \/ Halting(p) /\ UNCHANGED faults
     \/ \E r \in Repos : task[p, r].pc \in {"acquire", "leased", "breach"} /\ Fault
  /\ waves' = [waves EXCEPT ![p] = @ \cap {Current(p)}]
  /\ task' = [t \in Procs \X Repos |-> IF t[1] = p THEN Done ELSE task[t]]
  /\ \E leaked \in SUBSET {r \in Repos : task[p, r].pc = "leased"} :
       holds' = [r \in Repos |->
                   IF r \in leaked
                   THEN holds[r] \cup {[fence |-> task[p, r].fence, live |-> TRUE]}
                   ELSE IF task[p, r].pc \in {"reserved", "running", "settle"}
                   THEN holds[r] \ HoldsOf(p, r) ELSE holds[r]]
  /\ UNCHANGED <<phases, checkpoint, cmd, pairs, stub_blocked, opVars>>

\* SIGKILL, power loss: nothing is written.
Crash(p) ==
  /\ cmd[p] # "down"
  /\ Fault
  /\ Stopped(p)
  /\ UNCHANGED <<phases, checkpoint, holds, opVars>>

-----------------------------------------------------------------------------
(* The operator *)

Operate == ops < MaxOps /\ ops' = ops + 1

Reopens(r) == reopened' = [reopened EXCEPT ![r] = @ + 1]

\* `fleet retry`.
Retry(r) ==
  /\ Operate
  /\ phases[r].status = RHI
  /\ SetRow(r, reopen_to_pending(phases[r]))
  /\ Reopens(r)
  /\ UNCHANGED <<checkpoint, holds, cmdVars, task, phase, stub, wave_of, freed, op, faults>>

\* demote_to_floor, from `fleet resume` or from `fleet build` taking a contract
\* back: rows from the floor up.  It refuses a repo with an abandoned phase, and
\* deletes the checkpoints of the span when any row of it was demoted.
Demote(r) ==
  /\ Operate
  /\ phases[r].status # RHI
  /\ SetRow(r, demote(phases[r]))
  /\ checkpoint' = [checkpoint EXCEPT ![r] = IF phases[r].status = DEGRADED THEN @ ELSE "none"]
  /\ IF phases[r].status = SUCCEEDED THEN Reopens(r) ELSE UNCHANGED reopened
  /\ UNCHANGED <<holds, cmdVars, task, phase, stub, wave_of, freed, op, faults>>

\* `fleet quarantine` reads the rows on a connection of its own and refuses
\* where transition(status, SKIPPED) raises ...
QuarantineRead(r) ==
  /\ Operate
  /\ op = NoOp
  /\ \/ phases[r].status \in TERMINAL_STATUSES
     \/ transition(phases[r].status, SKIPPED)
  /\ op' = [step |-> "read", repo |-> {r},
            movable |-> phases[r].status \notin TERMINAL_STATUSES, todo |-> {}]
  /\ UNCHANGED <<phases, checkpoint, holds, cmdVars, task, fleetVars, faults>>

\* ... then writes what it read, in a later transaction ...
QuarantineWrite(r) ==
  /\ op.step = "read" /\ r \in op.repo
  /\ SetRow(r, IF op.movable THEN quarantine_movable(phases[r]) ELSE phases[r])
  /\ op' = [op EXCEPT !.step = "block", !.todo = Descendants(r)]
  /\ UNCHANGED <<checkpoint, holds, cmdVars, task, fleetVars, ops, faults>>

\* ... and blocks the dependents, one transaction each.
QuarantineBlock(r) ==
  /\ op.step = "block" /\ r \in op.repo
  /\ \/ op.todo = {} /\ op' = NoOp /\ UNCHANGED phases
     \/ \E d \in op.todo :
          /\ SetRow(d, append_blocked_by(phases[d], r))
          /\ op' = [op EXCEPT !.todo = @ \ {d}]
  /\ UNCHANGED <<checkpoint, holds, cmdVars, task, fleetVars, ops, faults>>

\* `fleet abort` records its decision, waits for RUNNING rows to drain or for
\* its deadline (not at all under --now) ...
AbortRecord ==
  /\ Operate
  /\ op = NoOp
  /\ op' = [NoOp EXCEPT !.step = "abort"]
  /\ UNCHANGED <<phases, checkpoint, holds, cmdVars, task, fleetVars, faults>>

\* ... then resets what is RUNNING and marks the run finished.
AbortReset ==
  /\ op.step = "abort"
  /\ phases' = [r \in Repos |-> abort_reset(phases[r])]
  /\ op' = NoOp
  /\ UNCHANGED <<checkpoint, holds, cmdVars, task, fleetVars, ops, faults>>

\* `fleet resume` step 3: rows whose heartbeat is past both horizons.
ResetStaleRunning(r) ==
  /\ LeaseReapable(phases[r])
  /\ SetRow(r, abort_reset(phases[r]))
  /\ UNCHANGED <<checkpoint, holds, cmdVars, task, opVars, faults>>

\* `fleet resume` step 6: the plan is recomputed inside the transaction and a
\* difference refuses, so reading and writing are one step.  A blocker goes if
\* it landed in every phase (still_blocking), of which this row is one; with
\* --stub-blocked also if any phase of it is abandoned (stub_permits_removal).
Unblock(r) ==
  \E flag \in StubFlags, removed \in SUBSET phases[r].blocked_by :
    /\ removed # {}
    /\ IF flag
       THEN Operate /\ \A b \in phases[r].blocked_by : phases[b].status = RHI => b \in removed
       ELSE (\A b \in removed : phases[b].status \in LANDED_STATUSES) /\ UNCHANGED ops
    /\ SetRow(r, clear_blocked_by(phases[r], removed))
    /\ freed' = IF removed = phases[r].blocked_by THEN freed \cup {r} ELSE freed
    /\ UNCHANGED <<checkpoint, holds, cmdVars, task, phase, stub, wave_of, reopened, op, faults>>

\* append_unblocked_wave, a later transaction: a resume that dies in between
\* leaves the repos it freed where they were.
AppendWave ==
  /\ \E moved \in SUBSET freed, top \in Waves :
       /\ moved # {} /\ top < MaxWave
       /\ \A w \in Waves : w <= top
       /\ wave_of' = [r \in Repos |-> IF r \in moved THEN top + 1 ELSE wave_of[r]]
       /\ freed' = freed \ moved
  /\ UNCHANGED <<phases, checkpoint, holds, cmdVars, task, phase, stub, reopened, op, ops, faults>>

\* `fleet resume` revalidates a consumer in VERIFY whose stub was closed:
\* diverged, or resolved with no other stub of it active.
StubVerdict(r) ==
  /\ phase = 4 /\ phases[r].status = DEGRADED
  /\ \E b \in Repos : stub[<<b, r>>] = "closed"
  /\ \E verdict \in {SUCCEEDED, RHI} :
       /\ verdict = SUCCEEDED => \A b \in Repos : stub[<<b, r>>] # "ACTIVE"
       /\ SetRow(r, apply_stub_consumer_status(phases[r], verdict))
  /\ UNCHANGED <<checkpoint, holds, cmdVars, task, opVars, faults>>

-----------------------------------------------------------------------------
(* Other phases of the run, and the stub machinery (module StubLifecycle) *)

\* append_blocked_by writes every phase of a dependent, whichever phase its
\* blocker was abandoned in.
ContainedElsewhere(e) ==
  /\ Operate
  /\ e[2] \in Descendants(e[1])
  /\ SetRow(e[2], append_blocked_by(phases[e[2]], e[1]))
  /\ UNCHANGED <<checkpoint, holds, cmdVars, task, fleetVars, op, faults>>

\* A stub is recorded by a TRANSFORM other than the one modelled ...
StubRecorded(e) ==
  /\ Operate
  /\ phase # 2 /\ e[2] \in Descendants(e[1]) /\ stub[e] = "none"
  /\ stub' = [stub EXCEPT ![e] = "ACTIVE"]
  /\ UNCHANGED <<phases, checkpoint, holds, cmdVars, task, phase, wave_of, freed, reopened,
                 op, faults>>

\* ... and later settled, or opened for another round.
StubMoves(e) ==
  /\ Operate
  /\ stub[e] # "none"
  /\ stub' = [stub EXCEPT ![e] = IF @ = "ACTIVE" THEN "closed" ELSE "ACTIVE"]
  /\ UNCHANGED <<phases, checkpoint, holds, cmdVars, task, phase, wave_of, freed, reopened, op, faults>>

-----------------------------------------------------------------------------

TaskStep(p, r) ==
  \/ Acquire(p, r) \/ Reserve(p, r) \/ Execute(p, r)
  \/ RunReturns(p, r) \/ Settle(p, r) \/ SaveCheckpoint(p, r)
  \/ Diagnose(p, r) \/ Renew(p, r) \/ OnBreach(p, r)
  \/ Complete(p, r) \/ Terminate(p, r) \/ Contain(p, r)

Next ==
  \/ \E p \in Procs :
       \/ StartCommand(p) \/ SweepRead(p) \/ SweepOne(p) \/ FirstWave(p)
       \/ OpenWave(p) \/ WaveReturns(p) \/ StubRecord(p) \/ NextWave(p)
       \/ Halt(p) \/ Crash(p)
  \/ \E p \in Procs, r \in Repos :
       \/ AbandonRepo(p, r) \/ Admit(p, r) \/ Drive(p, r) \/ TaskStep(p, r)
       \/ Heartbeat(p, r) \/ StubDegrade(p, r)
  \/ \E r \in Repos :
       \/ ExpireLease(r) \/ ExpireHold(r) \/ ResetStaleRunning(r) \/ Unblock(r)
       \/ Retry(r) \/ Demote(r) \/ StubVerdict(r)
       \/ QuarantineRead(r) \/ QuarantineWrite(r) \/ QuarantineBlock(r)
  \/ \E e \in Repos \X Repos : ContainedElsewhere(e) \/ StubRecorded(e) \/ StubMoves(e)
  \/ AppendWave \/ AbortRecord \/ AbortReset

Spec == Init /\ [][Next]_vars

-----------------------------------------------------------------------------
(* Safety *)

\* The fence decides who may write a row: of all the tasks that still work on
\* repo r, in every process, no two hold the same fence and none holds one the
\* row has not reached, so at most one of them passes a `lease_fence = ?` test.
OneFenceHolder ==
  \A r \in Repos : \A p \in Procs :
    HasFence(p, r) =>
      /\ task[p, r].fence <= phases[r].fence
      /\ \A q \in Procs \ {p} : task[q, r].fence # task[p, r].fence

\* complete_phase escalates in the statement that charges the last attempt: no
\* row that can still run has used up its ladder.  Two things re-open a spent
\* ladder, because they keep `attempts`: `fleet retry` of an abandoned repo and
\* the demotion of one that succeeded, on its last rung perhaps.  Each gives that
\* repo one more attempt; un-blocking, reclaiming, stub verdicts, aborts and
\* what happens to other repos give none.
LadderBounded ==
  \A r \in Repos :
    /\ phases[r].attempts <= MaxAttempts + reopened[r]
    /\ phases[r].status \in {PENDING, RUNNING, BLOCKED} =>
         phases[r].attempts < MaxAttempts + reopened[r]

\* An attempt is charged by the current fence holder's complete_phase and by
\* nothing else, one at a time: reclaimed, aborted, quarantined and resumed
\* rows keep their count, and a late result moves nothing.
ChargedByHolder ==
  [][\A r \in Repos :
       phases'[r].attempts # phases[r].attempts =>
         /\ phases'[r].attempts = phases[r].attempts + 1
         /\ \E p \in Procs : /\ task[p, r].pc = "complete"
                            /\ task[p, r].fence = phases[r].fence]_vars

\* A verdict is left by four doors and no other, whatever late tasks, reapers,
\* sweeps, un-blockings and aborts are under way: `fleet retry` (an abandoned
\* row) and demotion (a succeeded one) put it back to PENDING; `fleet
\* quarantine` of that repo skips it; and a command that has just driven the
\* repo's wave degrades a success that stands on a live stub.
VerdictIsFinal ==
  [][\A r \in Repos :
       phases[r].status \in {SUCCEEDED, RHI}
       /\ phases'[r].status # phases[r].status =>
         \/ phases'[r].status = PENDING /\ reopened'[r] = reopened[r] + 1
         \/ phases'[r].status = SKIPPED /\ r \in op.repo
         \/ /\ phases'[r].status = DEGRADED /\ phases[r].status = SUCCEEDED
            /\ OnLiveStub(r)
            /\ \E p \in Procs : /\ cmd[p] = "report" /\ r \in Members(Current(p))
                               /\ Corrects(p)]_vars

\* Containment reaches the dependents of an abandoned repo and nobody else,
\* and a BLOCKED row always names what blocks it, so un-blocking can find it.
BlockedByDependencies ==
  \A r \in Repos :
    /\ \A b \in phases[r].blocked_by : r \in Descendants(b)
    /\ phases[r].status = BLOCKED => phases[r].blocked_by # {}

\* The sweep makes good what preparation failures, partial results and cut-off
\* broadcasts left undone: where p is the only process and no operator
\* interferes, a command without --stub-blocked gets past its sweep with the
\* dependents of every abandoned repo out of reach of the waves it is about to
\* drive, all but those on an active stub of that very repo.  A dependent one
\* hop further, which has no stub of its own, is sheltered all the same.
SweepShelters ==
  [][\A p \in Procs, b, d \in Repos :
       /\ cmd[p] = "sweep" /\ cmd'[p] = "prepare" /\ ~stub_blocked[p]
       /\ Procs = {p} /\ ops = 0
       /\ d \in Descendants(b) /\ phases[b].status = RHI /\ stub[<<b, d>>] # "ACTIVE"
       => phases[d].status \in SETTLED_STATUSES]_vars

-----------------------------------------------------------------------------
(* What the documentation says of the code, and the code does not do *)

\* docs/SPEC.md:7821: an abandoned repo marks its transitive dependents BLOCKED,
\* so none of them starts while it is abandoned, where nobody asked for stubs.
NoStartOverAbandoned ==
  [][\A b, d \in Repos :
       /\ d \in Descendants(b) /\ phases[b].status = RHI /\ phases[d].status = PENDING
       /\ stub[<<b, d>>] = "none" /\ \A p \in Procs : ~stub_blocked[p]
       => phases'[d].status # RUNNING]_vars

-----------------------------------------------------------------------------
(* Liveness *)

\* Live processes keep running their tasks, commands are run again until they
\* find nothing to do, and time passes.  Nothing is assumed of the operator,
\* of Drive's losers or of the faults, whose numbers are bounded.
Fairness ==
  /\ \A p \in Procs :
       /\ WF_vars(StartCommand(p)) /\ WF_vars(SweepRead(p)) /\ WF_vars(SweepOne(p))
       /\ WF_vars(FirstWave(p)) /\ WF_vars(OpenWave(p))
       /\ WF_vars(WaveReturns(p)) /\ WF_vars(StubRecord(p))
       /\ WF_vars(NextWave(p)) /\ WF_vars(Halting(p) /\ Halt(p))
       /\ \A r \in Repos :
            /\ WF_vars(Admit(p, r)) /\ WF_vars(Drive(p, r)) /\ WF_vars(TaskStep(p, r))
            /\ WF_vars(StubDegrade(p, r))
  /\ \A r \in Repos : WF_vars(ExpireLease(r))

FairSpec == Spec /\ Fairness

\* A row that is RUNNING does not stay so for ever: whatever crashed, halted,
\* escaped or lost its lease, somebody finishes it or reclaims it.
NoRowStranded ==
  \A r \in Repos : phases[r].status = RUNNING ~> phases[r].status # RUNNING

\* The fleet gets to the end of the phase: every row comes to rest.
EverybodySettles ==
  <>[](\A r \in Repos : phases[r].status \in SETTLED_STATUSES)

=============================================================================
