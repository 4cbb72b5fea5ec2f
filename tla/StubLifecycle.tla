--------------------------- MODULE StubLifecycle ---------------------------
(***************************************************************************)
(* The life of the stubs a run stands in for providers that could not be   *)
(* migrated (orchestrator/stubs.py and the commands of cli.py that drive   *)
(* it): a consumer is verified against stubs and degraded; a human fixes   *)
(* and merges the provider; `fleet pr --sync` or `fleet stubs resolve`     *)
(* supersedes the rows, enqueues one revalidation task per consumer and    *)
(* provider and rewrites the consumer's labels; `fleet resume` abandons    *)
(* what cannot resolve any more and runs the queued rounds; `fleet pr`     *)
(* opens, holds and promotes the pull requests.                            *)
(*                                                                         *)
(* Every command is an operating-system process.  A process reads with one *)
(* connection and writes through transactions of its own, so each read     *)
(* whose result is used later and each transaction is a step, and any      *)
(* number of commands interleave.  A crash loses the process's locals and  *)
(* keeps the database, the branches and the forge.                         *)
(*                                                                         *)
(* A row's revalidation_round is 0 as long as the row is open, for         *)
(* next_round_record has no caller: the key of a task is its consumer and  *)
(* provider, and the first round is the only one a row gets.               *)
(***************************************************************************)
EXTENDS Integers, FiniteSets

CONSTANTS
  Stubs,        \* rows of table stubs: one consumer's need of one coordinate
  Consumers, Providers,
  ConsumerOf, ProviderOf,   \* the two repos of a row
  Procs,        \* commands that may run at the same time
  Commands,     \* the commands the operators use
  MaxRounds,    \* stubs.max_revalidation_rounds
  Manual,       \* stubs.revalidation is `manual`
  Gitea,        \* pr.forge is `gitea`, not `github`
  MaxFaults     \* bound: crashes

Repos == Consumers \cup Providers

ASSUME StubAssumption ==
  /\ ConsumerOf \in [Stubs -> Consumers] /\ ProviderOf \in [Stubs -> Providers]
  /\ Consumers \cap Providers = {}
  /\ MaxRounds \in Nat /\ MaxFaults \in Nat /\ Manual \in BOOLEAN /\ Gitea \in BOOLEAN

VARIABLES
  stub,     \* table stubs
  task,     \* table tasks: the REVALIDATE rows
  status,   \* table phases: the VERIFY row of each repo
  report,   \* the latest VerificationReport of each repo
  pr,       \* the PullRequestDraft record of each repo
  forge,    \* the pull requests themselves
  named,    \* the stub labels in the BUILD file of a consumer's branch
  proc,     \* the running commands
  faults

tables == <<stub, task, status, report>>
pulls  == <<pr, forge>>
vars   == <<tables, pulls, named, proc, faults>>

-----------------------------------------------------------------------------

StubState == {"ACTIVE", "SUPERSEDED", "RESOLVED", "ABANDONED"}
OpenState == {"ACTIVE", "SUPERSEDED"}
Reason    == {"STUB_DIVERGED", "ROUNDS_EXHAUSTED", "BUDGET_EXHAUSTED", "END_OF_RUN", "OPERATOR"}
Row       == [state : StubState, linked : BOOLEAN, reason : Reason \cup {"none"}]

\* The verdict of a VerificationReport, and whether it was reached against stubs.
Report   == [pass : BOOLEAN, limited : BOOLEAN]
NoReport == [pass |-> FALSE, limited |-> FALSE]

Tasks   == Consumers \X Providers
Key(s)  == <<ConsumerOf[s], ProviderOf[s]>>
Of(c)   == {s \in Stubs : ConsumerOf[s] = c}

PrState     == {"none", "DRAFTED", "OPEN", "MERGED", "CLOSED", "HELD"}
NonTerminal == {"DRAFTED", "OPEN", "HELD"}

\* What `forge.sync` reports of a pull request: GitHub's driver asks for the state
\* and not for the draft flag, Gitea's tells a draft from its title.
Observed(r) == IF forge[r] = "DRAFT" THEN IF Gitea THEN "DRAFTED" ELSE "OPEN" ELSE forge[r]

Active == {s \in Stubs : stub[s].state = "ACTIVE"}
Open   == {s \in Stubs : stub[s].state \in OpenState}

\* ProviderFacts.merged, with the PR state the caller passes.
Merged(r, state) == status[r] = "SUCCEEDED" /\ state = "MERGED"

\* The locals of a command between two of its steps.
Local ==
  [pc     : {"idle", "verifying", "degrade", "sync", "fire", "supersede", "rewrite",
             "reconcile", "abandon", "plan", "claims", "gate", "round", "apply", "promote",
             "record", "done", "forge", "write"},
   cmd    : {"none", "verify", "sync", "resume", "resolve", "pr"},
   polled : SUBSET (Repos \X PrState),      \* records the forge contradicts
   again  : SUBSET Repos,                   \* records that were MERGED already
   repo   : SUBSET Repos,                   \* the repo in hand, if any
   rows   : SUBSET (Stubs \X OpenState),    \* rows as read, for the next write
   fired  : SUBSET Stubs,                   \* superseded by this command
   todo   : SUBSET Consumers,               \* branches to rewrite
   tasks  : SUBSET Tasks, task : SUBSET Tasks,   \* candidates, the one in hand
   act    : {"none", "T2", "draft", "open", "ready"} \cup Reason,
   clear  : BOOLEAN,                        \* the round promotes the consumer
   report : Report]                         \* what the round found

Idle == [pc |-> "idle", cmd |-> "none", polled |-> {}, again |-> {}, repo |-> {}, rows |-> {},
         fired |-> {}, todo |-> {}, tasks |-> {}, task |-> {}, act |-> "none", clear |-> FALSE,
         report |-> NoReport]

TypeOK ==
  /\ stub \in [Stubs -> Row]
  /\ task \in [Tasks -> {"none", "PENDING", "RUNNING", "DONE"}]
  /\ status \in [Repos -> {"PENDING", "SUCCEEDED", "DEGRADED", "REQUIRES_HUMAN_INTERVENTION"}]
  /\ report \in [Repos -> Report]
  /\ pr \in [Repos -> PrState]
  /\ forge \in [Repos -> {"none", "DRAFT", "OPEN", "MERGED", "CLOSED"}]
  /\ named \in [Consumers -> SUBSET Stubs]
  /\ proc \in [Procs -> Local]
  /\ faults \in Nat

\* After `fleet transform --stub-blocked` and `fleet build`: a row per trigger, the
\* consumer's BUILD file names its stubs, VERIFY has not run.
Init ==
  /\ stub = [s \in Stubs |-> [state |-> "ACTIVE", linked |-> FALSE, reason |-> "none"]]
  /\ task = [t \in Tasks |-> "none"]
  /\ status = [r \in Repos |-> IF r \in Consumers THEN "PENDING"
                                                  ELSE "REQUIRES_HUMAN_INTERVENTION"]
  /\ report = [r \in Repos |-> NoReport]
  /\ pr = [r \in Repos |-> "none"]
  /\ forge = [r \in Repos |-> "none"]
  /\ named = [c \in Consumers |-> Of(c)]
  /\ proc = [p \in Procs |-> Idle]
  /\ faults = 0

\* A command starts with the locals l.
Begin(p, l) ==
  /\ proc[p] = Idle /\ l.cmd \in Commands
  /\ proc' = [proc EXCEPT ![p] = l] /\ UNCHANGED faults

\* The command goes on with the locals l.
Goto(p, l) == proc' = [proc EXCEPT ![p] = l] /\ UNCHANGED faults

\* Where a sync that has nothing left to do continues.
AfterSync(l) == IF l.cmd = "resume" THEN [l EXCEPT !.pc = "reconcile", !.polled = {}] ELSE Idle
-----------------------------------------------------------------------------
(* The outside world: a human repairs a provider, a forge closes or merges. *)

FixProvider(r) ==
  /\ status[r] = "REQUIRES_HUMAN_INTERVENTION"
  /\ status' = [status EXCEPT ![r] = "SUCCEEDED"]
  /\ report' = [report EXCEPT ![r].pass = TRUE]
  /\ UNCHANGED <<stub, task, pulls, named, proc, faults>>

\* Forges refuse to merge a draft.
ForgeDecides(r) ==
  /\ \/ forge[r] = "OPEN" /\ forge' = [forge EXCEPT ![r] = "MERGED"]
     \/ forge[r] \in {"DRAFT", "OPEN"} /\ forge' = [forge EXCEPT ![r] = "CLOSED"]
  /\ UNCHANGED <<tables, pr, named, proc, faults>>

Crash(p) ==
  /\ proc[p] # Idle /\ faults < MaxFaults
  /\ proc' = [proc EXCEPT ![p] = Idle]
  /\ faults' = faults + 1
  /\ UNCHANGED <<tables, pulls, named>>

-----------------------------------------------------------------------------
(* fleet verify, for one consumer.  Retries and leases are PhaseRunner's. *)

Verify(p, c) ==
  /\ status[c] = "PENDING"
  /\ Begin(p, [Idle EXCEPT !.pc = "verifying", !.cmd = "verify", !.repo = {c},
                           !.rows = (Active \cap Of(c)) \X {"ACTIVE"}])
  /\ UNCHANGED <<tables, pulls, named>>

\* The runner's own transaction: the verdict, and the report of what it was against.
VerifyDone(p) == \E c \in proc[p].repo :
  /\ proc[p].pc = "verifying"
  /\ IF status[c] = "PENDING"
     THEN /\ status' = [status EXCEPT ![c] = "SUCCEEDED"]
          /\ report' = [report EXCEPT ![c] = [pass |-> TRUE, limited |-> proc[p].rows # {}]]
     ELSE UNCHANGED <<status, report>>
  /\ Goto(p, [proc[p] EXCEPT !.pc = "degrade", !.rows = {}])
  /\ UNCHANGED <<stub, task, pulls, named>>

\* stub_degrade_transform: a second transaction, once the wave is done.
Degrade(p) == \E c \in proc[p].repo :
  /\ proc[p].pc = "degrade"
  /\ status' = IF status[c] = "SUCCEEDED" /\ Active \cap Of(c) # {}
               THEN [status EXCEPT ![c] = "DEGRADED"] ELSE status
  /\ Goto(p, Idle)
  /\ UNCHANGED <<stub, task, report, pulls, named>>

-----------------------------------------------------------------------------
(* fleet pr --sync, alone or as the first part of fleet resume --repoll-prs. *)

\* Mutant: only what this poll finds merged counts.
MergedBefore_Nothing == {}

\* The records the second loop goes through.
MergedBefore == {r \in Repos : pr[r] = "MERGED"}

SyncPoll(p, cmd) ==
  /\ cmd \in {"sync", "resume"}
  /\ LET changed == {r \in Repos : pr[r] \in NonTerminal /\ Observed(r) # pr[r]}
     IN  Begin(p, [Idle EXCEPT !.pc = "sync", !.cmd = cmd,
                               !.polled = {<<r, Observed(r)>> : r \in changed},
                               !.again = MergedBefore])
  /\ UNCHANGED <<tables, pulls, named>>

\* The record takes the polled state, whatever it has become since it was read.
SyncWrite(p) == \E w \in proc[p].polled :
  /\ proc[p].pc = "sync"
  /\ pr' = [pr EXCEPT ![w[1]] = w[2]]
  /\ LET rest == [proc[p] EXCEPT !.polled = @ \ {w}]
     IN  Goto(p, IF w[2] = "MERGED" THEN [rest EXCEPT !.pc = "fire", !.repo = {w[1]}] ELSE rest)
  /\ UNCHANGED <<tables, forge, named>>

\* The second loop: a merge recorded by an earlier command that then died.
SyncAgain(p) == \E r \in proc[p].again :
  /\ proc[p].pc = "sync" /\ proc[p].polled = {}
  /\ Goto(p, [proc[p] EXCEPT !.pc = "fire", !.repo = {r}, !.again = @ \ {r}])
  /\ UNCHANGED <<tables, pulls, named>>

\* fleet stubs resolve: refused unless the record says MERGED.
Resolve(p, r) ==
  /\ pr[r] = "MERGED"
  /\ Begin(p, [Idle EXCEPT !.pc = "fire", !.cmd = "resolve", !.repo = {r}])
  /\ UNCHANGED <<tables, pulls, named>>

\* _fire_t1_for_provider: the rows, the provider's facts and the decisions.
T1Read(p) == \E r \in proc[p].repo :
  /\ proc[p].pc = "fire"
  /\ LET hit == IF Merged(r, "MERGED") /\ (Manual => proc[p].cmd = "resolve")
                THEN {s \in Active : ProviderOf[s] = r} ELSE {}
     IN  Goto(p, [proc[p] EXCEPT !.pc = IF hit = {} THEN "sync" ELSE "supersede",
                                 !.repo = {}, !.rows = hit \X {"ACTIVE"}])
  /\ UNCHANGED <<tables, pulls, named>>

Read(p) == {w[1] : w \in proc[p].rows}

\* Mutant: the UPDATE without its `AND state = ?`.
Unmoved_AnyState(p) == Read(p)

\* Rows that are still what the process read: the compare-and-set of
\* _apply_stub_decisions, which skips the others.
Unmoved(p) == {s \in Stubs : <<s, stub[s].state>> \in proc[p].rows}

\* Mutant: the task is enqueued and no row points to it.
Linkable_Nothing(p) == {}

\* Rows of the plan that are SUPERSEDED after the update, whoever did it.
Linkable(p) == {s \in Read(p) : s \in Unmoved(p) \/ stub[s].state = "SUPERSEDED"}

\* One transaction: supersede, upsert the task (an existing one keeps its status),
\* link the rows that are SUPERSEDED now.
T1Write(p) ==
  /\ proc[p].pc = "supersede"
  /\ stub' = [s \in Stubs |->
       [stub[s] EXCEPT !.state = IF s \in Unmoved(p) THEN "SUPERSEDED" ELSE @,
                       !.linked = @ \/ s \in Linkable(p)]]
  /\ task' = [t \in Tasks |-> IF task[t] = "none" /\ \E s \in Read(p) : Key(s) = t
                              THEN "PENDING" ELSE task[t]]
  /\ Goto(p, [proc[p] EXCEPT !.pc = "sync", !.rows = {}, !.fired = @ \cup Read(p)])
  /\ UNCHANGED <<status, report, pulls, named>>

\* The consumers superseded by this command, and the ACTIVE rows their labels keep.
SyncEnd(p) ==
  /\ proc[p].pc = "sync" /\ proc[p].polled = {} /\ proc[p].again = {}
  /\ Goto(p, IF proc[p].fired = {} THEN AfterSync(proc[p])
             ELSE [proc[p] EXCEPT !.pc = "rewrite", !.rows = Active \X {"ACTIVE"},
                                  !.todo = {ConsumerOf[s] : s \in proc[p].fired}])
  /\ UNCHANGED <<tables, pulls, named>>

\* _rewrite_one_consumer_label: commits the new labels, or fails and is only reported.
Rewrite(p) == \E c \in proc[p].todo :
  /\ proc[p].pc = "rewrite"
  /\ \/ named' = [named EXCEPT ![c] = Read(p) \cap Of(c)]
     \/ UNCHANGED named
  /\ LET rest == [proc[p] EXCEPT !.todo = @ \ {c}]
     IN  Goto(p, IF rest.todo = {} THEN AfterSync([rest EXCEPT !.rows = {}]) ELSE rest)
  /\ UNCHANGED <<tables, pulls>>

-----------------------------------------------------------------------------
(* fleet resume: reconcile, then the queued rounds. *)

\* Without --repoll-prs, or after a forge error.
Resume(p) ==
  /\ Begin(p, [Idle EXCEPT !.pc = "reconcile", !.cmd = "resume"])
  /\ UNCHANGED <<tables, pulls, named>>

\* A row whose round is queued or running.
Awaiting == {s \in Stubs : /\ stub[s].state = "SUPERSEDED" /\ stub[s].linked
                           /\ task[Key(s)] # "DONE"}

\* Mutant: a row is given up although its round is queued.
GivenUp_Queued(p, waiting) ==
  {s \in Open \ proc[p].fired : ProviderOf[s] \notin waiting}

\* The open rows the sweep abandons: not those superseded by this command or awaiting
\* their round, nor those whose provider's merge is being waited for.
GivenUp(p, waiting) ==
  {s \in Open \ (Awaiting \cup proc[p].fired) : ProviderOf[s] \notin waiting}

\* stub_reconcile waits for a provider whose pull request is open and no older than
\* pr.merge_wait_timeout_s; the rows of the others are given up.
ReconcileRead(p) == \E waiting \in SUBSET {r \in Providers : pr[r] \in {"DRAFTED", "OPEN"}} :
  /\ proc[p].pc = "reconcile"
  /\ Goto(p, [proc[p] EXCEPT !.pc = "abandon",
                              !.rows = {<<s, stub[s].state>> : s \in GivenUp(p, waiting)}])
  /\ UNCHANGED <<tables, pulls, named>>

\* One transaction: abandon what has not moved, hold the consumers' records.
ReconcileWrite(p) ==
  /\ proc[p].pc = "abandon"
  /\ stub' = [s \in Stubs |-> IF s \in Unmoved(p)
                THEN [stub[s] EXCEPT !.state = "ABANDONED", !.reason = "END_OF_RUN"] ELSE stub[s]]
  /\ pr' = [r \in Repos |-> IF pr[r] # "none" /\ \E s \in Unmoved(p) : ConsumerOf[s] = r
                            THEN "HELD" ELSE pr[r]]
  /\ Goto(p, [proc[p] EXCEPT !.pc = "plan", !.rows = {}, !.fired = {}])
  /\ UNCHANGED <<task, status, report, forge, named>>

\* The arbitration in between leaves REVALIDATE rows alone: they carry no
\* pre_commit_sha to reset to, and are reported unresolved.
PlanClaims(p) ==
  /\ proc[p].pc = "plan"
  /\ Goto(p, [proc[p] EXCEPT !.pc = "claims", !.tasks = {t \in Tasks : task[t] = "PENDING"}])
  /\ UNCHANGED <<tables, pulls, named>>

ClaimsEnd(p) ==
  /\ proc[p].pc = "claims" /\ proc[p].tasks = {}
  /\ Goto(p, Idle)
  /\ UNCHANGED <<tables, pulls, named>>

\* Mutant: a task that was claimed before is taken over.
Claimable_Taken(t) == task[t] # "DONE"

Claimable(t) == task[t] = "PENDING"

\* claim_task_by_id: a compare-and-set on PENDING; a lost race goes to the next task.
Claim(p) == \E t \in proc[p].tasks :
  /\ proc[p].pc = "claims"
  /\ LET rest == [proc[p] EXCEPT !.tasks = @ \ {t}]
     IN  IF Claimable(t)
         THEN /\ task' = [task EXCEPT ![t] = "RUNNING"]
              /\ Goto(p, [rest EXCEPT !.pc = "gate", !.task = {t}])
         ELSE Goto(p, rest) /\ UNCHANGED task
  /\ UNCHANGED <<stub, status, report, pulls, named>>

\* The task gives its claim back, or ends.
Release(p, to) ==
  /\ task' = [t \in Tasks |-> IF t \in proc[p].task /\ task[t] = "RUNNING" THEN to ELSE task[t]]
  /\ Goto(p, [proc[p] EXCEPT !.pc = "claims", !.task = {}, !.rows = {}, !.act = "none",
                             !.clear = FALSE, !.report = NoReport])

\* The worktree cannot be cut, or its BUILD file still names a stub: refused.
Gate(p) == \E t \in proc[p].task :
  /\ proc[p].pc = "gate"
  /\ \/ Release(p, "PENDING")
     \/ /\ named[t[1]] = {}
        /\ Goto(p, [proc[p] EXCEPT !.pc = "round", !.rows = (Active \cap Of(t[1])) \X {"ACTIVE"}])
        /\ UNCHANGED task
  /\ UNCHANGED <<stub, status, report, pulls, named>>

\* settle_revalidation, the same for every row of the task: a breach of the budget,
\* then divergence (the report before this round was against stubs and the branch
\* holds nothing but build commits), then a pass against the real thing, then the
\* number of rounds.
Decision(c, outcome, moved, against) ==
  IF outcome = "breach" THEN "BUDGET_EXHAUSTED"
  ELSE IF outcome = "FAIL" /\ report[c].limited /\ ~moved THEN "STUB_DIVERGED"
  ELSE IF outcome = "PASS" /\ against = {} THEN "T2"
  ELSE IF MaxRounds <= 1 THEN "ROUNDS_EXHAUSTED"
  ELSE "none"

\* The rows a task settles.
RowsOf(t) == {s \in Stubs : Key(s) = t /\ stub[s].linked /\ stub[s].state = "SUPERSEDED"}

\* Mutant: a pass promotes, whatever the siblings are.
AllClear_Any(c, rows) == rows # {}

\* Some row's siblings are all RESOLVED: that row's T2 promotes the consumer.
AllClear(c, rows) == \E s \in rows : \A o \in Of(c) \ {s} : stub[o].state = "RESOLVED"

\* The round ends; its rows and their siblings are read and the decisions made.
Settle(p) == \E t \in proc[p].task, outcome \in {"PASS", "FAIL", "breach"}, moved \in BOOLEAN :
  /\ proc[p].pc = "round"
  /\ LET against == proc[p].rows
         act == Decision(t[1], outcome, moved, against)
     IN  \/ RowsOf(t) = {} /\ Release(p, "DONE")
         \/ /\ RowsOf(t) # {} /\ outcome = "FAIL" /\ report[t[1]].limited
            /\ Release(p, "PENDING")           \* git cannot list the branch's commits
         \/ /\ RowsOf(t) # {}
            /\ Goto(p, [proc[p] EXCEPT
                 !.pc = IF act = "none" THEN "record" ELSE "apply",
                 !.rows = RowsOf(t) \X {"SUPERSEDED"}, !.act = act,
                 !.clear = act = "T2" /\ AllClear(t[1], RowsOf(t)),
                 !.report = [pass |-> outcome = "PASS", limited |-> against # {}]])
            /\ UNCHANGED task
  /\ UNCHANGED <<stub, status, report, pulls, named>>

\* A row after T2 or T3; the reason is set iff it is ABANDONED.
Settled(row, act) ==
  IF act = "T2" THEN [row EXCEPT !.state = "RESOLVED"]
  ELSE [row EXCEPT !.state = "ABANDONED", !.reason = act]

Apply(p) ==
  /\ proc[p].pc = "apply"
  /\ stub' = [s \in Stubs |-> IF s \in Unmoved(p) THEN Settled(stub[s], proc[p].act)
                                                   ELSE stub[s]]
  /\ Goto(p, [proc[p] EXCEPT !.pc = "promote"])
  /\ UNCHANGED <<task, status, report, pulls, named>>

\* apply_stub_consumer_status: from DEGRADED only, for every decision that was made,
\* whether or not its row was still there to be written.
Promote(p) == \E t \in proc[p].task :
  /\ proc[p].pc = "promote"
  /\ status' = IF status[t[1]] # "DEGRADED" THEN status
               ELSE IF proc[p].clear THEN [status EXCEPT ![t[1]] = "SUCCEEDED"]
               ELSE IF proc[p].act = "STUB_DIVERGED"
                    THEN [status EXCEPT ![t[1]] = "REQUIRES_HUMAN_INTERVENTION"]
               ELSE status
  /\ Goto(p, [proc[p] EXCEPT !.pc = "record"])
  /\ UNCHANGED <<stub, task, report, pulls, named>>

Record(p) == \E t \in proc[p].task :
  /\ proc[p].pc = "record"
  /\ report' = [report EXCEPT ![t[1]] = proc[p].report]
  /\ Goto(p, [proc[p] EXCEPT !.pc = "done"])
  /\ UNCHANGED <<stub, task, status, pulls, named>>

MarkDone(p) ==
  /\ proc[p].pc = "done"
  /\ Release(p, "DONE")
  /\ UNCHANGED <<stub, status, report, pulls, named>>

-----------------------------------------------------------------------------
(* fleet stubs abandon: one UPDATE of an open row, whoever else is at work. *)

Abandon(s) ==
  /\ "abandon" \in Commands
  /\ stub[s].state \in OpenState
  /\ stub' = [stub EXCEPT ![s].state = "ABANDONED", ![s].reason = "OPERATOR"]
  /\ UNCHANGED <<task, status, report, pulls, named, proc, faults>>

-----------------------------------------------------------------------------
(* fleet pr, for one repo. *)

Dependencies(r) == {ProviderOf[s] : s \in Of(r)}

\* A new pull request once the dependencies' are MERGED, a draft if anything about it
\* is provisional; a HELD one is promoted when none of the consumer's rows is open.
PrPlan(p, r) ==
  /\ status[r] \in {"SUCCEEDED", "DEGRADED"}
  /\ LET provisional == status[r] = "DEGRADED" \/ Open \cap Of(r) # {} \/ report[r].limited
         start(act) == Begin(p, [Idle EXCEPT !.pc = "forge", !.cmd = "pr", !.repo = {r},
                                             !.act = act])
     IN  \/ /\ pr[r] = "none" /\ report[r].pass
            /\ \A d \in Dependencies(r) : pr[d] = "MERGED"
            /\ start(IF provisional THEN "draft" ELSE "open")
         \/ /\ pr[r] = "HELD" /\ Open \cap Of(r) = {}
            /\ start("ready")
  /\ UNCHANGED <<tables, pulls, named>>

\* The forge is asked for the dependencies once more; it refuses a second pull request
\* of the same branch.
PrCreate(p) == \E r \in proc[p].repo :
  /\ proc[p].pc = "forge" /\ proc[p].act \in {"draft", "open"}
  /\ forge[r] = "none" /\ \A d \in Dependencies(r) : forge[d] = "MERGED"
  /\ forge' = [forge EXCEPT ![r] = IF proc[p].act = "draft" THEN "DRAFT" ELSE "OPEN"]
  /\ Goto(p, [proc[p] EXCEPT !.pc = "write"])
  /\ UNCHANGED <<tables, pr, named>>

\* Rebase, new body, push, mark ready.
PrReady(p) == \E r \in proc[p].repo :
  /\ proc[p].pc = "forge" /\ proc[p].act = "ready"
  /\ forge[r] \in {"DRAFT", "OPEN"}
  /\ forge' = [forge EXCEPT ![r] = "OPEN"]
  /\ Goto(p, [proc[p] EXCEPT !.pc = "write"])
  /\ UNCHANGED <<tables, pr, named>>

\* Any call to git or the forge may fail; the failure is reported and nothing written.
PrFailed(p) ==
  /\ proc[p].pc = "forge"
  /\ Goto(p, Idle)
  /\ UNCHANGED <<tables, pulls, named>>

PrWrite(p) == \E r \in proc[p].repo :
  /\ proc[p].pc = "write"
  /\ pr' = [pr EXCEPT ![r] = IF proc[p].act = "draft" THEN "DRAFTED" ELSE "OPEN"]
  /\ Goto(p, Idle)
  /\ UNCHANGED <<tables, forge, named>>

-----------------------------------------------------------------------------

PrStep(p) == PrCreate(p) \/ PrReady(p) \/ PrFailed(p) \/ PrWrite(p)
SyncStep(p) == SyncWrite(p) \/ SyncAgain(p) \/ T1Read(p) \/ T1Write(p) \/ SyncEnd(p) \/ Rewrite(p)
ResumeStep(p) == ReconcileRead(p) \/ ReconcileWrite(p) \/ PlanClaims(p) \/ ClaimsEnd(p)
RoundStep(p) == \/ Claim(p) \/ Gate(p) \/ Settle(p) \/ Apply(p) \/ Promote(p) \/ Record(p)
                \/ MarkDone(p)

Next ==
  \/ \E r \in Providers : FixProvider(r)
  \/ \E r \in Repos : ForgeDecides(r)
  \/ \E s \in Stubs : Abandon(s)
  \/ \E p \in Procs :
       \/ Crash(p)
       \/ \E c \in Consumers : Verify(p, c)
       \/ VerifyDone(p) \/ Degrade(p)
       \/ \E cmd \in Commands : SyncPoll(p, cmd)
       \/ \E r \in Providers : Resolve(p, r)
       \/ Resume(p)
       \/ SyncStep(p) \/ ResumeStep(p) \/ RoundStep(p)
       \/ \E r \in Repos : PrPlan(p, r)
       \/ PrStep(p)

Spec == Init /\ [][Next]_vars

\* A command that is running goes on, and `fleet pr --sync` is run again and again
\* (pr.poll_interval_s); nobody has to resume, resolve or abandon.
Step(p) == \/ VerifyDone(p) \/ Degrade(p) \/ SyncStep(p) \/ ResumeStep(p) \/ RoundStep(p)
           \/ PrStep(p)
Fairness == \A p \in Procs : WF_vars(Step(p)) /\ SF_vars(SyncPoll(p, "sync"))
FairSpec == Spec /\ Fairness

-----------------------------------------------------------------------------

\* A row that is RESOLVED or ABANDONED keeps its state, its reason and its link,
\* whatever other commands had read of it before (SPEC 3.5.1: no path out of either).
TerminalIsFinal ==
  [][\A s \in Stubs : stub[s].state \notin OpenState => stub'[s] = stub[s]]_vars

\* A row leaves ACTIVE for a round only when the provider really is merged, and its
\* round is in the queue from that moment on.
SupersededIsQueued ==
  \A s \in Stubs : stub[s].state \in {"SUPERSEDED", "RESOLVED"} =>
    /\ stub[s].linked /\ task[Key(s)] # "none"
    /\ forge[ProviderOf[s]] = "MERGED"

\* One command at a time works on a task, and its claim stands while it does.
OneRoundPerTask ==
  \A p \in Procs : \A t \in proc[p].task :
    task[t] = "RUNNING" /\ \A q \in Procs \ {p} : t \notin proc[q].task

\* The end-of-run sweep never takes a row whose round is queued or running.
AwaitingIsSpared ==
  [][\A s \in Stubs : s \in Awaiting => stub'[s].reason # "END_OF_RUN"]_vars

\* A consumer leaves DEGRADED for SUCCEEDED only with no row open any more: neither
\* a sweep, an operator nor a stale sibling state promotes it over an open stub.
PromotedWhenClosed ==
  [][\A c \in Consumers : status[c] = "DEGRADED" /\ status'[c] = "SUCCEEDED" =>
       Open \cap Of(c) = {}]_vars

\* A merge the harness knows the pull request of reaches every row of the provider,
\* even when the command that recorded it died before it superseded them.
MergeIsTaken ==
  \A r \in Providers :
    (forge[r] = "MERGED" /\ pr[r] # "none") ~> (\A s \in Active : ProviderOf[s] # r)

\* SPEC 5: a repo is DEGRADED exactly while it stands on a stub; with no command at
\* work, a consumer whose rows are all RESOLVED is not DEGRADED.
DegradedMeansStubbed ==
  (\A p \in Procs : proc[p] = Idle) =>
    \A c \in Consumers : status[c] = "DEGRADED" => \E s \in Of(c) : stub[s].state # "RESOLVED"

\* PrState.HELD: the pull request of a consumer whose stubs did not resolve is still a
\* draft on the forge and is never promoted by this run.
HeldStaysDraft ==
  \A c \in Consumers : status[c] = "DEGRADED" => forge[c] # "OPEN"
=============================================================================
