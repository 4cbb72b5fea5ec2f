--------------------------- MODULE HoistRollback ---------------------------
(***************************************************************************)
(* The rollback of a hoisted contract that broke a build.                  *)
(*                                                                         *)
(* A build that fails under a contract's hoisted path marks the contract   *)
(* FAILED and leaves a HoistBrokeOwner finding.  At the end of its wave    *)
(* loop every `fleet build` goes through all those findings: it demotes    *)
(* the repos with an edge to the contract back to TRANSFORM and reverts,   *)
(* newest first, the contract's merge and the pull requests of those       *)
(* repos: tried in a scratch worktree, then committed one by one under the *)
(* integration mutex.                                                      *)
(*                                                                         *)
(* The integration branch is the sequence of its merges and reverts; a     *)
(* commit's name is its place in it, and of two merges the later one is    *)
(* the newer.  A revert records the merge its message names and the merges *)
(* whose changes were staged when it was made.  Phases 2 to 4 are one row  *)
(* each; SCAN stays what it is.                                            *)
(*                                                                         *)
(* Everything under src/ that moves the branch holds the mutex, and nothing*)
(* there fetches it.  How the merge of a pull request gets from the forge  *)
(* into the monorepo is outside; it is assumed to hold the mutex as well.  *)
(***************************************************************************)
EXTENDS Integers, Sequences, SequencesExt, FiniteSets, FiniteSetsExt

CONSTANTS Contracts,    \* hoisted contracts, in the order of their ids
          Repos,
          Owner,        \* contracts.owning_repo_id
          Consumers,    \* repos with a CONTRACT_CONSUME edge
          Downstream,   \* descendants of a repo in G_order
          Stubbed,      \* repos that may stand on a live stub
          Verified,     \* bound: repos `fleet verify` gets to
          Builds,       \* `fleet build` commands that may overlap
          MaxFaults     \* bound: crashes, git failures, revert conflicts, stub degradations

Nobody == "nobody"

ASSUME RollbackAssumption ==
  /\ Contracts \subseteq Nat /\ MaxFaults \in Nat
  /\ Owner \in [Contracts -> Repos] /\ Consumers \in [Contracts -> SUBSET Repos]
  /\ Downstream \in [Repos -> SUBSET Repos] 
  /\ Stubbed \subseteq Repos /\ Verified \subseteq Repos
  /\ Nobody \notin Builds

VARIABLES
  status,    \* contracts.status
  broke,     \* contracts with a HoistBrokeOwner finding
  row,       \* table phases: TRANSFORM, BUILD and VERIFY of each repo
  uses,      \* contracts whose hoisted path the transformed repo refers to
  draft,     \* the merge of the repo's pull request, 0 while it is not MERGED
  branch,    \* the integration branch
  index,     \* reverts staged in the shared worktree
  mutex,     \* IntegrationMutex
  cmd,       \* the `fleet build` commands
  faults

db   == <<status, broke, row, uses, draft>>
git  == <<branch, index>>
vars == <<db, git, mutex, cmd, faults>>

-----------------------------------------------------------------------------
(* State *)

TRANSFORM == 1
BUILD     == 2
VERIFY    == 3
Phase     == TRANSFORM..VERIFY

Standing == {"SUCCEEDED", "DEGRADED"}   \* what lets the next phase start

Commit == [op : {"hoist"}, of : Contracts] \cup [op : {"merge"}, of : Repos]
          \cup [op : {"revert"}, of : Nat, contract : Contracts, undoes : SUBSET Nat]

Idle == [pc |-> "idle", todo |-> {}, contract |-> 0, repos |-> {}, seen |-> <<>>,
         left |-> <<>>, tip |-> 0]

TypeOK ==
  /\ status \in [Contracts -> {"HOISTED", "FAILED"}]
  /\ broke \subseteq Contracts
  /\ row \in [Repos -> [Phase -> Standing \cup {"PENDING", "RUNNING", "RHI"}]]
  /\ uses \in [Repos -> SUBSET Contracts]
  /\ draft \in [Repos -> 0..Len(branch)]
  /\ branch \in Seq(Commit) /\ index \subseteq 1..Len(branch)
  /\ mutex \in Builds \cup {Nobody}
  /\ \A b \in Builds : cmd[b].todo \subseteq Contracts
  /\ faults \in 0..MaxFaults

\* The repos no contract touches have been built.
Bystanders == Repos \ UNION {{Owner[c]} \cup Consumers[c] : c \in Contracts}

Init ==
  /\ status = [c \in Contracts |-> "HOISTED"] /\ broke = {}
  /\ row = [r \in Repos |-> [p \in Phase |-> IF r \in Bystanders THEN "SUCCEEDED"
                                            ELSE "PENDING"]]
  /\ uses = [r \in Repos |-> {}] /\ draft = [r \in Repos |-> 0]
  /\ branch = <<>> /\ index = {} /\ mutex = Nobody
  /\ cmd = [b \in Builds |-> Idle] /\ faults = 0

At(b, pc)     == cmd[b].pc = pc
Goto(b, pc)   == cmd' = [cmd EXCEPT ![b].pc = pc]
Fault         == faults < MaxFaults /\ faults' = faults + 1
Touching(c)   == {Owner[c]} \cup Consumers[c]

\* The merges a revert in history has taken back.
Undone        == UNION {branch[i].undoes : i \in {j \in DOMAIN branch : branch[j].op = "revert"}}

-----------------------------------------------------------------------------
(* What the rest of the fleet does meanwhile *)

\* `fleet transform`: the plan reads the hoisted contracts, the commits come later.
StartTransform(r) ==
  /\ row[r][TRANSFORM] = "PENDING"
  /\ row' = [row EXCEPT ![r][TRANSFORM] = "RUNNING"]
  /\ uses' = [uses EXCEPT ![r] = {c \in Contracts : r \in Touching(c) /\ status[c] = "HOISTED"}]
  /\ UNCHANGED <<status, broke, draft, git, mutex, cmd, faults>>

FinishTransform(r) ==
  /\ row[r][TRANSFORM] = "RUNNING"
  /\ row' = [row EXCEPT ![r][TRANSFORM] = "SUCCEEDED"]
  /\ UNCHANGED <<status, broke, uses, draft, git, mutex, cmd, faults>>

\* _gated_members: VERIFY follows a BUILD that stands.
Verify(r) ==
  /\ r \in Verified
  /\ row[r][BUILD] \in Standing /\ row[r][VERIFY] = "PENDING"
  /\ \E s \in {"SUCCEEDED", "RHI"} : row' = [row EXCEPT ![r][VERIFY] = s]
  /\ UNCHANGED <<status, broke, uses, draft, git, mutex, cmd, faults>>

\* stub_degrade_transform, after a wave with this repo, while a stub of it is active.
StubDegrade(r, p) ==
  /\ r \in Stubbed /\ row[r][p] = "SUCCEEDED" /\ Fault
  /\ row' = [row EXCEPT ![r][p] = "DEGRADED"]
  /\ UNCHANGED <<status, broke, uses, draft, git, mutex, cmd>>

\* apply_stub_consumer_status: VERIFY is judged again when the stub is settled.
StubVerdict(r) ==
  /\ row[r][VERIFY] = "DEGRADED"
  /\ \E s \in {"SUCCEEDED", "RHI"} : row' = [row EXCEPT ![r][VERIFY] = s]
  /\ UNCHANGED <<status, broke, uses, draft, git, mutex, cmd, faults>>

\* A reviewer merges the pull request of a verified repo and `fleet pr --sync` records
\* it.  (The mutex: see the head of the module.)
Merge(r) ==
  /\ draft[r] = 0 /\ row[r][VERIFY] = "SUCCEEDED"
  /\ mutex = Nobody
  /\ branch' = Append(branch, [op |-> "merge", of |-> r])
  /\ draft' = [draft EXCEPT ![r] = Len(branch')]
  /\ UNCHANGED <<status, broke, row, uses, index, mutex, cmd, faults>>

\* `fleet retry` reopens a phase that gave up.
Retry(r, p) ==
  /\ row[r][p] = "RHI"
  /\ row' = [row EXCEPT ![r][p] = "PENDING"]
  /\ UNCHANGED <<status, broke, uses, draft, git, mutex, cmd, faults>>

-----------------------------------------------------------------------------
(* The wave loop *)

Start(b) == At(b, "idle") /\ Goto(b, "waves") /\ UNCHANGED <<db, git, mutex, faults>>

\* A contract's files are merged when a build finds it HOISTED and not yet merged.
IngestContract(b, c) ==
  /\ At(b, "waves") /\ status[c] = "HOISTED"
  /\ mutex = Nobody /\ index = {}
  /\ \A i \in DOMAIN branch : branch[i] # [op |-> "hoist", of |-> c]
  /\ branch' = Append(branch, [op |-> "hoist", of |-> c])
  /\ UNCHANGED <<db, index, mutex, cmd, faults>>

\* The worker is green.  What it publishes is in no series, and Publish has the merge of
\* it; here the pull requests are what moves the tip.
BuildSucceeds(b, r) ==
  /\ At(b, "waves") /\ row[r][TRANSFORM] \in Standing /\ row[r][BUILD] = "PENDING"
  /\ mutex = Nobody /\ index = {}
  /\ row' = [row EXCEPT ![r][BUILD] = "SUCCEEDED"]
  /\ UNCHANGED <<status, broke, uses, draft, git, mutex, cmd, faults>>

\* _attribute_hoist_break: a build error under the path of a watched contract is not
\* retryable.  _BuildSink marks the contract FAILED in one transaction ...
BuildBreaks(b, r, c) ==
  /\ At(b, "waves") /\ row[r][TRANSFORM] \in Standing /\ row[r][BUILD] = "PENDING"
  /\ c \in uses[r] /\ status[c] = "HOISTED"
  /\ row' = [row EXCEPT ![r][BUILD] = "RHI"]
  /\ status' = [status EXCEPT ![c] = "FAILED"]
  /\ cmd' = [cmd EXCEPT ![b].pc = "finding", ![b].contract = c]
  /\ UNCHANGED <<broke, uses, draft, git, mutex, faults>>

\* ... and writes the finding in the next one.
NoteBroke(b) ==
  /\ At(b, "finding")
  /\ broke' = broke \cup {cmd[b].contract}
  /\ Goto(b, "waves")
  /\ UNCHANGED <<status, row, uses, draft, git, mutex, faults>>

\* The wave loop ends, also with an exit code; an exception in it skips the rollbacks.
EndWaves(b) ==
  /\ At(b, "waves")
  /\ cmd' = [cmd EXCEPT ![b].pc = "next", ![b].todo = broke]
  /\ UNCHANGED <<db, git, mutex, faults>>

WavesRaise(b) ==
  /\ At(b, "waves") /\ Fault
  /\ cmd' = [cmd EXCEPT ![b] = Idle]
  /\ UNCHANGED <<db, git, mutex>>
-----------------------------------------------------------------------------
(* unhoist_contract *)

\* _reconcile_hoist_rollbacks takes the contracts one at a time, by id.
NextContract(b) ==
  /\ At(b, "next")
  /\ LET m == cmd[b]
         c == Min(m.todo)
     IN  cmd' = [cmd EXCEPT ![b] = IF m.todo = {} THEN Idle
                   ELSE [m EXCEPT !.pc = "unhoist", !.contract = c, !.todo = @ \ {c}]]
  /\ UNCHANGED <<db, git, mutex, faults>>

\* Merged repos that depend on a merged repo of the blast set and are not in it.
Blocking(c) ==
  {d \in Repos \ Touching(c) :
     draft[d] # 0 /\ \E r \in Touching(c) : draft[r] # 0 /\ d \in Downstream[r]}

\* REFUSED is a finding and nothing else.
Refuse(b) ==
  /\ At(b, "unhoist") /\ Blocking(cmd[b].contract) # {}
  /\ Goto(b, "next")
  /\ UNCHANGED <<db, git, mutex, faults>>

\* fail_contract_unit: the status and the blast set in one transaction.
FailContract(b) ==
  /\ At(b, "unhoist") /\ Blocking(cmd[b].contract) = {}
  /\ status' = [status EXCEPT ![cmd[b].contract] = "FAILED"]
  /\ cmd' = [cmd EXCEPT ![b].pc = "demote", ![b].repos = Touching(cmd[b].contract)]
  /\ UNCHANGED <<broke, row, uses, draft, git, mutex, faults>>

\* _repo_phase_statuses, before the write that is to match it.
Observe(b, r) ==
  /\ At(b, "demote") /\ r \in cmd[b].repos /\ cmd[b].seen = <<>>
  /\ cmd' = [cmd EXCEPT ![b].seen = <<r, row[r]>>]
  /\ UNCHANGED <<db, git, mutex, faults>>

\* Mutant: the phases above the floor stay settled.
Demotable_FloorOnly(r, seen) ==
  IF row[r] # seen \/ \E p \in Phase : row[r][p] = "RHI" THEN {}
  ELSE {p \in {TRANSFORM} : row[r][p] = "SUCCEEDED"}

\* demote_to_floor at TRANSFORM: nothing for a repo that needs a human in any phase or
\* whose rows moved since they were read (unhoist_contract reports both as unresolved),
\* and of the others what SUCCEEDED: a DEGRADED row is nobody's to demote.
Demotable(r, seen) ==
  IF row[r] # seen \/ \E p \in Phase : row[r][p] = "RHI" THEN {}
  ELSE {p \in Phase : row[r][p] = "SUCCEEDED"}

Demote(b) ==
  /\ At(b, "demote") /\ cmd[b].seen # <<>>
  /\ LET r == cmd[b].seen[1]
         d == Demotable(r, cmd[b].seen[2])
     IN  /\ row' = [row EXCEPT ![r] = [p \in Phase |-> IF p \in d THEN "PENDING" ELSE @[p]]]
         /\ cmd' = [cmd EXCEPT ![b].seen = <<>>, ![b].repos = @ \ {r}]
  /\ UNCHANGED <<status, broke, uses, draft, git, mutex, faults>>

-----------------------------------------------------------------------------
(* execute_hoist_rollback *)

\* find_contract_hoist_merge: the newest merge whose trailer names the contract.
HoistMerge(c) == {i \in DOMAIN branch : branch[i] = [op |-> "hoist", of |-> c]}

\* _ordered_revert_shas: that merge and the merged pull requests of the blast set, the
\* owner's excepted when the trailer names it; newest first.
Series(c) ==
  LET owner == IF HoistMerge(c) = {} THEN {} ELSE {Owner[c]}
      prs   == {draft[r] : r \in Touching(c) \ owner} \ {0}
  IN  SetToSortSeq(HoistMerge(c) \cup prs, >)

\* Mutant: the reverts an earlier command committed are not recognised.
AlreadyReverted_Nothing(c) == {}

\* contract_rollback_shas_in_range: the reverts after the hoist that carry this
\* contract's trailer, by the commit their message names.
AlreadyReverted(c) ==
  {branch[i].of : i \in {j \in DOMAIN branch :
                           branch[j].op = "revert" /\ branch[j].contract = c}}

Remaining(c) == SelectSeq(Series(c), LAMBDA i : i \notin AlreadyReverted(c))

\* Nothing to revert is COMMITTED; merges without the hoist they are to be anchored at
\* are a RollbackAnchorError, noted as HoistRollbackFailed.
Order(b) ==
  /\ At(b, "demote") /\ cmd[b].repos = {}
  /\ LET c    == cmd[b].contract
         left == IF HoistMerge(c) = {} THEN <<>> ELSE Remaining(c)
     IN  cmd' = [cmd EXCEPT ![b].left = left, ![b].pc = IF left = <<>> THEN "next" ELSE "dry"]
  /\ UNCHANGED <<db, git, mutex, faults>>

\* The tip is read and the whole series staged on it in a scratch worktree.
DryRun(b) ==
  /\ At(b, "dry")
  /\ cmd' = [cmd EXCEPT ![b].tip = Len(branch), ![b].pc = "lock"]
  /\ UNCHANGED <<db, git, mutex, faults>>

\* REFUSED_CONFLICT, or an error of git, the forge or the worktree.
DryRunFails(b) ==
  /\ At(b, "dry") /\ Fault /\ Goto(b, "next")
  /\ UNCHANGED <<db, git, mutex>>

\* Mutant: the tip is not read again.
Unmoved_Trusted(b) == TRUE

\* The tip is read again under the mutex: RACE_ABORTED if it moved.
Unmoved(b) == cmd[b].tip = Len(branch)

Lock(b) ==
  /\ At(b, "lock") /\ mutex = Nobody
  /\ IF Unmoved(b) THEN mutex' = b /\ Goto(b, "stage")
                   ELSE mutex' = mutex /\ Goto(b, "next")
  /\ UNCHANGED <<db, git, faults>>

\* git revert --no-commit in the shared worktree: a merge taken back before changes nothing.
Stage(b) ==
  /\ At(b, "stage")
  /\ index' = index \cup ({Head(cmd[b].left)} \ Undone)
  /\ Goto(b, "commit")
  /\ UNCHANGED <<db, branch, mutex, faults>>

Release(b) == mutex' = Nobody /\ Goto(b, "next")

\* git commit takes everything staged.  With nothing staged it fails, the rest of the
\* series is left and HoistRollbackFailed noted.
CommitRevert(b) ==
  /\ At(b, "commit")
  /\ IF index = {} THEN Release(b) /\ UNCHANGED git
     ELSE /\ branch' = Append(branch, [op |-> "revert", of |-> Head(cmd[b].left),
                                       contract |-> cmd[b].contract, undoes |-> index])
          /\ index' = {}
          /\ cmd' = [cmd EXCEPT ![b].left = Tail(@),
                                ![b].pc = IF Len(cmd[b].left) = 1 THEN "next" ELSE "stage"]
          /\ mutex' = IF Len(cmd[b].left) = 1 THEN Nobody ELSE mutex
  /\ UNCHANGED <<db, faults>>

\* The process dies: the flock goes with it, what is staged stays.
Crash(b) ==
  /\ ~At(b, "idle") /\ Fault
  /\ cmd' = [cmd EXCEPT ![b] = Idle]
  /\ mutex' = IF mutex = b THEN Nobody ELSE mutex
  /\ UNCHANGED <<db, git>>

-----------------------------------------------------------------------------
(* The specification *)

Waves(b) ==
  \/ \E c \in Contracts : IngestContract(b, c) \/ \E r \in Repos : BuildBreaks(b, r, c)
  \/ \E r \in Repos : BuildSucceeds(b, r)
  \/ NoteBroke(b)

Rollback(b) ==
  \/ EndWaves(b) \/ NextContract(b) \/ Refuse(b) \/ FailContract(b)
  \/ \E r \in Repos : Observe(b, r)
  \/ Demote(b) \/ Order(b) \/ DryRun(b) \/ Lock(b) \/ Stage(b) \/ CommitRevert(b)

Fleet(r) ==
  \/ StartTransform(r) \/ FinishTransform(r) \/ Verify(r) \/ StubVerdict(r) \/ Merge(r)
  \/ \E p \in Phase : StubDegrade(r, p) \/ Retry(r, p)

Next ==
  \/ \E r \in Repos : Fleet(r)
  \/ \E b \in Builds : Start(b) \/ Waves(b) \/ Rollback(b) \/ WavesRaise(b)
                         \/ DryRunFails(b) \/ Crash(b)

\* A command runs to its end, and `fleet build` and `fleet resume` are run again and again.
Fairness == \A b \in Builds : /\ WF_vars(Start(b)) /\ WF_vars(NoteBroke(b))
                              /\ WF_vars(Rollback(b))

Spec == Init /\ [][Next]_vars /\ Fairness

-----------------------------------------------------------------------------
(* Properties *)

\* What is committed is what was tried: every revert of a series lands on the tip the
\* series was staged on in the scratch worktree, with nothing in between but the reverts
\* of the series before it (execute_hoist_rollback reads the tip again under the mutex).
TriedIsCommitted ==
  [][\A b \in Builds :
       At(b, "commit") /\ Len(branch') > Len(branch)
         => \A i \in cmd[b].tip + 1 .. Len(branch) :
              branch[i].op = "revert" /\ branch[i].contract = cmd[b].contract]_vars

Stranded(c, r) == HoistMerge(c) \cap Undone # {} /\ c \in uses[r] /\ row[r][BUILD] \in Standing

\* What demote_to_floor leaves to a human, and what it leaves without a word.
Exempt(r) == row[r][BUILD] = "DEGRADED" \/ \E p \in Phase : row[r][p] = "RHI"

\* No repo stays built against a hoisted path that was taken back: whatever moved while
\* the contract was rolled back, a later pass finds the repo and sends its BUILD back
\* (unhoist_contract, demote_to_floor).  Excepted are a contract whose rollback is
\* refused, a repo with an abandoned phase (for as long as nobody retries it), which the
\* rollback reports as unresolved, and a BUILD that stands on a stub.
StrandedIsRebuilt ==
  \A c \in Contracts : \A r \in Touching(c) :
    Stranded(c, r) ~> ~Stranded(c, r) \/ Exempt(r) \/ Blocking(c) # {}

\* The merges of the series that another contract's rollback took back first.
TakenBackElsewhere(c) ==
  \E i \in Range(Series(c)), j \in DOMAIN branch :
    branch[j].op = "revert" /\ branch[j].contract # c /\ i \in branch[j].undoes

\* A contract that broke a build leaves the branch: also when a command dies within the
\* series, or loses the race for the tip, a later one commits the rest.  Excepted are a
\* contract whose rollback is refused, and one whose series holds a merge that the
\* rollback of another contract took back first.
RollbackCompletes ==
  \A c \in Contracts :
    c \in broke ~> \/ Range(Series(c)) \subseteq Undone
                   \/ HoistMerge(c) = {}
                   \/ Blocking(c) # {}
                   \/ TakenBackElsewhere(c)

\* A second pass over a contract that was rolled back changes nothing: what a repo did
\* after the contract had left the branch, without the contract, is not sent back
\* (_reconcile_hoist_rollbacks, "Idempotent by construction").
SecondPassIsIdle ==
  [][\A b \in Builds :
       At(b, "demote") /\ cmd'[b].repos # cmd[b].repos /\ row' # row
         => \/ cmd[b].contract \in uses[cmd[b].seen[1]]
            \/ HoistMerge(cmd[b].contract) \cap Undone = {}]_vars
=============================================================================
