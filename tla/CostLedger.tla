----------------------------- MODULE CostLedger -----------------------------
(***************************************************************************)
(* Reserve-then-spend (fleet/orchestrator/budgets.py, CostLedger) over the *)
(* three durable tables budget_ledger, repo_ledger and reservations, with  *)
(* several processes, the reaper, and `fleet resume --raise-budget`.       *)
(*                                                                         *)
(* `call[c]` is one pass through CostLedger.dispatch(); its pc names the   *)
(* await it is suspended at:                                               *)
(*                                                                         *)
(*   new      not started                                                  *)
(*   top      head of reserve()'s loop                                     *)
(*   open     the repo's ledger row is to be opened and the bucket seeded  *)
(*   cas      pre-checks passed; reserve_repo_budget is queued             *)
(*   norepo, norun   the CAS refused; the durable row is to be read again  *)
(*   wait     backpressure: until a settlement, a poll or the deadline     *)
(*   halting  in-process flag set; `halted = 1` is to be written           *)
(*   granted  the reservation is HELD, the coroutine has not resumed       *)
(*   budget   in-process buckets hold the estimate; call_budget is read    *)
(*   body     inside the `async with`: the worker runs                     *)
(*   settle   settle_repo_budget is queued                                 *)
(*   release  settled; the buckets still hold the estimate                 *)
(*                                                                         *)
(* and, once it is over: done; failed (settle raised); gone (its process   *)
(* crashed or cancelled it); repo and timeout (refused, the repo's         *)
(* problem); run and wave (refused, RunHalted).                            *)
(*                                                                         *)
(* Dollars are small naturals.  All repos belong to one wave.  Blast       *)
(* radii do not grow, so a repo ceiling is a constant.  Task tokens and    *)
(* the revalidation sub-ceiling, which repeat the wave bucket's and the    *)
(* repo ledger's pattern, are left out.                                    *)
(***************************************************************************)
EXTENDS Integers, FiniteSets, FiniteSetsExt

CONSTANTS Procs, Repos, Calls,
          Estimates, Actuals,  \* what may be reserved, what may be spent
          RunMax,              \* budgets.run_max_cost_usd
          RaisedMax,           \* the operand of --raise-budget
          RepoMax,             \* Ceilings.repo_max_usd_for
          WaveMax,             \* Ceilings.wave_max_usd
          MaxCalls,            \* budgets.run_max_llm_calls
          MaxPolls,            \* bound: polls before the wait deadline
          MaxFaults, MaxOps    \* bounds: crashes and early expiries; raises

ASSUME LedgerAssumption ==
  /\ IsFiniteSet(Calls)
  /\ Estimates \subseteq Nat /\ Actuals \subseteq Nat
  /\ {RunMax, RaisedMax, RepoMax, WaveMax, MaxCalls, MaxPolls, MaxFaults, MaxOps} \subseteq Nat

VARIABLES run,     \* the budget_ledger row
          repo,    \* repo_ledger
          res,     \* reservations, named by the call that minted each
          proc,    \* what each process keeps in memory
          call,    \* the dispatches
          faults, ops

durable == <<run, repo, res>>
bounds  == <<faults, ops>>
vars == <<durable, proc, call, bounds>>

-----------------------------------------------------------------------------
(* State *)

Active == {"top", "open", "cas", "norepo", "norun", "wait", "halting",
           "granted", "budget", "body", "settle", "release"}
Ended  == {"done", "failed", "gone", "repo", "timeout", "run", "wave"}

Bucket == [spent : Nat, reserved : Nat]
Empty  == [spent |-> 0, reserved |-> 0]

Down == [state |-> "down", halted |-> FALSE, opened |-> {},
         bucket |-> [r \in Repos |-> Empty], wave |-> Empty]

RunRow == [spent : Nat, reserved : Nat, max : Nat, halted : BOOLEAN, calls : Nat]
Reservation == [state : {"none", "HELD", "SETTLED", "EXPIRED"},
                repo : SUBSET Repos, amount : Nat, live : BOOLEAN]
Process == [state : {"down", "entered", "scanning", "reaped", "up", "stopping"}, halted : BOOLEAN,
            opened : SUBSET Repos, bucket : [Repos -> Bucket], wave : Bucket]
Dispatch == [pc : {"new"} \cup Active \cup Ended, p : SUBSET Procs, r : SUBSET Repos,
             est : Nat, actual : Nat, polls : Nat]

TypeOK ==
  /\ run \in RunRow
  /\ repo \in [Repos -> Bucket]
  /\ res \in [Calls -> Reservation]
  /\ proc \in [Procs -> Process]
  /\ call \in [Calls -> Dispatch]
  /\ faults \in Nat /\ ops \in Nat

Init ==
  /\ run = [spent |-> 0, reserved |-> 0, max |-> RunMax, halted |-> FALSE, calls |-> 0]
  /\ repo = [r \in Repos |-> Empty]
  /\ res = [c \in Calls |-> [state |-> "none", repo |-> {}, amount |-> 0, live |-> FALSE]]
  /\ proc = [p \in Procs |-> Down]
  /\ call = [c \in Calls |-> [pc |-> "new", p |-> {}, r |-> {}, est |-> 0,
                              actual |-> 0, polls |-> 0]]
  /\ faults = 0 /\ ops = 0

-----------------------------------------------------------------------------
(* The ledgers' statements *)

Committed(b) == b.spent + b.reserved

\* MAX(a - b, 0).
Monus(a, b) == IF a - b \in 0..a THEN a - b ELSE 0

\* Mutant: the CAS counts what is spent and not what is held.
Fits_SpentOnly(b, amount, max) == b.spent + amount <= max

\* reserved_usd + amount, spent_usd untouched; the WHERE clause is the guard.
Fits(b, amount, max) == Committed(b) + amount <= max
Grow(b, amount) == [b EXCEPT !.reserved = @ + amount]

\* Settlement moves `amount` out of reserved and `actual` into spent.
Shrink(b, amount, actual) ==
  [b EXCEPT !.reserved = Monus(@, amount), !.spent = @ + actual]
MayShrink(b, amount, actual, max) ==
  b.reserved >= amount /\ b.spent + actual + (b.reserved - amount) <= max

HeldBy(S) == {c \in S : res[c].state = "HELD"}
Amount(S) == MapThenSumSet(LAMBDA c : res[c].amount, S)
Lapsed    == {c \in HeldBy(Calls) : ~res[c].live}

Fault == faults < MaxFaults /\ faults' = faults + 1

-----------------------------------------------------------------------------
(* Processes *)

\* Mutant: the aggregate is released whole, live holds included.
Reap_Aggregate ==
  /\ repo' = [r \in Repos |-> IF \E c \in Lapsed : r \in res[c].repo
                              THEN [repo[r] EXCEPT !.reserved = 0] ELSE repo[r]]
  /\ run' = IF Lapsed # {} THEN [run EXCEPT !.reserved = 0] ELSE run
  /\ res' = [c \in Calls |-> IF c \in Lapsed THEN [res[c] EXCEPT !.state = "EXPIRED"]
                             ELSE res[c]]

\* Mutant: lapsed holds are left to their owners.
Reap_Nothing == UNCHANGED <<run, repo, res>>

\* The ledger half of reap_expired_phase_leases: exactly the lapsed amounts.
Reap ==
  /\ repo' = [r \in Repos |->
                Shrink(repo[r], Amount({c \in Lapsed : r \in res[c].repo}), 0)]
  /\ run' = Shrink(run, Amount(Lapsed), 0)
  /\ res' = [c \in Calls |-> IF c \in Lapsed THEN [res[c] EXCEPT !.state = "EXPIRED"]
                             ELSE res[c]]

WaveSpend == MapThenSumSet(LAMBDA r : repo[r].spent, Repos)

\* _refuse_exhausted_wave: transform, build and verify are not entered while the
\* open wave's durable spend has reached its ceiling.
EnterCommand(p) ==
  /\ proc[p].state = "down"
  /\ WaveSpend < WaveMax
  /\ proc' = [proc EXCEPT ![p].state = "entered"]
  /\ UNCHANGED <<durable, call, bounds>>

\* A command reaps: one that was entered, or `fleet scan`, which has no wave
\* check and here nothing left to dispatch ...
StartProcess(p) ==
  /\ proc[p].state \in {"down", "entered"}
  /\ Reap
  /\ proc' = [proc EXCEPT ![p].state = IF @ = "entered" THEN "reaped" ELSE "scanning"]
  /\ UNCHANGED <<call, bounds>>

\* ... and opens the run ledger: max_usd takes the configured value.  Where the
\* row's CHECK refuses that value the command dies of the IntegrityError.
OpenLedger(p) ==
  /\ proc[p].state \in {"reaped", "scanning"}
  /\ IF Committed(run) <= RunMax
     THEN /\ run' = [run EXCEPT !.max = RunMax]
          /\ proc' = [proc EXCEPT ![p] = IF @.state = "reaped" THEN [@ EXCEPT !.state = "up"]
                                         ELSE Down]
     ELSE /\ proc' = [proc EXCEPT ![p] = Down]
          /\ UNCHANGED run
  /\ UNCHANGED <<repo, res, call, bounds>>

CallsOf(p) == {c \in Calls : p \in call[c].p}
ActiveOf(p) == {c \in CallsOf(p) : call[c].pc \in Active}

\* The command has nothing more to dispatch, or was halted and has drained.
Exit(p) ==
  /\ proc[p].state \in {"up", "stopping"} /\ ActiveOf(p) = {}
  /\ proc' = [proc EXCEPT ![p] = Down]
  /\ UNCHANGED <<durable, call, bounds>>

Crash(p) ==
  /\ proc[p].state # "down"
  /\ Fault
  /\ proc' = [proc EXCEPT ![p] = Down]
  /\ call' = [c \in Calls |-> IF c \in ActiveOf(p) THEN [call[c] EXCEPT !.pc = "gone"]
                              ELSE call[c]]
  /\ UNCHANGED <<durable, ops>>

\* A run-scoped refusal becomes RunHalted and the TaskGroup cancels the rest.
\* Inside the `async with` a call still settles, with no spend on record; a
\* hold granted but not yet inside it is left behind.
AfterCancel(t) ==
  CASE t.pc = "body" -> [t EXCEPT !.pc = "settle", !.actual = 0]
    [] t.pc \in {"settle", "release", "halting"} -> t
    [] OTHER -> [t EXCEPT !.pc = "gone"]

HaltProcess(p) ==
  /\ proc[p].state = "up"
  /\ \E c \in CallsOf(p) : call[c].pc \in {"run", "wave"}
  /\ proc' = [proc EXCEPT ![p].state = "stopping"]
  /\ call' = [c \in Calls |-> IF c \in ActiveOf(p) THEN AfterCancel(call[c]) ELSE call[c]]
  /\ UNCHANGED <<durable, bounds>>

\* expires_at passes under a call that still runs (a fault) or that is gone.
ExpireHold(c) ==
  /\ res[c].state = "HELD" /\ res[c].live
  /\ res' = [res EXCEPT ![c].live = FALSE]
  /\ IF call[c].pc \in Active THEN Fault ELSE UNCHANGED faults
  /\ UNCHANGED <<run, repo, proc, call, ops>>

\* `fleet resume --raise-budget`: a CAS on the committed amount and on max_usd.
RaiseBudget ==
  /\ ops < MaxOps /\ ops' = ops + 1
  /\ Committed(run) <= RaisedMax /\ run.max <= RaisedMax
  /\ run' = [run EXCEPT !.max = RaisedMax, !.halted = FALSE]
  /\ UNCHANGED <<repo, res, proc, call, faults>>

-----------------------------------------------------------------------------
(* reserve() *)

Owner(c) == CHOOSE p \in call[c].p : TRUE
RepoOf(c) == CHOOSE r \in call[c].r : TRUE
Goto(c, pc) == call' = [call EXCEPT ![c].pc = pc]

\* The runner drives a repo with one task per process.
Begin(c, p, r, e) ==
  /\ call[c].pc = "new" /\ proc[p].state = "up"
  /\ \A d \in ActiveOf(p) : r \notin call[d].r
  /\ \A d \in CallsOf(p) : call[d].pc \notin {"run", "wave"}
  /\ call' = [call EXCEPT ![c] = [@ EXCEPT !.pc = "top", !.p = {p}, !.r = {r}, !.est = e]]
  /\ UNCHANGED <<durable, proc, bounds>>

\* _check_subceilings on a process's own buckets: where the call goes next.
CheckSubceilings(me, r, e) ==
  IF Committed(me.bucket[r]) + e > RepoMax THEN "repo"
  ELSE IF Committed(me.wave) + e > WaveMax THEN "wave"
  ELSE "cas"

\* _refuse_if_halted, then straight on to the pre-checks if this process has
\* touched the repo before.
Top(c) ==
  /\ call[c].pc = "top"
  /\ LET me == proc[Owner(c)] IN
       Goto(c, IF me.halted THEN "run"
               ELSE IF RepoOf(c) \notin me.opened THEN "open"
               ELSE CheckSubceilings(me, RepoOf(c), call[c].est))
  /\ UNCHANGED <<durable, proc, bounds>>

\* _ensure_repo_ledger: the bucket starts at what the durable row has spent.
EnsureRepoLedger(c) ==
  /\ call[c].pc = "open"
  /\ LET p == Owner(c)
         r == RepoOf(c)
         me == [proc[p] EXCEPT !.opened = @ \cup {r},
                               !.bucket[r].spent = repo[r].spent]
     IN  /\ proc' = [proc EXCEPT ![p] = me]
         /\ Goto(c, CheckSubceilings(me, r, call[c].est))
  /\ UNCHANGED <<durable, bounds>>

CallCapReached == run.calls + 1 > MaxCalls

RunGrants(e) == ~run.halted /\ Fits(run, e, run.max) /\ ~CallCapReached

\* The three writes of a granted reservation, one transaction.
ReserveRepoBudget(c) ==
  /\ repo' = [repo EXCEPT ![RepoOf(c)] = Grow(@, call[c].est)]
  /\ run' = [Grow(run, call[c].est) EXCEPT !.calls = @ + 1]
  /\ res' = [res EXCEPT ![c] = [state |-> "HELD", repo |-> call[c].r,
                                amount |-> call[c].est, live |-> TRUE]]

\* reserve_repo_budget: the repo's CAS nests inside the run's.
Reserve(c) ==
  /\ call[c].pc = "cas"
  /\ LET e == call[c].est IN
       CASE ~Fits(repo[RepoOf(c)], e, RepoMax) -> Goto(c, "norepo") /\ UNCHANGED durable
         [] Fits(repo[RepoOf(c)], e, RepoMax) /\ RunGrants(e) ->
              Goto(c, "granted") /\ ReserveRepoBudget(c)
         [] OTHER -> Goto(c, IF CallCapReached THEN "run" ELSE "norun") /\ UNCHANGED durable
  /\ UNCHANGED <<proc, bounds>>

\* _interpret_repo_refusal, on a fresh read.
InterpretRepoRefusal(c) ==
  /\ call[c].pc = "norepo"
  /\ Goto(c, IF repo[RepoOf(c)].spent + call[c].est > RepoMax THEN "repo" ELSE "wait")
  /\ UNCHANGED <<durable, proc, bounds>>

\* No amount of waiting can help.
Hopeless(e) == run.spent + e > run.max

\* _interpret_refusal: halted, hopeless (which may halt the run), or wait.
InterpretRefusal(c) ==
  /\ call[c].pc = "norun"
  /\ LET p == Owner(c)
         stop == Hopeless(call[c].est) /\ run.spent >= run.max
     IN  /\ Goto(c, IF run.halted THEN "run"
                    ELSE IF stop THEN "halting"
                    ELSE IF Hopeless(call[c].est) THEN "run" ELSE "wait")
         /\ proc' = [proc EXCEPT ![p].halted = @ \/ run.halted \/ stop]
  /\ UNCHANGED <<durable, bounds>>

HaltLedger(c) ==
  /\ call[c].pc = "halting"
  /\ run' = [run EXCEPT !.halted = TRUE]
  /\ Goto(c, "run")
  /\ UNCHANGED <<repo, res, proc, bounds>>

\* Mutant: nothing wakes a waiter but a settlement of its own process.
WaitForSettlement_NoPoll(c) ==
  /\ call[c].pc = "wait"
  /\ \E d \in CallsOf(Owner(c)) : call[d].pc = "done"
  /\ call' = [call EXCEPT ![c].pc = "top", ![c].polls = @ + 1]
  /\ UNCHANGED <<durable, proc, bounds>>

\* A settlement, a halt or the poll interval: the loop runs again, until the
\* deadline turns the refusal into BackpressureTimeout.
WaitForSettlement(c) ==
  /\ call[c].pc = "wait"
  /\ \/ /\ call[c].polls < MaxPolls
        /\ call' = [call EXCEPT ![c].pc = "top", ![c].polls = @ + 1]
     \/ Goto(c, "timeout")
  /\ UNCHANGED <<durable, proc, bounds>>

-----------------------------------------------------------------------------
(* dispatch() *)

AddHold(me, r, e) == [me EXCEPT !.bucket[r] = Grow(@, e), !.wave = Grow(@, e)]
DropHold(me, r, e, a) == [me EXCEPT !.bucket[r] = Shrink(@, e, a), !.wave = Shrink(@, e, a)]

Hold(c) ==
  /\ call[c].pc = "granted"
  /\ proc' = [proc EXCEPT ![Owner(c)] = AddHold(@, RepoOf(c), call[c].est)]
  /\ Goto(c, "budget")
  /\ UNCHANGED <<durable, bounds>>

\* call_budget -> refresh: a halt by another process is noticed here too.
CallBudget(c) ==
  /\ call[c].pc = "budget"
  /\ proc' = [proc EXCEPT ![Owner(c)].halted = @ \/ run.halted]
  /\ Goto(c, "body")
  /\ UNCHANGED <<durable, bounds>>

\* The worker returns and its usage is recorded, or it raised before that.
Body(c) ==
  /\ call[c].pc = "body"
  /\ \E a \in Actuals \cup {0} :
       call' = [call EXCEPT ![c].pc = "settle", ![c].actual = a]
  /\ UNCHANGED <<durable, proc, bounds>>

\* The three conditions of settle_repo_budget.
Settleable(c) ==
  /\ res[c].state = "HELD"
  /\ MayShrink(repo[RepoOf(c)], call[c].est, call[c].actual, RepoMax)
  /\ MayShrink(run, call[c].est, call[c].actual, run.max)

\* All three writes or none; a refusal raises out of dispatch() and leaves the
\* hold, and this process's buckets, as they are.
Settle(c) ==
  /\ call[c].pc = "settle"
  /\ IF Settleable(c)
     THEN /\ repo' = [repo EXCEPT ![RepoOf(c)] = Shrink(@, call[c].est, call[c].actual)]
          /\ run' = Shrink(run, call[c].est, call[c].actual)
          /\ res' = [res EXCEPT ![c].state = "SETTLED"]
          /\ Goto(c, "release")
     ELSE Goto(c, "failed") /\ UNCHANGED durable
  /\ UNCHANGED <<proc, bounds>>

Release(c) ==
  /\ call[c].pc = "release"
  /\ proc' = [proc EXCEPT ![Owner(c)] = DropHold(@, RepoOf(c), call[c].est, call[c].actual)]
  /\ Goto(c, "done")
  /\ UNCHANGED <<durable, bounds>>

-----------------------------------------------------------------------------

CallStep(c) ==
  \/ Top(c) \/ EnsureRepoLedger(c) \/ Reserve(c) \/ InterpretRepoRefusal(c)
  \/ InterpretRefusal(c) \/ HaltLedger(c) \/ WaitForSettlement(c)
  \/ Hold(c) \/ CallBudget(c) \/ Body(c) \/ Settle(c) \/ Release(c)

Next ==
  \/ \E p \in Procs : \/ EnterCommand(p) \/ StartProcess(p) \/ OpenLedger(p)
                      \/ Exit(p) \/ Crash(p) \/ HaltProcess(p)
  \/ \E c \in Calls : CallStep(c) \/ ExpireHold(c)
  \/ \E c \in Calls, p \in Procs, r \in Repos, e \in Estimates : Begin(c, p, r, e)
  \/ RaiseBudget

Spec == Init /\ [][Next]_vars

-----------------------------------------------------------------------------
(* Safety *)

\* state/schema.sql, RESERVATION ACCOUNTING.  Whatever expires, crashes or is
\* settled late: each ledger's reserved_usd is the sum of its HELD rows, and
\* its spent_usd the sum of what SETTLED rows spent, each counted once.
Accounting ==
  /\ run.reserved = Amount(HeldBy(Calls))
  /\ \A r \in Repos :
       repo[r].reserved = Amount(HeldBy({c \in Calls : r \in res[c].repo}))
  /\ run.spent = MapThenSumSet(LAMBDA c : call[c].actual,
                               {c \in Calls : res[c].state = "SETTLED"})

\* What is committed never passes a ceiling, on either ledger, so the schema's
\* CHECK is never what stops a reservation or a settlement.
CeilingsHold ==
  /\ Committed(run) <= run.max
  /\ \A r \in Repos : Committed(repo[r]) <= RepoMax
  /\ run.calls <= MaxCalls

-----------------------------------------------------------------------------
(* What the documentation says of the code, and the code does not do *)

\* docs/SPEC.md: no code path lowers a ledger.  The run's ceiling only rises.
CeilingNeverLowered == [][run'.max >= run.max]_vars

\* docs/SPEC.md: the wave's spend is durable, so a resume halts again.  No call
\* gets past the wave's pre-check once its estimate does not fit on top of what
\* the wave's repos have durably spent.
WaveSpendIsDurable ==
  [][\A c \in Calls :
       call[c].pc # "cas" /\ call'[c].pc = "cas" =>
         WaveSpend + call[c].est <= WaveMax]_vars

-----------------------------------------------------------------------------
(* Liveness *)

\* Coroutines run, time passes, commands are run again.
Fairness ==
  /\ \A p \in Procs : /\ WF_vars(StartProcess(p)) /\ WF_vars(OpenLedger(p))
                      /\ WF_vars(Exit(p)) /\ WF_vars(HaltProcess(p))
  /\ \A c \in Calls : WF_vars(CallStep(c)) /\ WF_vars(ExpireHold(c))

FairSpec == Spec /\ Fairness

\* Everybody waiting on everybody does not happen: a dispatch ends, granted and
\* settled or turned away.
CallsEnd == \A c \in Calls : call[c].pc \in Active ~> call[c].pc \in Ended

\* Dollars held by a call that crashed, was cancelled or failed to settle come
\* back to both ledgers.
HoldsReturn == \A c \in Calls : res[c].state = "HELD" ~> res[c].state # "HELD"

=============================================================================
