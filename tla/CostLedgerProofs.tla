-------------------------- MODULE CostLedgerProofs --------------------------
(***************************************************************************)
(* What is proved of CostLedger for every number of processes and repos,   *)
(* every finite set of calls and every choice of amounts and ceilings: the *)
(* types, that no ceiling is ever passed, and that the books balance.  The *)
(* inductive invariant of the first two adds that a call that has begun    *)
(* has one owner and one repo (Owned); the one of the balance adds how a   *)
(* reservation relates to the call that minted it (HoldsMatch).            *)
(***************************************************************************)
EXTENDS CostLedger, TLAPS, FiniteSetTheorems, WellFoundedInduction

\* A call that has begun belongs to one process and concerns one repo.
Owned ==
  \A c \in Calls : call[c].pc # "new" =>
    /\ \E p \in Procs : call[c].p = {p}
    /\ \E r \in Repos : call[c].r = {r}

IInv == TypeOK /\ Owned /\ CeilingsHold

-----------------------------------------------------------------------------
(* Operators *)

\* MAX(a - x, 0) lies between 0 and a, whatever x is.
LEMMA MonusBound ==
  ASSUME NEW a \in Nat, NEW x
  PROVE  Monus(a, x) \in Nat /\ Monus(a, x) <= a
  BY DEF Monus

\* Settling moves at most what is reserved and adds what was spent.
LEMMA ShrinkBucket ==
  ASSUME NEW b \in Bucket, NEW x, NEW a \in Nat
  PROVE  /\ Shrink(b, x, a) \in Bucket
         /\ Shrink(b, x, a).spent = b.spent + a
         /\ Shrink(b, x, a).reserved = Monus(b.reserved, x)
         /\ Shrink(b, x, a).reserved <= b.reserved
  <1>1. ASSUME NEW m \in Nat, m <= b.reserved
        PROVE  LET s == [b EXCEPT !.reserved = m, !.spent = @ + a] IN
               s \in Bucket /\ s.spent = b.spent + a /\ s.reserved = m
    <2>1. b.spent + a \in Nat
      BY DEF Bucket
    <2> QED BY <1>1, <2>1 DEF Bucket
  <1>2. Monus(b.reserved, x) \in Nat /\ Monus(b.reserved, x) <= b.reserved
    BY MonusBound DEF Bucket
  <1> QED BY <1>1, <1>2, Zenon DEF Shrink

LEMMA ShrinkRun ==
  ASSUME NEW b \in RunRow, NEW x, NEW a \in Nat
  PROVE  /\ Shrink(b, x, a) \in RunRow
         /\ Shrink(b, x, a).spent = b.spent + a
         /\ Shrink(b, x, a).reserved = Monus(b.reserved, x)
         /\ Shrink(b, x, a).reserved <= b.reserved
         /\ Shrink(b, x, a).max = b.max
         /\ Shrink(b, x, a).calls = b.calls
  <1>1. ASSUME NEW m \in Nat, m <= b.reserved
        PROVE  LET s == [b EXCEPT !.reserved = m, !.spent = @ + a] IN
               /\ s \in RunRow /\ s.spent = b.spent + a /\ s.reserved = m
               /\ s.max = b.max /\ s.calls = b.calls
    <2>1. b.spent + a \in Nat
      BY DEF RunRow
    <2> QED BY <1>1, <2>1 DEF RunRow
  <1>2. Monus(b.reserved, x) \in Nat /\ Monus(b.reserved, x) <= b.reserved
    BY MonusBound DEF RunRow
  <1> QED BY <1>1, <1>2, Zenon DEF Shrink

LEMMA GrowBucket ==
  ASSUME NEW b \in Bucket, NEW e \in Nat
  PROVE  /\ Grow(b, e) \in Bucket
         /\ Grow(b, e).spent = b.spent
         /\ Grow(b, e).reserved = b.reserved + e
  BY DEF Grow, Bucket

\* The owner and the repo of a call that has begun.
LEMMA OwnerRepo ==
  ASSUME Owned, NEW c \in Calls, call[c].pc # "new"
  PROVE  Owner(c) \in Procs /\ RepoOf(c) \in Repos
  BY DEF Owned, Owner, RepoOf

-----------------------------------------------------------------------------
(* Calls *)

\* Moving a call along keeps its type and its owner.
LEMMA GotoType ==
  ASSUME TypeOK, Owned, NEW c \in Calls, call[c].pc # "new",
         NEW pc \in Active \cup Ended, Goto(c, pc)
  PROVE  call' \in [Calls -> Dispatch] /\ Owned'
  <1>1. call' \in [Calls -> Dispatch]
    BY DEF TypeOK, Goto, Dispatch
  <1>2. \A d \in Calls : /\ call'[d].p = call[d].p /\ call'[d].r = call[d].r
                         /\ call'[d].pc # "new" => call[d].pc # "new"
    BY DEF TypeOK, Goto, Dispatch
  <1> QED BY <1>1, <1>2 DEF Owned

\* The pre-checks send a call to its CAS or turn it away.
LEMMA CheckType ==
  ASSUME NEW me, NEW r, NEW e
  PROVE  CheckSubceilings(me, r, e) \in Active \cup Ended
  BY DEF CheckSubceilings, Active, Ended

\* Ceilings speak of the two ledgers only.
LEMMA CeilingsKept ==
  ASSUME CeilingsHold, UNCHANGED <<run, repo>>
  PROVE  CeilingsHold'
  BY DEF CeilingsHold, Committed

-----------------------------------------------------------------------------

LEMMA InitIInv == ASSUME Init PROVE IInv
  <1>1. TypeOK
    BY LedgerAssumption DEF Init, TypeOK, RunRow, Reservation, Process, Dispatch, Bucket,
       Empty, Down, Active, Ended
  <1>2. Owned /\ CeilingsHold
    BY LedgerAssumption DEF Init, Owned, CeilingsHold, Committed, Empty
  <1> QED BY <1>1, <1>2 DEF IInv

\* Steps of a process as a whole.
LEMMA ProcessStep ==
  ASSUME IInv, NEW p \in Procs,
         \/ EnterCommand(p) \/ StartProcess(p) \/ OpenLedger(p)
         \/ Exit(p) \/ Crash(p) \/ HaltProcess(p)
  PROVE  IInv'
  <1> USE DEF IInv
  <1>d. Down \in Process
    BY DEF Down, Process, Bucket, Empty
  <1>0. CASE EnterCommand(p)
    BY <1>0, ZenonT(30) DEF EnterCommand, TypeOK, Process, Owned, CeilingsHold, Committed,
       durable, bounds
  <1>1. CASE StartProcess(p)
    <2>1. run' = Shrink(run, Amount(Lapsed), 0)
      BY <1>1 DEF StartProcess, Reap
    <2>2. repo' = [r \in Repos |->
                     Shrink(repo[r], Amount({c \in Lapsed : r \in res[c].repo}), 0)]
      BY <1>1 DEF StartProcess, Reap
    <2>3. run' \in RunRow /\ Committed(run') <= run'.max /\ run'.calls <= MaxCalls
      BY <2>1, ShrinkRun DEF TypeOK, CeilingsHold, Committed, RunRow
    <2>4. \A r \in Repos : repo'[r] \in Bucket /\ Committed(repo'[r]) <= RepoMax
      BY <2>2, ShrinkBucket, LedgerAssumption DEF TypeOK, CeilingsHold, Committed, Bucket
    <2>5. res' \in [Calls -> Reservation]
      BY <1>1 DEF StartProcess, Reap, TypeOK, Reservation
    <2>p. \/ proc' = [proc EXCEPT ![p] = [proc[p] EXCEPT !.state = "reaped"]]
          \/ proc' = [proc EXCEPT ![p] = [proc[p] EXCEPT !.state = "scanning"]]
      BY <1>1 DEF StartProcess
    <2>q. /\ [proc[p] EXCEPT !.state = "reaped"] \in Process
          /\ [proc[p] EXCEPT !.state = "scanning"] \in Process
      BY DEF TypeOK, Process
    <2>u. UNCHANGED <<call, faults, ops>>
      BY <1>1 DEF StartProcess, bounds
    <2>6. proc' \in [Procs -> Process] /\ UNCHANGED <<call, faults, ops>>
      BY <2>p, <2>q, <2>u DEF TypeOK
    <2>7. repo' \in [Repos -> Bucket]
      BY <2>2, <2>4
    <2> QED BY <2>3, <2>4, <2>5, <2>6, <2>7 DEF TypeOK, Owned, CeilingsHold
  <1>2. CASE OpenLedger(p)
    <2>0. UNCHANGED <<repo, res, call, faults, ops>>
      BY <1>2 DEF OpenLedger, bounds
    <2>p. \/ proc' = [proc EXCEPT ![p] = [proc[p] EXCEPT !.state = "up"]]
          \/ proc' = [proc EXCEPT ![p] = Down]
      BY <1>2 DEF OpenLedger, TypeOK
    <2>q. [proc[p] EXCEPT !.state = "up"] \in Process
      BY DEF TypeOK, Process
    <2>1. proc' \in [Procs -> Process] /\ UNCHANGED <<repo, res, call, faults, ops>>
      BY <1>d, <2>0, <2>p, <2>q DEF TypeOK
    <2>2. CASE Committed(run) <= RunMax
      <3>1. run' = [run EXCEPT !.max = RunMax]
        BY <1>2, <2>2 DEF OpenLedger
      <3>2. run' \in RunRow /\ Committed(run') <= run'.max /\ run'.calls <= MaxCalls
        BY <2>2, <3>1, LedgerAssumption DEF TypeOK, RunRow, Committed, CeilingsHold
      <3> QED BY <2>1, <3>2 DEF TypeOK, Owned, CeilingsHold, Committed
    <2>3. CASE ~(Committed(run) <= RunMax)
      <3>1. run' = run
        BY <1>2, <2>3 DEF OpenLedger
      <3> QED BY <2>1, <3>1 DEF TypeOK, Owned, CeilingsHold, Committed
    <2> QED BY <2>2, <2>3
  <1>3. CASE Exit(p)
    BY <1>3, <1>d DEF Exit, TypeOK, Owned, CeilingsHold, Committed, durable, bounds
  <1>4. CASE Crash(p)
    <2>1. proc' \in [Procs -> Process] /\ faults' \in Nat /\ UNCHANGED <<run, repo, res, ops>>
      BY <1>4, <1>d DEF Crash, Fault, TypeOK, durable
    <2>2. call' \in [Calls -> Dispatch]
      BY <1>4 DEF Crash, TypeOK, Dispatch, Ended
    <2>3. \A d \in Calls : /\ call'[d].p = call[d].p /\ call'[d].r = call[d].r
                           /\ call'[d].pc # "new" => call[d].pc # "new"
      BY <1>4 DEF Crash, TypeOK, Dispatch, ActiveOf, Active
    <2> QED BY <2>1, <2>2, <2>3, CeilingsKept DEF TypeOK, Owned
  <1>5. CASE HaltProcess(p)
    <2>1. proc' \in [Procs -> Process] /\ UNCHANGED <<run, repo, res, faults, ops>>
      BY <1>5 DEF HaltProcess, TypeOK, Process, durable, bounds
    <2>2. \A t \in Dispatch : /\ AfterCancel(t) \in Dispatch
                              /\ AfterCancel(t).p = t.p /\ AfterCancel(t).r = t.r
      BY ZenonT(30) DEF AfterCancel, Dispatch, Active, Ended
    <2>3. call' \in [Calls -> Dispatch]
      BY <1>5, <2>2 DEF HaltProcess, TypeOK
    <2>4. \A d \in Calls : /\ call'[d].p = call[d].p /\ call'[d].r = call[d].r
                           /\ call'[d].pc # "new" => call[d].pc # "new"
      BY <1>5, <2>2 DEF HaltProcess, TypeOK, ActiveOf, Active
    <2> QED BY <2>1, <2>3, <2>4, CeilingsKept DEF TypeOK, Owned
  <1> QED BY <1>0, <1>1, <1>2, <1>3, <1>4, <1>5

\* Steps of one call that leave the durable ledgers alone.
LEMMA LocalStep ==
  ASSUME IInv, NEW c \in Calls,
         \/ Top(c) \/ EnsureRepoLedger(c) \/ InterpretRepoRefusal(c) \/ InterpretRefusal(c)
         \/ WaitForSettlement(c) \/ Hold(c) \/ CallBudget(c) \/ Body(c) \/ Release(c)
  PROVE  IInv'
  <1> USE DEF IInv
  <1>o. Owner(c) \in Procs /\ RepoOf(c) \in Repos /\ call[c].pc # "new"
    <2>1. call[c].pc # "new"
      BY DEF Top, EnsureRepoLedger, InterpretRepoRefusal, InterpretRefusal,
         WaitForSettlement, Hold, CallBudget, Body, Release
    <2> QED BY <2>1, OwnerRepo
  <1>k. CeilingsHold' /\ UNCHANGED <<run, repo, res, faults, ops>>
    <2>1. UNCHANGED <<run, repo, res, faults, ops>>
      BY DEF Top, EnsureRepoLedger, InterpretRepoRefusal, InterpretRefusal,
         WaitForSettlement, Hold, CallBudget, Body, Release, durable, bounds
    <2> QED BY <2>1, CeilingsKept
  <1>f. proc[Owner(c)] \in Process /\ call[c] \in Dispatch
    BY <1>o DEF TypeOK
  <1>n. call[c].est \in Nat /\ call[c].actual \in Nat
    BY <1>f DEF Dispatch
  <1> SUFFICES proc' \in [Procs -> Process] /\ call' \in [Calls -> Dispatch] /\ Owned'
    BY <1>k DEF TypeOK
  <1>1. CASE Top(c)
    <2>1. PICK pc \in Active \cup Ended : Goto(c, pc)
      BY <1>1, CheckType DEF Top, Active, Ended
    <2> QED BY <1>1, <1>o, <2>1, GotoType DEF Top, TypeOK
  <1>2. CASE EnsureRepoLedger(c)
    <2> DEFINE me == [proc[Owner(c)] EXCEPT !.opened = @ \cup {RepoOf(c)},
                                            !.bucket[RepoOf(c)].spent = repo[RepoOf(c)].spent]
    <2>1. proc' = [proc EXCEPT ![Owner(c)] = me]
      BY <1>2 DEF EnsureRepoLedger
    <2>2. me \in Process
      BY <1>o, <1>f DEF TypeOK, Process, Bucket
    <2>3. PICK pc \in Active \cup Ended : Goto(c, pc)
      BY <1>2, CheckType DEF EnsureRepoLedger
    <2>4. proc' \in [Procs -> Process]
      BY <2>1, <2>2 DEF TypeOK
    <2> QED BY <1>o, <2>3, <2>4, GotoType
  <1>3. CASE InterpretRepoRefusal(c)
    <2>1. PICK pc \in Active \cup Ended : Goto(c, pc)
      BY <1>3 DEF InterpretRepoRefusal, Active, Ended
    <2> QED BY <1>3, <1>o, <2>1, GotoType DEF InterpretRepoRefusal, TypeOK
  <1>4. CASE InterpretRefusal(c)
    <2>1. PICK pc \in Active \cup Ended : Goto(c, pc)
      BY <1>4 DEF InterpretRefusal, Active, Ended
    <2>2. proc' \in [Procs -> Process]
      BY <1>4, <1>o, <1>f DEF InterpretRefusal, TypeOK, Process, RunRow
    <2> QED BY <1>o, <2>1, <2>2, GotoType
  <1>5. CASE WaitForSettlement(c)
    <2>1. CASE Goto(c, "timeout")
      BY <1>5, <1>o, <2>1, GotoType DEF WaitForSettlement, TypeOK, Ended
    <2>2. CASE call' = [call EXCEPT ![c].pc = "top", ![c].polls = @ + 1]
      <3>1. call' \in [Calls -> Dispatch]
        BY <2>2 DEF TypeOK, Dispatch, Active
      <3>2. \A d \in Calls : /\ call'[d].p = call[d].p /\ call'[d].r = call[d].r
                             /\ call'[d].pc # "new" => call[d].pc # "new"
        BY <2>2, <1>o DEF TypeOK, Dispatch
      <3> QED BY <1>5, <3>1, <3>2 DEF WaitForSettlement, TypeOK, Owned
    <2> QED BY <1>5, <2>1, <2>2 DEF WaitForSettlement
  <1>6. CASE Hold(c)
    <2>1. AddHold(proc[Owner(c)], RepoOf(c), call[c].est) \in Process
      BY <1>o, <1>f, <1>n, GrowBucket DEF AddHold, Process
    <2>2. proc' \in [Procs -> Process]
      BY <1>6, <2>1 DEF Hold, TypeOK
    <2> QED BY <1>6, <1>o, <2>2, GotoType DEF Hold, Active
  <1>7. CASE CallBudget(c)
    <2>1. proc' \in [Procs -> Process]
      BY <1>7, <1>o, <1>f DEF CallBudget, TypeOK, Process, RunRow
    <2> QED BY <1>7, <1>o, <2>1, GotoType DEF CallBudget, Active
  <1>8. CASE Body(c)
    <2>1. PICK a \in Actuals \cup {0} :
            call' = [call EXCEPT ![c].pc = "settle", ![c].actual = a]
      BY <1>8 DEF Body
    <2>2. a \in Nat
      BY LedgerAssumption
    <2>3. call' \in [Calls -> Dispatch]
      BY <2>1, <2>2, ZenonT(30) DEF TypeOK, Dispatch, Active
    <2>4. \A d \in Calls : /\ call'[d].p = call[d].p /\ call'[d].r = call[d].r
                           /\ call'[d].pc # "new" => call[d].pc # "new"
      BY <2>1, <1>o DEF TypeOK, Dispatch
    <2>5. proc' = proc
      BY <1>8 DEF Body
    <2>6. Owned'
      BY <2>4 DEF Owned
    <2> QED BY <2>3, <2>5, <2>6 DEF TypeOK
  <1>9. CASE Release(c)
    <2>1. DropHold(proc[Owner(c)], RepoOf(c), call[c].est, call[c].actual) \in Process
      BY <1>o, <1>f, <1>n, ShrinkBucket DEF DropHold, Process
    <2>2. proc' \in [Procs -> Process]
      BY <1>9, <2>1 DEF Release, TypeOK
    <2> QED BY <1>9, <1>o, <2>2, GotoType DEF Release, Ended
  <1> QED BY <1>1, <1>2, <1>3, <1>4, <1>5, <1>6, <1>7, <1>8, <1>9

\* Steps of one call that move dollars.
LEMMA LedgerStep ==
  ASSUME IInv, NEW c \in Calls, Reserve(c) \/ Settle(c) \/ HaltLedger(c)
  PROVE  IInv'
  <1> USE DEF IInv
  <1>o. Owner(c) \in Procs /\ RepoOf(c) \in Repos /\ call[c].pc # "new"
    <2>1. call[c].pc # "new"
      BY DEF Reserve, Settle, HaltLedger
    <2> QED BY <2>1, OwnerRepo
  <1>k. UNCHANGED <<proc, faults, ops>>
    BY DEF Reserve, Settle, HaltLedger, bounds
  <1>g. \E pc \in Active \cup Ended : Goto(c, pc)
    BY DEF Reserve, Settle, HaltLedger, Active, Ended
  <1>t. call' \in [Calls -> Dispatch] /\ Owned'
    BY <1>o, <1>g, GotoType
  <1> DEFINE e == call[c].est
             a == call[c].actual
             r == RepoOf(c)
  <1>n. e \in Nat /\ a \in Nat /\ repo[r] \in Bucket /\ run \in RunRow
    BY <1>o DEF TypeOK, Dispatch
  <1>m. RepoMax \in Nat /\ MaxCalls \in Nat
    BY LedgerAssumption
  <1> SUFFICES run' \in RunRow /\ repo' \in [Repos -> Bucket]
               /\ res' \in [Calls -> Reservation] /\ CeilingsHold'
    BY <1>k, <1>t DEF TypeOK
  <1>s. ASSUME UNCHANGED durable
        PROVE  run' \in RunRow /\ repo' \in [Repos -> Bucket]
               /\ res' \in [Calls -> Reservation] /\ CeilingsHold'
    BY <1>s, CeilingsKept DEF durable, TypeOK
  <1>1. CASE Reserve(c)
    <2>1. CASE ReserveRepoBudget(c) /\ Fits(repo[r], e, RepoMax) /\ RunGrants(e)
      <3>1. repo' = [repo EXCEPT ![r] = Grow(@, e)]
        BY <2>1 DEF ReserveRepoBudget
      <3>2. run' = [run EXCEPT !.reserved = @ + e, !.calls = @ + 1]
        BY <2>1, <1>n DEF ReserveRepoBudget, Grow, RunRow
      <3>g. /\ run.spent + run.reserved + e <= run.max /\ ~(run.calls + 1 > MaxCalls)
            /\ repo[r].spent + repo[r].reserved + e <= RepoMax
        BY <2>1 DEF RunGrants, Fits, Committed, CallCapReached
      <3> HIDE DEF e, a, r
      <3>3. run' \in RunRow /\ Committed(run') <= run'.max /\ run'.calls <= MaxCalls
        <4>1. run.reserved + e \in Nat /\ run.calls + 1 \in Nat
          BY <1>n DEF RunRow
        <4>2. /\ run' \in RunRow /\ run'.spent = run.spent /\ run'.max = run.max
              /\ run'.reserved = run.reserved + e /\ run'.calls = run.calls + 1
          BY <3>2, <4>1, <1>n DEF RunRow
        <4> QED BY <4>2, <3>g, <1>n, <1>m DEF Committed, RunRow
      <3>4. Grow(repo[r], e) \in Bucket /\ Committed(Grow(repo[r], e)) <= RepoMax
        <4>1. Grow(repo[r], e) \in Bucket
              /\ Grow(repo[r], e).spent = repo[r].spent
              /\ Grow(repo[r], e).reserved = repo[r].reserved + e
          BY <1>n, GrowBucket
        <4> QED BY <4>1, <3>g, <1>n, <1>m DEF Committed, Bucket
      <3> USE DEF e, a, r
      <3>5. repo' \in [Repos -> Bucket] /\ \A q \in Repos : Committed(repo'[q]) <= RepoMax
        BY <3>1, <3>4, <1>o DEF TypeOK, CeilingsHold
      <3>6. res' \in [Calls -> Reservation]
        BY <2>1, <1>n DEF ReserveRepoBudget, TypeOK, Reservation, Dispatch
      <3> QED BY <3>3, <3>5, <3>6 DEF CeilingsHold
    <2>2. CASE UNCHANGED durable
      BY <2>2, <1>s
    <2> QED BY <1>1, <2>1, <2>2 DEF Reserve
  <1>2. CASE Settle(c)
    <2>1. CASE Settleable(c)
      <3>1. /\ repo' = [repo EXCEPT ![r] = Shrink(@, e, a)]
            /\ run' = Shrink(run, e, a)
            /\ res' = [res EXCEPT ![c].state = "SETTLED"]
        BY <1>2, <2>1 DEF Settle
      <3>2. MayShrink(repo[r], e, a, RepoMax) /\ MayShrink(run, e, a, run.max)
        BY <2>1 DEF Settleable
      <3>3. run' \in RunRow /\ Committed(run') <= run'.max /\ run'.calls <= MaxCalls
        BY <3>1, <3>2, <1>n, <1>m, ShrinkRun
           DEF MayShrink, Committed, RunRow, Monus, CeilingsHold
      <3>4. Shrink(repo[r], e, a) \in Bucket /\ Committed(Shrink(repo[r], e, a)) <= RepoMax
        BY <3>2, <1>n, <1>m, ShrinkBucket DEF MayShrink, Committed, Bucket, Monus
      <3>5. repo' \in [Repos -> Bucket] /\ \A q \in Repos : Committed(repo'[q]) <= RepoMax
        BY <3>1, <3>4, <1>o DEF TypeOK, CeilingsHold
      <3>6. res' \in [Calls -> Reservation]
        BY <3>1 DEF TypeOK, Reservation
      <3> QED BY <3>3, <3>5, <3>6 DEF CeilingsHold
    <2>2. CASE ~Settleable(c)
      BY <1>2, <2>2, <1>s DEF Settle
    <2> QED BY <2>1, <2>2
  <1>3. CASE HaltLedger(c)
    BY <1>3 DEF HaltLedger, TypeOK, RunRow, CeilingsHold, Committed
  <1> QED BY <1>1, <1>2, <1>3

LEMMA NextIInv == ASSUME IInv, [Next]_vars PROVE IInv'
  <1> USE DEF IInv
  <1>1. CASE \E p \in Procs : \/ EnterCommand(p) \/ StartProcess(p) \/ OpenLedger(p)
                              \/ Exit(p) \/ Crash(p) \/ HaltProcess(p)
    BY <1>1, ProcessStep
  <1>2. ASSUME NEW c \in Calls, CallStep(c) PROVE IInv'
    BY <1>2, LocalStep, LedgerStep DEF CallStep
  <1>3. ASSUME NEW c \in Calls, ExpireHold(c) PROVE IInv'
    <2>1. res' \in [Calls -> Reservation] /\ UNCHANGED <<run, repo, proc, call, ops>>
      BY <1>3 DEF ExpireHold, TypeOK, Reservation
    <2>2. faults' \in Nat
      BY <1>3 DEF ExpireHold, Fault, TypeOK
    <2> QED BY <2>1, <2>2, CeilingsKept DEF TypeOK, Owned
  <1>4. ASSUME NEW c \in Calls, NEW p \in Procs, NEW r \in Repos, NEW e \in Estimates,
               Begin(c, p, r, e)
        PROVE  IInv'
    <2>1. e \in Nat
      BY LedgerAssumption
    <2>2. call' = [call EXCEPT ![c] = [@ EXCEPT !.pc = "top", !.p = {p}, !.r = {r}, !.est = e]]
          /\ UNCHANGED <<run, repo, res, proc, faults, ops>>
      BY <1>4 DEF Begin, durable, bounds
    <2>3. call' \in [Calls -> Dispatch]
      BY <2>1, <2>2, ZenonT(30) DEF TypeOK, Dispatch, Active
    <2>4. Owned'
      BY <2>2 DEF Owned, TypeOK, Dispatch
    <2> QED BY <2>2, <2>3, <2>4, CeilingsKept DEF TypeOK
  <1>5. CASE RaiseBudget
    <2>1. RaisedMax \in Nat
      BY LedgerAssumption
    <2>2. run' = [run EXCEPT !.max = RaisedMax, !.halted = FALSE]
          /\ ops' = ops + 1 /\ UNCHANGED <<repo, res, proc, call, faults>>
          /\ Committed(run) <= RaisedMax
      BY <1>5 DEF RaiseBudget
    <2>3. run' \in RunRow /\ Committed(run') = Committed(run) /\ run'.max = RaisedMax
          /\ run'.calls = run.calls
      BY <2>1, <2>2 DEF TypeOK, RunRow, Committed
    <2>4. ops' \in Nat
      BY <2>2 DEF TypeOK
    <2>5. TypeOK' /\ Owned'
      BY <2>2, <2>3, <2>4 DEF TypeOK, Owned
    <2>6. CeilingsHold'
      BY <2>2, <2>3 DEF CeilingsHold, Committed
    <2> QED BY <2>5, <2>6
  <1>6. CASE UNCHANGED vars
    BY <1>6, CeilingsKept DEF vars, durable, bounds, TypeOK, Owned
  <1> QED BY <1>1, <1>2, <1>3, <1>4, <1>5, <1>6 DEF Next

\* Every reachable state of the ledger is well typed and within its ceilings.
THEOREM LedgerInvariant == Spec => []IInv
  BY InitIInv, NextIInv, PTL DEF Spec

\* budgets.py, state/repository.py: the three tables and the in-process buckets
\* keep their types, whatever crashes, lapses or is raised.
THEOREM LedgerType == Spec => []TypeOK
  <1>1. IInv => TypeOK
    BY DEF IInv
  <1> QED BY <1>1, LedgerInvariant, PTL

\* The compare-and-swaps of reserve_repo_budget and settle_repo_budget, the
\* reaper and --raise-budget keep what is spent and held within the run's and
\* every repo's ceiling, in any number of processes.
THEOREM LedgerCeilings == Spec => []CeilingsHold
  <1>1. IInv => CeilingsHold
    BY DEF IInv
  <1> QED BY <1>1, LedgerInvariant, PTL


-----------------------------------------------------------------------------
(* Sums.  MapThenSumSet is a recursive function over the subsets of a set; *)
(* what it is follows from counterexamples of least cardinality.           *)

\* Among finite sets there is one with the fewest elements.
LEMMA FewestElements ==
  ASSUME NEW B, B # {}, \A T \in B : IsFiniteSet(T)
  PROVE  \E T \in B : \A U \in B : Cardinality(T) <= Cardinality(U)
  <1> DEFINE R == {ss \in Nat \X Nat : ss[1] < ss[2]}
             N == {Cardinality(T) : T \in B}
  <1>1. N \in SUBSET Nat /\ N # {}
    BY FS_CardinalityType
  <1>2. IsWellFoundedOn(R, Nat)
    BY NatLessThanWellFounded DEF OpToRel
  <1>3. PICK n \in N : \A m \in N : ~(<<m, n>> \in R)
    <2> HIDE DEF R, N
    <2> QED BY <1>1, <1>2, WFMin, Zenon
  <1>4. PICK T \in B : n = Cardinality(T)
    BY <1>3
  <1>5. ASSUME NEW U \in B PROVE Cardinality(T) <= Cardinality(U)
    <2> DEFINE m == Cardinality(U)
    <2>1. m \in N /\ m \in Nat /\ n \in Nat
      BY <1>1
    <2> HIDE DEF m
    <2>2. m < n => <<m, n>> \in R
      BY <2>1
    <2>3. ~(m < n)
      BY <1>3, <2>1, <2>2
    <2>4. n <= m
      BY <2>1, <2>3
    <2> QED BY <1>4, <2>4 DEF m
  <1> QED BY <1>5

Pick(s) == CHOOSE x \in s : TRUE

\* f sums w over the members of D, the way MapThenSumSet does.
Adds(w, D, f) ==
  f = [s \in D |-> IF s = {} THEN 0 ELSE w[Pick(s)] + f[s \ {Pick(s)}]]

\* The members of D with at most n elements.
Small(S, n) == {s \in SUBSET S : Cardinality(s) <= n}

LEMMA PickLess ==
  ASSUME NEW s, IsFiniteSet(s), s # {}
  PROVE  /\ Pick(s) \in s /\ IsFiniteSet(s \ {Pick(s)})
         /\ Cardinality(s) \in Nat /\ Cardinality(s) # 0
         /\ Cardinality(s \ {Pick(s)}) = Cardinality(s) - 1
  <1>1. Pick(s) \in s
    BY DEF Pick
  <1> HIDE DEF Pick
  <1> QED BY <1>1, FS_RemoveElement, FS_CardinalityType, FS_EmptySet

LEMMA AddsSmall ==
  ASSUME NEW w, NEW S, IsFiniteSet(S), NEW n \in Nat
  PROVE  \E f : Adds(w, Small(S, n), f)
  <1> DEFINE Bad == {m \in Nat : ~ \E f : Adds(w, Small(S, m), f)}
  <1>1. SUFFICES ASSUME Bad # {} PROVE FALSE
    OBVIOUS
  <1> DEFINE R == {ss \in Nat \X Nat : ss[1] < ss[2]}
  <1>2. PICK m \in Bad : \A k \in Bad : ~(<<k, m>> \in R)
    <2>1. IsWellFoundedOn(R, Nat)
      BY NatLessThanWellFounded DEF OpToRel
    <2>2. Bad \in SUBSET Nat
      OBVIOUS
    <2> HIDE DEF R, Bad
    <2> QED BY <1>1, <2>1, <2>2, WFMin, Zenon
  <1>3. m \in Nat /\ ~ \E f : Adds(w, Small(S, m), f)
    OBVIOUS
  <1>4. \A s \in SUBSET S : IsFiniteSet(s) /\ Cardinality(s) \in Nat
    BY FS_Subset, FS_CardinalityType
  <1>5. CASE m = 0
    <2>1. \A s \in Small(S, 0) : s = {}
      BY <1>4, FS_EmptySet DEF Small
    <2> DEFINE g == [s \in Small(S, 0) |-> 0]
               G(s) == IF s = {} THEN 0 ELSE w[Pick(s)] + g[s \ {Pick(s)}]
    <2>2. \A s \in Small(S, 0) : g[s] = G(s)
      BY <2>1
    <2>3. g = [s \in Small(S, 0) |-> g[s]]
      OBVIOUS
    <2> HIDE DEF g
    <2>4. g = [s \in Small(S, 0) |-> G(s)]
      BY <2>2, <2>3, Zenon
    <2> QED BY <1>3, <1>5, <2>4 DEF Adds
  <1>6. CASE m # 0
    <2>1. m - 1 \in Nat /\ <<m - 1, m>> \in R
      BY <1>3, <1>6
    <2>2. m - 1 \notin Bad
      <3> HIDE DEF R, Bad
      <3> QED BY <1>2, <2>1
    <2>3. PICK f : Adds(w, Small(S, m - 1), f)
      BY <2>1, <2>2
    <2> DEFINE h == [s \in Small(S, m - 1) |-> f[s]]
               g == [s \in Small(S, m) |-> IF s \in Small(S, m - 1) THEN f[s]
                                          ELSE w[Pick(s)] + f[s \ {Pick(s)}]]
               G(s) == IF s = {} THEN 0 ELSE w[Pick(s)] + g[s \ {Pick(s)}]
    <2>4. ASSUME NEW s \in Small(S, m) PROVE g[s] = G(s)
      <3>1. s \in SUBSET S /\ IsFiniteSet(s)
        BY <1>4 DEF Small
      <3>2. s = {} => s \in Small(S, m - 1)
        BY <2>1, FS_EmptySet DEF Small
      <3>3. s # {} => s \ {Pick(s)} \in Small(S, m - 1) /\ s \ {Pick(s)} \in Small(S, m)
        <4>1. ASSUME s # {} PROVE s \ {Pick(s)} \in Small(S, m - 1) /\ s \ {Pick(s)} \in Small(S, m)
          <5>1. Cardinality(s) <= m /\ Cardinality(s) \in Nat
                /\ Cardinality(s \ {Pick(s)}) = Cardinality(s) - 1
            BY <3>1, <4>1, PickLess DEF Small
          <5>2. Cardinality(s \ {Pick(s)}) <= m - 1 /\ Cardinality(s \ {Pick(s)}) <= m
            BY <1>3, <5>1
          <5> QED BY <3>1, <5>2 DEF Small
        <4> QED BY <4>1
      <3>4. s # {} => g[s \ {Pick(s)}] = f[s \ {Pick(s)}]
        BY <3>3
      <3>5. s \in Small(S, m - 1) =>
              f[s] = IF s = {} THEN 0 ELSE w[Pick(s)] + f[s \ {Pick(s)}]
        BY <2>3, Zenon DEF Adds
      <3>6. g[s] = IF s \in Small(S, m - 1) THEN f[s] ELSE w[Pick(s)] + f[s \ {Pick(s)}]
        OBVIOUS
      <3> HIDE DEF g
      <3> QED BY <3>2, <3>4, <3>5, <3>6
    <2>5. g = [s \in Small(S, m) |-> g[s]]
      OBVIOUS
    <2> HIDE DEF g
    <2>6. g = [s \in Small(S, m) |-> G(s)]
      BY <2>4, <2>5, Zenon
    <2> QED BY <1>3, <2>6 DEF Adds
  <1> QED BY <1>5, <1>6

\* f sums w over every subset of S.
Sums(w, S, f) == Adds(w, SUBSET S, f)

LEMMA AddsExists ==
  ASSUME NEW w, NEW S, IsFiniteSet(S)
  PROVE  \E f : Sums(w, S, f)
  <1>1. Cardinality(S) \in Nat
    BY FS_CardinalityType
  <1>2. SUBSET S = Small(S, Cardinality(S))
    BY FS_Subset DEF Small
  <1>3. \E f : Adds(w, Small(S, Cardinality(S)), f)
    BY <1>1, AddsSmall
  <1> QED BY <1>2, <1>3, Zenon DEF Sums

LEMMA AddsUnique ==
  ASSUME NEW w, NEW S, IsFiniteSet(S), NEW S2, NEW f, Sums(w, S, f),
         NEW g, Sums(w, S2, g), NEW T, T \subseteq S, T \subseteq S2
  PROVE  f[T] = g[T]
  <1> DEFINE Bad == {s \in (SUBSET S) \cap (SUBSET S2) : f[s] # g[s]}
  <1>1. SUFFICES ASSUME Bad # {} PROVE FALSE
    OBVIOUS
  <1>2. \A s \in Bad : IsFiniteSet(s)
    BY FS_Subset
  <1>3. PICK s \in Bad : \A u \in Bad : Cardinality(s) <= Cardinality(u)
    <2> HIDE DEF Bad
    <2> QED BY <1>1, <1>2, FewestElements
  <1>4. s \in SUBSET S /\ s \in SUBSET S2 /\ f[s] # g[s]
    OBVIOUS
  <1>5. /\ f[s] = IF s = {} THEN 0 ELSE w[Pick(s)] + f[s \ {Pick(s)}]
        /\ g[s] = IF s = {} THEN 0 ELSE w[Pick(s)] + g[s \ {Pick(s)}]
    BY <1>4, Zenon DEF Adds, Sums
  <1>6. s # {}
    BY <1>4, <1>5
  <1>7. /\ Cardinality(s) \in Nat
        /\ Cardinality(s \ {Pick(s)}) = Cardinality(s) - 1
    BY <1>2, <1>6, PickLess
  <1>8. s \ {Pick(s)} \notin Bad
    <2>1. ~(Cardinality(s) <= Cardinality(s \ {Pick(s)}))
      BY <1>7
    <2> HIDE DEF Bad
    <2> QED BY <1>3, <2>1
  <1>9. f[s \ {Pick(s)}] = g[s \ {Pick(s)}]
    <2>1. s \ {Pick(s)} \in (SUBSET S) \cap (SUBSET S2)
      BY <1>4
    <2> QED BY <1>8, <2>1
  <1> QED BY <1>4, <1>5, <1>9

\* The sum of w over T.
Total(w, T) == (CHOOSE f : Sums(w, T, f))[T]

LEMMA TotalIs ==
  ASSUME NEW w, NEW S, IsFiniteSet(S), NEW f, Sums(w, S, f), NEW T \in SUBSET S
  PROVE  f[T] = Total(w, T)
  <1> DEFINE g == CHOOSE h : Sums(w, T, h)
  <1>1. Sums(w, T, g)
    BY FS_Subset, AddsExists
  <1> HIDE DEF g
  <1>2. ASSUME NEW S2, NEW h, Sums(w, S2, h), T \subseteq S2
        PROVE  f[T] = h[T]
    BY <1>2, AddsUnique
  <1>3. f[T] = g[T]
    BY <1>1, <1>2
  <1> QED BY <1>3 DEF Total, g

LEMMA TotalStep ==
  ASSUME NEW w, NEW T, IsFiniteSet(T)
  PROVE  Total(w, T) = IF T = {} THEN 0 ELSE w[Pick(T)] + Total(w, T \ {Pick(T)})
  <1>1. PICK f : Sums(w, T, f)
    BY AddsExists
  <1>2. T \in SUBSET T /\ T \ {Pick(T)} \in SUBSET T
    OBVIOUS
  <1>3. f[T] = IF T = {} THEN 0 ELSE w[Pick(T)] + f[T \ {Pick(T)}]
    BY <1>1, <1>2, Zenon DEF Adds, Sums
  <1>4. f[T] = Total(w, T) /\ f[T \ {Pick(T)}] = Total(w, T \ {Pick(T)})
    BY <1>1, <1>2, TotalIs, ZenonT(30)
  <1> QED BY <1>3, <1>4

LEMMA TotalType ==
  ASSUME NEW S, IsFiniteSet(S), NEW w, \A x \in S : w[x] \in Nat, NEW T \in SUBSET S
  PROVE  Total(w, T) \in Nat
  <1> DEFINE Bad == {s \in SUBSET S : Total(w, s) \notin Nat}
  <1>1. SUFFICES ASSUME Bad # {} PROVE FALSE
    OBVIOUS
  <1>2. \A s \in Bad : IsFiniteSet(s)
    BY FS_Subset
  <1>3. PICK s \in Bad : \A u \in Bad : Cardinality(s) <= Cardinality(u)
    <2> HIDE DEF Bad
    <2> QED BY <1>1, <1>2, FewestElements
  <1>4. s \in SUBSET S /\ Total(w, s) \notin Nat /\ IsFiniteSet(s)
    BY <1>2
  <1>5. Total(w, s) = IF s = {} THEN 0 ELSE w[Pick(s)] + Total(w, s \ {Pick(s)})
    BY <1>4, TotalStep
  <1>6. s # {}
    BY <1>4, <1>5
  <1>7. /\ Pick(s) \in s /\ Cardinality(s) \in Nat
        /\ Cardinality(s \ {Pick(s)}) = Cardinality(s) - 1
    BY <1>4, <1>6, PickLess
  <1>8. s \ {Pick(s)} \notin Bad
    <2>1. ~(Cardinality(s) <= Cardinality(s \ {Pick(s)}))
      BY <1>7
    <2> HIDE DEF Bad
    <2> QED BY <1>3, <2>1
  <1>9. Total(w, s \ {Pick(s)}) \in Nat
    BY <1>4, <1>8
  <1>10. w[Pick(s)] \in Nat
    BY <1>4, <1>7
  <1> QED BY <1>4, <1>5, <1>6, <1>9, <1>10

LEMMA TotalSame ==
  ASSUME NEW T, IsFiniteSet(T), NEW w, NEW v, \A x \in T : w[x] = v[x]
  PROVE  Total(w, T) = Total(v, T)
  <1> DEFINE Bad == {s \in SUBSET T : Total(w, s) # Total(v, s)}
  <1>1. SUFFICES ASSUME Bad # {} PROVE FALSE
    OBVIOUS
  <1>2. \A s \in Bad : IsFiniteSet(s)
    BY FS_Subset
  <1>3. PICK s \in Bad : \A u \in Bad : Cardinality(s) <= Cardinality(u)
    <2> HIDE DEF Bad
    <2> QED BY <1>1, <1>2, FewestElements
  <1>4. s \in SUBSET T /\ Total(w, s) # Total(v, s) /\ IsFiniteSet(s)
    BY <1>2
  <1>5. /\ Total(w, s) = IF s = {} THEN 0 ELSE w[Pick(s)] + Total(w, s \ {Pick(s)})
        /\ Total(v, s) = IF s = {} THEN 0 ELSE v[Pick(s)] + Total(v, s \ {Pick(s)})
    BY <1>4, TotalStep
  <1>6. s # {}
    BY <1>4, <1>5
  <1>7. /\ Pick(s) \in s /\ Cardinality(s) \in Nat
        /\ Cardinality(s \ {Pick(s)}) = Cardinality(s) - 1
    BY <1>4, <1>6, PickLess
  <1>8. s \ {Pick(s)} \notin Bad
    <2>1. ~(Cardinality(s) <= Cardinality(s \ {Pick(s)}))
      BY <1>7
    <2> HIDE DEF Bad
    <2> QED BY <1>3, <2>1
  <1>9. Total(w, s \ {Pick(s)}) = Total(v, s \ {Pick(s)})
    BY <1>4, <1>8
  <1>10. w[Pick(s)] = v[Pick(s)]
    BY <1>4, <1>7
  <1> QED BY <1>4, <1>5, <1>9, <1>10

\* The order of the terms does not matter.
LEMMA TotalAdd ==
  ASSUME NEW S, IsFiniteSet(S), NEW w, \A x \in S : w[x] \in Nat,
         NEW T \in SUBSET S, NEW z \in S \ T
  PROVE  Total(w, T \cup {z}) = Total(w, T) + w[z]
  <1> DEFINE Bad == {s \in SUBSET S : \E x \in S \ s : Total(w, s \cup {x}) # Total(w, s) + w[x]}
  <1>1. SUFFICES ASSUME Bad # {} PROVE FALSE
    OBVIOUS
  <1>2. \A s \in Bad : IsFiniteSet(s)
    BY FS_Subset
  <1>3. PICK s \in Bad : \A u \in Bad : Cardinality(s) <= Cardinality(u)
    <2> HIDE DEF Bad
    <2> QED BY <1>1, <1>2, FewestElements
  <1>4. PICK x \in S \ s : Total(w, s \cup {x}) # Total(w, s) + w[x]
    OBVIOUS
  <1>5. s \in SUBSET S /\ IsFiniteSet(s)
    BY <1>2
  <1> HIDE DEF Bad
  <1> DEFINE v == s \cup {x}
             y == Pick(v)
  <1>6. IsFiniteSet(v) /\ v # {} /\ v \in SUBSET S
    BY <1>5, FS_AddElement
  <1>7. y \in v /\ Total(w, v) = w[y] + Total(w, v \ {y})
    BY <1>6, PickLess, TotalStep
  <1> HIDE DEF y
  <1>8. \A u \in SUBSET S : Total(w, u) \in Nat
    BY TotalType
  <1>9. w[x] \in Nat /\ w[y] \in Nat
    BY <1>6, <1>7
  <1>10. CASE y = x
    <2>1. v \ {y} = s
      BY <1>10
    <2> QED BY <1>4, <1>5, <1>7, <1>8, <1>9, <1>10, <2>1
  <1>11. CASE y # x
    <2> DEFINE t == s \ {y}
    <2>1. y \in s /\ v \ {y} = t \cup {x} /\ s = t \cup {y} /\ t \in SUBSET S
          /\ x \in S \ t /\ y \in S \ t
      BY <1>5, <1>7, <1>11
    <2>2. Cardinality(s) \in Nat /\ Cardinality(t) = Cardinality(s) - 1
      BY <1>5, <2>1, FS_RemoveElement, FS_CardinalityType
    <2>3. t \notin Bad
      <3>1. ~(Cardinality(s) <= Cardinality(t))
        BY <2>2
      <3> QED BY <1>3, <3>1
    <2> HIDE DEF t, v
    <2>4. \A q \in S \ t : Total(w, t \cup {q}) = Total(w, t) + w[q]
      BY <2>1, <2>3 DEF Bad
    <2>5. Total(w, v \ {y}) = Total(w, t) + w[x] /\ Total(w, s) = Total(w, t) + w[y]
      BY <2>1, <2>4
    <2>6. Total(w, t) \in Nat
      BY <1>8, <2>1
    <2>7. Total(w, v) = Total(w, s) + w[x]
      BY <1>7, <1>9, <2>5, <2>6
    <2> QED BY <1>4, <2>7 DEF v
  <1> QED BY <1>10, <1>11

\* The sum over two disjoint sets.
LEMMA TotalUnion ==
  ASSUME NEW S, IsFiniteSet(S), NEW w, \A x \in S : w[x] \in Nat,
         NEW A \in SUBSET S, NEW B \in SUBSET S, A \cap B = {}
  PROVE  Total(w, A \cup B) = Total(w, A) + Total(w, B)
  <1> DEFINE Bad == {s \in SUBSET B : Total(w, A \cup s) # Total(w, A) + Total(w, s)}
  <1>1. SUFFICES ASSUME Bad # {} PROVE FALSE
    OBVIOUS
  <1>2. \A s \in Bad : IsFiniteSet(s)
    BY FS_Subset
  <1>3. PICK s \in Bad : \A u \in Bad : Cardinality(s) <= Cardinality(u)
    <2> HIDE DEF Bad
    <2> QED BY <1>1, <1>2, FewestElements
  <1>4. s \in SUBSET B /\ Total(w, A \cup s) # Total(w, A) + Total(w, s) /\ IsFiniteSet(s)
    BY <1>2
  <1>5. \A u \in SUBSET S : Total(w, u) \in Nat
    BY TotalType
  <1>6. s # {}
    <2>1. Total(w, {}) = 0
      BY FS_EmptySet, TotalStep
    <2>2. ASSUME s = {} PROVE FALSE
      <3>1. A \cup s = A /\ Total(w, s) = 0
        BY <2>1, <2>2
      <3>2. Total(w, A) \in Nat
        BY <1>5
      <3>3. Total(w, A \cup s) = Total(w, A)
        BY <3>1
      <3> DEFINE a == Total(w, A)
      <3>4. a + Total(w, s) = a
        <4> HIDE DEF a
        <4> QED BY <3>1, <3>2 DEF a
      <3> QED BY <1>4, <3>3, <3>4
    <2> QED BY <2>2
  <1>7. PICK y \in s : TRUE
    BY <1>6
  <1> DEFINE t == s \ {y}
  <1>8. /\ t \in SUBSET B /\ t \in SUBSET S /\ y \in S \ t /\ s = t \cup {y}
        /\ A \cup t \in SUBSET S /\ y \in S \ (A \cup t)
        /\ A \cup s = (A \cup t) \cup {y}
    BY <1>4, <1>7
  <1>9. Cardinality(s) \in Nat /\ Cardinality(t) = Cardinality(s) - 1
    BY <1>4, <1>7, FS_RemoveElement, FS_CardinalityType
  <1>10. t \notin Bad
    <2>1. ~(Cardinality(s) <= Cardinality(t))
      BY <1>9
    <2> HIDE DEF Bad
    <2> QED BY <1>3, <2>1
  <1> HIDE DEF t
  <1>11. Total(w, A \cup t) = Total(w, A) + Total(w, t)
    BY <1>8, <1>10
  <1>12. Total(w, A \cup s) = Total(w, A \cup t) + w[y] /\ Total(w, s) = Total(w, t) + w[y]
    BY <1>8, TotalAdd
  <1>13. w[y] \in Nat /\ Total(w, A) \in Nat /\ Total(w, t) \in Nat
    BY <1>5, <1>8
  <1>14. Total(w, A \cup s) = Total(w, A) + Total(w, s)
    BY <1>11, <1>12, <1>13
  <1> QED BY <1>4, <1>14

\* What MapThenSumSet(LAMBDA c : w[c], S) unfolds to, given field by field.
SumsUnfolded(g, S, f) ==
  f = [s \in SUBSET S |-> IF s = {} THEN 0
                          ELSE LET x == CHOOSE x \in s : TRUE IN g[x] + f[s \ {x}]]

LEMMA UnfoldedIsTotal ==
  ASSUME NEW g, NEW S, IsFiniteSet(S)
  PROVE  (CHOOSE f : SumsUnfolded(g, S, f))[S] = Total(g, S)
  <1>1. \A f : SumsUnfolded(g, S, f) <=> Sums(g, S, f)
    BY DEF SumsUnfolded, Sums, Adds, Pick
  <1> DEFINE F == CHOOSE f : SumsUnfolded(g, S, f)
  <1>2. SumsUnfolded(g, S, F)
    BY <1>1, AddsExists
  <1> HIDE DEF F
  <1>3. Sums(g, S, F) /\ S \in SUBSET S
    BY <1>1, <1>2
  <1>4. F[S] = Total(g, S)
    BY <1>3, TotalIs, Zenon
  <1> QED BY <1>4 DEF F

-----------------------------------------------------------------------------
(* Accounting, with the sums as functions of the tables *)

Amt(R) == [c \in Calls |-> R[c].amount]
Act(C) == [c \in Calls |-> C[c].actual]
HeldIn(R, S) == {c \in S : R[c].state = "HELD"}
OnRepo(R, r) == {c \in Calls : r \in R[c].repo}
SettledIn(R) == {c \in Calls : R[c].state = "SETTLED"}

Balanced(n, t, R, C) ==
  /\ n.reserved = Total(Amt(R), HeldIn(R, Calls))
  /\ \A r \in Repos : t[r].reserved = Total(Amt(R), HeldIn(R, OnRepo(R, r)))
  /\ n.spent = Total(Act(C), SettledIn(R))

LEMMA AmountIsTotal ==
  ASSUME NEW S \in SUBSET Calls
  PROVE  Amount(S) = Total(Amt(res), S)
  <1> DEFINE P(f) == f = [s \in SUBSET S |-> IF s = {} THEN 0
                            ELSE LET x == CHOOSE x \in s : TRUE IN res[x].amount + f[s \ {x}]]
  <1>1. Amount(S) = (CHOOSE f : P(f))[S]
    BY DEF Amount, MapThenSumSet, MapThenFoldSet
  <1>2. \A f : P(f) <=> SumsUnfolded(Amt(res), S, f)
    <2> SUFFICES ASSUME NEW f PROVE P(f) <=> SumsUnfolded(Amt(res), S, f)
      OBVIOUS
    <2> DEFINE G(s) == IF s = {} THEN 0
                         ELSE LET x == CHOOSE x \in s : TRUE IN res[x].amount + f[s \ {x}]
               H(s) == IF s = {} THEN 0
                         ELSE LET x == CHOOSE x \in s : TRUE IN Amt(res)[x] + f[s \ {x}]
    <2>1. P(f) <=> f = [s \in SUBSET S |-> G(s)]
      OBVIOUS
    <2>2. SumsUnfolded(Amt(res), S, f) <=> f = [s \in SUBSET S |-> H(s)]
      BY DEF SumsUnfolded
    <2>3. ASSUME NEW s \in SUBSET S PROVE G(s) = H(s)
      <3>1. s # {} => (CHOOSE x \in s : TRUE) \in Calls
        OBVIOUS
      <3> QED BY <3>1 DEF Amt
    <2> HIDE DEF G, H, P
    <2>4. [s \in SUBSET S |-> G(s)] = [s \in SUBSET S |-> H(s)]
      BY <2>3
    <2> QED BY <2>1, <2>2, <2>4
  <1> HIDE DEF P
  <1>3. (CHOOSE f : P(f)) = CHOOSE f : SumsUnfolded(Amt(res), S, f)
    BY <1>2, Zenon
  <1>4. IsFiniteSet(S)
    BY LedgerAssumption, FS_Subset
  <1> QED BY <1>1, <1>3, <1>4, UnfoldedIsTotal

LEMMA SpentIsTotal ==
  ASSUME NEW S \in SUBSET Calls
  PROVE  MapThenSumSet(LAMBDA c : call[c].actual, S) = Total(Act(call), S)
  <1> DEFINE P(f) == f = [s \in SUBSET S |-> IF s = {} THEN 0
                            ELSE LET x == CHOOSE x \in s : TRUE IN call[x].actual + f[s \ {x}]]
  <1>1. MapThenSumSet(LAMBDA c : call[c].actual, S) = (CHOOSE f : P(f))[S]
    BY DEF MapThenSumSet, MapThenFoldSet
  <1>2. \A f : P(f) <=> SumsUnfolded(Act(call), S, f)
    <2> SUFFICES ASSUME NEW f PROVE P(f) <=> SumsUnfolded(Act(call), S, f)
      OBVIOUS
    <2> DEFINE G(s) == IF s = {} THEN 0
                         ELSE LET x == CHOOSE x \in s : TRUE IN call[x].actual + f[s \ {x}]
               H(s) == IF s = {} THEN 0
                         ELSE LET x == CHOOSE x \in s : TRUE IN Act(call)[x] + f[s \ {x}]
    <2>1. P(f) <=> f = [s \in SUBSET S |-> G(s)]
      OBVIOUS
    <2>2. SumsUnfolded(Act(call), S, f) <=> f = [s \in SUBSET S |-> H(s)]
      BY DEF SumsUnfolded
    <2>3. ASSUME NEW s \in SUBSET S PROVE G(s) = H(s)
      <3>1. s # {} => (CHOOSE x \in s : TRUE) \in Calls
        OBVIOUS
      <3> QED BY <3>1 DEF Act
    <2> HIDE DEF G, H, P
    <2>4. [s \in SUBSET S |-> G(s)] = [s \in SUBSET S |-> H(s)]
      BY <2>3
    <2> QED BY <2>1, <2>2, <2>4
  <1> HIDE DEF P
  <1>3. (CHOOSE f : P(f)) = CHOOSE f : SumsUnfolded(Act(call), S, f)
    BY <1>2, Zenon
  <1>4. IsFiniteSet(S)
    BY LedgerAssumption, FS_Subset
  <1> QED BY <1>1, <1>3, <1>4, UnfoldedIsTotal

LEMMA AccountingIsBalanced == Accounting <=> Balanced(run, repo, res, call)
  <1>1. /\ HeldBy(Calls) = HeldIn(res, Calls) /\ HeldBy(Calls) \in SUBSET Calls
        /\ \A r \in Repos : /\ HeldBy({c \in Calls : r \in res[c].repo}) = HeldIn(res, OnRepo(res, r))
                            /\ HeldIn(res, OnRepo(res, r)) \in SUBSET Calls
        /\ SettledIn(res) \in SUBSET Calls
    BY DEF HeldBy, HeldIn, OnRepo, SettledIn
  <1>2. \A S \in SUBSET Calls : Amount(S) = Total(Amt(res), S)
    BY AmountIsTotal
  <1>3. MapThenSumSet(LAMBDA c : call[c].actual, {c \in Calls : res[c].state = "SETTLED"})
          = Total(Act(call), SettledIn(res))
    BY <1>1, SpentIsTotal DEF SettledIn
  <1> QED BY <1>1, <1>2, <1>3 DEF Accounting, Balanced

-----------------------------------------------------------------------------
(* A hold and the call that minted it *)

\* A call has no reservation before its CAS; its reservation carries its
\* estimate and its repo; and once that is settled its worker is over.
HoldsMatch ==
  \A c \in Calls :
    /\ call[c].pc \in {"new", "top", "open", "cas", "norepo", "norun", "wait"} =>
         res[c].state = "none"
    /\ res[c].state # "none" => res[c].amount = call[c].est /\ res[c].repo = call[c].r
    /\ res[c].state = "SETTLED" => call[c].pc \in {"release", "done", "gone"}

\* Reservations change neither their amount nor their repo, and those that are
\* settled stay what they are, with what their calls spent.
SameHolds(R2, C2) ==
  /\ \A c \in Calls : /\ R2[c].state = res[c].state /\ R2[c].amount = res[c].amount
                      /\ R2[c].repo = res[c].repo
                      /\ res[c].state = "SETTLED" => C2[c].actual = call[c].actual

SameBalance(n, t) ==
  /\ n.reserved = run.reserved /\ n.spent = run.spent
  /\ \A r \in Repos : t[r].reserved = repo[r].reserved

\* Steps that move no dollar keep the balance.
LEMMA BalanceKept ==
  ASSUME Balanced(run, repo, res, call), NEW n, NEW t, NEW R2, NEW C2,
         SameHolds(R2, C2), SameBalance(n, t)
  PROVE  Balanced(n, t, R2, C2)
  <1>1. ASSUME NEW S \in SUBSET Calls
        PROVE  HeldIn(R2, S) = HeldIn(res, S) /\ Total(Amt(R2), HeldIn(R2, S)) = Total(Amt(res), HeldIn(res, S))
    <2>1. HeldIn(R2, S) = HeldIn(res, S) /\ HeldIn(res, S) \in SUBSET Calls
      BY DEF HeldIn, SameHolds
    <2>2. IsFiniteSet(HeldIn(res, S))
      BY <2>1, LedgerAssumption, FS_Subset
    <2>3. \A c \in HeldIn(res, S) : Amt(R2)[c] = Amt(res)[c]
      BY <2>1 DEF SameHolds, Amt
    <2>4. Total(Amt(R2), HeldIn(res, S)) = Total(Amt(res), HeldIn(res, S))
      BY <2>2, <2>3, TotalSame
    <2> QED BY <2>1, <2>4
  <1>2. ASSUME NEW r \in Repos
        PROVE  OnRepo(R2, r) = OnRepo(res, r) /\ OnRepo(res, r) \in SUBSET Calls
    BY DEF OnRepo, SameHolds
  <1>3. Total(Act(C2), SettledIn(R2)) = Total(Act(call), SettledIn(res))
    <2>1. SettledIn(R2) = SettledIn(res) /\ SettledIn(res) \in SUBSET Calls
      BY DEF SettledIn, SameHolds
    <2>2. IsFiniteSet(SettledIn(res))
      BY <2>1, LedgerAssumption, FS_Subset
    <2>3. \A c \in SettledIn(res) : Act(C2)[c] = Act(call)[c]
      BY DEF SettledIn, SameHolds, Act
    <2>4. Total(Act(C2), SettledIn(res)) = Total(Act(call), SettledIn(res))
      BY <2>2, <2>3, TotalSame
    <2> QED BY <2>1, <2>4
  <1>4. \A r \in Repos : Total(Amt(R2), HeldIn(R2, OnRepo(R2, r)))
                           = Total(Amt(res), HeldIn(res, OnRepo(res, r)))
    BY <1>1, <1>2
  <1> QED BY <1>1, <1>3, <1>4 DEF Balanced, SameBalance

\* What a step that is neither a grant, a settlement nor a reap does.
Idle ==
  /\ SameHolds(res', call') /\ SameBalance(run', repo')

\* A call that moves from one pc to another keeps the holds matched.
LEMMA GotoMatch ==
  ASSUME TypeOK, HoldsMatch, NEW c \in Calls, NEW pc \in Active \cup Ended, Goto(c, pc), res' = res,
         \/ res[c].state = "none"
         \/ pc \notin {"new", "top", "open", "cas", "norepo", "norun", "wait"},
         res[c].state = "SETTLED" => pc \in {"release", "done", "gone"}
  PROVE  HoldsMatch' /\ SameHolds(res', call')
  <1>1. \A d \in Calls : /\ call'[d].r = call[d].r /\ call'[d].est = call[d].est
                         /\ call'[d].actual = call[d].actual
                         /\ call'[d].pc = IF d = c THEN pc ELSE call[d].pc
    BY DEF Goto, TypeOK, Dispatch
  <1> QED BY <1>1 DEF HoldsMatch, SameHolds

\* A set of calls that are dropped or moved to the end.
LEMMA DropMatch ==
  ASSUME TypeOK, HoldsMatch, res' = res,
         \A d \in Calls :
           /\ call'[d].r = call[d].r /\ call'[d].est = call[d].est
           /\ res[d].state = "SETTLED" => /\ call'[d].pc \in {"release", "done", "gone"}
                                          /\ call'[d].actual = call[d].actual
           /\ \/ call'[d].pc = call[d].pc
              \/ call'[d].pc \notin {"new", "top", "open", "cas", "norepo", "norun", "wait"}
  PROVE  HoldsMatch' /\ SameHolds(res', call')
  BY DEF HoldsMatch, SameHolds

\* Matched, and in balance.
AccountsInv == HoldsMatch /\ Balanced(run, repo, res, call)

Kept == HoldsMatch' /\ SameHolds(res', call') /\ SameBalance(run', repo')

\* Steps of a process other than the reaper's.
LEMMA ProcessKept ==
  ASSUME IInv, HoldsMatch, NEW p \in Procs,
         EnterCommand(p) \/ OpenLedger(p) \/ Exit(p) \/ Crash(p) \/ HaltProcess(p)
  PROVE  Kept
  <1>t. TypeOK
    BY DEF IInv
  <1>1. ASSUME UNCHANGED <<repo, res, call>>, run' = run \/ run' = [run EXCEPT !.max = RunMax]
        PROVE  Kept
    <2>1. run'.reserved = run.reserved /\ run'.spent = run.spent
      BY <1>1, <1>t DEF TypeOK, RunRow
    <2> QED BY <1>1, <2>1 DEF Kept, SameHolds, SameBalance, HoldsMatch
  <1>2. ASSUME UNCHANGED <<run, repo, res>>,
               \A d \in Calls :
                 /\ call'[d].r = call[d].r /\ call'[d].est = call[d].est
                 /\ res[d].state = "SETTLED" => /\ call'[d].pc \in {"release", "done", "gone"}
                                                /\ call'[d].actual = call[d].actual
                 /\ \/ call'[d].pc = call[d].pc
                    \/ call'[d].pc \notin {"new", "top", "open", "cas", "norepo", "norun", "wait"}
        PROVE  Kept
    <2>1. HoldsMatch' /\ SameHolds(res', call')
      BY <1>2, <1>t, DropMatch
    <2> QED BY <1>2, <2>1 DEF Kept, SameBalance
  <1>3. CASE EnterCommand(p)
    BY <1>1, <1>3 DEF EnterCommand, durable
  <1>4. CASE OpenLedger(p)
    BY <1>1, <1>4 DEF OpenLedger
  <1>5. CASE Exit(p)
    BY <1>1, <1>5 DEF Exit, durable
  <1>6. CASE Crash(p)
    <2>1. ASSUME NEW d \in Calls
          PROVE  /\ call'[d].r = call[d].r /\ call'[d].est = call[d].est
                 /\ call'[d].actual = call[d].actual
                 /\ \/ call'[d].pc = call[d].pc \/ call'[d].pc = "gone"
      BY <1>6, <1>t DEF Crash, TypeOK, Dispatch
    <2>2. UNCHANGED <<run, repo, res>>
      BY <1>6 DEF Crash, durable
    <2> QED BY <1>2, <2>1, <2>2 DEF HoldsMatch
  <1>7. CASE HaltProcess(p)
    <2>1. ASSUME NEW d \in Calls
          PROVE  /\ call'[d].r = call[d].r /\ call'[d].est = call[d].est
                 /\ call[d].pc # "body" => call'[d].actual = call[d].actual
                 /\ \/ call'[d].pc = call[d].pc
                    \/ call'[d].pc = "settle" /\ call[d].pc = "body"
                    \/ call'[d].pc = "gone"
      <3>1. \A t \in Dispatch :
              /\ AfterCancel(t).r = t.r /\ AfterCancel(t).est = t.est
              /\ t.pc # "body" => AfterCancel(t).actual = t.actual
              /\ \/ AfterCancel(t).pc = t.pc
                 \/ AfterCancel(t).pc = "settle" /\ t.pc = "body"
                 \/ AfterCancel(t).pc = "gone"
        BY DEF AfterCancel, Dispatch
      <3> QED BY <1>7, <1>t, <3>1 DEF HaltProcess, TypeOK
    <2>2. UNCHANGED <<run, repo, res>>
      BY <1>7 DEF HaltProcess, durable
    <2>3. ASSUME NEW d \in Calls, res[d].state = "SETTLED" PROVE call[d].pc # "body"
      BY <2>3 DEF HoldsMatch
    <2>4. ASSUME NEW d \in Calls, res[d].state = "SETTLED"
          PROVE  call[d].pc \in {"release", "done", "gone"}
      BY <2>4 DEF HoldsMatch
    <2> QED BY <1>2, <2>1, <2>2, <2>3, <2>4
  <1> QED BY <1>3, <1>4, <1>5, <1>6, <1>7

\* Steps of one call that touch no reservation.
LEMMA CallKept ==
  ASSUME IInv, HoldsMatch, NEW c \in Calls,
         \/ Top(c) \/ EnsureRepoLedger(c) \/ InterpretRepoRefusal(c) \/ InterpretRefusal(c)
         \/ HaltLedger(c) \/ WaitForSettlement(c) \/ Hold(c) \/ CallBudget(c) \/ Body(c)
         \/ Release(c) \/ ExpireHold(c)
  PROVE  Kept
  <1>t. TypeOK /\ run \in RunRow /\ call[c] \in Dispatch
    BY DEF IInv, TypeOK
  <1> DEFINE early == {"new", "top", "open", "cas", "norepo", "norun", "wait"}
  <1>m. /\ call[c].pc \in early => res[c].state = "none"
        /\ res[c].state = "SETTLED" => call[c].pc \in {"release", "done", "gone"}
    BY DEF HoldsMatch
  <1>b. SameBalance(run', repo')
    <2>1. ASSUME run' = run, repo' = repo PROVE SameBalance(run', repo')
      BY <2>1 DEF SameBalance
    <2>2. ASSUME run' = [run EXCEPT !.halted = TRUE], repo' = repo
          PROVE  SameBalance(run', repo')
      BY <2>2, <1>t DEF SameBalance, RunRow
    <2> QED BY <2>1, <2>2 DEF Top, EnsureRepoLedger, InterpretRepoRefusal, InterpretRefusal,
             HaltLedger, WaitForSettlement, Hold, CallBudget, Body, Release, ExpireHold, durable
  <1> SUFFICES HoldsMatch' /\ SameHolds(res', call')
    BY <1>b DEF Kept
  <1>1. CASE ExpireHold(c)
    <2>1. \A d \in Calls : /\ res'[d].state = res[d].state /\ res'[d].amount = res[d].amount
                           /\ res'[d].repo = res[d].repo
      BY <1>1, <1>t DEF ExpireHold, TypeOK, Reservation
    <2>2. call' = call
      BY <1>1 DEF ExpireHold
    <2> QED BY <2>1, <2>2 DEF HoldsMatch, SameHolds
  <1>r. CASE ~ExpireHold(c)
    <2>0. res' = res
      BY <1>r DEF Top, EnsureRepoLedger, InterpretRepoRefusal, InterpretRefusal,
         HaltLedger, WaitForSettlement, Hold, CallBudget, Body, Release, durable
    <2>1. CASE Top(c) \/ EnsureRepoLedger(c) \/ InterpretRepoRefusal(c) \/ InterpretRefusal(c)
      <3>1. PICK pc \in Active \cup Ended : Goto(c, pc)
        BY <2>1, CheckType
           DEF Top, EnsureRepoLedger, InterpretRepoRefusal, InterpretRefusal, Active, Ended
      <3>2. call[c].pc \in early
        BY <2>1 DEF Top, EnsureRepoLedger, InterpretRepoRefusal, InterpretRefusal
      <3>3. res[c].state = "none"
        BY <1>m, <3>2
      <3> QED BY <1>t, <2>0, <3>1, <3>3, GotoMatch
    <2>2. CASE HaltLedger(c)
      BY <1>t, <1>m, <2>0, <2>2, GotoMatch DEF HaltLedger, Ended
    <2>3. CASE Hold(c)
      BY <1>t, <1>m, <2>0, <2>3, GotoMatch DEF Hold, Active
    <2>4. CASE CallBudget(c)
      BY <1>t, <1>m, <2>0, <2>4, GotoMatch DEF CallBudget, Active
    <2>5. CASE Release(c)
      BY <1>t, <1>m, <2>0, <2>5, GotoMatch DEF Release, Ended
    <2>6. CASE WaitForSettlement(c)
      <3>1. call[c].pc \in early /\ res[c].state = "none"
        BY <2>6, <1>m DEF WaitForSettlement
      <3>2. CASE Goto(c, "timeout")
        BY <1>t, <2>0, <3>1, <3>2, GotoMatch DEF Ended
      <3>3. CASE call' = [call EXCEPT ![c].pc = "top", ![c].polls = @ + 1]
        <4>1. \A d \in Calls : /\ call'[d].r = call[d].r /\ call'[d].est = call[d].est
                               /\ call'[d].actual = call[d].actual
                               /\ d # c => call'[d].pc = call[d].pc
          BY <1>t, <3>3 DEF TypeOK, Dispatch
        <4> QED BY <2>0, <3>1, <4>1 DEF HoldsMatch, SameHolds
      <3> QED BY <2>6, <3>2, <3>3 DEF WaitForSettlement
    <2>7. CASE Body(c)
      <3>1. PICK a \in Actuals \cup {0} :
              call' = [call EXCEPT ![c].pc = "settle", ![c].actual = a]
        BY <2>7 DEF Body
      <3>2. res[c].state # "SETTLED"
        BY <2>7, <1>m DEF Body
      <3>3. \A d \in Calls : /\ call'[d].r = call[d].r /\ call'[d].est = call[d].est
                             /\ d # c => call'[d].pc = call[d].pc /\ call'[d].actual = call[d].actual
                             /\ d = c => call'[d].pc = "settle"
        BY <1>t, <3>1 DEF TypeOK, Dispatch
      <3> QED BY <2>0, <3>2, <3>3 DEF HoldsMatch, SameHolds
    <2> QED BY <1>r, <2>1, <2>2, <2>3, <2>4, <2>5, <2>6, <2>7
  <1> QED BY <1>1, <1>r

\* A new call begins; the operator raises the ceiling.
LEMMA OuterKept ==
  ASSUME IInv, HoldsMatch,
         \/ \E c \in Calls, p \in Procs, r \in Repos, e \in Estimates : Begin(c, p, r, e)
         \/ RaiseBudget
  PROVE  Kept
  <1>t. TypeOK /\ run \in RunRow
    BY DEF IInv, TypeOK
  <1>1. ASSUME NEW c \in Calls, NEW p \in Procs, NEW r \in Repos, NEW e \in Estimates,
               Begin(c, p, r, e)
        PROVE  Kept
    <2>1. /\ call' = [call EXCEPT ![c] = [@ EXCEPT !.pc = "top", !.p = {p}, !.r = {r}, !.est = e]]
          /\ UNCHANGED <<run, repo, res>> /\ call[c].pc = "new"
      BY <1>1 DEF Begin, durable
    <2>2. \A d \in Calls : /\ d # c => call'[d] = call[d]
                           /\ d = c => call'[d].pc = "top" /\ call'[d].actual = call[d].actual
      BY <1>t, <2>1 DEF TypeOK, Dispatch
    <2>3. res[c].state = "none"
      BY <2>1 DEF HoldsMatch
    <2> QED BY <2>1, <2>2, <2>3 DEF Kept, HoldsMatch, SameHolds, SameBalance
  <1>2. CASE RaiseBudget
    <2>1. run' = [run EXCEPT !.max = RaisedMax, !.halted = FALSE] /\ UNCHANGED <<repo, res, call>>
      BY <1>2 DEF RaiseBudget
    <2>2. run'.reserved = run.reserved /\ run'.spent = run.spent
      BY <1>t, <2>1 DEF RunRow
    <2> QED BY <2>1, <2>2 DEF Kept, HoldsMatch, SameHolds, SameBalance
  <1> QED BY <1>1, <1>2

\* Sums of amounts and of what was spent are naturals, and reservations enter
\* and leave them one by one or as a set.
LEMMA Sizes ==
  ASSUME TypeOK
  PROVE  /\ IsFiniteSet(Calls)
         /\ \A c \in Calls : Amt(res)[c] \in Nat /\ Act(call)[c] \in Nat
         /\ \A S \in SUBSET Calls : /\ Total(Amt(res), S) \in Nat /\ Total(Act(call), S) \in Nat
                                    /\ IsFiniteSet(S)
  <1>1. IsFiniteSet(Calls)
    BY LedgerAssumption
  <1>2. \A c \in Calls : Amt(res)[c] \in Nat /\ Act(call)[c] \in Nat
    BY DEF TypeOK, Reservation, Dispatch, Amt, Act
  <1> QED BY <1>1, <1>2, TotalType, FS_Subset

\* What was reserved, less a part of it.
LEMMA MonusExact ==
  ASSUME NEW a \in Nat, NEW b \in Nat PROVE Monus(a + b, a) = b
  BY DEF Monus

\* A granted reservation enters both sums.
LEMMA GrantBalance ==
  ASSUME IInv, AccountsInv, NEW c \in Calls, call[c].pc = "cas",
         Goto(c, "granted"), ReserveRepoBudget(c)
  PROVE  AccountsInv'
  <1>t. TypeOK /\ Owned /\ run \in RunRow /\ call[c] \in Dispatch
    BY DEF IInv, TypeOK
  <1> DEFINE e == call[c].est
             q == RepoOf(c)
  <1>n. e \in Nat /\ q \in Repos /\ call[c].r = {q}
    BY <1>t, OwnerRepo DEF Dispatch, Owned, RepoOf
  <1>z. res[c].state = "none"
    BY DEF AccountsInv, HoldsMatch
  <1>1. /\ repo' = [repo EXCEPT ![q] = Grow(@, e)]
        /\ run' = [Grow(run, e) EXCEPT !.calls = @ + 1]
        /\ res' = [res EXCEPT ![c] = [state |-> "HELD", repo |-> call[c].r,
                                      amount |-> e, live |-> TRUE]]
    BY DEF ReserveRepoBudget
  <1>2. \A d \in Calls : /\ d # c => call'[d] = call[d]
                         /\ call'[d].r = call[d].r /\ call'[d].est = call[d].est
                         /\ call'[d].actual = call[d].actual
                         /\ d = c => call'[d].pc = "granted"
    BY <1>t DEF Goto, TypeOK, Dispatch
  <1>3. /\ \A d \in Calls : d # c => res'[d] = res[d]
        /\ res'[c].state = "HELD" /\ res'[c].repo = {q} /\ res'[c].amount = e
    BY <1>1, <1>t, <1>n DEF TypeOK
  <1>4. HoldsMatch'
    <2>1. call'[c].pc = "granted" /\ res'[c].state = "HELD" /\ res'[c].amount = call'[c].est
          /\ res'[c].repo = call'[c].r
      BY <1>2, <1>3, <1>n
    <2>2. \A d \in Calls : d # c => call'[d] = call[d] /\ res'[d] = res[d]
      BY <1>2, <1>3
    <2> HIDE DEF e, q
    <2> QED BY <2>1, <2>2 DEF AccountsInv, HoldsMatch
  <1>5. run'.reserved = run.reserved + e /\ run'.spent = run.spent
    BY <1>1, <1>t, <1>n DEF Grow, RunRow
  <1>6. \A r \in Repos : repo'[r].reserved = IF r = q THEN repo[r].reserved + e ELSE repo[r].reserved
    <2>1. ASSUME NEW r \in Repos, r # q PROVE repo'[r] = repo[r]
      BY <1>1, <1>t, <2>1 DEF TypeOK
    <2>2. repo'[q] = Grow(repo[q], e) /\ repo[q] \in Bucket
      BY <1>1, <1>t, <1>n DEF TypeOK
    <2>3. repo'[q].reserved = repo[q].reserved + e
      BY <2>2, <1>n, GrowBucket
    <2> HIDE DEF e, q
    <2> QED BY <2>1, <2>3
  <1> HIDE DEF e, q
  <1>7. \* a set of calls that did not hold c's amount, and one that now does
        ASSUME NEW S \in SUBSET Calls, c \notin S
        PROVE  /\ Total(Amt(res'), S) = Total(Amt(res), S)
               /\ Total(Amt(res'), S \cup {c}) = Total(Amt(res), S) + e
    <2>1. IsFiniteSet(S) /\ IsFiniteSet(Calls)
      BY <1>t, Sizes
    <2>2. \A x \in S : Amt(res')[x] = Amt(res)[x]
      BY <1>3, <1>7 DEF Amt
    <2>3. Total(Amt(res'), S) = Total(Amt(res), S)
      BY <2>1, <2>2, TotalSame
    <2>4. \A x \in Calls : Amt(res')[x] \in Nat
      BY <1>3, <1>n, <1>t DEF Amt, TypeOK, Reservation
    <2>5. Amt(res')[c] = e /\ c \in Calls \ S
      BY <1>3, <1>7 DEF Amt
    <2>6. Total(Amt(res'), S \cup {c}) = Total(Amt(res'), S) + Amt(res')[c]
      BY <2>1, <2>4, <2>5, TotalAdd
    <2> QED BY <2>3, <2>5, <2>6
  <1>8. run'.reserved = Total(Amt(res'), HeldIn(res', Calls))
    <2>1. HeldIn(res', Calls) = HeldIn(res, Calls) \cup {c}
          /\ c \notin HeldIn(res, Calls) /\ HeldIn(res, Calls) \in SUBSET Calls
      BY <1>3, <1>z DEF HeldIn
    <2> QED BY <1>5, <1>7, <2>1 DEF AccountsInv, Balanced
  <1>9. ASSUME NEW r \in Repos
        PROVE  repo'[r].reserved = Total(Amt(res'), HeldIn(res', OnRepo(res', r)))
    <2> DEFINE H == HeldIn(res, OnRepo(res, r))
    <2>1. c \notin H /\ H \in SUBSET Calls
          /\ HeldIn(res', OnRepo(res', r)) = IF r = q THEN H \cup {c} ELSE H
      BY <1>3, <1>z DEF HeldIn, OnRepo
    <2>2. repo[r].reserved = Total(Amt(res), H)
      BY DEF AccountsInv, Balanced
    <2> HIDE DEF H
    <2>3. Total(Amt(res'), H) = Total(Amt(res), H)
          /\ Total(Amt(res'), H \cup {c}) = Total(Amt(res), H) + e
      BY <1>7, <2>1
    <2> QED BY <1>6, <2>1, <2>2, <2>3
  <1>10. run'.spent = Total(Act(call'), SettledIn(res'))
    <2>1. SettledIn(res') = SettledIn(res) /\ SettledIn(res) \in SUBSET Calls
      BY <1>3, <1>z DEF SettledIn
    <2>2. IsFiniteSet(SettledIn(res))
      BY <1>t, <2>1, Sizes
    <2>3. \A x \in SettledIn(res) : Act(call')[x] = Act(call)[x]
      BY <1>2 DEF Act, SettledIn
    <2>4. Total(Act(call'), SettledIn(res)) = Total(Act(call), SettledIn(res))
      BY <2>2, <2>3, TotalSame
    <2> QED BY <1>5, <2>1, <2>4 DEF AccountsInv, Balanced
  <1> QED BY <1>4, <1>8, <1>9, <1>10 DEF AccountsInv, Balanced

\* A settled reservation leaves what is held and enters what is spent.
LEMMA SettleBalance ==
  ASSUME IInv, AccountsInv, NEW c \in Calls, call[c].pc = "settle", Settle(c), Settleable(c)
  PROVE  AccountsInv'
  <1>t. TypeOK /\ Owned /\ run \in RunRow /\ call[c] \in Dispatch
    BY DEF IInv, TypeOK
  <1> DEFINE e == call[c].est
             a == call[c].actual
             q == RepoOf(c)
  <1>n. e \in Nat /\ a \in Nat /\ q \in Repos /\ call[c].r = {q} /\ repo[q] \in Bucket
    BY <1>t, OwnerRepo, ZenonT(30) DEF Dispatch, Owned, RepoOf, TypeOK
  <1>z. res[c].state = "HELD" /\ res[c].amount = e /\ res[c].repo = {q}
    BY <1>n DEF Settleable, AccountsInv, HoldsMatch
  <1>1. /\ repo' = [repo EXCEPT ![q] = Shrink(@, e, a)]
        /\ run' = Shrink(run, e, a)
        /\ res' = [res EXCEPT ![c].state = "SETTLED"]
        /\ Goto(c, "release")
    BY DEF Settle
  <1>2. \A d \in Calls : /\ d # c => call'[d] = call[d]
                         /\ call'[d].r = call[d].r /\ call'[d].est = call[d].est
                         /\ call'[d].actual = call[d].actual
                         /\ d = c => call'[d].pc = "release"
    BY <1>t, <1>1 DEF Goto, TypeOK, Dispatch
  <1>3. /\ \A d \in Calls : d # c => res'[d] = res[d]
        /\ res'[c].state = "SETTLED" /\ res'[c].repo = {q} /\ res'[c].amount = e
    BY <1>1, <1>t, <1>z DEF TypeOK, Reservation
  <1>4. HoldsMatch'
    <2>1. call'[c].pc = "release" /\ res'[c].state = "SETTLED" /\ res'[c].amount = call'[c].est
          /\ res'[c].repo = call'[c].r
      BY <1>2, <1>3, <1>n
    <2>2. \A d \in Calls : d # c => call'[d] = call[d] /\ res'[d] = res[d]
      BY <1>2, <1>3
    <2> HIDE DEF e, a, q
    <2> QED BY <2>1, <2>2 DEF AccountsInv, HoldsMatch
  <1>g. run.reserved >= e /\ repo[q].reserved >= e
    BY DEF Settleable, MayShrink
  <1>5. run'.reserved = Monus(run.reserved, e) /\ run'.spent = run.spent + a
    BY <1>1, <1>t, <1>n, ShrinkRun
  <1>6. \A r \in Repos :
          repo'[r].reserved = IF r = q THEN Monus(repo[r].reserved, e) ELSE repo[r].reserved
    <2>1. ASSUME NEW r \in Repos, r # q PROVE repo'[r] = repo[r]
      BY <1>1, <1>t, <2>1 DEF TypeOK
    <2>2. repo'[q] = Shrink(repo[q], e, a)
      BY <1>1, <1>t, <1>n DEF TypeOK
    <2>3. repo'[q].reserved = Monus(repo[q].reserved, e)
      BY <2>2, <1>n, ShrinkBucket
    <2> HIDE DEF e, a, q
    <2> QED BY <2>1, <2>3
  <1> HIDE DEF e, a, q
  <1>7. ASSUME NEW S \in SUBSET Calls, c \in S
        PROVE  Monus(Total(Amt(res), S), e) = Total(Amt(res'), S \ {c})
    <2> DEFINE T == S \ {c}
    <2>1. IsFiniteSet(T) /\ IsFiniteSet(Calls) /\ T \in SUBSET Calls /\ c \in Calls \ T
          /\ T \cup {c} = S
      BY <1>t, <1>7, Sizes
    <2>2. \A x \in T : Amt(res')[x] = Amt(res)[x]
      BY <1>3 DEF Amt
    <2>3. Amt(res)[c] = e /\ \A x \in Calls : Amt(res)[x] \in Nat
      BY <1>t, <1>z, Sizes DEF Amt
    <2> HIDE DEF T
    <2>4. Total(Amt(res'), T) = Total(Amt(res), T)
      BY <2>1, <2>2, TotalSame
    <2>5. Total(Amt(res), T \cup {c}) = Total(Amt(res), T) + Amt(res)[c]
      BY <2>1, <2>3, TotalAdd
    <2>6. Total(Amt(res), T) \in Nat
      BY <1>t, <2>1, Sizes
    <2> DEFINE n == Total(Amt(res), T)
    <2>7. Monus(e + n, e) = n
      <3> HIDE DEF n
      <3> QED BY <1>n, <2>6, MonusExact DEF n
    <2>8. Total(Amt(res), S) = n + e
      BY <2>1, <2>3, <2>5
    <2>9. n + e = e + n
      <3> HIDE DEF n
      <3> QED BY <1>n, <2>6 DEF n
    <2>10. Monus(Total(Amt(res), S), e) = n
      BY <2>7, <2>8, <2>9
    <2> QED BY <2>4, <2>10 DEF T
  <1>8. run'.reserved = Total(Amt(res'), HeldIn(res', Calls))
    <2>1. HeldIn(res', Calls) = HeldIn(res, Calls) \ {c}
          /\ c \in HeldIn(res, Calls) /\ HeldIn(res, Calls) \in SUBSET Calls
      BY <1>3, <1>z DEF HeldIn
    <2>2. run.reserved = Total(Amt(res), HeldIn(res, Calls))
      BY DEF AccountsInv, Balanced
    <2> QED BY <1>5, <1>7, <2>1, <2>2
  <1>9. ASSUME NEW r \in Repos
        PROVE  repo'[r].reserved = Total(Amt(res'), HeldIn(res', OnRepo(res', r)))
    <2> DEFINE H == HeldIn(res, OnRepo(res, r))
    <2>1. H \in SUBSET Calls /\ HeldIn(res', OnRepo(res', r)) = H \ {c}
          /\ (c \in H <=> r = q)
      BY <1>3, <1>z DEF HeldIn, OnRepo
    <2>2. repo[r].reserved = Total(Amt(res), H)
      BY DEF AccountsInv, Balanced
    <2> HIDE DEF H
    <2>3. CASE r = q
      BY <1>6, <1>7, <2>1, <2>2, <2>3
    <2>4. CASE r # q
      <3>1. IsFiniteSet(H) /\ H \ {c} = H
        BY <1>t, <2>1, <2>4, Sizes
      <3>2. \A x \in H : Amt(res')[x] = Amt(res)[x]
        BY <1>3, <2>1, <2>4 DEF Amt
      <3>3. Total(Amt(res'), H) = Total(Amt(res), H)
        BY <3>1, <3>2, TotalSame
      <3> QED BY <1>6, <2>1, <2>2, <2>4, <3>1, <3>3
    <2> QED BY <2>3, <2>4
  <1>10. run'.spent = Total(Act(call'), SettledIn(res'))
    <2> DEFINE T == SettledIn(res)
    <2>1. SettledIn(res') = T \cup {c} /\ c \notin T /\ T \in SUBSET Calls
      BY <1>3, <1>z DEF SettledIn
    <2>2. run.spent = Total(Act(call), T)
      BY DEF AccountsInv, Balanced
    <2> HIDE DEF T
    <2>3. Act(call') = Act(call)
      BY <1>2 DEF Act
    <2>4. IsFiniteSet(Calls) /\ \A x \in Calls : Act(call)[x] \in Nat
      BY <1>t, Sizes
    <2>5. Total(Act(call), T \cup {c}) = Total(Act(call), T) + Act(call)[c]
      BY <2>1, <2>4, TotalAdd
    <2>6. Act(call)[c] = a
      BY DEF Act, a
    <2> QED BY <1>5, <2>1, <2>2, <2>3, <2>5, <2>6
  <1> QED BY <1>4, <1>8, <1>9, <1>10 DEF AccountsInv, Balanced

\* The reaper takes exactly the lapsed holds out, of the run and of each repo.
LEMMA ReapBalance ==
  ASSUME IInv, AccountsInv, Reap, call' = call
  PROVE  AccountsInv'
  <1>t. TypeOK /\ run \in RunRow
    BY DEF IInv, TypeOK
  <1>1. /\ repo' = [r \in Repos |-> Shrink(repo[r], Amount({c \in Lapsed : r \in res[c].repo}), 0)]
        /\ run' = Shrink(run, Amount(Lapsed), 0)
    BY DEF Reap
  <1>3. \A d \in Calls : /\ res'[d].state = IF d \in Lapsed THEN "EXPIRED" ELSE res[d].state
                         /\ res'[d].repo = res[d].repo /\ res'[d].amount = res[d].amount
    BY <1>t DEF Reap, TypeOK, Reservation
  <1>l. \A d \in Calls : d \in Lapsed => res[d].state = "HELD"
    BY DEF Lapsed, HeldBy
  <1>s. Lapsed \in SUBSET Calls
    BY DEF Lapsed, HeldBy
  <1>4. HoldsMatch'
    BY <1>3, <1>l DEF AccountsInv, HoldsMatch
  <1>a. Amt(res') = Amt(res)
    BY <1>3 DEF Amt
  <1>5. run'.reserved = Monus(run.reserved, Total(Amt(res), Lapsed)) /\ run'.spent = run.spent
    <2>1. Amount(Lapsed) = Total(Amt(res), Lapsed)
      BY <1>s, AmountIsTotal
    <2>2. run.spent \in Nat
      BY <1>t DEF RunRow
    <2> QED BY <1>1, <1>t, <2>1, <2>2, ShrinkRun
  <1>6. ASSUME NEW r \in Repos
        PROVE  repo'[r].reserved = Monus(repo[r].reserved, Total(Amt(res), Lapsed \cap OnRepo(res, r)))
    <2>1. {c \in Lapsed : r \in res[c].repo} = Lapsed \cap OnRepo(res, r)
          /\ Lapsed \cap OnRepo(res, r) \in SUBSET Calls
      BY <1>s DEF OnRepo
    <2>2. Amount(Lapsed \cap OnRepo(res, r)) = Total(Amt(res), Lapsed \cap OnRepo(res, r))
      BY <2>1, AmountIsTotal
    <2>3. repo'[r] = Shrink(repo[r], Total(Amt(res), Lapsed \cap OnRepo(res, r)), 0)
          /\ repo[r] \in Bucket
      BY <1>1, <1>t, <2>1, <2>2 DEF TypeOK
    <2> QED BY <2>3, ShrinkBucket
  <1>7. ASSUME NEW S \in SUBSET Calls
        PROVE  Monus(Total(Amt(res), HeldIn(res, S)), Total(Amt(res), Lapsed \cap S))
                 = Total(Amt(res'), HeldIn(res', S))
    <2> DEFINE A == Lapsed \cap S
               B == HeldIn(res', S)
    <2>1. A \in SUBSET Calls /\ B \in SUBSET Calls /\ A \cap B = {} /\ HeldIn(res, S) = A \cup B
      BY <1>3, <1>l, <1>s DEF HeldIn
    <2> HIDE DEF A, B
    <2>2. IsFiniteSet(Calls) /\ \A x \in Calls : Amt(res)[x] \in Nat
      BY <1>t, Sizes
    <2>3. Total(Amt(res), A \cup B) = Total(Amt(res), A) + Total(Amt(res), B)
      BY <2>1, <2>2, TotalUnion
    <2>4. Total(Amt(res), A) \in Nat /\ Total(Amt(res), B) \in Nat
      BY <1>t, <2>1, Sizes
    <2>5. Monus(Total(Amt(res), A \cup B), Total(Amt(res), A)) = Total(Amt(res), B)
      BY <2>3, <2>4, MonusExact
    <2> QED BY <1>a, <2>1, <2>5 DEF A, B
  <1>8. run'.reserved = Total(Amt(res'), HeldIn(res', Calls))
    <2>1. Lapsed \cap Calls = Lapsed
      BY <1>s
    <2>2. run.reserved = Total(Amt(res), HeldIn(res, Calls))
      BY DEF AccountsInv, Balanced
    <2>3. Monus(Total(Amt(res), HeldIn(res, Calls)), Total(Amt(res), Lapsed \cap Calls))
            = Total(Amt(res'), HeldIn(res', Calls))
      BY <1>7
    <2> QED BY <1>5, <2>1, <2>2, <2>3
  <1>9. ASSUME NEW r \in Repos
        PROVE  repo'[r].reserved = Total(Amt(res'), HeldIn(res', OnRepo(res', r)))
    <2>1. OnRepo(res', r) = OnRepo(res, r) /\ OnRepo(res, r) \in SUBSET Calls
      BY <1>3 DEF OnRepo
    <2>2. repo[r].reserved = Total(Amt(res), HeldIn(res, OnRepo(res, r)))
      BY DEF AccountsInv, Balanced
    <2> QED BY <1>6, <1>7, <2>1, <2>2
  <1>10. run'.spent = Total(Act(call'), SettledIn(res'))
    <2>1. SettledIn(res') = SettledIn(res)
      BY <1>3, <1>l DEF SettledIn
    <2> QED BY <1>5, <2>1 DEF AccountsInv, Balanced
  <1> QED BY <1>4, <1>8, <1>9, <1>10 DEF AccountsInv, Balanced

LEMMA InitAccounts == ASSUME Init PROVE AccountsInv
  <1>1. HoldsMatch
    BY DEF Init, HoldsMatch
  <1>2. \A S : HeldIn(res, S) = {} \/ ~(S \in SUBSET Calls)
    BY DEF Init, HeldIn
  <1>3. SettledIn(res) = {} /\ \A r \in Repos : OnRepo(res, r) \in SUBSET Calls
    BY DEF Init, SettledIn, OnRepo
  <1>4. \A w : Total(w, {}) = 0
    BY FS_EmptySet, TotalStep
  <1>5. run.reserved = 0 /\ run.spent = 0 /\ \A r \in Repos : repo[r].reserved = 0
    BY DEF Init, Empty
  <1>6. HeldIn(res, Calls) = {} /\ \A r \in Repos : HeldIn(res, OnRepo(res, r)) = {}
    BY <1>2, <1>3
  <1> QED BY <1>1, <1>3, <1>4, <1>5, <1>6 DEF AccountsInv, Balanced

LEMMA NextAccounts == ASSUME IInv, AccountsInv, [Next]_vars PROVE AccountsInv'
  <1>k. ASSUME Kept PROVE AccountsInv'
    BY <1>k, BalanceKept DEF AccountsInv, Kept
  <1>h. HoldsMatch
    BY DEF AccountsInv
  <1>1. ASSUME NEW p \in Procs,
               \/ EnterCommand(p) \/ StartProcess(p) \/ OpenLedger(p)
               \/ Exit(p) \/ Crash(p) \/ HaltProcess(p)
        PROVE  AccountsInv'
    <2>1. CASE StartProcess(p)
      BY <2>1, ReapBalance DEF StartProcess
    <2>2. CASE ~StartProcess(p)
      BY <1>1, <1>h, <1>k, <2>2, ProcessKept
    <2> QED BY <2>1, <2>2
  <1>2. ASSUME NEW c \in Calls, CallStep(c) \/ ExpireHold(c) PROVE AccountsInv'
    <2>t. TypeOK
      BY DEF IInv
    <2>r. ASSUME Goto(c, "norepo") \/ Goto(c, "run") \/ Goto(c, "norun") \/ Goto(c, "failed"),
                 UNCHANGED durable, res[c].state # "SETTLED",
                 Goto(c, "norepo") \/ Goto(c, "norun") => res[c].state = "none"
          PROVE  AccountsInv'
      <3>1. PICK pc \in {"norepo", "run", "norun", "failed"} : Goto(c, pc)
        BY <2>r
      <3>2. pc \in {"norepo", "norun"} => res[c].state = "none"
        BY <2>r, <3>1
      <3>3. pc \in Active \cup Ended
        BY DEF Active, Ended
      <3>4. res' = res /\ run' = run /\ repo' = repo
        BY <2>r DEF durable
      <3>5. \/ res[c].state = "none"
            \/ pc \notin {"new", "top", "open", "cas", "norepo", "norun", "wait"}
        BY <3>2
      <3>6. HoldsMatch' /\ SameHolds(res', call')
        BY <1>h, <2>t, <2>r, <3>1, <3>3, <3>4, <3>5, GotoMatch
      <3> QED BY <1>k, <3>4, <3>6 DEF Kept, SameBalance
    <2>1. CASE Reserve(c)
      <3>1. res[c].state = "none"
        BY <1>h, <2>1 DEF Reserve, HoldsMatch
      <3>2. CASE Goto(c, "granted") /\ ReserveRepoBudget(c)
        BY <2>1, <3>2, GrantBalance DEF Reserve
      <3>3. CASE ~(Goto(c, "granted") /\ ReserveRepoBudget(c))
        <4>1. UNCHANGED durable /\ (Goto(c, "norepo") \/ Goto(c, "run") \/ Goto(c, "norun"))
          BY <2>1, <3>3 DEF Reserve
        <4> QED BY <2>r, <3>1, <4>1
      <3> QED BY <3>2, <3>3
    <2>2. CASE Settle(c)
      <3>1. call[c].pc = "settle" /\ res[c].state # "SETTLED"
        BY <1>h, <2>2 DEF Settle, HoldsMatch
      <3>2. CASE Settleable(c)
        BY <2>2, <3>1, <3>2, SettleBalance
      <3>3. CASE ~Settleable(c)
        <4>1. Goto(c, "failed") /\ UNCHANGED durable
          BY <2>2, <3>3 DEF Settle
        <4>2. call'[c].pc = "failed"
          BY <2>t, <4>1 DEF Goto, TypeOK, Dispatch
        <4>3. ~Goto(c, "norepo") /\ ~Goto(c, "norun")
          BY <2>t, <4>2 DEF Goto, TypeOK, Dispatch
        <4> QED BY <2>r, <3>1, <4>1, <4>3
      <3> QED BY <3>2, <3>3
    <2>3. CASE ~Reserve(c) /\ ~Settle(c)
      <3>1. Kept
        BY <1>2, <1>h, <2>3, CallKept DEF CallStep
      <3> QED BY <1>k, <3>1
    <2> QED BY <2>1, <2>2, <2>3
  <1>3. ASSUME \/ \E c \in Calls, p \in Procs, r \in Repos, e \in Estimates : Begin(c, p, r, e)
               \/ RaiseBudget
        PROVE  AccountsInv'
    <2>1. Kept
      BY <1>3, <1>h, OuterKept
    <2> QED BY <1>k, <2>1
  <1>4. CASE UNCHANGED vars
    BY <1>4 DEF vars, durable, AccountsInv, HoldsMatch, Balanced, HeldIn, OnRepo, SettledIn,
       Amt, Act
  <1> QED BY <1>1, <1>2, <1>3, <1>4 DEF Next

\* state/schema.sql, RESERVATION ACCOUNTING: on the run's ledger and on every
\* repo's, what is reserved is the sum of the HELD reservations, and what the
\* run has spent is the sum of what its settled calls spent, each once, for any
\* number of processes, crashes, lapses and raises.
THEOREM LedgerAccounting == Spec => []Accounting
  <1>1. Init => AccountsInv
    BY InitAccounts
  <1>2. IInv /\ AccountsInv /\ [Next]_vars => AccountsInv'
    BY NextAccounts
  <1>3. AccountsInv => Accounting
    BY AccountingIsBalanced DEF AccountsInv
  <1> QED BY <1>1, <1>2, <1>3, LedgerInvariant, PTL DEF Spec
=============================================================================
