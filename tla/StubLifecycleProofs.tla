------------------------ MODULE StubLifecycleProofs ------------------------
(***************************************************************************)
(* Theorems about StubLifecycle, for any rows, consumers, providers and    *)
(* number of concurrent commands, any policy and either forge.             *)
(*                                                                         *)
(* The argument: rows, tasks and pull requests only move forward (Forward) *)
(* whatever the order of the commands, so what a command knows from an     *)
(* earlier read (Known) stays true until it is used.                       *)
(***************************************************************************)
EXTENDS StubLifecycle, TLAPS

-----------------------------------------------------------------------------
(* The inductive invariant. *)

Reasons == \A s \in Stubs : stub[s].state # "ABANDONED" => stub[s].reason = "none"

MergedRecords == \A r \in Repos : pr[r] = "MERGED" => forge[r] = "MERGED"

OneInHand == \A p \in Procs : \A t, u \in proc[p].task : t = u

\* Every row of the consumer in hand is closed, or the next write closes it.
Closing(p) ==
  \A t \in proc[p].task : \A s \in Of(t[1]) :
    <<s, "SUPERSEDED">> \in proc[p].rows \/ stub[s].state \notin OpenState

\* What command p knows, from what it read before, about the tables as they are now.
Known(p) ==
  /\ \A r \in Repos : <<r, "MERGED">> \in proc[p].polled => forge[r] = "MERGED"
  /\ \A r \in Repos : r \in proc[p].again => forge[r] = "MERGED"
  /\ proc[p].pc = "fire" => \A r \in proc[p].repo : forge[r] = "MERGED"
  /\ proc[p].pc = "supersede" =>
       \A s \in Stubs : s \in Read(p) => forge[ProviderOf[s]] = "MERGED"
  /\ proc[p].pc = "abandon" =>
       \A s \in Stubs : <<s, "SUPERSEDED">> \in proc[p].rows => task[Key(s)] = "DONE"
  /\ proc[p].pc = "apply" =>
       /\ proc[p].act \in (Reason \ {"END_OF_RUN"}) \cup {"T2"}
       /\ \A s \in Stubs : <<s, "ACTIVE">> \notin proc[p].rows
       /\ \A s \in Stubs : <<s, "SUPERSEDED">> \in proc[p].rows => stub[s].state # "ACTIVE"
  /\ proc[p].pc = "apply" /\ proc[p].clear => Closing(p)
  /\ proc[p].pc = "promote" /\ proc[p].clear =>
       \A t \in proc[p].task : \A s \in Of(t[1]) : stub[s].state \notin OpenState

IInv ==
  /\ TypeOK
  /\ OneRoundPerTask
  /\ SupersededIsQueued
  /\ Reasons
  /\ MergedRecords
  /\ OneInHand
  /\ \A p \in Procs : Known(p)

\* Rows, tasks and merges move one way.
Forward ==
  /\ \A s \in Stubs :
       /\ stub[s].state \notin OpenState => stub'[s] = stub[s]
       /\ stub'[s].state = "ACTIVE" => stub[s].state = "ACTIVE"
  /\ \A t \in Tasks :
       /\ task[t] = "DONE" => task'[t] = "DONE"
       /\ task'[t] = "none" => task[t] = "none"
  /\ \A r \in Repos : forge[r] = "MERGED" => forge'[r] = "MERGED"

\* The steps of Next: those that change nothing but the locals of a command, those
\* that also write, and those of the world outside.
QuietStep(p) ==
  \/ Crash(p)
  \/ \E c \in Consumers : Verify(p, c)
  \/ \E cmd \in Commands : SyncPoll(p, cmd)
  \/ SyncAgain(p)
  \/ \E r \in Providers : Resolve(p, r)
  \/ T1Read(p) \/ SyncEnd(p)
  \/ Resume(p) \/ ReconcileRead(p) \/ PlanClaims(p) \/ ClaimsEnd(p)
  \/ \E r \in Repos : PrPlan(p, r)
  \/ PrFailed(p)

WriteStep(p) ==
  \/ VerifyDone(p) \/ Degrade(p)
  \/ SyncWrite(p) \/ T1Write(p) \/ Rewrite(p)
  \/ ReconcileWrite(p) \/ RoundStep(p)
  \/ PrCreate(p) \/ PrReady(p) \/ PrWrite(p)

WorldStep ==
  \/ \E r \in Providers : FixProvider(r)
  \/ \E r \in Repos : ForgeDecides(r)
  \/ \E s \in Stubs : Abandon(s)

\* Only p's locals change.
Only(p) == \A q \in Procs : q # p => proc'[q] = proc[q]

-----------------------------------------------------------------------------

LEMMA Shape == /\ \A s \in Stubs : Key(s) \in Tasks /\ ConsumerOf[s] \in Repos /\ ProviderOf[s] \in Repos
               /\ Consumers \subseteq Repos /\ Providers \subseteq Repos
BY StubAssumption DEF Key, Tasks, Repos

LEMMA IdleType == Idle \in Local
BY DEF Idle, Local, NoReport, Report

LEMMA AfterSyncType ==
  ASSUME NEW l \in Local
  PROVE  AfterSync(l) \in Local
<1>1. [l EXCEPT !.pc = "reconcile", !.polled = {}] \in Local
  BY DEF Local
<1> QED  BY <1>1, IdleType DEF AfterSync

\* The locals of a command that goes on are still locals.
LEMMA LocalStep ==
  ASSUME TypeOK, NEW p \in Procs, proc' = [proc EXCEPT ![p] = proc'[p]], proc'[p] \in Local
  PROVE  proc' \in [Procs -> Local] /\ Only(p)
BY DEF TypeOK, Only

LEMMA KnownStays ==
  ASSUME TypeOK, NEW q \in Procs, Known(q), Forward, proc'[q] = proc[q]
  PROVE  Known(q)'
<1>1. /\ \A s \in Stubs : Key(s) \in Tasks /\ ProviderOf[s] \in Repos
      /\ proc[q].repo \subseteq Repos
      /\ \A c : Of(c) \subseteq Stubs
  BY Shape DEF TypeOK, Local, Of
<1>2. Read(q)' = Read(q)
  BY DEF Read
<1> QED
  BY <1>1, <1>2 DEF Known, Forward, Closing

-----------------------------------------------------------------------------
(* Types. *)

LEMMA RowsType ==
  ASSUME TypeOK, NEW p \in Procs
  PROVE  Read(p) \subseteq Stubs /\ Unmoved(p) \subseteq Read(p) /\ Linkable(p) \subseteq Read(p)
BY DEF TypeOK, Local, Read, Unmoved, Linkable

\* Steps that only change the command's locals.
LEMMA QuietLocals ==
  ASSUME TypeOK, NEW p \in Procs, QuietStep(p)
  PROVE  /\ proc' = [proc EXCEPT ![p] = proc'[p]] /\ proc'[p] \in Local
         /\ UNCHANGED <<stub, task, status, report, pr, forge, named>> /\ faults' \in Nat
<1> DEFINE Goal(l) == /\ l \in Local /\ proc' = [proc EXCEPT ![p] = l]
                      /\ UNCHANGED <<stub, task, status, report, pr, forge, named>>
                      /\ faults' \in Nat
<1> SUFFICES \E l : Goal(l)
  BY DEF TypeOK
<1>0. proc[p] \in Local /\ faults \in Nat
  BY DEF TypeOK
<1>1. CASE Crash(p)
  <2>1. Goal(Idle)
    BY <1>0, <1>1, IdleType DEF Crash, tables, pulls
  <2> QED  BY <2>1
<1>2. ASSUME NEW c \in Consumers, Verify(p, c) PROVE \E l : Goal(l)
  <2> DEFINE rows == (Active \cap Of(c)) \X {"ACTIVE"}
             l == [Idle EXCEPT !.pc = "verifying", !.cmd = "verify", !.repo = {c},
                               !.rows = rows]
  <2>0. rows \in SUBSET (Stubs \X OpenState)
    BY DEF Active, OpenState
  <2>1. l \in Local
    <3> HIDE DEF rows
    <3> QED  BY <2>0, IdleType, Shape, ZenonT(30) DEF Local
  <2>2. Goal(l)
    BY <1>0, <1>2, <2>1 DEF Verify, Begin, tables, pulls
  <2> QED  BY <2>2
<1>3. ASSUME NEW cmd \in Commands, SyncPoll(p, cmd) PROVE \E l : Goal(l)
  <2> DEFINE changed == {r \in Repos : pr[r] \in NonTerminal /\ Observed(r) # pr[r]}
             polled == {<<r, Observed(r)>> : r \in changed}
             l == [Idle EXCEPT !.pc = "sync", !.cmd = cmd, !.polled = polled,
                               !.again = MergedBefore]
  <2>1. \A r \in Repos : Observed(r) \in PrState
    BY DEF TypeOK, Observed, PrState
  <2>2. polled \in SUBSET (Repos \X PrState)
    BY <2>1
  <2>2a. cmd \in {"sync", "resume"}
    BY <1>3 DEF SyncPoll
  <2>3. l \in Local
    <3> HIDE DEF polled
    <3> QED  BY <2>2, <2>2a, IdleType DEF Idle, Local, MergedBefore
  <2>4. Goal(l)
    BY <1>0, <1>3, <2>3 DEF SyncPoll, Begin, tables, pulls
  <2> QED  BY <2>4
<1>4. CASE SyncAgain(p)
  <2>1. PICK r \in proc[p].again : SyncAgain(p)!(r)
    BY <1>4 DEF SyncAgain
  <2> DEFINE l == [proc[p] EXCEPT !.pc = "fire", !.repo = {r}, !.again = @ \ {r}]
  <2>2. l \in Local
    BY <1>0, ZenonT(30) DEF Local
  <2>3. Goal(l)
    BY <1>0, <2>1, <2>2 DEF Goto, tables, pulls
  <2> QED  BY <2>3
<1>5. ASSUME NEW r \in Providers, Resolve(p, r) PROVE \E l : Goal(l)
  <2> DEFINE l == [Idle EXCEPT !.pc = "fire", !.cmd = "resolve", !.repo = {r}]
  <2>1. l \in Local
    BY IdleType, Shape, ZenonT(30) DEF Idle, Local
  <2>2. Goal(l)
    BY <1>0, <1>5, <2>1 DEF Resolve, Begin, tables, pulls
  <2> QED  BY <2>2
<1>6. CASE T1Read(p)
  <2>1. PICK r \in proc[p].repo : T1Read(p)!(r)
    BY <1>6 DEF T1Read
  <2> DEFINE hit == IF Merged(r, "MERGED") /\ (Manual => proc[p].cmd = "resolve")
                    THEN {s \in Active : ProviderOf[s] = r} ELSE {}
             at == IF hit = {} THEN "sync" ELSE "supersede"
             rows == hit \X {"ACTIVE"}
             l == [proc[p] EXCEPT !.pc = at, !.repo = {}, !.rows = rows]
  <2>2. rows \in SUBSET (Stubs \X OpenState) /\ at \in {"sync", "supersede"}
    BY DEF Active, OpenState
  <2>3. l \in Local
    <3> HIDE DEF rows, at
    <3> QED  BY <1>0, <2>2 DEF Local
  <2>4. Goal(l)
    BY <1>0, <2>1, <2>3 DEF Goto, tables, pulls
  <2> QED  BY <2>4
<1>7. CASE SyncEnd(p)
  <2> DEFINE rows == Active \X {"ACTIVE"}
             todo == {ConsumerOf[s] : s \in proc[p].fired}
             more == [proc[p] EXCEPT !.pc = "rewrite", !.rows = rows, !.todo = todo]
             l == IF proc[p].fired = {} THEN AfterSync(proc[p]) ELSE more
  <2>1. rows \in SUBSET (Stubs \X OpenState) /\ todo \in SUBSET Consumers
    BY <1>0, StubAssumption DEF Active, OpenState, Local
  <2>2. more \in Local
    <3> HIDE DEF rows, todo
    <3> QED  BY <1>0, <2>1 DEF Local
  <2>2a. AfterSync(proc[p]) \in Local
    BY <1>0, AfterSyncType
  <2>3. Goal(l)
    BY <1>0, <1>7, <2>2, <2>2a DEF SyncEnd, Goto, tables, pulls
  <2> QED  BY <2>3
<1>8. CASE Resume(p)
  <2> DEFINE l == [Idle EXCEPT !.pc = "reconcile", !.cmd = "resume"]
  <2>1. l \in Local
    BY IdleType DEF Idle, Local
  <2>2. Goal(l)
    BY <1>0, <1>8, <2>1 DEF Resume, Begin, tables, pulls
  <2> QED  BY <2>2
<1>9. CASE ReconcileRead(p)
  <2>1. PICK waiting \in SUBSET {r \in Providers : pr[r] \in {"DRAFTED", "OPEN"}} :
          ReconcileRead(p)!(waiting)
    BY <1>9 DEF ReconcileRead
  <2> DEFINE l == [proc[p] EXCEPT !.pc = "abandon",
                                  !.rows = {<<s, stub[s].state>> : s \in GivenUp(p, waiting)}]
  <2>2. {<<s, stub[s].state>> : s \in GivenUp(p, waiting)} \subseteq Stubs \X OpenState
    BY DEF GivenUp, Open
  <2>3. l \in Local
    BY <1>0, <2>2 DEF Local
  <2>4. Goal(l)
    BY <1>0, <2>1, <2>3 DEF Goto, tables, pulls
  <2> QED  BY <2>4
<1>10. CASE PlanClaims(p)
  <2> DEFINE l == [proc[p] EXCEPT !.pc = "claims", !.tasks = {t \in Tasks : task[t] = "PENDING"}]
  <2>1. l \in Local
    BY <1>0 DEF Local
  <2>2. Goal(l)
    BY <1>0, <1>10, <2>1 DEF PlanClaims, Goto, tables, pulls
  <2> QED  BY <2>2
<1>11. CASE ClaimsEnd(p) \/ PrFailed(p)
  <2>1. Goal(Idle)
    BY <1>0, <1>11, IdleType DEF ClaimsEnd, PrFailed, Goto, tables, pulls
  <2> QED  BY <2>1
<1>12. ASSUME NEW r \in Repos, PrPlan(p, r) PROVE \E l : Goal(l)
  <2>1. PICK act \in {"draft", "open", "ready"} :
          Begin(p, [Idle EXCEPT !.pc = "forge", !.cmd = "pr", !.repo = {r}, !.act = act])
    BY <1>12 DEF PrPlan
  <2> DEFINE l == [Idle EXCEPT !.pc = "forge", !.cmd = "pr", !.repo = {r}, !.act = act]
  <2>2. l \in Local
    BY IdleType, ZenonT(30) DEF Idle, Local
  <2>3. Goal(l)
    BY <1>0, <1>12, <2>1, <2>2 DEF PrPlan, Begin, tables, pulls
  <2> QED  BY <2>3
<1> QED
  BY <1>1, <1>2, <1>3, <1>4, <1>5, <1>6, <1>7, <1>8, <1>9, <1>10, <1>11, <1>12
  DEF QuietStep

\* TypeOK without the commands.
TablesTyped ==
  /\ stub \in [Stubs -> Row]
  /\ task \in [Tasks -> {"none", "PENDING", "RUNNING", "DONE"}]
  /\ status \in [Repos -> {"PENDING", "SUCCEEDED", "DEGRADED", "REQUIRES_HUMAN_INTERVENTION"}]
  /\ report \in [Repos -> Report]
  /\ pr \in [Repos -> PrState]
  /\ forge \in [Repos -> {"none", "DRAFT", "OPEN", "MERGED", "CLOSED"}]
  /\ named \in [Consumers -> SUBSET Stubs]

\* The step leaves command p with the locals l.
MovedTo(p, l) == l \in Local /\ proc' = [proc EXCEPT ![p] = l] /\ UNCHANGED faults

LEMMA ReleaseTypes ==
  ASSUME TypeOK, NEW p \in Procs, NEW to \in {"PENDING", "DONE"}, Release(p, to)
  PROVE  /\ task' \in [Tasks -> {"none", "PENDING", "RUNNING", "DONE"}]
         /\ \E l : MovedTo(p, l)
<1> DEFINE l == [proc[p] EXCEPT !.pc = "claims", !.task = {}, !.rows = {}, !.act = "none",
                               !.clear = FALSE, !.report = NoReport]
<1>1. proc[p] \in Local /\ NoReport \in Report
  BY DEF TypeOK, NoReport, Report
<1>2. l \in Local
  BY <1>1 DEF Local
<1>3. MovedTo(p, l)
  BY <1>2 DEF Release, Goto, MovedTo
<1>4. task' \in [Tasks -> {"none", "PENDING", "RUNNING", "DONE"}]
  BY DEF Release, TypeOK
<1> QED  BY <1>3, <1>4

LEMMA SettledLocals ==
  ASSUME NEW l \in Local, NEW at \in {"record", "apply"},
         NEW rows \in SUBSET (Stubs \X OpenState),
         NEW act \in {"none", "T2", "draft", "open", "ready"} \cup Reason,
         NEW clear \in BOOLEAN, NEW found \in Report
  PROVE  [l EXCEPT !.pc = at, !.rows = rows, !.act = act, !.clear = clear, !.report = found]
           \in Local
<1>1. \A m \in Local : [m EXCEPT !.pc = at] \in Local
  BY DEF Local
<1>2. \A m \in Local : [m EXCEPT !.rows = rows] \in Local
  BY DEF Local
<1>3. \A m \in Local : [m EXCEPT !.act = act] \in Local
  BY DEF Local
<1>4. \A m \in Local : [m EXCEPT !.clear = clear] \in Local
  BY DEF Local
<1>5. \A m \in Local : [m EXCEPT !.report = found] \in Local
  BY DEF Local
<1> QED  BY <1>1, <1>2, <1>3, <1>4, <1>5

\* The steps of a revalidation round.
LEMMA RoundTypes ==
  ASSUME TypeOK, NEW p \in Procs, Known(p), RoundStep(p)
  PROVE  TablesTyped' /\ \E l : MovedTo(p, l)
<1>0. proc[p] \in Local /\ \A t \in proc[p].task : t[1] \in Repos
  BY Shape DEF TypeOK, Local, Tasks
<1>1. CASE Claim(p)
  <2>1. PICK t \in proc[p].tasks : Claim(p)!(t)
    BY <1>1 DEF Claim
  <2> DEFINE left == proc[p].tasks \ {t}
             rest == [proc[p] EXCEPT !.tasks = left]
             gate == [rest EXCEPT !.pc = "gate", !.task = {t}]
  <2>2. left \in SUBSET Tasks /\ t \in Tasks
    BY <1>0 DEF Local
  <2>3. rest \in Local /\ gate \in Local
    <3> HIDE DEF left
    <3> QED  BY <1>0, <2>2, ZenonT(30) DEF Local
  <2>4. MovedTo(p, rest) \/ MovedTo(p, gate)
    BY <2>1, <2>3 DEF Goto, MovedTo
  <2>5. TablesTyped'
    BY <2>1, <2>2 DEF TypeOK, TablesTyped, pulls
  <2> QED  BY <2>4, <2>5
<1>2. CASE Gate(p)
  <2>1. PICK t \in proc[p].task : Gate(p)!(t)
    BY <1>2 DEF Gate
  <2> DEFINE rows == (Active \cap Of(t[1])) \X {"ACTIVE"}
             l == [proc[p] EXCEPT !.pc = "round", !.rows = rows]
  <2>2. rows \in SUBSET (Stubs \X OpenState)
    BY DEF Active, OpenState
  <2>3. l \in Local
    <3> HIDE DEF rows
    <3> QED  BY <1>0, <2>2 DEF Local
  <2>4. Release(p, "PENDING") \/ (MovedTo(p, l) /\ UNCHANGED task)
    BY <2>1, <2>3 DEF Goto, MovedTo
  <2>5. task' \in [Tasks -> {"none", "PENDING", "RUNNING", "DONE"}] /\ \E m : MovedTo(p, m)
    <3>1. CASE Release(p, "PENDING")
      BY <3>1, ReleaseTypes
    <3>2. CASE MovedTo(p, l) /\ UNCHANGED task
      BY <3>2 DEF TypeOK
    <3> QED  BY <2>4, <3>1, <3>2
  <2> QED
    BY <2>1, <2>5 DEF TypeOK, TablesTyped, pulls
<1>3. CASE Settle(p)
  <2>1. PICK t \in proc[p].task, outcome \in {"PASS", "FAIL", "breach"}, moved \in BOOLEAN :
          Settle(p)!(t, outcome, moved)
    BY <1>3 DEF Settle
  <2> DEFINE act == Decision(t[1], outcome, moved, proc[p].rows)
             at == IF act = "none" THEN "record" ELSE "apply"
             rows == RowsOf(t) \X {"SUPERSEDED"}
             clear == act = "T2" /\ AllClear(t[1], RowsOf(t))
             found == [pass |-> outcome = "PASS", limited |-> proc[p].rows # {}]
             l == [proc[p] EXCEPT !.pc = at, !.rows = rows, !.act = act, !.clear = clear,
                                  !.report = found]
  <2>2. /\ act \in {"none", "T2"} \cup Reason /\ at \in {"record", "apply"}
        /\ clear \in BOOLEAN /\ found \in Report
        /\ rows \in SUBSET (Stubs \X OpenState)
    BY DEF Decision, Reason, Report, RowsOf, OpenState
  <2>2a. act \in {"none", "T2", "draft", "open", "ready"} \cup Reason
    BY <2>2
  <2>3. l \in Local
    <3> HIDE DEF act, at, rows, clear, found
    <3> QED  BY <1>0, <2>2, <2>2a, SettledLocals
  <2>4. Release(p, "DONE") \/ Release(p, "PENDING") \/ (MovedTo(p, l) /\ UNCHANGED task)
    BY <2>1, <2>3 DEF Goto, MovedTo
  <2>5. task' \in [Tasks -> {"none", "PENDING", "RUNNING", "DONE"}] /\ \E m : MovedTo(p, m)
    <3>1. CASE Release(p, "DONE") \/ Release(p, "PENDING")
      BY <3>1, ReleaseTypes
    <3>2. CASE MovedTo(p, l) /\ UNCHANGED task
      BY <3>2 DEF TypeOK
    <3> QED  BY <2>4, <3>1, <3>2
  <2> QED
    BY <2>1, <2>5 DEF TypeOK, TablesTyped, pulls
<1>4. CASE Apply(p)
  <2> DEFINE l == [proc[p] EXCEPT !.pc = "promote"]
  <2>1. l \in Local
    BY <1>0 DEF Local
  <2>2. MovedTo(p, l)
    BY <1>4, <2>1 DEF Apply, Goto, MovedTo
  <2>3. proc[p].act \in Reason \cup {"T2"}
    BY <1>4 DEF Apply, Known
  <2>4. \A row \in Row : Settled(row, proc[p].act) \in Row
    BY <2>3 DEF Settled, Row, StubState, Reason
  <2>5. stub' \in [Stubs -> Row]
    BY <1>4, <2>4 DEF Apply, TypeOK
  <2> QED  BY <1>4, <2>2, <2>5 DEF Apply, TypeOK, TablesTyped, pulls
<1>5. CASE Promote(p)
  <2> DEFINE l == [proc[p] EXCEPT !.pc = "record"]
  <2>1. l \in Local
    BY <1>0 DEF Local
  <2>2. MovedTo(p, l)
    BY <1>5, <2>1 DEF Promote, Goto, MovedTo
  <2>3. TablesTyped'
    BY <1>5, <1>0 DEF Promote, TypeOK, TablesTyped, pulls
  <2> QED  BY <2>2, <2>3
<1>6. CASE Record(p)
  <2> DEFINE l == [proc[p] EXCEPT !.pc = "done"]
  <2>1. l \in Local /\ proc[p].report \in Report
    BY <1>0 DEF Local
  <2>2. MovedTo(p, l)
    BY <1>6, <2>1 DEF Record, Goto, MovedTo
  <2>3. TablesTyped'
    BY <1>6, <1>0, <2>1 DEF Record, TypeOK, TablesTyped, pulls
  <2> QED  BY <2>2, <2>3
<1>7. CASE MarkDone(p)
  BY <1>7, ReleaseTypes DEF MarkDone, TypeOK, TablesTyped, pulls
<1> QED
  BY <1>1, <1>2, <1>3, <1>4, <1>5, <1>6, <1>7 DEF RoundStep

\* Steps that write.
LEMMA WriteTypes ==
  ASSUME TypeOK, NEW p \in Procs, Known(p), WriteStep(p)
  PROVE  TypeOK' /\ Only(p)
<1> DEFINE Tables == TablesTyped'
           Moved(l) == MovedTo(p, l)
<1> SUFFICES Tables /\ \E l : Moved(l)
  BY DEF TypeOK, Only, TablesTyped, MovedTo
<1>0. proc[p] \in Local
  BY DEF TypeOK
<1>r. /\ Read(p) \subseteq Stubs
      /\ \A r \in proc[p].repo : r \in Repos
      /\ \A t \in proc[p].task : t[1] \in Consumers /\ t[1] \in Repos /\ t \in Tasks
  BY <1>0, RowsType, Shape DEF Local, Tasks
<1>1. CASE VerifyDone(p)
  <2> DEFINE l == [proc[p] EXCEPT !.pc = "degrade", !.rows = {}]
  <2>1. l \in Local
    BY <1>0 DEF Local
  <2>2. Moved(l)
    BY <1>1, <2>1 DEF VerifyDone, Goto, MovedTo
  <2>3. PICK c \in proc[p].repo : VerifyDone(p)!(c)
    BY <1>1 DEF VerifyDone
  <2>4. c \in Repos
    BY <1>r
  <2> DEFINE found == [pass |-> TRUE, limited |-> proc[p].rows # {}]
  <2>5. found \in Report
    BY DEF Report
  <2>6. \/ UNCHANGED <<status, report>>
        \/ /\ status' = [status EXCEPT ![c] = "SUCCEEDED"]
           /\ report' = [report EXCEPT ![c] = found]
    BY <2>3
  <2>7. Tables
    <3> HIDE DEF found
    <3> QED  BY <2>3, <2>4, <2>5, <2>6 DEF TypeOK, pulls, TablesTyped
  <2> QED  BY <2>2, <2>7
<1>2. CASE Degrade(p)
  <2>2. Moved(Idle)
    BY <1>2, IdleType DEF Degrade, Goto, MovedTo
  <2>3. Tables
    BY <1>2, <1>r DEF Degrade, TypeOK, pulls, TablesTyped
  <2> QED  BY <2>2, <2>3
<1>3. CASE SyncWrite(p)
  <2>1. PICK w \in proc[p].polled : SyncWrite(p)!(w)
    BY <1>3 DEF SyncWrite
  <2>2. w[1] \in Repos /\ w[2] \in PrState
    BY <1>0 DEF Local
  <2> DEFINE left == proc[p].polled \ {w}
             rest == [proc[p] EXCEPT !.polled = left]
             fire == [rest EXCEPT !.pc = "fire", !.repo = {w[1]}]
  <2>3. left \in SUBSET (Repos \X PrState)
    BY <1>0 DEF Local
  <2>4. rest \in Local /\ fire \in Local
    <3> HIDE DEF left
    <3> QED  BY <1>0, <2>2, <2>3, ZenonT(30) DEF Local
  <2>5. Moved(rest) \/ Moved(fire)
    BY <2>1, <2>4 DEF Goto, MovedTo
  <2>6. Tables
    BY <2>1, <2>2 DEF TypeOK, tables, TablesTyped
  <2> QED  BY <2>5, <2>6
<1>4. CASE T1Write(p)
  <2> DEFINE fired == proc[p].fired \cup Read(p)
             l == [proc[p] EXCEPT !.pc = "sync", !.rows = {}, !.fired = fired]
  <2>1. fired \in SUBSET Stubs
    BY <1>0, <1>r DEF Local
  <2>2. l \in Local
    <3> HIDE DEF fired
    <3> QED  BY <1>0, <2>1 DEF Local
  <2>3. Moved(l)
    BY <1>4, <2>2 DEF T1Write, Goto, MovedTo
  <2>4. stub' \in [Stubs -> Row]
    <3>1. ASSUME NEW s \in Stubs PROVE stub'[s] \in Row
      <4> DEFINE link == stub[s].linked \/ s \in Linkable(p)
                 to == IF s \in Unmoved(p) THEN "SUPERSEDED" ELSE stub[s].state
      <4>1. stub'[s] = [stub[s] EXCEPT !.state = to, !.linked = link]
        BY <1>4 DEF T1Write, TypeOK, Row, TablesTyped
      <4>2. link \in BOOLEAN /\ to \in StubState /\ stub[s] \in Row
        BY DEF TypeOK, Row, StubState, TablesTyped
      <4> HIDE DEF link, to
      <4> QED  BY <4>1, <4>2 DEF Row
    <3>2. stub' = [s \in Stubs |-> stub'[s]]
      BY <1>4 DEF T1Write
    <3> QED  BY <3>1, <3>2
  <2>5. Tables
    BY <1>4, <2>4 DEF T1Write, TypeOK, pulls, TablesTyped
  <2> QED  BY <2>3, <2>5
<1>5. CASE Rewrite(p)
  <2>1. PICK c \in proc[p].todo : Rewrite(p)!(c)
    BY <1>5 DEF Rewrite
  <2> DEFINE todo == proc[p].todo \ {c}
             rest == [proc[p] EXCEPT !.todo = todo]
             last == [rest EXCEPT !.rows = {}]
  <2>2. todo \in SUBSET Consumers /\ c \in Consumers
    BY <1>0 DEF Local
  <2>3. rest \in Local /\ last \in Local
    <3> HIDE DEF todo
    <3> QED  BY <1>0, <2>2, ZenonT(30) DEF Local
  <2>4. Moved(rest) \/ Moved(AfterSync(last))
    BY <2>1, <2>3, AfterSyncType DEF Goto, MovedTo
  <2>5. Tables
    BY <2>1, <2>2, <1>r DEF TypeOK, tables, pulls, TablesTyped
  <2> QED  BY <2>4, <2>5
<1>6. CASE ReconcileWrite(p)
  <2> DEFINE l == [proc[p] EXCEPT !.pc = "plan", !.rows = {}, !.fired = {}]
  <2>1. l \in Local
    BY <1>0 DEF Local
  <2>2. Moved(l)
    BY <1>6, <2>1 DEF ReconcileWrite, Goto, MovedTo
  <2>r. \A row \in Row : [row EXCEPT !.state = "ABANDONED", !.reason = "END_OF_RUN"] \in Row
    BY DEF Row, StubState, Reason
  <2>3. stub' \in [Stubs -> Row]
    BY <1>6, <2>r DEF ReconcileWrite, TypeOK
  <2>4. pr' \in [Repos -> PrState]
    BY <1>6 DEF ReconcileWrite, TypeOK, PrState, TablesTyped
  <2>5. Tables
    BY <1>6, <2>3, <2>4 DEF ReconcileWrite, TypeOK, TablesTyped
  <2> QED  BY <2>2, <2>5
<1>7. CASE RoundStep(p)
  <2> QED  BY <1>7, RoundTypes
<1>8. CASE PrCreate(p) \/ PrReady(p)
  <2> DEFINE l == [proc[p] EXCEPT !.pc = "write"]
  <2>1. l \in Local
    BY <1>0 DEF Local
  <2>2. Moved(l)
    BY <1>8, <2>1 DEF PrCreate, PrReady, Goto, MovedTo
  <2>3. Tables
    BY <1>8, <1>r DEF PrCreate, PrReady, TypeOK, tables, TablesTyped
  <2> QED  BY <2>2, <2>3
<1>9. CASE PrWrite(p)
  <2>1. Moved(Idle)
    BY <1>9, IdleType DEF PrWrite, Goto, MovedTo
  <2>2. Tables
    BY <1>9, <1>r DEF PrWrite, TypeOK, tables, PrState, TablesTyped
  <2> QED  BY <2>1, <2>2
<1> QED
  BY <1>1, <1>2, <1>3, <1>4, <1>5, <1>6, <1>7, <1>8, <1>9 DEF WriteStep

LEMMA NextSteps ==
  ASSUME Next
  PROVE  WorldStep \/ \E p \in Procs : QuietStep(p) \/ WriteStep(p)
BY DEF Next, WorldStep, QuietStep, WriteStep, SyncStep, ResumeStep, PrStep

LEMMA WorldTypes ==
  ASSUME TypeOK, WorldStep
  PROVE  TypeOK' /\ UNCHANGED proc
<1>1. ASSUME NEW r \in Providers, FixProvider(r) PROVE TypeOK' /\ UNCHANGED proc
  <2>1. report' \in [Repos -> Report]
    BY <1>1 DEF FixProvider, TypeOK, Report
  <2> QED
    BY <1>1, <2>1, Shape DEF FixProvider, TypeOK, pulls
<1>2. ASSUME NEW r \in Repos, ForgeDecides(r) PROVE TypeOK' /\ UNCHANGED proc
  BY <1>2 DEF ForgeDecides, TypeOK, tables
<1>3. ASSUME NEW s \in Stubs, Abandon(s) PROVE TypeOK' /\ UNCHANGED proc
  <2>r. \A row \in Row : [row EXCEPT !.state = "ABANDONED", !.reason = "OPERATOR"] \in Row
    BY DEF Row, StubState, Reason
  <2>s. stub' = [stub EXCEPT ![s] = [stub[s] EXCEPT !.state = "ABANDONED", !.reason = "OPERATOR"]]
    BY <1>3 DEF Abandon, TypeOK, Row
  <2>1. stub' \in [Stubs -> Row]
    BY <2>r, <2>s DEF TypeOK
  <2> QED
    BY <1>3, <2>1 DEF Abandon, TypeOK, pulls
<1> QED
  BY <1>1, <1>2, <1>3 DEF WorldStep

LEMMA TypeStep ==
  ASSUME TypeOK, \A p \in Procs : Known(p), [Next]_vars
  PROVE  TypeOK'
<1>1. CASE WorldStep
  BY <1>1, WorldTypes
<1>2. ASSUME NEW p \in Procs, QuietStep(p) PROVE TypeOK'
  BY <1>2, QuietLocals, LocalStep DEF TypeOK
<1>3. ASSUME NEW p \in Procs, WriteStep(p) PROVE TypeOK'
  BY <1>3, WriteTypes
<1>4. CASE UNCHANGED vars
  BY <1>4 DEF vars, tables, pulls, TypeOK
<1> QED
  BY <1>1, <1>2, <1>3, <1>4, NextSteps

-----------------------------------------------------------------------------
(* Everything moves forward. *)

LEMMA ForwardStep ==
  ASSUME TypeOK, [Next]_vars
  PROVE  Forward
<1> DEFINE Rows == \A s \in Stubs :
                     /\ stub[s].state \notin OpenState => stub'[s] = stub[s]
                     /\ stub'[s].state = "ACTIVE" => stub[s].state = "ACTIVE"
           Queue == \A t \in Tasks : /\ task[t] = "DONE" => task'[t] = "DONE"
                                     /\ task'[t] = "none" => task[t] = "none"
           Merges == \A r \in Repos : forge[r] = "MERGED" => forge'[r] = "MERGED"
<1>0. SUFFICES Rows /\ Queue /\ Merges
  BY DEF Forward
<1>1. ASSUME UNCHANGED stub PROVE Rows
  BY <1>1
<1>2. ASSUME UNCHANGED task PROVE Queue
  BY <1>2
<1>3. ASSUME UNCHANGED forge PROVE Merges
  BY <1>3
<1>u. \A p \in Procs : \A s \in Unmoved(p) : s \in Stubs /\ stub[s].state \in OpenState
  BY DEF TypeOK, Local, Unmoved
<1>rel. ASSUME NEW p \in Procs, NEW to \in {"PENDING", "DONE"}, Release(p, to) PROVE Queue
  BY <1>rel DEF Release, TypeOK
<1>w. CASE WorldStep
  <2>1. ASSUME NEW r \in Providers, FixProvider(r) PROVE Rows /\ Queue /\ Merges
    BY <2>1, <1>1, <1>2, <1>3 DEF FixProvider, pulls
  <2>2. ASSUME NEW r \in Repos, ForgeDecides(r) PROVE Rows /\ Queue /\ Merges
    <3>1. Merges
      BY <2>2 DEF ForgeDecides, TypeOK
    <3> QED
      BY <2>2, <3>1, <1>1, <1>2 DEF ForgeDecides, tables
  <2>3. ASSUME NEW s \in Stubs, Abandon(s) PROVE Rows /\ Queue /\ Merges
    <3>1. Rows
      BY <2>3 DEF Abandon, TypeOK, Row
    <3> QED
      BY <2>3, <3>1, <1>2, <1>3 DEF Abandon, pulls
  <2> QED  BY <1>w, <2>1, <2>2, <2>3 DEF WorldStep
<1>q. ASSUME NEW p \in Procs, QuietStep(p) PROVE Rows /\ Queue /\ Merges
  BY <1>q, <1>1, <1>2, <1>3, QuietLocals
<1>s. ASSUME NEW p \in Procs, WriteStep(p) PROVE Rows /\ Queue /\ Merges
  <2>1. CASE VerifyDone(p) \/ Degrade(p) \/ SyncWrite(p) \/ Rewrite(p) \/ PrWrite(p)
             \/ Promote(p) \/ Record(p)
    BY <2>1, <1>1, <1>2, <1>3
    DEF VerifyDone, Degrade, SyncWrite, Rewrite, PrWrite, Promote, Record, tables, pulls
  <2>2. CASE PrCreate(p) \/ PrReady(p)
    <3>1. Merges
      BY <2>2 DEF PrCreate, PrReady, TypeOK, Local
    <3> QED
      BY <2>2, <3>1, <1>1, <1>2 DEF PrCreate, PrReady, tables
  <2>3. CASE T1Write(p)
    <3>1. ASSUME NEW s \in Stubs
          PROVE  /\ stub[s].state \notin OpenState => stub'[s] = stub[s]
                 /\ stub'[s].state = "ACTIVE" => stub[s].state = "ACTIVE"
      <4> DEFINE link == stub[s].linked \/ s \in Linkable(p)
                 to == IF s \in Unmoved(p) THEN "SUPERSEDED" ELSE stub[s].state
      <4>1. stub'[s] = [stub[s] EXCEPT !.state = to, !.linked = link] /\ stub[s] \in Row
        BY <2>3 DEF T1Write, TypeOK, Row
      <4>2. stub[s].state \notin OpenState => to = stub[s].state /\ s \notin Linkable(p)
        BY <1>u DEF Linkable, OpenState
      <4>3. s \notin Linkable(p) => link = stub[s].linked
        BY <4>1 DEF Row
      <4>4. to = "ACTIVE" => stub[s].state = "ACTIVE"
        OBVIOUS
      <4> HIDE DEF link, to
      <4> QED  BY <4>1, <4>2, <4>3, <4>4 DEF Row
    <3>2. Queue
      BY <2>3 DEF T1Write, TypeOK
    <3> QED  BY <2>3, <3>1, <3>2, <1>3 DEF T1Write, pulls
  <2>4. CASE ReconcileWrite(p)
    <3>r. \A row \in Row : [row EXCEPT !.state = "ABANDONED", !.reason = "END_OF_RUN"].state
                              = "ABANDONED"
      BY DEF Row
    <3>1. Rows
      BY <2>4, <1>u, <3>r DEF ReconcileWrite, TypeOK
    <3> QED  BY <2>4, <3>1, <1>2, <1>3 DEF ReconcileWrite
  <2>5. CASE Apply(p)
    <3>1. \A row \in Row : Settled(row, proc[p].act).state # "ACTIVE"
      BY DEF Settled, Row
    <3>2. Rows
      BY <2>5, <1>u, <3>1 DEF Apply, TypeOK
    <3> QED  BY <2>5, <3>2, <1>2, <1>3 DEF Apply, pulls
  <2>6. CASE Claim(p)
    <3>1. PICK t \in proc[p].tasks : Claim(p)!(t)
      BY <2>6 DEF Claim
    <3>2. Queue
      BY <3>1 DEF TypeOK, Claimable
    <3> QED  BY <3>1, <3>2, <1>1, <1>3 DEF pulls
  <2>7. CASE Gate(p) \/ Settle(p) \/ MarkDone(p)
    <3>1. Release(p, "PENDING") \/ Release(p, "DONE") \/ UNCHANGED task
      BY <2>7 DEF Gate, Settle, MarkDone
    <3>2. Queue
      BY <3>1, <1>rel, <1>2
    <3> QED  BY <2>7, <3>2, <1>1, <1>3 DEF Gate, Settle, MarkDone, pulls
  <2> QED
    BY <1>s, <2>1, <2>2, <2>3, <2>4, <2>5, <2>6, <2>7 DEF WriteStep, RoundStep
<1>v. CASE UNCHANGED vars
  BY <1>v, <1>1, <1>2, <1>3 DEF vars, tables, pulls
<1> QED
  BY <1>w, <1>q, <1>s, <1>v, NextSteps

-----------------------------------------------------------------------------
(* What a command knows stays true until it acts on it. *)

\* Program points at which nothing is known but what was polled.
Calm(l) == l.pc \notin {"fire", "supersede", "abandon", "apply", "promote"}

CalmMove(p) == /\ Calm(proc'[p])
               /\ proc'[p].polled \subseteq proc[p].polled
               /\ proc'[p].again \subseteq proc[p].again

LEMMA KnownCalm ==
  ASSUME TypeOK, Forward, NEW p \in Procs, Known(p), CalmMove(p)
  PROVE  Known(p)'
BY DEF Known, Forward, Calm, CalmMove

LEMMA CalmIdle ==
  ASSUME TypeOK, NEW p \in Procs, proc' = [proc EXCEPT ![p] = Idle]
  PROVE  CalmMove(p)
BY DEF TypeOK, CalmMove, Calm, Idle

LEMMA QuietKnown ==
  ASSUME IInv, Forward, NEW p \in Procs, QuietStep(p)
  PROVE  Known(p)'
<1>0. proc \in [Procs -> Local] /\ proc[p] \in Local /\ Known(p) /\ TypeOK
  BY DEF IInv, TypeOK
<1>u. UNCHANGED <<stub, task, status, report, pr, forge, named>>
  BY <1>0, QuietLocals
<1>1. CASE Crash(p) \/ ClaimsEnd(p) \/ PrFailed(p) \/ Resume(p)
           \/ (\E c \in Consumers : Verify(p, c)) \/ (\E r \in Repos : PrPlan(p, r))
  <2>1. CASE Crash(p) \/ ClaimsEnd(p) \/ PrFailed(p)
    BY <1>0, <2>1, CalmIdle, KnownCalm DEF Crash, ClaimsEnd, PrFailed, Goto
  <2>2. CASE Resume(p)
    <3>1. proc'[p] = [Idle EXCEPT !.pc = "reconcile", !.cmd = "resume"]
      BY <1>0, <2>2 DEF Resume, Begin
    <3>2. CalmMove(p)
      BY <3>1 DEF CalmMove, Calm, Idle
    <3> QED  BY <1>0, <3>2, KnownCalm
  <2>3. ASSUME NEW c \in Consumers, Verify(p, c) PROVE Known(p)'
    <3> DEFINE rows == (Active \cap Of(c)) \X {"ACTIVE"}
    <3>1. proc'[p] = [Idle EXCEPT !.pc = "verifying", !.cmd = "verify", !.repo = {c},
                                  !.rows = rows]
      BY <1>0, <2>3 DEF Verify, Begin
    <3>2. CalmMove(p)
      <4> HIDE DEF rows
      <4> QED  BY <3>1 DEF CalmMove, Calm, Idle
    <3> QED  BY <1>0, <3>2, KnownCalm
  <2>4. ASSUME NEW r \in Repos, PrPlan(p, r) PROVE Known(p)'
    <3>1. PICK act : proc' = [proc EXCEPT ![p] =
                       [Idle EXCEPT !.pc = "forge", !.cmd = "pr", !.repo = {r}, !.act = act]]
      BY <2>4 DEF PrPlan, Begin
    <3>2. CalmMove(p)
      BY <1>0, <3>1 DEF CalmMove, Calm, Idle
    <3> QED  BY <1>0, <3>2, KnownCalm
  <2> QED  BY <1>1, <2>1, <2>2, <2>3, <2>4
<1>2. ASSUME NEW cmd \in Commands, SyncPoll(p, cmd) PROVE Known(p)'
  <2>1. /\ Calm(proc'[p]) /\ proc'[p].again = MergedBefore
        /\ proc'[p].polled = {<<r, Observed(r)>> : r \in
                               {r \in Repos : pr[r] \in NonTerminal /\ Observed(r) # pr[r]}}
    BY <1>0, <1>2 DEF SyncPoll, Begin, Idle, Calm
  <2>2. \A r \in Repos : Observed(r) = "MERGED" => forge[r] = "MERGED"
    BY DEF Observed
  <2>3. \A r \in Repos : <<r, "MERGED">> \in proc'[p].polled => forge[r] = "MERGED"
    BY <2>1, <2>2
  <2>4. \A r \in Repos : r \in proc'[p].again => forge[r] = "MERGED"
    BY <2>1 DEF MergedBefore, IInv, MergedRecords
  <2> QED  BY <1>u, <2>1, <2>3, <2>4 DEF Known, Calm
<1>3. CASE SyncAgain(p)
  <2>1. PICK r \in proc[p].again : SyncAgain(p)!(r)
    BY <1>3 DEF SyncAgain
  <2>2. /\ proc'[p].pc = "fire" /\ proc'[p].repo = {r} /\ proc'[p].polled = proc[p].polled
        /\ proc'[p].again \subseteq proc[p].again /\ r \in Repos
    BY <1>0, <2>1 DEF Goto, Local
  <2>3. forge[r] = "MERGED"
    BY <1>0, <2>2 DEF Known
  <2> QED  BY <1>0, <1>u, <2>2, <2>3 DEF Known
<1>4. ASSUME NEW r \in Providers, Resolve(p, r) PROVE Known(p)'
  <2>1. /\ proc'[p].pc = "fire" /\ proc'[p].repo = {r} /\ proc'[p].polled = {}
        /\ proc'[p].again = {} /\ pr[r] = "MERGED" /\ r \in Repos
    BY <1>0, <1>4, Shape DEF Resolve, Begin, Idle
  <2>2. forge[r] = "MERGED"
    BY <2>1 DEF IInv, MergedRecords
  <2> QED  BY <1>u, <2>1, <2>2 DEF Known
<1>5. CASE T1Read(p)
  <2>1. PICK r \in proc[p].repo : T1Read(p)!(r)
    BY <1>5 DEF T1Read
  <2> DEFINE hit == IF Merged(r, "MERGED") /\ (Manual => proc[p].cmd = "resolve")
                    THEN {s \in Active : ProviderOf[s] = r} ELSE {}
  <2>2. /\ proc'[p].pc = IF hit = {} THEN "sync" ELSE "supersede"
        /\ proc'[p].rows = hit \X {"ACTIVE"}
        /\ proc'[p].polled = proc[p].polled /\ proc'[p].again = proc[p].again
    BY <1>0, <2>1 DEF Goto, Local
  <2>3. forge[r] = "MERGED"
    BY <1>0, <2>1 DEF Known
  <2>4. \A s \in Stubs : s \in Read(p)' => ProviderOf[s] = r
    BY <2>2 DEF Read
  <2>5. proc'[p].pc \in {"sync", "supersede"}
    BY <2>2
  <2> HIDE DEF hit
  <2> QED  BY <1>0, <1>u, <2>2, <2>3, <2>4, <2>5 DEF Known
<1>6. CASE SyncEnd(p) \/ PlanClaims(p)
  <2>1. CASE PlanClaims(p)
    <3>1. CalmMove(p)
      BY <1>0, <2>1 DEF PlanClaims, Goto, CalmMove, Calm, Local
    <3> QED  BY <1>0, <3>1, KnownCalm
  <2>2. CASE SyncEnd(p)
    <3> DEFINE rows == Active \X {"ACTIVE"}
               todo == {ConsumerOf[s] : s \in proc[p].fired}
    <3>1. \/ proc' = [proc EXCEPT ![p] = Idle]
          \/ proc'[p] = [proc[p] EXCEPT !.pc = "reconcile", !.polled = {}]
          \/ proc'[p] = [proc[p] EXCEPT !.pc = "rewrite", !.rows = rows, !.todo = todo]
      BY <1>0, <2>2 DEF SyncEnd, AfterSync, Goto
    <3>2. CalmMove(p)
      <4> HIDE DEF rows, todo
      <4> QED  BY <1>0, <3>1, CalmIdle, ZenonT(30) DEF CalmMove, Calm, Local
    <3> QED  BY <1>0, <3>2, KnownCalm
  <2> QED  BY <1>6, <2>1, <2>2
<1>7. CASE ReconcileRead(p)
  <2>1. PICK waiting \in SUBSET {r \in Providers : pr[r] \in {"DRAFTED", "OPEN"}} :
          ReconcileRead(p)!(waiting)
    BY <1>7 DEF ReconcileRead
  <2>2. /\ proc'[p].pc = "abandon"
        /\ proc'[p].rows = {<<s, stub[s].state>> : s \in GivenUp(p, waiting)}
        /\ proc'[p].polled = proc[p].polled /\ proc'[p].again = proc[p].again
    BY <1>0, <2>1 DEF Goto, Local
  <2>3. ASSUME NEW s \in Stubs, <<s, "SUPERSEDED">> \in proc'[p].rows
        PROVE  task[Key(s)] = "DONE"
    <3>1. s \in GivenUp(p, waiting) /\ stub[s].state = "SUPERSEDED"
      BY <2>2, <2>3
    <3>2. s \notin Awaiting
      BY <3>1 DEF GivenUp
    <3>3. stub[s].linked
      BY <3>1 DEF IInv, SupersededIsQueued
    <3> QED  BY <3>1, <3>2, <3>3 DEF Awaiting
  <2> QED  BY <1>0, <1>u, <2>2, <2>3 DEF Known, Key
<1> QED
  BY <1>1, <1>2, <1>3, <1>4, <1>5, <1>6, <1>7 DEF QuietStep

LEMMA WriteKnown ==
  ASSUME IInv, Forward, NEW p \in Procs, WriteStep(p)
  PROVE  Known(p)'
<1>0. proc \in [Procs -> Local] /\ proc[p] \in Local /\ Known(p) /\ TypeOK
  BY DEF IInv, TypeOK
<1>rel. ASSUME NEW to, Release(p, to) PROVE Known(p)'
  <2>1. CalmMove(p)
    BY <1>0, <1>rel DEF Release, Goto, CalmMove, Calm, Local
  <2> QED  BY <1>0, <2>1, KnownCalm
<1>1. CASE VerifyDone(p) \/ Degrade(p) \/ PrCreate(p) \/ PrReady(p) \/ PrWrite(p)
           \/ T1Write(p) \/ ReconcileWrite(p) \/ Promote(p) \/ Record(p)
  <2>1. CASE Degrade(p) \/ PrWrite(p)
    BY <1>0, <2>1, CalmIdle, KnownCalm DEF Degrade, PrWrite, Goto
  <2>2. CASE VerifyDone(p)
    <3>1. proc'[p] = [proc[p] EXCEPT !.pc = "degrade", !.rows = {}]
      BY <1>0, <2>2 DEF VerifyDone, Goto
    <3>2. CalmMove(p)
      BY <1>0, <3>1 DEF CalmMove, Calm, Local
    <3> QED  BY <1>0, <3>2, KnownCalm
  <2>3. CASE PrCreate(p) \/ PrReady(p) \/ Promote(p) \/ Record(p)
    <3>1. PICK at \in {"write", "record", "done"} : proc'[p] = [proc[p] EXCEPT !.pc = at]
      BY <1>0, <2>3 DEF PrCreate, PrReady, Promote, Record, Goto
    <3>2. CalmMove(p)
      BY <1>0, <3>1 DEF CalmMove, Calm, Local
    <3> QED  BY <1>0, <3>2, KnownCalm
  <2>4. CASE T1Write(p)
    <3> DEFINE fired == proc[p].fired \cup Read(p)
    <3>1. proc'[p] = [proc[p] EXCEPT !.pc = "sync", !.rows = {}, !.fired = fired]
      BY <1>0, <2>4 DEF T1Write, Goto
    <3>2. CalmMove(p)
      <4> HIDE DEF fired
      <4> QED  BY <1>0, <3>1 DEF CalmMove, Calm, Local
    <3> QED  BY <1>0, <3>2, KnownCalm
  <2>5. CASE ReconcileWrite(p)
    <3>1. proc'[p] = [proc[p] EXCEPT !.pc = "plan", !.rows = {}, !.fired = {}]
      BY <1>0, <2>5 DEF ReconcileWrite, Goto
    <3>2. CalmMove(p)
      BY <1>0, <3>1 DEF CalmMove, Calm, Local
    <3> QED  BY <1>0, <3>2, KnownCalm
  <2> QED  BY <1>1, <2>1, <2>2, <2>3, <2>4, <2>5
<1>2. CASE Rewrite(p)
  <2>1. PICK c \in proc[p].todo : Rewrite(p)!(c)
    BY <1>2 DEF Rewrite
  <2> DEFINE todo == proc[p].todo \ {c}
  <2>2. \/ proc'[p] = [proc[p] EXCEPT !.todo = todo]
        \/ proc'[p] = AfterSync([[proc[p] EXCEPT !.todo = todo] EXCEPT !.rows = {}])
    BY <1>0, <2>1 DEF Goto
  <2>3. CalmMove(p)
    <3>1. CASE proc'[p] = [proc[p] EXCEPT !.todo = todo]
      <4> HIDE DEF todo
      <4> QED  BY <1>0, <2>1, <3>1 DEF CalmMove, Calm, Local
    <3>2. CASE proc'[p] = AfterSync([[proc[p] EXCEPT !.todo = todo] EXCEPT !.rows = {}])
      <4> HIDE DEF todo
      <4> QED  BY <1>0, <3>2 DEF CalmMove, Calm, Local, AfterSync, Idle
    <3> QED  BY <2>2, <3>1, <3>2
  <2> QED  BY <1>0, <2>3, KnownCalm
<1>3. CASE SyncWrite(p)
  <2>1. PICK w \in proc[p].polled : SyncWrite(p)!(w)
    BY <1>3 DEF SyncWrite
  <2>2. w = <<w[1], w[2]>> /\ w[1] \in Repos
    BY <1>0 DEF Local
  <2>3. /\ proc'[p].polled \subseteq proc[p].polled /\ proc'[p].again = proc[p].again
        /\ \/ proc'[p].pc = "sync"
           \/ proc'[p].pc = "fire" /\ proc'[p].repo = {w[1]} /\ w[2] = "MERGED"
    BY <1>0, <2>1 DEF Goto, Local
  <2>4. CASE proc'[p].pc = "sync"
    BY <1>0, <2>3, <2>4, KnownCalm DEF CalmMove, Calm
  <2>5. CASE proc'[p].pc = "fire" /\ proc'[p].repo = {w[1]} /\ w[2] = "MERGED"
    <3>1. forge[w[1]] = "MERGED"
      BY <1>0, <2>2, <2>5 DEF Known
    <3>3. UNCHANGED forge
      BY <2>1
    <3>2. forge'[w[1]] = "MERGED"
      BY <3>1, <3>3
    <3> QED  BY <1>0, <2>3, <2>5, <3>2, <3>3 DEF Known
  <2> QED  BY <2>3, <2>4, <2>5
<1>4. CASE Claim(p)
  <2>1. PICK t \in proc[p].tasks : Claim(p)!(t)
    BY <1>4 DEF Claim
  <2> DEFINE left == proc[p].tasks \ {t}
  <2>2. \/ proc'[p] = [proc[p] EXCEPT !.tasks = left]
        \/ proc'[p] = [[proc[p] EXCEPT !.tasks = left] EXCEPT !.pc = "gate", !.task = {t}]
    BY <1>0, <2>1 DEF Goto
  <2>3. CalmMove(p)
    <3> HIDE DEF left
    <3> QED  BY <1>0, <2>1, <2>2, ZenonT(30) DEF CalmMove, Calm, Local
  <2> QED  BY <1>0, <2>3, KnownCalm
<1>5. CASE Gate(p)
  <2>1. PICK t \in proc[p].task : Gate(p)!(t)
    BY <1>5 DEF Gate
  <2>2. CASE Release(p, "PENDING")
    BY <2>2, <1>rel
  <2>3. CASE ~Release(p, "PENDING")
    <3> DEFINE rows == (Active \cap Of(t[1])) \X {"ACTIVE"}
    <3>1. proc'[p] = [proc[p] EXCEPT !.pc = "round", !.rows = rows]
      BY <1>0, <2>1, <2>3 DEF Goto
    <3>2. CalmMove(p)
      <4> HIDE DEF rows
      <4> QED  BY <1>0, <3>1 DEF CalmMove, Calm, Local
    <3> QED  BY <1>0, <3>2, KnownCalm
  <2> QED  BY <2>2, <2>3
<1>6. CASE Settle(p)
  <2>1. PICK t \in proc[p].task, outcome \in {"PASS", "FAIL", "breach"}, moved \in BOOLEAN :
          Settle(p)!(t, outcome, moved)
    BY <1>6 DEF Settle
  <2>2. CASE Release(p, "PENDING") \/ Release(p, "DONE")
    BY <2>2, <1>rel
  <2>3. CASE ~(Release(p, "PENDING") \/ Release(p, "DONE"))
    <3> DEFINE act == Decision(t[1], outcome, moved, proc[p].rows)
               at == IF act = "none" THEN "record" ELSE "apply"
               rows == RowsOf(t) \X {"SUPERSEDED"}
               clear == act = "T2" /\ AllClear(t[1], RowsOf(t))
               found == [pass |-> outcome = "PASS", limited |-> proc[p].rows # {}]
    <3>1. proc'[p] = [proc[p] EXCEPT !.pc = at, !.rows = rows, !.act = act, !.clear = clear,
                                     !.report = found]
      BY <1>0, <2>1, <2>3 DEF Goto
    <3>2. /\ proc'[p].pc = at /\ proc'[p].act = act /\ proc'[p].rows = rows
          /\ proc'[p].clear = clear /\ proc'[p].task = proc[p].task
          /\ proc'[p].polled = proc[p].polled /\ proc'[p].again = proc[p].again
      <4> HIDE DEF act, at, rows, clear, found
      <4> QED  BY <1>0, <3>1 DEF Local
    <3>3. act \in (Reason \ {"END_OF_RUN"}) \cup {"T2", "none"} /\ at \in {"record", "apply"}
          /\ (at = "apply" => act # "none")
      BY DEF Decision, Reason
    <3>4. \A s \in Stubs : /\ <<s, "ACTIVE">> \notin rows
                           /\ <<s, "SUPERSEDED">> \in rows <=> s \in RowsOf(t)
      OBVIOUS
    <3>5. \A s \in RowsOf(t) : stub[s].state = "SUPERSEDED"
      BY DEF RowsOf
    <3>6. UNCHANGED <<stub, task, forge>>
      BY <2>1, <2>3 DEF pulls
    <3>7. proc[p].task = {t}
      BY DEF IInv, OneInHand
    <3>8. clear => \A s \in Of(t[1]) : <<s, "SUPERSEDED">> \in rows \/ stub[s].state \notin OpenState
      <4>1. Of(t[1]) \subseteq Stubs
        BY DEF Of
      <4> QED  BY <3>4, <4>1 DEF AllClear, OpenState
    <3>9. \A s \in Stubs : <<s, "SUPERSEDED">> \in rows => stub[s].state # "ACTIVE"
      BY <3>4, <3>5
    <3>10. /\ \A r \in Repos : <<r, "MERGED">> \in proc'[p].polled => forge'[r] = "MERGED"
           /\ \A r \in Repos : r \in proc'[p].again => forge'[r] = "MERGED"
      BY <1>0, <3>2, <3>6 DEF Known
    <3>11. /\ proc'[p].pc \in {"record", "apply"}
           /\ proc'[p].pc = "apply" => proc'[p].act \in (Reason \ {"END_OF_RUN"}) \cup {"T2"}
      BY <3>2, <3>3
    <3>12. \A s \in Stubs : /\ <<s, "ACTIVE">> \notin proc'[p].rows
                            /\ <<s, "SUPERSEDED">> \in proc'[p].rows => stub'[s].state # "ACTIVE"
      BY <3>2, <3>4, <3>6, <3>9
    <3>13. proc'[p].clear => Closing(p)'
      BY <3>2, <3>6, <3>7, <3>8 DEF Closing
    <3> HIDE DEF act, at, rows, clear, found
    <3>14. CASE proc'[p].pc = "record"
      BY <3>10, <3>14 DEF Known
    <3>15. CASE proc'[p].pc = "apply"
      BY <3>10, <3>11, <3>12, <3>13, <3>15 DEF Known
    <3> QED
      BY <3>11, <3>14, <3>15
  <2> QED  BY <2>2, <2>3
<1>7. CASE Apply(p)
  <2>1. proc'[p] = [proc[p] EXCEPT !.pc = "promote"] /\ UNCHANGED <<task, forge>>
    BY <1>0, <1>7 DEF Apply, Goto, pulls
  <2>2. /\ proc'[p].pc = "promote" /\ proc'[p].clear = proc[p].clear
        /\ proc'[p].task = proc[p].task
        /\ proc'[p].polled = proc[p].polled /\ proc'[p].again = proc[p].again
    BY <1>0, <2>1 DEF Local
  <2>3. ASSUME proc[p].clear, NEW t \in proc[p].task, NEW s \in Of(t[1])
        PROVE  stub'[s].state \notin OpenState
    <3>1. s \in Stubs /\ stub[s] \in Row
      BY <1>0 DEF Of, TypeOK
    <3>2. CASE stub[s].state \notin OpenState
      BY <3>1, <3>2 DEF Forward
    <3>3. CASE stub[s].state \in OpenState
      <4>1. <<s, "SUPERSEDED">> \in proc[p].rows /\ stub[s].state # "ACTIVE"
        BY <1>0, <1>7, <2>3, <3>1, <3>3 DEF Known, Closing, Apply
      <4>2. s \in Unmoved(p)
        BY <3>1, <3>3, <4>1 DEF Unmoved, OpenState
      <4>3. stub'[s] = Settled(stub[s], proc[p].act)
        BY <1>7, <3>1, <4>2 DEF Apply
      <4> QED  BY <3>1, <4>3 DEF Settled, Row, OpenState
    <3> QED  BY <3>2, <3>3
  <2> QED  BY <1>0, <2>1, <2>2, <2>3 DEF Known, Of
<1>8. CASE MarkDone(p)
  BY <1>8, <1>rel DEF MarkDone
<1> QED
  BY <1>1, <1>2, <1>3, <1>4, <1>5, <1>6, <1>7, <1>8 DEF WriteStep, RoundStep

LEMMA KnownStep ==
  ASSUME IInv, [Next]_vars
  PROVE  \A q \in Procs : Known(q)'
<1>0. TypeOK /\ Forward /\ \A q \in Procs : Known(q)
  BY ForwardStep DEF IInv
<1>1. CASE WorldStep
  BY <1>0, <1>1, WorldTypes, KnownStays
<1>2. ASSUME NEW p \in Procs, QuietStep(p) PROVE \A q \in Procs : Known(q)'
  <2>1. Only(p)
    BY <1>0, <1>2, QuietLocals, LocalStep
  <2> QED  BY <1>0, <1>2, <2>1, QuietKnown, KnownStays DEF Only
<1>3. ASSUME NEW p \in Procs, WriteStep(p) PROVE \A q \in Procs : Known(q)'
  <2>1. Only(p)
    BY <1>0, <1>3, WriteTypes
  <2> QED  BY <1>0, <1>3, <2>1, WriteKnown, KnownStays DEF Only
<1>4. CASE UNCHANGED vars
  BY <1>0, <1>4, KnownStays DEF vars
<1> QED
  BY <1>1, <1>2, <1>3, <1>4, NextSteps

-----------------------------------------------------------------------------
(* Claims. *)

\* The claim of command p after a step: as before, given up, or one fresh task.
ClaimMoves(p) ==
  \/ proc'[p].task \subseteq proc[p].task /\ \A t \in Tasks : task[t] = "RUNNING" => task'[t] = "RUNNING"
  \/ /\ proc'[p].task = {}
     /\ \A t \in Tasks \ proc[p].task : task[t] = "RUNNING" => task'[t] = "RUNNING"
  \/ \E t \in Tasks : /\ task[t] = "PENDING" /\ task' = [task EXCEPT ![t] = "RUNNING"]
                       /\ proc'[p].task = {t}

LEMMA ClaimStep ==
  ASSUME TypeOK, NEW p \in Procs, QuietStep(p) \/ WriteStep(p)
  PROVE  ClaimMoves(p)
<1>0. proc \in [Procs -> Local] /\ proc[p] \in Local
  BY DEF TypeOK
<1>i. ASSUME proc' = [proc EXCEPT ![p] = Idle], UNCHANGED task PROVE ClaimMoves(p)
  BY <1>0, <1>i DEF ClaimMoves, Idle
<1>rel. ASSUME NEW to, Release(p, to) PROVE ClaimMoves(p)
  BY <1>0, <1>rel DEF Release, Goto, ClaimMoves, TypeOK, Local
<1>same. ASSUME proc'[p].task \subseteq proc[p].task, UNCHANGED task PROVE ClaimMoves(p)
  BY <1>same DEF ClaimMoves
<1>1. CASE QuietStep(p)
  <2>0. UNCHANGED task
    BY <1>1, QuietLocals
  <2>1. CASE Crash(p) \/ ClaimsEnd(p) \/ PrFailed(p)
    BY <1>i, <2>0, <2>1 DEF Crash, ClaimsEnd, PrFailed, Goto
  <2>2. ASSUME NEW l, Begin(p, l), l.task = {} PROVE ClaimMoves(p)
    BY <1>0, <1>same, <2>0, <2>2 DEF Begin
  <2>3. CASE Resume(p)
    <3>1. [Idle EXCEPT !.pc = "reconcile", !.cmd = "resume"].task = {}
      BY DEF Idle
    <3> QED  BY <2>2, <2>3, <3>1 DEF Resume
  <2>4. ASSUME NEW c \in Consumers, Verify(p, c) PROVE ClaimMoves(p)
    <3> DEFINE rows == (Active \cap Of(c)) \X {"ACTIVE"}
    <3>1. [Idle EXCEPT !.pc = "verifying", !.cmd = "verify", !.repo = {c}, !.rows = rows].task = {}
      BY DEF Idle
    <3> QED  BY <2>2, <2>4, <3>1 DEF Verify
  <2>5. ASSUME NEW cmd \in Commands, SyncPoll(p, cmd) PROVE ClaimMoves(p)
    <3> DEFINE polled == {<<r, Observed(r)>> : r \in
                           {r \in Repos : pr[r] \in NonTerminal /\ Observed(r) # pr[r]}}
    <3>1. [Idle EXCEPT !.pc = "sync", !.cmd = cmd, !.polled = polled,
                       !.again = MergedBefore].task = {}
      BY DEF Idle
    <3> QED  BY <2>2, <2>5, <3>1 DEF SyncPoll
  <2>6. ASSUME NEW r \in Providers, Resolve(p, r) PROVE ClaimMoves(p)
    <3>1. [Idle EXCEPT !.pc = "fire", !.cmd = "resolve", !.repo = {r}].task = {}
      BY DEF Idle
    <3> QED  BY <2>2, <2>6, <3>1 DEF Resolve
  <2>7. ASSUME NEW r \in Repos, PrPlan(p, r) PROVE ClaimMoves(p)
    <3>1. PICK act : Begin(p, [Idle EXCEPT !.pc = "forge", !.cmd = "pr", !.repo = {r}, !.act = act])
      BY <2>7 DEF PrPlan
    <3>2. [Idle EXCEPT !.pc = "forge", !.cmd = "pr", !.repo = {r}, !.act = act].task = {}
      BY DEF Idle
    <3> QED  BY <2>2, <3>1, <3>2
  <2>8. CASE SyncAgain(p) \/ ReconcileRead(p) \/ PlanClaims(p)
    <3>1. CASE SyncAgain(p)
      BY <1>0, <1>same, <2>0, <3>1 DEF SyncAgain, Goto, Local
    <3>2. CASE ReconcileRead(p)
      BY <1>0, <1>same, <2>0, <3>2 DEF ReconcileRead, Goto, Local
    <3>3. CASE PlanClaims(p)
      BY <1>0, <1>same, <2>0, <3>3 DEF PlanClaims, Goto, Local
    <3> QED  BY <2>8, <3>1, <3>2, <3>3
  <2>9. CASE T1Read(p)
    <3>1. PICK r \in proc[p].repo : T1Read(p)!(r)
      BY <2>9 DEF T1Read
    <3>2. proc'[p].task = proc[p].task
      BY <1>0, <3>1 DEF Goto, Local
    <3> QED  BY <1>same, <2>0, <3>2
  <2>10. CASE SyncEnd(p)
    <3>1. \/ proc' = [proc EXCEPT ![p] = Idle]
          \/ proc'[p] = [proc[p] EXCEPT !.pc = "reconcile", !.polled = {}]
          \/ \E rows, todo :
               proc'[p] = [proc[p] EXCEPT !.pc = "rewrite", !.rows = rows, !.todo = todo]
      BY <1>0, <2>10 DEF SyncEnd, AfterSync, Goto
    <3>2. CASE proc' = [proc EXCEPT ![p] = Idle]
      BY <1>i, <2>0, <3>2
    <3>3. CASE proc'[p] = [proc[p] EXCEPT !.pc = "reconcile", !.polled = {}]
      BY <1>0, <1>same, <2>0, <3>3 DEF Local
    <3>4. ASSUME NEW rows, NEW todo,
                 proc'[p] = [proc[p] EXCEPT !.pc = "rewrite", !.rows = rows, !.todo = todo]
          PROVE  ClaimMoves(p)
      BY <1>0, <1>same, <2>0, <3>4 DEF Local
    <3> QED  BY <3>1, <3>2, <3>3, <3>4
  <2> QED
    BY <1>1, <2>1, <2>3, <2>4, <2>5, <2>6, <2>7, <2>8, <2>9, <2>10 DEF QuietStep
<1>2. CASE WriteStep(p)
  <2>1. CASE Degrade(p) \/ PrWrite(p)
    BY <1>i, <2>1 DEF Degrade, PrWrite, Goto, tables
  <2>2. CASE VerifyDone(p) \/ PrCreate(p) \/ PrReady(p) \/ Promote(p) \/ Record(p) \/ Apply(p)
    <3>1. \/ \E at : proc'[p] = [proc[p] EXCEPT !.pc = at]
          \/ proc'[p] = [proc[p] EXCEPT !.pc = "degrade", !.rows = {}]
      BY <1>0, <2>2 DEF VerifyDone, PrCreate, PrReady, Promote, Record, Apply, Goto
    <3>2. UNCHANGED task
      BY <2>2 DEF VerifyDone, PrCreate, PrReady, Promote, Record, Apply, tables
    <3> QED  BY <1>0, <1>same, <3>1, <3>2 DEF Local
  <2>3. CASE SyncWrite(p)
    <3>1. PICK w \in proc[p].polled : SyncWrite(p)!(w)
      BY <2>3 DEF SyncWrite
    <3>2. proc'[p].task = proc[p].task /\ UNCHANGED task
      BY <1>0, <3>1 DEF Goto, Local, tables
    <3> QED  BY <1>same, <3>2
  <2>4. CASE T1Write(p)
    <3> DEFINE fired == proc[p].fired \cup Read(p)
    <3>1. proc'[p] = [proc[p] EXCEPT !.pc = "sync", !.rows = {}, !.fired = fired]
      BY <1>0, <2>4 DEF T1Write, Goto
    <3>2. proc'[p].task = proc[p].task
      <4> HIDE DEF fired
      <4> QED  BY <1>0, <3>1 DEF Local
    <3>3. \A t \in Tasks : task[t] = "RUNNING" => task'[t] = "RUNNING"
      BY <2>4 DEF T1Write
    <3> QED  BY <3>2, <3>3 DEF ClaimMoves
  <2>5. CASE Rewrite(p)
    <3>1. PICK c \in proc[p].todo : Rewrite(p)!(c)
      BY <2>5 DEF Rewrite
    <3> DEFINE todo == proc[p].todo \ {c}
    <3>2. /\ \/ proc'[p] = [proc[p] EXCEPT !.todo = todo]
             \/ proc'[p] = AfterSync([[proc[p] EXCEPT !.todo = todo] EXCEPT !.rows = {}])
          /\ UNCHANGED task
      BY <1>0, <3>1 DEF Goto, tables
    <3>3. proc'[p].task \subseteq proc[p].task
      <4>1. CASE proc'[p] = [proc[p] EXCEPT !.todo = todo]
        <5> HIDE DEF todo
        <5> QED  BY <1>0, <4>1 DEF Local
      <4>2. CASE proc'[p] = AfterSync([[proc[p] EXCEPT !.todo = todo] EXCEPT !.rows = {}])
        <5> HIDE DEF todo
        <5> QED  BY <1>0, <4>2 DEF Local, AfterSync, Idle
      <4> QED  BY <3>2, <4>1, <4>2
    <3> QED  BY <1>same, <3>2, <3>3
  <2>6. CASE ReconcileWrite(p)
    BY <1>0, <1>same, <2>6 DEF ReconcileWrite, Goto, Local
  <2>7. CASE Claim(p)
    <3>1. PICK t \in proc[p].tasks : Claim(p)!(t)
      BY <2>7 DEF Claim
    <3> DEFINE left == proc[p].tasks \ {t}
    <3>2. \/ proc'[p] = [proc[p] EXCEPT !.tasks = left] /\ UNCHANGED task
          \/ /\ proc'[p] = [[proc[p] EXCEPT !.tasks = left] EXCEPT !.pc = "gate", !.task = {t}]
             /\ task[t] = "PENDING" /\ task' = [task EXCEPT ![t] = "RUNNING"]
      BY <1>0, <3>1 DEF Goto, Claimable
    <3>3. t \in Tasks
      BY <1>0 DEF Local
    <3>4. CASE proc'[p] = [proc[p] EXCEPT !.tasks = left] /\ UNCHANGED task
      <4> HIDE DEF left
      <4> QED  BY <1>0, <1>same, <3>4 DEF Local
    <3>5. CASE /\ proc'[p] = [[proc[p] EXCEPT !.tasks = left] EXCEPT !.pc = "gate", !.task = {t}]
               /\ task[t] = "PENDING" /\ task' = [task EXCEPT ![t] = "RUNNING"]
      <4>1. proc'[p].task = {t}
        <5> HIDE DEF left
        <5> QED  BY <1>0, <3>5 DEF Local
      <4> QED  BY <3>3, <3>5, <4>1 DEF ClaimMoves
    <3> QED  BY <3>2, <3>4, <3>5
  <2>8. CASE Gate(p)
    <3>1. PICK t \in proc[p].task : Gate(p)!(t)
      BY <2>8 DEF Gate
    <3>2. CASE ~Release(p, "PENDING")
      <4>1. PICK rows : proc'[p] = [proc[p] EXCEPT !.pc = "round", !.rows = rows]
        BY <1>0, <3>1, <3>2 DEF Goto
      <4>2. UNCHANGED task
        BY <3>1, <3>2
      <4> QED  BY <1>0, <1>same, <4>1, <4>2 DEF Local
    <3> QED  BY <1>rel, <3>2
  <2>9. CASE Settle(p)
    <3>1. PICK t \in proc[p].task, outcome \in {"PASS", "FAIL", "breach"}, moved \in BOOLEAN :
            Settle(p)!(t, outcome, moved)
      BY <2>9 DEF Settle
    <3>2. CASE ~(Release(p, "PENDING") \/ Release(p, "DONE"))
      <4> DEFINE act == Decision(t[1], outcome, moved, proc[p].rows)
                 at == IF act = "none" THEN "record" ELSE "apply"
                 rows == RowsOf(t) \X {"SUPERSEDED"}
                 clear == act = "T2" /\ AllClear(t[1], RowsOf(t))
                 found == [pass |-> outcome = "PASS", limited |-> proc[p].rows # {}]
      <4>1. proc'[p] = [proc[p] EXCEPT !.pc = at, !.rows = rows, !.act = act, !.clear = clear,
                                       !.report = found]
        BY <1>0, <3>1, <3>2 DEF Goto
      <4> HIDE DEF act, at, rows, clear, found
      <4>2. UNCHANGED task
        BY <3>1, <3>2
      <4> QED  BY <1>0, <1>same, <4>1, <4>2 DEF Local
    <3> QED  BY <1>rel, <3>2
  <2>10. CASE MarkDone(p)
    BY <1>rel, <2>10 DEF MarkDone
  <2> QED
    BY <1>2, <2>1, <2>2, <2>3, <2>4, <2>5, <2>6, <2>7, <2>8, <2>9, <2>10 DEF WriteStep, RoundStep
<1> QED  BY <1>1, <1>2

LEMMA ClaimInv ==
  ASSUME IInv, [Next]_vars
  PROVE  OneRoundPerTask' /\ OneInHand'
<1>0. TypeOK /\ OneRoundPerTask /\ OneInHand /\ \A q \in Procs : proc[q].task \subseteq Tasks
  BY DEF IInv, TypeOK, Local
<1>1. ASSUME NEW p \in Procs, QuietStep(p) \/ WriteStep(p) PROVE OneRoundPerTask' /\ OneInHand'
  <2>1. Only(p)
    BY <1>0, <1>1, QuietLocals, LocalStep, WriteTypes DEF IInv
  <2>2. ClaimMoves(p)
    BY <1>0, <1>1, ClaimStep
  <2>3. \A q \in Procs : q # p => proc'[q].task = proc[q].task
    BY <2>1 DEF Only
  <2>4. CASE /\ proc'[p].task \subseteq proc[p].task
             /\ \A t \in Tasks : task[t] = "RUNNING" => task'[t] = "RUNNING"
    BY <1>0, <2>3, <2>4 DEF OneRoundPerTask, OneInHand
  <2>5. CASE /\ proc'[p].task = {}
             /\ \A t \in Tasks \ proc[p].task : task[t] = "RUNNING" => task'[t] = "RUNNING"
    BY <1>0, <2>3, <2>5 DEF OneRoundPerTask, OneInHand
  <2>6. ASSUME NEW t \in Tasks, task[t] = "PENDING", task' = [task EXCEPT ![t] = "RUNNING"],
               proc'[p].task = {t}
        PROVE  OneRoundPerTask' /\ OneInHand'
    <3>1. \A u \in Tasks : task'[u] = IF u = t THEN "RUNNING" ELSE task[u]
      BY <1>0, <2>6 DEF TypeOK
    <3>2. \A q \in Procs : t \notin proc[q].task
      BY <1>0, <2>6 DEF OneRoundPerTask
    <3> QED  BY <1>0, <2>3, <2>6, <3>1, <3>2 DEF OneRoundPerTask, OneInHand
  <2> QED  BY <2>2, <2>4, <2>5, <2>6 DEF ClaimMoves
<1>2. CASE WorldStep
  <2>1. UNCHANGED <<proc, task>>
    BY <1>2 DEF WorldStep, FixProvider, ForgeDecides, Abandon, tables
  <2> QED  BY <1>0, <2>1 DEF OneRoundPerTask, OneInHand
<1>3. CASE UNCHANGED vars
  BY <1>0, <1>3 DEF OneRoundPerTask, OneInHand, vars, tables
<1> QED  BY <1>1, <1>2, <1>3, NextSteps

-----------------------------------------------------------------------------
(* The rows: why they moved, and what is queued for them. *)

\* A row after a step: as it was; superseded and linked by T1Write, which queues its
\* task; settled by Apply; given up by ReconcileWrite or Abandon.
RowMoves(s) ==
  \/ stub'[s] = stub[s]
  \/ /\ stub'[s].linked /\ task'[Key(s)] # "none" /\ forge'[ProviderOf[s]] = "MERGED"
     /\ stub'[s].reason = stub[s].reason /\ stub'[s].state # "ABANDONED"
     /\ stub[s].state # "ABANDONED"
  \/ stub'[s].state = "ABANDONED" /\ stub'[s].reason \in Reason \ {"END_OF_RUN"}
  \/ stub'[s].state = "ABANDONED" /\ s \notin Awaiting

LEMMA RowStep ==
  ASSUME IInv, [Next]_vars, NEW s \in Stubs
  PROVE  RowMoves(s)
<1>0. TypeOK /\ Forward /\ stub[s] \in Row /\ Key(s) \in Tasks /\ ProviderOf[s] \in Repos
  BY ForwardStep, Shape DEF IInv, TypeOK
<1>u. ASSUME UNCHANGED stub PROVE RowMoves(s)
  BY <1>u DEF RowMoves
<1>1. ASSUME NEW p \in Procs, T1Write(p) PROVE RowMoves(s)
  <2>1. CASE s \notin Read(p)
    <3>1. s \notin Unmoved(p) /\ s \notin Linkable(p)
      BY <1>0, <2>1, RowsType
    <3>2. stub'[s] = [stub[s] EXCEPT !.state = stub[s].state, !.linked = stub[s].linked]
      BY <1>0, <1>1, <3>1 DEF T1Write, Row
    <3> QED  BY <1>0, <3>2 DEF RowMoves, Row
  <2>2. CASE s \in Read(p) /\ s \notin Linkable(p)
    <3>1. s \notin Unmoved(p)
      BY <2>2 DEF Linkable
    <3>2. stub'[s] = [stub[s] EXCEPT !.state = stub[s].state, !.linked = stub[s].linked]
      BY <1>0, <1>1, <2>2, <3>1 DEF T1Write, Row
    <3> QED  BY <1>0, <3>2 DEF RowMoves, Row
  <2>3. CASE s \in Linkable(p)
    <3>1. s \in Read(p)
      BY <1>0, <2>3, RowsType
    <3>2. forge[ProviderOf[s]] = "MERGED"
      BY <1>1, <3>1 DEF IInv, Known, T1Write
    <3>3. forge'[ProviderOf[s]] = "MERGED"
      BY <1>0, <3>2 DEF Forward
    <3>4. task'[Key(s)] # "none"
      BY <1>0, <1>1, <3>1 DEF T1Write
    <3>5. stub'[s] = [stub[s] EXCEPT !.state = "SUPERSEDED", !.linked = TRUE]
      BY <1>0, <1>1, <2>3 DEF T1Write, Linkable, Row
    <3>6. stub[s].state # "ABANDONED"
      <4>1. s \in Unmoved(p) \/ stub[s].state = "SUPERSEDED"
        BY <2>3 DEF Linkable
      <4>2. s \in Unmoved(p) => stub[s].state \in OpenState
        BY <1>0 DEF Unmoved, TypeOK, Local
      <4> QED  BY <4>1, <4>2 DEF OpenState
    <3> QED  BY <1>0, <3>3, <3>4, <3>5, <3>6 DEF RowMoves, Row
  <2> QED  BY <1>0, <2>1, <2>2, <2>3, RowsType
<1>2. ASSUME NEW p \in Procs, ReconcileWrite(p) PROVE RowMoves(s)
  <2>1. CASE s \notin Unmoved(p)
    BY <1>2, <2>1 DEF ReconcileWrite, RowMoves
  <2>2. CASE s \in Unmoved(p)
    <3>1. stub'[s] = [stub[s] EXCEPT !.state = "ABANDONED", !.reason = "END_OF_RUN"]
      BY <1>2, <2>2 DEF ReconcileWrite
    <3>2. s \notin Awaiting
      BY <1>2, <2>2 DEF ReconcileWrite, Awaiting, Unmoved, IInv, Known
    <3> QED  BY <1>0, <3>1, <3>2 DEF RowMoves, Row
  <2> QED  BY <2>1, <2>2
<1>3. ASSUME NEW p \in Procs, Apply(p) PROVE RowMoves(s)
  <2>1. CASE s \notin Unmoved(p)
    BY <1>3, <2>1 DEF Apply, RowMoves
  <2>2. CASE s \in Unmoved(p)
    <3>1. stub'[s] = Settled(stub[s], proc[p].act)
      BY <1>3, <2>2 DEF Apply
    <3>2. proc[p].act \in (Reason \ {"END_OF_RUN"}) \cup {"T2"}
      BY <1>3 DEF IInv, Known, Apply
    <3>3. stub[s].state = "SUPERSEDED"
      <4>1. <<s, stub[s].state>> \in proc[p].rows /\ stub[s].state \in OpenState
        BY <1>0, <2>2 DEF Unmoved, TypeOK, Local
      <4> QED  BY <1>3, <4>1 DEF IInv, Known, Apply, OpenState
    <3>4. stub[s].linked /\ task[Key(s)] # "none" /\ forge[ProviderOf[s]] = "MERGED"
      BY <3>3 DEF IInv, SupersededIsQueued
    <3>5. task'[Key(s)] # "none" /\ forge'[ProviderOf[s]] = "MERGED"
      BY <1>0, <3>4 DEF Forward
    <3>6. CASE proc[p].act = "T2"
      <4>1. stub'[s] = [stub[s] EXCEPT !.state = "RESOLVED"]
        BY <3>1, <3>6 DEF Settled
      <4> QED  BY <1>0, <3>3, <3>4, <3>5, <4>1 DEF RowMoves, Row
    <3>7. CASE proc[p].act # "T2"
      <4>1. stub'[s] = [stub[s] EXCEPT !.state = "ABANDONED", !.reason = proc[p].act]
        BY <3>1, <3>7 DEF Settled
      <4> QED  BY <1>0, <3>2, <3>7, <4>1 DEF RowMoves, Row
    <3> QED  BY <3>6, <3>7
  <2> QED  BY <2>1, <2>2
<1>4. ASSUME NEW o \in Stubs, Abandon(o) PROVE RowMoves(s)
  <2>1. stub' = [stub EXCEPT ![o] = [stub[o] EXCEPT !.state = "ABANDONED", !.reason = "OPERATOR"]]
    BY <1>4 DEF Abandon, IInv, TypeOK, Row
  <2>2. CASE s = o
    <3>1. stub'[s] = [stub[s] EXCEPT !.state = "ABANDONED", !.reason = "OPERATOR"]
      BY <2>1, <2>2 DEF IInv, TypeOK
    <3> QED  BY <1>0, <3>1 DEF RowMoves, Row, Reason
  <2>3. CASE s # o
    BY <2>1, <2>3 DEF IInv, TypeOK, RowMoves
  <2> QED  BY <2>2, <2>3
<1>5. CASE WorldStep
  BY <1>u, <1>4, <1>5 DEF WorldStep, FixProvider, ForgeDecides, tables
<1>6. ASSUME NEW p \in Procs, QuietStep(p) PROVE RowMoves(s)
  BY <1>0, <1>u, <1>6, QuietLocals
<1>7. ASSUME NEW p \in Procs, WriteStep(p) PROVE RowMoves(s)
  <2>1. CASE VerifyDone(p) \/ Degrade(p) \/ SyncWrite(p) \/ Rewrite(p)
    BY <1>u, <2>1 DEF VerifyDone, Degrade, SyncWrite, Rewrite, tables
  <2>2. CASE Claim(p) \/ Gate(p) \/ Settle(p) \/ Promote(p) \/ Record(p) \/ MarkDone(p)
    BY <1>u, <2>2 DEF Claim, Gate, Settle, Promote, Record, MarkDone
  <2>3. CASE PrCreate(p) \/ PrReady(p) \/ PrWrite(p)
    BY <1>u, <2>3 DEF PrCreate, PrReady, PrWrite, tables
  <2> QED  BY <1>1, <1>2, <1>3, <1>7, <2>1, <2>2, <2>3 DEF WriteStep, RoundStep
<1>8. CASE UNCHANGED vars
  BY <1>u, <1>8 DEF vars, tables
<1> QED  BY <1>5, <1>6, <1>7, <1>8, NextSteps

LEMMA QueueInv ==
  ASSUME IInv, [Next]_vars
  PROVE  SupersededIsQueued' /\ Reasons'
<1>0. Forward /\ TypeOK
  BY ForwardStep DEF IInv
<1>1. ASSUME NEW s \in Stubs, stub'[s].state \in {"SUPERSEDED", "RESOLVED"}
      PROVE  stub'[s].linked /\ task'[Key(s)] # "none" /\ forge'[ProviderOf[s]] = "MERGED"
  <2>1. RowMoves(s) /\ Key(s) \in Tasks /\ ProviderOf[s] \in Repos
    BY RowStep, Shape
  <2>2. CASE stub'[s] = stub[s]
    BY <1>0, <1>1, <2>1, <2>2 DEF IInv, SupersededIsQueued, Forward
  <2>3. CASE stub'[s] # stub[s]
    BY <1>1, <2>1, <2>3 DEF RowMoves
  <2> QED  BY <2>2, <2>3
<1>2. ASSUME NEW s \in Stubs, stub'[s].state # "ABANDONED" PROVE stub'[s].reason = "none"
  BY <1>2, RowStep DEF RowMoves, IInv, Reasons
<1> QED  BY <1>1, <1>2 DEF SupersededIsQueued, Reasons, Key

LEMMA RecordInv ==
  ASSUME IInv, [Next]_vars
  PROVE  MergedRecords'
<1>0. Forward /\ TypeOK /\ MergedRecords
  BY ForwardStep DEF IInv
<1>u. ASSUME UNCHANGED pr PROVE MergedRecords'
  BY <1>0, <1>u DEF MergedRecords, Forward
<1>1. ASSUME NEW p \in Procs, SyncWrite(p) PROVE MergedRecords'
  <2>1. PICK w \in proc[p].polled : SyncWrite(p)!(w)
    BY <1>1 DEF SyncWrite
  <2>2. w = <<w[1], w[2]>> /\ w[1] \in Repos
    BY <1>0 DEF TypeOK, Local
  <2>3. w[2] = "MERGED" => forge[w[1]] = "MERGED"
    BY <2>2 DEF IInv, Known
  <2>4. /\ \A r \in Repos : pr'[r] = IF r = w[1] THEN w[2] ELSE pr[r]
        /\ UNCHANGED forge
    BY <1>0, <2>1, <2>2 DEF TypeOK
  <2> QED  BY <1>0, <2>3, <2>4 DEF MergedRecords
<1>2. ASSUME NEW p \in Procs, PrWrite(p) PROVE MergedRecords'
  BY <1>0, <1>2 DEF PrWrite, MergedRecords, TypeOK
<1>3. ASSUME NEW p \in Procs, ReconcileWrite(p) PROVE MergedRecords'
  BY <1>0, <1>3 DEF ReconcileWrite, MergedRecords
<1>4. CASE WorldStep
  BY <1>u, <1>4 DEF WorldStep, FixProvider, ForgeDecides, Abandon, pulls
<1>5. ASSUME NEW p \in Procs, QuietStep(p) PROVE MergedRecords'
  BY <1>0, <1>u, <1>5, QuietLocals
<1>6. ASSUME NEW p \in Procs, WriteStep(p) PROVE MergedRecords'
  <2>1. CASE VerifyDone(p) \/ Degrade(p) \/ T1Write(p) \/ Rewrite(p)
    BY <1>u, <2>1 DEF VerifyDone, Degrade, T1Write, Rewrite, pulls
  <2>2. CASE RoundStep(p)
    BY <1>u, <2>2 DEF RoundStep, Claim, Gate, Settle, Apply, Promote, Record, MarkDone, pulls
  <2>3. CASE PrCreate(p) \/ PrReady(p)
    BY <1>u, <2>3 DEF PrCreate, PrReady
  <2> QED  BY <1>1, <1>2, <1>3, <1>6, <2>1, <2>2, <2>3 DEF WriteStep
<1>7. CASE UNCHANGED vars
  BY <1>u, <1>7 DEF vars, pulls
<1> QED  BY <1>4, <1>5, <1>6, <1>7, NextSteps

-----------------------------------------------------------------------------
(* A consumer is promoted only by a round that knows every row closed. *)

LEMMA PromoteStep ==
  ASSUME IInv, [Next]_vars, NEW c \in Consumers, status[c] = "DEGRADED", status'[c] = "SUCCEEDED"
  PROVE  Open \cap Of(c) = {}
<1>0. TypeOK /\ Consumers \subseteq Repos /\ c \notin Providers
  BY Shape, StubAssumption DEF IInv
<1>u. ASSUME UNCHANGED status PROVE FALSE
  BY <1>u
<1>1. ASSUME NEW p \in Procs, Promote(p) PROVE Open \cap Of(c) = {}
  <2>1. PICK t \in proc[p].task : Promote(p)!(t)
    BY <1>1 DEF Promote
  <2>2. t[1] = c /\ proc[p].clear
    BY <1>0, <2>1 DEF TypeOK
  <2> QED  BY <2>1, <2>2 DEF IInv, Known, Open
<1>2. ASSUME NEW p \in Procs, VerifyDone(p) \/ Degrade(p) PROVE FALSE
  BY <1>0, <1>2 DEF VerifyDone, Degrade, TypeOK
<1>3. CASE WorldStep
  <2>1. ASSUME NEW r \in Providers, FixProvider(r) PROVE FALSE
    BY <1>0, <2>1 DEF FixProvider, TypeOK
  <2>2. CASE ~ \E r \in Providers : FixProvider(r)
    BY <1>3, <1>u, <2>2 DEF WorldStep, ForgeDecides, Abandon, tables
  <2> QED  BY <2>1, <2>2
<1>4. ASSUME NEW p \in Procs, QuietStep(p) PROVE FALSE
  BY <1>0, <1>u, <1>4, QuietLocals
<1>5. ASSUME NEW p \in Procs, WriteStep(p) PROVE Open \cap Of(c) = {}
  <2>1. CASE SyncWrite(p) \/ T1Write(p) \/ Rewrite(p) \/ ReconcileWrite(p)
    BY <1>u, <2>1 DEF SyncWrite, T1Write, Rewrite, ReconcileWrite, tables
  <2>2. CASE Claim(p) \/ Gate(p) \/ Settle(p) \/ Apply(p) \/ Record(p) \/ MarkDone(p)
    BY <1>u, <2>2 DEF Claim, Gate, Settle, Apply, Record, MarkDone
  <2>3. CASE PrCreate(p) \/ PrReady(p) \/ PrWrite(p)
    BY <1>u, <2>3 DEF PrCreate, PrReady, PrWrite, tables
  <2> QED  BY <1>1, <1>2, <1>5, <2>1, <2>2, <2>3 DEF WriteStep, RoundStep
<1>6. CASE UNCHANGED vars
  BY <1>u, <1>6 DEF vars, tables
<1> QED  BY <1>3, <1>4, <1>5, <1>6, NextSteps

-----------------------------------------------------------------------------

LEMMA InitInv == Init => IInv
<1> SUFFICES ASSUME Init PROVE IInv
  OBVIOUS
<1>0. proc = [p \in Procs |-> Idle] /\ \A p \in Procs : proc[p] = Idle
  BY DEF Init
<1>1. TypeOK
  <2>1. stub \in [Stubs -> Row]
    BY DEF Init, Row, StubState, Reason
  <2>2. proc \in [Procs -> Local]
    BY <1>0, IdleType
  <2>3. named \in [Consumers -> SUBSET Stubs]
    BY DEF Init, Of
  <2>4. report \in [Repos -> Report]
    BY DEF Init, NoReport, Report
  <2> QED  BY <2>1, <2>2, <2>3, <2>4 DEF Init, TypeOK, PrState
<1>2. OneRoundPerTask /\ OneInHand
  BY <1>0 DEF OneRoundPerTask, OneInHand, Idle
<1>3. SupersededIsQueued /\ Reasons /\ MergedRecords
  BY DEF Init, SupersededIsQueued, Reasons, MergedRecords
<1>4. \A p \in Procs : Known(p)
  BY <1>0 DEF Known, Idle
<1> QED  BY <1>1, <1>2, <1>3, <1>4 DEF IInv

\* The inductive invariant holds at all times.
THEOREM StubInductive == Spec => []IInv
<1>1. IInv /\ [Next]_vars => IInv'
  <2> SUFFICES ASSUME IInv, [Next]_vars PROVE IInv'
    OBVIOUS
  <2>1. TypeOK'
    BY TypeStep DEF IInv
  <2> QED  BY <2>1, ClaimInv, QueueInv, RecordInv, KnownStep DEF IInv
<1> QED  BY <1>1, InitInv, PTL DEF Spec

\* Every table keeps its shape, and a command's locals are always those of one of its
\* program points.
THEOREM StubTypes == Spec => []TypeOK
<1>1. IInv => TypeOK
  BY DEF IInv
<1> QED  BY <1>1, StubInductive, PTL

\* claim_task_by_id gives a revalidation round to one command: the task it works on is
\* RUNNING and in no other command's hand.
THEOREM OneRound == Spec => []OneRoundPerTask
<1>1. IInv => OneRoundPerTask
  BY DEF IInv
<1> QED  BY <1>1, StubInductive, PTL

\* A row that is SUPERSEDED or RESOLVED had its provider merged on the forge, and its
\* round is in the task table: T1 supersedes, queues and links in one transaction.
THEOREM QueuedWhenSuperseded == Spec => []SupersededIsQueued
<1>1. IInv => SupersededIsQueued
  BY DEF IInv
<1> QED  BY <1>1, StubInductive, PTL

\* No command moves a row out of RESOLVED or ABANDONED, whatever it had read before.
THEOREM TerminalRows == Spec => TerminalIsFinal
<1>1. IInv /\ [Next]_vars =>
        [\A s \in Stubs : stub[s].state \notin OpenState => stub'[s] = stub[s]]_vars
  BY ForwardStep DEF IInv, Forward
<1> QED  BY <1>1, StubInductive, PTL DEF Spec, TerminalIsFinal

\* The sweep of `fleet resume` abandons no row whose round is queued or running, not
\* even with a plan made before other commands moved on.
THEOREM AwaitingSpared == Spec => AwaitingIsSpared
<1>1. IInv /\ [Next]_vars =>
        [\A s \in Stubs : s \in Awaiting => stub'[s].reason # "END_OF_RUN"]_vars
  <2> SUFFICES ASSUME IInv, [Next]_vars, NEW s \in Stubs, s \in Awaiting
               PROVE  stub'[s].reason # "END_OF_RUN"
    OBVIOUS
  <2>1. stub[s].reason = "none"
    BY DEF IInv, Reasons, Awaiting
  <2> QED  BY <2>1, RowStep DEF RowMoves
<1> QED  BY <1>1, StubInductive, PTL DEF Spec, AwaitingIsSpared

\* A consumer goes from DEGRADED to SUCCEEDED only when none of its rows is open, even
\* though the round read the siblings two transactions before.
THEOREM PromotedClosed == Spec => PromotedWhenClosed
<1>1. IInv /\ [Next]_vars =>
        [\A c \in Consumers : status[c] = "DEGRADED" /\ status'[c] = "SUCCEEDED" =>
           Open \cap Of(c) = {}]_vars
  BY PromoteStep
<1> QED  BY <1>1, StubInductive, PTL DEF Spec, PromotedWhenClosed
=============================================================================
