--------------------------- MODULE ReentryProofs ---------------------------
(***************************************************************************)
(* Theorems about Reentry, for any number of files and rules, any length   *)
(* of the ladder and any number of crashes and losses of the clone.        *)
(***************************************************************************)
EXTENDS Reentry, TLAPS, WellFoundedInduction

-----------------------------------------------------------------------------
(* The transactions on a row of `phases` *)

\* Every transaction on a row leaves a row.
LEMMA RowOperatorsType ==
  ASSUME NEW l \in PhaseRow
  PROVE  /\ acquire_phase_lease(l) \in PhaseRow
         /\ ReclaimLease(l) \in PhaseRow
         /\ \A to \in {SUCCEEDED, PENDING, RHI} : complete_phase(l, to) \in PhaseRow
         /\ reopen_to_pending(l) \in PhaseRow
         /\ abandon_repo(l) \in PhaseRow
         /\ [l EXCEPT !.lease = "expired"] \in PhaseRow
<1> USE DEF PhaseRow, RepoStatus, LeaseState, PENDING, RUNNING, SUCCEEDED,
            BLOCKED, DEGRADED, RHI, SKIPPED
<1>1. l.fence + 1 \in Nat /\ l.attempts + 1 \in Nat
  OBVIOUS
<1>2. \A to \in {SUCCEEDED, PENDING, RHI} : complete_phase(l, to) \in PhaseRow
  <2>1. \A to \in {SUCCEEDED, PENDING, RHI} : CompletionTarget(l, to) \in {SUCCEEDED, PENDING, RHI}
    BY DEF CompletionTarget
  <2> QED  BY <1>1, <2>1 DEF complete_phase
<1> QED  BY <1>1, <1>2 DEF acquire_phase_lease, ReclaimLease, reopen_to_pending, abandon_repo

\* What the transactions do to the columns the effects mention.
LEMMA RowOperatorsEffect ==
  ASSUME NEW l \in PhaseRow
  PROVE  /\ acquire_phase_lease(l).status = RUNNING
         /\ ReclaimLease(l).status = PENDING
         /\ \A to : complete_phase(l, to).status = CompletionTarget(l, to)
         /\ reopen_to_pending(l).status = PENDING
         /\ [l EXCEPT !.lease = "expired"].status = l.status
BY DEF PhaseRow, acquire_phase_lease, ReclaimLease, complete_phase, reopen_to_pending

-----------------------------------------------------------------------------
(* Extrema *)

LEMMA MinIsLeast ==
  ASSUME NEW S \in SUBSET Nat, S # {}
  PROVE  Min(S) \in S /\ \A y \in S : Min(S) <= y
<1> DEFINE R == {ss \in Nat \X Nat : ss[1] < ss[2]}
<1>1. IsWellFoundedOn(R, Nat)
  BY NatLessThanWellFounded, Zenon DEF OpToRel
<1>2. PICK x \in S : \A y \in S : ~(<<y, x>> \in R)
  <2> HIDE DEF R
  <2> QED  BY <1>1, WFMin, Zenon
<1>3. ASSUME NEW y \in S PROVE x <= y
  <2>1. x \in Nat /\ y \in Nat
    OBVIOUS
  <2>2. ~(y < x)
    <3>1. y < x => <<y, x>> \in R
      BY <2>1
    <3> QED  BY <1>2, <3>1
  <2> QED  BY <2>1, <2>2
<1> QED  BY <1>3 DEF Min

LEMMA MaxIsGreatest ==
  ASSUME NEW n \in Nat, NEW S \in SUBSET (0..n), S # {}
  PROVE  Max(S) \in S /\ \A y \in S : Max(S) >= y
<1> DEFINE D == {k \in Nat : \A x \in S : x <= k}
<1>1. D \in SUBSET Nat /\ n \in D
  OBVIOUS
<1>2. PICK m \in D : \A k \in D : m <= k
  <2> HIDE DEF D
  <2> QED  BY <1>1, MinIsLeast
<1>3. m \in S
  <2>1. SUFFICES ASSUME m \notin S PROVE FALSE
    OBVIOUS
  <2>2. \A x \in S : x < m /\ x \in Nat
    BY <1>2, <2>1
  <2>3. m - 1 \in Nat /\ \A x \in S : x <= m - 1
    <3>0. m \in Nat
      BY <1>2
    <3>1. m \in Nat /\ m > 0
      <4>1. PICK x \in S : TRUE
        OBVIOUS
      <4>2. x < m /\ x \in Nat
        BY <2>2
      <4> QED  BY <3>0, <4>2
    <3> HIDE DEF D
    <3> QED  BY <2>2, <3>1
  <2>4. m - 1 \in D
    BY <2>3
  <2> QED  BY <1>2, <2>4
<1> QED  BY <1>2, <1>3 DEF Max

-----------------------------------------------------------------------------
(* Types *)

LEMMA UnitFacts ==
  /\ Unit \subseteq Nat /\ Unit \subseteq 0..(NSources + NSources) /\ Unit # {} /\ None \notin Unit
  /\ Max(Unit) \in Unit
<1>1. /\ Unit \subseteq Nat /\ Unit \subseteq 0..(NSources + NSources) /\ Unit # {} /\ None \notin Unit
      /\ NSources + NSources \in Nat
  BY ReentryAssumption DEF Unit, None
<1> QED  BY <1>1, MaxIsGreatest

LEMMA PhaseFacts ==
  /\ Phase = 1..4 /\ SCAN \in Phase /\ TRANSFORM \in Phase /\ BUILD \in Phase /\ VERIFY \in Phase
  /\ SCAN # TRANSFORM /\ SCAN # BUILD /\ SCAN # VERIFY /\ TRANSFORM # BUILD /\ TRANSFORM # VERIFY
  /\ BUILD # VERIFY /\ None \notin Phase
BY DEF Phase, SCAN, TRANSFORM, BUILD, VERIFY, None

LEMMA StatusNames ==
  /\ PENDING # RUNNING /\ PENDING # SUCCEEDED /\ PENDING # RHI /\ PENDING # DEGRADED
  /\ RUNNING # SUCCEEDED /\ RUNNING # RHI /\ RUNNING # DEGRADED
  /\ SUCCEEDED # RHI /\ SUCCEEDED # DEGRADED /\ RHI # DEGRADED /\ PENDING # SKIPPED
  /\ SUCCEEDED # SKIPPED
BY DEF PENDING, RUNNING, SUCCEEDED, RHI, DEGRADED, SKIPPED

LEMMA StatusTypes ==
  {PENDING, RUNNING, SUCCEEDED, RHI, DEGRADED, SKIPPED} \subseteq RepoStatus
BY DEF RepoStatus, PENDING, RUNNING, SUCCEEDED, RHI, DEGRADED, SKIPPED, BLOCKED

\* The unit in hand.
LEMMA NextUnit ==
  ASSUME NEW todo \in SUBSET Unit, todo # {}
  PROVE  Min(todo) \in todo /\ Min(todo) \in Unit
BY UnitFacts, MinIsLeast

\* The floor is none or a phase: at most the frontier, and what lies between is neither
\* a hard stop nor held; just below it is one, or nothing.
LEMMA FloorFacts ==
  ASSUME NEW seen \in [Phase -> RepoStatus], NEW held \in [Phase -> BOOLEAN],
         phase_floor(seen, held) # None
  PROVE  LET floor    == phase_floor(seen, held)
             frontier == Min(Unsettled(seen))
         IN  /\ frontier \in Unsettled(seen) /\ \A p \in Unsettled(seen) : frontier <= p
             /\ floor \in 1..frontier
             /\ \A p \in floor..(frontier - 1) : seen[p] \notin HardStops /\ ~held[p]
             /\ floor = SCAN \/ seen[floor - 1] \in HardStops \/ held[floor - 1]
<1> DEFINE frontier == Min(Unsettled(seen))
           stops    == {p \in 1..(frontier - 1) : seen[p] \in HardStops \/ held[p]}
<1>1. Unsettled(seen) # {} /\ phase_floor(seen, held) = IF stops = {} THEN SCAN ELSE Max(stops) + 1
  BY DEF phase_floor
<1>2. Unsettled(seen) \subseteq Nat /\ Unsettled(seen) \subseteq 1..4
  BY PhaseFacts DEF Unsettled
<1>3. frontier \in Unsettled(seen) /\ \A p \in Unsettled(seen) : frontier <= p
  BY <1>1, <1>2, MinIsLeast
<1>4. frontier \in 1..4
  BY <1>2, <1>3
<1> HIDE DEF frontier
<1>5. CASE stops = {}
  BY <1>1, <1>3, <1>4, <1>5 DEF SCAN, frontier
<1>6. CASE stops # {}
  <2>1. stops \subseteq 0..4 /\ 4 \in Nat
    BY <1>4
  <2> HIDE DEF stops
  <2>2. Max(stops) \in stops /\ \A p \in stops : Max(stops) >= p
    BY <1>6, <2>1, MaxIsGreatest
  <2> USE DEF stops
  <2>3. Max(stops) \in 1..(frontier - 1) /\ (seen[Max(stops)] \in HardStops \/ held[Max(stops)])
    BY <2>2
  <2>4. phase_floor(seen, held) = Max(stops) + 1
    BY <1>1, <1>6
  <2> DEFINE m == Max(stops)
  <2>5. m \in Nat /\ m + 1 \in 1..frontier /\ (m + 1) - 1 = m
    BY <1>4, <2>3
  <2>6. \A p \in (m + 1)..(frontier - 1) : seen[p] \notin HardStops /\ ~held[p]
    <3>1. \A p \in (m + 1)..(frontier - 1) : p \in 1..(frontier - 1) /\ ~(m >= p)
      BY <1>4, <2>5
    <3> QED  BY <2>2, <3>1
  <2> QED  BY <1>3, <2>3, <2>4, <2>5, <2>6 DEF frontier
<1> QED  BY <1>5, <1>6


LEMMA IdleTypes ==
  /\ IdleWorker \in Worker /\ IdleResume \in Resume /\ NoChk \in [saved : BOOLEAN, remaining : SUBSET Unit]
  /\ NoCommit \in Commit /\ Published \in Commit /\ [age |-> 0, at |-> 0] \in Anchor
BY StatusTypes
DEF IdleWorker, Worker, IdleResume, Resume, NoChk, NoCommit, Published, Commit, Anchor, None

LEMMA InitType == Init => TypeOK
<1> SUFFICES ASSUME Init PROVE TypeOK
  OBVIOUS
<1>1. FreshRow \in PhaseRow
  BY StatusTypes DEF FreshRow, PhaseRow, LeaseState
<1>2. git \in Git
  BY DEF Init, Git
<1>3. /\ row \in [Phase -> PhaseRow] /\ post \in [{TRANSFORM, BUILD} -> Commit]
  BY <1>1, IdleTypes DEF Init
<1> QED  BY <1>2, <1>3, IdleTypes DEF Init, TypeOK

LEMMA OneStepType ==
  ASSUME TypeOK, NEW p \in Phase, NEW verdict \in {SUCCEEDED, PENDING}
  PROVE  OneStep(p, verdict) \in PhaseRow
<1>1. complete_phase(acquire_phase_lease(row[p]), verdict) \in PhaseRow
  BY RowOperatorsType DEF TypeOK
<1>2. ASSUME NEW l \in PhaseRow
      PROVE  [l EXCEPT !.fence = 0, !.attempts = Min({@, MaxAttempts})] \in PhaseRow
  <2>1. Min({l.attempts, MaxAttempts}) \in Nat
    BY MinIsLeast, MaxAttemptsAssumption DEF PhaseRow
  <2> QED  BY <2>1 DEF PhaseRow
<1> QED  BY <1>1, <1>2 DEF OneStep

\* What is neither a step of `fleet transform` nor one of `fleet resume`.
OtherStep ==
  \/ Scan \/ Build \/ Verify \/ StubDegrade \/ LoseMirror \/ LoseTree \/ Expire

TransformStep ==
  TransformStart \/ Transform \/ Decline \/ Interrupt \/ CrashTransform

ResumeProcess == ResumeStart \/ ResumeStep \/ CrashResume

LEMMA StepKinds == Next <=> OtherStep \/ TransformStep \/ ResumeProcess
BY DEF Next, OtherStep, TransformStep, ResumeProcess, Commands

LEMMA OtherType == TypeOK /\ OtherStep => TypeOK'
<1> SUFFICES ASSUME TypeOK, OtherStep PROVE TypeOK'
  OBVIOUS
<1> USE PhaseFacts DEF tables
<1>0. row \in [Phase -> PhaseRow] /\ git \in Git /\ post \in [{TRANSFORM, BUILD} -> Commit]
  BY DEF TypeOK
<1>a. <<>> \in Seq(Unit) /\ git.age + 1 \in Nat
  BY <1>0 DEF Git
<1>1. CASE Scan
  <2>1. Cloned \in Git
    BY <1>0, <1>a DEF Cloned, Git
  <2>2. row' \in [Phase -> PhaseRow]
    BY <1>0, <1>1, OneStepType DEF Scan
  <2>3. excused' \in BOOLEAN
    BY <1>1 DEF Scan, TypeOK
  <2> QED  BY <1>1, <2>1, <2>2, <2>3 DEF Scan, TypeOK
<1>2. CASE Build
  <2>1. row' \in [Phase -> PhaseRow]
    <3>1. abandon_repo(row[BUILD]) \in PhaseRow
      BY <1>0, RowOperatorsType
    <3> QED  BY <1>0, <1>2, <3>1, OneStepType DEF Build
  <2>2. post' \in [{TRANSFORM, BUILD} -> Commit]
    BY <1>0, <1>2, IdleTypes DEF Build
  <2> QED  BY <1>2, <2>1, <2>2 DEF Build, TypeOK
<1>3. CASE Verify
  <2>1. row' \in [Phase -> PhaseRow]
    BY <1>0, <1>3, OneStepType DEF Verify
  <2> QED  BY <1>3, <2>1 DEF Verify, TypeOK
<1>4. CASE StubDegrade
  <2>1. [row[TRANSFORM] EXCEPT !.status = DEGRADED] \in PhaseRow
    BY <1>0, StatusTypes DEF PhaseRow
  <2> QED  BY <1>0, <1>4, <2>1 DEF StubDegrade, TypeOK
<1>5. CASE LoseMirror
  <2>1. git' \in Git
    BY <1>0, <1>a, <1>5 DEF LoseMirror, Git
  <2> QED  BY <1>5, <2>1 DEF LoseMirror, TypeOK
<1>6. CASE LoseTree
  <2>1. git' \in Git
    BY <1>0, <1>6 DEF LoseTree, Git
  <2> QED  BY <1>6, <2>1 DEF LoseTree, TypeOK
<1>7. CASE Expire
  BY <1>0, <1>7, RowOperatorsType DEF Expire, TypeOK
<1> QED  BY <1>1, <1>2, <1>3, <1>4, <1>5, <1>6, <1>7 DEF OtherStep

\* A commit is of a unit in hand.
InHand == t.pc = "commit" => t.todo # {}

LEMMA TransformType == TypeOK /\ InHand /\ TransformStep => TypeOK'
<1> SUFFICES ASSUME TypeOK, InHand, TransformStep PROVE TypeOK'
  OBVIOUS
<1> USE PhaseFacts, IdleTypes DEF tables
<1>0. /\ row \in [Phase -> PhaseRow] /\ git \in Git /\ t \in Worker
      /\ post \in [{TRANSFORM, BUILD} -> Commit]
      /\ t.todo \in SUBSET Unit /\ t.landed \in SUBSET Unit /\ chk.remaining \in SUBSET Unit
  BY DEF TypeOK, Worker
<1>1. CASE TransformStart
  <2>1. row' \in [Phase -> PhaseRow]
    BY <1>0, <1>1, RowOperatorsType DEF TransformStart
  <2>2. t' \in Worker
    BY <1>1 DEF TransformStart, Worker, IdleWorker, None
  <2> QED  BY <1>1, <2>1, <2>2 DEF TransformStart, TypeOK
<1>2. CASE Prepare
  <2>1. row' \in [Phase -> PhaseRow] /\ t' \in Worker
    <3>1. abandon_repo(row[TRANSFORM]) \in PhaseRow /\ [t EXCEPT !.pc = "acquire"] \in Worker
      BY <1>0, RowOperatorsType DEF Worker
    <3> QED  BY <1>0, <1>2, <3>1 DEF Prepare
  <2>2. git' \in Git
    BY <1>0, <1>2 DEF Prepare, Git
  <2> QED  BY <1>2, <2>1, <2>2 DEF Prepare, TypeOK
<1>3. CASE Acquire
  <2>1. row' \in [Phase -> PhaseRow]
    <3>1. acquire_phase_lease(row[TRANSFORM]) \in PhaseRow
      BY <1>0, RowOperatorsType
    <3> QED  BY <1>0, <1>3, <3>1 DEF Acquire
  <2>2. row[TRANSFORM].fence + 1 \in Nat
    BY <1>0 DEF PhaseRow
  <2>3. t' \in Worker
    BY <1>3, <2>2, ZenonT(30) DEF Acquire, Worker, IdleWorker, None
  <2> QED  BY <1>3, <2>1, <2>3 DEF Acquire, TypeOK
<1>4. CASE Enter
  <2>1. (chk.saved /\ git.tree = "ok") \in BOOLEAN
    BY DEF TypeOK
  <2>2. t' \in Worker
    BY <1>0, <1>4, <2>1 DEF Enter, Worker
  <2> QED  BY <1>4, <2>2 DEF Enter, TypeOK
<1>5. CASE Claim
  <2>1. Tip \in Anchor
    BY <1>0 DEF Tip, Anchor, Git
  <2>2. task' \in [status : {"none", "PENDING", "RUNNING", "DONE"}, anchor : Anchor]
    BY <1>5, <2>1 DEF Claim, TypeOK
  <2>3. t' \in Worker
    BY <1>0, <1>5 DEF Claim, Worker
  <2> QED  BY <1>5, <2>2, <2>3 DEF Claim, TypeOK
<1>6. CASE EnterRewrite
  <2>1. t' \in Worker
    BY <1>0, <1>6 DEF EnterRewrite, Worker
  <2> QED  BY <1>6, <2>1 DEF EnterRewrite, TypeOK
<1>7. ASSUME NEW res \in {"ok", "partial", "failed", "rejected", "raised"},
             Stop(res), UNCHANGED <<tables, git, s, faults, losses, excused>>
      PROVE  TypeOK'
  <2>1. t' \in Worker
    BY <1>0, <1>7 DEF Stop, Worker
  <2> QED  BY <1>7, <2>1 DEF TypeOK
<1>8. CASE Guard
  <2>1. Min(t.todo) \in Unit /\ Len(git.branch) \in Nat
    BY <1>0, <1>8, NextUnit DEF Guard, Ready, Git
  <2>2. [git EXCEPT !.dirty = TRUE] \in Git
    BY <1>0 DEF Git
  <2>3. /\ [t EXCEPT !.pc = "commit", !.mark = Len(git.branch)] \in Worker
        /\ [t EXCEPT !.todo = @ \ {Min(t.todo)}, !.landed = @ \cup {Min(t.todo)}, !.last = Min(t.todo)]
             \in Worker
    BY <1>0, <2>1 DEF Worker
  <2>4. t' \in Worker /\ git' \in Git
    BY <1>0, <1>8, <2>2, <2>3 DEF Guard
  <2> QED  BY <1>8, <2>4 DEF Guard, TypeOK
<1>9. CASE CommitUnit
  <2>1. Min(t.todo) \in Unit
    BY <1>0, <1>9, NextUnit DEF CommitUnit, InHand
  <2>2. CASE git.tree = "ok" /\ git.dirty
    <3>1. Append(git.branch, Min(t.todo)) \in Seq(Unit)
      BY <1>0, <2>1 DEF Git
    <3>2. git' \in Git
      BY <1>0, <1>9, <2>2, <3>1 DEF CommitUnit, Git
    <3>3. t' \in Worker
      <4>1. t' = [t EXCEPT !.pc = "guard", !.todo = @ \ {Min(t.todo)}, !.landed = @ \cup {Min(t.todo)},
                           !.last = Min(t.todo)]
        BY <1>9, <2>2 DEF CommitUnit
      <4> QED  BY <1>0, <2>1, <4>1 DEF Worker
    <3> QED  BY <1>9, <3>2, <3>3 DEF CommitUnit, TypeOK
  <2>3. CASE ~(git.tree = "ok" /\ git.dirty)
    BY <1>7, <1>9, <2>3 DEF CommitUnit
  <2> QED  BY <2>2, <2>3
<1>10. CASE Decline \/ Raise \/ Interrupt \/ Exhausted
  BY <1>7, <1>10 DEF Decline, Raise, Interrupt, Exhausted
<1>11. CASE CheckFence
  <2>1. t' \in Worker
    BY <1>0, <1>11 DEF CheckFence, Worker
  <2> QED  BY <1>11, <2>1 DEF CheckFence, TypeOK
<1>12. CASE Sink
  <2>1. t' \in Worker
    BY <1>0, <1>12 DEF Sink, Worker
  <2>2. [in |-> "clone", age |-> git.age, unit |-> t.last] \in Commit
    BY <1>0 DEF Commit, Worker, Git
  <2>3. post' \in [{TRANSFORM, BUILD} -> Commit]
    BY <1>0, <1>12, <2>2 DEF Sink
  <2>4. task' \in [status : {"none", "PENDING", "RUNNING", "DONE"}, anchor : Anchor]
    BY <1>12 DEF Sink, TypeOK
  <2> QED  BY <1>12, <2>1, <2>3, <2>4 DEF Sink, TypeOK
<1>13. CASE Save
  <2>1. t' \in Worker
    BY <1>0, <1>13 DEF Save, Worker
  <2> QED  BY <1>13, <2>1 DEF Save, TypeOK
<1>14. CASE Complete
  <2>1. Verdict \in {SUCCEEDED, PENDING, RHI}
    BY DEF Verdict
  <2>2. complete_phase(row[TRANSFORM], Verdict) \in PhaseRow
    BY <1>0, <2>1, RowOperatorsType
  <2>3. row' \in [Phase -> PhaseRow]
    BY <1>0, <1>14, <2>2 DEF Complete
  <2>4. \A at \in {"acquire", "idle"} : [IdleWorker EXCEPT !.pc = at] \in Worker
    BY DEF Worker, IdleWorker, None
  <2>5. t' \in Worker
    BY <1>14, <2>4 DEF Complete
  <2> QED  BY <1>14, <2>3, <2>5 DEF Complete, TypeOK
<1>15. CASE CrashTransform
  BY <1>15 DEF CrashTransform, TypeOK
<1> QED
  BY <1>1, <1>2, <1>3, <1>4, <1>5, <1>6, <1>8, <1>9, <1>10, <1>11, <1>12, <1>13, <1>14, <1>15
  DEF TransformStep, Transform

\* Evidence is yes or no.
LEMMA Evidence ==
  ASSUME TypeOK, NEW p, NEW seen
  PROVE  evidence_holds(p, seen) \in BOOLEAN
BY DEF evidence_holds, ScanEvidence, TransformEvidence, BuildEvidence, Resolves, TypeOK, Git


LEMMA ResumeType == TypeOK /\ ResumeProcess => TypeOK'
<1> SUFFICES ASSUME TypeOK, ResumeProcess PROVE TypeOK'
  OBVIOUS
<1> USE PhaseFacts, IdleTypes DEF tables
<1>0. /\ row \in [Phase -> PhaseRow] /\ git \in Git /\ s \in Resume
      /\ post \in [{TRANSFORM, BUILD} -> Commit] /\ git.branch \in Seq(Unit)
  BY DEF TypeOK, Git
<1>1. CASE ResumeStart
  <2>1. s' \in Resume
    BY <1>1, StatusTypes DEF ResumeStart, Resume, IdleResume, Anchor, None
  <2> QED  BY <1>1, <2>1 DEF ResumeStart, TypeOK
<1>2. CASE ResetStale
  <2>1. row' \in [Phase -> PhaseRow]
    <3>1. ReclaimLease(row[TRANSFORM]) \in PhaseRow
      BY <1>0, RowOperatorsType
    <3> QED  BY <1>0, <1>2, <3>1 DEF ResetStale
  <2>2. s' \in Resume
    BY <1>0, <1>2 DEF ResetStale, Resume
  <2> QED  BY <1>2, <2>1, <2>2 DEF ResetStale, TypeOK
<1>3. CASE ReadTasks
  <2>1. task.anchor \in Anchor
    BY DEF TypeOK
  <2>2. s' \in Resume
    BY <1>0, <1>3, <2>1 DEF ReadTasks, Resume
  <2> QED  BY <1>3, <2>2 DEF ReadTasks, TypeOK
<1>4. CASE Arbitrate
  <2>1. /\ [s EXCEPT !.pc = "rows"] \in Resume
        /\ [s EXCEPT !.pc = "persist", !.verdict = "landed", !.last = Max(Unit)] \in Resume
        /\ [s EXCEPT !.pc = "persist", !.verdict = "partial"] \in Resume
        /\ [s EXCEPT !.pc = "discard", !.verdict = "discarded", !.len = Len(git.branch)] \in Resume
    <3>1. Len(git.branch) \in Nat /\ Max(Unit) \in Unit
      BY <1>0, UnitFacts
    <3> QED  BY <1>0, <3>1, ZenonT(30) DEF Resume
  <2>2. s' \in Resume
    BY <1>4, <2>1 DEF Arbitrate
  <2> QED  BY <1>4, <2>2 DEF Arbitrate, TypeOK
<1>5. CASE Discard
  <2>1. \A at \in {"persist", "rows"} : [s EXCEPT !.pc = at] \in Resume
    BY <1>0 DEF Resume
  <2>2. s' \in Resume
    BY <1>5, <2>1 DEF Discard
  <2>3. git' \in Git
    <3>1. CASE git' = [git EXCEPT !.branch = SubSeq(@, 1, s.anchor.at), !.dirty = FALSE]
               /\ s.anchor.at <= Len(git.branch)
      <4>1. s.anchor.at \in Nat
        BY <1>0 DEF Resume, Anchor
      <4>2. SubSeq(git.branch, 1, s.anchor.at) \in Seq(Unit)
        BY <1>0, <3>1, <4>1
      <4> QED  BY <1>0, <3>1, <4>2 DEF Git
    <3> QED  BY <1>0, <1>5, <3>1 DEF Discard
  <2>4. excused' \in BOOLEAN
    BY <1>5 DEF Discard, TypeOK
  <2> QED  BY <1>5, <2>2, <2>3, <2>4 DEF Discard, TypeOK
<1>6. CASE Persist
  <2>1. s' \in Resume
    BY <1>0, <1>6 DEF Persist, Resume
  <2>2. [in |-> "clone", age |-> git.age, unit |-> s.last] \in Commit
    BY <1>0 DEF Commit, Resume, Git
  <2>3. post' \in [{TRANSFORM, BUILD} -> Commit]
    BY <1>0, <1>6, <2>2 DEF Persist
  <2>4. task' \in [status : {"none", "PENDING", "RUNNING", "DONE"}, anchor : Anchor]
    BY <1>6 DEF Persist, TypeOK
  <2> QED  BY <1>6, <2>1, <2>3, <2>4 DEF Persist, TypeOK
<1>7. CASE ReadRows
  <2>1. [p \in Phase |-> Status(p)] \in [Phase -> RepoStatus]
    BY <1>0 DEF Status, PhaseRow
  <2>2. s' \in Resume
    BY <1>0, <1>7, <2>1 DEF ReadRows, Resume
  <2> QED  BY <1>7, <2>2 DEF ReadRows, TypeOK
<1>8. CASE Probe
  <2> DEFINE held  == [p \in Phase |-> evidence_holds(p, s.seen)]
             floor == phase_floor(s.seen, held)
  <2>1. held \in [Phase -> BOOLEAN] /\ s.seen \in [Phase -> RepoStatus]
    BY <1>0, Evidence DEF Resume
  <2>2. floor \in Phase \cup {None}
    <3> HIDE DEF held
    <3>1. CASE floor # None
      <4>1. Min(Unsettled(s.seen)) \in Phase /\ floor \in 1..Min(Unsettled(s.seen))
        BY <2>1, <3>1, FloorFacts DEF Unsettled
      <4> HIDE DEF floor
      <4> QED  BY <4>1
    <3> QED  BY <3>1
  <2> HIDE DEF held, floor
  <2>3. [s EXCEPT !.pc = "demote", !.held = held, !.floor = floor] \in Resume
    BY <1>0, <2>1, <2>2 DEF Resume
  <2> USE DEF held, floor
  <2>4. s' \in Resume
    BY <1>8, <2>3 DEF Probe
  <2> QED  BY <1>8, <2>4 DEF Probe, TypeOK
<1>9. CASE Demote
  <2>1. row' \in [Phase -> PhaseRow]
    <3>1. \A p \in Phase : reopen_to_pending(row[p]) \in PhaseRow
      BY <1>0, RowOperatorsType
    <3> QED  BY <1>0, <1>9, <3>1 DEF Demote
  <2>2. chk' \in [saved : BOOLEAN, remaining : SUBSET Unit]
    BY <1>9 DEF Demote, TypeOK
  <2> QED  BY <1>9, <2>1, <2>2 DEF Demote, TypeOK
<1>10. CASE CrashResume
  BY <1>10 DEF CrashResume, TypeOK
<1> QED
  BY <1>1, <1>2, <1>3, <1>4, <1>5, <1>6, <1>7, <1>8, <1>9, <1>10 DEF ResumeProcess, ResumeStep

\* A step of `fleet transform` leaves it at commit only with a unit in hand.
LEMMA NextInHand == TypeOK /\ InHand /\ [Next]_vars => InHand'
<1> SUFFICES ASSUME TypeOK, InHand, [Next]_vars PROVE InHand'
  OBVIOUS
<1> USE DEF tables
<1>0. t \in Worker
  BY DEF TypeOK
<1>1. CASE OtherStep \/ ResumeProcess \/ UNCHANGED vars
  <2>1. UNCHANGED t
    BY <1>1
    DEF OtherStep, Scan, Build, Verify, StubDegrade, LoseMirror, LoseTree, Expire,
        ResumeProcess, ResumeStart, ResumeStep, CrashResume, ResetStale, ReadTasks, Arbitrate,
        Discard, Persist, ReadRows, Probe, Demote, vars
  <2> QED  BY <2>1 DEF InHand
<1>2. CASE TransformStep
  <2>0. IdleWorker.pc = "idle" /\ \A at : [IdleWorker EXCEPT !.pc = at].pc = at
    BY DEF IdleWorker
  <2>1. CASE TransformStart \/ Acquire \/ Complete \/ CrashTransform
    <3>1. t'.pc # "commit"
      <4>1. CASE TransformStart \/ CrashTransform
        BY <2>0, <4>1 DEF TransformStart, CrashTransform
      <4>2. CASE Acquire
        BY <2>0, <4>2 DEF Acquire, IdleWorker
      <4>3. CASE Complete
        BY <2>0, <4>3 DEF Complete
      <4> QED  BY <2>1, <4>1, <4>2, <4>3
    <3> QED  BY <3>1 DEF InHand
  <2>2. CASE Prepare \/ Enter \/ Claim \/ EnterRewrite \/ CheckFence \/ Sink \/ Save
    <3>1. t'.pc # "commit"
      <4>1. CASE Prepare \/ CheckFence
        BY <1>0, <2>0, <4>1 DEF Prepare, CheckFence, Worker
      <4>2. CASE Enter
        BY <1>0, <4>2 DEF Enter, Worker
      <4>3. CASE Claim \/ EnterRewrite
        BY <1>0, <4>3 DEF Claim, EnterRewrite, Worker
      <4>4. CASE Sink \/ Save
        BY <1>0, <4>4 DEF Sink, Save, Worker
      <4> QED  BY <2>2, <4>1, <4>2, <4>3, <4>4
    <3> QED  BY <3>1 DEF InHand
  <2>3. CASE Guard
    BY <1>0, <2>3 DEF Guard, Ready, InHand, Worker
  <2>4. CASE CommitUnit \/ Decline \/ Raise \/ Interrupt \/ Exhausted
    BY <1>0, <2>4 DEF CommitUnit, Decline, Raise, Interrupt, Exhausted, Stop, InHand, Worker
  <2> QED  BY <1>2, <2>1, <2>2, <2>3, <2>4 DEF TransformStep, Transform
<1> QED  BY <1>1, <1>2, StepKinds

LEMMA NextType == TypeOK /\ InHand /\ [Next]_vars => TypeOK' /\ InHand'
<1>1. TypeOK /\ UNCHANGED vars => TypeOK'
  BY DEF vars, tables, TypeOK
<1> QED  BY <1>1, OtherType, TransformType, ResumeType, NextInHand, StepKinds

\* Every variable keeps to its type: what the rows, the checkpoint, the task, the clone
\* and the two processes may hold.
THEOREM TypeInvariant == Spec => []TypeOK
<1>1. Init => InHand
  BY DEF Init, IdleWorker, InHand
<1> QED  BY <1>1, InitType, NextType, PTL DEF Spec


-----------------------------------------------------------------------------
(* What the steps do *)

\* The worker keeps its place in the work.
SameWork == t'.todo = t.todo /\ t'.landed = t.landed
SameGit  == git'.branch = git.branch /\ git'.tree = git.tree /\ git'.cut = git.cut

LEMMA WorkerEffect ==
  ASSUME TypeOK
  PROVE  /\ TransformStart => t'.pc = "prepare" /\ t'.res = "none" /\ git' = git
         /\ Prepare => /\ t.pc = "prepare" /\ git'.branch = git.branch /\ git'.tree = git.tree
                       /\ \/ t'.pc = "acquire" /\ t'.res = t.res /\ git.tree = "ok" /\ git'.cut
                          \/ t' = IdleWorker /\ git' = git
         /\ Acquire => /\ t.pc = "acquire" /\ git' = git
                       /\ (t'.pc = "enter" /\ t'.res = "none") \/ t' = IdleWorker
         /\ Enter => /\ t.pc = "enter" /\ t'.pc = "claim" /\ t'.res = t.res /\ git' = git
                     /\ t'.landed = Unit \ t'.todo
                     /\ (chk.saved /\ git.tree = "ok" /\ t'.todo = chk.remaining) \/ t'.todo = Unit
         /\ Claim => t.pc = "claim" /\ t'.pc = "guard" /\ t'.res = t.res /\ SameWork /\ git' = git
         /\ EnterRewrite => /\ t.pc = "guard" /\ t'.pc = "guard" /\ t'.res = t.res /\ git' = git
                            /\ t.todo \subseteq t'.todo /\ t'.landed = t.landed
         /\ Guard => /\ t.pc = "guard" /\ t'.res = t.res /\ SameGit /\ t.todo # {}
                     /\ \/ /\ Min(t.todo) \in Landed /\ t'.pc = "guard"
                           /\ t'.todo = t.todo \ {Min(t.todo)} /\ t'.landed = t.landed \cup {Min(t.todo)}
                        \/ Min(t.todo) \notin Landed /\ t'.pc = "commit" /\ SameWork
         /\ CommitUnit => /\ t.pc = "commit" /\ git'.tree = git.tree /\ git'.cut = git.cut
                          /\ \/ /\ git.tree = "ok" /\ git'.branch = Append(git.branch, Min(t.todo))
                                /\ t'.pc = "guard" /\ t'.res = t.res
                                /\ t'.todo = t.todo \ {Min(t.todo)}
                                /\ t'.landed = t.landed \cup {Min(t.todo)}
                             \/ git' = git /\ t'.pc = "finish" /\ t'.res = "failed" /\ SameWork
         /\ Decline \/ Raise \/ Interrupt =>
              t.pc = "guard" /\ t'.pc = "finish" /\ t'.res # "ok" /\ SameWork /\ git' = git
         /\ Exhausted => t.pc = "guard" /\ t'.pc = "finish" /\ t.todo = {} /\ SameWork /\ git' = git
         /\ CheckFence => /\ t.pc = "finish" /\ git' = git
                          /\ \/ t' = IdleWorker
                             \/ t'.pc \in {"sink", "complete"} /\ t'.res = t.res /\ SameWork
         /\ Sink => t.pc = "sink" /\ t'.pc \in {"save", "complete"} /\ t'.res = t.res /\ SameWork /\ git' = git
         /\ Save => t.pc = "save" /\ t'.pc = "complete" /\ t'.res = t.res /\ SameWork /\ git' = git
         /\ Complete => t.pc = "complete" /\ t'.pc \in {"idle", "acquire"} /\ t'.res = "none" /\ git' = git
         /\ CrashTransform => t' = IdleWorker /\ git' = git
<1> USE DEF SameWork, SameGit
<1>0. t \in Worker /\ git \in Git
  BY DEF TypeOK
<1>1. ASSUME TransformStart PROVE t'.pc = "prepare" /\ t'.res = "none" /\ git' = git
  BY <1>1 DEF TransformStart, IdleWorker
<1>2. ASSUME Prepare
      PROVE  /\ t.pc = "prepare" /\ git'.branch = git.branch /\ git'.tree = git.tree
             /\ \/ t'.pc = "acquire" /\ t'.res = t.res /\ git.tree = "ok" /\ git'.cut
                \/ t' = IdleWorker /\ git' = git
  <2>1. CASE git.tree = "ok"
    BY <1>0, <1>2, <2>1 DEF Prepare, Worker, Git
  <2>2. CASE git.tree # "ok"
    BY <1>2, <2>2 DEF Prepare
  <2> QED  BY <2>1, <2>2
<1>3. ASSUME Acquire
      PROVE  t.pc = "acquire" /\ git' = git /\ ((t'.pc = "enter" /\ t'.res = "none") \/ t' = IdleWorker)
  BY <1>3 DEF Acquire, IdleWorker
<1>4. ASSUME Enter
      PROVE  /\ t.pc = "enter" /\ t'.pc = "claim" /\ t'.res = t.res /\ git' = git
             /\ t'.landed = Unit \ t'.todo
             /\ (chk.saved /\ git.tree = "ok" /\ t'.todo = chk.remaining) \/ t'.todo = Unit
  BY <1>0, <1>4 DEF Enter, Worker
<1>5. ASSUME Claim
      PROVE  t.pc = "claim" /\ t'.pc = "guard" /\ t'.res = t.res /\ SameWork /\ git' = git
  BY <1>0, <1>5 DEF Claim, Worker
<1>6. ASSUME EnterRewrite
      PROVE  /\ t.pc = "guard" /\ t'.pc = "guard" /\ t'.res = t.res /\ git' = git
             /\ t.todo \subseteq t'.todo /\ t'.landed = t.landed
  <2>1. t.todo \subseteq Unit
    BY <1>0 DEF Worker
  <2> QED  BY <1>0, <1>6, <2>1 DEF EnterRewrite, Worker
<1>7. ASSUME Guard
      PROVE  /\ t.pc = "guard" /\ t'.res = t.res /\ SameGit /\ t.todo # {}
             /\ \/ /\ Min(t.todo) \in Landed /\ t'.pc = "guard"
                   /\ t'.todo = t.todo \ {Min(t.todo)} /\ t'.landed = t.landed \cup {Min(t.todo)}
                \/ Min(t.todo) \notin Landed /\ t'.pc = "commit" /\ SameWork
  <2>1. CASE Min(t.todo) \in Landed
    BY <1>0, <1>7, <2>1 DEF Guard, Ready, Worker
  <2>2. CASE Min(t.todo) \notin Landed
    BY <1>0, <1>7, <2>2 DEF Guard, Ready, Worker, Git
  <2> QED  BY <2>1, <2>2
<1>8. ASSUME CommitUnit
      PROVE  /\ t.pc = "commit" /\ git'.tree = git.tree /\ git'.cut = git.cut
             /\ \/ /\ git.tree = "ok" /\ git'.branch = Append(git.branch, Min(t.todo))
                   /\ t'.pc = "guard" /\ t'.res = t.res
                   /\ t'.todo = t.todo \ {Min(t.todo)} /\ t'.landed = t.landed \cup {Min(t.todo)}
                \/ git' = git /\ t'.pc = "finish" /\ t'.res = "failed" /\ SameWork
  <2>1. CASE git.tree = "ok" /\ git.dirty
    <3>1. /\ git' = [git EXCEPT !.branch = Append(@, Min(t.todo)), !.dirty = FALSE]
          /\ t' = [t EXCEPT !.pc = "guard", !.todo = @ \ {Min(t.todo)}, !.landed = @ \cup {Min(t.todo)},
                            !.last = Min(t.todo)]
      BY <1>8, <2>1 DEF CommitUnit
    <3>2. git'.tree = git.tree /\ git'.cut = git.cut /\ git'.branch = Append(git.branch, Min(t.todo))
      BY <1>0, <3>1 DEF Git
    <3> QED  BY <1>0, <1>8, <2>1, <3>1, <3>2 DEF CommitUnit, Worker
  <2>2. CASE ~(git.tree = "ok" /\ git.dirty)
    BY <1>0, <1>8, <2>2 DEF CommitUnit, Stop, Worker
  <2> QED  BY <2>1, <2>2
<1>9. ASSUME Decline \/ Raise \/ Interrupt
      PROVE  t.pc = "guard" /\ t'.pc = "finish" /\ t'.res # "ok" /\ SameWork /\ git' = git
  BY <1>0, <1>9 DEF Decline, Raise, Interrupt, Ready, Stop, Worker
<1>10. ASSUME Exhausted
       PROVE  t.pc = "guard" /\ t'.pc = "finish" /\ t.todo = {} /\ SameWork /\ git' = git
  BY <1>0, <1>10 DEF Exhausted, Stop, Worker
<1>11. ASSUME CheckFence
       PROVE  /\ t.pc = "finish" /\ git' = git
              /\ \/ t' = IdleWorker
                 \/ t'.pc \in {"sink", "complete"} /\ t'.res = t.res /\ SameWork
  BY <1>0, <1>11 DEF CheckFence, Worker
<1>12. ASSUME Sink
       PROVE  t.pc = "sink" /\ t'.pc \in {"save", "complete"} /\ t'.res = t.res /\ SameWork /\ git' = git
  BY <1>0, <1>12 DEF Sink, Worker
<1>13. ASSUME Save
       PROVE  t.pc = "save" /\ t'.pc = "complete" /\ t'.res = t.res /\ SameWork /\ git' = git
  BY <1>0, <1>13 DEF Save, Worker
<1>14. ASSUME Complete
       PROVE  t.pc = "complete" /\ t'.pc \in {"idle", "acquire"} /\ t'.res = "none" /\ git' = git
  BY <1>14 DEF Complete, IdleWorker
<1>15. ASSUME CrashTransform PROVE t' = IdleWorker /\ git' = git
  BY <1>15 DEF CrashTransform
<1> HIDE DEF SameWork, SameGit
<1> QED
  BY <1>1, <1>2, <1>3, <1>4, <1>5, <1>6, <1>7, <1>8, <1>9, <1>10, <1>11, <1>12, <1>13, <1>14, <1>15


\* What the commands that are one step, and what happens to the disk, do to the clone.
LEMMA OtherEffect ==
  ASSUME TypeOK, OtherStep
  PROVE  /\ t' = t /\ s' = s /\ chk' = chk
         /\ \/ SameGit /\ excused' = excused /\ (Build \/ Verify \/ StubDegrade \/ Expire)
            \/ /\ Scan /\ git'.branch = <<>> /\ git'.cut = FALSE
               /\ excused' = (excused \/ PrunedUnder)
               /\ \/ git'.tree = "broken"
                  \/ git'.tree = "ok" /\ (git.tree = "none" \/ (git.tree = "ok" /\ ~git.cut))
            \/ /\ LoseMirror /\ t.pc = "idle" /\ git'.branch = <<>> /\ git'.cut = FALSE
               /\ git'.tree # "ok" /\ excused' = excused
            \/ /\ LoseTree /\ t.pc = "idle" /\ git'.branch = git.branch /\ git'.cut = git.cut
               /\ git'.tree = "none" /\ excused' = excused
<1> USE DEF tables
<1>0. git \in Git
  BY DEF TypeOK
<1>1. CASE Build \/ Verify \/ StubDegrade \/ Expire
  <2>1. git' = git /\ excused' = excused /\ t' = t /\ s' = s /\ chk' = chk
    BY <1>1 DEF Build, Verify, StubDegrade, Expire
  <2> QED  BY <1>1, <2>1 DEF SameGit
<1>2. CASE Scan
  <2>1. git' = Cloned /\ excused' = (excused \/ PrunedUnder) /\ t' = t /\ s' = s /\ chk' = chk
    BY <1>2 DEF Scan
  <2>2. /\ git'.branch = <<>> /\ git'.cut = FALSE
        /\ \/ git'.tree = "broken"
           \/ git'.tree = "ok" /\ (git.tree = "none" \/ (git.tree = "ok" /\ ~git.cut))
    BY <1>0, <2>1 DEF Cloned, Git
  <2> QED  BY <1>2, <2>1, <2>2
<1>3. CASE LoseMirror
  <2>1. t.pc = "idle" /\ excused' = excused /\ t' = t /\ s' = s /\ chk' = chk
    BY <1>3 DEF LoseMirror
  <2>2. git'.branch = <<>> /\ git'.cut = FALSE /\ git'.tree # "ok"
    BY <1>0, <1>3 DEF LoseMirror, Git
  <2> QED  BY <1>3, <2>1, <2>2
<1>4. CASE LoseTree
  <2>1. t.pc = "idle" /\ excused' = excused /\ t' = t /\ s' = s /\ chk' = chk
    BY <1>4 DEF LoseTree
  <2>2. git'.branch = git.branch /\ git'.cut = git.cut /\ git'.tree = "none"
    BY <1>0, <1>4 DEF LoseTree, Git
  <2> QED  BY <1>4, <2>1, <2>2
<1> QED  BY <1>1, <1>2, <1>3, <1>4 DEF OtherStep

\* The commits of a branch.
LEMMA Commits ==
  ASSUME NEW q \in Seq(Unit), NEW u \in Unit, NEW n \in 0..Len(q)
  PROVE  LET units(b) == {b[i] : i \in DOMAIN b}
             once(b)  == \A i, j \in DOMAIN b : b[i] = b[j] => i = j
         IN  /\ units(Append(q, u)) = units(q) \cup {u}
             /\ once(q) /\ u \notin units(q) => once(Append(q, u))
             /\ units(SubSeq(q, 1, n)) \subseteq units(q)
             /\ once(q) => once(SubSeq(q, 1, n))
             /\ n = 0 => SubSeq(q, 1, n) = <<>>
             /\ units(q) \subseteq Unit
             /\ units(q) = {} <=> Len(q) = 0
<1> DEFINE units(b) == {b[i] : i \in DOMAIN b}
           once(b)  == \A i, j \in DOMAIN b : b[i] = b[j] => i = j
           a == Append(q, u)
           l == SubSeq(q, 1, n)
<1>1. /\ Len(q) \in Nat /\ DOMAIN q = 1..Len(q) /\ Len(a) = Len(q) + 1 /\ DOMAIN a = 1..(Len(q) + 1)
      /\ a[Len(q) + 1] = u /\ \A i \in 1..Len(q) : a[i] = q[i]
  OBVIOUS
<1>2. /\ l \in Seq(Unit) /\ Len(l) = n /\ DOMAIN l = 1..n /\ \A i \in 1..n : l[i] = q[i]
  BY <1>1
<1> HIDE DEF a, l
<1>3. units(a) = units(q) \cup {u}
  BY <1>1
<1>4. once(q) /\ u \notin units(q) => once(a)
  BY <1>1
<1>5. units(l) \subseteq units(q) /\ (once(q) => once(l))
  BY <1>1, <1>2
<1>6. n = 0 => l = <<>>
  BY <1>2
<1>7. units(q) \subseteq Unit
  OBVIOUS
<1>8. units(q) = {} <=> Len(q) = 0
  <2>1. ASSUME Len(q) = 0 PROVE units(q) = {}
    BY <1>1, <2>1
  <2>2. ASSUME Len(q) # 0 PROVE q[1] \in units(q)
    <3>1. 1 \in DOMAIN q
      BY <1>1, <2>2
    <3> QED  BY <3>1
  <2> QED  BY <2>1, <2>2
<1> QED  BY <1>3, <1>4, <1>5, <1>6, <1>7, <1>8 DEF a, l

LEMMA NoCommits == {<<>>[i] : i \in DOMAIN <<>>} = {}
OBVIOUS

-----------------------------------------------------------------------------
(* The inductive invariant *)

Running == t.pc \notin {"idle", "prepare"}
Working == t.pc \in {"claim", "guard", "commit", "finish", "sink", "save", "complete"}
Early   == t.pc \in {"prepare", "acquire", "enter", "claim", "guard", "commit"}

\* Without the branch there are no commits.
BranchCut == ~git.cut => git.branch = <<>>

\* A worker past its preparation has its branch, or a worktree that points nowhere.
Seated == Running => git.tree = "broken" \/ (git.tree = "ok" /\ git.cut)

\* What is staged is a unit the branch lacks.
Staged == t.pc = "commit" => t.todo # {} /\ Min(t.todo) \notin Landed

\* A discard was decided on a branch without commits.
DiscardsNothing == s.pc = "discard" => s.len = 0

\* What a worker no longer owes is on the branch, unless the branch was taken from it.
Covered == ~excused /\ Working => Unit \ t.todo \subseteq Landed /\ t.landed \subseteq Landed

\* A worker that reports success owes nothing.
Finished == (t.res = "ok" => t.todo = {}) /\ (Early => t.res = "none")

\* What a checkpoint does not owe is on the branch of the worktree it would be replayed in.
CheckpointHolds ==
  ~excused /\ chk.saved => Unit \ chk.remaining \subseteq Landed \/ git.tree # "ok"

IInv == /\ TypeOK /\ BranchCut /\ Seated /\ Staged /\ DiscardsNothing /\ Covered /\ Finished
        /\ CheckpointHolds /\ OneCommitPerUnit

LEMMA IdleFields == IdleWorker.pc = "idle" /\ IdleWorker.res = "none" /\ IdleResume.pc = "idle"
BY DEF IdleWorker, IdleResume

LEMMA InitIInv == Init => IInv
<1> SUFFICES ASSUME Init PROVE IInv
  OBVIOUS
<1>1. /\ git.branch = <<>> /\ git.cut = FALSE /\ t.pc = "idle" /\ t.res = "none" /\ s.pc = "idle"
      /\ chk.saved = FALSE
  BY DEF Init, IdleWorker, IdleResume, NoChk
<1>2. OneCommitPerUnit
  BY <1>1 DEF OneCommitPerUnit
<1> QED
  BY <1>1, <1>2, InitType
  DEF IInv, BranchCut, Seated, Staged, DiscardsNothing, Covered, Finished, CheckpointHolds, Running,
      Working, Early

\* The branch as it was.
LEMMA SameBranch ==
  ASSUME git'.branch = git.branch
  PROVE  Landed' = Landed /\ OneCommitPerUnit' = OneCommitPerUnit
BY DEF Landed, OneCommitPerUnit

\* The branch emptied.
LEMMA EmptyBranch ==
  ASSUME git'.branch = <<>>
  PROVE  Landed' = {} /\ OneCommitPerUnit'
BY NoCommits DEF Landed, OneCommitPerUnit

LEMMA OtherIInv == IInv /\ OtherStep => IInv'
<1> SUFFICES ASSUME IInv, OtherStep PROVE IInv'
  OBVIOUS
<1>0. /\ TypeOK /\ TypeOK' /\ t' = t /\ s' = s /\ chk' = chk
      /\ git.tree \in {"none", "ok", "broken"} /\ git.cut \in BOOLEAN /\ excused \in BOOLEAN
      /\ Running' = Running /\ Working' = Working /\ (Working => Running)
  BY OtherType, OtherEffect DEF IInv, TypeOK, Git, Running, Working
<1>a. Finished' /\ DiscardsNothing'
  BY <1>0 DEF IInv, Finished, DiscardsNothing, Early
<1>1. CASE SameGit /\ excused' = excused
  <2>1. Landed' = Landed /\ OneCommitPerUnit'
    BY <1>1, SameBranch DEF SameGit, IInv
  <2>2. BranchCut' /\ Seated'
    BY <1>0, <1>1 DEF SameGit, IInv, BranchCut, Seated
  <2>3. Staged' /\ Covered' /\ CheckpointHolds'
    BY <1>0, <1>1, <2>1 DEF SameGit, IInv, Staged, Covered, CheckpointHolds
  <2> QED  BY <1>0, <1>a, <2>1, <2>2, <2>3 DEF IInv
<1>2. CASE /\ git'.branch = <<>> /\ git'.cut = FALSE /\ excused' = (excused \/ PrunedUnder)
           /\ \/ git'.tree = "broken"
              \/ git'.tree = "ok" /\ (git.tree = "none" \/ (git.tree = "ok" /\ ~git.cut))
  <2>1. Landed' = {} /\ OneCommitPerUnit'
    BY <1>2, EmptyBranch
  <2>2. BranchCut' /\ Staged'
    BY <1>0, <1>2, <2>1 DEF IInv, BranchCut, Staged
  <2>3. Seated'
    BY <1>0, <1>2 DEF IInv, Seated
  <2>4. ASSUME ~excused' PROVE ~excused /\ ~chk.saved /\ (Running => ~git.cut)
    BY <1>0, <1>2, <2>4 DEF PrunedUnder, Running
  <2>5. CheckpointHolds'
    BY <1>0, <2>4 DEF CheckpointHolds
  <2>6. Covered'
    <3>1. ASSUME ~excused', Working PROVE Landed' = Landed
      <4>1. git.branch = <<>>
        BY <1>0, <2>4, <3>1 DEF IInv, BranchCut
      <4> QED  BY <2>1, <4>1, NoCommits DEF Landed
    <3> QED  BY <1>0, <2>4, <3>1 DEF IInv, Covered
  <2> QED  BY <1>0, <1>a, <2>1, <2>2, <2>3, <2>5, <2>6 DEF IInv
<1>3. CASE t.pc = "idle" /\ git'.branch = <<>> /\ git'.cut = FALSE /\ git'.tree # "ok"
  <2>1. Landed' = {} /\ OneCommitPerUnit'
    BY <1>3, EmptyBranch
  <2>2. BranchCut' /\ Staged' /\ Seated' /\ Covered' /\ CheckpointHolds'
    BY <1>0, <1>3 DEF BranchCut, Staged, Seated, Covered, CheckpointHolds, Running, Working
  <2> QED  BY <1>0, <1>a, <2>1, <2>2 DEF IInv
<1>4. CASE t.pc = "idle" /\ git'.branch = git.branch /\ git'.cut = git.cut /\ git'.tree = "none"
  <2>1. Landed' = Landed /\ OneCommitPerUnit'
    BY <1>4, SameBranch DEF IInv
  <2>2. BranchCut' /\ Staged' /\ Seated' /\ Covered' /\ CheckpointHolds'
    BY <1>0, <1>4 DEF IInv, BranchCut, Staged, Seated, Covered, CheckpointHolds, Running, Working
  <2> QED  BY <1>0, <1>a, <2>1, <2>2 DEF IInv
<1> QED  BY <1>0, <1>1, <1>2, <1>3, <1>4, OtherEffect

\* A worker that stops working, or has not begun, and leaves the branch: nothing to keep.
LEMMA OffWork ==
  ASSUME IInv, TypeOK', git' = git, s' = s, chk' = chk, excused' = excused,
         t'.pc \in {"idle", "prepare"} \/ (Running /\ t'.pc \in {"acquire", "enter"}),
         t'.res = "none"
  PROVE  IInv'
<1>1. Landed' = Landed /\ OneCommitPerUnit'
  BY SameBranch DEF IInv
<1>2. BranchCut' /\ DiscardsNothing' /\ CheckpointHolds'
  BY <1>1 DEF IInv, BranchCut, DiscardsNothing, CheckpointHolds
<1>3. Seated' /\ Staged' /\ Covered' /\ Finished'
  BY DEF IInv, Seated, Staged, Covered, Finished, Running, Working, Early
<1> QED  BY <1>1, <1>2, <1>3 DEF IInv

LEMMA TransformIInv == IInv /\ TransformStep => IInv'
<1> SUFFICES ASSUME IInv, TransformStep PROVE IInv'
  OBVIOUS
<1>0. TypeOK /\ TypeOK' /\ t \in Worker /\ t' \in Worker /\ git.branch \in Seq(Unit)
      /\ t.todo \subseteq Unit
  <2>1. InHand
    BY DEF IInv, Staged, InHand
  <2> QED  BY <2>1, TransformType DEF IInv, TypeOK, Worker, Git
<1>a. s' = s /\ excused' = excused /\ (~Save => chk' = chk)
  BY DEF TransformStep, Transform, tables, TransformStart, Prepare, Acquire, Enter, Claim, EnterRewrite,
         Guard, CommitUnit, Decline, Raise, Interrupt, Exhausted, CheckFence, Sink, Save, Complete,
         CrashTransform
<1>b. DiscardsNothing'
  BY <1>a DEF IInv, DiscardsNothing
<1>c. ASSUME git'.branch = git.branch, git'.tree = git.tree, chk' = chk
      PROVE  Landed' = Landed /\ OneCommitPerUnit' /\ CheckpointHolds'
  <2>1. Landed' = Landed /\ OneCommitPerUnit'
    BY <1>c, SameBranch DEF IInv
  <2> QED  BY <1>a, <1>c, <2>1 DEF IInv, CheckpointHolds
<1>d. ASSUME git' = git PROVE BranchCut' /\ (Running => (Seated' \/ ~Running'))
  BY <1>d DEF IInv, BranchCut, Seated
<1>1. CASE TransformStart \/ Acquire \/ Complete \/ CrashTransform
  <2>1. ~Save
    BY <1>1, WorkerEffect, <1>0, IdleFields
  <2>2. git' = git /\ t'.res = "none"
    BY <1>0, <1>1, WorkerEffect, IdleFields
  <2>3. t'.pc \in {"idle", "prepare"} \/ (Running /\ t'.pc \in {"acquire", "enter"})
    BY <1>0, <1>1, WorkerEffect, IdleFields DEF Running
  <2> QED  BY <1>0, <1>a, <2>1, <2>2, <2>3, OffWork
<1>2. CASE Prepare
  <2>1. CASE t' = IdleWorker /\ git' = git
    BY <1>0, <1>2, <1>a, <2>1, OffWork, IdleFields, WorkerEffect
  <2>2. CASE t'.pc = "acquire" /\ t'.res = t.res /\ git.tree = "ok" /\ git'.cut
    <3>1. git'.branch = git.branch /\ git'.tree = git.tree /\ chk' = chk /\ t.pc = "prepare"
      BY <1>0, <1>2, <1>a, WorkerEffect
    <3>2. Landed' = Landed /\ OneCommitPerUnit' /\ CheckpointHolds'
      BY <1>c, <3>1
    <3>3. BranchCut' /\ Seated' /\ Staged' /\ Covered' /\ Finished'
      BY <2>2, <3>1 DEF IInv, BranchCut, Seated, Staged, Covered, Finished, Working, Early
    <3> QED  BY <1>0, <1>b, <3>2, <3>3 DEF IInv
  <2> QED  BY <1>0, <1>2, <2>1, <2>2, WorkerEffect
<1>3. CASE Enter
  <2>1. /\ t.pc = "enter" /\ t'.pc = "claim" /\ t'.res = t.res /\ git' = git /\ chk' = chk
        /\ t'.landed = Unit \ t'.todo
        /\ (chk.saved /\ git.tree = "ok" /\ t'.todo = chk.remaining) \/ t'.todo = Unit
    BY <1>0, <1>3, <1>a, WorkerEffect
  <2>2. Landed' = Landed /\ OneCommitPerUnit' /\ CheckpointHolds'
    BY <1>c, <2>1
  <2>3. BranchCut' /\ Seated' /\ Staged' /\ Finished'
    BY <1>d, <2>1 DEF IInv, Staged, Finished, Early, Running
  <2>4. Covered'
    BY <1>a, <2>1, <2>2 DEF IInv, Covered, CheckpointHolds
  <2> QED  BY <1>0, <1>b, <2>2, <2>3, <2>4 DEF IInv
<1>4. CASE Claim \/ EnterRewrite
  <2>1. /\ t.pc \in {"claim", "guard"} /\ t'.pc = "guard" /\ t'.res = t.res /\ git' = git /\ chk' = chk
        /\ t'.landed = t.landed /\ t.todo \subseteq t'.todo
    BY <1>0, <1>4, <1>a, WorkerEffect DEF SameWork
  <2>2. Landed' = Landed /\ OneCommitPerUnit' /\ CheckpointHolds'
    BY <1>c, <2>1
  <2>3. BranchCut' /\ Seated' /\ Staged' /\ Finished'
    BY <1>d, <2>1 DEF IInv, Staged, Finished, Early, Running
  <2>4. Covered'
    BY <1>a, <2>1, <2>2 DEF IInv, Covered, Working
  <2> QED  BY <1>0, <1>b, <2>2, <2>3, <2>4 DEF IInv
<1>5. CASE Guard
  <2>1. /\ t.pc = "guard" /\ t'.res = t.res /\ SameGit /\ t.todo # {} /\ chk' = chk
        /\ \/ /\ Min(t.todo) \in Landed /\ t'.pc = "guard"
              /\ t'.todo = t.todo \ {Min(t.todo)} /\ t'.landed = t.landed \cup {Min(t.todo)}
           \/ Min(t.todo) \notin Landed /\ t'.pc = "commit" /\ SameWork
    BY <1>0, <1>5, <1>a, WorkerEffect
  <2>2. Landed' = Landed /\ OneCommitPerUnit' /\ CheckpointHolds'
    BY <1>c, <2>1 DEF SameGit
  <2>3. BranchCut' /\ Seated' /\ Finished'
    BY <2>1 DEF IInv, BranchCut, Seated, Finished, Early, Running, SameGit
  <2>4. Covered'
    BY <1>a, <2>1, <2>2 DEF IInv, Covered, Working, SameWork
  <2>5. Staged'
    BY <2>1, <2>2 DEF Staged, SameWork
  <2> QED  BY <1>0, <1>b, <2>2, <2>3, <2>4, <2>5 DEF IInv
<1>6. CASE CommitUnit
  <2>1. /\ t.pc = "commit" /\ git'.tree = git.tree /\ git'.cut = git.cut /\ chk' = chk
        /\ \/ /\ git.tree = "ok" /\ git'.branch = Append(git.branch, Min(t.todo))
              /\ t'.pc = "guard" /\ t'.res = t.res
              /\ t'.todo = t.todo \ {Min(t.todo)}
              /\ t'.landed = t.landed \cup {Min(t.todo)}
           \/ git' = git /\ t'.pc = "finish" /\ t'.res = "failed" /\ SameWork
    BY <1>0, <1>6, <1>a, WorkerEffect
  <2>2. CASE git' = git /\ t'.pc = "finish" /\ t'.res = "failed" /\ SameWork
    <3>2. Landed' = Landed /\ OneCommitPerUnit' /\ CheckpointHolds'
      BY <1>c, <2>1, <2>2
    <3>3. BranchCut' /\ Seated' /\ Staged' /\ Finished'
      BY <1>d, <2>1, <2>2 DEF IInv, Staged, Finished, Early, Running
    <3>4. Covered'
      BY <1>a, <2>1, <2>2, <3>2 DEF IInv, Covered, Working, SameWork
    <3> QED  BY <1>0, <1>b, <3>2, <3>3, <3>4 DEF IInv
  <2>3. CASE /\ git.tree = "ok" /\ git'.branch = Append(git.branch, Min(t.todo))
             /\ t'.pc = "guard" /\ t'.res = t.res
             /\ t'.todo = t.todo \ {Min(t.todo)}
             /\ t'.landed = t.landed \cup {Min(t.todo)}
    <3>1. t.todo # {} /\ Min(t.todo) \notin Landed /\ Min(t.todo) \in Unit
      BY <1>0, <2>1, NextUnit DEF IInv, Staged
    <3>2. Landed' = Landed \cup {Min(t.todo)} /\ OneCommitPerUnit'
      <4> DEFINE u == Min(t.todo)
                 q == git.branch
                 a == Append(q, u)
      <4>1. 0 \in 0..Len(q) /\ q \in Seq(Unit) /\ u \in Unit
        BY <1>0, <3>1
      <4>2. u \notin {q[i] : i \in DOMAIN q} /\ (\A i, j \in DOMAIN q : q[i] = q[j] => i = j)
        BY <3>1 DEF IInv, Landed, OneCommitPerUnit
      <4> HIDE DEF q, u
      <4>3. /\ {a[i] : i \in DOMAIN a} = {q[i] : i \in DOMAIN q} \cup {u}
            /\ \A i, j \in DOMAIN a : a[i] = a[j] => i = j
        BY <4>1, <4>2, Commits
      <4>4. git'.branch = a
        BY <2>3 DEF q, u
      <4> HIDE DEF a
      <4> QED  BY <4>3, <4>4 DEF Landed, OneCommitPerUnit, q, u
    <3>3. BranchCut' /\ Seated'
      BY <2>1, <2>3 DEF IInv, BranchCut, Seated, Running
    <3>4. Staged' /\ Finished'
      BY <2>1, <2>3 DEF IInv, Staged, Finished, Early
    <3>5. Covered' /\ CheckpointHolds'
      BY <1>a, <2>1, <2>3, <3>2 DEF IInv, Covered, Working, CheckpointHolds
    <3> QED  BY <1>0, <1>b, <3>2, <3>3, <3>4, <3>5 DEF IInv
  <2> QED  BY <2>1, <2>2, <2>3
<1>7. CASE Decline \/ Raise \/ Interrupt \/ Exhausted
  <2>1. /\ t.pc = "guard" /\ t'.pc = "finish" /\ SameWork /\ git' = git /\ chk' = chk
        /\ t'.res # "ok" \/ t.todo = {}
    BY <1>0, <1>7, <1>a, WorkerEffect
  <2>2. Landed' = Landed /\ OneCommitPerUnit' /\ CheckpointHolds'
    BY <1>c, <2>1
  <2>3. BranchCut' /\ Seated' /\ Staged' /\ Finished'
    BY <1>d, <2>1 DEF IInv, Staged, Finished, Early, Running, SameWork
  <2>4. Covered'
    BY <1>a, <2>1, <2>2 DEF IInv, Covered, Working, SameWork
  <2> QED  BY <1>0, <1>b, <2>2, <2>3, <2>4 DEF IInv
<1>8. CASE CheckFence \/ Sink
  <2>1. /\ t.pc \in {"finish", "sink"} /\ git' = git /\ chk' = chk
        /\ \/ t' = IdleWorker
           \/ t'.pc \in {"sink", "save", "complete"} /\ t'.res = t.res /\ SameWork
    BY <1>0, <1>8, <1>a, WorkerEffect
  <2>2. CASE t' = IdleWorker
    BY <1>0, <1>a, <2>1, <2>2, IdleFields, OffWork
  <2>3. CASE t'.pc \in {"sink", "save", "complete"} /\ t'.res = t.res /\ SameWork
    <3>2. Landed' = Landed /\ OneCommitPerUnit' /\ CheckpointHolds'
      BY <1>c, <2>1
    <3>3. BranchCut' /\ Seated' /\ Staged' /\ Finished'
      BY <1>d, <2>1, <2>3 DEF IInv, Staged, Finished, Early, Running, SameWork
    <3>4. Covered'
      BY <1>a, <2>1, <2>3, <3>2 DEF IInv, Covered, Working, SameWork
    <3> QED  BY <1>0, <1>b, <3>2, <3>3, <3>4 DEF IInv
  <2> QED  BY <2>1, <2>2, <2>3
<1>9. CASE Save
  <2>1. t.pc = "save" /\ t'.pc = "complete" /\ t'.res = t.res /\ SameWork /\ git' = git
    BY <1>0, <1>9, WorkerEffect
  <2>2. Landed' = Landed /\ OneCommitPerUnit'
    BY <2>1, SameBranch DEF IInv
  <2>3. BranchCut' /\ Seated' /\ Staged' /\ Finished'
    BY <1>d, <2>1 DEF IInv, Staged, Finished, Early, Running, SameWork
  <2>4. Covered'
    BY <1>a, <2>1, <2>2 DEF IInv, Covered, Working, SameWork
  <2>5. CheckpointHolds'
    <3>1. chk'.remaining = Unit \ t.landed
      BY <1>9 DEF Save
    <3>2. ~excused => t.landed \subseteq Landed
      BY <2>1 DEF IInv, Covered, Working
    <3> QED  BY <1>a, <2>2, <3>1, <3>2 DEF CheckpointHolds
  <2> QED  BY <1>0, <1>b, <2>2, <2>3, <2>4, <2>5 DEF IInv
<1> QED
  BY <1>1, <1>2, <1>3, <1>4, <1>5, <1>6, <1>7, <1>8, <1>9 DEF TransformStep, Transform

\* What a discard does: nothing, or the branch is cut back to the anchor, and unless it
\* held no commit, as when the question was asked, the worker is excused.
LEMMA DiscardEffect ==
  ASSUME IInv, Discard
  PROVE  /\ t' = t /\ chk' = chk /\ row' = row /\ s.pc = "discard" /\ s'.pc \in {"persist", "rows"}
         /\ git'.tree = git.tree /\ git'.cut = git.cut
         /\ Landed' \subseteq Landed /\ OneCommitPerUnit'
         /\ \/ git'.branch = git.branch /\ excused' = excused
            \/ excused' = TRUE /\ git.cut
<1> USE DEF tables
<1>0. git \in Git /\ s \in Resume /\ git.branch \in Seq(Unit) /\ s.anchor.at \in Nat
  BY DEF IInv, TypeOK, Git, Resume, Anchor
<1>1. /\ t' = t /\ chk' = chk /\ row' = row /\ s.pc = "discard" /\ s'.pc \in {"persist", "rows"}
  BY <1>0 DEF Discard, Resume
<1>2. CASE git' = git /\ excused' = excused
  <2>1. Landed' = Landed /\ OneCommitPerUnit'
    BY <1>2, SameBranch DEF IInv
  <2> QED  BY <1>1, <1>2, <2>1
<1>3. CASE /\ git' = [git EXCEPT !.branch = SubSeq(@, 1, s.anchor.at), !.dirty = FALSE]
           /\ s.anchor.at <= Len(git.branch) /\ git.cut
           /\ excused' = (excused \/ Len(git.branch) # s.len)
  <2> DEFINE q == git.branch
             n == s.anchor.at
             l == SubSeq(q, 1, n)
  <2>1. /\ git'.branch = l /\ git'.tree = git.tree /\ git'.cut = git.cut
    BY <1>0, <1>3 DEF Git
  <2>2. q \in Seq(Unit) /\ n \in 0..Len(q) /\ Max(Unit) \in Unit
    BY <1>0, <1>3, UnitFacts
  <2>3. \A i, j \in DOMAIN q : q[i] = q[j] => i = j
    BY DEF IInv, OneCommitPerUnit
  <2> HIDE DEF q, n
  <2>4. /\ {l[i] : i \in DOMAIN l} \subseteq {q[i] : i \in DOMAIN q}
        /\ \A i, j \in DOMAIN l : l[i] = l[j] => i = j
        /\ n = 0 => l = <<>>
    BY <2>2, <2>3, Commits
  <2>5. Landed' \subseteq Landed /\ OneCommitPerUnit'
    <3> HIDE DEF l
    <3> QED  BY <2>1, <2>4 DEF Landed, OneCommitPerUnit, q
  <2>6. ASSUME ~excused' PROVE git'.branch = git.branch /\ excused' = excused
    <3>1. Len(q) = 0 /\ ~excused
      BY <1>1, <1>3, <2>6 DEF IInv, DiscardsNothing, q
    <3>2. n = 0 /\ q = <<>>
      BY <2>2, <3>1
    <3>3. excused \in BOOLEAN /\ excused' \in BOOLEAN
      BY <1>3 DEF IInv, TypeOK
    <3> QED  BY <2>1, <2>4, <2>6, <3>1, <3>2, <3>3 DEF q
  <2>7. excused' \in BOOLEAN
    BY <1>3 DEF IInv, TypeOK
  <2> QED  BY <1>1, <1>3, <2>1, <2>5, <2>6, <2>7
<1> QED  BY <1>2, <1>3 DEF Discard

LEMMA ResumeIInv == IInv /\ ResumeProcess => IInv'
<1> SUFFICES ASSUME IInv, ResumeProcess PROVE IInv'
  OBVIOUS
<1>0. TypeOK /\ TypeOK' /\ s \in Resume /\ git.branch \in Seq(Unit)
  BY ResumeType DEF IInv, TypeOK, Git
<1>1. CASE Discard
  <2>1. /\ t' = t /\ chk' = chk /\ s'.pc \in {"persist", "rows"} /\ git'.tree = git.tree
        /\ git'.cut = git.cut /\ Landed' \subseteq Landed /\ OneCommitPerUnit'
        /\ (git'.branch = git.branch /\ excused' = excused) \/ (excused' = TRUE /\ git.cut)
    BY <1>1, DiscardEffect
  <2>2. DiscardsNothing' /\ Finished' /\ Seated' /\ Staged'
    BY <2>1 DEF IInv, DiscardsNothing, Finished, Early, Seated, Running, Staged
  <2>3. CASE git'.branch = git.branch /\ excused' = excused
    <3>1. Landed' = Landed
      BY <2>3, SameBranch
    <3>2. BranchCut' /\ Covered' /\ CheckpointHolds'
      BY <2>1, <2>3, <3>1 DEF IInv, BranchCut, Covered, Working, CheckpointHolds
    <3> QED  BY <1>0, <2>1, <2>2, <3>2 DEF IInv
  <2>4. CASE excused' = TRUE /\ git.cut
    <3>1. BranchCut' /\ Covered' /\ CheckpointHolds'
      BY <2>1, <2>4 DEF IInv, BranchCut, Covered, CheckpointHolds
    <3> QED  BY <1>0, <2>1, <2>2, <3>1 DEF IInv
  <2> QED  BY <2>1, <2>3, <2>4
<1>2. CASE ~Discard
  <2>1. t' = t /\ git' = git /\ excused' = excused
    BY <1>2
    DEF ResumeProcess, ResumeStep, tables, ResumeStart, ResetStale, ReadTasks, Arbitrate, Persist,
        ReadRows, Probe, Demote, CrashResume
  <2>2. chk' = chk \/ chk'.saved = FALSE
    BY <1>2
    DEF ResumeProcess, ResumeStep, tables, ResumeStart, ResetStale, ReadTasks, Arbitrate, Persist,
        ReadRows, Probe, Demote, CrashResume, NoChk
  <2>3. Landed' = Landed /\ OneCommitPerUnit'
    BY <2>1, SameBranch DEF IInv
  <2>4. DiscardsNothing'
    <3>1. CASE Arbitrate
      <4>1. s'.pc = "discard" => Landed = {} /\ s'.len = Len(git.branch)
        BY <1>0, <3>1 DEF Arbitrate, Resume
      <4>2. Landed = {} => Len(git.branch) = 0
        <5>1. 0 \in 0..Len(git.branch) /\ Max(Unit) \in Unit
          BY <1>0, UnitFacts
        <5> QED  BY <1>0, <5>1, Commits DEF Landed
      <4> QED  BY <4>1, <4>2 DEF DiscardsNothing
    <3>2. CASE ~Arbitrate
      <4>1. s'.pc # "discard"
        <5>1. CASE ResumeStart \/ CrashResume
          BY <5>1, IdleFields DEF ResumeStart, CrashResume, IdleResume
        <5>2. CASE ResetStale \/ Persist \/ ReadRows
          BY <1>0, <5>2 DEF ResetStale, Persist, ReadRows, Resume
        <5>3. CASE ReadTasks
          BY <1>0, <5>3 DEF ReadTasks, Resume
        <5>4. CASE Probe
          BY <1>0, <5>4, IdleFields DEF Probe, Resume
        <5>5. CASE Demote
          BY <5>5, IdleFields DEF Demote
        <5> QED  BY <1>2, <3>2, <5>1, <5>2, <5>3, <5>4, <5>5 DEF ResumeProcess, ResumeStep
      <4> QED  BY <4>1 DEF DiscardsNothing
    <3> QED  BY <3>1, <3>2
  <2>5. BranchCut' /\ Seated' /\ Staged' /\ Finished'
    BY <2>1, <2>3 DEF IInv, BranchCut, Seated, Staged, Finished, Running, Early
  <2>6. Covered' /\ CheckpointHolds'
    BY <2>1, <2>2, <2>3 DEF IInv, Covered, Working, CheckpointHolds
  <2> QED  BY <1>0, <2>3, <2>4, <2>5, <2>6 DEF IInv
<1> QED  BY <1>1, <1>2

LEMMA NextIInv == IInv /\ [Next]_vars => IInv'
<1>1. IInv /\ UNCHANGED vars => IInv'
  BY DEF vars, tables, IInv, TypeOK, BranchCut, Seated, Staged, DiscardsNothing, Covered, Finished,
         CheckpointHolds, OneCommitPerUnit, Running, Working, Early, Landed
<1> QED  BY <1>1, OtherIInv, TransformIInv, ResumeIInv, StepKinds

LEMMA IInvAlways == Spec => []IInv
BY InitIInv, NextIInv, PTL DEF Spec

\* Every unit of TRANSFORM is on the branch at most once, whatever crashes, checkpoints
\* replayed, losses of the clone and overlapping resumes led there: vcs/commits.guard
\* decides between skipping and landing, and nobody lands between the guard and the commit.
THEOREM OneCommitPerUnitAlways == Spec => []OneCommitPerUnit
<1>1. IInv => OneCommitPerUnit
  BY DEF IInv
<1> QED  BY <1>1, IInvAlways, PTL

-----------------------------------------------------------------------------
(* TRANSFORM implements Landing *)

LEMMA VerdictFacts ==
  /\ Status(TRANSFORM) \in {SUCCEEDED, DEGRADED} <=> PhaseVerdict = "succeeded"
  /\ Status(TRANSFORM) = RHI <=> PhaseVerdict = "given_up"
  /\ Status(TRANSFORM) \in {PENDING, RUNNING} => PhaseVerdict = "open"
  /\ Status(TRANSFORM)' \in {SUCCEEDED, DEGRADED} <=> PhaseVerdict' = "succeeded"
  /\ Status(TRANSFORM)' = RHI <=> PhaseVerdict' = "given_up"
  /\ Status(TRANSFORM)' \in {PENDING, RUNNING} => PhaseVerdict' = "open"
  /\ Status(TRANSFORM)' = Status(TRANSFORM) => PhaseVerdict' = PhaseVerdict
BY StatusNames DEF PhaseVerdict

\* What the steps do to the branch.
LEMMA BranchEffect ==
  ASSUME IInv, Next
  PROVE  \/ Landed' = Landed /\ excused' = excused
         \/ /\ CommitUnit \/ Scan \/ LoseMirror \/ Discard
            /\ \/ \E u \in Unit : u \notin Landed /\ Landed' = Landed \cup {u} /\ excused' = excused
               \/ Landed' = {} /\ excused' = excused
               \/ Landed' \subseteq Landed /\ excused' = TRUE
<1>0. TypeOK /\ excused \in BOOLEAN /\ git.branch \in Seq(Unit)
  BY DEF IInv, TypeOK, Git
<1>1. CASE OtherStep
  <2>1. CASE SameGit /\ excused' = excused
    BY <2>1, SameBranch DEF SameGit
  <2>2. CASE Scan /\ git'.branch = <<>> /\ excused' = (excused \/ PrunedUnder)
    <3>1. Landed' = {} /\ Landed' \subseteq Landed
      BY <2>2, EmptyBranch
    <3>2. excused' = excused \/ excused' = TRUE
      BY <1>0, <2>2
    <3> QED  BY <2>2, <3>1, <3>2
  <2>3. CASE LoseMirror /\ git'.branch = <<>> /\ excused' = excused
    BY <2>3, EmptyBranch
  <2>4. CASE git'.branch = git.branch /\ excused' = excused
    BY <2>4, SameBranch
  <2> QED  BY <1>0, <1>1, <2>1, <2>2, <2>3, <2>4, OtherEffect
<1>2. CASE TransformStep
  <2>1. excused' = excused
    BY <1>2
    DEF TransformStep, Transform, tables, TransformStart, Prepare, Acquire, Enter, Claim,
        EnterRewrite, Guard, CommitUnit, Decline, Raise, Interrupt, Exhausted, CheckFence, Sink, Save,
        Complete, CrashTransform
  <2>2. CASE git'.branch = git.branch
    BY <2>1, <2>2, SameBranch
  <2>3. CASE CommitUnit /\ git'.branch = Append(git.branch, Min(t.todo)) /\ t.pc = "commit"
    <3>1. Min(t.todo) \in Unit /\ Min(t.todo) \notin Landed
      BY <2>3, NextUnit DEF IInv, Staged, TypeOK, Worker
    <3>2. Landed' = Landed \cup {Min(t.todo)}
      <4> DEFINE u == Min(t.todo)
                 q == git.branch
                 a == Append(q, u)
      <4>1. 0 \in 0..Len(q) /\ q \in Seq(Unit) /\ u \in Unit
        BY <1>0, <3>1
      <4> HIDE DEF q, u
      <4>2. {a[i] : i \in DOMAIN a} = {q[i] : i \in DOMAIN q} \cup {u}
        BY <4>1, Commits
      <4>3. git'.branch = a
        BY <2>3 DEF q, u
      <4> HIDE DEF a
      <4> QED  BY <4>2, <4>3 DEF Landed, q, u
    <3> QED  BY <2>1, <2>3, <3>1, <3>2
  <2> QED  BY <1>0, <1>2, <2>2, <2>3, WorkerEffect DEF TransformStep, Transform, SameGit
<1>3. CASE ResumeProcess
  <2>1. CASE Discard
    BY <2>1, DiscardEffect, SameBranch
  <2>2. CASE ~Discard
    <3>1. git' = git /\ excused' = excused
      BY <1>3, <2>2
      DEF ResumeProcess, ResumeStep, tables, ResumeStart, ResetStale, ReadTasks, Arbitrate, Persist,
          ReadRows, Probe, Demote, CrashResume
    <3> QED  BY <3>1, SameBranch
  <2> QED  BY <2>1, <2>2
<1> QED  BY <1>1, <1>2, <1>3, StepKinds

\* What the steps do to TRANSFORM's status.
LEMMA StatusEffect ==
  ASSUME IInv, Next
  PROVE  LET was == Status(TRANSFORM)
             is  == Status(TRANSFORM)'
         IN  \/ is = was
             \/ /\ ~CommitUnit /\ ~Scan /\ ~LoseMirror /\ ~Discard
                /\ \/ was \in {PENDING, RUNNING} /\ is \in {PENDING, RUNNING, RHI}
                   \/ Complete /\ t.res = "ok" /\ was = RUNNING /\ is = SUCCEEDED
                   \/ was = SUCCEEDED /\ is \in {PENDING, DEGRADED}
<1> DEFINE r   == row[TRANSFORM]
           was == Status(TRANSFORM)
           is  == Status(TRANSFORM)'
<1> USE PhaseFacts DEF tables
<1>0. row \in [Phase -> PhaseRow] /\ r \in PhaseRow /\ s \in Resume
  BY DEF IInv, TypeOK
<1>u. ASSUME row'[TRANSFORM] = row[TRANSFORM] PROVE is = was
  BY <1>u DEF Status
<1>1. CASE Scan \/ Build \/ Verify
  <2>1. row'[TRANSFORM] = row[TRANSFORM]
    BY <1>0, <1>1 DEF Scan, Build, Verify
  <2> QED  BY <1>u, <2>1
<1>2. CASE StubDegrade
  <2>1. row'[TRANSFORM] = [row[TRANSFORM] EXCEPT !.status = DEGRADED] /\ was = SUCCEEDED
    BY <1>0, <1>2 DEF StubDegrade
  <2>2. is = DEGRADED
    BY <1>0, <2>1 DEF Status, PhaseRow
  <2>3. ~CommitUnit /\ ~Scan /\ ~LoseMirror /\ ~Discard
    <3>1. row' # row
      BY <2>1, <2>2, StatusNames DEF Status
    <3>2. row'[SCAN] = row[SCAN]
      BY <1>0, <1>2 DEF StubDegrade
    <3> QED  BY <1>0, <2>1, <2>2, <3>1, StatusNames DEF CommitUnit, Scan, LoseMirror, Discard, Status
  <2> QED  BY <2>1, <2>2, <2>3
<1>3. CASE LoseMirror \/ LoseTree
  BY <1>3, <1>u DEF LoseMirror, LoseTree
<1>4. CASE Expire
  <2>1. row'[TRANSFORM] = [row[TRANSFORM] EXCEPT !.lease = "expired"]
    BY <1>0, <1>4 DEF Expire
  <2>2. is = was
    BY <1>0, <2>1, RowOperatorsEffect DEF Status
  <2> QED  BY <2>2
<1>m. ASSUME is # was PROVE ~CommitUnit /\ ~Scan /\ ~LoseMirror /\ ~Discard
  <2>1. row'[TRANSFORM] # row[TRANSFORM]
    BY <1>m DEF Status
  <2>2. Scan => row'[TRANSFORM] = row[TRANSFORM]
    BY <1>0 DEF Scan
  <2>3. CommitUnit \/ LoseMirror \/ Discard => row' = row
    BY DEF CommitUnit, LoseMirror, Discard
  <2> QED  BY <2>1, <2>2, <2>3
<1>5. CASE TransformStart \/ ResetStale
  <2>1. \/ row'[TRANSFORM] = r
        \/ LeaseReapable(r) /\ row'[TRANSFORM] = ReclaimLease(r)
    BY <1>0, <1>5 DEF TransformStart, ResetStale
  <2>2. is = was \/ (was = RUNNING /\ is = PENDING)
    BY <1>0, <2>1, RowOperatorsEffect DEF Status, LeaseReapable
  <2> QED  BY <1>m, <2>2
<1>6. CASE Prepare
  <2>1. row'[TRANSFORM] = r \/ row'[TRANSFORM] = abandon_repo(r)
    BY <1>0, <1>6 DEF Prepare
  <2>2. is = was \/ (was = PENDING /\ is = RHI)
    BY <1>0, <2>1 DEF Status, abandon_repo, PhaseRow
  <2> QED  BY <1>m, <2>2
<1>7. CASE Acquire
  <2>1. \/ row'[TRANSFORM] = r
        \/ Acquirable(r) /\ row'[TRANSFORM] = acquire_phase_lease(r)
    BY <1>0, <1>7 DEF Acquire
  <2>2. is = was \/ (was = PENDING /\ is = RUNNING)
    BY <1>0, <2>1, RowOperatorsEffect DEF Status, Acquirable
  <2> QED  BY <1>m, <2>2
<1>8. CASE Complete
  <2>1. \/ row'[TRANSFORM] = r
        \/ Fenced /\ row'[TRANSFORM] = complete_phase(r, Verdict)
    BY <1>0, <1>8 DEF Complete
  <2>2. Verdict \in {RHI, PENDING} \/ (Verdict = SUCCEEDED /\ t.res = "ok")
    BY StatusNames DEF Verdict
  <2>3. \/ is = was
        \/ was = RUNNING /\ is = CompletionTarget(r, Verdict)
    BY <1>0, <2>1, RowOperatorsEffect DEF Status, Fenced, Renewable
  <2>4. /\ Verdict \in {RHI, PENDING} => CompletionTarget(r, Verdict) \in {RHI, PENDING}
        /\ Verdict = SUCCEEDED => CompletionTarget(r, Verdict) = SUCCEEDED
    BY StatusNames DEF CompletionTarget
  <2> QED  BY <1>8, <1>m, <2>2, <2>3, <2>4
<1>9. CASE Demote
  <2>1. \/ row' = row
        \/ /\ Status(TRANSFORM) = s.seen[TRANSFORM]
           /\ row'[TRANSFORM] = IF TRANSFORM \in demotable_phases(s.seen, s.floor)
                                THEN reopen_to_pending(r) ELSE r
    BY <1>0, <1>9 DEF Demote
  <2>2. is = was \/ (was = SUCCEEDED /\ is = PENDING)
    BY <1>0, <2>1, RowOperatorsEffect DEF Status, demotable_phases
  <2> QED  BY <1>m, <2>2
<1>10. CASE ~(Scan \/ Build \/ Verify \/ StubDegrade \/ Expire \/ TransformStart \/ ResetStale \/ Prepare
              \/ Acquire \/ Complete \/ Demote)
  <2>1. row' = row
    BY <1>10
    DEF Next, Commands, Transform, ResumeStep, Enter, Claim, EnterRewrite, Guard, CommitUnit, Decline,
        Raise, Interrupt, Exhausted, CheckFence, Sink, Save, CrashTransform, ResumeStart, ReadTasks,
        Arbitrate, Discard, Persist, ReadRows, Probe, CrashResume, LoseMirror, LoseTree
  <2> QED  BY <1>u, <2>1
<1> QED  BY <1>1, <1>2, <1>3, <1>4, <1>5, <1>6, <1>7, <1>8, <1>9, <1>10

LEMMA NextLands ==
  ASSUME IInv, [Next]_vars
  PROVE  [TransformLands!Next]_(TransformLands!vars)
<1> USE DEF TransformLands!Next, TransformLands!vars
<1>0. Landed \subseteq Unit
  BY DEF IInv, TypeOK, Git, Landed
<1>1. CASE UNCHANGED vars
  <2>1. Landed' = Landed /\ PhaseVerdict' = PhaseVerdict /\ excused' = excused
    BY <1>1, VerdictFacts DEF vars, tables, Landed, Status
  <2> QED  BY <2>1
<1>2. CASE Next /\ (CommitUnit \/ Scan \/ LoseMirror \/ Discard)
  <2>1. PhaseVerdict' = PhaseVerdict
    BY <1>2, StatusEffect, VerdictFacts
  <2>2. \/ Landed' = Landed /\ excused' = excused
        \/ \E u \in Unit : u \notin Landed /\ Landed' = Landed \cup {u} /\ excused' = excused
        \/ Landed' = {} /\ excused' = excused
        \/ Landed' \subseteq Landed /\ excused' = TRUE
    BY <1>2, BranchEffect
  <2> QED  BY <2>1, <2>2 DEF TransformLands!Land, TransformLands!Lose, TransformLands!Rewind
<1>3. CASE Next /\ ~(CommitUnit \/ Scan \/ LoseMirror \/ Discard)
  <2>1. Landed' = Landed /\ excused' = excused
    BY <1>3, BranchEffect
  <2>2. CASE Complete /\ t.res = "ok" /\ Status(TRANSFORM) = RUNNING /\ Status(TRANSFORM)' = SUCCEEDED
    <3>1. PhaseVerdict = "open" /\ PhaseVerdict' = "succeeded"
      BY <2>2, VerdictFacts
    <3>2. t.pc = "complete" /\ t.todo = {}
      BY <2>2 DEF Complete, IInv, Finished
    <3>3. Landed = Unit \/ excused
      BY <1>0, <3>2 DEF IInv, Covered, Working
    <3> QED  BY <2>1, <3>1, <3>3 DEF TransformLands!Succeed
  <2>3. CASE Status(TRANSFORM) \in {PENDING, RUNNING} /\ Status(TRANSFORM)' \in {PENDING, RUNNING, RHI}
    <3>1. PhaseVerdict = "open" /\ PhaseVerdict' \in {"open", "given_up"}
      BY <2>3, VerdictFacts
    <3> QED  BY <2>1, <3>1 DEF TransformLands!GiveUp
  <2>4. CASE Status(TRANSFORM) = SUCCEEDED /\ Status(TRANSFORM)' \in {PENDING, DEGRADED}
    <3>1. PhaseVerdict = "succeeded" /\ PhaseVerdict' \in {"open", "succeeded"}
      BY <2>4, VerdictFacts
    <3> QED  BY <2>1, <3>1 DEF TransformLands!Reopen
  <2>5. CASE Status(TRANSFORM)' = Status(TRANSFORM)
    BY <2>1, <2>5, VerdictFacts
  <2> QED  BY <1>3, <2>2, <2>3, <2>4, <2>5, StatusEffect
<1> QED  BY <1>1, <1>2, <1>3

\* Reentry implements Landing: whatever checkpoints, crashes, losses of the clone and
\* resumes lie in between, each unit lands once, and TRANSFORM is recorded as succeeded
\* only with every unit on the branch, unless a command took commits from under the
\* worker or under a checkpoint (complete_phase on the worker's "ok").
THEOREM TransformImplementsLanding == Spec => LandsEverything
<1>1. Init => TransformLands!Init
  <2> SUFFICES ASSUME Init PROVE TransformLands!Init
    OBVIOUS
  <2>1. git.branch = <<>> /\ excused = FALSE
    BY DEF Init
  <2>2. Landed = {}
    BY <2>1, NoCommits DEF Landed
  <2>3. Status(TRANSFORM) = PENDING
    BY PhaseFacts DEF Init, Status, FreshRow
  <2> QED  BY <2>1, <2>2, <2>3, VerdictFacts DEF TransformLands!Init
<1>2. IInv /\ [Next]_vars => [TransformLands!Next]_(TransformLands!vars)
  BY NextLands
<1> QED  BY <1>1, <1>2, IInvAlways, PTL DEF Spec, LandsEverything, TransformLands!Spec

-----------------------------------------------------------------------------
(* The floor a resume writes *)

\* The floor is the one phase_floor computed from what the resume read and asked.
FloorKept == s.pc = "demote" => s.floor = phase_floor(s.seen, s.held) /\ s.floor # None

LEMMA NextFloor == TypeOK /\ FloorKept /\ [Next]_vars => FloorKept'
<1> SUFFICES ASSUME TypeOK, FloorKept, [Next]_vars PROVE FloorKept'
  OBVIOUS
<1>0. s \in Resume
  BY DEF TypeOK
<1>1. CASE s' = s
  BY <1>1 DEF FloorKept
<1>2. CASE Probe
  <2> DEFINE held  == [p \in Phase |-> evidence_holds(p, s.seen)]
             floor == phase_floor(s.seen, held)
  <2>1. \/ s' = IdleResume
        \/ floor # None /\ s' = [s EXCEPT !.pc = "demote", !.held = held, !.floor = floor]
    BY <1>2 DEF Probe
  <2>2. CASE s' = IdleResume
    BY <2>2, IdleFields DEF FloorKept
  <2>3. CASE floor # None /\ s' = [s EXCEPT !.pc = "demote", !.held = held, !.floor = floor]
    <3> HIDE DEF held
    <3>1. s'.seen = s.seen /\ s'.held = held
      BY <1>0, <2>3 DEF Resume
    <3>2. s'.floor = floor
      <4> HIDE DEF floor
      <4> QED  BY <1>0, <2>3 DEF Resume
    <3> QED  BY <2>3, <3>1, <3>2 DEF FloorKept
  <2> QED  BY <2>1, <2>2, <2>3
<1>3. CASE ResumeProcess /\ ~Probe
  <2>1. s'.pc # "demote"
    <3>1. CASE ResumeStart \/ CrashResume
      BY <3>1, IdleFields DEF ResumeStart, CrashResume, IdleResume
    <3>2. CASE ResetStale \/ Persist \/ ReadRows
      BY <1>0, <3>2 DEF ResetStale, Persist, ReadRows, Resume
    <3>3. CASE ReadTasks \/ Arbitrate
      BY <1>0, <3>3 DEF ReadTasks, Arbitrate, Resume
    <3>4. CASE Discard
      BY <1>0, <3>4 DEF Discard, Resume
    <3>5. CASE Demote
      BY <3>5, IdleFields DEF Demote
    <3> QED  BY <1>3, <3>1, <3>2, <3>3, <3>4, <3>5 DEF ResumeProcess, ResumeStep
  <2> QED  BY <2>1 DEF FloorKept
<1>4. OtherStep \/ TransformStep \/ UNCHANGED vars => s' = s
  <2>1. OtherStep => s' = s
    BY OtherEffect
  <2>2. TransformStep => s' = s
    BY DEF TransformStep, Transform, tables, TransformStart, Prepare, Acquire, Enter, Claim,
           EnterRewrite, Guard, CommitUnit, Decline, Raise, Interrupt, Exhausted, CheckFence, Sink, Save,
           Complete, CrashTransform
  <2> QED  BY <2>1, <2>2 DEF vars
<1> QED  BY <1>1, <1>2, <1>3, <1>4, StepKinds

LEMMA FloorAlways == Spec => []FloorKept
<1>1. Init => FloorKept
  BY DEF Init, IdleResume, FloorKept
<1> QED  BY <1>1, NextFloor, TypeInvariant, PTL DEF Spec

\* Only a resume takes a success back.
LEMMA OnlyDemotes ==
  ASSUME TypeOK, [Next]_vars, NEW p \in Phase, Status(p) = SUCCEEDED, row'[p].status = PENDING
  PROVE  Demote
<1> SUFFICES ASSUME ~Demote PROVE FALSE
  OBVIOUS
<1> USE PhaseFacts, StatusNames DEF tables
<1>0. row \in [Phase -> PhaseRow] /\ row' # row /\ row'[p] # row[p] /\ row[p].status = SUCCEEDED
  BY DEF TypeOK, Status
<1>1. CASE Scan \/ Build \/ Verify
  BY <1>0, <1>1 DEF Scan, Build, Verify, Status
<1>2. CASE StubDegrade
  <2>1. row'[TRANSFORM] = [row[TRANSFORM] EXCEPT !.status = DEGRADED] /\ p = TRANSFORM
    BY <1>0, <1>2 DEF StubDegrade
  <2>2. row'[TRANSFORM].status = DEGRADED
    BY <1>0, <2>1 DEF PhaseRow
  <2> QED  BY <2>1, <2>2
<1>3. CASE Expire
  BY <1>0, <1>3 DEF Expire, Status
<1>4. CASE TransformStart \/ ResetStale
  BY <1>0, <1>4 DEF TransformStart, ResetStale, LeaseReapable
<1>5. CASE Prepare
  BY <1>0, <1>5 DEF Prepare, abandon_repo
<1>6. CASE Acquire \/ Complete
  BY <1>0, <1>6 DEF Acquire, Complete, Acquirable, Fenced, Renewable
<1>7. CASE ~(Scan \/ Build \/ Verify \/ StubDegrade \/ Expire \/ TransformStart \/ ResetStale \/ Prepare
             \/ Acquire \/ Complete)
  <2>1. row' = row
    BY <1>7
    DEF vars, Next, Commands, Transform, ResumeStep, Enter, Claim, EnterRewrite, Guard, CommitUnit,
        Decline, Raise, Interrupt, Exhausted, CheckFence, Sink, Save, CrashTransform, ResumeStart,
        ReadTasks, Arbitrate, Discard, Persist, ReadRows, Probe, CrashResume, LoseMirror, LoseTree
  <2> QED  BY <1>0, <2>1
<1> QED  BY <1>1, <1>2, <1>3, <1>4, <1>5, <1>6, <1>7

\* A resume demotes a succeeded phase below the frontier only where its evidence was gone
\* when it looked, and nothing below its floor (orchestrator/reentry.py phase_floor,
\* demotable_phases; no other command takes a success back).
THEOREM GreenWorkIsKept == Spec => GreenWorkKept
<1>1. ASSUME TypeOK, FloorKept, [Next]_vars, NEW p \in Phase,
             Status(p) = SUCCEEDED, row'[p].status = PENDING
      PROVE  s.floor <= p /\ (p < Min(Unsettled(s.seen)) => ~s.held[p])
  <2>1. Demote
    BY <1>1, OnlyDemotes
  <2>2. /\ s.floor = phase_floor(s.seen, s.held) /\ s.floor # None
        /\ s.seen \in [Phase -> RepoStatus] /\ s.held \in [Phase -> BOOLEAN]
    BY <1>1, <2>1 DEF Demote, FloorKept, TypeOK, Resume
  <2>3. p \in demotable_phases(s.seen, s.floor)
    <3>1. row'[p] # row[p]
      BY <1>1, StatusNames DEF Status
    <3> QED  BY <2>1, <3>1 DEF Demote
  <2>4. s.floor <= p
    BY <2>3 DEF demotable_phases
  <2> DEFINE frontier == Min(Unsettled(s.seen))
  <2>5. /\ frontier \in Phase /\ s.floor \in 1..frontier
        /\ \A x \in s.floor..(frontier - 1) : ~s.held[x]
    <3>1. /\ frontier \in Unsettled(s.seen) /\ s.floor \in 1..frontier
          /\ \A x \in s.floor..(frontier - 1) : ~s.held[x]
      BY <2>2, FloorFacts
    <3>2. Unsettled(s.seen) \subseteq Phase
      BY Zenon DEF Unsettled
    <3> QED  BY <3>1, <3>2
  <2>6. ASSUME p < frontier PROVE p \in s.floor..(frontier - 1)
    <3> HIDE DEF frontier
    <3> QED  BY <1>1, <2>4, <2>5, <2>6, PhaseFacts
  <2> QED  BY <2>4, <2>5, <2>6
<1>2. TypeOK /\ FloorKept /\ [Next]_vars
        => [\A p \in Phase :
              Status(p) = SUCCEEDED /\ row'[p].status = PENDING
                => s.floor <= p /\ (p < Min(Unsettled(s.seen)) => ~s.held[p])]_vars
  BY <1>1
<1> QED  BY <1>2, FloorAlways, TypeInvariant, PTL DEF Spec, GreenWorkKept

\* The frontier a demotion leaves is its floor.
LEMMA NewFrontier ==
  ASSUME NEW seen \in [Phase -> RepoStatus], NEW held \in [Phase -> BOOLEAN],
         phase_floor(seen, held) # None, NEW now,
         now = [p \in Phase |-> IF p \in demotable_phases(seen, phase_floor(seen, held))
                                THEN PENDING ELSE seen[p]]
  PROVE  Min(Unsettled(now)) = phase_floor(seen, held)
<1> DEFINE floor    == phase_floor(seen, held)
           frontier == Min(Unsettled(seen))
<1>1. /\ frontier \in Unsettled(seen) /\ \A p \in Unsettled(seen) : frontier <= p
      /\ floor \in 1..frontier
      /\ \A p \in floor..(frontier - 1) : seen[p] \notin HardStops
  BY FloorFacts
<1>2. frontier \in 1..4
  BY <1>1, PhaseFacts DEF Unsettled
<1> HIDE DEF floor, frontier
<1>3. floor \in Phase /\ floor \in Nat
  BY <1>1, <1>2, PhaseFacts
<1>4. floor \in Unsettled(now)
  <2>1. CASE floor = frontier
    BY <1>1, <1>3, <2>1, StatusNames DEF Unsettled, floor, SettledForDemotion
  <2>2. CASE floor # frontier
    <3>1. floor < frontier /\ floor \in floor..(frontier - 1)
      BY <1>1, <1>2, <2>2
    <3>2. seen[floor] \in SettledForDemotion
      <4>1. floor \notin Unsettled(seen)
        BY <1>1, <1>2, <1>3, <3>1
      <4> QED  BY <1>3, <4>1 DEF Unsettled
    <3>3. seen[floor] = SUCCEEDED
      BY <1>1, <3>1, <3>2 DEF SettledForDemotion, HardStops
    <3>4. floor \in demotable_phases(seen, floor)
      BY <1>3, <3>3 DEF demotable_phases
    <3> QED  BY <1>3, <3>4, StatusNames DEF Unsettled, floor, SettledForDemotion
  <2> QED  BY <2>1, <2>2
<1>5. ASSUME NEW p \in Unsettled(now) PROVE floor <= p
  <2>1. SUFFICES ASSUME p < floor PROVE FALSE
    BY <1>3, PhaseFacts DEF Unsettled
  <2>2. p \in Phase /\ p < frontier
    BY <1>1, <1>2, <1>3, <2>1, PhaseFacts DEF Unsettled
  <2>3. p \notin Unsettled(seen) /\ p \notin demotable_phases(seen, floor)
    <3>1. ~(frontier <= p) /\ ~(p >= floor)
      BY <1>2, <1>3, <2>1, <2>2, PhaseFacts
    <3> QED  BY <1>1, <3>1 DEF demotable_phases
  <2> QED  BY <2>2, <2>3 DEF Unsettled, floor
<1>6. Unsettled(now) \subseteq Nat
  <2>1. Unsettled(now) \subseteq Phase
    BY Zenon DEF Unsettled
  <2>2. Phase \subseteq Nat
    BY PhaseFacts
  <2> QED  BY <2>1, <2>2, Zenon
<1>7. Min(Unsettled(now)) \in Unsettled(now) /\ \A y \in Unsettled(now) : Min(Unsettled(now)) <= y
  BY <1>4, <1>6, MinIsLeast
<1> QED
  <2>1. Min(Unsettled(now)) \in Nat /\ Min(Unsettled(now)) <= floor /\ floor <= Min(Unsettled(now))
    BY <1>4, <1>5, <1>6, <1>7
  <2> QED  BY <1>3, <2>1 DEF floor

\* Below VERIFY the evidence does not depend on the rows.
LEMMA EvidenceOfDisk ==
  ASSUME NEW p \in 1..3, NEW a, NEW b
  PROVE  evidence_holds(p, a) = evidence_holds(p, b)
BY DEF evidence_holds, SCAN, TRANSFORM, BUILD

\* When a resume has written its floor and the disk is as it was when it looked, the phase
\* below the new frontier stands: its evidence holds, or it is a hard stop
\* (demote_to_floor writes nothing unless every row is as phase_floor saw it).
THEOREM FloorIsSoundAlways == Spec => FloorIsSound
<1> DEFINE now == [p \in Phase |-> row'[p].status]
<1>1. ASSUME TypeOK, FloorKept, [Next]_vars, s.pc = "demote", s'.pc = "idle", row' # row,
             \A p \in Phase : evidence_holds(p, s.seen) = s.held[p]
      PROVE  \/ Min(Unsettled(now)) = SCAN
             \/ now[Min(Unsettled(now)) - 1] \in HardStops
             \/ evidence_holds(Min(Unsettled(now)) - 1, now)
  <2>0. row \in [Phase -> PhaseRow] /\ s.seen \in [Phase -> RepoStatus] /\ s.held \in [Phase -> BOOLEAN]
    BY <1>1 DEF TypeOK, Resume
  <2>1. Demote
    <3>1. OtherStep \/ TransformStep \/ UNCHANGED vars => s' = s
      <4>1. OtherStep => s' = s
        BY <1>1, OtherEffect
      <4>2. TransformStep => s' = s
        BY DEF TransformStep, Transform, tables, TransformStart, Prepare, Acquire, Enter, Claim,
               EnterRewrite, Guard, CommitUnit, Decline, Raise, Interrupt, Exhausted, CheckFence, Sink,
               Save, Complete, CrashTransform
      <4> QED  BY <4>1, <4>2 DEF vars
    <3>2. ResumeProcess
      BY <1>1, <3>1, StepKinds
    <3> QED
      BY <1>1, <3>2
      DEF ResumeProcess, ResumeStep, tables, ResumeStart, ResetStale, ReadTasks, Arbitrate, Discard,
          Persist, ReadRows, Probe, CrashResume
  <2> DEFINE floor == phase_floor(s.seen, s.held)
  <2>2. s.floor = floor /\ floor # None
    BY <1>1 DEF FloorKept
  <2>3. /\ \A p \in Phase : Status(p) = s.seen[p]
        /\ row' = [p \in Phase |-> IF p \in demotable_phases(s.seen, s.floor)
                                   THEN reopen_to_pending(row[p]) ELSE row[p]]
    BY <1>1, <2>1 DEF Demote
  <2>4. now = [p \in Phase |-> IF p \in demotable_phases(s.seen, floor) THEN PENDING ELSE s.seen[p]]
    <3>1. \A p \in Phase : reopen_to_pending(row[p]).status = PENDING /\ row[p].status = s.seen[p]
      BY <2>0, <2>3, RowOperatorsEffect DEF Status
    <3> HIDE DEF floor
    <3> QED  BY <2>2, <2>3, <3>1
  <2> HIDE DEF now
  <2>5. Min(Unsettled(now)) = floor
    BY <2>0, <2>2, <2>4, NewFrontier
  <2>6. /\ Min(Unsettled(s.seen)) \in Phase /\ floor \in 1..Min(Unsettled(s.seen))
        /\ floor = SCAN \/ s.seen[floor - 1] \in HardStops \/ s.held[floor - 1]
    BY <2>0, <2>2, FloorFacts DEF Unsettled
  <2> HIDE DEF floor
  <2>7. CASE floor = SCAN
    BY <2>5, <2>7
  <2>8. CASE floor # SCAN
    <3>1. floor \in 2..4 /\ floor - 1 \in 1..3 /\ floor - 1 \in Phase /\ ~(floor - 1 >= floor)
      BY <2>6, <2>8, PhaseFacts DEF SCAN
    <3>2. now[floor - 1] = s.seen[floor - 1]
      BY <2>4, <3>1 DEF demotable_phases
    <3>3. s.held[floor - 1] => evidence_holds(floor - 1, now)
      <4>1. s.held[floor - 1] = evidence_holds(floor - 1, s.seen)
        BY <1>1, <3>1
      <4>2. evidence_holds(floor - 1, s.seen) = evidence_holds(floor - 1, now)
        BY <3>1, EvidenceOfDisk
      <4> QED  BY <4>1, <4>2
    <3> QED  BY <2>5, <2>6, <2>8, <3>2, <3>3
  <2> QED  BY <2>7, <2>8
<1>2. TypeOK /\ FloorKept /\ [Next]_vars
        => [s.pc = "demote" /\ s'.pc = "idle" /\ row' # row
              /\ (\A p \in Phase : evidence_holds(p, s.seen) = s.held[p])
              => LET new      == [p \in Phase |-> row'[p].status]
                     frontier == Min(Unsettled(new))
                 IN  \/ frontier = SCAN
                     \/ new[frontier - 1] \in HardStops
                     \/ evidence_holds(frontier - 1, new)]_vars
  BY <1>1
<1> QED  BY <1>2, FloorAlways, TypeInvariant, PTL DEF Spec, FloorIsSound
=============================================================================
