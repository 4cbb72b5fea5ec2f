------------------------ MODULE HoistRollbackProofs ------------------------
(***************************************************************************)
(* Proofs about HoistRollback, for any number of overlapping `fleet build`  *)
(* commands: the integration mutex keeps everybody else off the branch from *)
(* the moment the tip is read again to the last commit of the series.      *)
(***************************************************************************)
EXTENDS HoistRollback, TLAPS

Busy   == {"stage", "commit"}
Fields == {"pc", "todo", "contract", "repos", "seen", "left", "tip"}

\* The frames of the commands are records, and the branch is a sequence.
Framed ==
  /\ cmd = [b \in Builds |-> cmd[b]]
  /\ \A b \in Builds : DOMAIN cmd[b] = Fields
  /\ \E S : branch \in Seq(S)

\* Whoever stages or commits holds the mutex.
Locked == \A b \in Builds : cmd[b].pc \in Busy => mutex = b

\* Since the series was tried, only its own reverts have reached the branch.
Tried(b) ==
  /\ cmd[b].tip \in Nat
  /\ \A i \in cmd[b].tip + 1 .. Len(branch) :
       branch[i].op = "revert" /\ branch[i].contract = cmd[b].contract

AllTried == \A b \in Builds : cmd[b].pc \in Busy => Tried(b)

IInv == Framed /\ Locked /\ AllTried

-----------------------------------------------------------------------------
(* Steps that leave the branch alone *)

\* A command moves, outside the locked part or out of it.
LEMMA Elsewhere ==
  ASSUME IInv, NEW b \in Builds, NEW m, cmd' = [cmd EXCEPT ![b] = m],
         DOMAIN m = Fields, m.pc \notin Busy, UNCHANGED branch,
         mutex' = mutex \/ mutex = b
  PROVE  IInv'
<1>1. /\ cmd'[b] = m /\ cmd' = [d \in Builds |-> cmd'[d]]
      /\ \A d \in Builds \ {b} : cmd'[d] = cmd[d]
  BY DEF IInv, Framed
<1>2. Framed'
  BY <1>1 DEF IInv, Framed
<1>3. ASSUME NEW d \in Builds, cmd'[d].pc \in Busy
      PROVE  mutex' = d /\ Tried(d)'
  <2>1. d # b /\ cmd'[d] = cmd[d]
    BY <1>1, <1>3
  <2>2. mutex = d /\ Tried(d)
    BY <1>3, <2>1 DEF IInv, Locked, AllTried
  <2> QED  BY <2>1, <2>2 DEF Tried
<1> QED  BY <1>2, <1>3 DEF IInv, Locked, AllTried

\* Nobody moves, and the branch and the mutex stay.
LEMMA Aside ==
  ASSUME IInv, UNCHANGED <<cmd, branch, mutex>>
  PROVE  IInv'
BY DEF IInv, Framed, Locked, AllTried, Tried

\* A commit lands while nobody holds the mutex.
LEMMA Unlocked ==
  ASSUME IInv, mutex = Nobody, NEW e, branch' = Append(branch, e),
         UNCHANGED <<cmd, mutex>>
  PROVE  IInv'
<1>1. \E S : branch' \in Seq(S)
  <2>1. PICK S : branch \in Seq(S)
    BY DEF IInv, Framed
  <2>2. branch \in Seq(S \cup {e})
    BY <2>1
  <2>3. branch' \in Seq(S \cup {e})
    BY <2>2
  <2> QED  BY <2>3
<1>2. \A b \in Builds : cmd[b].pc \notin Busy
  BY RollbackAssumption DEF IInv, Locked
<1> QED  BY <1>1, <1>2 DEF IInv, Framed, Locked, AllTried

\* A command goes to another place and keeps the rest of its frame.
LEMMA GotoKeeps ==
  ASSUME IInv, NEW b \in Builds, NEW pc, pc \notin Busy, Goto(b, pc),
         UNCHANGED branch, mutex' = mutex \/ mutex = b
  PROVE  IInv'
<1> DEFINE m == [cmd[b] EXCEPT !.pc = pc]
<1>1. DOMAIN cmd[b] = Fields /\ cmd' = [cmd EXCEPT ![b] = m]
  BY DEF IInv, Framed, Goto
<1>2. DOMAIN m = Fields /\ m.pc = pc
  BY <1>1 DEF Fields
<1> HIDE DEF m
<1> QED  BY <1>1, <1>2, Elsewhere

-----------------------------------------------------------------------------
(* The locked part *)

LEMMA LockKeeps ==
  ASSUME IInv, NEW b \in Builds, Lock(b)
  PROVE  IInv'
<1>1. CASE Unmoved(b)
  <2> DEFINE m == [cmd[b] EXCEPT !.pc = "stage"]
  <2>1. /\ mutex = Nobody /\ mutex' = b /\ cmd' = [cmd EXCEPT ![b] = m]
        /\ UNCHANGED branch /\ DOMAIN cmd[b] = Fields /\ cmd = [d \in Builds |-> cmd[d]]
    BY <1>1 DEF Lock, Goto, git, IInv, Framed
  <2>2. /\ DOMAIN m = Fields /\ m.pc = "stage" /\ m.tip = cmd[b].tip
        /\ m.contract = cmd[b].contract
    BY <2>1 DEF Fields
  <2> HIDE DEF m
  <2>3. /\ cmd'[b] = m /\ cmd' = [d \in Builds |-> cmd'[d]]
        /\ \A d \in Builds \ {b} : cmd'[d] = cmd[d]
    BY <2>1
  <2>4. Framed'
    BY <2>1, <2>2, <2>3 DEF IInv, Framed
  <2>5. \A d \in Builds : cmd[d].pc \notin Busy
    BY <2>1, RollbackAssumption DEF IInv, Locked
  <2>6. Len(branch) \in Nat
    BY DEF IInv, Framed
  <2>7. Tried(b)'
    <3>1. cmd'[b].tip = Len(branch)
      BY <1>1, <2>2, <2>3 DEF Unmoved
    <3>2. Len(branch) + 1 .. Len(branch) = {}
      BY <2>6
    <3> QED  BY <2>1, <2>6, <3>1, <3>2 DEF Tried
  <2>8. Locked' /\ AllTried'
    BY <2>1, <2>3, <2>5, <2>7 DEF Locked, AllTried
  <2> QED  BY <2>4, <2>8 DEF IInv
<1>2. CASE ~Unmoved(b)
  BY <1>2, GotoKeeps DEF Lock, git, Busy
<1> QED  BY <1>1, <1>2

LEMMA StageKeeps ==
  ASSUME IInv, NEW b \in Builds, Stage(b)
  PROVE  IInv'
<1> DEFINE m == [cmd[b] EXCEPT !.pc = "commit"]
<1>1. /\ cmd[b].pc \in Busy /\ UNCHANGED <<branch, mutex>> /\ cmd' = [cmd EXCEPT ![b] = m]
      /\ DOMAIN cmd[b] = Fields /\ cmd = [d \in Builds |-> cmd[d]]
  BY DEF Stage, At, Goto, Busy, IInv, Framed
<1>2. DOMAIN m = Fields /\ m.tip = cmd[b].tip /\ m.contract = cmd[b].contract
  BY <1>1 DEF Fields
<1> HIDE DEF m
<1>3. /\ cmd'[b] = m /\ cmd' = [d \in Builds |-> cmd'[d]]
      /\ \A d \in Builds \ {b} : cmd'[d] = cmd[d]
  BY <1>1
<1>4. Framed'
  BY <1>1, <1>2, <1>3 DEF IInv, Framed
<1>5. mutex = b /\ Tried(b)
  BY <1>1 DEF IInv, Locked, AllTried
<1>6. Tried(b)' /\ mutex' = b
  BY <1>1, <1>2, <1>3, <1>5 DEF Tried
<1>7. \A d \in Builds \ {b} : cmd'[d].pc \notin Busy
  BY <1>3, <1>5 DEF IInv, Locked
<1> QED  BY <1>4, <1>6, <1>7 DEF IInv, Locked, AllTried

LEMMA CommitRevertKeeps ==
  ASSUME IInv, NEW b \in Builds, CommitRevert(b)
  PROVE  IInv'
<1>1. cmd[b].pc \in Busy /\ mutex = b /\ Tried(b) /\ DOMAIN cmd[b] = Fields
      /\ cmd = [d \in Builds |-> cmd[d]]
  BY DEF CommitRevert, At, Busy, IInv, Locked, AllTried, Framed
<1>2. CASE index = {}
  BY <1>1, <1>2, GotoKeeps DEF CommitRevert, Release, git, Busy
<1>3. CASE index # {}
  <2> DEFINE last == Len(cmd[b].left) = 1
             pc == IF last THEN "next" ELSE "stage"
             m == [cmd[b] EXCEPT !.left = Tail(cmd[b].left), !.pc = pc]
             e == [op |-> "revert", of |-> Head(cmd[b].left),
                   contract |-> cmd[b].contract, undoes |-> index]
  <2>1. /\ branch' = Append(branch, e) /\ cmd' = [cmd EXCEPT ![b] = m]
        /\ mutex' = IF last THEN Nobody ELSE mutex
    BY <1>1, <1>3 DEF CommitRevert
  <2>2. /\ DOMAIN m = Fields /\ m.tip = cmd[b].tip /\ m.contract = cmd[b].contract
        /\ m.pc = pc
    BY <1>1 DEF Fields
  <2>3. e.op = "revert" /\ e.contract = cmd[b].contract
    OBVIOUS
  <2> HIDE DEF m, e
  <2>4. /\ cmd'[b] = m /\ cmd' = [d \in Builds |-> cmd'[d]]
        /\ \A d \in Builds \ {b} : cmd'[d] = cmd[d]
    BY <1>1, <2>1
  <2>5. PICK S : branch \in Seq(S) /\ branch \in Seq(S \cup {e})
    <3>1. PICK S : branch \in Seq(S)
      BY DEF IInv, Framed
    <3> QED  BY <3>1
  <2>6. /\ branch' \in Seq(S \cup {e}) /\ Len(branch) \in Nat
        /\ Len(branch') = Len(branch) + 1 /\ branch'[Len(branch) + 1] = e
        /\ \A i \in 1 .. Len(branch) : branch'[i] = branch[i]
    BY <2>1, <2>5
  <2>7. Framed'
    BY <1>1, <2>2, <2>4, <2>6 DEF IInv, Framed
  <2>8. Tried(b)'
    <3>1. cmd'[b].tip = cmd[b].tip /\ cmd'[b].contract = cmd[b].contract
          /\ cmd[b].tip \in Nat
      BY <1>1, <2>2, <2>4 DEF Tried
    <3>2. ASSUME NEW i \in cmd[b].tip + 1 .. Len(branch')
          PROVE  branch'[i].op = "revert" /\ branch'[i].contract = cmd[b].contract
      <4>1. i = Len(branch) + 1 \/ (i \in cmd[b].tip + 1 .. Len(branch) /\ i \in 1 .. Len(branch))
        BY <2>6, <3>1
      <4> QED  BY <1>1, <2>3, <2>6, <4>1 DEF Tried
    <3> QED  BY <3>1, <3>2 DEF Tried
  <2>9. \A d \in Builds \ {b} : cmd'[d].pc \notin Busy
    BY <1>1, <2>4 DEF IInv, Locked
  <2>10. cmd'[b].pc \in Busy => mutex' = b
    BY <1>1, <2>1, <2>2, <2>4 DEF Busy
  <2> QED  BY <2>7, <2>8, <2>9, <2>10 DEF IInv, Locked, AllTried
<1> QED  BY <1>2, <1>3

LEMMA IdleFrame == DOMAIN Idle = Fields /\ Idle.pc \notin Busy
BY DEF Idle, Fields, Busy

LEMMA CrashKeeps ==
  ASSUME IInv, NEW b \in Builds, Crash(b)
  PROVE  IInv'
BY IdleFrame, Elsewhere DEF Crash, git

-----------------------------------------------------------------------------
(* The rest of a command *)

LEMMA WavesKeep ==
  ASSUME IInv, NEW b \in Builds, Start(b) \/ Waves(b) \/ WavesRaise(b) \/ DryRunFails(b)
  PROVE  IInv'
<1> USE DEF git, db, Busy
<1>1. DOMAIN cmd[b] = Fields /\ cmd = [d \in Builds |-> cmd[d]]
  BY DEF IInv, Framed
<1>2. CASE Start(b)
  BY <1>2, GotoKeeps DEF Start
<1>3. CASE WavesRaise(b)
  BY <1>3, IdleFrame, Elsewhere DEF WavesRaise
<1>4. CASE DryRunFails(b)
  BY <1>4, GotoKeeps DEF DryRunFails
<1>5. ASSUME NEW c \in Contracts, IngestContract(b, c) PROVE IInv'
  BY <1>5, Unlocked DEF IngestContract
<1>6. ASSUME NEW c \in Contracts, NEW r \in Repos, BuildBreaks(b, r, c) PROVE IInv'
  <2> DEFINE m == [cmd[b] EXCEPT !.pc = "finding", !.contract = c]
  <2>1. cmd' = [cmd EXCEPT ![b] = m] /\ UNCHANGED <<branch, mutex>>
    BY <1>1, <1>6 DEF BuildBreaks
  <2>2. DOMAIN m = Fields /\ m.pc = "finding"
    BY <1>1 DEF Fields
  <2> HIDE DEF m
  <2> QED  BY <2>1, <2>2, Elsewhere
<1>7. ASSUME NEW r \in Repos, BuildSucceeds(b, r) PROVE IInv'
  BY <1>7, Aside DEF BuildSucceeds
<1>8. CASE NoteBroke(b)
  BY <1>8, GotoKeeps DEF NoteBroke
<1> QED  BY <1>2, <1>3, <1>4, <1>5, <1>6, <1>7, <1>8 DEF Waves

LEMMA RollbackKeeps ==
  ASSUME IInv, NEW b \in Builds, Rollback(b)
  PROVE  IInv'
<1> USE DEF git, db, Busy
<1>1. DOMAIN cmd[b] = Fields /\ cmd = [d \in Builds |-> cmd[d]]
  BY DEF IInv, Framed
<1>2. ASSUME EndWaves(b) PROVE IInv'
  <2> DEFINE m == [cmd[b] EXCEPT !.pc = "next", !.todo = broke]
  <2>1. cmd' = [cmd EXCEPT ![b] = m] /\ UNCHANGED <<branch, mutex>>
    BY <1>1, <1>2 DEF EndWaves
  <2>2. DOMAIN m = Fields /\ m.pc = "next"
    BY <1>1 DEF Fields
  <2> HIDE DEF m
  <2> QED  BY <2>1, <2>2, Elsewhere
<1>3. ASSUME NextContract(b) PROVE IInv'
  <2> DEFINE c == Min(cmd[b].todo)
             m == [cmd[b] EXCEPT !.pc = "unhoist", !.contract = c, !.todo = cmd[b].todo \ {c}]
  <2>1. (cmd' = [cmd EXCEPT ![b] = Idle] \/ cmd' = [cmd EXCEPT ![b] = m])
        /\ UNCHANGED <<branch, mutex>>
    BY <1>3 DEF NextContract
  <2>2. DOMAIN m = Fields /\ m.pc = "unhoist"
    BY <1>1 DEF Fields
  <2> HIDE DEF m
  <2> QED  BY <2>1, <2>2, IdleFrame, Elsewhere
<1>4. ASSUME Refuse(b) PROVE IInv'
  BY <1>4, GotoKeeps DEF Refuse
<1>5. ASSUME FailContract(b) PROVE IInv'
  <2> DEFINE m == [cmd[b] EXCEPT !.pc = "demote", !.repos = Touching(cmd[b].contract)]
  <2>1. cmd' = [cmd EXCEPT ![b] = m] /\ UNCHANGED <<branch, mutex>>
    BY <1>1, <1>5 DEF FailContract
  <2>2. DOMAIN m = Fields /\ m.pc = "demote"
    BY <1>1 DEF Fields
  <2> HIDE DEF m
  <2> QED  BY <2>1, <2>2, Elsewhere
<1>6. ASSUME NEW r \in Repos, Observe(b, r) PROVE IInv'
  <2> DEFINE m == [cmd[b] EXCEPT !.seen = <<r, row[r]>>]
  <2>1. cmd' = [cmd EXCEPT ![b] = m] /\ UNCHANGED <<branch, mutex>> /\ cmd[b].pc = "demote"
    BY <1>1, <1>6 DEF Observe, At
  <2>2. DOMAIN m = Fields /\ m.pc = "demote"
    BY <1>1, <2>1 DEF Fields
  <2> HIDE DEF m
  <2> QED  BY <2>1, <2>2, Elsewhere
<1>7. ASSUME Demote(b) PROVE IInv'
  <2> DEFINE m == [cmd[b] EXCEPT !.seen = <<>>, !.repos = cmd[b].repos \ {cmd[b].seen[1]}]
  <2>1. cmd' = [cmd EXCEPT ![b] = m] /\ UNCHANGED <<branch, mutex>> /\ cmd[b].pc = "demote"
    BY <1>1, <1>7 DEF Demote, At
  <2>2. DOMAIN m = Fields /\ m.pc = "demote"
    BY <1>1, <2>1 DEF Fields
  <2> HIDE DEF m
  <2> QED  BY <2>1, <2>2, Elsewhere
<1>8. ASSUME Order(b) PROVE IInv'
  <2> DEFINE left == IF HoistMerge(cmd[b].contract) = {} THEN <<>>
                     ELSE Remaining(cmd[b].contract)
             pc == IF left = <<>> THEN "next" ELSE "dry"
             m == [cmd[b] EXCEPT !.left = left, !.pc = pc]
  <2>1. cmd' = [cmd EXCEPT ![b] = m] /\ UNCHANGED <<branch, mutex>>
    BY <1>1, <1>8 DEF Order
  <2>2. pc \in {"next", "dry"}
    OBVIOUS
  <2>3. DOMAIN m = Fields /\ m.pc = pc
    <3> HIDE DEF left, pc
    <3> QED  BY <1>1 DEF Fields
  <2> HIDE DEF m, pc
  <2> QED  BY <2>1, <2>2, <2>3, Elsewhere
<1>9. ASSUME DryRun(b) PROVE IInv'
  <2> DEFINE m == [cmd[b] EXCEPT !.tip = Len(branch), !.pc = "lock"]
  <2>1. cmd' = [cmd EXCEPT ![b] = m] /\ UNCHANGED <<branch, mutex>>
    BY <1>1, <1>9 DEF DryRun
  <2>2. DOMAIN m = Fields /\ m.pc = "lock"
    BY <1>1 DEF Fields
  <2> HIDE DEF m
  <2> QED  BY <2>1, <2>2, Elsewhere
<1> QED  BY <1>2, <1>3, <1>4, <1>5, <1>6, <1>7, <1>8, <1>9, LockKeeps, StageKeeps,
            CommitRevertKeeps DEF Rollback

LEMMA FleetKeeps ==
  ASSUME IInv, NEW r \in Repos, Fleet(r)
  PROVE  IInv'
<1>1. CASE Merge(r)
  BY <1>1, Unlocked DEF Merge
<1>2. CASE StartTransform(r) \/ FinishTransform(r) \/ Verify(r) \/ StubVerdict(r)
  BY <1>2, Aside DEF StartTransform, FinishTransform, Verify, StubVerdict, git
<1>3. ASSUME NEW p \in Phase, StubDegrade(r, p) \/ Retry(r, p)
      PROVE  IInv'
  BY <1>3, Aside DEF StubDegrade, Retry, git
<1> QED  BY <1>1, <1>2, <1>3 DEF Fleet

-----------------------------------------------------------------------------
LEMMA InitHolds == Init => IInv
<1> SUFFICES ASSUME Init PROVE IInv
  OBVIOUS
<1>1. \E S : branch \in Seq(S)
  <2>1. branch \in Seq({})
    BY DEF Init
  <2> QED  BY <2>1
<1> QED  BY <1>1, IdleFrame DEF Init, IInv, Framed, Locked, AllTried

LEMMA NextKeeps == IInv /\ [Next]_vars => IInv'
<1> SUFFICES ASSUME IInv, [Next]_vars PROVE IInv'
  OBVIOUS
<1>1. CASE UNCHANGED vars
  BY <1>1, Aside DEF vars, git
<1>2. ASSUME NEW r \in Repos, Fleet(r) PROVE IInv'
  BY <1>2, FleetKeeps
<1>3. ASSUME NEW b \in Builds,
             Start(b) \/ Waves(b) \/ Rollback(b) \/ WavesRaise(b) \/ DryRunFails(b) \/ Crash(b)
      PROVE  IInv'
  BY <1>3, WavesKeep, RollbackKeeps, CrashKeeps
<1> QED  BY <1>1, <1>2, <1>3 DEF Next

\* What execute_hoist_rollback commits is what it tried, for any number of
\* commands, contracts and faults: the mutex it holds from its second look
\* at the tip keeps merges, ingests and other rollbacks off the branch.
THEOREM TriedIsCommittedAlways == Spec => TriedIsCommitted
<1>1. IInv => \A b \in Builds :
                At(b, "commit") /\ Len(branch') > Len(branch)
                  => \A i \in cmd[b].tip + 1 .. Len(branch) :
                       branch[i].op = "revert" /\ branch[i].contract = cmd[b].contract
  BY DEF IInv, AllTried, Tried, At, Busy
<1> QED  BY <1>1, InitHolds, NextKeeps, PTL DEF Spec, TriedIsCommitted
=============================================================================
