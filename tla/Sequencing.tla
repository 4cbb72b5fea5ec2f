----------------------------- MODULE Sequencing -----------------------------
(***************************************************************************)
(* `fleet sequence` (cli.py, _sequence_impl) beside `fleet scan`.  The     *)
(* command reads contracts, nodes, edges and gated repos one statement at  *)
(* a time, computes the plan, and writes it in eight transactions: hoisted *)
(* contracts, rejected ones, forbidden ones, override findings, the waves, *)
(* findings, the contracts' edges, collisions.  Then it reads everything   *)
(* again and judges its own result by the four exit criteria.  It may die  *)
(* between any two of these steps, and a scan may run at the same time.    *)
(***************************************************************************)
EXTENDS Scan

CONSTANTS MaxSequences   \* `fleet sequence` commands

VARIABLES seq,           \* the sequencing process, see FirstSeq
          plan,          \* what it wrote, see NoPlan
          sequences

vars == <<world, row, owed, tables, edges, contracts, scan, scans, faults,
          seq, plan, sequences>>

\* members     wave_members: node |-> wave
\* cycles      the CycleDetected findings
\* notShared   the ContractNotShared findings
\* overrides   the ContractHoistOverride findings
\* collisions  unresolved collisions of severity 'error'
NoPlan == [members |-> <<>>, cycles |-> {}, notShared |-> {}, overrides |-> {},
           collisions |-> {}]

\* forbid    --forbid-hoist, forced --force-resequence
\* C, N, E   contracts, nodes and edges as read
\* report    what break_cycles returns
\* gated     the repos gated when the waves were assigned
\* waves     what assign_waves returns
\* claims    coordinate claims as read
\* calm      no other process has written since the command started
\* outcome   of the last command
NoReport == [E |-> {}, N |-> {}, committed |-> {}, rejected |-> {}, res |-> {}, raised |-> FALSE]
FirstSeq == [pc |-> "idle", forbid |-> {}, C |-> {}, N |-> {}, E |-> {}, report |-> NoReport,
             gated |-> {}, waves |-> <<>>, claims |-> {}, calm |-> TRUE, outcome |-> "none"]
Ended(outcome) == [FirstSeq EXCEPT !.outcome = outcome]

Init == ScanInit /\ seq = FirstSeq /\ plan = NoPlan /\ sequences = 0

Committed == {"HOISTED", "MIGRATED"}
Seeded == {r \in Repos : row[r] # "ABSENT"}

\* _in_flight_repos
InFlight == {r \in Seeded : row[r] \notin {"PENDING", "SKIPPED", "SUCCEEDED"}}

\* _sequence_contracts
SequenceContracts == contracts

\* _graph_nodes
GraphNodes == Seeded \cup {c.id : c \in {x \in contracts : x.status \in Committed}}

\* _graph_edges
GraphEdges ==
  {e \in edges : e.dst \in Repos \/ \E c \in contracts : c.id = e.dst /\ c.status \in Committed}

\* _gated_repos
GatedRepos == {r \in Repos : row[r] \in {"SKIPPED", "RHI"}}

-----------------------------------------------------------------------------
(* Reading and planning *)

\* Another process's step ends the calm.
Aside == UNCHANGED <<world, row, owed, tables, edges, scan, scans>>

\* The flags the command honours: --forbid-hoist and --force-resequence.
Forbids == {{}, {c.id : c \in world.idl}}

\* The refusals, then the contracts.
SeqStart(forbid, forced) ==
  /\ seq.pc = "idle" /\ sequences < MaxSequences
  /\ Seeded # {}
  /\ InFlight = {} \/ forced
  /\ plan.collisions = {}
  /\ seq' = [FirstSeq EXCEPT !.pc = "nodes", !.forbid = forbid, !.C = SequenceContracts,
                             !.outcome = "running"]
  /\ sequences' = sequences + 1
  /\ Aside /\ UNCHANGED <<contracts, plan, faults>>

ReadNodes ==
  /\ seq.pc = "nodes"
  /\ seq' = [seq EXCEPT !.pc = "edges", !.N = GraphNodes]
  /\ Aside /\ UNCHANGED <<contracts, plan, sequences, faults>>

\* build_graph and break_cycles; a MANUAL component ends the command.
Reported(E, report) ==
  IF report.raised \/ ManualMembers(report) # {} THEN Ended("failed")
  ELSE [seq EXCEPT !.pc = "gated", !.E = E, !.report = report]

ReadEdges ==
  /\ seq.pc = "edges"
  /\ seq' = Reported(GraphEdges, BreakCycles(seq.N, GraphEdges, seq.C, seq.forbid))
  /\ Aside /\ UNCHANGED <<contracts, plan, sequences, faults>>

\* Repos that claim one coordinate for two ecosystems; no config resolves it.
Claims == IF world.clash \subseteq tables.manifests THEN world.clash ELSE {}

ReadGated ==
  /\ seq.pc = "gated"
  /\ seq' = IF Cyclic(seq.report, GatedRepos)
            THEN Ended("failed")
            ELSE [seq EXCEPT !.pc = "hoisted", !.gated = GatedRepos,
                             !.waves = AssignWaves(seq.report, GatedRepos),
                             !.claims = Claims]
  /\ Aside /\ UNCHANGED <<contracts, plan, sequences, faults>>

-----------------------------------------------------------------------------
(* Writing, one transaction each *)

\* UPDATE contracts SET status = s WHERE the id is one of ids.
Marked(ids, s) == {IF c.id \in ids THEN [c EXCEPT !.status = s] ELSE c : c \in contracts}

PreCommitted == {c.id : c \in {x \in seq.C : x.status \in Committed}}

MarkHoisted ==
  /\ seq.pc = "hoisted"
  /\ contracts' = Marked(seq.report.committed \ PreCommitted, "HOISTED")
  /\ seq' = [seq EXCEPT !.pc = "rejected"]
  /\ Aside /\ UNCHANGED <<plan, sequences, faults>>

MarkRejected ==
  /\ seq.pc = "rejected"
  /\ contracts' = Marked(seq.report.rejected, "REJECTED")
  /\ seq' = [seq EXCEPT !.pc = "forbidden"]
  /\ Aside /\ UNCHANGED <<plan, sequences, faults>>

\* The ids forbidden by a flag, and the ones forbidden before.
Forbidden == seq.forbid \cup {c.id : c \in {x \in seq.C : x.status = "FORBIDDEN"}}

MarkForbidden ==
  /\ seq.pc = "forbidden"
  /\ contracts' = Marked({c.id : c \in {x \in contracts : x.id \in Forbidden /\ x.ext}},
                         "FORBIDDEN")
  /\ seq' = [seq EXCEPT !.pc = "overrides"]
  /\ Aside /\ UNCHANGED <<plan, sequences, faults>>

RecordOverrides ==
  /\ seq.pc = "overrides"
  /\ plan' = [plan EXCEPT !.overrides = Forbidden]
  /\ seq' = [seq EXCEPT !.pc = "record"]
  /\ Aside /\ UNCHANGED <<contracts, sequences, faults>>

\* Mutant: a node that has a wave keeps it.
Recorded_Once(members, waves) == members @@ waves

\* record_plan: an upsert; no member is ever deleted.
Recorded(members, waves) ==
  [n \in DOMAIN waves \cup DOMAIN members |->
     IF n \in DOMAIN waves THEN waves[n] ELSE members[n]]

RecordPlan ==
  /\ seq.pc = "record"
  /\ plan' = [plan EXCEPT !.members = Recorded(@, seq.waves)]
  /\ seq' = [seq EXCEPT !.pc = "cycles"]
  /\ Aside /\ UNCHANGED <<contracts, sequences, faults>>

RecordCycles ==
  /\ seq.pc = "cycles"
  /\ plan' = [plan EXCEPT !.cycles = seq.report.res]
  /\ seq' = [seq EXCEPT !.pc = "not_shared"]
  /\ Aside /\ UNCHANGED <<contracts, sequences, faults>>

RecordNotShared ==
  /\ seq.pc = "not_shared"
  /\ plan' = [plan EXCEPT !.notShared = seq.report.rejected]
  /\ seq' = [seq EXCEPT !.pc = "contract_edges"]
  /\ Aside /\ UNCHANGED <<contracts, sequences, faults>>

EdgeKey(e) == [e EXCEPT !.conf = 0, !.sup = FALSE]

\* insert_edges of the contracts' edges: an upsert by edge key.
ContractEdgesOf(report) == {e \in report.E : e.kind \in {"CONTRACT_IMPL", "CONTRACT_CONSUME"}}

WriteContractEdges ==
  /\ seq.pc = "contract_edges"
  /\ LET new == ContractEdgesOf(seq.report)
     IN  edges' = {e \in edges : EdgeKey(e) \notin {EdgeKey(n) : n \in new}} \cup new
  /\ seq' = [seq EXCEPT !.pc = "collisions"]
  /\ UNCHANGED <<world, row, owed, tables, contracts, scan, scans, plan, sequences, faults>>

\* audit_collisions; a blocking collision ends the command.
AuditCollisions ==
  /\ seq.pc = "collisions"
  /\ plan' = [plan EXCEPT !.collisions = @ \cup seq.claims]
  /\ seq' = IF seq.claims # {} THEN Ended("failed") ELSE [seq EXCEPT !.pc = "exit"]
  /\ Aside /\ UNCHANGED <<contracts, sequences, faults>>

-----------------------------------------------------------------------------
(* The exit criteria *)

Planned == DOMAIN seq.waves

\* Every repo was read, or has a reason not to have been.
CriterionA ==
  \A r \in Seeded : r \in tables.manifests \/ Skipped(r) \/ <<r, "EmptyRepo">> \in tables.findings

\* _exemptions_for
Exemptions(r) ==
  {x \in {"config-skipped", "baseline-red", "preflight-gated"} :
     /\ row[r] = "SKIPPED"
     /\ CASE x = "config-skipped" -> Skipped(r)
          [] x = "baseline-red" -> <<r, "BaselineRed">> \in tables.findings /\ r \in tables.red
          [] x = "preflight-gated" -> <<r, "EmptyRepo">> \in tables.findings}

\* The plan holds as many repos as are not gated, the missing ones have one
\* exemption each, and it holds as many contracts as are committed.
CriterionC ==
  /\ Cardinality(Seeded \ GatedRepos) = Cardinality(Planned \cap Repos)
  /\ \A r \in Seeded \ Planned : Cardinality(Exemptions(r)) = 1
  /\ Cardinality({c \in contracts : c.status \in Committed}) = Cardinality(Planned \ Repos)

\* Every edge's evidence is a file of its repo.
CriterionD == \A e \in seq.report.E : e.src \in tables.blobs

CriteriaHold ==
  CriterionA /\ CriterionB(seq.report, seq.waves) /\ CriterionC /\ CriterionD

CheckCriteria ==
  /\ seq.pc = "exit"
  /\ seq' = IF CriteriaHold THEN [seq EXCEPT !.pc = "idle", !.outcome = "ok"] ELSE Ended("failed")
  /\ Aside /\ UNCHANGED <<contracts, plan, sequences, faults>>

SeqCrash ==
  /\ seq.pc # "idle" /\ faults < MaxFaults
  /\ faults' = faults + 1
  /\ seq' = Ended("crashed")
  /\ Aside /\ UNCHANGED <<contracts, plan, sequences>>

SeqNext ==
  \/ \E forbid \in Forbids, forced \in BOOLEAN : SeqStart(forbid, forced)
  \/ ReadNodes \/ ReadEdges \/ ReadGated
  \/ MarkHoisted \/ MarkRejected \/ MarkForbidden \/ RecordOverrides \/ RecordPlan
  \/ RecordCycles \/ RecordNotShared \/ WriteContractEdges \/ AuditCollisions
  \/ CheckCriteria \/ SeqCrash

\* A scan's step beside the sequencing process.
ScanStep ==
  /\ ScanNext
  /\ seq' = [seq EXCEPT !.calm = FALSE]
  /\ UNCHANGED <<plan, sequences>>

Next == SeqNext \/ ScanStep

Spec == Init /\ [][Next]_vars
-----------------------------------------------------------------------------
(* Properties *)

Writing == seq.pc \notin {"idle", "nodes", "edges", "gated"}

\* Every ordering edge the command read is honoured by the plan or accounted
\* for: its target is in an earlier wave, or both ends are in one atomic
\* component, or it was broken inside a component that a cycle finding names
\* (a later hoist may have turned it since), or it was turned towards a
\* contract that is in an earlier wave; an edge of a gated repo says nothing.
\* And the plan holds every node read that was not gated.  About break_cycles,
\* condense_for_ordering and assign_waves.
EdgesAccounted ==
  Writing =>
    LET w == seq.waves
        earlier(d, s) == w[d] < w[s]
        atomic(e) == \E m \in AtomicMembers(seq.report) : {e.src, e.dst} \subseteq m
        cut(e) == [e EXCEPT !.sup = TRUE]
        broken(e) ==
          /\ cut(e) \in seq.report.E \/ \E c \in seq.C : Retarget(cut(e), c) \in seq.report.E
          /\ \E r \in seq.report.res : r.broken > 0 /\ {e.src, e.dst} \subseteq r.members
        turned(e) == \E c \in seq.C :
                       /\ Retarget(e, c) \in seq.report.E
                       /\ c.id \in DOMAIN w /\ earlier(c.id, e.src)
    IN  /\ seq.N \ seq.gated \subseteq DOMAIN w
        /\ \A e \in {x \in seq.E : OrdersMigration(x)
                                   /\ {x.src, x.dst} \subseteq DOMAIN w \ seq.gated} :
             earlier(e.dst, e.src) \/ atomic(e) \/ broken(e) \/ turned(e)

SamePlan(again) ==
  /\ ~again.raised /\ ~Cyclic(again, GatedRepos)
  /\ AssignWaves(again, GatedRepos) = seq.waves

\* Planning again from what is on disk gives the plan in hand, as long as
\* nobody else writes and nothing was forbidden.  `fleet sequence` twice must
\* leave contracts and wave_members as they are (docs/SPEC.md:7830, and
\* cli.py:3997).  The code does not keep this, and no run has it: a replan has
\* every hoist in place and starts max_hoists_per_scc from nothing, so it
\* hoists the next contract of a component that wanted several.  TLC finds it
\* in MCSequencing!TwoContracts with MaxHoists = 1, without a fault.
ReplanConverges ==
  (Writing /\ seq.calm /\ seq.forbid = {}) =>
    SamePlan(BreakCycles(GraphNodes, GraphEdges, contracts, {}))

\* When the command has reported success and nobody has written since, the
\* tables hold all of its plan: every ungated repo and every committed
\* contract has the planned wave, every committed contract's carriers point
\* at it, and it precedes every ungated repo that has an edge to it.
SequencedIsComplete ==
  (seq.pc = "idle" /\ seq.outcome = "ok" /\ seq.calm) =>
    /\ \A n \in DOMAIN seq.waves : n \in DOMAIN plan.members /\ plan.members[n] = seq.waves[n]
    /\ Seeded \ GatedRepos \subseteq DOMAIN seq.waves
    /\ \A c \in {x \in contracts : x.status \in Committed} :
         /\ c.id \in DOMAIN plan.members
         /\ ContractEdges(c) \subseteq edges
         /\ \A e \in edges : (e.dst = c.id /\ e.src \in DOMAIN seq.waves \ GatedRepos) =>
                              plan.members[c.id] < plan.members[e.src]

\* Once a scan has written its edges, whatever scans died before it, every
\* dependency between two SUCCEEDED repos has one: what a finished scan of a
\* repo saw is not lost.  (An import of a declared dependency has none of its
\* own.)
EvidenceKept ==
  scan.pc = "blobs" =>
    \A d \in world.deps :
      ({row[d.src], row[d.dst]} = {"SUCCEEDED"} /\ ~Declared(world.deps, d)) =>
        \E e \in edges : e.src = d.src /\ d.dst \in {e.dst, e.from}

\* After a successful command the contracts in wave_members are the committed
\* ones.
MembersMatchContracts ==
  (seq.pc = "idle" /\ seq.outcome = "ok" /\ seq.calm) =>
    DOMAIN plan.members \ Repos = {c.id : c \in {x \in contracts : x.status \in Committed}}
=============================================================================
