----------------------------- MODULE FleetGraph -----------------------------
(***************************************************************************)
(* The pure half of `fleet sequence`: the fleet graph (graph/build.py),    *)
(* what dissolves its cycles (graph/cycles.py) and the waves               *)
(* (graph/sequence.py).  No state: every operator is a function of nodes,  *)
(* edges and contracts.                                                    *)
(*                                                                         *)
(* Nodes are integers and contracts are smaller than repos, as             *)
(* ("CONTRACT", id) sorts before ("REPO", id).  An edge is a record        *)
(*   src, dst   its ends                                                   *)
(*   kind       EdgeKind                                                   *)
(*   conf       confidence in percent                                      *)
(*   path       the contract that lists the evidence path for src, if any  *)
(*   from       retargeted_from_repo_id, or None                           *)
(*   sup        ordering_suppressed                                        *)
(* and all of it but conf and sup is its edge_key.  A contract is a record *)
(*   id, owner, carriers (repos that hold a copy of its files),            *)
(*   consumers (repos the scan counts), ext (extractable) and status.      *)
(* One repo owns a coordinate, so no edge is ever `ambiguous`.             *)
(*                                                                         *)
(* A loop of the code is a recursive function over the number of its       *)
(* rounds, whose value stays what it is once the loop's condition fails.   *)
(***************************************************************************)
EXTENDS Integers, FiniteSets, Sequences, SequencesExt

CONSTANTS None,          \* no repo, no path, no edge
          MaxHoists,     \* graph.max_hoists_per_scc
          MaxBreaks,     \* graph.max_breaks_per_scc
          Threshold,     \* graph.scc_atomic_threshold
          HardMax,       \* graph.scc_hard_max
          MinConsumers   \* scan.contracts.min_consumers

ASSUME GraphAssumption == MaxHoists \in Nat /\ MaxBreaks \in Nat

MinConfidence == 50
StrongDeclared == 95

\* The kinds that order a migration (dag_edge_kinds; DYNAMIC_REF, of rank 0,
\* is not one), ranked: the lower the rank, the sooner an edge is broken.
KindRank == [API_CONTRACT |-> 1, INTERNAL_IMPORT |-> 2, PUBLISHED_ARTIFACT |-> 3,
             DECLARED_DEP |-> 4, CONTRACT_CONSUME |-> 5, CONTRACT_IMPL |-> 6]

\* The least element and the order of tuples of integers.
Least(S) == CHOOSE x \in S : \A y \in S : x <= y
Before(a, b) == \E i \in DOMAIN a : a[i] < b[i] /\ \A j \in 1 .. i - 1 : a[j] = b[j]
Ascending(S) == SetToSortSeq(S, <)

-----------------------------------------------------------------------------
(* graph/build.py *)

OrdersMigration(e) ==
  e.kind \in DOMAIN KindRank /\ ~e.sup /\ e.conf >= MinConfidence

\* build_graph raises on an edge whose end is not a node of the fleet.
Dangling(N, E) == \E e \in E : {e.src, e.dst} \ N # {}

\* G and G_dag; G_rev and G_order are their converses.
G(E) == {<<e.src, e.dst>> : e \in E}
G_dag(E) == {<<e.src, e.dst>> : e \in {x \in E : OrdersMigration(x)}}

\* What can be reached from n along the arcs: what every closed set that
\* holds n holds.
Ends(A) == {a[1] : a \in A} \cup {a[2] : a \in A}
Closed(A, S) == \A a \in A : a[1] \in S => a[2] \in S
Reach(A, n) ==
  LET closed == {S \in SUBSET (Ends(A) \cup {n}) : n \in S /\ Closed(A, S)}
  IN  {m \in Ends(A) \cup {n} : \A S \in closed : m \in S}

\* Everything reachable from n, n itself aside.
Descendants(A, n) == Reach(A, n) \ {n}
Dependents(E, n) == Descendants({<<a[2], a[1]>> : a \in G(E)}, n)

-----------------------------------------------------------------------------
(* graph/cycles.py: components, feedback edges and what breaking one costs *)

NontrivialSccs(A) ==
  LET ends == {a[1] : a \in A} \cap {a[2] : a \in A}
      scc(n) == {m \in Reach(A, n) : n \in Reach(A, m)}
  IN  {c \in {scc(n) : n \in ends} : Cardinality(c) > 1}

\* What is left of an SCC: the component that shares most members with it.
\* A component holds repos only, as nothing leads out of a contract.
LiveComponent(A, members) ==
  LET shared(c) == Cardinality(c \cap members)
      live == {c \in NontrivialSccs(A) : shared(c) >= 2}
      most == {c \in live : \A d \in live : shared(d) <= shared(c)}
  IN  IF live = {} THEN {}
      ELSE CHOOSE c \in most : \A d \in most : Least(c) <= Least(d)

ComponentSize(A, n) ==
  IF \E c \in NontrivialSccs(A) : n \in c
  THEN Cardinality(CHOOSE c \in NontrivialSccs(A) : n \in c) ELSE 1

\* The BACK edges of classify_intra_scc_edges: a depth-first search of the
\* component, children in ascending order; `gray` holds the nodes on the stack.
BackArcs(A, inside) ==
  LET children(n) == Ascending({c \in inside : <<n, c>> \in A})
      Search == [seen : SUBSET inside, gray : SUBSET inside, back : SUBSET (inside \X inside)]
      dfs[st \in Search, n \in inside] ==
        LET step(s, c) == IF c \notin s.seen THEN dfs[s, c]
                          ELSE IF c \in s.gray THEN [s EXCEPT !.back = @ \cup {<<n, c>>}]
                          ELSE s
            entered == [st EXCEPT !.seen = @ \cup {n}, !.gray = @ \cup {n}]
        IN  [FoldLeft(step, entered, children(n)) EXCEPT !.gray = @ \ {n}]
      visit(s, n) == IF n \in s.seen THEN s ELSE dfs[s, n]
  IN  FoldLeft(visit, [seen |-> {}, gray |-> {}, back |-> {}], Ascending(inside)).back

FeedbackEdges(E, inside) ==
  LET back == BackArcs(G_dag(E), inside)
  IN  {e \in E : OrdersMigration(e) /\ {e.src, e.dst} \subseteq inside
                 /\ <<e.src, e.dst>> \in back}

\* The edge key only breaks ties; any total order of the edges stands for it.
BreakCost(e, E) ==
  <<e.conf, KindRank[e.kind], Cardinality(Dependents(E, e.dst)), e.src, e.dst>>

Cheapest(S, E) ==
  CHOOSE e \in S : \A f \in S \ {e} : ~Before(BreakCost(f, E), BreakCost(e, E))

Suppress(E, e) == (E \ {e}) \cup {[e EXCEPT !.sup = TRUE]}

-----------------------------------------------------------------------------
(* graph/cycles.py and graph/infer.py: contracts as nodes *)

\* infer_contract_edges: the owner implements, every consumer that holds a
\* copy consumes.
ContractEdges(c) ==
  LET edge(r, k, p) == [src |-> r, dst |-> c.id, kind |-> k, conf |-> p,
                        path |-> c.id, from |-> None, sup |-> FALSE]
  IN  {edge(r, "CONTRACT_IMPL", 100) : r \in c.carriers \cap {c.owner}}
      \cup {edge(r, "CONTRACT_CONSUME", 85) : r \in (c.consumers \cap c.carriers) \ {c.owner}}

\* A repo edge whose evidence lies in a consumer's copy is turned towards the
\* contract, wherever it led.
Retarget(e, c) ==
  [e EXCEPT !.dst = c.id, !.kind = "CONTRACT_CONSUME", !.from = e.dst]

Listed(e, c) ==
  e.kind \notin {"CONTRACT_IMPL", "CONTRACT_CONSUME"}
  /\ e.path = c.id /\ e.src \in c.carriers \ {c.owner}

Materialize(E, C) ==
  LET moved == {e \in E : \E c \in C : Listed(e, c)}
      kept  == (E \ moved) \cup {Retarget(x[1], x[2]) : x \in {y \in moved \X C : Listed(y[1], y[2])}}
      known == {[e EXCEPT !.conf = 0, !.sup = FALSE] : e \in kept}
  IN  kept \cup {e \in UNION {ContractEdges(c) : c \in C} :
                   [e EXCEPT !.conf = 0] \notin known}

ConsumersOf(E, c) ==
  {e.src : e \in {x \in E : x.dst = c.id /\ x.kind = "CONTRACT_CONSUME"}}

\* The contract whose hoist shrinks the component most, then the one with the
\* least blast radius.
HoistScore(c, E) ==
  << ComponentSize(G_dag(Materialize(E, {c})), c.owner),
     Cardinality(c.consumers) + Cardinality(Dependents(E, c.owner)),
     c.id >>

BestHoist(remaining, E) ==
  CHOOSE c \in remaining : \A d \in remaining \ {c} : ~Before(HoistScore(d, E), HoistScore(c, E))

\* A contract too few repos hold a copy of is rejected, not hoisted.
Hoisted(st, c, after) ==
  IF Cardinality(ConsumersOf(after, c)) < MinConsumers
  THEN [st EXCEPT !.rejected = @ \cup {c}]
  ELSE [st EXCEPT !.E = after, !.hoisted = @ \cup {c}]

\* Hoist, best first, until the component dissolves.  st has the edges, the
\* hoisted and the rejected contracts.
HoistChosen(st, c) == Hoisted(st, c, Materialize(st.E, {c}))
HoistRound(st, members, candidates) ==
  LET remaining == candidates \ (st.hoisted \cup st.rejected)
  IN  IF remaining = {} \/ Cardinality(st.hoisted) >= MaxHoists
         \/ LiveComponent(G_dag(st.E), members) = {}
      THEN st ELSE HoistChosen(st, BestHoist(remaining, st.E))
HoistLoop(start, members, candidates) ==
  LET st[k \in 0 .. Cardinality(candidates)] ==
        IF k = 0 THEN start ELSE HoistRound(st[k - 1], members, candidates)
  IN  st[Cardinality(candidates)]

\* Nothing is hoisted unless all of it together would dissolve the component.
HoistAll(st, members, candidates) ==
  IF candidates = {} \/ LiveComponent(G_dag(Materialize(st.E, candidates)), members) # {}
  THEN st ELSE HoistLoop(st, members, candidates)

HoistContracts(E, members, C, forbidden) ==
  HoistAll([E |-> E, hoisted |-> {}, rejected |-> {}], members,
           {c \in C : c.owner \in members /\ c.status = "EXTRACTABLE" /\ c.id \notin forbidden})

-----------------------------------------------------------------------------
(* graph/cycles.py: one SCC, then all of them *)

IsAtomic(live, feedback) ==
  \/ Cardinality(live) > Threshold
  \/ /\ feedback # {}
     /\ \A e \in feedback : e.kind = "DECLARED_DEP" /\ e.conf >= StrongDeclared

\* Break feedback edges, cheapest first, until the component dissolves, is
\* atomic or has cost MaxBreaks.
BreakRound(st, members) ==
  LET live == LiveComponent(G_dag(st.E), members)
      feedback == FeedbackEdges(st.E, live)
  IN  IF live = {} \/ feedback = {} \/ IsAtomic(live, feedback) THEN st
      ELSE [E |-> Suppress(st.E, Cheapest(feedback, st.E)), broken |-> st.broken + 1]
BreakLoop(E, members) ==
  LET st[k \in 0 .. MaxBreaks] ==
        IF k = 0 THEN [E |-> E, broken |-> 0] ELSE BreakRound(st[k - 1], members)
  IN  st[MaxBreaks]

\* The resolution of one SCC.  st: E, committed and rejected (contract ids),
\* res (resolutions) and raised; h what hoisting did, b what breaking did.
Ids(S) == {c.id : c \in S}
Resolution(members, how, hoisted, broken) ==
  [members |-> members, how |-> how, hoisted |-> hoisted, broken |-> broken]

\* Hoisting alone dissolved it; a component that an earlier SCC's hoists
\* dissolved is an error.
Dissolved(st, members, h) ==
  IF h.hoisted = {} THEN [st EXCEPT !.raised = TRUE]
  ELSE [st EXCEPT !.E = h.E, !.committed = @ \cup Ids(h.hoisted),
                  !.rejected = @ \cup Ids(h.rejected),
                  !.res = @ \cup {Resolution(members, "CONTRACT_HOIST", Ids(h.hoisted), 0)}]

Broken(st, members, h, b) ==
  [st EXCEPT !.E = b.E, !.committed = @ \cup Ids(h.hoisted),
             !.rejected = @ \cup Ids(h.rejected),
             !.res = @ \cup {Resolution(members,
                                        IF LiveComponent(G_dag(b.E), members) = {}
                                        THEN "EDGE_BREAK" ELSE "ATOMIC_WAVE",
                                        Ids(h.hoisted), b.broken)}]

AfterHoists(st, members, h) ==
  IF LiveComponent(G_dag(h.E), members) = {} THEN Dissolved(st, members, h)
  ELSE Broken(st, members, h, BreakLoop(h.E, members))

ResolveScc(st, members, C, forbidden) ==
  IF Cardinality(members) > HardMax
  THEN [st EXCEPT !.res = @ \cup {Resolution(members, "MANUAL", {}, 0)}]
  ELSE AfterHoists(st, members,
         HoistContracts(st.E, members, {c \in C : c.id \notin st.committed}, forbidden))

\* The SCCs are listed once, after the committed contracts are in place, and
\* resolved in ascending order on the graph the ones before left behind.
NextScc(todo) == CHOOSE c \in todo : \A d \in todo : Least(c) <= Least(d)
SccRound(st, sccs, C, forbidden) ==
  LET todo == sccs \ {r.members : r \in st.res}
  IN  IF st.raised \/ todo = {} THEN st ELSE ResolveScc(st, NextScc(todo), C, forbidden)
BreakSccs(start, C, forbidden) ==
  LET sccs == NontrivialSccs(G_dag(start.E))
      st[k \in 0 .. Cardinality(sccs)] ==
        IF k = 0 THEN start ELSE SccRound(st[k - 1], sccs, C, forbidden)
  IN  st[Cardinality(sccs)]

BreakCommitted(N, E, C, forbidden, committed) ==
  BreakSccs([E |-> Materialize(E, committed), N |-> N, committed |-> Ids(committed),
             rejected |-> {}, res |-> {}, raised |-> Dangling(N, E)], C, forbidden)

\* The nodes of the result are the ones read and the committed contracts.
WithContracts(report) == [report EXCEPT !.N = @ \cup report.committed]

BreakCycles(N, E, C, forbidden) ==
  WithContracts(BreakCommitted(N, E, C, forbidden,
                               {c \in C : c.status \in {"HOISTED", "MIGRATED"}}))

-----------------------------------------------------------------------------
(* graph/sequence.py *)

AtomicMembers(report) == {r.members : r \in {x \in report.res : x.how = "ATOMIC_WAVE"}}
ManualMembers(report) == UNION {r.members : r \in {x \in report.res : x.how = "MANUAL"}}

\* An atomic component counts as one node, named by its least member.
Unit(report, n) ==
  IF \E m \in AtomicMembers(report) : n \in m
  THEN Least(CHOOSE m \in AtomicMembers(report) : n \in m) ELSE n

\* The ordering graph without the dropped nodes: their edges go with them.
CondenseForOrdering(report, excluded) ==
  LET dropped == ManualMembers(report) \cup excluded
      kept == report.N \ dropped
      arcs == {<<Unit(report, a[1]), Unit(report, a[2])>> :
                 a \in {b \in G_dag(report.E) : {b[1], b[2]} \cap dropped = {}}}
  IN  [N |-> {Unit(report, n) : n \in kept}, A |-> {a \in arcs : a[1] # a[2]}]

IsAcyclic(A) == NontrivialSccs(A) = {}

\* The longest way down to a node with no dependencies: the most nodes of a
\* chain below n.  It is 1 + the highest layer of its dependencies, if any.
Chain(A, S) == \A m, n \in S : m \in Reach(A, n) \/ n \in Reach(A, m)
Highest(S) == CHOOSE x \in S : \A y \in S : y <= x

\* Mutant: a node with dependencies is one above the lowest nodes.
Layer_Flat(A, n) == IF Descendants(A, n) = {} THEN 0 ELSE 1

Layer(A, n) ==
  Highest({Cardinality(S) : S \in {T \in SUBSET Descendants(A, n) : Chain(A, T)}})

\* The waves: every member of an atomic component shares its index, a gated
\* one too.
WavesOf(report, c) ==
  [n \in {m \in report.N : Unit(report, m) \in c.N} |-> Layer(c.A, Unit(report, n))]
AssignWaves(report, gated) == WavesOf(report, CondenseForOrdering(report, gated))

\* assign_waves raises when the condensation is still cyclic.
Cyclic(report, gated) == ~IsAcyclic(CondenseForOrdering(report, gated).A)

\* Criterion (b): what is still cyclic is what a resolution names, and the
\* members of an atomic component share a wave.
CriterionB(report, waves) ==
  /\ IsAcyclic(CondenseForOrdering(report, {}).A)
  /\ \A c \in NontrivialSccs(G_dag(report.E)) :
       LET members == c \ ManualMembers(report)
       IN  Cardinality(members) < 2 \/ \E r \in report.res : r.members = members
  /\ \A r \in report.res :
       /\ r.how = "CONTRACT_HOIST" => r.hoisted # {}
       /\ r.how = "EDGE_BREAK" => r.broken > 0
       /\ r.how = "ATOMIC_WAVE" =>
            /\ r.members \subseteq DOMAIN waves
            /\ Cardinality({waves[m] : m \in r.members}) = 1
=============================================================================
