-------------------------------- MODULE Scan --------------------------------
(***************************************************************************)
(* `fleet scan` (cli.py, workers/clone, interrogate, classify, baseline,   *)
(* symbolindex and contracts).  One wave over the fleet: a worker reads a  *)
(* repo, its result goes to the tables and to an in-memory evidence        *)
(* record, and the repo's SCAN row is marked.  After the wave the process  *)
(* gates repos, infers edges from the evidence it holds, lists blobs and   *)
(* rewrites the contracts, each in a transaction of its own.  The process  *)
(* may die anywhere, be told to stop, or overrun its deadline; `--only`    *)
(* scans one repo.  A SUCCEEDED row is never scanned again.                *)
(*                                                                         *)
(* What the repos hold is `world`, fixed for a behaviour:                  *)
(*   deps      [src, dst, via, path]: src needs what dst publishes, seen   *)
(*             in a manifest ("pinned", "open"), as an import ("import")   *)
(*             or as an API reference ("api"), at a path that is in src's  *)
(*             copy of a contract or None                                  *)
(*   odd       [repo, what]: a repo that is empty, whose native build is   *)
(*             red, that the config skips or that fails preflight          *)
(*   idl       contracts: [id, owner, carriers, refers, fit], fit whether  *)
(*             its files can be moved                                      *)
(*   clash     two repos that publish one coordinate as different          *)
(*             ecosystems                                                  *)
(***************************************************************************)
EXTENDS FleetGraph

CONSTANTS Repos, Worlds,
          Fleets,        \* the repos one `fleet scan` is asked to scan
          Cuts,          \* the units after which a dispatch may be cut short
          MaxScans,      \* `fleet scan` commands
          MaxFaults      \* crashes, stops, timeouts and failed attempts

\* What infer_edges and discover_contracts take for granted: a repo does not
\* depend on itself, and a contract is known by its id.
Via == {"pinned", "open", "import", "api"}
ASSUME ScanAssumption ==
  /\ Repos \subseteq Nat /\ IsFiniteSet(Repos) /\ None \notin Repos
  /\ Fleets \subseteq SUBSET Repos
  /\ \A w \in Worlds :
       /\ IsFiniteSet(w.deps) /\ IsFiniteSet(w.idl)
       /\ w.deps \subseteq [src : Repos, dst : Repos, via : Via, path : Nat \cup {None}]
       /\ w.idl \subseteq [id : Nat \ Repos, owner : Repos, carriers : SUBSET Repos,
                           refers : SUBSET Repos, fit : BOOLEAN]
       /\ \A d \in w.deps : d.src # d.dst
       /\ \A c, d \in w.idl : c.id = d.id => c = d

VARIABLES world,
          row,           \* SCAN row of a repo
          owed,          \* the first unit its checkpoint still owes
          tables,        \* what scanning wrote about the repos, see NoTables
          edges,         \* edges
          contracts,     \* contracts
          scan,          \* the scanning process, see IdleScan
          scans, faults

scanVars == <<world, row, owed, tables, edges, contracts, scan, scans, faults>>

Units == <<"clone", "interrogate", "classify", "symbolindex", "baseline">>
LastUnit == Len(Units)

\* Is a repo odd in this way?
Odd(r, what) == [repo |-> r, what |-> what] \in world.odd
Skipped(r) == Odd(r, "skip")

\* published   repos a coordinates row names as the owner
\* primary     repos with primary_coord_key
\* manifests   repos with a manifests row
\* symbols     repos whose symbols are indexed
\* blobs       repos with file_blobs rows
\* red         repos with baseline_ok = 0
\* findings    <<repo, kind>>
NoTables == [published |-> {}, primary |-> {}, manifests |-> {}, symbols |-> {},
             blobs |-> {}, red |-> {}, findings |-> {}]

\* fleet, and the evidence of this process: the dependencies, the repos whose
\* symbols it holds, the repos to gate; committed is the contracts it read;
\* done the results not yet marked on the rows; stop whether it drains.
IdleScan == [pc |-> "idle", fleet |-> {}, deps |-> {}, syms |-> {}, gated |-> {},
             red |-> {}, committed |-> {}, done |-> {}, stop |-> FALSE]

ScanInit ==
  /\ world \in Worlds
  /\ row = [r \in Repos |-> "ABSENT"]
  /\ owed = [r \in Repos |-> 1]
  /\ tables = NoTables /\ edges = {} /\ contracts = {}
  /\ scan = IdleScan /\ scans = 0 /\ faults = 0

-----------------------------------------------------------------------------
(* The command's start *)

\* _seed_fleet: a row for every repo asked for; a skipped one goes no further.
SeedRow(r) ==
  IF row[r] \in {"ABSENT", "PENDING"} /\ Skipped(r) THEN "SKIPPED"
  ELSE IF row[r] = "ABSENT" THEN "PENDING" ELSE row[r]

StartScan(fleet) ==
  /\ scan.pc = "idle" /\ scans < MaxScans
  /\ row' = [r \in Repos |-> IF r \in fleet THEN SeedRow(r) ELSE row[r]]
  /\ scan' = [IdleScan EXCEPT !.pc = "reap", !.fleet = fleet]
  /\ scans' = scans + 1
  /\ UNCHANGED <<world, owed, tables, edges, contracts, faults>>

\* The lease of a dead process has run out by the time the rows are reaped.
Reap ==
  /\ scan.pc = "reap"
  /\ row' = [r \in Repos |-> IF row[r] = "RUNNING" THEN "PENDING" ELSE row[r]]
  /\ scan' = [scan EXCEPT !.pc = "wave"]
  /\ UNCHANGED <<world, owed, tables, edges, contracts, scans, faults>>

-----------------------------------------------------------------------------
(* One dispatch: the units from..to of ScanPipelineWorker *)

Ran(from, to, unit) == \E i \in from .. to : Units[i] = unit

\* CloneWorker: a repo without a commit on its branch is empty, a shallow,
\* LFS or oversize one may be gated; anything else is fetched.
Empty(r) == Odd(r, "empty")
Gated(r) == Odd(r, "gate")
Preflight(r) == IF Empty(r) THEN "empty" ELSE IF Gated(r) THEN "gated" ELSE "ok"

\* What the units bring back.  An empty repo ends the pipeline after clone;
\* baseline and classify work on the manifests of this very dispatch.
Cloned(r, from, to) == Ran(from, to, "clone")
Interrogated(r, from, to) == Ran(from, to, "interrogate")
Classified(r, from, to) == Ran(from, to, "classify")
Measured(r, from, to) == Ran(from, to, "baseline") /\ Interrogated(r, from, to)
Indexed(r, from, to) == Ran(from, to, "symbolindex")

\* The dependencies the manifests name; an interrogation cut short brings a
\* part of them, here none.
Manifest == {"pinned", "open"}
Declares(r, from, to, half) ==
  {d \in world.deps : d.src = r /\ d.via \in Manifest /\ Interrogated(r, from, to) /\ ~half}

\* The imports and references the symbol index holds.
Refers(r, from, to) ==
  {d \in world.deps : d.src = r /\ d.via \notin Manifest /\ Indexed(r, from, to)}

\* _ScanEvidence.record
Record(r, from, to, half) ==
  [scan EXCEPT
     !.deps = @ \cup Declares(r, from, to, half) \cup Refers(r, from, to),
     !.syms = IF Indexed(r, from, to) THEN @ \cup {r} ELSE @,
     !.gated = IF Cloned(r, from, to) /\ Empty(r) THEN @ \cup {r} ELSE @,
     !.red = IF Measured(r, from, to) /\ Odd(r, "red") THEN @ \cup {r} ELSE @]

\* _scan_rows: a dispatch that classifies without interrogating blanks the
\* repo's ecosystems and primary_coord_key.
ScanRows(r, from, to) ==
  LET i == Interrogated(r, from, to)
  IN  [tables EXCEPT
         !.published = IF i THEN @ \cup {r} ELSE @,
         !.manifests = IF i THEN @ \cup {r} ELSE @,
         !.primary = IF i THEN @ \cup {r}
                     ELSE IF Classified(r, from, to) THEN @ \ {r} ELSE @,
         !.red = IF ~Measured(r, from, to) THEN @
                 ELSE IF Odd(r, "red") THEN @ \cup {r} ELSE @ \ {r},
         !.symbols = IF Indexed(r, from, to) THEN @ \cup {r} ELSE @,
         !.findings = IF Cloned(r, from, to) /\ Empty(r)
                      THEN @ \cup {<<r, "EmptyRepo">>} ELSE @]

\* The wave is the fleet without the skipped repos; the scheduler admits what
\* may start until the run is told to stop.
Admitted(r) ==
  /\ scan.pc = "wave" /\ ~scan.stop
  /\ r \in scan.fleet /\ ~Skipped(r)
  /\ row[r] \in {"PENDING", "RETRY"}

\* _scan_payloads: a dispatch takes up what the checkpoint owes; nothing
\* follows the clone of an empty repo.
FirstOwed(r) == owed[r]
LastOwed(r) == IF Empty(r) THEN 1 ELSE LastUnit

\* The worker has run the units up to `to`, then the sink records and writes.
\* What the row becomes is written after it.
Sink(r, to, half, becomes, next, stop) ==
  /\ row' = [row EXCEPT ![r] = "RUNNING"]
  /\ scan' = [Record(r, FirstOwed(r), to, half) EXCEPT
                !.done = @ \cup {[repo |-> r, becomes |-> becomes, next |-> next]},
                !.stop = stop]
  /\ tables' = ScanRows(r, FirstOwed(r), to)
  /\ UNCHANGED <<world, owed, edges, contracts, scans>>

\* Every owed unit runs.
DispatchOk(r) ==
  /\ Admitted(r) /\ Preflight(r) # "gated"
  /\ Sink(r, LastOwed(r), FALSE, "SUCCEEDED", 1, FALSE)
  /\ UNCHANGED faults

\* The deadline passes or the run is told to stop before unit `to + 1`, or
\* within an interrogation, which then counts as landed all the same.
Halt(to, half) == half => Units[to] = "interrogate"

DispatchPartial(r, to, half, stop) ==
  /\ Admitted(r) /\ Preflight(r) = "ok"
  /\ to \in owed[r] .. LastUnit - 1
  /\ Halt(to, half)
  /\ faults < MaxFaults
  /\ faults' = faults + 1
  /\ Sink(r, to, half, "PENDING", to + 1, stop)

\* A worker fails: a gated repo is for a human, anything else is retried from
\* the start.
Failed(r, becomes) ==
  /\ Admitted(r)
  /\ row' = [row EXCEPT ![r] = "RUNNING"]
  /\ scan' = [scan EXCEPT !.done = @ \cup {[repo |-> r, becomes |-> becomes, next |-> 1]}]
  /\ UNCHANGED <<world, owed, tables, edges, contracts, scans>>

PreflightFails(r) == Preflight(r) = "gated" /\ Failed(r, "RHI") /\ UNCHANGED faults

DispatchFails(r) ==
  /\ Preflight(r) # "gated" /\ faults < MaxFaults
  /\ faults' = faults + 1
  /\ Failed(r, "RETRY")

\* The runner writes the row, and with PENDING the checkpoint.
Finish(d) ==
  /\ scan.pc = "wave" /\ d \in scan.done
  /\ row' = [row EXCEPT ![d.repo] = d.becomes]
  /\ owed' = [owed EXCEPT ![d.repo] = d.next]
  /\ scan' = [scan EXCEPT !.done = @ \ {d}]
  /\ UNCHANGED <<world, tables, edges, contracts, scans, faults>>

\* run_wave returns when nothing is admitted and nothing is in flight.
WaveOver == scan.pc = "wave" /\ scan.done = {} /\ \A r \in Repos : ~Admitted(r)

-----------------------------------------------------------------------------
(* After the wave: one transaction each *)

GateEmpty ==
  /\ WaveOver
  /\ row' = [r \in Repos |-> IF r \in scan.gated THEN "SKIPPED" ELSE row[r]]
  /\ tables' = [tables EXCEPT !.findings = @ \cup {<<r, "EmptyRepo">> : r \in scan.gated}]
  /\ scan' = [scan EXCEPT !.pc = "red"]
  /\ UNCHANGED <<world, owed, edges, contracts, scans, faults>>

GateBaselineRed ==
  /\ scan.pc = "red"
  /\ row' = [r \in Repos |-> IF r \in scan.red THEN "SKIPPED" ELSE row[r]]
  /\ tables' = [tables EXCEPT !.findings = @ \cup {<<r, "BaselineRed">> : r \in scan.red}]
  /\ scan' = [scan EXCEPT !.pc = "edges"]
  /\ UNCHANGED <<world, owed, edges, contracts, scans, faults>>

\* A dependency's kind and confidence.
Score(via) == CASE via = "pinned" -> 95 [] via = "open" -> 90
                [] via = "import" -> 80 [] via = "api" -> 70
KindOf(via) == CASE via = "pinned" -> "PUBLISHED_ARTIFACT" [] via = "open" -> "DECLARED_DEP"
                 [] via = "import" -> "INTERNAL_IMPORT" [] via = "api" -> "API_CONTRACT"

RepoEdge(d) == [src |-> d.src, dst |-> d.dst, kind |-> KindOf(d.via), conf |-> Score(d.via),
                path |-> d.path, from |-> None, sup |-> FALSE]

\* A manifest dependency needs an owner in the coordinates table.
ManifestEdges(deps, owners) ==
  {RepoEdge(d) : d \in {x \in deps : x.via \in Manifest /\ x.dst \in owners}}

\* So does an import, and an import of a declared dependency is dropped.
Declared(deps, d) == \E m \in deps : m.via \in Manifest /\ m.src = d.src /\ m.dst = d.dst

ImportEdges(deps, owners) ==
  {RepoEdge(d) : d \in {x \in deps : x.via = "import" /\ x.dst \in owners /\ ~Declared(deps, x)}}

\* An API reference needs a definition among the symbols this process holds.
ApiContractEdges(deps, syms) ==
  {RepoEdge(d) : d \in {x \in deps : x.via = "api" /\ x.dst \in syms}}

InferEdges(deps, owners, syms) ==
  ManifestEdges(deps, owners) \cup ImportEdges(deps, owners) \cup ApiContractEdges(deps, syms)

\* _persist_scan_edges: an upsert.
PersistEdges ==
  /\ scan.pc = "edges"
  /\ edges' = edges \cup InferEdges(scan.deps, tables.published, scan.syms)
  /\ scan' = [scan EXCEPT !.pc = "blobs"]
  /\ UNCHANGED <<world, row, owed, tables, contracts, scans, faults>>

\* _capture_file_blobs: the run's rows are replaced by this fleet's.
CaptureBlobs ==
  /\ scan.pc = "blobs"
  /\ tables' = [tables EXCEPT !.blobs =
       {r \in scan.fleet : ~Skipped(r) /\ Preflight(r) = "ok"
                           /\ r \in tables.manifests}]
  /\ scan' = [scan EXCEPT !.pc = "read"]
  /\ UNCHANGED <<world, row, owed, edges, contracts, scans, faults>>

Sticky == {"HOISTED", "MIGRATED", "FORBIDDEN", "FAILED"}

\* _committed_contracts: without the paths and the consumers.
ReadCommitted ==
  /\ scan.pc = "read"
  /\ scan' = [scan EXCEPT !.pc = "write",
                !.committed = {[c EXCEPT !.carriers = {}, !.consumers = {}, !.ext = TRUE] :
                                 c \in {x \in contracts : x.status \in Sticky}}]
  /\ UNCHANGED <<world, row, owed, tables, edges, contracts, scans, faults>>

\* A contract is known by the repos that carry it and whose symbols are
\* indexed.  The hinted owner wins, else the first carrier in rank.
ContractSymbols == tables.symbols
DiscoverCarriers(c) == c.carriers \cap ContractSymbols
OwnerOf(c, sources) == IF c.owner \in sources THEN c.owner ELSE Least(sources)
ConsumersFor(c, sources) ==
  (sources \cup (c.refers \cap ContractSymbols)) \ {OwnerOf(c, sources)}

\* _first_failing_predicate: enough consumers, and what only the files decide.
Extractable(c, sources) == Cardinality(ConsumersFor(c, sources)) >= MinConsumers /\ c.fit

BuildNode(c, sources) ==
  [id |-> c.id, owner |-> OwnerOf(c, sources), carriers |-> sources,
   consumers |-> ConsumersFor(c, sources), ext |-> Extractable(c, sources),
   status |-> IF Extractable(c, sources) THEN "EXTRACTABLE" ELSE "REJECTED"]

DiscoverContracts ==
  {BuildNode(c, DiscoverCarriers(c)) : c \in {x \in world.idl : DiscoverCarriers(x) # {}}}

\* A committed contract keeps its status, and its row when its files are gone.
CarryOverCommitted(fresh, committed) ==
  LET prior(c) == {p \in committed : p.id = c.id}
  IN  {IF prior(c) = {} THEN c
       ELSE [c EXCEPT !.status = (CHOOSE p \in prior(c) : TRUE).status, !.ext = TRUE] : c \in fresh}
      \cup {p \in committed : \A c \in fresh : c.id # p.id}

\* _contract_rows: every row is deleted and inserted anew.
WriteContracts ==
  /\ scan.pc = "write"
  /\ contracts' = CarryOverCommitted(DiscoverContracts, scan.committed)
  /\ scan' = IdleScan
  /\ UNCHANGED <<world, row, owed, tables, edges, scans, faults>>

\* The process dies: the evidence goes with it.
ScanCrash ==
  /\ scan.pc # "idle" /\ faults < MaxFaults
  /\ scan' = IdleScan
  /\ faults' = faults + 1
  /\ UNCHANGED <<world, row, owed, tables, edges, contracts, scans>>

ScanNext ==
  \/ \E fleet \in Fleets : StartScan(fleet)
  \/ Reap
  \/ \E r \in Repos :
       \/ DispatchOk(r) \/ PreflightFails(r) \/ DispatchFails(r)
       \/ \E to \in Cuts, half, stop \in BOOLEAN : DispatchPartial(r, to, half, stop)
  \/ \E d \in scan.done : Finish(d)
  \/ GateEmpty \/ GateBaselineRed \/ PersistEdges \/ CaptureBlobs
  \/ ReadCommitted \/ WriteContracts \/ ScanCrash
=============================================================================
