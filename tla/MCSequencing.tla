---------------------------- MODULE MCSequencing ----------------------------
(***************************************************************************)
(* Small fleets: three repos, and a contract that repo 1 owns.             *)
(***************************************************************************)
EXTENDS Sequencing

AllRepos == 1 .. 3

Dep(s, d, via, path) == [src |-> s, dst |-> d, via |-> via, path |-> path]
Fleet(deps, odd, idl, clash) == [deps |-> deps, odd |-> odd, idl |-> idl, clash |-> clash]

Idl(carriers, refers) ==
  [id |-> 0, owner |-> 1, carriers |-> carriers, refers |-> refers, fit |-> TRUE]
Unfit == [Idl({1, 2, 3}, {}) EXCEPT !.fit = FALSE]

\* Repo 1 imports 2; 2 and 3 need 1 through its API, from their copies of
\* the contract: hoisting it dissolves the cycle.
Hub == {Dep(1, 2, "import", None), Dep(2, 1, "api", 0), Dep(3, 1, "api", 0)}
\* A cycle through all repos, too large to be resolved.
Ring == {Dep(1, 2, "open", None), Dep(2, 3, "import", None), Dep(3, 1, "pinned", None)}
\* Two repos in a cycle and one on top: one edge to break, or one too many.
Pair == {Dep(1, 2, "open", None), Dep(2, 1, "api", 0), Dep(3, 2, "open", None)}
Knot == Pair \cup {Dep(2, 1, "pinned", None)}

Is(r, what) == {[repo |-> r, what |-> what]}

SmallWorlds ==
  { Fleet(Hub, {}, {Idl({1, 2, 3}, {})}, {}),
    Fleet(Pair, {}, {Idl({1, 2}, {3})}, {}),
    Fleet(Ring, {}, {}, {}),
    Fleet(Knot, Is(3, "red"), {}, {}),
    Fleet(Hub, Is(2, "empty") \cup Is(3, "skip"), {Idl({1, 2, 3}, {})}, {}),
    Fleet(Hub, Is(2, "gate"), {Unfit}, {1, 3}) }

\* One contract that is worth hoisting, and nothing odd.
HubWorld == {Fleet(Hub, {}, {Idl({1, 2, 3}, {})}, {})}

\* Repo 1 owns two contracts, each in a cycle with one consumer: both have to
\* be hoisted.  No cfg has it; see ReplanConverges.
Single(id, r) == [id |-> id, owner |-> 1, carriers |-> {1, r}, refers |-> {}, fit |-> TRUE]
TwoContracts ==
  {Fleet({Dep(1, 2, "import", None), Dep(1, 3, "import", None),
          Dep(2, 1, "api", 0), Dep(3, 1, "api", 4)}, {}, {Single(0, 2), Single(4, 3)}, {})}

WholeFleet == {AllRepos}
=============================================================================
