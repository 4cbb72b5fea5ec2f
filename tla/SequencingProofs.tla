-------------------------- MODULE SequencingProofs --------------------------
(***************************************************************************)
(* What is proved of `fleet sequence` beside `fleet scan`, for every       *)
(* finite fleet, every evidence and every bound.                           *)
(***************************************************************************)
EXTENDS Sequencing, TLAPS, FiniteSetTheorems, WellFoundedInduction

-----------------------------------------------------------------------------
(* Numbers and rounds *)

\* Among natural numbers there is a least one.
LEMMA LeastNumber ==
  ASSUME NEW S, S \subseteq Nat, S # {}
  PROVE  \E n \in S : \A m \in S : n <= m
  <1> DEFINE R == {ss \in Nat \X Nat : ss[1] < ss[2]}
  <1>1. IsWellFoundedOn(R, Nat)
    BY NatLessThanWellFounded DEF OpToRel
  <1>2. PICK n \in S : \A m \in S : ~(<<m, n>> \in R)
    <2> HIDE DEF R
    <2> QED BY <1>1, WFMin, Zenon
  <1>3. \A m \in S : m < n => <<m, n>> \in R
    OBVIOUS
  <1> HIDE DEF R
  <1>4. \A m \in S : ~(m < n) /\ m \in Nat /\ n \in Nat
    BY <1>2, <1>3
  <1> QED BY <1>4

\* A function into the numbers has a least and, when bounded, a highest value.
LEMMA LeastValue ==
  ASSUME NEW S, S # {}, NEW f, \A x \in S : f[x] \in Nat
  PROVE  \E x \in S : \A y \in S : f[x] <= f[y]
  <1>1. PICK n \in {f[x] : x \in S} : \A m \in {f[x] : x \in S} : n <= m
    BY LeastNumber
  <1> QED BY <1>1

LEMMA HighestNumber ==
  ASSUME NEW S, S \subseteq Nat, S # {}, NEW b \in Nat, \A n \in S : n <= b
  PROVE  Highest(S) \in S /\ \A n \in S : n <= Highest(S)
  <1> DEFINE f == [n \in S |-> b - n]
  <1>1. \A n \in S : f[n] \in Nat /\ f[n] = b - n
    OBVIOUS
  <1>2. PICK n \in S : \A m \in S : f[n] <= f[m]
    <2> HIDE DEF f
    <2> QED BY <1>1, LeastValue
  <1> HIDE DEF f
  <1>3. \A m \in S : m <= n
    BY <1>1, <1>2
  <1> QED BY <1>3 DEF Highest

\* What holds at zero and is passed on holds of every number.
LEMMA Induction ==
  ASSUME NEW S, 0 \in S, \A n \in Nat : n \in S => n + 1 \in S
  PROVE  Nat \subseteq S
  <1>1. SUFFICES ASSUME Nat \ S # {} PROVE FALSE
    OBVIOUS
  <1>2. PICK n \in Nat \ S : \A m \in Nat \ S : n <= m
    <2>1. Nat \ S \subseteq Nat
      OBVIOUS
    <2> QED BY <1>1, <2>1, LeastNumber
  <1>3. n # 0 /\ n - 1 \in Nat
    BY <1>2
  <1>4. n - 1 \in S
    BY <1>2, <1>3
  <1> QED BY <1>2, <1>3, <1>4

\* st is the loop that starts in x and does what F says in every round.
Rounds(x, F, n, st) == st = [k \in 0 .. n |-> IF k = 0 THEN x ELSE F[st[k - 1]]]

\* Every loop of a given number of rounds has such a function.
LEMMA RoundsExist ==
  ASSUME NEW x, NEW F, NEW n \in Nat
  PROVE  \E st : Rounds(x, F, n, st)
  <1> DEFINE S == {m \in Nat : \E st : Rounds(x, F, m, st)}
  <1>1. 0 \in S
    <2> DEFINE g == [k \in 0 .. 0 |-> x]
               At(k) == IF k = 0 THEN x ELSE F[g[k - 1]]
    <2>1. g = [k \in 0 .. 0 |-> At(k)]
      <3>1. \A k \in 0 .. 0 : x = At(k)
        OBVIOUS
      <3> HIDE DEF At
      <3> QED BY <3>1
    <2> QED BY <2>1 DEF Rounds
  <1>2. ASSUME NEW m \in Nat, m \in S PROVE m + 1 \in S
    <2>1. PICK st : Rounds(x, F, m, st)
      BY <1>2
    <2> DEFINE g == [k \in 0 .. m + 1 |-> IF k \in 0 .. m THEN st[k] ELSE F[st[m]]]
               At(k) == IF k = 0 THEN x ELSE F[g[k - 1]]
    <2>2. ASSUME NEW k \in 0 .. m PROVE st[k] = IF k = 0 THEN x ELSE F[st[k - 1]]
      BY <2>1, Zenon DEF Rounds
    <2>3. ASSUME NEW k \in 0 .. m + 1 PROVE g[k] = At(k)
      <3>1. CASE k = 0
        BY <3>1, <2>2
      <3>2. CASE k # 0 /\ k \in 0 .. m
        <4>1. k - 1 \in 0 .. m /\ k - 1 \in 0 .. m + 1
          BY <3>2
        <4>2. g[k] = st[k] /\ g[k - 1] = st[k - 1]
          BY <3>2, <4>1
        <4> HIDE DEF g
        <4> QED BY <3>2, <4>2, <2>2
      <3>3. CASE k = m + 1
        <4>1. k # 0 /\ k \notin 0 .. m /\ k - 1 = m /\ m \in 0 .. m /\ m \in 0 .. m + 1
          BY <3>3
        <4>2. g[k] = F[st[m]] /\ g[m] = st[m]
          BY <4>1
        <4> HIDE DEF g
        <4> QED BY <4>1, <4>2
      <3> QED BY <3>1, <3>2, <3>3
    <2>4. g = [k \in 0 .. m + 1 |-> g[k]]
      OBVIOUS
    <2> HIDE DEF g
    <2>5. g = [k \in 0 .. m + 1 |-> At(k)]
      <3> HIDE DEF At
      <3> QED BY <2>3, <2>4, Zenon
    <2>6. Rounds(x, F, m + 1, g)
      BY <2>5 DEF Rounds
    <2> QED BY <2>6
  <1> HIDE DEF S
  <1>3. Nat \subseteq S
    BY <1>1, <1>2, Induction
  <1>4. n \in S
    BY <1>3
  <1> QED BY <1>4 DEF S

\* A loop that starts in X and whose rounds do not leave X ends in X.
LEMMA RoundsStay ==
  ASSUME NEW X, NEW n \in Nat, NEW st, st[0] \in X,
         \A k \in 1 .. n : st[k - 1] \in X => st[k] \in X
  PROVE  st[n] \in X
  <1> DEFINE S == {k \in Nat : k <= n => st[k] \in X}
  <1>1. 0 \in S
    OBVIOUS
  <1>2. ASSUME NEW k \in Nat, k \in S PROVE k + 1 \in S
    <2>1. k + 1 <= n => k + 1 \in 1 .. n /\ (k + 1) - 1 = k
      OBVIOUS
    <2>2. k + 1 <= n => st[k] \in X
      BY <1>2
    <2>3. k + 1 <= n => st[k + 1] \in X
      BY <2>1, <2>2
    <2> QED BY <2>3
  <1> HIDE DEF S
  <1>3. n \in S
    BY <1>1, <1>2, Induction
  <1> QED BY <1>3 DEF S

\* Both at once: the function a loop's definition chooses is a run of the loop
\* F, and ends in X.
LEMMA LoopStays ==
  ASSUME NEW X, NEW F \in [X -> X], NEW x \in X, NEW n \in Nat
  PROVE  /\ \E st : Rounds(x, F, n, st)
         /\ \A st : Rounds(x, F, n, st) => \A k \in 0 .. n : st[k] \in X
  <1>1. ASSUME NEW st, Rounds(x, F, n, st), NEW k \in 0 .. n PROVE st[k] \in X
    <2>1. \A i \in 0 .. n : st[i] = IF i = 0 THEN x ELSE F[st[i - 1]]
      BY <1>1, Zenon DEF Rounds
    <2>2. st[0] = x
      BY <2>1
    <2>3. \A i \in 1 .. k : i \in 0 .. n /\ i # 0
      OBVIOUS
    <2>4. \A i \in 1 .. k : st[i - 1] \in X => st[i] \in X
      BY <2>1, <2>3
    <2> QED BY <2>2, <2>4, RoundsStay
  <1> QED BY <1>1, RoundsExist

-----------------------------------------------------------------------------
(* Reachability and components *)

LEMMA ReachSelf ==
  ASSUME NEW A, NEW n
  PROVE  n \in Reach(A, n)
  BY DEF Reach

\* A closed set that holds n holds what n reaches.
LEMMA ReachWithin ==
  ASSUME NEW A, NEW n, NEW S, n \in S, Closed(A, S)
  PROVE  Reach(A, n) \subseteq S
  <1> DEFINE T == S \cap (Ends(A) \cup {n})
  <1>1. \A a \in A : a[2] \in Ends(A)
    BY DEF Ends
  <1>2. n \in T /\ Closed(A, T) /\ T \in SUBSET (Ends(A) \cup {n})
    BY <1>1 DEF Closed
  <1> HIDE DEF T
  <1>3. Reach(A, n) \subseteq T
    BY <1>2 DEF Reach
  <1> QED BY <1>3 DEF T

LEMMA ReachClosed ==
  ASSUME NEW A, NEW n
  PROVE  Closed(A, Reach(A, n))
  <1> SUFFICES ASSUME NEW a \in A, a[1] \in Reach(A, n) PROVE a[2] \in Reach(A, n)
    BY DEF Closed
  <1>1. a[2] \in Ends(A)
    BY DEF Ends
  <1>2. ASSUME NEW S \in SUBSET (Ends(A) \cup {n}), n \in S, Closed(A, S) PROVE a[2] \in S
    <2>1. a[1] \in S
      BY <1>2 DEF Reach
    <2> QED BY <1>2, <2>1 DEF Closed
  <1> QED BY <1>1, <1>2 DEF Reach

LEMMA ReachArc ==
  ASSUME NEW A, NEW a \in A
  PROVE  a[2] \in Reach(A, a[1])
  BY ReachSelf, ReachClosed DEF Closed

LEMMA ReachTransitive ==
  ASSUME NEW A, NEW n, NEW m \in Reach(A, n)
  PROVE  Reach(A, m) \subseteq Reach(A, n)
  BY ReachWithin, ReachClosed

\* The members of a component reach one another and nothing else that
\* reaches them back; each is the source of an arc.
LEMMA SccMembers ==
  ASSUME NEW A, NEW c \in NontrivialSccs(A)
  PROVE  /\ c # {}
         /\ \A m \in c : c = {k \in Reach(A, m) : m \in Reach(A, k)}
         /\ \A m \in c : m \in Ends(A) /\ \E a \in A : a[1] = m
  <1> DEFINE ends == {a[1] : a \in A} \cap {a[2] : a \in A}
             scc(n) == {k \in Reach(A, n) : n \in Reach(A, k)}
  <1>1. PICK n \in ends : c = scc(n)
    BY DEF NontrivialSccs
  <1>2. n \in c
    BY <1>1, ReachSelf
  <1>3. ASSUME NEW m \in c PROVE c = scc(m)
    <2>1. m \in Reach(A, n) /\ n \in Reach(A, m)
      BY <1>1
    <2>2. Reach(A, m) = Reach(A, n)
      <3>1. Reach(A, m) \subseteq Reach(A, n) /\ Reach(A, n) \subseteq Reach(A, m)
        BY <2>1, ReachTransitive
      <3> QED BY <3>1
    <2>3. ASSUME NEW k PROVE k \in c <=> k \in scc(m)
      <3>1. ASSUME k \in Reach(A, n) PROVE n \in Reach(A, k) <=> m \in Reach(A, k)
        BY <2>1, ReachTransitive
      <3> QED BY <1>1, <2>2, <3>1
    <2> QED BY <2>3
  <1>4. ASSUME NEW m \in c PROVE \E a \in A : a[1] = m
    <2>1. CASE m = n
      BY <2>1
    <2>2. CASE m # n
      <3>1. SUFFICES ASSUME \A a \in A : a[1] # m PROVE FALSE
        OBVIOUS
      <3>2. Closed(A, {m})
        BY <3>1 DEF Closed
      <3>3. Reach(A, m) \subseteq {m}
        BY <3>2, ReachWithin
      <3> QED BY <1>1, <2>2, <3>3
    <2> QED BY <2>1, <2>2
  <1>5. \A m \in c : m \in Ends(A)
    BY <1>4 DEF Ends
  <1> HIDE DEF ends
  <1> QED BY <1>2, <1>3, <1>4, <1>5

LEMMA SccsDisjoint ==
  ASSUME NEW A, NEW c \in NontrivialSccs(A), NEW d \in NontrivialSccs(A), c \cap d # {}
  PROVE  c = d
  <1>1. PICK m : m \in c /\ m \in d
    OBVIOUS
  <1>2. c = {k \in Reach(A, m) : m \in Reach(A, k)}
    BY <1>1, SccMembers
  <1>3. d = {k \in Reach(A, m) : m \in Reach(A, k)}
    BY <1>1, SccMembers
  <1> QED BY <1>2, <1>3

\* Arcs towards sinks and the loss of arcs leave every component within the
\* one it was part of.
LEMMA SccsShrink ==
  ASSUME NEW A, NEW B, NEW Sinks,
         \A a \in B : a[1] \notin Sinks /\ (a \in A \/ a[2] \in Sinks),
         NEW c \in NontrivialSccs(A), NEW d \in NontrivialSccs(B), c \cap d # {}
  PROVE  d \subseteq c
  <1>1. ASSUME NEW n, n \notin Sinks PROVE Reach(B, n) \subseteq Reach(A, n) \cup Sinks
    <2> DEFINE S == Reach(A, n) \cup Sinks
    <2>1. Closed(B, S)
      <3> SUFFICES ASSUME NEW a \in B, a[1] \in S PROVE a[2] \in S
        BY DEF Closed
      <3>1. a[1] \in Reach(A, n)
        OBVIOUS
      <3>2. a \in A => a[2] \in Reach(A, n)
        BY <3>1, ReachClosed DEF Closed
      <3> QED BY <3>2
    <2>2. n \in S
      BY ReachSelf
    <2> HIDE DEF S
    <2>3. Reach(B, n) \subseteq S
      BY <2>1, <2>2, ReachWithin
    <2> QED BY <2>3 DEF S
  <1>2. PICK m : m \in c /\ m \in d
    OBVIOUS
  <1>3. \A k \in d : k \notin Sinks
    BY SccMembers
  <1>4. ASSUME NEW k \in d PROVE k \in c
    <2>1. k \in Reach(B, m) /\ m \in Reach(B, k)
      BY <1>2, SccMembers
    <2>2. k \in Reach(A, m) /\ m \in Reach(A, k)
      BY <1>1, <1>2, <1>3, <2>1
    <2> QED BY <1>2, <2>2, SccMembers
  <1> QED BY <1>4

\* Finite graphs have finitely many components, all of them finite.
LEMMA GraphFinite ==
  ASSUME NEW A, IsFiniteSet(A)
  PROVE  /\ IsFiniteSet(Ends(A)) /\ IsFiniteSet(NontrivialSccs(A))
         /\ \A n : IsFiniteSet(Reach(A, n))
         /\ \A c \in NontrivialSccs(A) : IsFiniteSet(c) /\ c \subseteq Ends(A)
  <1>1. IsFiniteSet({a[1] : a \in A}) /\ IsFiniteSet({a[2] : a \in A})
    <2> DEFINE f == [a \in A |-> a[1]]
               g == [a \in A |-> a[2]]
    <2>1. {a[1] : a \in A} = {f[a] : a \in A} /\ {a[2] : a \in A} = {g[a] : a \in A}
      OBVIOUS
    <2>2. f \in Surjection(A, {f[a] : a \in A}) /\ g \in Surjection(A, {g[a] : a \in A})
      BY DEF Surjection
    <2> HIDE DEF f, g
    <2> QED BY <2>1, <2>2, FS_Surjection
  <1>2. IsFiniteSet(Ends(A))
    BY <1>1, FS_Union DEF Ends
  <1>3. ASSUME NEW n PROVE IsFiniteSet(Reach(A, n))
    <2>1. IsFiniteSet(Ends(A) \cup {n})
      BY <1>2, FS_AddElement
    <2> QED BY <2>1, FS_Subset DEF Reach
  <1>4. ASSUME NEW c \in NontrivialSccs(A) PROVE c \subseteq Ends(A)
    BY SccMembers
  <1>5. IsFiniteSet(NontrivialSccs(A))
    <2>1. NontrivialSccs(A) \subseteq SUBSET Ends(A)
      BY <1>4
    <2>2. IsFiniteSet(SUBSET Ends(A))
      BY <1>2, FS_SUBSET
    <2> QED BY <2>1, <2>2, FS_Subset
  <1>6. \A c \in NontrivialSccs(A) : IsFiniteSet(c)
    BY <1>2, <1>4, FS_Subset
  <1> QED BY <1>2, <1>3, <1>4, <1>5, <1>6

\* Among tuples of numbers there is one that none comes before.
LEMMA LeastTuple ==
  ASSUME NEW S, S # {}, NEW n \in Nat, NEW f,
         \A x \in S : DOMAIN f[x] = 1 .. n /\ \A i \in 1 .. n : f[x][i] \in Nat
  PROVE  \E x \in S : \A y \in S : ~Before(f[y], f[x])
  <1> DEFINE Beats(y, x, i) == f[y][i] < f[x][i] /\ \A j \in 1 .. i - 1 : f[y][j] = f[x][j]
             Good(k) == {x \in S : \A y \in S : \A i \in 1 .. k : ~Beats(y, x, i)}
             T == {k \in Nat : k <= n => Good(k) # {}}
  <1>1. 0 \in T
    OBVIOUS
  <1>2. ASSUME NEW k \in Nat, k \in T PROVE k + 1 \in T
    <2>1. SUFFICES ASSUME k + 1 <= n PROVE Good(k + 1) # {}
      OBVIOUS
    <2>2. Good(k) # {} /\ Good(k) \subseteq S /\ k + 1 \in 1 .. n
      BY <1>2, <2>1
    <2> DEFINE g == [x \in Good(k) |-> f[x][k + 1]]
    <2>3. \A x \in Good(k) : g[x] \in Nat /\ g[x] = f[x][k + 1]
      BY <2>2
    <2>4. PICK x \in Good(k) : \A y \in Good(k) : g[x] <= g[y]
      <3> HIDE DEF g, Good
      <3> QED BY <2>2, <2>3, LeastValue
    <2>5. \A y \in Good(k) : ~(f[y][k + 1] < f[x][k + 1])
      <3> HIDE DEF g, Good
      <3> QED BY <2>3, <2>4
    <2>6. ASSUME NEW y \in S, Beats(y, x, k + 1) PROVE y \in Good(k)
      <3> SUFFICES ASSUME NEW z \in S, NEW i \in 1 .. k, Beats(z, y, i) PROVE FALSE
        OBVIOUS
      <3>1. i \in 1 .. (k + 1) - 1 /\ \A j \in 1 .. i - 1 : j \in 1 .. (k + 1) - 1
        OBVIOUS
      <3>2. f[y][i] = f[x][i] /\ \A j \in 1 .. i - 1 : f[y][j] = f[x][j]
        BY <2>6, <3>1
      <3>3. Beats(z, x, i)
        BY <3>2
      <3> QED BY <3>3, <2>4
    <2>7. \A y \in S : \A i \in 1 .. k + 1 : ~Beats(y, x, i)
      <3> SUFFICES ASSUME NEW y \in S, NEW i \in 1 .. k + 1, Beats(y, x, i) PROVE FALSE
        OBVIOUS
      <3>1. i = k + 1
        <4>1. x \in Good(k) /\ (i # k + 1 => i \in 1 .. k)
          BY <2>4
        <4> HIDE DEF Beats
        <4> QED BY <4>1
      <3>2. y \in Good(k)
        BY <2>6, <3>1
      <3> HIDE DEF Good
      <3> QED BY <2>5, <3>1, <3>2
    <2>8. x \in S
      BY <2>2, <2>4
    <2> HIDE DEF Beats
    <2> QED BY <2>7, <2>8
  <1>3. n \in T
    <2> HIDE DEF T
    <2> QED BY <1>1, <1>2, Induction
  <1>4. PICK x \in S : \A y \in S : \A i \in 1 .. n : ~Beats(y, x, i)
    <2> HIDE DEF Beats
    <2> QED BY <1>3
  <1> QED BY <1>4 DEF Before

-----------------------------------------------------------------------------
(* What edges and contracts look like, M the contracts' ids *)

ContractKinds == {"CONTRACT_IMPL", "CONTRACT_CONSUME"}

\* Edges lead out of repos to something else, a contract's edges lead into
\* contracts, and the ones that infer_contract_edges made are as it made them.
EdgeOf(M) ==
  {e \in [src : Repos, dst : Repos \cup M, kind : DOMAIN KindRank, conf : Nat,
          path : Nat \cup {None}, from : Nat \cup {None}, sup : BOOLEAN] :
     /\ e.src # e.dst
     /\ e.kind \in ContractKinds <=> e.dst \in M
     /\ e.kind \in ContractKinds /\ e.from = None =>
          e.sup = FALSE /\ e.conf = IF e.kind = "CONTRACT_IMPL" THEN 100 ELSE 85}

Statuses == {"EXTRACTABLE", "REJECTED"} \cup Sticky

\* Whoever carries a contract owns or consumes it.
ContractOf(M) ==
  {c \in [id : M, owner : Repos, carriers : SUBSET Repos, consumers : SUBSET Repos,
          ext : BOOLEAN, status : Statuses] : c.carriers \ {c.owner} \subseteq c.consumers}

IdSet(M) == IsFiniteSet(M) /\ M \subseteq Nat \ Repos

LEMMA RetargetType ==
  ASSUME NEW M, IdSet(M), NEW e \in EdgeOf(M), NEW c \in ContractOf(M),
         e.kind \notin ContractKinds
  PROVE  Retarget(e, c) \in EdgeOf(M)
  <1>1. e.dst \in Repos /\ e.dst \in Nat /\ e.dst # None
    BY ScanAssumption DEF EdgeOf, IdSet
  <1>2. c.id \in M /\ c.id \notin Repos
    BY DEF ContractOf, IdSet
  <1> DEFINE r == Retarget(e, c)
  <1>3. r \in [src : Repos, dst : Repos \cup M, kind : DOMAIN KindRank, conf : Nat,
               path : Nat \cup {None}, from : Nat \cup {None}, sup : BOOLEAN]
    BY <1>1, <1>2 DEF Retarget, EdgeOf, KindRank
  <1>4. r.kind = "CONTRACT_CONSUME" /\ r.dst = c.id /\ r.from = e.dst /\ r.src \in Repos
    BY DEF Retarget, EdgeOf
  <1> HIDE DEF r
  <1>5. r \in EdgeOf(M)
    BY <1>1, <1>2, <1>3, <1>4 DEF EdgeOf, ContractKinds
  <1> QED BY <1>5 DEF r

LEMMA ContractEdgesType ==
  ASSUME NEW M, IdSet(M), NEW c \in ContractOf(M)
  PROVE  /\ ContractEdges(c) \subseteq EdgeOf(M)
         /\ \A e \in ContractEdges(c) :
              /\ e.src \in c.carriers /\ e.dst = c.id /\ e.from = None
              /\ e.kind \in ContractKinds /\ OrdersMigration(e)
         /\ \A r \in c.carriers : \E e \in ContractEdges(c) : e.src = r
  <1> DEFINE edge(r, k, p) == [src |-> r, dst |-> c.id, kind |-> k, conf |-> p,
                               path |-> c.id, from |-> None, sup |-> FALSE]
  <1>1. c.id \in M /\ c.id \in Nat /\ c.carriers \subseteq Repos /\ c.owner \in Repos
        /\ c.id \notin Repos /\ c.carriers \ {c.owner} \subseteq c.consumers
    BY DEF ContractOf, IdSet
  <1>2. ASSUME NEW r \in Repos, NEW k, NEW p \in {100, 85},
               (k = "CONTRACT_IMPL" /\ p = 100) \/ (k = "CONTRACT_CONSUME" /\ p = 85)
        PROVE  /\ edge(r, k, p) \in EdgeOf(M) /\ edge(r, k, p).kind \in ContractKinds
               /\ OrdersMigration(edge(r, k, p))
    <2>1. edge(r, k, p) \in [src : Repos, dst : Repos \cup M, kind : DOMAIN KindRank,
            conf : Nat, path : Nat \cup {None}, from : Nat \cup {None}, sup : BOOLEAN]
      BY <1>1, <1>2 DEF KindRank
    <2> QED BY <1>1, <1>2, <2>1 DEF EdgeOf, ContractKinds, OrdersMigration, KindRank, MinConfidence
  <1>3. ContractEdges(c) = {edge(r, "CONTRACT_IMPL", 100) : r \in c.carriers \cap {c.owner}}
          \cup {edge(r, "CONTRACT_CONSUME", 85) : r \in (c.consumers \cap c.carriers) \ {c.owner}}
    BY DEF ContractEdges
  <1>4. ASSUME NEW e \in ContractEdges(c)
        PROVE  \E r \in c.carriers : e = edge(r, "CONTRACT_IMPL", 100)
                                     \/ e = edge(r, "CONTRACT_CONSUME", 85)
    BY <1>3
  <1>5. ASSUME NEW r \in c.carriers
        PROVE  edge(r, "CONTRACT_IMPL", 100) \in ContractEdges(c)
               \/ edge(r, "CONTRACT_CONSUME", 85) \in ContractEdges(c)
    <2>1. CASE r = c.owner
      BY <1>3, <2>1
    <2>2. CASE r # c.owner
      <3>1. r \in (c.consumers \cap c.carriers) \ {c.owner}
        BY <1>1, <2>2
      <3> QED BY <1>3, <3>1
    <2> QED BY <2>1, <2>2
  <1>6. \A r, k, p : edge(r, k, p).src = r /\ edge(r, k, p).dst = c.id /\ edge(r, k, p).from = None
    OBVIOUS
  <1> HIDE DEF edge
  <1> QED BY <1>1, <1>2, <1>4, <1>5, <1>6

LEMMA MaterializeType ==
  ASSUME NEW M, IdSet(M), NEW E, E \subseteq EdgeOf(M), NEW C, C \subseteq ContractOf(M)
  PROVE  Materialize(E, C) \subseteq EdgeOf(M)
  <1> SUFFICES ASSUME NEW f \in Materialize(E, C) PROVE f \in EdgeOf(M)
    OBVIOUS
  <1>1. \/ f \in E
        \/ \E e \in E, c \in C : Listed(e, c) /\ f = Retarget(e, c)
        \/ \E c \in C : f \in ContractEdges(c)
    BY DEF Materialize
  <1>2. \A e \in E, c \in C : Listed(e, c) => e.kind \notin ContractKinds
    BY DEF Listed, ContractKinds
  <1> QED BY <1>1, <1>2, RetargetType, ContractEdgesType

-----------------------------------------------------------------------------
(* What the loops choose is among what they choose from *)

LEMMA GraphEnds ==
  ASSUME NEW M, IdSet(M), NEW E, E \subseteq EdgeOf(M)
  PROVE  /\ \A a \in G(E) : a[1] \in Repos /\ a[2] \in Repos \cup M
         /\ \A a \in G_dag(E) : a[1] \in Repos /\ a[2] \in Repos \cup M
  BY DEF G, G_dag, EdgeOf

\* A component holds repos only.
LEMMA SccsOfRepos ==
  ASSUME NEW M, IdSet(M), NEW E, E \subseteq EdgeOf(M)
  PROVE  /\ NontrivialSccs(G_dag(E)) \subseteq SUBSET Repos
         /\ IsFiniteSet(NontrivialSccs(G_dag(E)))
         /\ \A c \in NontrivialSccs(G_dag(E)) : IsFiniteSet(c) /\ c # {} /\ Least(c) \in Nat
  <1>1. ASSUME NEW c \in NontrivialSccs(G_dag(E)) PROVE c \subseteq Repos /\ c # {}
    BY SccMembers, GraphEnds
  <1>2. ASSUME NEW c \in NontrivialSccs(G_dag(E)) PROVE Least(c) \in Nat
    <2>1. c \subseteq Nat /\ c # {}
      BY <1>1, ScanAssumption
    <2> QED BY <2>1, LeastNumber DEF Least
  <1>3. IsFiniteSet(Repos) /\ IsFiniteSet(SUBSET Repos)
    BY ScanAssumption, FS_SUBSET
  <1> QED BY <1>1, <1>2, <1>3, FS_Subset

LEMMA CountsAreNumbers ==
  ASSUME NEW M, IdSet(M), NEW E, E \subseteq EdgeOf(M), NEW n \in Repos \cup M
  PROVE  Cardinality(Dependents(E, n)) \in Nat /\ ComponentSize(G_dag(E), n) \in Nat
  <1> DEFINE A == {<<a[2], a[1]>> : a \in G(E)}
  <1>1. Ends(A) \subseteq Repos \cup M
    BY GraphEnds DEF Ends
  <1>2. Dependents(E, n) \subseteq Repos \cup M
    BY <1>1 DEF Dependents, Descendants, Reach
  <1>3. IsFiniteSet(Repos \cup M)
    BY ScanAssumption, FS_Union DEF IdSet
  <1>4. Cardinality(Dependents(E, n)) \in Nat
    BY <1>2, <1>3, FS_Subset, FS_CardinalityType
  <1>5. \A c \in NontrivialSccs(G_dag(E)) : Cardinality(c) \in Nat
    BY SccsOfRepos, FS_CardinalityType
  <1> QED BY <1>4, <1>5 DEF ComponentSize

LEMMA CheapestChosen ==
  ASSUME NEW M, IdSet(M), NEW E, E \subseteq EdgeOf(M), NEW S, S \subseteq E, S # {}
  PROVE  Cheapest(S, E) \in S
  <1> DEFINE f == [e \in S |-> BreakCost(e, E)]
  <1>1. ASSUME NEW e \in S
        PROVE  f[e] = BreakCost(e, E) /\ DOMAIN f[e] = 1 .. 5 /\ \A i \in 1 .. 5 : f[e][i] \in Nat
    <2>1. e.src \in Nat /\ e.dst \in Repos \cup M /\ e.dst \in Nat /\ e.conf \in Nat
          /\ e.kind \in DOMAIN KindRank
      <3>1. e.src \in Repos /\ e.dst \in Repos \cup M /\ e.conf \in Nat /\ e.kind \in DOMAIN KindRank
        BY DEF EdgeOf
      <3>2. Repos \subseteq Nat /\ M \subseteq Nat
        BY ScanAssumption DEF IdSet
      <3> QED BY <3>1, <3>2
    <2>3. KindRank[e.kind] \in Nat
      BY <2>1 DEF KindRank
    <2>2. Cardinality(Dependents(E, e.dst)) \in Nat
      BY <2>1, CountsAreNumbers
    <2> QED BY <2>1, <2>2, <2>3 DEF BreakCost
  <1> HIDE DEF f
  <1>2. PICK e \in S : \A d \in S : ~Before(f[d], f[e])
    <2>1. 5 \in Nat /\ \A e \in S : DOMAIN f[e] = 1 .. 5 /\ \A i \in 1 .. 5 : f[e][i] \in Nat
      BY <1>1
    <2> QED BY <2>1, LeastTuple, Zenon
  <1>3. \A d \in S \ {e} : ~Before(BreakCost(d, E), BreakCost(e, E))
    BY <1>1, <1>2
  <1> QED BY <1>3 DEF Cheapest

LEMMA BestHoistChosen ==
  ASSUME NEW M, IdSet(M), NEW E, E \subseteq EdgeOf(M), NEW S, S \subseteq ContractOf(M), S # {}
  PROVE  BestHoist(S, E) \in S
  <1> DEFINE f == [c \in S |-> HoistScore(c, E)]
  <1>1. ASSUME NEW c \in S
        PROVE  f[c] = HoistScore(c, E) /\ DOMAIN f[c] = 1 .. 3 /\ \A i \in 1 .. 3 : f[c][i] \in Nat
    <2>1. c.owner \in Repos \cup M /\ c.id \in Nat /\ c.consumers \subseteq Repos
      BY DEF ContractOf, IdSet
    <2>2. Materialize(E, {c}) \subseteq EdgeOf(M)
      BY MaterializeType
    <2>3. ComponentSize(G_dag(Materialize(E, {c})), c.owner) \in Nat
      BY <2>1, <2>2, CountsAreNumbers
    <2>4. Cardinality(Dependents(E, c.owner)) \in Nat
      BY <2>1, CountsAreNumbers
    <2>5. Cardinality(c.consumers) \in Nat
      BY <2>1, ScanAssumption, FS_Subset, FS_CardinalityType
    <2> QED BY <2>1, <2>3, <2>4, <2>5 DEF HoistScore
  <1> HIDE DEF f
  <1>2. PICK c \in S : \A d \in S : ~Before(f[d], f[c])
    BY <1>1, LeastTuple
  <1>3. \A d \in S \ {c} : ~Before(HoistScore(d, E), HoistScore(c, E))
    BY <1>1, <1>2
  <1> QED BY <1>3 DEF BestHoist

LEMMA NextSccChosen ==
  ASSUME NEW S, S # {}, \A c \in S : Least(c) \in Nat
  PROVE  NextScc(S) \in S
  <1> DEFINE f == [c \in S |-> Least(c)]
  <1>1. \A c \in S : f[c] \in Nat /\ f[c] = Least(c)
    OBVIOUS
  <1> HIDE DEF f
  <1>2. PICK c \in S : \A d \in S : f[c] <= f[d]
    BY <1>1, LeastValue
  <1>3. \A d \in S : Least(c) <= Least(d)
    BY <1>1, <1>2
  <1> QED BY <1>3 DEF NextScc

\* The live component is none or a component that meets the members.
LEMMA LiveComponentChosen ==
  ASSUME NEW M, IdSet(M), NEW E, E \subseteq EdgeOf(M), NEW members, IsFiniteSet(members)
  PROVE  \/ LiveComponent(G_dag(E), members) = {}
         \/ /\ LiveComponent(G_dag(E), members) \in NontrivialSccs(G_dag(E))
            /\ LiveComponent(G_dag(E), members) \cap members # {}
  <1> DEFINE sccs == NontrivialSccs(G_dag(E))
             shared(c) == Cardinality(c \cap members)
             live == {c \in sccs : shared(c) >= 2}
             most == {c \in live : \A d \in live : shared(d) <= shared(c)}
  <1>1. \A c \in sccs : shared(c) \in Nat /\ shared(c) <= Cardinality(members)
    <2>1. \A c \in sccs : IsFiniteSet(c \cap members) /\ c \cap members \subseteq members
      BY FS_Subset
    <2> QED BY <2>1, FS_Subset, FS_CardinalityType
  <1>2. LiveComponent(G_dag(E), members) =
          IF live = {} THEN {} ELSE CHOOSE c \in most : \A d \in most : Least(c) <= Least(d)
    BY DEF LiveComponent
  <1>3. ASSUME live # {} PROVE NextScc(most) \in most
    <2> DEFINE counts == {shared(c) : c \in live}
    <2>1. counts \subseteq Nat /\ counts # {} /\ \A n \in counts : n <= Cardinality(members)
      BY <1>1, <1>3
    <2>2. Cardinality(members) \in Nat
      BY FS_CardinalityType
    <2>3. PICK n \in counts : \A m \in counts : m <= n
      <3> HIDE DEF counts
      <3> QED BY <2>1, <2>2, HighestNumber
    <2>4. PICK c \in live : shared(c) = n
      OBVIOUS
    <2>6. c \in most
      BY <2>3, <2>4
    <2>5. \A d \in most : Least(d) \in Nat
      BY SccsOfRepos
    <2> HIDE DEF most
    <2> QED BY <2>6, <2>5, NextSccChosen
  <1>4. \A c \in most : c \in sccs /\ c \cap members # {}
    <2>1. Cardinality({}) = 0
      BY FS_EmptySet
    <2> QED BY <1>1, <2>1
  <1> HIDE DEF most, live
  <1> QED BY <1>2, <1>3, <1>4 DEF NextScc

-----------------------------------------------------------------------------
(* What becomes of an edge, E0 the edges read and C the contracts read: K    *)
(* holds the ids in place, B the components in which edges were broken, A    *)
(* the ordering graph in which the components were found                     *)

Cut(e) == [e EXCEPT !.sup = TRUE]
UniqueIds(C) == \A c, d \in C : c.id = d.id => c = d

Traced(e, C, E, K, B) ==
  \/ e \in E
  \/ \E c \in C : c.id \in K /\ Retarget(e, c) \in E
  \/ \E m \in B : /\ {e.src, e.dst} \subseteq m
                  /\ Cut(e) \in E \/ \E c \in C : Retarget(Cut(e), c) \in E

Points(f, E0, C) ==
  \/ \E e \in E0 : e.src = f.src /\ e.dst = f.dst
  \/ \E c \in C : c.id = f.dst /\ f.src \in c.carriers

Traces(M, E0, C, A, E, K, B) ==
  /\ E \subseteq EdgeOf(M)
  /\ \A a \in G_dag(E) : a \in A \/ a[2] \in M
  /\ \A e \in E0 : OrdersMigration(e) => Traced(e, C, E, K, B)
  /\ \A c \in C : c.id \in K => ContractEdges(c) \subseteq E
  /\ \A f \in E : f.dst \in M => Points(f, E0, C)

LEMMA SameEdge ==
  ASSUME NEW M, NEW e \in EdgeOf(M), NEW f \in EdgeOf(M),
         e.src = f.src, e.dst = f.dst, e.kind = f.kind, e.conf = f.conf,
         e.path = f.path, e.from = f.from, e.sup = f.sup
  PROVE  e = f
  BY DEF EdgeOf

\* Materialize keeps an edge or turns it, and puts the contracts' edges in.
LEMMA MaterializeKeeps ==
  ASSUME NEW M, IdSet(M), NEW E, E \subseteq EdgeOf(M), NEW D, D \subseteq ContractOf(M)
  PROVE  /\ \A e \in E : \/ e \in Materialize(E, D)
                         \/ /\ e.kind \notin ContractKinds
                            /\ \E c \in D : Retarget(e, c) \in Materialize(E, D)
         /\ \A c \in D : ContractEdges(c) \subseteq Materialize(E, D)
         /\ \A f \in Materialize(E, D) :
              \/ f \in E
              \/ \E e \in E, c \in D : Listed(e, c) /\ f = Retarget(e, c)
              \/ \E c \in D : f \in ContractEdges(c)
  <1> DEFINE moved == {e \in E : \E c \in D : Listed(e, c)}
             kept == (E \ moved) \cup {Retarget(x[1], x[2]) :
                                         x \in {y \in moved \X D : Listed(y[1], y[2])}}
             known == {[e EXCEPT !.conf = 0, !.sup = FALSE] : e \in kept}
             made == {e \in UNION {ContractEdges(c) : c \in D} : [e EXCEPT !.conf = 0] \notin known}
  <1>1. Materialize(E, D) = kept \cup made
    BY DEF Materialize
  <1>2. \A f \in kept : f \in E \/ \E e \in E, c \in D : Listed(e, c) /\ f = Retarget(e, c)
    OBVIOUS
  <1>3. \A e \in E : e \in kept \/ (e.kind \notin ContractKinds /\ \E c \in D : Retarget(e, c) \in kept)
    <2> SUFFICES ASSUME NEW e \in E, e \in moved
                 PROVE  e.kind \notin ContractKinds /\ \E c \in D : Retarget(e, c) \in kept
      OBVIOUS
    <2>1. PICK c \in D : Listed(e, c)
      OBVIOUS
    <2>2. <<e, c>> \in {y \in moved \X D : Listed(y[1], y[2])} /\ <<e, c>>[1] = e /\ <<e, c>>[2] = c
      BY <2>1
    <2>3. Retarget(e, c) \in kept
      BY <2>2
    <2> QED BY <2>1, <2>3 DEF Listed, ContractKinds
  <1>4. kept \subseteq EdgeOf(M)
    <2>1. \A e \in E, c \in D : Listed(e, c) => e.kind \notin ContractKinds
      BY DEF Listed, ContractKinds
    <2> HIDE DEF kept
    <2> QED BY <1>2, <2>1, RetargetType
  <1>5. ASSUME NEW c \in D, NEW e \in ContractEdges(c) PROVE e \in kept \cup made
    <2>1. SUFFICES ASSUME [e EXCEPT !.conf = 0] \in known PROVE e \in kept
      OBVIOUS
    <2>2. PICK k \in kept : [e EXCEPT !.conf = 0] = [k EXCEPT !.conf = 0, !.sup = FALSE]
      BY <2>1
    <2>3. e \in EdgeOf(M) /\ k \in EdgeOf(M) /\ e.from = None /\ e.kind \in ContractKinds
      BY <1>4, ContractEdgesType
    <2> HIDE DEF kept, known, made
    <2> DEFINE x == [e EXCEPT !.conf = 0]
               y == [k EXCEPT !.conf = 0, !.sup = FALSE]
    <2>4. /\ x.src = e.src /\ x.dst = e.dst /\ x.kind = e.kind /\ x.path = e.path /\ x.from = e.from
          /\ y.src = k.src /\ y.dst = k.dst /\ y.kind = k.kind /\ y.path = k.path /\ y.from = k.from
      BY <2>3 DEF EdgeOf
    <2>5. e.src = k.src /\ e.dst = k.dst /\ e.kind = k.kind /\ e.path = k.path /\ e.from = k.from
      BY <2>2, <2>4
    <2>6. e.conf = k.conf /\ e.sup = k.sup
      BY <2>3, <2>5 DEF EdgeOf
    <2>7. e = k
      BY <2>3, <2>5, <2>6, SameEdge
    <2> QED BY <2>7
  <1>6. \A f \in made : \E c \in D : f \in ContractEdges(c)
    OBVIOUS
  <1> HIDE DEF kept, made
  <1> QED BY <1>1, <1>2, <1>3, <1>5, <1>6

LEMMA TracesMaterialize ==
  ASSUME NEW M, IdSet(M), NEW E0, E0 \subseteq EdgeOf(M),
         NEW C, C \subseteq ContractOf(M), UniqueIds(C), NEW D, D \subseteq C,
         NEW A, NEW E, NEW K, NEW B, Traces(M, E0, C, A, E, K, B)
  PROVE  Traces(M, E0, C, A, Materialize(E, D), K \cup Ids(D), B)
  <1> DEFINE F == Materialize(E, D)
  <1>1. E \subseteq EdgeOf(M) /\ D \subseteq ContractOf(M)
    BY DEF Traces
  <1>2. F \subseteq EdgeOf(M)
    BY <1>1, MaterializeType
  <1>3. \A e \in E : e \in F \/ (e.kind \notin ContractKinds /\ \E c \in D : Retarget(e, c) \in F)
    BY <1>1, MaterializeKeeps
  <1>4. \A c \in D : ContractEdges(c) \subseteq F
    BY <1>1, MaterializeKeeps
  <1>5. \A f \in F : \/ f \in E
                     \/ \E e \in E, c \in D : Listed(e, c) /\ f = Retarget(e, c)
                     \/ \E c \in D : f \in ContractEdges(c)
    BY <1>1, MaterializeKeeps
  <1> HIDE DEF F
  <1>6. \A f \in F : f \in E \/ (f.dst \in M /\ \E c \in D : c.id = f.dst /\ f.src \in c.carriers)
    <2>1. ASSUME NEW e \in E, NEW c \in D, Listed(e, c)
          PROVE  Retarget(e, c).dst = c.id /\ Retarget(e, c).src = e.src /\ e.src \in c.carriers
      BY <1>1, <2>1 DEF Retarget, Listed, EdgeOf
    <2>2. \A c \in D : c.id \in M
      BY <1>1 DEF ContractOf
    <2> QED BY <1>1, <1>5, <2>1, <2>2, ContractEdgesType
  <1>7. ASSUME NEW a \in G_dag(F) PROVE a \in A \/ a[2] \in M
    <2>1. PICK f \in F : OrdersMigration(f) /\ a = <<f.src, f.dst>>
      BY DEF G_dag
    <2>2. f \in E => a \in G_dag(E)
      BY <2>1 DEF G_dag
    <2> QED BY <1>6, <2>1, <2>2 DEF Traces
  <1>8. ASSUME NEW e \in E0, OrdersMigration(e) PROVE Traced(e, C, F, K \cup Ids(D), B)
    <2>1. Traced(e, C, E, K, B)
      BY <1>8 DEF Traces
    <2>2. \A c \in D : c.id \in Ids(D)
      BY DEF Ids
    <2>3. \A c \in C : Retarget(e, c) \in E => Retarget(e, c) \in F
      <3>1. \A c \in C : Retarget(e, c).kind \in ContractKinds
        BY DEF Retarget, ContractKinds, EdgeOf
      <3> QED BY <1>3, <3>1
    <2>4. \A c \in C : Retarget(Cut(e), c) \in E => Retarget(Cut(e), c) \in F
      <3>1. \A c \in C : Retarget(Cut(e), c).kind \in ContractKinds
        BY DEF Retarget, Cut, ContractKinds, EdgeOf
      <3> QED BY <1>3, <3>1
    <2>5. CASE e \in E
      BY <1>3, <2>2, <2>5 DEF Traced
    <2>6. CASE \E c \in C : c.id \in K /\ Retarget(e, c) \in E
      BY <2>3, <2>6 DEF Traced
    <2>7. CASE \E m \in B : /\ {e.src, e.dst} \subseteq m
                            /\ Cut(e) \in E \/ \E c \in C : Retarget(Cut(e), c) \in E
      <3>1. Cut(e) \in E => Cut(e) \in F \/ \E c \in C : Retarget(Cut(e), c) \in F
        BY <1>3
      <3> QED BY <2>4, <2>7, <3>1 DEF Traced
    <2> QED BY <2>1, <2>5, <2>6, <2>7 DEF Traced
  <1>9. ASSUME NEW c \in C, c.id \in K \cup Ids(D) PROVE ContractEdges(c) \subseteq F
    <2>1. CASE c.id \in Ids(D)
      BY <1>4, <2>1 DEF Ids, UniqueIds
    <2>2. CASE c.id \in K
      <3>1. ContractEdges(c) \subseteq E
        BY <2>2 DEF Traces
      <3>2. \A e \in ContractEdges(c) : e.kind \in ContractKinds
        BY ContractEdgesType
      <3> QED BY <1>3, <3>1, <3>2
    <2> QED BY <1>9, <2>1, <2>2
  <1>10. ASSUME NEW f \in F, f.dst \in M PROVE Points(f, E0, C)
    <2>1. f \in E => Points(f, E0, C)
      BY <1>10 DEF Traces
    <2> QED BY <1>6, <2>1 DEF Points
  <1>11. Traces(M, E0, C, A, F, K \cup Ids(D), B)
    BY <1>2, <1>7, <1>8, <1>9, <1>10 DEF Traces
  <1> QED BY <1>11 DEF F

LEMMA TracesSuppress ==
  ASSUME NEW M, IdSet(M), NEW E0, E0 \subseteq EdgeOf(M), NEW C, C \subseteq ContractOf(M),
         NEW A, NEW E, NEW K, NEW B, Traces(M, E0, C, A, E, K, B),
         NEW x \in E, OrdersMigration(x), NEW m, {x.src, x.dst} \subseteq m, m \subseteq Repos
  PROVE  Traces(M, E0, C, A, Suppress(E, x), K, B \cup {m})
  <1> DEFINE F == Suppress(E, x)
  <1>1. E \subseteq EdgeOf(M) /\ x.dst \notin M /\ x.sup = FALSE /\ x \in EdgeOf(M)
    BY DEF Traces, IdSet, EdgeOf, OrdersMigration
  <1>2. Cut(x) \in EdgeOf(M) /\ Cut(x).dst = x.dst /\ ~OrdersMigration(Cut(x))
    BY <1>1 DEF EdgeOf, Cut, OrdersMigration
  <1>3. F = (E \ {x}) \cup {Cut(x)}
    BY DEF Suppress, Cut
  <1> HIDE DEF F
  <1>4. \A f \in F : f \in E \/ f = Cut(x)
    BY <1>3
  <1>5. \A f \in E : f # x => f \in F
    BY <1>3
  <1>6. F \subseteq EdgeOf(M)
    BY <1>1, <1>2, <1>4
  <1>7. ASSUME NEW a \in G_dag(F) PROVE a \in A \/ a[2] \in M
    <2>1. PICK f \in F : OrdersMigration(f) /\ a = <<f.src, f.dst>>
      BY DEF G_dag
    <2>2. a \in G_dag(E)
      BY <1>2, <1>4, <2>1 DEF G_dag
    <2> QED BY <2>2 DEF Traces
  <1>8. ASSUME NEW e \in E0, OrdersMigration(e) PROVE Traced(e, C, F, K, B \cup {m})
    <2>1. Traced(e, C, E, K, B)
      BY <1>8 DEF Traces
    <2>2. \A c \in C : Retarget(e, c).dst \in M /\ Retarget(Cut(e), c).dst \in M
      BY DEF Retarget, Cut, EdgeOf, ContractOf
    <2>3. \A c \in C : /\ Retarget(e, c) \in E => Retarget(e, c) \in F
                       /\ Retarget(Cut(e), c) \in E => Retarget(Cut(e), c) \in F
      BY <1>1, <1>5, <2>2
    <2>4. Cut(e).sup = TRUE
      BY DEF Cut, EdgeOf
    <2>5. Cut(e) \in E => Cut(e) \in F
      BY <1>1, <1>5, <2>4
    <2>6. CASE e \in E
      <3>1. e = x => Cut(e) \in F /\ {e.src, e.dst} \subseteq m
        BY <1>3
      <3> QED BY <1>5, <2>6, <3>1 DEF Traced
    <2>7. CASE \E c \in C : c.id \in K /\ Retarget(e, c) \in E
      BY <2>3, <2>7 DEF Traced
    <2>8. CASE \E k \in B : /\ {e.src, e.dst} \subseteq k
                            /\ Cut(e) \in E \/ \E c \in C : Retarget(Cut(e), c) \in E
      BY <2>3, <2>5, <2>8 DEF Traced
    <2> QED BY <2>1, <2>6, <2>7, <2>8 DEF Traced
  <1>9. ASSUME NEW c \in C, c.id \in K PROVE ContractEdges(c) \subseteq F
    <2>1. ContractEdges(c) \subseteq E
      BY <1>9 DEF Traces
    <2>2. \A e \in ContractEdges(c) : e.dst \in M
      BY ContractEdgesType DEF ContractOf
    <2> QED BY <1>1, <1>5, <2>1, <2>2
  <1>10. ASSUME NEW f \in F, f.dst \in M PROVE Points(f, E0, C)
    <2>1. f \in E
      BY <1>1, <1>2, <1>4, <1>10
    <2> QED BY <1>10, <2>1 DEF Traces
  <1>11. Traces(M, E0, C, A, F, K, B \cup {m})
    BY <1>6, <1>7, <1>8, <1>9, <1>10 DEF Traces
  <1> QED BY <1>11 DEF F

-----------------------------------------------------------------------------
(* The loops of graph/cycles.py keep the trace *)

LEMMA ContractsFinite ==
  ASSUME NEW M, IdSet(M), NEW C, C \subseteq ContractOf(M), UniqueIds(C)
  PROVE  IsFiniteSet(C)
  <1> DEFINE f == [c \in C |-> c.id]
  <1>1. f \in [C -> M]
    BY DEF ContractOf
  <1>2. \A a, b \in C : f[a] = f[b] => a = b
    BY DEF UniqueIds
  <1>3. f \in Injection(C, M)
    BY <1>1, <1>2 DEF Injection, IsInjective
  <1> QED BY <1>3, FS_Injection DEF IdSet

HoistStates(M, E0, C, A, K, B, candidates) ==
  {st \in [E : SUBSET EdgeOf(M), hoisted : SUBSET candidates, rejected : SUBSET candidates] :
     Traces(M, E0, C, A, st.E, K \cup Ids(st.hoisted), B)}

LEMMA HoistRoundStays ==
  ASSUME NEW M, IdSet(M), NEW E0, E0 \subseteq EdgeOf(M),
         NEW C, C \subseteq ContractOf(M), UniqueIds(C), NEW A, NEW K, NEW B,
         NEW candidates, candidates \subseteq C, NEW members,
         NEW st \in HoistStates(M, E0, C, A, K, B, candidates)
  PROVE  HoistRound(st, members, candidates) \in HoistStates(M, E0, C, A, K, B, candidates)
  <1> DEFINE X == HoistStates(M, E0, C, A, K, B, candidates)
             remaining == candidates \ (st.hoisted \cup st.rejected)
             best == BestHoist(remaining, st.E)
             after == Materialize(st.E, {best})
  <1>1. /\ st \in [E : SUBSET EdgeOf(M), hoisted : SUBSET candidates, rejected : SUBSET candidates]
        /\ Traces(M, E0, C, A, st.E, K \cup Ids(st.hoisted), B)
    BY DEF HoistStates
  <1>2. ASSUME remaining # {} PROVE Hoisted(st, best, after) \in X
    <2>1. best \in remaining
      <3>1. st.E \subseteq EdgeOf(M) /\ remaining \subseteq ContractOf(M)
        BY <1>1
      <3> HIDE DEF remaining
      <3> QED BY <1>2, <3>1, BestHoistChosen
    <2>2. best \in candidates /\ {best} \subseteq C
      BY <2>1
    <2> HIDE DEF best
    <2>3. Traces(M, E0, C, A, after, K \cup Ids(st.hoisted) \cup Ids({best}), B)
      <3> HIDE DEF after
      <3> QED BY <1>1, <2>2, TracesMaterialize DEF after
    <2>4. Ids(st.hoisted) \cup Ids({best}) = Ids(st.hoisted \cup {best})
      BY DEF Ids
    <2>5. Traces(M, E0, C, A, after, K \cup Ids(st.hoisted \cup {best}), B)
      <3>1. K \cup Ids(st.hoisted) \cup Ids({best}) = K \cup Ids(st.hoisted \cup {best})
        BY <2>4
      <3> QED BY <2>3, <3>1
    <2>6. after \subseteq EdgeOf(M)
      BY <2>5 DEF Traces
    <2> HIDE DEF after
    <2>7. [st EXCEPT !.rejected = @ \cup {best}] \in X
      BY <1>1, <2>2 DEF HoistStates
    <2>8. [st EXCEPT !.E = after, !.hoisted = @ \cup {best}] \in X
      BY <1>1, <2>2, <2>5, <2>6 DEF HoistStates
    <2> QED BY <2>7, <2>8 DEF Hoisted
  <1>3. HoistRound(st, members, candidates) \in {st, Hoisted(st, best, after)}
        /\ (remaining = {} => HoistRound(st, members, candidates) = st)
    BY DEF HoistRound, HoistChosen
  <1> QED BY <1>2, <1>3

LEMMA HoistLoopStays ==
  ASSUME NEW M, IdSet(M), NEW E0, E0 \subseteq EdgeOf(M),
         NEW C, C \subseteq ContractOf(M), UniqueIds(C), NEW A, NEW K, NEW B,
         NEW candidates, candidates \subseteq C, NEW members,
         NEW start \in HoistStates(M, E0, C, A, K, B, candidates)
  PROVE  HoistLoop(start, members, candidates) \in HoistStates(M, E0, C, A, K, B, candidates)
  <1> DEFINE X == HoistStates(M, E0, C, A, K, B, candidates)
             F == [s \in X |-> HoistRound(s, members, candidates)]
             n == Cardinality(candidates)
             loop(st) == [k \in 0 .. n |-> IF k = 0 THEN start
                                           ELSE HoistRound(st[k - 1], members, candidates)]
  <1>1. n \in Nat
    <2>1. IsFiniteSet(candidates)
      BY ContractsFinite, FS_Subset
    <2> QED BY <2>1, FS_CardinalityType
  <1>2. F \in [X -> X] /\ \A s \in X : F[s] = HoistRound(s, members, candidates)
    BY HoistRoundStays
  <1> HIDE DEF F, X, n
  <1>3. start \in X
    BY DEF X
  <1>4. PICK st : Rounds(start, F, n, st) /\ \A k \in 0 .. n : st[k] \in X
    BY <1>1, <1>2, <1>3, LoopStays
  <1>5. st = loop(st)
    <2>1. \A k \in 0 .. n : k # 0 => F[st[k - 1]] = HoistRound(st[k - 1], members, candidates)
      <3>1. \A k \in 0 .. n : k # 0 => k - 1 \in 0 .. n
        BY <1>1
      <3> QED BY <1>2, <1>4, <3>1
    <2>2. st = [k \in 0 .. n |-> IF k = 0 THEN start ELSE F[st[k - 1]]]
      BY <1>4 DEF Rounds
    <2>3. \A k \in 0 .. n : (IF k = 0 THEN start ELSE F[st[k - 1]])
                             = IF k = 0 THEN start ELSE HoistRound(st[k - 1], members, candidates)
      BY <2>1
    <2> QED BY <2>2, <2>3, Zenon
  <1>6. ASSUME NEW s, s = loop(s) PROVE s[n] \in X
    <2>1. \A k \in 0 .. n : s[k] = IF k = 0 THEN start ELSE HoistRound(s[k - 1], members, candidates)
      BY <1>6, Zenon
    <2>2. s[0] = start
      BY <1>1, <2>1
    <2>3. \A k \in 1 .. n : k \in 0 .. n /\ k # 0
      BY <1>1
    <2>4. \A k \in 1 .. n : s[k - 1] \in X => s[k] \in X
      BY <2>1, <2>3, HoistRoundStays DEF X
    <2> QED BY <1>1, <1>3, <2>2, <2>4, RoundsStay
  <1>7. (CHOOSE s : s = loop(s))[n] \in X
    BY <1>5, <1>6
  <1> QED BY <1>7 DEF HoistLoop, X, n

Breaks(broken, members) == IF broken > 0 THEN {members} ELSE {}

BreakStates(M, E0, C, A, K, B, members) ==
  {st \in [E : SUBSET EdgeOf(M), broken : Nat] :
     Traces(M, E0, C, A, st.E, K, B \cup Breaks(st.broken, members))}

\* What is left of a component is a part of it.
LEMMA LiveWithin ==
  ASSUME NEW M, IdSet(M), NEW E, E \subseteq EdgeOf(M), NEW A,
         \A a \in G_dag(E) : a \in A \/ a[2] \in M,
         NEW members \in NontrivialSccs(A), members \subseteq Repos
  PROVE  LiveComponent(G_dag(E), members) \subseteq members
  <1>1. IsFiniteSet(members)
    BY ScanAssumption, FS_Subset
  <1>2. \A a \in G_dag(E) : a[1] \notin M
    BY GraphEnds DEF IdSet
  <1>3. ASSUME NEW d \in NontrivialSccs(G_dag(E)), d \cap members # {} PROVE d \subseteq members
    BY <1>2, <1>3, SccsShrink
  <1> QED BY <1>1, <1>3, LiveComponentChosen

LEMMA BreakRoundStays ==
  ASSUME NEW M, IdSet(M), NEW E0, E0 \subseteq EdgeOf(M), NEW C, C \subseteq ContractOf(M),
         NEW A, NEW K, NEW B, NEW members \in NontrivialSccs(A), members \subseteq Repos,
         NEW st \in BreakStates(M, E0, C, A, K, B, members)
  PROVE  BreakRound(st, members) \in BreakStates(M, E0, C, A, K, B, members)
  <1> DEFINE X == BreakStates(M, E0, C, A, K, B, members)
             live == LiveComponent(G_dag(st.E), members)
             feedback == FeedbackEdges(st.E, live)
             x == Cheapest(feedback, st.E)
  <1>1. /\ st \in [E : SUBSET EdgeOf(M), broken : Nat]
        /\ Traces(M, E0, C, A, st.E, K, B \cup Breaks(st.broken, members))
    BY DEF BreakStates
  <1>2. live \subseteq members
    BY <1>1, LiveWithin DEF Traces
  <1>3. feedback \subseteq {e \in st.E : OrdersMigration(e) /\ {e.src, e.dst} \subseteq live}
    BY DEF FeedbackEdges
  <1> HIDE DEF live, feedback
  <1>4. ASSUME feedback # {}
        PROVE  [E |-> Suppress(st.E, x), broken |-> st.broken + 1] \in X
    <2>1. x \in feedback
      BY <1>1, <1>3, <1>4, CheapestChosen
    <2>2. x \in st.E /\ OrdersMigration(x) /\ {x.src, x.dst} \subseteq members
      BY <1>2, <1>3, <2>1
    <2> HIDE DEF x
    <2>3. Traces(M, E0, C, A, Suppress(st.E, x), K,
                 (B \cup Breaks(st.broken, members)) \cup {members})
      BY <1>1, <2>2, TracesSuppress
    <2>4. (B \cup Breaks(st.broken, members)) \cup {members}
            = B \cup Breaks(st.broken + 1, members) /\ st.broken + 1 \in Nat
      <3>1. st.broken \in Nat
        BY <1>1
      <3> QED BY <3>1 DEF Breaks
    <2>5. Suppress(st.E, x) \subseteq EdgeOf(M)
      BY <2>3 DEF Traces
    <2>6. Traces(M, E0, C, A, Suppress(st.E, x), K, B \cup Breaks(st.broken + 1, members))
      BY <2>3, <2>4
    <2> QED BY <2>4, <2>5, <2>6 DEF BreakStates
  <1>5. BreakRound(st, members) \in {st, [E |-> Suppress(st.E, x), broken |-> st.broken + 1]}
        /\ (feedback = {} => BreakRound(st, members) = st)
    BY DEF BreakRound, feedback, live
  <1> QED BY <1>4, <1>5

LEMMA BreakLoopStays ==
  ASSUME NEW M, IdSet(M), NEW E0, E0 \subseteq EdgeOf(M), NEW C, C \subseteq ContractOf(M),
         NEW A, NEW K, NEW B, NEW members \in NontrivialSccs(A), members \subseteq Repos,
         NEW E, Traces(M, E0, C, A, E, K, B)
  PROVE  BreakLoop(E, members) \in BreakStates(M, E0, C, A, K, B, members)
  <1> DEFINE X == BreakStates(M, E0, C, A, K, B, members)
             F == [s \in X |-> BreakRound(s, members)]
             n == MaxBreaks
             start == [E |-> E, broken |-> 0]
             loop(st) == [k \in 0 .. n |-> IF k = 0 THEN start ELSE BreakRound(st[k - 1], members)]
  <1>1. n \in Nat
    BY GraphAssumption
  <1>2. F \in [X -> X] /\ \A s \in X : F[s] = BreakRound(s, members)
    BY BreakRoundStays
  <1>3. start \in X
    <2>1. B \cup Breaks(0, members) = B /\ E \subseteq EdgeOf(M)
      BY DEF Breaks, Traces
    <2> QED BY <2>1 DEF BreakStates
  <1> HIDE DEF F, X, n, start
  <1>4. PICK st : Rounds(start, F, n, st) /\ \A k \in 0 .. n : st[k] \in X
    BY <1>1, <1>2, <1>3, LoopStays
  <1>5. st = loop(st)
    <2>1. \A k \in 0 .. n : k # 0 => F[st[k - 1]] = BreakRound(st[k - 1], members)
      <3>1. \A k \in 0 .. n : k # 0 => k - 1 \in 0 .. n
        BY <1>1
      <3> QED BY <1>2, <1>4, <3>1
    <2>2. st = [k \in 0 .. n |-> IF k = 0 THEN start ELSE F[st[k - 1]]]
      BY <1>4 DEF Rounds
    <2>3. \A k \in 0 .. n : (IF k = 0 THEN start ELSE F[st[k - 1]])
                             = IF k = 0 THEN start ELSE BreakRound(st[k - 1], members)
      BY <2>1
    <2> QED BY <2>2, <2>3, Zenon
  <1>6. ASSUME NEW s, s = loop(s) PROVE s[n] \in X
    <2>1. \A k \in 0 .. n : s[k] = IF k = 0 THEN start ELSE BreakRound(s[k - 1], members)
      BY <1>6, Zenon
    <2>2. s[0] = start
      BY <1>1, <2>1
    <2>3. \A k \in 1 .. n : k \in 0 .. n /\ k # 0
      BY <1>1
    <2>4. \A k \in 1 .. n : s[k - 1] \in X => s[k] \in X
      BY <2>1, <2>3, BreakRoundStays DEF X
    <2> QED BY <1>1, <1>3, <2>2, <2>4, RoundsStay
  <1>7. (CHOOSE s : s = loop(s))[n] \in X
    BY <1>5, <1>6
  <1> QED BY <1>7 DEF BreakLoop, X, n, start

Hows == {"CONTRACT_HOIST", "EDGE_BREAK", "ATOMIC_WAVE", "MANUAL"}
ResolutionOf(M) == [members : SUBSET Repos, how : Hows, hoisted : SUBSET M, broken : Nat]
BrokenIn(res) == {r.members : r \in {x \in res : x.broken > 0}}

SccStates(M, E0, C, A, N, K) ==
  {st \in [E : SUBSET EdgeOf(M), N : {N}, committed : SUBSET M, rejected : SUBSET M,
           res : SUBSET ResolutionOf(M), raised : BOOLEAN] :
     /\ Traces(M, E0, C, A, st.E, st.committed, BrokenIn(st.res))
     /\ K \subseteq st.committed /\ st.committed \subseteq Ids(C)
     /\ \A r \in st.res : r.members \in NontrivialSccs(A)}

LEMMA HoistContractsStays ==
  ASSUME NEW M, IdSet(M), NEW E0, E0 \subseteq EdgeOf(M),
         NEW C, C \subseteq ContractOf(M), UniqueIds(C), NEW A, NEW K, NEW B,
         NEW E, Traces(M, E0, C, A, E, K, B),
         NEW members, NEW D, D \subseteq C, NEW forbidden
  PROVE  HoistContracts(E, members, D, forbidden) \in HoistStates(M, E0, C, A, K, B, C)
  <1> DEFINE candidates == {c \in D : c.owner \in members /\ c.status = "EXTRACTABLE"
                                      /\ c.id \notin forbidden}
             start == [E |-> E, hoisted |-> {}, rejected |-> {}]
  <1>1. candidates \subseteq C
    OBVIOUS
  <1>2. start \in HoistStates(M, E0, C, A, K, B, candidates)
    <2>1. K \cup Ids({}) = K /\ E \subseteq EdgeOf(M)
      BY DEF Ids, Traces
    <2> HIDE DEF candidates
    <2> QED BY <2>1 DEF HoistStates
  <1>3. HoistContracts(E, members, D, forbidden) = HoistAll(start, members, candidates)
    BY DEF HoistContracts
  <1> HIDE DEF candidates, start
  <1>4. HoistLoop(start, members, candidates) \in HoistStates(M, E0, C, A, K, B, candidates)
    BY <1>1, <1>2, HoistLoopStays
  <1>5. HoistAll(start, members, candidates) \in HoistStates(M, E0, C, A, K, B, candidates)
    BY <1>2, <1>4 DEF HoistAll
  <1>6. HoistStates(M, E0, C, A, K, B, candidates) \subseteq HoistStates(M, E0, C, A, K, B, C)
    BY <1>1 DEF HoistStates
  <1> QED BY <1>3, <1>5, <1>6

LEMMA ResolveSccStays ==
  ASSUME NEW M, IdSet(M), NEW E0, E0 \subseteq EdgeOf(M),
         NEW C, C \subseteq ContractOf(M), UniqueIds(C), NEW A, NEW N, NEW K, NEW forbidden,
         NEW members \in NontrivialSccs(A), members \subseteq Repos,
         NEW st \in SccStates(M, E0, C, A, N, K)
  PROVE  ResolveScc(st, members, C, forbidden) \in SccStates(M, E0, C, A, N, K)
  <1> DEFINE X == SccStates(M, E0, C, A, N, K)
             D == {c \in C : c.id \notin st.committed}
             h == HoistContracts(st.E, members, D, forbidden)
             b == BreakLoop(h.E, members)
             ids == st.committed \cup Ids(h.hoisted)
  <1>1. /\ st \in [E : SUBSET EdgeOf(M), N : {N}, committed : SUBSET M, rejected : SUBSET M,
                   res : SUBSET ResolutionOf(M), raised : BOOLEAN]
        /\ Traces(M, E0, C, A, st.E, st.committed, BrokenIn(st.res))
        /\ K \subseteq st.committed /\ st.committed \subseteq Ids(C)
        /\ \A r \in st.res : r.members \in NontrivialSccs(A)
    BY DEF SccStates
  <1>2. ASSUME NEW how \in Hows, NEW n \in Nat, NEW S \in SUBSET M
        PROVE  /\ Resolution(members, how, S, n) \in ResolutionOf(M)
               /\ Resolution(members, how, S, n).members = members
               /\ BrokenIn(st.res \cup {Resolution(members, how, S, n)})
                    = BrokenIn(st.res) \cup Breaks(n, members)
    <2> DEFINE r == Resolution(members, how, S, n)
    <2>1. r \in ResolutionOf(M) /\ r.members = members /\ r.broken = n
      BY DEF Resolution, ResolutionOf
    <2> HIDE DEF r
    <2>2. BrokenIn(st.res \cup {r}) = BrokenIn(st.res) \cup Breaks(n, members)
      <3>1. ASSUME NEW m PROVE m \in BrokenIn(st.res \cup {r}) <=> m \in BrokenIn(st.res) \cup Breaks(n, members)
        BY <2>1 DEF BrokenIn, Breaks
      <3> QED BY <3>1
    <2> QED BY <2>1, <2>2 DEF r
  <1>3. h \in HoistStates(M, E0, C, A, st.committed, BrokenIn(st.res), C)
    <2> HIDE DEF h
    <2>1. D \subseteq C
      OBVIOUS
    <2> HIDE DEF D
    <2> QED BY <1>1, <2>1, HoistContractsStays DEF h
  <1>4. /\ h \in [E : SUBSET EdgeOf(M), hoisted : SUBSET C, rejected : SUBSET C]
        /\ Traces(M, E0, C, A, h.E, ids, BrokenIn(st.res))
    BY <1>3 DEF HoistStates
  <1>5. b \in BreakStates(M, E0, C, A, ids, BrokenIn(st.res), members)
    <2> HIDE DEF h, ids
    <2> QED BY <1>4, BreakLoopStays
  <1>6. /\ b \in [E : SUBSET EdgeOf(M), broken : Nat]
        /\ Traces(M, E0, C, A, b.E, ids, BrokenIn(st.res) \cup Breaks(b.broken, members))
    BY <1>5 DEF BreakStates
  <1>7. /\ Ids(h.hoisted) \subseteq M /\ Ids(h.rejected) \subseteq M /\ Ids(h.hoisted) \subseteq Ids(C)
        /\ st.rejected \cup Ids(h.rejected) \subseteq M
        /\ ids \subseteq M /\ ids \subseteq Ids(C) /\ K \subseteq ids
    <2>1. \A S : S \subseteq C => Ids(S) \subseteq M /\ Ids(S) \subseteq Ids(C)
      BY DEF Ids, ContractOf
    <2> QED BY <1>1, <1>4, <2>1
  <1> HIDE DEF h, b
  <1>8. Dissolved(st, members, h) \in X
    <2> DEFINE r == Resolution(members, "CONTRACT_HOIST", Ids(h.hoisted), 0)
    <2>1. r \in ResolutionOf(M) /\ r.members = members /\ BrokenIn(st.res \cup {r}) = BrokenIn(st.res)
      <3>1. "CONTRACT_HOIST" \in Hows /\ 0 \in Nat /\ Breaks(0, members) = {}
        BY DEF Hows, Breaks
      <3> QED BY <1>2, <1>7, <3>1
    <2> HIDE DEF r
    <2>2. [st EXCEPT !.E = h.E, !.committed = @ \cup Ids(h.hoisted),
                     !.rejected = @ \cup Ids(h.rejected), !.res = @ \cup {r}] \in X
      BY <1>1, <1>4, <1>7, <2>1 DEF SccStates
    <2>3. [st EXCEPT !.raised = TRUE] \in X
      BY <1>1 DEF SccStates
    <2> QED BY <2>2, <2>3 DEF Dissolved, r
  <1>9. Broken(st, members, h, b) \in X
    <2> DEFINE how == IF LiveComponent(G_dag(b.E), members) = {} THEN "EDGE_BREAK" ELSE "ATOMIC_WAVE"
               r == Resolution(members, how, Ids(h.hoisted), b.broken)
    <2>1. r \in ResolutionOf(M) /\ r.members = members
          /\ BrokenIn(st.res \cup {r}) = BrokenIn(st.res) \cup Breaks(b.broken, members)
      <3>1. how \in Hows /\ b.broken \in Nat
        BY <1>6 DEF Hows
      <3> HIDE DEF how
      <3> QED BY <1>2, <1>7, <3>1
    <2>2. Broken(st, members, h, b)
            = [st EXCEPT !.E = b.E, !.committed = @ \cup Ids(h.hoisted),
                         !.rejected = @ \cup Ids(h.rejected), !.res = @ \cup {r}]
      BY DEF Broken
    <2> HIDE DEF r
    <2>3. [st EXCEPT !.E = b.E, !.committed = @ \cup Ids(h.hoisted),
                     !.rejected = @ \cup Ids(h.rejected), !.res = @ \cup {r}] \in X
      BY <1>1, <1>6, <1>7, <2>1 DEF SccStates
    <2> QED BY <2>2, <2>3
  <1>10. [st EXCEPT !.res = @ \cup {Resolution(members, "MANUAL", {}, 0)}] \in X
    <2> DEFINE r == Resolution(members, "MANUAL", {}, 0)
    <2>1. r \in ResolutionOf(M) /\ r.members = members /\ BrokenIn(st.res \cup {r}) = BrokenIn(st.res)
      <3>1. "MANUAL" \in Hows /\ 0 \in Nat /\ Breaks(0, members) = {} /\ {} \in SUBSET M
        BY DEF Hows, Breaks
      <3> QED BY <1>2, <3>1
    <2> HIDE DEF r
    <2>2. [st EXCEPT !.res = @ \cup {r}] \in X
      BY <1>1, <2>1 DEF SccStates
    <2> QED BY <2>2 DEF r
  <1> HIDE DEF X
  <1>11. AfterHoists(st, members, h) \in X
    BY <1>8, <1>9 DEF AfterHoists, b
  <1> QED BY <1>10, <1>11 DEF ResolveScc, X, h

LEMMA BreakSccsStays ==
  ASSUME NEW M, IdSet(M), NEW E0, E0 \subseteq EdgeOf(M),
         NEW C, C \subseteq ContractOf(M), UniqueIds(C), NEW N, NEW K, NEW forbidden, NEW start,
         start \in SccStates(M, E0, C, G_dag(start.E), N, K)
  PROVE  BreakSccs(start, C, forbidden) \in SccStates(M, E0, C, G_dag(start.E), N, K)
  <1> DEFINE A == G_dag(start.E)
             X == SccStates(M, E0, C, A, N, K)
             sccs == NontrivialSccs(A)
             F == [s \in X |-> SccRound(s, sccs, C, forbidden)]
             n == Cardinality(sccs)
             loop(st) == [k \in 0 .. n |-> IF k = 0 THEN start
                                           ELSE SccRound(st[k - 1], sccs, C, forbidden)]
  <1>1. start.E \subseteq EdgeOf(M)
    BY DEF SccStates
  <1>2. sccs \subseteq SUBSET Repos /\ IsFiniteSet(sccs) /\ \A c \in sccs : Least(c) \in Nat
    BY <1>1, SccsOfRepos
  <1>3. n \in Nat
    BY <1>2, FS_CardinalityType
  <1>4. ASSUME NEW s \in X PROVE SccRound(s, sccs, C, forbidden) \in X
    <2> DEFINE todo == sccs \ {r.members : r \in s.res}
    <2>1. todo \subseteq sccs
      OBVIOUS
    <2> HIDE DEF todo
    <2>2. ASSUME todo # {} PROVE ResolveScc(s, NextScc(todo), C, forbidden) \in X
      <3>1. NextScc(todo) \in todo
        BY <1>2, <2>1, <2>2, NextSccChosen
      <3>2. NextScc(todo) \in NontrivialSccs(A) /\ NextScc(todo) \subseteq Repos
        BY <1>2, <2>1, <3>1
      <3> HIDE DEF A
      <3> QED BY <3>2, ResolveSccStays
    <2> HIDE DEF X
    <2> QED BY <2>2 DEF SccRound, todo
  <1>5. start \in X
    OBVIOUS
  <1>6. F \in [X -> X] /\ \A s \in X : F[s] = SccRound(s, sccs, C, forbidden)
    <2> HIDE DEF X, sccs
    <2> QED BY <1>4
  <1>7. BreakSccs(start, C, forbidden) = (CHOOSE s : s = loop(s))[n]
    BY DEF BreakSccs
  <1> HIDE DEF F, X, sccs, n
  <1>8. PICK st : Rounds(start, F, n, st) /\ \A k \in 0 .. n : st[k] \in X
    BY <1>3, <1>5, <1>6, LoopStays
  <1>9. st = loop(st)
    <2>1. \A k \in 0 .. n : k # 0 => F[st[k - 1]] = SccRound(st[k - 1], sccs, C, forbidden)
      <3>1. \A k \in 0 .. n : k # 0 => k - 1 \in 0 .. n
        BY <1>3
      <3> QED BY <1>6, <1>8, <3>1
    <2>2. st = [k \in 0 .. n |-> IF k = 0 THEN start ELSE F[st[k - 1]]]
      BY <1>8 DEF Rounds
    <2>3. \A k \in 0 .. n : (IF k = 0 THEN start ELSE F[st[k - 1]])
                             = IF k = 0 THEN start ELSE SccRound(st[k - 1], sccs, C, forbidden)
      BY <2>1
    <2> QED BY <2>2, <2>3, Zenon
  <1>10. ASSUME NEW s, s = loop(s) PROVE s[n] \in X
    <2>1. \A k \in 0 .. n : s[k] = IF k = 0 THEN start ELSE SccRound(s[k - 1], sccs, C, forbidden)
      BY <1>10, Zenon
    <2>2. s[0] = start
      BY <1>3, <2>1
    <2>3. \A k \in 1 .. n : k \in 0 .. n /\ k # 0
      BY <1>3
    <2>4. \A k \in 1 .. n : s[k - 1] \in X => s[k] \in X
      BY <1>4, <2>1, <2>3
    <2> QED BY <1>3, <1>5, <2>2, <2>4, RoundsStay
  <1>11. (CHOOSE s : s = loop(s))[n] \in X
    BY <1>9, <1>10
  <1> QED BY <1>7, <1>11 DEF X

\* What break_cycles promises of the nodes, edges and contracts it is given.
Dissolves(M, N, E, C, R) ==
  /\ R \in [E : SUBSET EdgeOf(M), N : {N \cup R.committed}, committed : SUBSET M,
            rejected : SUBSET M, res : SUBSET ResolutionOf(M), raised : BOOLEAN]
  /\ {c.id : c \in {x \in C : x.status \in Committed}} \subseteq R.committed
  /\ R.committed \subseteq Ids(C)
  /\ \E A : /\ Traces(M, E, C, A, R.E, R.committed, BrokenIn(R.res))
            /\ \A r \in R.res : r.members \in NontrivialSccs(A)

LEMMA BreakCyclesDissolves ==
  ASSUME NEW M, IdSet(M), NEW E, E \subseteq EdgeOf(M),
         NEW C, C \subseteq ContractOf(M), UniqueIds(C), NEW N, NEW forbidden
  PROVE  Dissolves(M, N, E, C, BreakCycles(N, E, C, forbidden))
  <1> DEFINE D == {c \in C : c.status \in Committed}
             start == [E |-> Materialize(E, D), N |-> N, committed |-> Ids(D),
                       rejected |-> {}, res |-> {}, raised |-> Dangling(N, E)]
             A == G_dag(start.E)
             end == BreakSccs(start, C, forbidden)
  <1>1. BreakCycles(N, E, C, forbidden) = WithContracts(end)
    BY DEF BreakCycles, BreakCommitted, Committed
  <1>2. D \subseteq C
    OBVIOUS
  <1>3. Ids(D) = {c.id : c \in {x \in C : x.status \in Committed}}
    BY DEF Ids
  <1> HIDE DEF D
  <1>4. Traces(M, E, C, G_dag(E), E, {}, {})
    BY DEF Traces, Traced, Points
  <1>5. Traces(M, E, C, G_dag(E), Materialize(E, D), {} \cup Ids(D), {})
    BY <1>2, <1>4, TracesMaterialize
  <1>6. Traces(M, E, C, A, start.E, Ids(D), {})
    <2>1. {} \cup Ids(D) = Ids(D) /\ start.E = Materialize(E, D)
      OBVIOUS
    <2> QED BY <1>5, <2>1 DEF Traces
  <1>7. start \in SccStates(M, E, C, A, N, Ids(D))
    <2>1. BrokenIn({}) = {}
      BY DEF BrokenIn
    <2>2. Ids(D) \subseteq Ids(C) /\ Ids(D) \subseteq M
      BY <1>2 DEF Ids, ContractOf
    <2>3. Dangling(N, E) \in BOOLEAN
      BY DEF Dangling
    <2>4. start.E \subseteq EdgeOf(M)
      BY <1>6 DEF Traces
    <2>5. /\ start.committed = Ids(D) /\ start.res = {} /\ start.E \in SUBSET EdgeOf(M)
          /\ start \in [E : SUBSET EdgeOf(M), N : {N}, committed : SUBSET M, rejected : SUBSET M,
                        res : SUBSET ResolutionOf(M), raised : BOOLEAN]
      BY <2>2, <2>3, <2>4
    <2> HIDE DEF start, A
    <2> QED BY <1>6, <2>1, <2>2, <2>5 DEF SccStates
  <1>8. end \in SccStates(M, E, C, A, N, Ids(D))
    <2> HIDE DEF start
    <2> QED BY <1>7, BreakSccsStays
  <1> HIDE DEF start, A, end
  <1>9. Dissolves(M, N, E, C, WithContracts(end))
    BY <1>3, <1>8 DEF SccStates, WithContracts, Dissolves
  <1> QED BY <1>1, <1>9

-----------------------------------------------------------------------------
(* graph/sequence.py: an arc leads to an earlier wave *)

\* Of two ends of an arc of an acyclic graph, only one reaches the other.
LEMMA NoWayBack ==
  ASSUME NEW A, IsFiniteSet(A), IsAcyclic(A), NEW a \in A, a[1] # a[2]
  PROVE  a[1] \notin Reach(A, a[2])
  <1>1. SUFFICES ASSUME a[1] \in Reach(A, a[2]) PROVE FALSE
    OBVIOUS
  <1> DEFINE x == a[1]
             y == a[2]
             ends == {b[1] : b \in A} \cap {b[2] : b \in A}
             scc(n) == {m \in Reach(A, n) : n \in Reach(A, m)}
  <1>2. \E b \in A : b[2] = x
    <2>1. SUFFICES ASSUME \A b \in A : b[2] # x PROVE FALSE
      OBVIOUS
    <2> DEFINE S == (Ends(A) \cup {y}) \ {x}
    <2>2. Closed(A, S) /\ y \in S
      BY <2>1 DEF Closed, Ends
    <2> HIDE DEF S
    <2>3. Reach(A, y) \subseteq S
      BY <2>2, ReachWithin
    <2> QED BY <1>1, <2>3 DEF S
  <1>3. x \in ends
    BY <1>2
  <1>4. {x, y} \subseteq scc(x)
    BY <1>1, ReachSelf, ReachArc
  <1>5. Cardinality(scc(x)) > 1
    <2>1. IsFiniteSet(scc(x))
      BY GraphFinite, FS_Subset
    <2>2. Cardinality({x, y}) = 2 /\ IsFiniteSet({x, y})
      <3>1. x # y
        OBVIOUS
      <3> HIDE DEF x, y
      <3>2. {x, y} = {x} \cup {y} /\ y \notin {x}
        BY <3>1
      <3>3. IsFiniteSet({x}) /\ Cardinality({x}) = 1
        BY FS_Singleton
      <3>4. IsFiniteSet({x} \cup {y}) /\ Cardinality({x} \cup {y}) = Cardinality({x}) + 1
        BY <3>2, <3>3, FS_AddElement
      <3> QED BY <3>2, <3>3, <3>4
    <2> HIDE DEF scc, x, y
    <2>3. Cardinality({x, y}) <= Cardinality(scc(x)) /\ Cardinality(scc(x)) \in Nat
      BY <1>4, <2>1, FS_Subset, FS_CardinalityType
    <2> QED BY <2>2, <2>3
  <1>6. scc(x) \in NontrivialSccs(A)
    BY <1>3, <1>5 DEF NontrivialSccs
  <1> QED BY <1>6 DEF IsAcyclic

LEMMA LayerOfChain ==
  ASSUME NEW A, IsFiniteSet(A), NEW n
  PROVE  /\ Layer(A, n) \in Nat
         /\ \E T \in SUBSET Descendants(A, n) : Chain(A, T) /\ Cardinality(T) = Layer(A, n)
         /\ \A T \in SUBSET Descendants(A, n) : Chain(A, T) => Cardinality(T) <= Layer(A, n)
  <1> DEFINE chains == {T \in SUBSET Descendants(A, n) : Chain(A, T)}
             lengths == {Cardinality(S) : S \in chains}
  <1>1. IsFiniteSet(Descendants(A, n))
    BY GraphFinite, FS_Subset DEF Descendants
  <1>2. \A T \in chains : Cardinality(T) \in Nat /\ Cardinality(T) <= Cardinality(Descendants(A, n))
    BY <1>1, FS_Subset, FS_CardinalityType
  <1>3. {} \in chains
    BY DEF Chain
  <1>4. lengths \subseteq Nat /\ lengths # {} /\ \A k \in lengths : k <= Cardinality(Descendants(A, n))
    BY <1>2, <1>3
  <1>5. Cardinality(Descendants(A, n)) \in Nat
    BY <1>1, FS_CardinalityType
  <1>6. Highest(lengths) \in lengths /\ \A k \in lengths : k <= Highest(lengths)
    <2> HIDE DEF lengths
    <2> QED BY <1>4, <1>5, HighestNumber
  <1>7. Layer(A, n) = Highest(lengths)
    BY DEF Layer
  <1> HIDE DEF chains
  <1>8. /\ Layer(A, n) \in Nat
        /\ \E T \in chains : Cardinality(T) = Layer(A, n)
        /\ \A T \in chains : Cardinality(T) <= Layer(A, n)
    BY <1>4, <1>6, <1>7
  <1> QED BY <1>8 DEF chains

LEMMA LayerFalls ==
  ASSUME NEW A, IsFiniteSet(A), IsAcyclic(A), NEW a \in A, a[1] # a[2]
  PROVE  Layer(A, a[2]) < Layer(A, a[1]) /\ Layer(A, a[2]) \in Nat /\ Layer(A, a[1]) \in Nat
  <1> DEFINE x == a[1]
             y == a[2]
  <1>1. y \in Reach(A, x) /\ x \notin Reach(A, y) /\ x # y
    BY ReachArc, NoWayBack
  <1> HIDE DEF x, y
  <1>2. PICK T \in SUBSET Descendants(A, y) : Chain(A, T) /\ Cardinality(T) = Layer(A, y)
    BY LayerOfChain
  <1>3. T \cup {y} \in SUBSET Descendants(A, x)
    <2>1. Reach(A, y) \subseteq Reach(A, x)
      BY <1>1, ReachTransitive
    <2> QED BY <1>1, <2>1 DEF Descendants
  <1>4. Chain(A, T \cup {y})
    BY <1>2, ReachSelf DEF Chain, Descendants
  <1>5. y \notin T /\ IsFiniteSet(T)
    <2>1. IsFiniteSet(Descendants(A, y)) /\ y \notin Descendants(A, y)
      BY GraphFinite, FS_Subset DEF Descendants
    <2> QED BY <2>1, FS_Subset
  <1>6. Cardinality(T \cup {y}) = Cardinality(T) + 1
    BY <1>5, FS_AddElement
  <1>7. Cardinality(T \cup {y}) <= Layer(A, x)
    BY <1>3, <1>4, LayerOfChain
  <1>8. Layer(A, x) \in Nat /\ Layer(A, y) \in Nat
    BY LayerOfChain
  <1>9. Layer(A, y) < Layer(A, x)
    BY <1>2, <1>6, <1>7, <1>8
  <1> QED BY <1>8, <1>9 DEF x, y

LEMMA AtomicOfRepos ==
  ASSUME NEW M, NEW N, NEW E, NEW C, NEW R, Dissolves(M, N, E, C, R)
  PROVE  /\ \A m \in AtomicMembers(R) : m \subseteq Repos /\ Least(m) \in m
         /\ \A m, k \in AtomicMembers(R) : m \cap k # {} => m = k
  <1>1. PICK A : \A r \in R.res : r.members \in NontrivialSccs(A)
    BY DEF Dissolves
  <1>2. \A m \in AtomicMembers(R) : m \in NontrivialSccs(A) /\ m \subseteq Repos
    BY <1>1 DEF AtomicMembers, Dissolves, ResolutionOf
  <1>3. ASSUME NEW m \in AtomicMembers(R) PROVE Least(m) \in m
    <2>1. m \subseteq Nat /\ m # {}
      BY <1>2, SccMembers, ScanAssumption
    <2> QED BY <2>1, LeastNumber DEF Least
  <1> QED BY <1>2, <1>3, SccsDisjoint

\* Two nodes that count as one are members of one atomic component.
LEMMA UnitsApart ==
  ASSUME NEW M, NEW N, NEW E, NEW C, NEW R, Dissolves(M, N, E, C, R)
  PROVE  /\ \A n \in Repos \cup M : Unit(R, n) \in Repos \cup M
         /\ \A n, k : Unit(R, n) = Unit(R, k) => n = k \/ \E m \in AtomicMembers(R) : {n, k} \subseteq m
  <1>1. ASSUME NEW n, NEW m \in AtomicMembers(R), n \in m PROVE Unit(R, n) = Least(m)
    BY <1>1, AtomicOfRepos DEF Unit
  <1>2. ASSUME NEW n, \A m \in AtomicMembers(R) : n \notin m PROVE Unit(R, n) = n
    BY <1>2 DEF Unit
  <1>3. ASSUME NEW n \in Repos \cup M PROVE Unit(R, n) \in Repos \cup M
    BY <1>1, <1>2, AtomicOfRepos
  <1>4. ASSUME NEW n, NEW k, Unit(R, n) = Unit(R, k)
        PROVE  n = k \/ \E m \in AtomicMembers(R) : {n, k} \subseteq m
    <2>1. CASE \E m \in AtomicMembers(R) : n \in m
      <3>1. PICK m \in AtomicMembers(R) : n \in m
        BY <2>1
      <3>2. Unit(R, k) \in m
        BY <1>1, <1>4, <3>1, AtomicOfRepos
      <3>3. CASE \E i \in AtomicMembers(R) : k \in i
        <4>1. PICK i \in AtomicMembers(R) : k \in i
          BY <3>3
        <4>2. Unit(R, k) \in i
          BY <1>1, <4>1, AtomicOfRepos
        <4>3. i = m
          BY <3>2, <4>2, AtomicOfRepos
        <4> QED BY <3>1, <4>1, <4>3
      <3>4. CASE \A i \in AtomicMembers(R) : k \notin i
        BY <1>2, <3>1, <3>2, <3>4
      <3> QED BY <3>3, <3>4
    <2>2. CASE \A m \in AtomicMembers(R) : n \notin m
      <3>1. Unit(R, k) = n
        BY <1>2, <1>4, <2>2
      <3>2. CASE \E i \in AtomicMembers(R) : k \in i
        BY <1>1, <2>2, <3>1, <3>2, AtomicOfRepos
      <3>3. CASE \A i \in AtomicMembers(R) : k \notin i
        BY <1>2, <3>1, <3>3
      <3> QED BY <3>2, <3>3
    <2> QED BY <2>1, <2>2
  <1> QED BY <1>3, <1>4

\* Every node of the result that is not gated has a wave, and an ordering edge
\* of the result leads to an earlier one or stays within an atomic component.
LEMMA WavesOrder ==
  ASSUME NEW M, IdSet(M), NEW N, NEW E, NEW C, NEW R, Dissolves(M, N, E, C, R),
         ManualMembers(R) = {}, NEW gated, ~Cyclic(R, gated)
  PROVE  LET w == AssignWaves(R, gated)
         IN  /\ R.N \ gated \subseteq DOMAIN w /\ DOMAIN w \subseteq R.N /\ w \in [DOMAIN w -> Nat]
             /\ \A e \in R.E : OrdersMigration(e) /\ {e.src, e.dst} \subseteq DOMAIN w \ gated =>
                  w[e.dst] < w[e.src] \/ \E m \in AtomicMembers(R) : {e.src, e.dst} \subseteq m
  <1> DEFINE kept == R.N \ gated
             arcs == {<<Unit(R, a[1]), Unit(R, a[2])>> :
                        a \in {b \in G_dag(R.E) : {b[1], b[2]} \cap gated = {}}}
             Nodes == {Unit(R, n) : n \in kept}
             A == {a \in arcs : a[1] # a[2]}
             w == AssignWaves(R, gated)
  <1>1. CondenseForOrdering(R, gated) = [N |-> Nodes, A |-> A]
    <2>1. ManualMembers(R) \cup gated = gated
      OBVIOUS
    <2> QED BY <2>1 DEF CondenseForOrdering
  <1>2. w = [n \in {m \in R.N : Unit(R, m) \in Nodes} |-> Layer(A, Unit(R, n))]
    BY <1>1 DEF AssignWaves, WavesOf
  <1>3. IsAcyclic(A)
    BY <1>1 DEF Cyclic
  <1>4. R.N \ gated \subseteq DOMAIN w
    BY <1>2
  <1>5. R.E \subseteq EdgeOf(M)
    BY DEF Dissolves
  <1>6. IsFiniteSet(A)
    <2>1. IsFiniteSet(Repos \cup M)
      BY ScanAssumption, FS_Union DEF IdSet
    <2>2. IsFiniteSet((Repos \cup M) \X (Repos \cup M))
      BY <2>1, FS_Product
    <2>3. A \subseteq (Repos \cup M) \X (Repos \cup M)
      <3>1. \A a \in G_dag(R.E) : a[1] \in Repos \cup M /\ a[2] \in Repos \cup M
        BY <1>5, GraphEnds
      <3> QED BY <3>1, UnitsApart
    <2> QED BY <2>2, <2>3, FS_Subset
  <1>7. ASSUME NEW e \in R.E, OrdersMigration(e), {e.src, e.dst} \subseteq DOMAIN w \ gated,
               ~\E m \in AtomicMembers(R) : {e.src, e.dst} \subseteq m
        PROVE  w[e.dst] < w[e.src]
    <2> DEFINE s == Unit(R, e.src)
               d == Unit(R, e.dst)
    <2>1. e.src # e.dst
      BY <1>5 DEF EdgeOf
    <2>2. s # d
      BY <1>7, <2>1, UnitsApart
    <2>3. <<e.src, e.dst>> \in G_dag(R.E)
      BY <1>7 DEF G_dag
    <2>4. <<s, d>> \in arcs
      <3>1. <<e.src, e.dst>> \in {b \in G_dag(R.E) : {b[1], b[2]} \cap gated = {}}
            /\ <<e.src, e.dst>>[1] = e.src /\ <<e.src, e.dst>>[2] = e.dst
        BY <1>7, <2>3
      <3> QED BY <3>1
    <2>5. <<s, d>> \in A /\ <<s, d>>[1] = s /\ <<s, d>>[2] = d
      BY <2>2, <2>4
    <2> HIDE DEF s, d, A
    <2>6. Layer(A, d) < Layer(A, s)
      BY <1>3, <1>6, <2>2, <2>5, LayerFalls
    <2>7. w[e.dst] = Layer(A, d) /\ w[e.src] = Layer(A, s)
      <3> HIDE DEF Nodes
      <3> QED BY <1>2, <1>7 DEF s, d
    <2> QED BY <2>6, <2>7
  <1>9. DOMAIN w \subseteq R.N /\ w \in [DOMAIN w -> Nat]
    <2>1. \A n : Layer(A, n) \in Nat
      BY <1>6, LayerOfChain
    <2> HIDE DEF A, Nodes
    <2> QED BY <1>2, <2>1
  <1> HIDE DEF w
  <1>8. \A e \in R.E : OrdersMigration(e) /\ {e.src, e.dst} \subseteq DOMAIN w \ gated =>
          w[e.dst] < w[e.src] \/ \E m \in AtomicMembers(R) : {e.src, e.dst} \subseteq m
    BY <1>7
  <1> QED BY <1>4, <1>8, <1>9 DEF w

-----------------------------------------------------------------------------
(* Types of the state *)

ContractIds == Ids(world.idl)
RowStates == {"ABSENT", "PENDING", "RUNNING", "RETRY", "SUCCEEDED", "SKIPPED", "RHI"}
ScanPcs == {"idle", "reap", "wave", "red", "edges", "blobs", "read", "write"}

TablesOf ==
  [published : SUBSET Repos, primary : SUBSET Repos, manifests : SUBSET Repos,
   symbols : SUBSET Repos, blobs : SUBSET Repos, red : SUBSET Repos,
   findings : SUBSET (Repos \X {"EmptyRepo", "BaselineRed"})]

ScanOf ==
  [pc : ScanPcs, fleet : SUBSET Repos, deps : SUBSET world.deps, syms : SUBSET Repos,
   gated : SUBSET Repos, red : SUBSET Repos, committed : SUBSET ContractOf(ContractIds),
   done : SUBSET [repo : Repos, becomes : RowStates, next : Nat], stop : BOOLEAN]

\* What both commands read.
StoreTypes ==
  /\ world \in Worlds
  /\ edges \subseteq EdgeOf(ContractIds)
  /\ contracts \subseteq ContractOf(ContractIds) /\ UniqueIds(contracts)

ScanTypes ==
  /\ row \in [Repos -> RowStates] /\ owed \in [Repos -> Nat]
  /\ tables \in TablesOf /\ scan \in ScanOf /\ UniqueIds(scan.committed)

LEMMA ContractIdSet ==
  ASSUME world \in Worlds
  PROVE  IdSet(ContractIds)
  <1> DEFINE f == [c \in world.idl |-> c.id]
  <1>1. f \in Surjection(world.idl, ContractIds)
    BY DEF Surjection, ContractIds, Ids
  <1>2. IsFiniteSet(ContractIds)
    BY <1>1, FS_Surjection, ScanAssumption
  <1>3. ContractIds \subseteq Nat \ Repos
    BY ScanAssumption DEF ContractIds, Ids
  <1> QED BY <1>2, <1>3 DEF IdSet

LEMMA InferTypes ==
  ASSUME world \in Worlds, NEW deps, deps \subseteq world.deps, NEW owners, NEW syms
  PROVE  InferEdges(deps, owners, syms) \subseteq {e \in EdgeOf(ContractIds) : e.dst \in Repos}
  <1>1. ASSUME NEW d \in deps PROVE RepoEdge(d) \in EdgeOf(ContractIds) /\ RepoEdge(d).dst \in Repos
    <2>1. d \in [src : Repos, dst : Repos, via : Via, path : Nat \cup {None}] /\ d.src # d.dst
      BY ScanAssumption
    <2>2. KindOf(d.via) \in DOMAIN KindRank \ ContractKinds
      BY <2>1 DEF Via, KindOf, KindRank, ContractKinds
    <2>3. Score(d.via) \in Nat
      BY <2>1 DEF Via, Score
    <2>4. d.dst \notin ContractIds
      BY <2>1, ContractIdSet DEF IdSet
    <2> HIDE DEF ContractKinds
    <2>5. /\ RepoEdge(d) \in [src : Repos, dst : Repos \cup ContractIds, kind : DOMAIN KindRank,
                              conf : Nat, path : Nat \cup {None}, from : Nat \cup {None}, sup : BOOLEAN]
          /\ RepoEdge(d).src = d.src /\ RepoEdge(d).dst = d.dst /\ RepoEdge(d).kind = KindOf(d.via)
      BY <2>1, <2>2, <2>3 DEF RepoEdge
    <2> QED BY <2>1, <2>2, <2>4, <2>5 DEF EdgeOf
  <1>2. \A e \in InferEdges(deps, owners, syms) : \E d \in deps : e = RepoEdge(d)
    BY DEF InferEdges, ManifestEdges, ImportEdges, ApiContractEdges
  <1> QED BY <1>1, <1>2

\* Every contract is known by its id, and by carriers whose symbols are there.
Found(x) == DiscoverCarriers(x) # {}
Known ==
  /\ \A c \in contracts : \E x \in world.idl :
       x.id = c.id /\ c.carriers \subseteq DiscoverCarriers(x) /\ Found(x)
  /\ \A p \in scan.committed : \E x \in world.idl : x.id = p.id /\ Found(x)

LEMMA DiscoverTypes ==
  ASSUME world \in Worlds
  PROVE  /\ DiscoverContracts \subseteq ContractOf(ContractIds) /\ UniqueIds(DiscoverContracts)
         /\ \A c \in DiscoverContracts : \E x \in world.idl :
              x.id = c.id /\ c.carriers = DiscoverCarriers(x) /\ Found(x)
         /\ \A x \in world.idl : Found(x) =>
              \E c \in DiscoverContracts : x.id = c.id /\ c.carriers = DiscoverCarriers(x)
  <1>1. ASSUME NEW x \in world.idl, Found(x)
        PROVE  /\ BuildNode(x, DiscoverCarriers(x)) \in ContractOf(ContractIds)
               /\ BuildNode(x, DiscoverCarriers(x)).id = x.id
               /\ BuildNode(x, DiscoverCarriers(x)).carriers = DiscoverCarriers(x)
    <2> DEFINE sources == DiscoverCarriers(x)
    <2>1. /\ x \in [id : Nat \ Repos, owner : Repos, carriers : SUBSET Repos,
                    refers : SUBSET Repos, fit : BOOLEAN]
          /\ x.id \in ContractIds
      BY ScanAssumption DEF ContractIds, Ids
    <2>2. sources \subseteq Repos /\ sources # {}
      BY <1>1, <2>1 DEF DiscoverCarriers, Found
    <2> HIDE DEF sources
    <2>3. OwnerOf(x, sources) \in Repos
      <3>1. \E n \in sources : \A m \in sources : n <= m
        BY <2>2, ScanAssumption, LeastNumber
      <3> QED BY <2>1, <2>2, <3>1 DEF OwnerOf, Least
    <2>4. ConsumersFor(x, sources) \subseteq Repos
      BY <2>1, <2>2 DEF ConsumersFor
    <2>5. Extractable(x, sources) \in BOOLEAN
      BY <2>1 DEF Extractable
    <2>6. sources \ {OwnerOf(x, sources)} \subseteq ConsumersFor(x, sources)
      BY DEF ConsumersFor
    <2> DEFINE b == BuildNode(x, sources)
    <2>7. /\ b.id = x.id /\ b.owner = OwnerOf(x, sources) /\ b.carriers = sources
          /\ b.consumers = ConsumersFor(x, sources)
          /\ b \in [id : ContractIds, owner : Repos, carriers : SUBSET Repos,
                    consumers : SUBSET Repos, ext : BOOLEAN, status : Statuses]
      BY <2>1, <2>2, <2>3, <2>4, <2>5 DEF BuildNode, Statuses
    <2> HIDE DEF b
    <2> QED BY <2>6, <2>7 DEF ContractOf, sources, b
  <1>2. \A c \in DiscoverContracts : \E x \in world.idl : Found(x) /\ c = BuildNode(x, DiscoverCarriers(x))
    BY DEF DiscoverContracts, Found
  <1>3. \A x \in world.idl : Found(x) => BuildNode(x, DiscoverCarriers(x)) \in DiscoverContracts
    BY DEF DiscoverContracts, Found
  <1>4. UniqueIds(DiscoverContracts)
    <2> SUFFICES ASSUME NEW c \in DiscoverContracts, NEW d \in DiscoverContracts, c.id = d.id
                 PROVE  c = d
      BY DEF UniqueIds
    <2>1. PICK x \in world.idl : Found(x) /\ c = BuildNode(x, DiscoverCarriers(x))
      BY <1>2
    <2>2. PICK y \in world.idl : Found(y) /\ d = BuildNode(y, DiscoverCarriers(y))
      BY <1>2
    <2>3. x.id = y.id
      BY <1>1, <2>1, <2>2
    <2>4. x = y
      BY <2>3, ScanAssumption
    <2> QED BY <2>1, <2>2, <2>4
  <1> QED BY <1>1, <1>2, <1>3, <1>4

\* A scan's contracts are the ones it found: none of the committed ones is
\* carried over without its files, for a repo's symbols are never dropped.
LEMMA CarryOverTypes ==
  ASSUME StoreTypes, ScanTypes, Known,
         NEW new, new = CarryOverCommitted(DiscoverContracts, scan.committed)
  PROVE  /\ new \subseteq ContractOf(ContractIds) /\ UniqueIds(new)
         /\ \A c \in new : \E x \in world.idl :
              x.id = c.id /\ c.carriers = DiscoverCarriers(x) /\ Found(x)
         /\ \A x \in world.idl : Found(x) =>
              \E c \in new : x.id = c.id /\ c.carriers = DiscoverCarriers(x)
  <1> DEFINE fresh == DiscoverContracts
             prior(c) == {p \in scan.committed : p.id = c.id}
             kept(c) == IF prior(c) = {} THEN c
                        ELSE [c EXCEPT !.status = (CHOOSE p \in prior(c) : TRUE).status, !.ext = TRUE]
  <1>1. world \in Worlds /\ scan.committed \subseteq ContractOf(ContractIds)
    BY DEF StoreTypes, ScanTypes, ScanOf
  <1>2. {p \in scan.committed : \A c \in fresh : c.id # p.id} = {}
    BY <1>1, DiscoverTypes DEF Known
  <1>3. new = {kept(c) : c \in fresh}
    BY <1>2, Zenon DEF CarryOverCommitted
  <1>4. ASSUME NEW c \in fresh
        PROVE  kept(c) \in ContractOf(ContractIds) /\ kept(c).id = c.id /\ kept(c).carriers = c.carriers
    <2>1. c \in ContractOf(ContractIds)
      BY <1>1, DiscoverTypes
    <2>2. CASE prior(c) = {}
      BY <2>1, <2>2
    <2>3. CASE prior(c) # {}
      <3> DEFINE p == CHOOSE p \in prior(c) : TRUE
      <3>1. p \in prior(c)
        BY <2>3
      <3>2. p.status \in Statuses
        BY <1>1, <3>1 DEF ContractOf
      <3> HIDE DEF p
      <3>3. [c EXCEPT !.status = p.status, !.ext = TRUE] \in ContractOf(ContractIds)
        BY <2>1, <3>2 DEF ContractOf
      <3>4. [c EXCEPT !.status = p.status, !.ext = TRUE].id = c.id
            /\ [c EXCEPT !.status = p.status, !.ext = TRUE].carriers = c.carriers
        BY <2>1 DEF ContractOf
      <3>5. kept(c) = [c EXCEPT !.status = p.status, !.ext = TRUE]
        BY <2>3 DEF p
      <3> HIDE DEF kept
      <3> QED BY <3>3, <3>4, <3>5
    <2> QED BY <2>2, <2>3
  <1> HIDE DEF kept
  <1>5. UniqueIds(new)
    <2>1. UniqueIds(fresh)
      BY <1>1, DiscoverTypes
    <2> QED BY <1>3, <1>4, <2>1 DEF UniqueIds
  <1>6. new \subseteq ContractOf(ContractIds)
    BY <1>3, <1>4
  <1>7. \A c \in new : \E x \in world.idl : x.id = c.id /\ c.carriers = DiscoverCarriers(x) /\ Found(x)
    BY <1>1, <1>3, <1>4, DiscoverTypes
  <1>8. \A x \in world.idl : Found(x) => \E c \in new : x.id = c.id /\ c.carriers = DiscoverCarriers(x)
    <2> SUFFICES ASSUME NEW x \in world.idl, Found(x)
                 PROVE  \E c \in new : x.id = c.id /\ c.carriers = DiscoverCarriers(x)
      OBVIOUS
    <2>1. PICK c \in fresh : x.id = c.id /\ c.carriers = DiscoverCarriers(x)
      BY <1>1, DiscoverTypes
    <2> QED BY <1>3, <1>4, <2>1
  <1> QED BY <1>5, <1>6, <1>7, <1>8

-----------------------------------------------------------------------------
(* A scan's step keeps the types, and what is known of the contracts *)

LEMMA SinkTypes ==
  ASSUME StoreTypes, ScanTypes, NEW r \in Repos, NEW to, NEW half \in BOOLEAN,
         NEW becomes \in RowStates, NEW next \in Nat, NEW stop \in BOOLEAN,
         Sink(r, to, half, becomes, next, stop)
  PROVE  /\ row' \in [Repos -> RowStates] /\ owed' = owed /\ tables' \in TablesOf
         /\ tables.symbols \subseteq tables'.symbols /\ scan' \in ScanOf
         /\ scan'.committed = scan.committed
  <1> DEFINE rec == Record(r, FirstOwed(r), to, half)
             d == [repo |-> r, becomes |-> becomes, next |-> next]
  <1>1. scan \in ScanOf /\ tables \in TablesOf /\ row \in [Repos -> RowStates]
    BY DEF ScanTypes
  <1>2. rec \in ScanOf /\ rec.committed = scan.committed
    <2> DEFINE from == FirstOwed(r)
    <2>1. Declares(r, from, to, half) \subseteq world.deps /\ Refers(r, from, to) \subseteq world.deps
      BY DEF Declares, Refers
    <2> HIDE DEF from
    <2>2. /\ Record(r, from, to, half) \in ScanOf
          /\ Record(r, from, to, half).committed = scan.committed
      BY <1>1, <2>1 DEF Record, ScanOf
    <2> QED BY <2>2 DEF from
  <1>3. d \in [repo : Repos, becomes : RowStates, next : Nat]
    OBVIOUS
  <1> HIDE DEF rec, d
  <1>4. [rec EXCEPT !.done = @ \cup {d}, !.stop = stop] \in ScanOf
        /\ [rec EXCEPT !.done = @ \cup {d}, !.stop = stop].committed = scan.committed
    BY <1>2, <1>3 DEF ScanOf
  <1>5. scan' = [rec EXCEPT !.done = @ \cup {d}, !.stop = stop]
    BY DEF Sink, rec, d
  <1>6. row' \in [Repos -> RowStates]
    BY <1>1 DEF Sink, RowStates
  <1>7. tables' \in TablesOf /\ tables.symbols \subseteq tables'.symbols
    <2> DEFINE from == FirstOwed(r)
               i == Interrogated(r, from, to)
               with(set, unit) == IF unit THEN set \cup {r} ELSE set
               pub == with(tables.published, i)
               man == with(tables.manifests, i)
               pri == IF i THEN tables.primary \cup {r}
                      ELSE IF Classified(r, from, to) THEN tables.primary \ {r} ELSE tables.primary
               red == IF ~Measured(r, from, to) THEN tables.red
                      ELSE IF Odd(r, "red") THEN tables.red \cup {r} ELSE tables.red \ {r}
               sym == with(tables.symbols, Indexed(r, from, to))
               fin == IF Cloned(r, from, to) /\ Empty(r)
                      THEN tables.findings \cup {<<r, "EmptyRepo">>} ELSE tables.findings
    <2>1. tables' = [tables EXCEPT !.published = pub, !.manifests = man, !.primary = pri,
                                   !.red = red, !.symbols = sym, !.findings = fin]
      BY DEF Sink, ScanRows
    <2>2. /\ pub \in SUBSET Repos /\ man \in SUBSET Repos /\ pri \in SUBSET Repos
          /\ red \in SUBSET Repos /\ sym \in SUBSET Repos /\ tables.symbols \subseteq sym
      BY <1>1 DEF TablesOf
    <2>3. fin \in SUBSET (Repos \X {"EmptyRepo", "BaselineRed"})
      <3>1. <<r, "EmptyRepo">> \in Repos \X {"EmptyRepo", "BaselineRed"}
        OBVIOUS
      <3> QED BY <1>1, <3>1 DEF TablesOf
    <2> HIDE DEF pub, man, pri, red, sym, fin
    <2> QED BY <1>1, <2>1, <2>2, <2>3 DEF TablesOf
  <1> QED BY <1>4, <1>5, <1>6, <1>7 DEF Sink

LEMMA FailedTypes ==
  ASSUME StoreTypes, ScanTypes, NEW r \in Repos, NEW becomes \in RowStates, Failed(r, becomes)
  PROVE  /\ row' \in [Repos -> RowStates] /\ scan' \in ScanOf /\ scan'.committed = scan.committed
         /\ UNCHANGED <<world, owed, tables, edges, contracts>>
  <1> DEFINE d == [repo |-> r, becomes |-> becomes, next |-> 1]
  <1>1. d \in [repo : Repos, becomes : RowStates, next : Nat]
    OBVIOUS
  <1>2. scan' = [scan EXCEPT !.done = @ \cup {d}]
    BY DEF Failed
  <1> HIDE DEF d
  <1>3. scan' \in ScanOf /\ scan'.committed = scan.committed
    BY <1>1, <1>2 DEF ScanTypes, ScanOf
  <1> QED BY <1>3 DEF Failed, ScanTypes, RowStates

\* Nothing but discovery touches the contracts, nothing but inference the edges.
LEMMA ScanStepTypes ==
  ASSUME StoreTypes, ScanTypes, ScanNext
  PROVE  /\ world' = world /\ row' \in [Repos -> RowStates] /\ owed' \in [Repos -> Nat]
         /\ tables' \in TablesOf /\ tables.symbols \subseteq tables'.symbols
         /\ scan' \in ScanOf
         /\ scan'.committed \in {{}, scan.committed} \/ ReadCommitted
         /\ contracts' = contracts \/ WriteContracts
         /\ edges' = edges \/ PersistEdges
  <1> DEFINE Kept == /\ world' = world /\ contracts' = contracts /\ edges' = edges
                     /\ row' \in [Repos -> RowStates] /\ owed' \in [Repos -> Nat]
                     /\ tables' \in TablesOf /\ tables.symbols \subseteq tables'.symbols
                     /\ scan' \in ScanOf /\ scan'.committed \in {{}, scan.committed}
  <1>1. scan \in ScanOf /\ tables \in TablesOf /\ row \in [Repos -> RowStates] /\ owed \in [Repos -> Nat]
    BY DEF ScanTypes
  <1>2. IdleScan \in ScanOf /\ IdleScan.committed = {}
    BY DEF IdleScan, ScanOf, ScanPcs
  <1>3. ASSUME NEW fleet \in Fleets, StartScan(fleet) PROVE Kept
    <2>1. fleet \subseteq Repos
      BY ScanAssumption
    <2>2. \A r \in Repos : SeedRow(r) \in RowStates
      BY <1>1 DEF SeedRow, RowStates
    <2>3. scan' \in ScanOf /\ scan'.committed = {}
      BY <1>2, <1>3, <2>1 DEF StartScan, ScanOf, ScanPcs
    <2> QED BY <1>1, <1>3, <2>2, <2>3 DEF StartScan
  <1>4. CASE Reap
    <2>1. scan' \in ScanOf /\ scan'.committed = scan.committed
      BY <1>1, <1>4 DEF Reap, ScanOf, ScanPcs
    <2>2. row' \in [Repos -> RowStates]
      BY <1>1, <1>4 DEF Reap, RowStates
    <2> QED BY <1>1, <1>4, <2>1, <2>2 DEF Reap
  <1>5. ASSUME NEW r \in Repos, DispatchOk(r) PROVE Kept
    <2>1. Sink(r, LastOwed(r), FALSE, "SUCCEEDED", 1, FALSE) /\ "SUCCEEDED" \in RowStates
      BY <1>5 DEF DispatchOk, RowStates
    <2> QED BY <1>1, <2>1, SinkTypes DEF Sink
  <1>6. ASSUME NEW r \in Repos, PreflightFails(r) PROVE Kept
    BY <1>1, <1>6, FailedTypes DEF PreflightFails, RowStates
  <1>7. ASSUME NEW r \in Repos, DispatchFails(r) PROVE Kept
    BY <1>1, <1>7, FailedTypes DEF DispatchFails, RowStates
  <1>8. ASSUME NEW r \in Repos, NEW to \in Cuts, NEW half \in BOOLEAN, NEW stop \in BOOLEAN,
               DispatchPartial(r, to, half, stop)
        PROVE  Kept
    <2>1. to \in owed[r] .. LastUnit - 1 /\ Sink(r, to, half, "PENDING", to + 1, stop)
      BY <1>8 DEF DispatchPartial
    <2>2. to + 1 \in Nat /\ "PENDING" \in RowStates
      <3>1. LastUnit = 5 /\ owed[r] \in Nat
        BY <1>1 DEF LastUnit, Units
      <3> QED BY <2>1, <3>1 DEF RowStates
    <2> QED BY <1>1, <2>1, <2>2, SinkTypes DEF Sink
  <1>9. ASSUME NEW d \in scan.done, Finish(d) PROVE Kept
    <2>1. d \in [repo : Repos, becomes : RowStates, next : Nat]
      BY <1>1 DEF ScanOf
    <2>2. scan' \in ScanOf /\ scan'.committed = scan.committed
      BY <1>1, <1>9 DEF Finish, ScanOf
    <2>3. row' \in [Repos -> RowStates] /\ owed' \in [Repos -> Nat]
      BY <1>1, <1>9, <2>1 DEF Finish
    <2> QED BY <1>1, <1>9, <2>2, <2>3 DEF Finish
  <1>10. CASE GateEmpty
    <2>1. scan' \in ScanOf /\ scan'.committed = scan.committed
      BY <1>1, <1>10 DEF GateEmpty, ScanOf, ScanPcs
    <2>2. row' \in [Repos -> RowStates]
      BY <1>1, <1>10 DEF GateEmpty, RowStates
    <2>3. {<<r, "EmptyRepo">> : r \in scan.gated} \subseteq Repos \X {"EmptyRepo", "BaselineRed"}
      BY <1>1 DEF ScanOf
    <2>4. tables' \in TablesOf /\ tables.symbols \subseteq tables'.symbols
      BY <1>1, <1>10, <2>3 DEF GateEmpty, TablesOf
    <2> QED BY <1>1, <1>10, <2>1, <2>2, <2>4 DEF GateEmpty
  <1>11. CASE GateBaselineRed
    <2>1. scan' \in ScanOf /\ scan'.committed = scan.committed
      BY <1>1, <1>11 DEF GateBaselineRed, ScanOf, ScanPcs
    <2>2. row' \in [Repos -> RowStates]
      BY <1>1, <1>11 DEF GateBaselineRed, RowStates
    <2>3. {<<r, "BaselineRed">> : r \in scan.red} \subseteq Repos \X {"EmptyRepo", "BaselineRed"}
      BY <1>1 DEF ScanOf
    <2>4. tables' \in TablesOf /\ tables.symbols \subseteq tables'.symbols
      BY <1>1, <1>11, <2>3 DEF GateBaselineRed, TablesOf
    <2> QED BY <1>1, <1>11, <2>1, <2>2, <2>4 DEF GateBaselineRed
  <1>12. CASE PersistEdges
    <2>1. scan' \in ScanOf /\ scan'.committed = scan.committed
      BY <1>1, <1>12 DEF PersistEdges, ScanOf, ScanPcs
    <2> QED BY <1>1, <1>12, <2>1 DEF PersistEdges
  <1>13. CASE CaptureBlobs
    <2>1. scan' \in ScanOf /\ scan'.committed = scan.committed
      BY <1>1, <1>13 DEF CaptureBlobs, ScanOf, ScanPcs
    <2>2. tables' \in TablesOf /\ tables.symbols \subseteq tables'.symbols
      BY <1>1, <1>13 DEF CaptureBlobs, TablesOf, ScanOf
    <2> QED BY <1>1, <1>13, <2>1, <2>2 DEF CaptureBlobs
  <1>14. CASE ReadCommitted
    <2> DEFINE read == {[c EXCEPT !.carriers = {}, !.consumers = {}, !.ext = TRUE] :
                          c \in {x \in contracts : x.status \in Sticky}}
    <2>1. read \subseteq ContractOf(ContractIds)
      <3>1. \A c \in ContractOf(ContractIds) :
              [c EXCEPT !.carriers = {}, !.consumers = {}, !.ext = TRUE] \in ContractOf(ContractIds)
        BY DEF ContractOf
      <3> QED BY <3>1 DEF StoreTypes
    <2>2. scan' = [scan EXCEPT !.pc = "write", !.committed = read]
      BY <1>14 DEF ReadCommitted
    <2> HIDE DEF read
    <2>3. scan' \in ScanOf
      BY <1>1, <2>1, <2>2 DEF ScanOf, ScanPcs
    <2> QED BY <1>1, <1>14, <2>3 DEF ReadCommitted
  <1>15. CASE WriteContracts
    BY <1>1, <1>2, <1>15 DEF WriteContracts
  <1>16. CASE ScanCrash
    BY <1>1, <1>2, <1>16 DEF ScanCrash
  <1> QED
    BY <1>3, <1>4, <1>5, <1>6, <1>7, <1>8, <1>9, <1>10, <1>11, <1>12, <1>13, <1>14, <1>15, <1>16
    DEF ScanNext

\* A contract that is there stays, and gains carriers only.
Grows == \A c \in contracts : \E d \in contracts' : d.id = c.id /\ c.carriers \subseteq d.carriers

LEMMA ScanStepKeeps ==
  ASSUME StoreTypes, ScanTypes, Known, ScanNext
  PROVE  /\ StoreTypes' /\ ScanTypes' /\ Known' /\ Grows
         /\ \A e \in edges' : e \in edges \/ e.dst \in Repos
  <1>1. /\ world' = world /\ tables.symbols \subseteq tables'.symbols
        /\ row' \in [Repos -> RowStates] /\ owed' \in [Repos -> Nat] /\ tables' \in TablesOf
        /\ scan' \in ScanOf
        /\ scan'.committed \in {{}, scan.committed} \/ ReadCommitted
        /\ contracts' = contracts \/ WriteContracts
        /\ edges' = edges \/ PersistEdges
    BY ScanStepTypes
  <1>2. ContractIds' = ContractIds /\ scan' \in ScanOf' /\ world \in Worlds
    BY <1>1 DEF ContractIds, ScanOf, StoreTypes
  <1>3. /\ edges \subseteq EdgeOf(ContractIds) /\ contracts \subseteq ContractOf(ContractIds)
        /\ UniqueIds(contracts) /\ UniqueIds(scan.committed)
        /\ scan \in ScanOf
    BY DEF StoreTypes, ScanTypes
  <1>4. \A e \in edges' : e \in edges \/ (e \in EdgeOf(ContractIds) /\ e.dst \in Repos)
    <2>1. CASE edges' = edges
      BY <2>1
    <2>2. CASE PersistEdges
      <3>1. InferEdges(scan.deps, tables.published, scan.syms)
              \subseteq {e \in EdgeOf(ContractIds) : e.dst \in Repos}
        BY <1>2, <1>3, InferTypes DEF ScanOf
      <3> QED BY <2>2, <3>1 DEF PersistEdges
    <2> QED BY <1>1, <2>1, <2>2
  <1>5. \A x \in world.idl : DiscoverCarriers(x) \subseteq DiscoverCarriers(x)' /\ (Found(x) => Found(x)')
    <2>1. ASSUME NEW x \in world.idl PROVE DiscoverCarriers(x) \subseteq DiscoverCarriers(x)'
      BY <1>1 DEF DiscoverCarriers, ContractSymbols
    <2> QED BY <2>1 DEF Found
  <1>6. /\ contracts' \subseteq ContractOf(ContractIds) /\ UniqueIds(contracts') /\ Grows
        /\ \A c \in contracts' : \E x \in world.idl :
             x.id = c.id /\ c.carriers \subseteq DiscoverCarriers(x)' /\ Found(x)'
    <2>1. CASE contracts' = contracts
      <3>1. Grows
        BY <2>1 DEF Grows
      <3>2. \A c \in contracts : \E x \in world.idl :
              x.id = c.id /\ c.carriers \subseteq DiscoverCarriers(x) /\ Found(x)
        BY DEF Known
      <3>3. \A c \in contracts : \E x \in world.idl :
              x.id = c.id /\ c.carriers \subseteq DiscoverCarriers(x)' /\ Found(x)'
        BY <1>5, <3>2
      <3> QED BY <1>3, <2>1, <3>1, <3>3
    <2>2. CASE WriteContracts
      <3>1. contracts' = CarryOverCommitted(DiscoverContracts, scan.committed)
        BY <2>2 DEF WriteContracts
      <3>2. /\ contracts' \subseteq ContractOf(ContractIds) /\ UniqueIds(contracts')
            /\ \A c \in contracts' : \E x \in world.idl :
                 x.id = c.id /\ c.carriers = DiscoverCarriers(x) /\ Found(x)
            /\ \A x \in world.idl : Found(x) =>
                 \E c \in contracts' : x.id = c.id /\ c.carriers = DiscoverCarriers(x)
        BY <3>1, CarryOverTypes
      <3>3. Grows
        BY <3>2 DEF Grows, Known
      <3> QED BY <1>5, <3>2, <3>3
    <2> QED BY <1>1, <2>1, <2>2
  <1>7. StoreTypes'
    BY <1>1, <1>2, <1>3, <1>4, <1>6 DEF StoreTypes
  <1>8. UniqueIds(scan'.committed) /\ \A p \in scan'.committed : \E x \in world.idl : x.id = p.id /\ Found(x)'
    <2>1. CASE scan'.committed = {}
      BY <2>1 DEF UniqueIds
    <2>2. CASE scan'.committed = scan.committed
      BY <1>3, <1>5, <2>2 DEF Known
    <2>3. CASE ReadCommitted
      <3> DEFINE bare(c) == [c EXCEPT !.carriers = {}, !.consumers = {}, !.ext = TRUE]
      <3>1. scan'.committed = {bare(c) : c \in {x \in contracts : x.status \in Sticky}}
        BY <1>3, <2>3 DEF ReadCommitted, ScanOf
      <3>2. \A c \in contracts : bare(c).id = c.id
        BY <1>3 DEF ContractOf
      <3> HIDE DEF bare
      <3>3. UniqueIds(scan'.committed)
        BY <1>3, <3>1, <3>2 DEF UniqueIds
      <3>4. \A c \in contracts : \E x \in world.idl : x.id = c.id /\ Found(x)'
        BY <1>5 DEF Known
      <3> QED BY <3>1, <3>2, <3>3, <3>4
    <2> QED BY <1>1, <2>1, <2>2, <2>3
  <1>9. ScanTypes'
    BY <1>1, <1>2, <1>8 DEF ScanTypes
  <1>10. Known'
    BY <1>1, <1>6, <1>8 DEF Known
  <1> QED BY <1>4, <1>6, <1>7, <1>9, <1>10

-----------------------------------------------------------------------------
(* The sequencing process *)

SeqPcs == {"idle", "nodes", "edges", "gated", "hoisted", "rejected", "forbidden", "overrides",
           "record", "cycles", "not_shared", "contract_edges", "collisions", "exit"}
Outcomes == {"none", "running", "ok", "failed", "crashed"}
WaveMaps == UNION {[S -> Nat] : S \in SUBSET (Repos \cup ContractIds)}

ReportOf(M) ==
  [E : SUBSET EdgeOf(M), N : SUBSET (Repos \cup M), committed : SUBSET M, rejected : SUBSET M,
   res : SUBSET ResolutionOf(M), raised : BOOLEAN]

SequenceOf ==
  [pc : SeqPcs, forbid : SUBSET ContractIds, C : SUBSET ContractOf(ContractIds),
   N : SUBSET (Repos \cup ContractIds), E : SUBSET EdgeOf(ContractIds),
   report : ReportOf(ContractIds), gated : SUBSET Repos, waves : WaveMaps,
   claims : SUBSET world.clash, calm : BOOLEAN, outcome : Outcomes]

PlanOf ==
  [members : WaveMaps, cycles : SUBSET ResolutionOf(ContractIds), notShared : SUBSET ContractIds,
   overrides : SUBSET ContractIds, collisions : SUBSET world.clash]

SeqTypes == seq \in SequenceOf /\ UniqueIds(seq.C) /\ plan \in PlanOf

\* Has the last command finished well?  A plan is in hand from break_cycles
\* on, its waves from assign_waves on.
Done == seq.pc = "idle" /\ seq.outcome = "ok"
WavesMade == Writing \/ Done
PlanMade == seq.pc = "gated" \/ WavesMade

\* An edge into a contract comes from one of its carriers: true of the edges
\* stored and of the edges read, as the contracts read are still there.
PointsAt(E) == \A e \in E : e.dst \in ContractIds =>
                 \E c \in contracts : c.id = e.dst /\ e.src \in c.carriers
Covered(C) == \A c \in C : \E d \in contracts : d.id = c.id /\ c.carriers \subseteq d.carriers
ReadInv == PointsAt(edges) /\ PointsAt(seq.E) /\ Covered(seq.C)

PlanInv == PlanMade =>
  /\ Dissolves(ContractIds, seq.N, seq.E, seq.C, seq.report)
  /\ ManualMembers(seq.report) = {}

WavesInv == WavesMade =>
  /\ ~Cyclic(seq.report, seq.gated)
  /\ seq.waves = AssignWaves(seq.report, seq.gated)

\* The plan in hand accounts for every edge it was made from.
LEMMA PlanAccounts ==
  ASSUME StoreTypes, SeqTypes, PlanInv, WavesInv
  PROVE  EdgesAccounted
  <1> SUFFICES ASSUME Writing PROVE EdgesAccounted
    BY DEF EdgesAccounted
  <1> DEFINE R == seq.report
             w == seq.waves
             open == DOMAIN w \ seq.gated
             earlier(d, s) == w[d] < w[s]
             atomic(e) == \E m \in AtomicMembers(R) : {e.src, e.dst} \subseteq m
             cut(e) == [e EXCEPT !.sup = TRUE]
             broken(e) ==
               /\ cut(e) \in R.E \/ \E c \in seq.C : Retarget(cut(e), c) \in R.E
               /\ \E r \in R.res : r.broken > 0 /\ {e.src, e.dst} \subseteq r.members
             turned(e) == \E c \in seq.C :
                            /\ Retarget(e, c) \in R.E
                            /\ c.id \in DOMAIN w /\ earlier(c.id, e.src)
  <1>1. /\ Dissolves(ContractIds, seq.N, seq.E, seq.C, R) /\ ManualMembers(R) = {}
        /\ ~Cyclic(R, seq.gated) /\ w = AssignWaves(R, seq.gated) /\ IdSet(ContractIds)
    BY ContractIdSet DEF PlanInv, WavesInv, PlanMade, WavesMade, StoreTypes
  <1>2. /\ seq.E \subseteq EdgeOf(ContractIds) /\ seq.C \subseteq ContractOf(ContractIds)
        /\ seq.gated \subseteq Repos
    BY DEF SeqTypes, SequenceOf
  <1>3. /\ R.N \ seq.gated \subseteq DOMAIN w
        /\ \A f \in R.E : OrdersMigration(f) /\ {f.src, f.dst} \subseteq open =>
             earlier(f.dst, f.src) \/ atomic(f)
    BY <1>1, WavesOrder
  <1>4. R.N = seq.N \cup R.committed
    BY <1>1 DEF Dissolves
  <1>5. PICK A : Traces(ContractIds, seq.E, seq.C, A, R.E, R.committed, BrokenIn(R.res))
    BY <1>1 DEF Dissolves
  <1> HIDE DEF R, w
  <1>6. ASSUME NEW e \in seq.E, OrdersMigration(e), {e.src, e.dst} \subseteq open
        PROVE  earlier(e.dst, e.src) \/ atomic(e) \/ broken(e) \/ turned(e)
    <2>1. Traced(e, seq.C, R.E, R.committed, BrokenIn(R.res))
      BY <1>5, <1>6 DEF Traces
    <2>2. CASE e \in R.E
      BY <1>3, <1>6, <2>2
    <2>3. CASE \E c \in seq.C : c.id \in R.committed /\ Retarget(e, c) \in R.E
      <3>1. PICK c \in seq.C : c.id \in R.committed /\ Retarget(e, c) \in R.E
        BY <2>3
      <3>2. /\ Retarget(e, c).src = e.src /\ Retarget(e, c).dst = c.id
            /\ OrdersMigration(Retarget(e, c))
        BY <1>2, <1>6 DEF EdgeOf, Retarget, OrdersMigration, KindRank
      <3>3. c.id \notin Repos /\ c.id \in R.N \ seq.gated
        BY <1>1, <1>2, <1>4, <3>1 DEF ContractOf, IdSet
      <3>4. c.id \in open
        BY <1>3, <3>3
      <3>5. earlier(c.id, e.src) \/ atomic(Retarget(e, c))
        <4>1. {Retarget(e, c).src, Retarget(e, c).dst} \subseteq open
          BY <1>6, <3>2, <3>4
        <4> HIDE DEF open, atomic
        <4> QED BY <1>3, <3>1, <3>2, <4>1
      <3>6. ~atomic(Retarget(e, c))
        <4>1. \A m \in AtomicMembers(R) : m \subseteq Repos
          BY <1>1, AtomicOfRepos
        <4> QED BY <3>2, <3>3, <4>1
      <3>7. turned(e)
        BY <3>1, <3>4, <3>5, <3>6
      <3> QED BY <3>7
    <2>4. CASE \E m \in BrokenIn(R.res) :
                 /\ {e.src, e.dst} \subseteq m
                 /\ Cut(e) \in R.E \/ \E c \in seq.C : Retarget(Cut(e), c) \in R.E
      <3>1. broken(e)
        BY <2>4 DEF BrokenIn, Cut
      <3> QED BY <3>1
    <2> QED BY <2>1, <2>2, <2>3, <2>4 DEF Traced
  <1>7. seq.N \ seq.gated \subseteq DOMAIN w
    BY <1>3, <1>4
  <1> QED BY <1>6, <1>7, Zenon DEF EdgesAccounted, R, w

\* What is known when nobody else has written since the command started: the
\* contracts are the ones read, but for what the command marked, the nodes
\* hold every repo and the gated repos are the ones seen.
SameFiles(c, d) ==
  c.id = d.id /\ c.owner = d.owner /\ c.carriers = d.carriers /\ c.consumers = d.consumers

Unmarked == seq.pc \in {"nodes", "edges", "gated", "hoisted"}

CalmInv == seq.calm =>
  /\ Unmarked => contracts = seq.C
  /\ WavesMade /\ ~Unmarked =>
       \A d \in contracts :
         /\ \E c \in seq.C : SameFiles(c, d)
         /\ d.status \in Committed => d.id \in seq.report.committed
  /\ PlanMade \/ seq.pc = "edges" => Seeded \subseteq seq.N
  /\ WavesMade => seq.gated = GatedRepos

\* What the command has written by now.
RecordedInv ==
  seq.pc \in {"cycles", "not_shared", "contract_edges", "collisions", "exit"} \/ Done =>
    \A n \in DOMAIN seq.waves : n \in DOMAIN plan.members /\ plan.members[n] = seq.waves[n]

EdgesInv ==
  seq.pc \in {"collisions", "exit"} \/ Done => ContractEdgesOf(seq.report) \subseteq edges

Inv == /\ StoreTypes /\ ScanTypes /\ Known /\ SeqTypes
       /\ ReadInv /\ PlanInv /\ WavesInv /\ CalmInv /\ RecordedInv /\ EdgesInv

\* A successful command that nobody disturbed left all of its plan.
LEMMA PlanIsComplete ==
  ASSUME Inv
  PROVE  SequencedIsComplete
  <1> SUFFICES ASSUME Done, seq.calm PROVE SequencedIsComplete
    BY DEF SequencedIsComplete, Done
  <1> DEFINE R == seq.report
             w == seq.waves
             M == ContractIds
  <1>1. /\ Dissolves(M, seq.N, seq.E, seq.C, R) /\ ManualMembers(R) = {}
        /\ ~Cyclic(R, seq.gated) /\ w = AssignWaves(R, seq.gated) /\ IdSet(M)
    BY ContractIdSet DEF Inv, PlanInv, WavesInv, PlanMade, WavesMade, StoreTypes
  <1>2. /\ seq.gated = GatedRepos /\ Seeded \subseteq seq.N /\ seq.gated \subseteq Repos
        /\ \A d \in contracts :
             /\ \E c \in seq.C : SameFiles(c, d)
             /\ d.status \in Committed => d.id \in R.committed
    BY DEF Inv, CalmInv, WavesMade, PlanMade, Unmarked, Done, SeqTypes, SequenceOf
  <1>3. /\ \A n \in DOMAIN w : n \in DOMAIN plan.members /\ plan.members[n] = w[n]
        /\ ContractEdgesOf(R) \subseteq edges /\ PointsAt(edges)
        /\ contracts \subseteq ContractOf(M) /\ UniqueIds(contracts)
        /\ seq.C \subseteq ContractOf(M)
    BY DEF Inv, RecordedInv, EdgesInv, ReadInv, StoreTypes, SeqTypes, SequenceOf
  <1>4. /\ R.N \ seq.gated \subseteq DOMAIN w
        /\ \A f \in R.E : OrdersMigration(f) /\ {f.src, f.dst} \subseteq DOMAIN w \ seq.gated =>
             w[f.dst] < w[f.src] \/ \E m \in AtomicMembers(R) : {f.src, f.dst} \subseteq m
    BY <1>1, WavesOrder
  <1>5. R.N = seq.N \cup R.committed
    BY <1>1 DEF Dissolves
  <1>6. PICK A : Traces(M, seq.E, seq.C, A, R.E, R.committed, BrokenIn(R.res))
    BY <1>1 DEF Dissolves
  <1> HIDE DEF R, w, M
  <1>7. Seeded \ GatedRepos \subseteq DOMAIN w
    BY <1>2, <1>4, <1>5
  <1>8. ASSUME NEW c \in contracts, c.status \in Committed
        PROVE  /\ c.id \in DOMAIN plan.members
               /\ ContractEdges(c) \subseteq edges
               /\ \A e \in edges : (e.dst = c.id /\ e.src \in DOMAIN w \ GatedRepos) =>
                                     plan.members[c.id] < plan.members[e.src]
    <2>1. c.id \in R.committed /\ c \in ContractOf(M) /\ c.id \in M /\ c.id \notin Repos
      BY <1>1, <1>2, <1>3, <1>8 DEF ContractOf, IdSet
    <2>2. c.id \in DOMAIN w \ seq.gated
      BY <1>2, <1>4, <1>5, <2>1
    <2>3. PICK b \in seq.C : SameFiles(b, c)
      BY <1>2
    <2>4. ContractEdges(c) = ContractEdges(b)
      BY <2>3 DEF ContractEdges, SameFiles
    <2>5. ContractEdges(c) \subseteq R.E
      BY <1>6, <2>1, <2>3, <2>4 DEF Traces, SameFiles
    <2>6. ContractEdges(c) \subseteq edges
      <3>1. \A f \in ContractEdges(c) : f.kind \in ContractKinds
        BY <1>1, <2>1, ContractEdgesType
      <3> QED BY <1>3, <2>5, <3>1 DEF ContractEdgesOf, ContractKinds
    <2>7. ASSUME NEW e \in edges, e.dst = c.id, e.src \in DOMAIN w \ GatedRepos
          PROVE  plan.members[c.id] < plan.members[e.src]
      <3>1. PICK d \in contracts : d.id = e.dst /\ e.src \in d.carriers
        BY <1>3, <2>1, <2>7 DEF PointsAt, M
      <3>2. d = c
        BY <1>3, <2>7, <3>1 DEF UniqueIds
      <3>3. PICK f \in ContractEdges(c) : f.src = e.src
        BY <1>1, <2>1, <3>1, <3>2, ContractEdgesType
      <3>4. f.dst = c.id /\ OrdersMigration(f) /\ f \in R.E
        BY <1>1, <2>1, <2>5, <3>3, ContractEdgesType
      <3>5. {f.src, f.dst} \subseteq DOMAIN w \ seq.gated
        BY <1>2, <2>2, <2>7, <3>3, <3>4
      <3>6. \A m \in AtomicMembers(R) : f.dst \notin m
        BY <1>1, <2>1, <3>4, AtomicOfRepos
      <3>7. w[c.id] < w[e.src]
        BY <1>4, <3>3, <3>4, <3>5, <3>6
      <3> QED BY <1>3, <2>2, <2>7, <3>7
    <2> QED BY <1>3, <2>2, <2>6, <2>7
  <1> QED BY <1>3, <1>7, <1>8 DEF SequencedIsComplete, w

-----------------------------------------------------------------------------
(* Every step keeps the invariant *)

LEMMA ReadInvKept ==
  ASSUME ReadInv, Grows, world' = world, seq'.E = seq.E, seq'.C = seq.C,
         \A e \in edges' : e \in edges \/ e.dst \in Repos, StoreTypes
  PROVE  ReadInv'
  <1>1. ContractIds' = ContractIds /\ \A r \in Repos : r \notin ContractIds
    BY ContractIdSet DEF StoreTypes, IdSet, ContractIds
  <1>3. PointsAt(edges)'
    <2> SUFFICES ASSUME NEW e \in edges', e.dst \in ContractIds
                 PROVE  \E c \in contracts' : c.id = e.dst /\ e.src \in c.carriers
      BY <1>1 DEF PointsAt
    <2>1. e \in edges
      BY <1>1
    <2>2. PICK c \in contracts : c.id = e.dst /\ e.src \in c.carriers
      BY <2>1 DEF ReadInv, PointsAt
    <2> QED BY <2>2 DEF Grows
  <1>4. Covered(seq.C)'
    <2> SUFFICES ASSUME NEW c \in seq.C
                 PROVE  \E d \in contracts' : d.id = c.id /\ c.carriers \subseteq d.carriers
      BY DEF Covered
    <2>1. PICK d \in contracts : d.id = c.id /\ c.carriers \subseteq d.carriers
      BY DEF ReadInv, Covered
    <2>2. PICK b \in contracts' : b.id = d.id /\ d.carriers \subseteq b.carriers
      BY DEF Grows
    <2> QED BY <2>1, <2>2
  <1>5. PointsAt(seq.E)'
    <2> SUFFICES ASSUME NEW e \in seq.E, e.dst \in ContractIds
                 PROVE  \E c \in contracts' : c.id = e.dst /\ e.src \in c.carriers
      BY <1>1 DEF PointsAt
    <2>2. PICK c \in contracts : c.id = e.dst /\ e.src \in c.carriers
      BY DEF ReadInv, PointsAt
    <2> QED BY <2>2 DEF Grows
  <1> QED BY <1>3, <1>4, <1>5 DEF ReadInv

LEMMA ScanStepInv ==
  ASSUME Inv, ScanStep
  PROVE  Inv'
  <1>1. StoreTypes' /\ ScanTypes' /\ Known' /\ Grows /\ (\A e \in edges' : e \in edges \/ e.dst \in Repos)
    BY ScanStepKeeps DEF Inv, ScanStep
  <1>2. world' = world /\ edges \subseteq edges' /\ ContractIds' = ContractIds
    <2>1. world' = world /\ (edges' = edges \/ PersistEdges)
      BY ScanStepTypes DEF Inv, ScanStep
    <2> QED BY <2>1 DEF PersistEdges, ContractIds
  <1>3. /\ seq' = [seq EXCEPT !.calm = FALSE] /\ seq \in SequenceOf /\ plan' = plan
    BY DEF ScanStep, Inv, SeqTypes
  <1>4. /\ seq'.pc = seq.pc /\ seq'.outcome = seq.outcome /\ seq'.C = seq.C /\ seq'.N = seq.N
        /\ seq'.E = seq.E /\ seq'.report = seq.report /\ seq'.gated = seq.gated
        /\ seq'.waves = seq.waves /\ seq'.calm = FALSE /\ seq' \in SequenceOf
    BY <1>3 DEF SequenceOf
  <1>5. SequenceOf' = SequenceOf /\ PlanOf' = PlanOf
    BY <1>2 DEF SequenceOf, PlanOf, WaveMaps
  <1>6. SeqTypes'
    BY <1>3, <1>4, <1>5 DEF Inv, SeqTypes
  <1>7. ReadInv'
    BY <1>1, <1>2, <1>4, ReadInvKept DEF Inv
  <1>8. (Writing' <=> Writing) /\ (Done' <=> Done) /\ (WavesMade' <=> WavesMade) /\ (PlanMade' <=> PlanMade)
    BY <1>4 DEF Writing, Done, WavesMade, PlanMade
  <1>9. PlanInv' /\ WavesInv'
    BY <1>2, <1>4, <1>8 DEF Inv, PlanInv, WavesInv
  <1>10. CalmInv'
    BY <1>4 DEF CalmInv
  <1>11. RecordedInv' /\ EdgesInv'
    BY <1>2, <1>3, <1>4, <1>8 DEF Inv, RecordedInv, EdgesInv
  <1> QED BY <1>1, <1>6, <1>7, <1>9, <1>10, <1>11 DEF Inv

\* A command that ends badly forgets what it had in hand.
LEMMA EndedInv ==
  ASSUME Inv, StoreTypes', ScanTypes', Known', world' = world,
         NEW o \in {"failed", "crashed"}, seq' = Ended(o), plan' \in PlanOf,
         PointsAt(edges)'
  PROVE  Inv'
  <1>1. ContractIds' = ContractIds /\ SequenceOf' = SequenceOf /\ PlanOf' = PlanOf
    BY DEF ContractIds, SequenceOf, PlanOf, WaveMaps
  <1>2. <<>> \in WaveMaps
    <2>1. <<>> \in [{} -> Nat]
      OBVIOUS
    <2> QED BY <2>1 DEF WaveMaps
  <1>3. /\ seq'.pc = "idle" /\ seq'.outcome = o /\ seq'.C = {} /\ seq'.E = {}
        /\ seq' \in SequenceOf
    BY <1>2 DEF Ended, FirstSeq, NoReport, SequenceOf, SeqPcs, Outcomes, ReportOf
  <1>4. SeqTypes'
    BY <1>1, <1>3 DEF SeqTypes, UniqueIds
  <1>5. ReadInv'
    BY <1>3 DEF ReadInv, PointsAt, Covered
  <1>6. ~Writing' /\ ~Done' /\ ~WavesMade' /\ ~PlanMade'
    BY <1>3 DEF Writing, Done, WavesMade, PlanMade
  <1>7. PlanInv' /\ WavesInv' /\ CalmInv' /\ RecordedInv' /\ EdgesInv'
    BY <1>3, <1>6 DEF PlanInv, WavesInv, CalmInv, RecordedInv, EdgesInv, Unmarked
  <1> QED BY <1>4, <1>5, <1>7 DEF Inv

\* Marking contracts changes nothing else of them.
LEMMA MarkedKeeps ==
  ASSUME Inv, NEW ids, NEW s \in Statuses, contracts' = Marked(ids, s), Aside
  PROVE  /\ StoreTypes' /\ ScanTypes' /\ Known' /\ Grows
         /\ \A d \in contracts' : \E c \in contracts :
              SameFiles(c, d) /\ d.status = IF c.id \in ids THEN s ELSE c.status
  <1> DEFINE mark(c) == IF c.id \in ids THEN [c EXCEPT !.status = s] ELSE c
  <1>1. contracts \subseteq ContractOf(ContractIds) /\ UniqueIds(contracts)
    BY DEF Inv, StoreTypes
  <1>2. ASSUME NEW c \in contracts
        PROVE  /\ mark(c) \in ContractOf(ContractIds) /\ SameFiles(c, mark(c))
               /\ mark(c).status = IF c.id \in ids THEN s ELSE c.status
    BY <1>1 DEF ContractOf, SameFiles
  <1>3. contracts' = {mark(c) : c \in contracts}
    BY DEF Marked
  <1> HIDE DEF mark
  <1>4. UniqueIds(contracts')
    BY <1>1, <1>2, <1>3 DEF UniqueIds, SameFiles
  <1>5. StoreTypes'
    BY <1>2, <1>3, <1>4 DEF Aside, Inv, StoreTypes, ContractIds
  <1>6. ScanTypes'
    BY DEF Aside, Inv, ScanTypes, ScanOf, ContractIds
  <1>7. \A x : DiscoverCarriers(x)' = DiscoverCarriers(x) /\ Found(x)' = Found(x)
    BY DEF Aside, DiscoverCarriers, ContractSymbols, Found
  <1>8. Known'
    BY <1>2, <1>3, <1>7 DEF Aside, Inv, Known, SameFiles
  <1>9. Grows
    BY <1>2, <1>3 DEF Grows, SameFiles
  <1> QED BY <1>2, <1>3, <1>5, <1>6, <1>8, <1>9

LEMMA SameStore ==
  ASSUME Inv, Aside, contracts' = contracts
  PROVE  /\ StoreTypes' /\ ScanTypes' /\ Known' /\ Grows
         /\ ContractIds' = ContractIds /\ Seeded' = Seeded /\ GatedRepos' = GatedRepos
  <1>1. ContractIds' = ContractIds /\ world' = world /\ edges' = edges
    BY DEF Aside, ContractIds
  <1>2. StoreTypes'
    BY <1>1 DEF Inv, StoreTypes
  <1>3. ScanTypes'
    BY <1>1 DEF Aside, Inv, ScanTypes, ScanOf
  <1>4. \A x : DiscoverCarriers(x)' = DiscoverCarriers(x) /\ Found(x)' = Found(x)
    BY DEF Aside, DiscoverCarriers, ContractSymbols, Found
  <1>5. Known'
    BY <1>4 DEF Aside, Inv, Known
  <1>6. Grows
    BY DEF Grows
  <1> QED BY <1>1, <1>2, <1>3, <1>5, <1>6 DEF Aside, Seeded, GatedRepos

\* A transaction of the command: the plan in hand stays what it is.
LEMMA MoveInv ==
  ASSUME Inv, Writing, NEW q \in SeqPcs \ {"idle", "nodes", "edges", "gated", "hoisted"},
         seq' = [seq EXCEPT !.pc = q], UNCHANGED <<world, row>>, plan' \in PlanOf,
         StoreTypes', ScanTypes', Known', Grows,
         \A e \in edges' : \/ e \in edges \/ e.dst \in Repos
                           \/ \E c \in contracts' : c.id = e.dst /\ e.src \in c.carriers,
         \A d \in contracts' : seq.calm =>
           /\ \E c \in seq.C : SameFiles(c, d)
           /\ d.status \in Committed => d.id \in seq.report.committed,
         q \in {"cycles", "not_shared", "contract_edges", "collisions", "exit"} =>
           \A n \in DOMAIN seq.waves : n \in DOMAIN plan'.members /\ plan'.members[n] = seq.waves[n],
         q \in {"collisions", "exit"} => ContractEdgesOf(seq.report) \subseteq edges'
  PROVE  Inv'
  <1>1. seq \in SequenceOf
    BY DEF Inv, SeqTypes
  <1>2. /\ seq'.pc = q /\ seq'.outcome = seq.outcome /\ seq'.C = seq.C /\ seq'.N = seq.N
        /\ seq'.E = seq.E /\ seq'.report = seq.report /\ seq'.gated = seq.gated
        /\ seq'.waves = seq.waves /\ seq'.calm = seq.calm /\ seq' \in SequenceOf
    BY <1>1 DEF SequenceOf
  <1>3. /\ ContractIds' = ContractIds /\ SequenceOf' = SequenceOf /\ PlanOf' = PlanOf
        /\ Seeded' = Seeded /\ GatedRepos' = GatedRepos
    BY DEF ContractIds, SequenceOf, PlanOf, WaveMaps, Seeded, GatedRepos
  <1>4. SeqTypes'
    BY <1>2, <1>3 DEF Inv, SeqTypes
  <1>5. /\ Writing' /\ WavesMade' /\ PlanMade' /\ WavesMade /\ PlanMade
        /\ ~Done' /\ q # "edges" /\ ~Unmarked'
    BY <1>2 DEF Writing, WavesMade, PlanMade, Done, Unmarked
  <1>6. PlanInv' /\ WavesInv'
    BY <1>2, <1>3, <1>5 DEF Inv, PlanInv, WavesInv
  <1>7. CalmInv'
    BY <1>2, <1>3, <1>5 DEF Inv, CalmInv
  <1>8. RecordedInv' /\ EdgesInv'
    BY <1>2, <1>5 DEF RecordedInv, EdgesInv
  <1>9. ReadInv'
    <2>1. \A r \in Repos : r \notin ContractIds
      BY ContractIdSet DEF Inv, StoreTypes, IdSet
    <2>2. PointsAt(edges)'
      <3> SUFFICES ASSUME NEW e \in edges', e.dst \in ContractIds
                   PROVE  \E c \in contracts' : c.id = e.dst /\ e.src \in c.carriers
        BY <1>3 DEF PointsAt
      <3>1. CASE e \in edges
        <4>1. PICK c \in contracts : c.id = e.dst /\ e.src \in c.carriers
          BY <3>1 DEF Inv, ReadInv, PointsAt
        <4> QED BY <4>1 DEF Grows
      <3> QED BY <2>1, <3>1
    <2>3. Covered(seq.C)'
      <3> SUFFICES ASSUME NEW c \in seq.C
                   PROVE  \E d \in contracts' : d.id = c.id /\ c.carriers \subseteq d.carriers
        BY <1>2 DEF Covered
      <3>1. PICK d \in contracts : d.id = c.id /\ c.carriers \subseteq d.carriers
        BY DEF Inv, ReadInv, Covered
      <3>2. PICK b \in contracts' : b.id = d.id /\ d.carriers \subseteq b.carriers
        BY DEF Grows
      <3> QED BY <3>1, <3>2
    <2>4. PointsAt(seq.E)'
      <3> SUFFICES ASSUME NEW e \in seq.E, e.dst \in ContractIds
                   PROVE  \E c \in contracts' : c.id = e.dst /\ e.src \in c.carriers
        BY <1>2, <1>3 DEF PointsAt
      <3>1. PICK c \in contracts : c.id = e.dst /\ e.src \in c.carriers
        BY DEF Inv, ReadInv, PointsAt
      <3> QED BY <3>1 DEF Grows
    <2> QED BY <2>2, <2>3, <2>4 DEF ReadInv
  <1> QED BY <1>4, <1>6, <1>7, <1>8, <1>9 DEF Inv

LEMMA SeqStartInv ==
  ASSUME Inv, NEW forbid \in Forbids, NEW forced \in BOOLEAN, SeqStart(forbid, forced)
  PROVE  Inv'
  <1>1. Aside /\ contracts' = contracts /\ plan' = plan
    BY DEF SeqStart
  <1>2. /\ StoreTypes' /\ ScanTypes' /\ Known' /\ ContractIds' = ContractIds
        /\ SequenceOf' = SequenceOf /\ PlanOf' = PlanOf /\ edges' = edges
    BY <1>1, SameStore DEF Aside, SequenceOf, PlanOf, WaveMaps
  <1>3. forbid \subseteq ContractIds /\ contracts \subseteq ContractOf(ContractIds) /\ UniqueIds(contracts)
    BY DEF Forbids, Inv, StoreTypes, ContractIds, Ids
  <1>4. <<>> \in WaveMaps
    <2>1. <<>> \in [{} -> Nat]
      OBVIOUS
    <2> QED BY <2>1 DEF WaveMaps
  <1>5. /\ seq'.pc = "nodes" /\ seq'.C = contracts /\ seq'.E = {} /\ seq' \in SequenceOf
    <2>1. seq' = [FirstSeq EXCEPT !.pc = "nodes", !.forbid = forbid, !.C = contracts,
                                  !.outcome = "running"]
      BY DEF SeqStart, SequenceContracts
    <2> QED BY <1>3, <1>4, <2>1 DEF FirstSeq, NoReport, SequenceOf, SeqPcs, Outcomes, ReportOf
  <1>6. SeqTypes'
    BY <1>1, <1>2, <1>3, <1>5 DEF SeqTypes, Inv
  <1>7. ~Writing' /\ ~Done' /\ ~WavesMade' /\ ~PlanMade'
    BY <1>5 DEF Writing, Done, WavesMade, PlanMade
  <1>8. ReadInv'
    BY <1>1, <1>2, <1>5 DEF Inv, ReadInv, PointsAt, Covered
  <1>9. PlanInv' /\ WavesInv' /\ CalmInv' /\ RecordedInv' /\ EdgesInv'
    BY <1>1, <1>5, <1>7 DEF PlanInv, WavesInv, CalmInv, RecordedInv, EdgesInv, Unmarked
  <1> QED BY <1>2, <1>6, <1>8, <1>9 DEF Inv

LEMMA ReadNodesInv ==
  ASSUME Inv, ReadNodes
  PROVE  Inv'
  <1>1. Aside /\ contracts' = contracts /\ plan' = plan
    BY DEF ReadNodes
  <1>2. /\ StoreTypes' /\ ScanTypes' /\ Known' /\ ContractIds' = ContractIds /\ Seeded' = Seeded
        /\ SequenceOf' = SequenceOf /\ PlanOf' = PlanOf /\ edges' = edges
    BY <1>1, SameStore DEF Aside, SequenceOf, PlanOf, WaveMaps
  <1>3. GraphNodes \subseteq Repos \cup ContractIds /\ Seeded \subseteq GraphNodes
    BY DEF GraphNodes, Seeded, Inv, StoreTypes, ContractOf
  <1>4. /\ seq'.pc = "edges" /\ seq'.C = seq.C /\ seq'.E = seq.E /\ seq'.N = GraphNodes
        /\ seq'.calm = seq.calm /\ seq' \in SequenceOf
    BY <1>3 DEF ReadNodes, Inv, SeqTypes, SequenceOf, SeqPcs
  <1>5. SeqTypes'
    BY <1>1, <1>2, <1>4 DEF SeqTypes, Inv
  <1>6. ~Writing' /\ ~Done' /\ ~WavesMade' /\ ~PlanMade'
    BY <1>4 DEF Writing, Done, WavesMade, PlanMade
  <1>7. ReadInv'
    BY <1>1, <1>2, <1>4 DEF Inv, ReadInv, PointsAt, Covered
  <1>8. CalmInv'
    <2>1. seq.calm => contracts = seq.C
      BY DEF ReadNodes, Inv, CalmInv, Unmarked
    <2> QED BY <1>1, <1>2, <1>3, <1>4, <1>6, <2>1 DEF CalmInv
  <1>9. PlanInv' /\ WavesInv' /\ RecordedInv' /\ EdgesInv'
    BY <1>4, <1>6 DEF PlanInv, WavesInv, RecordedInv, EdgesInv
  <1> QED BY <1>2, <1>5, <1>7, <1>8, <1>9 DEF Inv

LEMMA ReadEdgesInv ==
  ASSUME Inv, ReadEdges
  PROVE  Inv'
  <1> DEFINE R == BreakCycles(seq.N, GraphEdges, seq.C, seq.forbid)
  <1>1. Aside /\ contracts' = contracts /\ plan' = plan /\ seq.pc = "edges"
        /\ seq' = Reported(GraphEdges, R)
    BY DEF ReadEdges
  <1>2. /\ StoreTypes' /\ ScanTypes' /\ Known' /\ ContractIds' = ContractIds /\ Seeded' = Seeded
        /\ SequenceOf' = SequenceOf /\ PlanOf' = PlanOf /\ edges' = edges /\ world' = world
    BY <1>1, SameStore DEF Aside, SequenceOf, PlanOf, WaveMaps
  <1>3. /\ GraphEdges \subseteq edges /\ edges \subseteq EdgeOf(ContractIds) /\ IdSet(ContractIds)
        /\ seq \in SequenceOf /\ seq.C \subseteq ContractOf(ContractIds) /\ UniqueIds(seq.C)
        /\ plan \in PlanOf
    BY ContractIdSet DEF GraphEdges, Inv, StoreTypes, SeqTypes, SequenceOf
  <1>4. Dissolves(ContractIds, seq.N, GraphEdges, seq.C, R)
    <2>1. GraphEdges \subseteq EdgeOf(ContractIds)
      BY <1>3
    <2> QED BY <1>3, <2>1, BreakCyclesDissolves
  <1>5. R \in ReportOf(ContractIds)
    <2>1. seq.N \subseteq Repos \cup ContractIds
      BY <1>3 DEF SequenceOf
    <2> HIDE DEF R
    <2> QED BY <1>4, <2>1 DEF Dissolves, ReportOf
  <1> HIDE DEF R
  <1>6. PointsAt(edges)'
    BY <1>1, <1>2 DEF Inv, ReadInv, PointsAt
  <1>7. CASE R.raised \/ ManualMembers(R) # {}
    <2>1. seq' = Ended("failed")
      BY <1>1, <1>7 DEF Reported
    <2> QED BY <1>1, <1>2, <1>3, <1>6, <2>1, EndedInv
  <1>8. CASE ~(R.raised \/ ManualMembers(R) # {})
    <2>1. seq' = [seq EXCEPT !.pc = "gated", !.E = GraphEdges, !.report = R]
      BY <1>1, <1>8 DEF Reported
    <2>2. /\ seq'.pc = "gated" /\ seq'.C = seq.C /\ seq'.E = GraphEdges /\ seq'.N = seq.N
          /\ seq'.report = R /\ seq'.calm = seq.calm /\ seq' \in SequenceOf
      BY <1>3, <1>5, <2>1 DEF SequenceOf, SeqPcs
    <2>3. SeqTypes'
      BY <1>1, <1>2, <1>3, <2>2 DEF SeqTypes
    <2>4. ~Writing' /\ ~Done' /\ ~WavesMade'
      BY <2>2 DEF Writing, Done, WavesMade
    <2>5. ReadInv'
      BY <1>1, <1>2, <1>3, <2>2 DEF Inv, ReadInv, PointsAt, Covered
    <2>6. PlanInv'
      BY <1>2, <1>4, <1>8, <2>2 DEF PlanInv
    <2>7. CalmInv'
      <3>1. seq.calm => contracts = seq.C /\ Seeded \subseteq seq.N
        BY <1>1 DEF Inv, CalmInv, Unmarked
      <3> QED BY <1>1, <1>2, <2>2, <2>4, <3>1 DEF CalmInv
    <2>8. WavesInv' /\ RecordedInv' /\ EdgesInv'
      BY <2>2, <2>4 DEF WavesInv, RecordedInv, EdgesInv
    <2> QED BY <1>2, <2>3, <2>5, <2>6, <2>7, <2>8 DEF Inv
  <1> QED BY <1>7, <1>8

LEMMA ReadGatedInv ==
  ASSUME Inv, ReadGated
  PROVE  Inv'
  <1> DEFINE w == AssignWaves(seq.report, GatedRepos)
  <1>1. Aside /\ contracts' = contracts /\ plan' = plan /\ seq.pc = "gated"
    BY DEF ReadGated
  <1>2. /\ StoreTypes' /\ ScanTypes' /\ Known' /\ ContractIds' = ContractIds /\ Seeded' = Seeded
        /\ GatedRepos' = GatedRepos
        /\ SequenceOf' = SequenceOf /\ PlanOf' = PlanOf /\ edges' = edges /\ world' = world
    BY <1>1, SameStore DEF Aside, SequenceOf, PlanOf, WaveMaps
  <1>3. seq \in SequenceOf /\ plan \in PlanOf /\ UniqueIds(seq.C) /\ IdSet(ContractIds)
    BY ContractIdSet DEF Inv, StoreTypes, SeqTypes
  <1>4. PointsAt(edges)'
    BY <1>1, <1>2 DEF Inv, ReadInv, PointsAt
  <1>5. /\ Dissolves(ContractIds, seq.N, seq.E, seq.C, seq.report)
        /\ ManualMembers(seq.report) = {}
    BY <1>1 DEF Inv, PlanInv, PlanMade
  <1>6. CASE Cyclic(seq.report, GatedRepos)
    <2>1. seq' = Ended("failed")
      BY <1>6 DEF ReadGated
    <2> QED BY <1>1, <1>2, <1>3, <1>4, <2>1, EndedInv
  <1>7. CASE ~Cyclic(seq.report, GatedRepos)
    <2>1. seq' = [seq EXCEPT !.pc = "hoisted", !.gated = GatedRepos, !.waves = w, !.claims = Claims]
      BY <1>7 DEF ReadGated
    <2>2. w \in WaveMaps
      <3>1. w \in [DOMAIN w -> Nat] /\ DOMAIN w \subseteq seq.report.N
        BY <1>3, <1>5, <1>7, WavesOrder
      <3>2. seq.report.N \subseteq Repos \cup ContractIds
        BY <1>3 DEF SequenceOf, ReportOf
      <3> HIDE DEF w
      <3> QED BY <3>1, <3>2 DEF WaveMaps
    <2>3. Claims \subseteq world.clash /\ GatedRepos \subseteq Repos
      BY DEF Claims, GatedRepos
    <2> HIDE DEF w
    <2>4. /\ seq'.pc = "hoisted" /\ seq'.C = seq.C /\ seq'.E = seq.E /\ seq'.N = seq.N
          /\ seq'.report = seq.report /\ seq'.gated = GatedRepos /\ seq'.waves = w
          /\ seq'.calm = seq.calm /\ seq' \in SequenceOf
      BY <1>3, <2>1, <2>2, <2>3 DEF SequenceOf, SeqPcs
    <2>5. SeqTypes'
      BY <1>1, <1>2, <1>3, <2>4 DEF SeqTypes
    <2>6. WavesMade' /\ PlanMade' /\ ~Done' /\ Unmarked'
      BY <2>4 DEF Writing, Done, WavesMade, PlanMade, Unmarked
    <2>7. ReadInv'
      BY <1>1, <1>2, <2>4 DEF Inv, ReadInv, PointsAt, Covered
    <2>8. PlanInv' /\ WavesInv'
      BY <1>2, <1>5, <1>7, <2>4 DEF PlanInv, WavesInv, w
    <2>9. CalmInv'
      <3>1. seq.calm => contracts = seq.C /\ Seeded \subseteq seq.N
        BY <1>1 DEF Inv, CalmInv, Unmarked, PlanMade
      <3> QED BY <1>1, <1>2, <2>4, <2>6, <3>1 DEF CalmInv
    <2>10. RecordedInv' /\ EdgesInv'
      BY <2>4, <2>6 DEF RecordedInv, EdgesInv
    <2> QED BY <1>2, <2>5, <2>7, <2>8, <2>9, <2>10 DEF Inv
  <1> QED BY <1>6, <1>7

\* What MoveInv asks of the contracts holds while nobody marks one.
LEMMA CalmContracts ==
  ASSUME Inv, Writing, seq.pc # "hoisted", NEW d \in contracts, seq.calm
  PROVE  /\ \E c \in seq.C : SameFiles(c, d)
         /\ d.status \in Committed => d.id \in seq.report.committed
  <1>1. WavesMade /\ ~Unmarked
    BY DEF Writing, WavesMade, Unmarked
  <1> QED BY <1>1 DEF Inv, CalmInv

\* A transaction that only writes the plan.
LEMMA PlanStepInv ==
  ASSUME Inv, Writing, seq.pc # "hoisted", contracts' = contracts, Aside,
         NEW q \in SeqPcs \ {"idle", "nodes", "edges", "gated", "hoisted"},
         seq' = [seq EXCEPT !.pc = q], plan' \in PlanOf,
         q \in {"cycles", "not_shared", "contract_edges", "collisions", "exit"} =>
           \A n \in DOMAIN seq.waves : n \in DOMAIN plan'.members /\ plan'.members[n] = seq.waves[n],
         q \in {"collisions", "exit"} => ContractEdgesOf(seq.report) \subseteq edges
  PROVE  Inv'
  <1>1. /\ StoreTypes' /\ ScanTypes' /\ Known' /\ Grows
        /\ UNCHANGED <<world, row>> /\ edges' = edges
    BY SameStore DEF Aside
  <1>2. \A d \in contracts' : seq.calm =>
          /\ \E c \in seq.C : SameFiles(c, d)
          /\ d.status \in Committed => d.id \in seq.report.committed
    BY CalmContracts
  <1> QED BY <1>1, <1>2, MoveInv

\* A transaction that marks contracts: only one the plan has committed becomes
\* HOISTED.
Marks(ids, s, q) ==
  /\ contracts' = Marked(ids, s) /\ seq' = [seq EXCEPT !.pc = q]
  /\ \/ s = "HOISTED" /\ seq.pc = "hoisted" /\ ids = seq.report.committed \ PreCommitted
     \/ s \in {"REJECTED", "FORBIDDEN"} /\ seq.pc \in {"rejected", "forbidden"}
  /\ Aside /\ plan' = plan

LEMMA MarkInv ==
  ASSUME Inv, NEW ids, NEW s, NEW q \in {"rejected", "forbidden", "overrides"}, Marks(ids, s, q)
  PROVE  Inv'
  <1>1. /\ contracts' = Marked(ids, s) /\ seq' = [seq EXCEPT !.pc = q]
        /\ s \in {"HOISTED", "REJECTED", "FORBIDDEN"}
        /\ s = "HOISTED" => seq.pc = "hoisted" /\ ids = seq.report.committed \ PreCommitted
        /\ s # "HOISTED" => seq.pc \in {"rejected", "forbidden"}
        /\ Aside /\ plan' = plan /\ Writing
    BY DEF Marks, Writing
  <1>2. /\ StoreTypes' /\ ScanTypes' /\ Known' /\ Grows
        /\ \A d \in contracts' : \E c \in contracts :
             SameFiles(c, d) /\ d.status = IF c.id \in ids THEN s ELSE c.status
    <2>1. s \in Statuses
      BY <1>1 DEF Statuses, Sticky
    <2> QED BY <1>1, <2>1, MarkedKeeps
  <1>3. ASSUME NEW d \in contracts', seq.calm
        PROVE  /\ \E c \in seq.C : SameFiles(c, d)
               /\ d.status \in Committed => d.id \in seq.report.committed
    <2>1. PICK c \in contracts : SameFiles(c, d) /\ d.status = IF c.id \in ids THEN s ELSE c.status
      BY <1>2
    <2>2. CASE s = "HOISTED"
      <3>1. contracts = seq.C
        BY <1>1, <1>3, <2>2 DEF Inv, CalmInv, Unmarked
      <3>2. c.status \in Committed => c.id \in PreCommitted
        BY <3>1 DEF PreCommitted
      <3>3. PreCommitted \subseteq seq.report.committed
        BY <1>1 DEF Inv, PlanInv, PlanMade, WavesMade, Dissolves, PreCommitted
      <3> QED BY <1>1, <2>1, <2>2, <3>1, <3>2, <3>3 DEF SameFiles
    <2>3. CASE s # "HOISTED"
      <3>1. /\ \E b \in seq.C : SameFiles(b, c)
            /\ c.status \in Committed => c.id \in seq.report.committed
        BY <1>1, <1>3, <2>3, CalmContracts
      <3>2. d.status \in Committed => d.status = c.status
        BY <1>1, <2>1, <2>3 DEF Committed
      <3> QED BY <2>1, <3>1, <3>2 DEF SameFiles
    <2> QED BY <2>2, <2>3
  <1>4. q \in SeqPcs \ {"idle", "nodes", "edges", "gated", "hoisted"}
        /\ q \notin {"cycles", "not_shared", "contract_edges", "collisions", "exit"}
    BY DEF SeqPcs
  <1>5. UNCHANGED <<world, row>> /\ edges' = edges /\ plan' \in PlanOf
    BY <1>1 DEF Aside, Inv, SeqTypes
  <1> QED BY <1>1, <1>2, <1>3, <1>4, <1>5, MoveInv

LEMMA RecordInv ==
  ASSUME Inv, RecordOverrides \/ RecordPlan \/ RecordCycles \/ RecordNotShared
  PROVE  Inv'
  <1>1. seq \in SequenceOf /\ plan \in PlanOf
    BY DEF Inv, SeqTypes
  <1>2. Aside /\ contracts' = contracts /\ Writing /\ seq.pc # "hoisted"
    BY DEF RecordOverrides, RecordPlan, RecordCycles, RecordNotShared, Writing
  <1>3. CASE RecordOverrides
    <2>1. Forbidden \subseteq ContractIds
      BY <1>1 DEF Forbidden, SequenceOf, ContractOf
    <2>2. plan' \in PlanOf /\ seq' = [seq EXCEPT !.pc = "record"] /\ "record" \in SeqPcs
      BY <1>1, <1>3, <2>1 DEF RecordOverrides, PlanOf, SeqPcs
    <2> QED BY <1>2, <2>2, PlanStepInv
  <1>4. CASE RecordPlan
    <2> DEFINE m == Recorded(plan.members, seq.waves)
    <2>1. PICK S \in SUBSET (Repos \cup ContractIds) : seq.waves \in [S -> Nat]
      BY <1>1 DEF SequenceOf, WaveMaps
    <2>2. PICK T \in SUBSET (Repos \cup ContractIds) : plan.members \in [T -> Nat]
      BY <1>1 DEF PlanOf, WaveMaps
    <2>3. m = [n \in S \cup T |-> IF n \in S THEN seq.waves[n] ELSE plan.members[n]]
      <3>1. DOMAIN seq.waves = S /\ DOMAIN plan.members = T
        BY <2>1, <2>2
      <3>2. m = [n \in DOMAIN seq.waves \cup DOMAIN plan.members |->
                   IF n \in DOMAIN seq.waves THEN seq.waves[n] ELSE plan.members[n]]
        BY DEF Recorded
      <3> HIDE DEF m
      <3> QED BY <3>1, <3>2
    <2>4. m \in [S \cup T -> Nat] /\ \A n \in S : n \in DOMAIN m /\ m[n] = seq.waves[n]
      <3> HIDE DEF m
      <3> QED BY <2>1, <2>2, <2>3
    <2>5. plan' = [plan EXCEPT !.members = m] /\ seq' = [seq EXCEPT !.pc = "cycles"]
      BY <1>4 DEF RecordPlan
    <2> HIDE DEF m
    <2>6. S \cup T \in SUBSET (Repos \cup ContractIds)
      OBVIOUS
    <2>7. m \in WaveMaps
      BY <2>4, <2>6 DEF WaveMaps
    <2>8. plan' \in PlanOf /\ plan'.members = m
      BY <1>1, <2>5, <2>7 DEF PlanOf
    <2>9. \A n \in DOMAIN seq.waves : n \in DOMAIN plan'.members /\ plan'.members[n] = seq.waves[n]
      BY <2>1, <2>4, <2>8
    <2>10. "cycles" \in SeqPcs
      BY DEF SeqPcs
    <2> QED BY <1>2, <2>5, <2>8, <2>9, <2>10, PlanStepInv
  <1>5. CASE RecordCycles
    <2>1. seq.report.res \subseteq ResolutionOf(ContractIds)
      BY <1>1 DEF SequenceOf, ReportOf
    <2>2. plan' \in PlanOf /\ plan'.members = plan.members /\ seq' = [seq EXCEPT !.pc = "not_shared"]
          /\ "not_shared" \in SeqPcs
      BY <1>1, <1>5, <2>1 DEF RecordCycles, PlanOf, SeqPcs
    <2>3. \A n \in DOMAIN seq.waves : n \in DOMAIN plan.members /\ plan.members[n] = seq.waves[n]
      BY <1>5 DEF RecordCycles, Inv, RecordedInv
    <2> QED BY <1>2, <2>2, <2>3, PlanStepInv
  <1>6. CASE RecordNotShared
    <2>1. seq.report.rejected \subseteq ContractIds
      BY <1>1 DEF SequenceOf, ReportOf
    <2>2. plan' \in PlanOf /\ plan'.members = plan.members
          /\ seq' = [seq EXCEPT !.pc = "contract_edges"] /\ "contract_edges" \in SeqPcs
      BY <1>1, <1>6, <2>1 DEF RecordNotShared, PlanOf, SeqPcs
    <2>3. \A n \in DOMAIN seq.waves : n \in DOMAIN plan.members /\ plan.members[n] = seq.waves[n]
      BY <1>6 DEF RecordNotShared, Inv, RecordedInv
    <2> QED BY <1>2, <2>2, <2>3, PlanStepInv
  <1> QED BY <1>3, <1>4, <1>5, <1>6

\* The edges of the plan's contracts point at contracts that are still there.
LEMMA WriteContractEdgesInv ==
  ASSUME Inv, WriteContractEdges
  PROVE  Inv'
  <1> DEFINE new == ContractEdgesOf(seq.report)
  <1>1. /\ seq.pc = "contract_edges" /\ Writing /\ seq' = [seq EXCEPT !.pc = "collisions"]
        /\ edges' = {e \in edges : EdgeKey(e) \notin {EdgeKey(n) : n \in new}} \cup new
        /\ UNCHANGED <<world, row, owed, tables, contracts, scan, plan>>
    BY DEF WriteContractEdges, Writing
  <1>2. /\ Dissolves(ContractIds, seq.N, seq.E, seq.C, seq.report) /\ PointsAt(seq.E) /\ Covered(seq.C)
        /\ seq.C \subseteq ContractOf(ContractIds)
    BY <1>1 DEF Inv, PlanInv, PlanMade, WavesMade, ReadInv, SeqTypes, SequenceOf
  <1>3. new \subseteq seq.report.E /\ seq.report.E \subseteq EdgeOf(ContractIds)
    BY <1>2 DEF ContractEdgesOf, Dissolves
  <1>4. PICK A : Traces(ContractIds, seq.E, seq.C, A, seq.report.E, seq.report.committed,
                        BrokenIn(seq.report.res))
    BY <1>2 DEF Dissolves
  <1>5. ASSUME NEW e \in new
        PROVE  e.dst \in Repos \/ \E c \in contracts : c.id = e.dst /\ e.src \in c.carriers
    <2>1. SUFFICES ASSUME e.dst \in ContractIds
                   PROVE  \E c \in contracts : c.id = e.dst /\ e.src \in c.carriers
      BY <1>3 DEF EdgeOf
    <2>2. Points(e, seq.E, seq.C)
      BY <1>3, <1>4, <2>1 DEF Traces
    <2>3. CASE \E f \in seq.E : f.src = e.src /\ f.dst = e.dst
      BY <1>2, <2>1, <2>3 DEF PointsAt
    <2>4. CASE \E c \in seq.C : c.id = e.dst /\ e.src \in c.carriers
      BY <1>2, <2>4 DEF Covered
    <2> QED BY <2>2, <2>3, <2>4 DEF Points
  <1> HIDE DEF new
  <1>6. \A e \in edges' : \/ e \in edges \/ e.dst \in Repos
                          \/ \E c \in contracts' : c.id = e.dst /\ e.src \in c.carriers
    BY <1>1, <1>5
  <1>7. ContractIds' = ContractIds
    BY <1>1 DEF ContractIds
  <1>8. StoreTypes' /\ ScanTypes'
    BY <1>1, <1>3, <1>7 DEF Inv, StoreTypes, ScanTypes, ScanOf
  <1>9. \A x : DiscoverCarriers(x)' = DiscoverCarriers(x) /\ Found(x)' = Found(x)
    BY <1>1 DEF DiscoverCarriers, ContractSymbols, Found
  <1>10. Known' /\ Grows
    BY <1>1, <1>9 DEF Inv, Known, Grows
  <1>11. \A d \in contracts' : seq.calm =>
          /\ \E c \in seq.C : SameFiles(c, d)
          /\ d.status \in Committed => d.id \in seq.report.committed
    BY <1>1, CalmContracts
  <1>12. \A n \in DOMAIN seq.waves : n \in DOMAIN plan.members /\ plan.members[n] = seq.waves[n]
    BY <1>1 DEF Inv, RecordedInv
  <1>13. plan' \in PlanOf /\ "collisions" \in SeqPcs /\ ContractEdgesOf(seq.report) \subseteq edges'
    BY <1>1 DEF Inv, SeqTypes, SeqPcs, new
  <1> QED BY <1>1, <1>6, <1>8, <1>10, <1>11, <1>12, <1>13, MoveInv

LEMMA EndInv ==
  ASSUME Inv, AuditCollisions \/ CheckCriteria \/ SeqCrash
  PROVE  Inv'
  <1>1. Aside /\ contracts' = contracts /\ edges' = edges /\ world' = world
    BY DEF AuditCollisions, CheckCriteria, SeqCrash, Aside
  <1>2. /\ StoreTypes' /\ ScanTypes' /\ Known' /\ ContractIds' = ContractIds /\ Seeded' = Seeded
        /\ GatedRepos' = GatedRepos /\ SequenceOf' = SequenceOf /\ PlanOf' = PlanOf
    BY <1>1, SameStore DEF Aside, SequenceOf, PlanOf, WaveMaps
  <1>3. seq \in SequenceOf /\ plan \in PlanOf /\ UniqueIds(seq.C) /\ PointsAt(edges)'
    BY <1>1, <1>2 DEF Inv, SeqTypes, ReadInv, PointsAt
  <1>4. CASE AuditCollisions
    <2>1. plan' \in PlanOf /\ plan'.members = plan.members
      BY <1>3, <1>4 DEF AuditCollisions, PlanOf, SequenceOf
    <2>2. CASE seq.claims # {}
      <3>1. seq' = Ended("failed")
        BY <1>4, <2>2 DEF AuditCollisions
      <3> QED BY <1>1, <1>2, <1>3, <2>1, <3>1, EndedInv
    <2>3. CASE seq.claims = {}
      <3>1. seq' = [seq EXCEPT !.pc = "exit"] /\ "exit" \in SeqPcs /\ Writing /\ seq.pc = "collisions"
        BY <1>4, <2>3 DEF AuditCollisions, SeqPcs, Writing
      <3>2. /\ \A n \in DOMAIN seq.waves : n \in DOMAIN plan.members /\ plan.members[n] = seq.waves[n]
            /\ ContractEdgesOf(seq.report) \subseteq edges
        BY <3>1 DEF Inv, RecordedInv, EdgesInv
      <3> QED BY <1>1, <2>1, <3>1, <3>2, PlanStepInv
    <2> QED BY <2>2, <2>3
  <1>5. CASE CheckCriteria
    <2>1. plan' = plan /\ seq.pc = "exit"
      BY <1>5 DEF CheckCriteria
    <2>2. CASE ~CriteriaHold
      <3>1. seq' = Ended("failed")
        BY <1>5, <2>2 DEF CheckCriteria
      <3> QED BY <1>1, <1>2, <1>3, <2>1, <3>1, EndedInv
    <2>3. CASE CriteriaHold
      <3>1. seq' = [seq EXCEPT !.pc = "idle", !.outcome = "ok"]
        BY <1>5, <2>3 DEF CheckCriteria
      <3>2. /\ seq'.pc = "idle" /\ seq'.outcome = "ok" /\ seq'.C = seq.C /\ seq'.N = seq.N
            /\ seq'.E = seq.E /\ seq'.report = seq.report /\ seq'.gated = seq.gated
            /\ seq'.waves = seq.waves /\ seq'.calm = seq.calm /\ seq' \in SequenceOf
        BY <1>3, <3>1 DEF SequenceOf, SeqPcs, Outcomes
      <3>3. SeqTypes'
        BY <1>2, <1>3, <2>1, <3>2 DEF SeqTypes
      <3>4. /\ Writing /\ WavesMade /\ PlanMade /\ ~Unmarked
            /\ ~Writing' /\ Done' /\ WavesMade' /\ PlanMade' /\ ~Unmarked'
        BY <2>1, <3>2 DEF Writing, Done, WavesMade, PlanMade, Unmarked
      <3>5. ReadInv'
        BY <1>1, <1>2, <3>2 DEF Inv, ReadInv, PointsAt, Covered
      <3>6. PlanInv' /\ WavesInv'
        BY <1>2, <3>2, <3>4 DEF Inv, PlanInv, WavesInv
      <3>7. CalmInv'
        BY <1>1, <1>2, <3>2, <3>4 DEF Inv, CalmInv
      <3>8. RecordedInv' /\ EdgesInv'
        BY <1>1, <2>1, <3>2 DEF Inv, RecordedInv, EdgesInv
      <3> QED BY <1>2, <3>3, <3>5, <3>6, <3>7, <3>8 DEF Inv
    <2> QED BY <2>2, <2>3
  <1>6. CASE SeqCrash
    <2>1. seq' = Ended("crashed") /\ plan' = plan
      BY <1>6 DEF SeqCrash
    <2> QED BY <1>1, <1>2, <1>3, <2>1, EndedInv
  <1> QED BY <1>4, <1>5, <1>6

LEMMA SeqNextInv ==
  ASSUME Inv, SeqNext
  PROVE  Inv'
  <1>1. ASSUME NEW forbid \in Forbids, NEW forced \in BOOLEAN, SeqStart(forbid, forced) PROVE Inv'
    BY <1>1, SeqStartInv
  <1>2. CASE ReadNodes \/ ReadEdges \/ ReadGated
    BY <1>2, ReadNodesInv, ReadEdgesInv, ReadGatedInv
  <1>3. CASE MarkHoisted
    <2>1. Marks(seq.report.committed \ PreCommitted, "HOISTED", "rejected")
      BY <1>3 DEF MarkHoisted, Marks
    <2> QED BY <2>1, MarkInv
  <1>4. CASE MarkRejected
    <2>1. Marks(seq.report.rejected, "REJECTED", "forbidden")
      BY <1>4 DEF MarkRejected, Marks
    <2> QED BY <2>1, MarkInv
  <1>5. CASE MarkForbidden
    <2>1. Marks({c.id : c \in {x \in contracts : x.id \in Forbidden /\ x.ext}}, "FORBIDDEN", "overrides")
      BY <1>5 DEF MarkForbidden, Marks
    <2> HIDE DEF Marks
    <2> QED BY <2>1, MarkInv
  <1>6. CASE RecordOverrides \/ RecordPlan \/ RecordCycles \/ RecordNotShared
    BY <1>6, RecordInv
  <1>7. CASE WriteContractEdges
    BY <1>7, WriteContractEdgesInv
  <1>8. CASE AuditCollisions \/ CheckCriteria \/ SeqCrash
    BY <1>8, EndInv
  <1> QED BY <1>1, <1>2, <1>3, <1>4, <1>5, <1>6, <1>7, <1>8 DEF SeqNext

LEMMA InitInv ==
  ASSUME Init
  PROVE  Inv
  <1>1. /\ world \in Worlds /\ edges = {} /\ contracts = {} /\ scan = IdleScan
        /\ seq = FirstSeq /\ plan = NoPlan /\ tables = NoTables
    BY DEF Init, ScanInit
  <1>2. StoreTypes
    BY <1>1 DEF StoreTypes, UniqueIds
  <1>3. ScanTypes
    <2>1. row \in [Repos -> RowStates] /\ owed \in [Repos -> Nat]
      BY DEF Init, ScanInit, RowStates
    <2>2. scan \in ScanOf /\ scan.committed = {}
      BY <1>1 DEF IdleScan, ScanOf, ScanPcs
    <2>3. tables \in TablesOf
      BY <1>1 DEF NoTables, TablesOf
    <2> QED BY <2>1, <2>2, <2>3 DEF ScanTypes, UniqueIds
  <1>4. Known
    BY <1>1 DEF Known, IdleScan
  <1>5. <<>> \in WaveMaps
    <2>1. <<>> \in [{} -> Nat]
      OBVIOUS
    <2> QED BY <2>1 DEF WaveMaps
  <1>6. /\ seq.pc = "idle" /\ seq.outcome = "none" /\ seq.C = {} /\ seq.E = {} /\ seq \in SequenceOf
    BY <1>1, <1>5 DEF FirstSeq, NoReport, SequenceOf, SeqPcs, Outcomes, ReportOf
  <1>7. plan \in PlanOf
    BY <1>1, <1>5 DEF NoPlan, PlanOf
  <1>8. SeqTypes
    BY <1>6, <1>7 DEF SeqTypes, UniqueIds
  <1>9. ReadInv
    BY <1>1, <1>6 DEF ReadInv, PointsAt, Covered
  <1>10. ~Writing /\ ~Done /\ ~WavesMade /\ ~PlanMade /\ ~Unmarked
    BY <1>6 DEF Writing, Done, WavesMade, PlanMade, Unmarked
  <1>11. PlanInv /\ WavesInv /\ CalmInv /\ RecordedInv /\ EdgesInv
    BY <1>6, <1>10 DEF PlanInv, WavesInv, CalmInv, RecordedInv, EdgesInv
  <1> QED BY <1>2, <1>3, <1>4, <1>8, <1>9, <1>11 DEF Inv

LEMMA StutterInv ==
  ASSUME Inv, UNCHANGED vars
  PROVE  Inv'
  <1>1. /\ UNCHANGED <<world, row, owed, tables, edges, contracts, scan, seq, plan>>
    BY DEF vars
  <1>2. /\ ContractIds' = ContractIds /\ SequenceOf' = SequenceOf /\ PlanOf' = PlanOf /\ ScanOf' = ScanOf
        /\ Seeded' = Seeded /\ GatedRepos' = GatedRepos
    BY <1>1 DEF ContractIds, SequenceOf, PlanOf, WaveMaps, ScanOf, Seeded, GatedRepos
  <1>3. /\ Writing' = Writing /\ Done' = Done /\ WavesMade' = WavesMade /\ PlanMade' = PlanMade
        /\ Unmarked' = Unmarked
    BY <1>1 DEF Writing, Done, WavesMade, PlanMade, Unmarked
  <1>4. \A x : DiscoverCarriers(x)' = DiscoverCarriers(x) /\ Found(x)' = Found(x)
    BY <1>1 DEF DiscoverCarriers, ContractSymbols, Found
  <1>5. StoreTypes' /\ ScanTypes' /\ Known' /\ SeqTypes'
    BY <1>1, <1>2, <1>4 DEF Inv, StoreTypes, ScanTypes, Known, SeqTypes
  <1>6. ReadInv' /\ PlanInv' /\ WavesInv'
    BY <1>1, <1>2, <1>3 DEF Inv, ReadInv, PointsAt, Covered, PlanInv, WavesInv
  <1>7. CalmInv' /\ RecordedInv' /\ EdgesInv'
    BY <1>1, <1>2, <1>3 DEF Inv, CalmInv, RecordedInv, EdgesInv
  <1> QED BY <1>5, <1>6, <1>7 DEF Inv

-----------------------------------------------------------------------------
(* The theorems *)

\* The types, what the contracts and edges of the tables have to do with one
\* another, and what a command knows of its plan at every point.
THEOREM SequencingInvariant == Spec => []Inv
  <1>1. Inv /\ [Next]_vars => Inv'
    BY ScanStepInv, SeqNextInv, StutterInv DEF Next
  <1> QED BY <1>1, InitInv, PTL DEF Spec

\* Every ordering edge a command read is honoured by the waves it is about to
\* write or accounted for, whatever contracts were hoisted and edges broken.
THEOREM EdgesAreAccounted == Spec => []EdgesAccounted
  <1>1. Inv => EdgesAccounted
    BY PlanAccounts DEF Inv
  <1> QED BY <1>1, SequencingInvariant, PTL

\* A command that reports success has written all of its plan, whatever crashed
\* before it, unless a scan has written since it started.
THEOREM SequencedPlansAreComplete == Spec => []SequencedIsComplete
  <1> QED BY PlanIsComplete, SequencingInvariant, PTL

=============================================================================
