------------------------- MODULE ModelClientProofs -------------------------
(***************************************************************************)
(* Proofs about ModelClient: the probe of a breaker is always given back,   *)
(* an answer is replayed as nobody else's, an outage fails over, and no     *)
(* dispatch asks for more tokens than the budget has left.                 *)
(***************************************************************************)
EXTENDS ModelClient, TLAPS, WellFoundedInduction, SequenceTheorems

-----------------------------------------------------------------------------
(* The ladder is a sequence of endpoints.  FlattenSeq is a recursive         *)
(* function; that it exists and what it ranges over follow from a least     *)
(* counterexample.                                                         *)

\* A nonempty set of naturals has a least element.
LEMMA Least ==
  ASSUME NEW S \in SUBSET Nat, S # {}
  PROVE  \E x \in S : \A y \in S : x <= y
<1> DEFINE R == {ss \in Nat \X Nat : ss[1] < ss[2]}
<1>1. IsWellFoundedOn(R, Nat)
  BY NatLessThanWellFounded DEF OpToRel
<1>2. PICK x \in S : \A y \in S : ~(<<y, x>> \in R)
  <2> HIDE DEF R
  <2> QED  BY <1>1, WFMin, Zenon
<1>3. ASSUME NEW y \in S PROVE x <= y
  <2>1. x \in Nat /\ y \in Nat
    OBVIOUS
  <2>2. y < x => <<y, x>> \in R
    BY <2>1
  <2> QED  BY <1>2, <2>1, <2>2
<1> QED  BY <1>3

LEMMA MinIsLeast ==
  ASSUME NEW S \in SUBSET Nat, S # {}
  PROVE  Min(S) \in S /\ \A y \in S : Min(S) <= y
BY Least DEF Min

\* The equation flatten[n] solves, on a prefix.
Flattens(seqs, n, f) ==
  f = [k \in 1 .. n |-> IF k = 1 THEN seqs[k] ELSE f[k - 1] \o seqs[k]]

LEMMA FlattenExists ==
  ASSUME NEW seqs, NEW n \in Nat
  PROVE  \E f : Flattens(seqs, n, f)
<1> DEFINE Bad == {m \in Nat : ~ \E f : Flattens(seqs, m, f)}
<1>1. SUFFICES ASSUME Bad # {} PROVE FALSE
  OBVIOUS
<1>2. Bad \in SUBSET Nat
  OBVIOUS
<1>3. PICK m \in Bad : \A k \in Bad : m <= k
  <2> HIDE DEF Bad
  <2> QED  BY <1>1, <1>2, Least
<1>4. m # 0
  <2>1. Flattens(seqs, 0, [k \in 1 .. 0 |-> <<>>])
    BY DEF Flattens
  <2> QED  BY <1>3, <2>1
<1>5. m \in Nat /\ m - 1 \in Nat /\ ~(m <= m - 1)
  BY <1>4
<1>6. m - 1 \notin Bad
  <2> HIDE DEF Bad
  <2> QED  BY <1>3, <1>5
<1>7. PICK f : Flattens(seqs, m - 1, f)
  BY <1>5, <1>6
<1> DEFINE g == [k \in 1 .. m |-> IF k = m THEN IF m = 1 THEN seqs[m] ELSE f[m - 1] \o seqs[m]
                                 ELSE f[k]]
<1>8. ASSUME NEW k \in 1 .. m
      PROVE  g[k] = IF k = 1 THEN seqs[k] ELSE g[k - 1] \o seqs[k]
  <2>1. CASE k = m
    <3>1. k # 1 => k - 1 \in 1 .. m /\ k - 1 # m
      BY <1>5, <2>1
    <3> QED  BY <2>1, <3>1
  <2>2. CASE k # m
    <3>1. k \in 1 .. (m - 1)
      BY <1>5, <2>2
    <3>2. g[k] = f[k]
      BY <2>2
    <3>3. f[k] = IF k = 1 THEN seqs[k] ELSE f[k - 1] \o seqs[k]
      BY <1>7, <3>1, Zenon DEF Flattens
    <3>4. k # 1 => k - 1 \in 1 .. m /\ k - 1 # m
      BY <1>5, <3>1
    <3>5. k # 1 => g[k - 1] = f[k - 1]
      BY <3>4
    <3> QED  BY <3>2, <3>3, <3>5
  <2> QED  BY <2>1, <2>2
<1>9. Flattens(seqs, m, g)
  <2> DEFINE G(k) == IF k = 1 THEN seqs[k] ELSE g[k - 1] \o seqs[k]
  <2>1. g = [k \in 1 .. m |-> g[k]]
    OBVIOUS
  <2>2. \A k \in 1 .. m : g[k] = G(k)
    BY <1>8
  <2> HIDE DEF g
  <2>3. g = [k \in 1 .. m |-> IF k = 1 THEN seqs[k] ELSE g[k - 1] \o seqs[k]]
    BY <2>1, <2>2, Zenon
  <2> QED  BY <2>3 DEF Flattens
<1> QED  BY <1>3, <1>9

LEMMA FlattenType ==
  ASSUME NEW S, NEW seqs \in Seq(Seq(S))
  PROVE  FlattenSeq(seqs) \in Seq(S)
<1> DEFINE n == Len(seqs)
           F == CHOOSE f : Flattens(seqs, n, f)
<1>0. n \in Nat
  OBVIOUS
<1>1. CASE n = 0
  <2>1. FlattenSeq(seqs) = seqs
    BY <1>1 DEF FlattenSeq
  <2>2. seqs = <<>>
    BY <1>1
  <2> QED  BY <2>1, <2>2
<1>2. CASE n # 0
  <2>1. Flattens(seqs, n, F)
    <3> HIDE DEF n
    <3> QED  BY <1>0, FlattenExists
  <2>2. FlattenSeq(seqs) = F[n]
    BY <1>2 DEF FlattenSeq, Flattens
  <2> HIDE DEF F
  <2>3. \A k \in 1 .. n : F[k] = IF k = 1 THEN seqs[k] ELSE F[k - 1] \o seqs[k]
    BY <2>1, Zenon DEF Flattens
  <2> DEFINE Bad == {k \in Nat : k \in 1 .. n /\ F[k] \notin Seq(S)}
  <2>4. Bad = {}
    <3>1. SUFFICES ASSUME Bad # {} PROVE FALSE
      OBVIOUS
    <3>2. Bad \in SUBSET Nat
      OBVIOUS
    <3>3. PICK m \in Bad : \A k \in Bad : m <= k
      <4> HIDE DEF Bad
      <4> QED  BY <3>1, <3>2, Least
    <3>4. m \in 1 .. n /\ m \in Nat /\ seqs[m] \in Seq(S)
      BY <1>0
    <3>5. m # 1
      BY <2>3, <3>4
    <3>6. m - 1 \in 1 .. n /\ m - 1 \in Nat /\ ~(m <= m - 1)
      BY <1>0, <3>4, <3>5
    <3>7. m - 1 \notin Bad
      <4> HIDE DEF Bad
      <4> QED  BY <3>3, <3>6
    <3>8. F[m - 1] \in Seq(S)
      BY <3>6, <3>7
    <3>9. F[m] = F[m - 1] \o seqs[m]
      BY <2>3, <3>4, <3>5
    <3>10. F[m] \notin Seq(S)
      OBVIOUS
    <3> HIDE DEF Bad
    <3>11. F[m - 1] \o seqs[m] \in Seq(S)
      BY <3>4, <3>8, ConcatProperties
    <3> QED  BY <3>9, <3>10, <3>11
  <2>5. n \in 1 .. n
    BY <1>0, <1>2
  <2> QED  BY <1>0, <2>2, <2>4, <2>5
<1> QED  BY <1>1, <1>2

LEMMA ReplicasType ==
  ASSUME NEW r \in Routes, NEW t \in DOMAIN r, NEW c \in Callers
  PROVE  resolve_replicas(r, t, c) \in Seq(EndpointsOf[r])
<1> DEFINE urls == r[t].urls
           n == Len(urls)
           start == replica_index[c] % n
           E == EndpointsOf[r]
<1>1. urls \in Seq(Range(urls)) /\ urls # <<>> /\ replica_index[c] \in Nat
  BY ClientAssumption
<1>2. n \in Nat \ {0} /\ DOMAIN urls = 1 .. n
  BY <1>1
<1>3. start \in Nat
  <2> HIDE DEF n
  <2> QED  BY <1>1, <1>2
<1>4. \A u \in Range(urls) : Endpoint(t, u) \in E
  BY DEF EndpointsOf
<1>5. ASSUME NEW k \in 1 .. n
      PROVE  Endpoint(t, urls[((start + k - 1) % n) + 1]) \in E
  <2> DEFINE x == start + k - 1
  <2>1. x \in Nat
    <3> HIDE DEF n, start
    <3> QED  BY <1>2, <1>3
  <2>2. (x % n) + 1 \in 1 .. n
    <3> HIDE DEF n, start, x
    <3> QED  BY <1>2, <2>1
  <2> HIDE DEF x
  <2>3. urls[(x % n) + 1] \in Range(urls)
    BY <1>2, <2>2 DEF Range
  <2> QED  BY <1>4, <2>3 DEF x
<1>6. resolve_replicas(r, t, c)
        = [k \in 1 .. n |-> Endpoint(t, urls[((start + k - 1) % n) + 1])]
  BY <1>2 DEF resolve_replicas
<1> DEFINE g == [k \in 1 .. n |-> Endpoint(t, urls[((start + k - 1) % n) + 1])]
<1>7. g \in [1 .. n -> E]
  BY <1>5
<1> HIDE DEF g, n, E
<1> QED  BY <1>2, <1>6, <1>7 DEF g, E

\* LadderModelClient.complete tries endpoints of its own route only.
LEMMA LadderOfType ==
  ASSUME NEW r \in Routes, NEW c \in Callers
  PROVE  LadderOf[r][c] \in Seq(EndpointsOf[r])
<1> DEFINE m == Min({MaxTargets, Len(r)})
           s == [t \in 1 .. m |-> resolve_replicas(r, t, c)]
<1>1. r \in Seq(Range(r)) /\ MaxTargets \in Nat
  BY ClientAssumption
<1>2. Len(r) \in Nat /\ DOMAIN r = 1 .. Len(r)
  BY <1>1
<1>3. m \in Nat /\ m <= Len(r)
  <2> DEFINE P == {MaxTargets, Len(r)}
  <2>1. P \in SUBSET Nat /\ P # {} /\ Len(r) \in P
    BY <1>1, <1>2
  <2>2. Min(P) \in P /\ \A y \in P : Min(P) <= y
    <3> HIDE DEF P
    <3> QED  BY <2>1, MinIsLeast
  <2> QED  BY <2>1, <2>2
<1>4. \A t \in 1 .. m : resolve_replicas(r, t, c) \in Seq(EndpointsOf[r])
  <2> HIDE DEF m
  <2>1. 1 .. m \subseteq DOMAIN r
    BY <1>2, <1>3
  <2> QED  BY <2>1, ReplicasType, Zenon
<1>5. s \in Seq(Seq(EndpointsOf[r]))
  <2> DEFINE Q == Seq(EndpointsOf[r])
  <2>1. s \in [1 .. m -> Q]
    <3> HIDE DEF m
    <3> QED  BY <1>4
  <2> HIDE DEF s, m, Q
  <2>2. s \in Seq(Q)
    BY <1>3, <2>1
  <2> QED  BY <2>2 DEF Q
<1>6. LadderOf[r][c] = FlattenSeq(s)
  BY DEF LadderOf
<1> HIDE DEF s
<1> QED  BY <1>5, <1>6, FlattenType

LEMMA LadderType ==
  ASSUME route \in Routes, NEW c \in Callers
  PROVE  /\ Ladder[c] \in Seq(Endpoints)
         /\ \A i \in 1 .. Len(Ladder[c]) : Ladder[c][i] \in Endpoints
<1>1. Ladder[c] \in Seq(Endpoints)
  BY LadderOfType DEF Ladder, Endpoints
<1> QED  BY <1>1

LEMMA EndpointTarget ==
  ASSUME route \in Routes, NEW e \in Endpoints
  PROVE  /\ e.target \in DOMAIN route
         /\ route[e.target].max_output \in Nat
         /\ route[e.target].backend \in Backends
<1>1. e.target \in DOMAIN route
  BY DEF Endpoints, EndpointsOf, Endpoint
<1> QED  BY <1>1, ClientAssumption

\* The position the loop goes on at is one of the ladder's, or one past it.
LEMMA NextRungType ==
  ASSUME route \in Routes, NEW c \in Callers, NEW i \in Nat \ {0}, NEW h
  PROVE  NextRung(c, i, h) \in 1 .. (Len(Ladder[c]) + 1)
<1> DEFINE n == Len(Ladder[c])
           P == {j \in i .. n : may_call(h[Ladder[c][j]])}
<1>1. n \in Nat
  BY LadderType
<1>2. P \cup {n + 1} \in SUBSET (1 .. (n + 1))
  <2> HIDE DEF n
  <2> QED  BY <1>1
<1>3. Min(P \cup {n + 1}) \in P \cup {n + 1}
  <2>1. P \cup {n + 1} \in SUBSET Nat /\ P \cup {n + 1} # {}
    BY <1>2
  <2> HIDE DEF P, n
  <2> QED  BY <2>1, MinIsLeast
<1>4. NextRung(c, i, h) = Min(P \cup {n + 1})
  BY DEF NextRung
<1> HIDE DEF P, n
<1> QED  BY <1>2, <1>3, <1>4 DEF n

-----------------------------------------------------------------------------
(* What the transports make of the wire.                                   *)

Shape(x) ==
  \/ x.kind = "LlmError" /\ x.finish = "none"
  \/ x.kind = "TransportError" /\ x.finish = "none"
  \/ /\ x.kind = "BackendReply"
     /\ x.finish \in {"stop", "length", "tool_call", "refusal", "filtered"}

\* A transport reports an outage as what it is.
Honest(x, class) == Shape(x) /\ (x.kind = "LlmError" => class \notin Outages)

LEMMA ErrorsAreHonest ==
  ASSUME NEW class \in Faults
  PROVE  /\ Honest(AnthropicError(class), class)
         /\ Honest(OpenAIError(class), class)
         /\ Honest(BedrockError(class), class)
         /\ Honest(VertexError(class), class)
         /\ Honest(HarmonyError(class), class)
<1> USE DEF Honest, Shape, Outages, TransportError, LlmError
<1>1. CASE class = "unreachable"
  BY <1>1 DEF AnthropicError, OpenAIError, BedrockError, VertexError, HarmonyError
<1>2. CASE class = "throttled"
  BY <1>2 DEF AnthropicError, OpenAIError, BedrockError, VertexError, HarmonyError
<1>3. CASE class = "server"
  BY <1>3 DEF AnthropicError, OpenAIError, BedrockError, VertexError, HarmonyError
<1>4. CASE class = "rejected"
  BY <1>4 DEF AnthropicError, OpenAIError, BedrockError, VertexError, HarmonyError
<1>5. CASE class = "garbled"
  BY <1>5 DEF AnthropicError, OpenAIError, BedrockError, VertexError, HarmonyError
<1>6. CASE class = "unshaped"
  BY <1>6 DEF AnthropicError, OpenAIError, BedrockError, VertexError, HarmonyError
<1>7. CASE class = "headless"
  BY <1>7 DEF AnthropicError, OpenAIError, BedrockError, VertexError, HarmonyError
<1> QED  BY <1>1, <1>2, <1>3, <1>4, <1>5, <1>6, <1>7 DEF Faults

LEMMA RepliesHaveShape ==
  ASSUME NEW stop \in StopReasons, NEW body
  PROVE  /\ Shape(AnthropicReply(stop, body))
         /\ Shape(OpenAIReply(stop, body))
         /\ Shape(BedrockReply(stop, body))
         /\ Shape(VertexReply(stop, body))
         /\ Shape(HarmonyReply(stop, body))
<1> USE DEF Shape, BackendReply, LlmError
<1>1. CASE stop = "end"
  BY <1>1 DEF AnthropicReply, OpenAIReply, BedrockReply, VertexReply, HarmonyReply
<1>2. CASE stop = "limit"
  BY <1>2 DEF AnthropicReply, OpenAIReply, BedrockReply, VertexReply, HarmonyReply
<1>3. CASE stop = "tool"
  BY <1>3 DEF AnthropicReply, OpenAIReply, BedrockReply, VertexReply, HarmonyReply
<1>4. CASE stop = "refusal"
  BY <1>4 DEF AnthropicReply, OpenAIReply, BedrockReply, VertexReply, HarmonyReply
<1>5. CASE stop = "filter"
  BY <1>5 DEF AnthropicReply, OpenAIReply, BedrockReply, VertexReply, HarmonyReply
<1>6. CASE stop = "unlisted"
  BY <1>6 DEF AnthropicReply, OpenAIReply, BedrockReply, VertexReply, HarmonyReply
<1> QED  BY <1>1, <1>2, <1>3, <1>4, <1>5, <1>6 DEF StopReasons

LEMMA WireFields ==
  ASSUME NEW w \in Wire
  PROVE  /\ w.class \in Faults \/ w.class = "message"
         /\ w.stop \in StopReasons
<1>1. w \in [class : Faults, stop : {"end"}, body : {"none"}]
        \/ w \in [class : {"message"}, stop : StopReasons, body : Bodies]
  BY DEF Wire
<1> QED  BY <1>1 DEF StopReasons

LEMMA HarmonyIsHonest ==
  ASSUME NEW w \in Wire, NEW w2 \in Wire
  PROVE  Honest(HarmonyInvoke(w, w2, TRUE), DecidingClass("harmony_gpt_oss", w, w2))
<1> DEFINE of(v) == IF v.class = "message" THEN HarmonyReply(v.stop, v.body)
                    ELSE HarmonyError(v.class)
<1>1. ASSUME NEW v \in Wire
      PROVE  Honest(of(v), v.class) /\ (v.class = "message" => of(v).kind = "BackendReply")
  <2>1. CASE v.class = "message"
    <3>1. of(v) = HarmonyReply(v.stop, v.body) /\ v.class \notin Outages
      BY <2>1 DEF Outages
    <3>2. Shape(HarmonyReply(v.stop, v.body))
      BY WireFields, RepliesHaveShape
    <3>3. HarmonyReply(v.stop, v.body).kind = "BackendReply"
      BY DEF HarmonyReply, BackendReply
    <3> QED  BY <3>1, <3>2, <3>3 DEF Honest
  <2>2. CASE v.class # "message"
    BY <2>2, WireFields, ErrorsAreHonest
  <2> QED  BY <2>1, <2>2
<1>2. of(w).body = w.body \/ w.class # "message"
  BY DEF HarmonyReply, BackendReply
<1>3. w.class # "message" => (of(w).kind = "BackendReply" => of(w).body # "valid")
  <2>1. ASSUME w.class # "message" PROVE of(w).body # "valid"
    <3>1. of(w) = HarmonyError(w.class)
      BY <2>1
    <3>2. HarmonyError(w.class) = LlmError
          \/ \E t \in {"CONNECTION", "RATE_LIMIT", "SERVER_ERROR"} :
                 HarmonyError(w.class) = TransportError(t)
      BY DEF HarmonyError, AnthropicError
    <3> QED  BY <3>1, <3>2 DEF LlmError, TransportError
  <2> QED  BY <2>1
<1>4. HarmonyInvoke(w, w2, TRUE)
        = IF of(w).kind # "BackendReply" \/ of(w).body # "valid" THEN of(w)
          ELSE IF of(w2).kind # "BackendReply" THEN of(w2)
          ELSE IF of(w2).finish = "length" THEN BackendReply("length", of(w2).body)
          ELSE BackendReply("tool_call", of(w2).body)
  BY DEF HarmonyInvoke
<1>5. Honest(of(w), w.class) /\ Honest(of(w2), w2.class)
      /\ (w.class = "message" => of(w).kind = "BackendReply")
  BY <1>1
<1>6. \A f \in {"length", "tool_call"} : \A x, y : Honest(BackendReply(f, x), y)
  BY DEF Honest, Shape, BackendReply
<1>7. DecidingClass("harmony_gpt_oss", w, w2)
        = IF w.class = "message" /\ w.body = "valid" THEN w2.class ELSE w.class
  BY DEF DecidingClass
<1> HIDE DEF of
<1>8. CASE of(w).kind # "BackendReply" \/ of(w).body # "valid"
  <2>1. HarmonyInvoke(w, w2, TRUE) = of(w)
    BY <1>4, <1>8
  <2>2. ~(w.class = "message" /\ w.body = "valid")
    BY <1>2, <1>5, <1>8
  <2> QED  BY <1>5, <1>7, <2>1, <2>2
<1>9. CASE of(w).kind = "BackendReply" /\ of(w).body = "valid"
  <2>1. w.class = "message" /\ w.body = "valid"
    BY <1>2, <1>3, <1>9
  <2>2. CASE of(w2).kind # "BackendReply"
    BY <1>4, <1>5, <1>7, <1>9, <2>1, <2>2
  <2>3. CASE of(w2).kind = "BackendReply"
    BY <1>4, <1>6, <1>9, <2>3
  <2> QED  BY <2>2, <2>3
<1> QED  BY <1>8, <1>9

LEMMA InvokeIsHonest ==
  ASSUME NEW b \in Backends, NEW w \in Wire, NEW w2 \in Wire
  PROVE  Honest(invoke(b, w, w2, TRUE), DecidingClass(b, w, w2))
<1>1. w.class = "message" => w.class \notin Outages
  BY DEF Outages
<1>2. b # "harmony_gpt_oss" => DecidingClass(b, w, w2) = w.class
  BY DEF DecidingClass
<1>3. CASE b = "anthropic"
  <2>1. invoke(b, w, w2, TRUE) = IF w.class = "message" THEN AnthropicReply(w.stop, w.body)
                                 ELSE AnthropicError(w.class)
    BY <1>3 DEF invoke
  <2> QED  BY <1>1, <1>2, <1>3, <2>1, WireFields, ErrorsAreHonest, RepliesHaveShape DEF Honest
<1>4. CASE b = "openai_compatible"
  <2>1. invoke(b, w, w2, TRUE) = IF w.class = "message" THEN OpenAIReply(w.stop, w.body)
                                 ELSE OpenAIError(w.class)
    BY <1>4 DEF invoke
  <2> QED  BY <1>1, <1>2, <1>4, <2>1, WireFields, ErrorsAreHonest, RepliesHaveShape DEF Honest
<1>5. CASE b = "bedrock"
  <2>1. invoke(b, w, w2, TRUE) = IF w.class = "message" THEN BedrockReply(w.stop, w.body)
                                 ELSE BedrockError(w.class)
    BY <1>5 DEF invoke
  <2> QED  BY <1>1, <1>2, <1>5, <2>1, WireFields, ErrorsAreHonest, RepliesHaveShape DEF Honest
<1>6. CASE b = "vertex"
  <2>1. invoke(b, w, w2, TRUE) = IF w.class = "message" THEN VertexReply(w.stop, w.body)
                                 ELSE VertexError(w.class)
    BY <1>6 DEF invoke
  <2> QED  BY <1>1, <1>2, <1>6, <2>1, WireFields, ErrorsAreHonest, RepliesHaveShape DEF Honest
<1>7. CASE b = "harmony_gpt_oss"
  <2>1. invoke(b, w, w2, TRUE) = HarmonyInvoke(w, w2, TRUE)
    BY <1>7 DEF invoke
  <2> QED  BY <1>7, <2>1, HarmonyIsHonest
<1> QED  BY <1>3, <1>4, <1>5, <1>6, <1>7 DEF Backends

LEMMA ResultsAreHonest ==
  ASSUME NEW b \in Backends, NEW r \in Results[b]
  PROVE  Shape(r[1]) /\ r[2] \in BOOLEAN /\ (r[1].kind = "LlmError" => ~r[2])
<1>1. Single \subseteq Wire
  BY DEF Single, Wire, StopReasons, Bodies
<1>2. \E w \in Wire, w2 \in Wire :
        r = <<invoke(b, w, w2, TRUE), DecidingClass(b, w, w2) \in Outages>>
  <2> DEFINE D == IF b = "harmony_gpt_oss" THEN Wire ELSE Single
             G(w, w2) == <<invoke(b, w, w2, TRUE), DecidingClass(b, w, w2) \in Outages>>
  <2>1. Results[b] = {G(w, w2) : w \in Wire, w2 \in D}
    BY DEF Results
  <2>2. D \subseteq Wire
    BY <1>1
  <2> HIDE DEF G, D
  <2>3. \E w \in Wire, w2 \in D : r = G(w, w2)
    BY <2>1
  <2> QED  BY <2>2, <2>3 DEF G
<1>3. PICK w \in Wire, w2 \in Wire :
        r = <<invoke(b, w, w2, TRUE), DecidingClass(b, w, w2) \in Outages>>
  BY <1>2
<1>4. r[1] = invoke(b, w, w2, TRUE) /\ r[2] = (DecidingClass(b, w, w2) \in Outages)
  BY <1>3
<1>5. Shape(r[1]) /\ (r[1].kind = "LlmError" => DecidingClass(b, w, w2) \notin Outages)
  BY <1>4, InvokeIsHonest DEF Honest
<1>6. r[2] \in BOOLEAN
  BY <1>3
<1> QED  BY <1>4, <1>5, <1>6, Zenon

-----------------------------------------------------------------------------
(* The breaker.                                                            *)

LEMMA FreshType == Fresh \in Health /\ Fresh.state # "HALF_OPEN"
<1>1. 0 \in 0 .. OpenAfter
  BY ClientAssumption
<1> QED  BY <1>1 DEF Fresh, Health

LEMMA ClaimType ==
  ASSUME NEW h \in Health
  PROVE  claim(h) \in Health
BY DEF claim, Health

\* A reported failure resolves a probe, whoever's it is ...
LEMMA FailureResolves ==
  ASSUME NEW h \in Health
  PROVE  record_failure(h) \in Health /\ record_failure(h).state # "HALF_OPEN"
<1> DEFINE x == Max({h.fails, OpenAfter})
           n == Min({h.fails + 1, OpenAfter})
<1>1. h.fails \in 0 .. OpenAfter /\ h.state \in {"UP", "DOWN", "HALF_OPEN"}
      /\ h.cooled \in BOOLEAN /\ OpenAfter \in Nat
  BY ClientAssumption DEF Health
<1>2. x \in 0 .. OpenAfter
  <2>1. x = OpenAfter
    BY <1>1 DEF Max
  <2> QED  BY <1>1, <2>1
<1>3. n \in 0 .. OpenAfter
  <2> DEFINE P == {h.fails + 1, OpenAfter}
  <2>1. P \in SUBSET Nat /\ P # {} /\ OpenAfter \in P
    BY <1>1
  <2>2. Min(P) \in P /\ \A y \in P : Min(P) <= y
    <3> HIDE DEF P
    <3> QED  BY <2>1, MinIsLeast
  <2>3. Min(P) \in Nat /\ Min(P) <= OpenAfter
    <3> HIDE DEF P
    <3> QED  BY <2>1, <2>2
  <2> QED  BY <1>1, <2>3
<1> HIDE DEF x, n
<1>4. CASE h.state = "HALF_OPEN"
  <2>1. record_failure(h) = [state |-> "DOWN", fails |-> x, cooled |-> FALSE]
    BY <1>4 DEF record_failure, x
  <2> QED  BY <1>2, <2>1 DEF Health
<1>5. CASE h.state # "HALF_OPEN"
  <2>1. record_failure(h) = IF n >= OpenAfter /\ h.state # "DOWN"
                            THEN [state |-> "DOWN", fails |-> n, cooled |-> FALSE]
                            ELSE [h EXCEPT !.fails = n]
    BY <1>5 DEF record_failure, n
  <2>2. [state |-> "DOWN", fails |-> n, cooled |-> FALSE] \in Health
    BY <1>3 DEF Health
  <2>3. [h EXCEPT !.fails = n] \in Health /\ [h EXCEPT !.fails = n].state = h.state
    BY <1>3 DEF Health
  <2> QED  BY <1>5, <2>1, <2>2, <2>3
<1> QED  BY <1>4, <1>5

\* ... and so does a probe that is given up.
LEMMA AbandonResolves ==
  ASSUME NEW h \in Health
  PROVE  abandon_probe(h) \in Health /\ abandon_probe(h).state # "HALF_OPEN"
BY DEF abandon_probe, Health

-----------------------------------------------------------------------------
(* What a step of one call does to its frame and to the breaker.           *)

InFlight == {"invoke", "backoff"}

\* A frame a call may be left in.
Sound(c, f) ==
  /\ f \in Frame
  /\ ~f.lost
  /\ f.pc \in InFlight \cup {"store"} => f.i \in 1 .. Len(Ladder[c])
  /\ f.pc \in InFlight => InputTokens + f.cap <= Budget.tokens

Holds(c, f, x) == f.pc \in InFlight /\ f.probing /\ Ladder[c][f.i] = x

\* Whatever h has HALF_OPEN was so before, and not by this call.
Resolved(c, h) ==
  /\ h \in [Endpoints -> Health]
  /\ \A x \in Endpoints : h[x].state = "HALF_OPEN" =>
       health[x].state = "HALF_OPEN" /\ ~Holds(c, call[c], x)

Accounted(c, f, h) ==
  /\ h \in [Endpoints -> Health]
  /\ \A x \in Endpoints : h[x].state = "HALF_OPEN" =>
       \/ Holds(c, f, x)
       \/ health[x].state = "HALF_OPEN" /\ ~Holds(c, call[c], x)

Moved(c) ==
  \E f : /\ call' = [call EXCEPT ![c] = f]
         /\ Sound(c, f)
         /\ Accounted(c, f, health')

IInv ==
  /\ TypeOK
  /\ ProbeHeld
  /\ AnswerIsItsOwn
  /\ OutageFailsOver
  /\ TokensWithinBudget

LEMMA SoundNow ==
  ASSUME IInv, NEW c \in Callers
  PROVE  Sound(c, call[c])
<1>1. call[c] \in Frame
  BY DEF IInv, TypeOK
<1>2. ~call[c].lost
  BY DEF IInv, OutageFailsOver
<1> QED  BY <1>1, <1>2 DEF IInv, TypeOK, TokensWithinBudget, Sound, InFlight

LEMMA MovedKeeps ==
  ASSUME IInv, NEW c \in Callers, Moved(c), UNCHANGED <<mode, route>>, begun' \in 0 .. MaxCalls
  PROVE  TypeOK' /\ ProbeHeld' /\ OutageFailsOver' /\ TokensWithinBudget'
<1>1. PICK f : call' = [call EXCEPT ![c] = f] /\ Sound(c, f) /\ Accounted(c, f, health')
  BY DEF Moved
<1>2. /\ Ladder' = Ladder /\ Endpoints' = Endpoints
      /\ call \in [Callers -> Frame] /\ health \in [Endpoints -> Health]
      /\ health' \in [Endpoints -> Health] /\ f \in Frame
  BY <1>1 DEF Ladder, Endpoints, IInv, TypeOK, Accounted, Sound
<1>3. /\ call' \in [Callers -> Frame]
      /\ call'[c] = f
      /\ \A d \in Callers \ {c} : call'[d] = call[d]
  BY <1>1, <1>2
<1>4. \A d \in Callers : Sound(d, call'[d])
  BY <1>1, <1>3, SoundNow
<1>5. TypeOK'
  <2>1. \A d \in Callers : call'[d].pc \in {"invoke", "backoff", "store"} =>
                             call'[d].i \in 1 .. Len(Ladder[d])
    BY <1>4 DEF Sound, InFlight
  <2>2. mode' \in {"off", "read-only", "read-write"} /\ route' \in Routes
    BY DEF IInv, TypeOK
  <2> QED  BY <1>2, <1>3, <2>1, <2>2 DEF TypeOK
<1>6. OutageFailsOver'
  BY <1>4 DEF OutageFailsOver, Sound
<1>7. TokensWithinBudget'
  BY <1>4 DEF TokensWithinBudget, Sound, InFlight
<1>8. ProbeHeld'
  <2> SUFFICES ASSUME NEW x \in Endpoints, health'[x].state = "HALF_OPEN"
               PROVE  \E d \in Callers : Holds(d, call'[d], x)
    BY <1>2 DEF ProbeHeld, Holds, InFlight
  <2>1. CASE Holds(c, f, x)
    BY <1>3, <2>1
  <2>2. CASE health[x].state = "HALF_OPEN" /\ ~Holds(c, call[c], x)
    <3>1. PICK d \in Callers : Holds(d, call[d], x)
      BY <2>2 DEF IInv, ProbeHeld, Holds, InFlight
    <3> QED  BY <1>3, <2>2, <3>1
  <2> QED  BY <1>1, <2>1, <2>2 DEF Accounted
<1> QED  BY <1>5, <1>6, <1>7, <1>8

-----------------------------------------------------------------------------
(* The pieces of a step.                                                   *)

LEMMA IdleType ==
  /\ Idle \in Frame /\ Idle.pc = "idle"
  /\ \A l \in BOOLEAN : /\ [Idle EXCEPT !.lost = l] \in Frame
                        /\ [Idle EXCEPT !.lost = l].pc = "idle"
                        /\ [Idle EXCEPT !.lost = l].lost = l
<1>1. (CHOOSE s \in Scopes : TRUE) \in Scopes
  BY ClientAssumption
<1>2. 0 \in 0 .. MaxRateRetries /\ 0 \in 0 .. MaxTruncations /\ 0 \in 0 .. MaxRepairs
  BY ClientAssumption
<1>3. Idle \in Frame /\ Idle.pc = "idle"
  BY <1>1, <1>2 DEF Idle, Frame
<1> QED  BY <1>3 DEF Frame

\* The frame of a call that is over, unless it ends in an outage's error.
LEMMA OverMoves ==
  ASSUME NEW c \in Callers, NEW outcome, NEW outage \in BOOLEAN,
         outcome # "LlmError" \/ ~outage,
         Over(c, outcome, outage), Resolved(c, health')
  PROVE  Moved(c)
<1> DEFINE f == [Idle EXCEPT !.lost = outcome = "LlmError" /\ outage]
<1>1. call' = [call EXCEPT ![c] = f]
  BY DEF Over
<1>2. f = [Idle EXCEPT !.lost = FALSE]
  OBVIOUS
<1>3. f \in Frame /\ f.pc = "idle" /\ ~f.lost
  BY <1>2, IdleType
<1>4. Sound(c, f)
  BY <1>3 DEF Sound, InFlight
<1>5. Accounted(c, f, health')
  BY DEF Accounted, Resolved
<1> HIDE DEF f
<1> QED  BY <1>1, <1>4, <1>5 DEF Moved

\* The breaker with one endpoint's record replaced by one that is not HALF_OPEN.
LEMMA ResolvedExcept ==
  ASSUME NEW c \in Callers, NEW h, Resolved(c, h), NEW e, NEW g \in Health,
         g.state # "HALF_OPEN"
  PROVE  Resolved(c, [h EXCEPT ![e] = g])
BY DEF Resolved

\* The endpoint this call is at is resolved: so is what it held.
LEMMA OwnResolved ==
  ASSUME IInv, NEW c \in Callers, call[c].pc \in InFlight, NEW g \in Health,
         g.state # "HALF_OPEN"
  PROVE  Resolved(c, [health EXCEPT ![Ladder[c][call[c].i]] = g])
BY DEF IInv, TypeOK, Resolved, Holds

\* A call that holds nothing leaves the breaker as it is.
LEMMA UnheldResolved ==
  ASSUME IInv, NEW c \in Callers, call[c].pc \notin InFlight
  PROVE  Resolved(c, health)
BY DEF IInv, TypeOK, Resolved, Holds

\* FirstCap is a number of tokens.
LEMMA FirstCapType ==
  ASSUME route \in Routes, NEW e \in Endpoints
  PROVE  FirstCap(e) \in Nat
<1> DEFINE P == {Requested, route[e.target].max_output}
<1>1. P \in SUBSET Nat /\ P # {}
  BY ClientAssumption, EndpointTarget
<1>2. Min(P) \in Nat
  <2> HIDE DEF P
  <2> QED  BY <1>1, MinIsLeast
<1> QED  BY <1>2 DEF FirstCap

\* The rest of the loop: dispatched within the budget, or given up with
\* nothing held.
LEMMA ClimbMoves ==
  ASSUME IInv, NEW c \in Callers, NEW i \in Nat \ {0}, NEW h, Resolved(c, h),
         Climb(c, i, h)
  PROVE  Moved(c)
<1> DEFINE j == NextRung(c, i, h)
           e == Ladder[c][j]
           h2 == [h EXCEPT ![e] = claim(h[e])]
<1>1. route \in Routes /\ call \in [Callers -> Frame] /\ call[c] \in Frame
  BY DEF IInv, TypeOK
<1>2. j \in 1 .. (Len(Ladder[c]) + 1) /\ Len(Ladder[c]) \in Nat
  BY <1>1, NextRungType, LadderType
<1>3. \/ j > Len(Ladder[c]) /\ health' = h /\ Over(c, "TierUnavailable", FALSE)
      \/ /\ j <= Len(Ladder[c]) /\ check_budget(e) /\ health' = h2
         /\ call' = [call EXCEPT
                ![c].pc = "invoke", ![c].i = j, ![c].rate = 0,
                ![c].truncations = 0, ![c].repairs = 0,
                ![c].cap = FirstCap(e),
                ![c].probing = h2[e].state = "HALF_OPEN"]
      \/ /\ j <= Len(Ladder[c])
         /\ health' = [h2 EXCEPT ![e] = abandon_probe(h2[e])]
         /\ Over(c, "BudgetExhausted", FALSE)
  BY DEF Climb
<1>4. h \in [Endpoints -> Health]
  BY DEF Resolved
<1> HIDE DEF j
<1>5. ASSUME j <= Len(Ladder[c])
      PROVE  /\ j \in 1 .. Len(Ladder[c]) /\ e \in Endpoints
             /\ h2 \in [Endpoints -> Health] /\ h2[e] \in Health
             /\ \A x \in Endpoints \ {e} : h2[x] = h[x]
  <2>1. j \in 1 .. Len(Ladder[c])
    BY <1>2, <1>5
  <2>2. e \in Endpoints
    BY <1>1, <2>1, LadderType
  <2>3. claim(h[e]) \in Health
    BY <1>4, <2>2, ClaimType
  <2> QED  BY <1>4, <2>1, <2>2, <2>3
<1>6. CASE j > Len(Ladder[c]) /\ health' = h /\ Over(c, "TierUnavailable", FALSE)
  BY <1>6, OverMoves
<1>7. CASE /\ j <= Len(Ladder[c])
           /\ health' = [h2 EXCEPT ![e] = abandon_probe(h2[e])]
           /\ Over(c, "BudgetExhausted", FALSE)
  <2> HIDE DEF h2
  <2>1. abandon_probe(h2[e]) \in Health /\ abandon_probe(h2[e]).state # "HALF_OPEN"
    BY <1>5, <1>7, AbandonResolves
  <2>2. Resolved(c, health')
    <3> HIDE DEF e
    <3> QED  BY <1>5, <1>7, <2>1 DEF Resolved
  <2> QED  BY <1>7, <2>2, OverMoves
<1>8. CASE /\ j <= Len(Ladder[c]) /\ check_budget(e) /\ health' = h2
           /\ call' = [call EXCEPT
                  ![c].pc = "invoke", ![c].i = j, ![c].rate = 0,
                  ![c].truncations = 0, ![c].repairs = 0,
                  ![c].cap = FirstCap(e),
                  ![c].probing = h2[e].state = "HALF_OPEN"]
  <2> HIDE DEF h2
  <2> DEFINE p == h2[e].state = "HALF_OPEN"
             f == [call[c] EXCEPT !.pc = "invoke", !.i = j, !.rate = 0, !.truncations = 0,
                                  !.repairs = 0, !.cap = FirstCap(e), !.probing = p]
  <2>1. call' = [call EXCEPT ![c] = f]
    BY <1>1, <1>8
  <2>2. FirstCap(e) \in Nat /\ InputTokens + FirstCap(e) <= Budget.tokens
    BY <1>1, <1>5, <1>8, FirstCapType DEF check_budget
  <2>3. 0 \in 0 .. MaxRateRetries /\ 0 \in 0 .. MaxTruncations /\ 0 \in 0 .. MaxRepairs
    BY ClientAssumption
  <2>4. j \in Nat /\ p \in BOOLEAN
    BY <1>2
  <2>5. ~call[c].lost
    BY DEF IInv, OutageFailsOver
  <2>6. /\ f \in Frame /\ f.pc = "invoke" /\ f.i = j /\ f.cap = FirstCap(e)
        /\ f.probing = p /\ f.lost = call[c].lost
    <3> HIDE DEF p, e
    <3> QED  BY <1>1, <2>2, <2>3, <2>4 DEF Frame
  <2> HIDE DEF f
  <2>7. Sound(c, f)
    BY <1>5, <1>8, <2>2, <2>5, <2>6 DEF Sound, InFlight
  <2>8. Accounted(c, f, health')
    <3>1. Holds(c, f, e) \/ h2[e].state # "HALF_OPEN"
      BY <2>6 DEF Holds, InFlight
    <3> HIDE DEF e
    <3> QED  BY <1>5, <1>8, <3>1 DEF Accounted, Resolved
  <2> QED  BY <2>1, <2>7, <2>8 DEF Moved
<1> QED  BY <1>3, <1>6, <1>7, <1>8

LEMMA AtEndpoint ==
  ASSUME IInv, NEW c \in Callers, call[c].pc \in InFlight
  PROVE  /\ route \in Routes /\ call \in [Callers -> Frame] /\ call[c] \in Frame
         /\ call[c].i \in 1 .. Len(Ladder[c])
         /\ Ladder[c][call[c].i] \in Endpoints
         /\ health[Ladder[c][call[c].i]] \in Health
<1>1. route \in Routes /\ call[c].i \in 1 .. Len(Ladder[c]) /\ call \in [Callers -> Frame]
  BY DEF IInv, TypeOK, InFlight
<1>2. Ladder[c][call[c].i] \in Endpoints
  BY <1>1, LadderType
<1> QED  BY <1>1, <1>2 DEF IInv, TypeOK

LEMMA AbortMoves ==
  ASSUME IInv, NEW c \in Callers, call[c].pc \in InFlight, NEW outcome,
         NEW outage \in BOOLEAN, outcome # "LlmError" \/ ~outage,
         Abort(c, outcome, outage)
  PROVE  Moved(c)
<1> DEFINE e == Ladder[c][call[c].i]
<1>1. health' = [health EXCEPT ![e] = abandon_probe(health[e])] /\ Over(c, outcome, outage)
  BY AtEndpoint DEF Abort, IInv, TypeOK
<1>2. abandon_probe(health[e]) \in Health /\ abandon_probe(health[e]).state # "HALF_OPEN"
  BY AtEndpoint, AbandonResolves
<1>3. Resolved(c, health')
  BY <1>1, <1>2, OwnResolved
<1> QED  BY <1>1, <1>3, OverMoves

\* The call goes on at the endpoint it is at.
LEMMA AgainMoves ==
  ASSUME IInv, NEW c \in Callers, call[c].pc \in InFlight, NEW f, Sound(c, f),
         f.pc \in InFlight, f.probing = call[c].probing, f.i = call[c].i,
         call' = [call EXCEPT ![c] = f], UNCHANGED health
  PROVE  Moved(c)
<1>1. Accounted(c, f, health')
  <2>1. \A x : Holds(c, call[c], x) => Holds(c, f, x)
    BY DEF Holds
  <2> QED  BY <2>1 DEF Accounted, IInv, TypeOK
<1> QED  BY <1>1 DEF Moved

\* A raised cap is one the budget still has room for.
LEMMA RaisedCapFits ==
  ASSUME route \in Routes, NEW e \in Endpoints, NEW cap \in Nat, NEW n \in Nat,
         InputTokens + cap <= Budget.tokens, raise_cap(e, cap, n) # 0
  PROVE  /\ raise_cap(e, cap, n) \in Nat
         /\ InputTokens + raise_cap(e, cap, n) <= Budget.tokens
         /\ n <= MaxTruncations
<1> DEFINE room == Max({Budget.tokens - InputTokens, 0})
           P == {cap * 2, route[e.target].max_output, room}
           want == Min(P)
<1>1. InputTokens \in Nat /\ Budget.tokens \in Nat /\ MaxTruncations \in Nat
  BY ClientAssumption
<1>2. Budget.tokens - InputTokens \in Nat
  BY <1>1
<1>3. room = Budget.tokens - InputTokens
  <2> DEFINE d == Budget.tokens - InputTokens
  <2> HIDE DEF d
  <2>1. d \in Nat => Max({d, 0}) = d
    BY DEF Max
  <2> QED  BY <1>2, <2>1 DEF d
<1>4. P \in SUBSET Nat /\ P # {} /\ room \in P
  <2>1. route[e.target].max_output \in Nat
    BY EndpointTarget
  <2>2. cap * 2 \in Nat
    OBVIOUS
  <2> QED  BY <1>2, <1>3, <2>1, <2>2
<1>5. want \in Nat /\ want <= room
  <2> HIDE DEF P
  <2>1. want \in P /\ \A y \in P : want <= y
    BY <1>4, MinIsLeast
  <2> QED  BY <1>4, <2>1
<1>6. raise_cap(e, cap, n) = IF n > MaxTruncations \/ want <= cap THEN 0 ELSE want
  BY DEF raise_cap
<1> HIDE DEF want
<1>7. raise_cap(e, cap, n) = want /\ ~(n > MaxTruncations)
  BY <1>6
<1> HIDE DEF room
<1> QED  BY <1>1, <1>3, <1>5, <1>7

LEMMA AnsweredMoves ==
  ASSUME IInv, NEW c \in Callers, call[c].pc \in InFlight,
         Answered(c, Ladder[c][call[c].i])
  PROVE  Moved(c)
<1> DEFINE e == Ladder[c][call[c].i]
           f == [call[c] EXCEPT !.pc = "store", !.probing = FALSE]
<1>1. health' = [health EXCEPT ![e] = Fresh]
  BY DEF Answered, record_success
<1>2. Resolved(c, health')
  BY <1>1, FreshType, OwnResolved
<1>3. CASE mode # "off"
  <2>1. call' = [call EXCEPT ![c] = f]
    BY <1>3, AtEndpoint DEF Answered
  <2>2. f \in Frame /\ f.pc = "store" /\ f.i = call[c].i /\ f.lost = call[c].lost
    BY AtEndpoint DEF Frame
  <2> HIDE DEF f
  <2>3. Sound(c, f)
    BY <2>2, AtEndpoint, SoundNow DEF Sound, InFlight
  <2>4. Accounted(c, f, health')
    BY <1>2 DEF Accounted, Resolved
  <2> QED  BY <2>1, <2>3, <2>4 DEF Moved
<1>4. CASE mode = "off"
  <2>1. Over(c, Identity(e), FALSE)
    BY <1>4 DEF Answered
  <2> QED  BY <1>2, <2>1, OverMoves
<1> QED  BY <1>3, <1>4

\* Whatever a backend's reply or error, the call is left sound.
LEMMA ReplyMoves ==
  ASSUME IInv, NEW c \in Callers, call[c].pc \in InFlight, NEW r,
         NEW outage \in BOOLEAN, Shape(r), r.kind = "LlmError" => ~outage,
         Reply(c, r, outage)
  PROVE  Moved(c)
<1> DEFINE e == Ladder[c][call[c].i]
           again(f) == call' = [call EXCEPT ![c] = f] /\ UNCHANGED health
           retried == r.trigger = "RATE_LIMIT" /\ call[c].rate < MaxRateRetries
<1>0. /\ route \in Routes /\ call \in [Callers -> Frame] /\ call[c] \in Frame
      /\ e \in Endpoints /\ call[c].i \in Nat \ {0} /\ call[c].i + 1 \in Nat \ {0}
      /\ health \in [Endpoints -> Health] /\ health[e] \in Health
  <2>1. call[c].i \in 1 .. Len(Ladder[c]) /\ Len(Ladder[c]) \in Nat
    BY AtEndpoint, LadderType
  <2>2. call[c].i \in Nat \ {0} /\ call[c].i + 1 \in Nat \ {0}
    BY <2>1
  <2> QED  BY <2>2, AtEndpoint DEF IInv, TypeOK
<1>00. Sound(c, call[c]) /\ {MaxRateRetries, MaxRepairs, MaxTruncations} \subseteq Nat
  BY SoundNow, ClientAssumption
<1>1. CASE r.kind = "LlmError"
  <2>1. Abort(c, "LlmError", outage)
    BY <1>1 DEF Reply, Shape
  <2> QED  BY <1>1, <2>1, AbortMoves
<1>2. CASE r.kind = "TransportError" /\ retried
  <2> DEFINE f == RateRetry(call[c])
  <2>1. again(f)
    BY <1>2 DEF Reply, Shape
  <2>2. call[c].rate + 1 \in 0 .. MaxRateRetries
    <3>1. call[c].rate \in 0 .. MaxRateRetries
      BY <1>0 DEF Frame
    <3> QED  BY <1>2, <1>00, <3>1
  <2>3. /\ f \in Frame /\ f.pc = "backoff" /\ f.i = call[c].i /\ f.cap = call[c].cap
        /\ f.probing = call[c].probing /\ f.lost = call[c].lost
    BY <1>0, <2>2 DEF RateRetry, Frame
  <2> HIDE DEF f
  <2>4. Sound(c, f)
    BY <1>00, <2>3, AtEndpoint DEF Sound, InFlight
  <2> QED  BY <2>1, <2>3, <2>4, AgainMoves DEF InFlight
<1>3. CASE r.kind = "TransportError" /\ ~retried
  <2> DEFINE g == record_failure(health[e])
  <2>1. Climb(c, call[c].i + 1, [health EXCEPT ![e] = g])
    BY <1>0, <1>3 DEF Reply, Shape, FailOver
  <2>2. g \in Health /\ g.state # "HALF_OPEN"
    BY <1>0, FailureResolves
  <2> HIDE DEF g
  <2>3. Resolved(c, [health EXCEPT ![e] = g])
    BY <2>2, OwnResolved
  <2> QED  BY <1>0, <2>1, <2>3, ClimbMoves
<1>4. CASE r.kind = "BackendReply" /\ r.finish = "length"
  <2> DEFINE n == call[c].truncations + 1
             cap == raise_cap(e, call[c].cap, n)
             f == [call[c] EXCEPT !.truncations = n, !.cap = cap]
  <2>1. IF cap = 0 THEN Abort(c, "BudgetExhausted", outage) ELSE again(f)
    BY <1>4 DEF Reply
  <2>2. CASE cap = 0
    BY <2>1, <2>2, AbortMoves
  <2>3. CASE cap # 0
    <3>1. n \in Nat /\ call[c].cap \in Nat
      <4>1. call[c].truncations \in 0 .. MaxTruncations /\ call[c].cap \in Nat
        BY <1>0 DEF Frame
      <4> QED  BY <1>00, <4>1
    <3>2. InputTokens + call[c].cap <= Budget.tokens
      BY <1>00 DEF Sound
    <3>3. cap \in Nat /\ InputTokens + cap <= Budget.tokens /\ n \in 0 .. MaxTruncations
      <4>1. cap \in Nat /\ InputTokens + cap <= Budget.tokens /\ n <= MaxTruncations
        <5> HIDE DEF n, e
        <5> QED  BY <1>0, <2>3, <3>1, <3>2, RaisedCapFits
      <4> HIDE DEF n, cap
      <4> QED  BY <1>00, <3>1, <4>1
    <3> HIDE DEF n, cap
    <3>4. /\ f \in Frame /\ f.pc = call[c].pc /\ f.i = call[c].i /\ f.cap = cap
          /\ f.probing = call[c].probing /\ f.lost = call[c].lost
      BY <1>0, <3>3 DEF Frame
    <3> HIDE DEF f
    <3>5. Sound(c, f)
      BY <1>00, <3>3, <3>4 DEF Sound
    <3> QED  BY <2>1, <2>3, <3>4, <3>5, AgainMoves
  <2> QED  BY <2>2, <2>3
<1>5. CASE r.kind = "BackendReply" /\ r.finish \in {"refusal", "filtered"}
  <2>1. Abort(c, "ModelRefused", outage)
    BY <1>5 DEF Reply
  <2> QED  BY <2>1, AbortMoves
<1>6. CASE r.kind = "BackendReply" /\ r.finish \in {"stop", "tool_call"}
  <2> DEFINE f == [call[c] EXCEPT !.repairs = call[c].repairs + 1]
             g == abandon_probe(health[e])
  <2>1. \/ Answered(c, e)
        \/ call[c].repairs < MaxRepairs /\ again(f)
        \/ Climb(c, call[c].i + 1, [health EXCEPT ![e] = g])
    BY <1>0, <1>6 DEF Reply, FailOver
  <2>2. CASE Answered(c, e)
    BY <2>2, AnsweredMoves
  <2>3. CASE call[c].repairs < MaxRepairs /\ again(f)
    <3>1. call[c].repairs + 1 \in 0 .. MaxRepairs
      <4>1. call[c].repairs \in 0 .. MaxRepairs
        BY <1>0 DEF Frame
      <4> QED  BY <1>00, <2>3, <4>1
    <3>2. /\ f \in Frame /\ f.pc = call[c].pc /\ f.i = call[c].i /\ f.cap = call[c].cap
          /\ f.probing = call[c].probing /\ f.lost = call[c].lost
      BY <1>0, <3>1 DEF Frame
    <3> HIDE DEF f
    <3>3. Sound(c, f)
      BY <1>00, <3>2 DEF Sound
    <3> QED  BY <2>3, <3>2, <3>3, AgainMoves
  <2>4. CASE Climb(c, call[c].i + 1, [health EXCEPT ![e] = g])
    <3>1. g \in Health /\ g.state # "HALF_OPEN"
      BY <1>0, AbandonResolves
    <3> HIDE DEF g
    <3>2. Resolved(c, [health EXCEPT ![e] = g])
      BY <3>1, OwnResolved
    <3> QED  BY <1>0, <2>4, <3>2, ClimbMoves
  <2> QED  BY <2>1, <2>2, <2>3, <2>4
<1> QED  BY <1>1, <1>2, <1>3, <1>4, <1>5, <1>6 DEF Shape

-----------------------------------------------------------------------------
(* The actions.                                                            *)

\* A call that is not in flight and whose frame stays sound.
LEMMA UnheldMoves ==
  ASSUME IInv, NEW c \in Callers, call[c].pc \notin InFlight, NEW f, Sound(c, f),
         call' = [call EXCEPT ![c] = f], UNCHANGED health
  PROVE  Moved(c)
<1>1. Accounted(c, f, health')
  BY UnheldResolved DEF Accounted, Resolved
<1> QED  BY <1>1 DEF Moved

LEMMA CacheKept ==
  ASSUME IInv, UNCHANGED cache
  PROVE  AnswerIsItsOwn'
BY DEF IInv, AnswerIsItsOwn

LEMMA BeginKeeps ==
  ASSUME IInv, NEW c \in Callers, Begin(c)
  PROVE  IInv'
<1>1. PICK scope \in Scopes :
        call' = [call EXCEPT ![c] =
            [Idle EXCEPT !.pc = IF mode = "off" THEN "ladder" ELSE "lookup",
                         !.scope = scope]]
  BY DEF Begin
<1> DEFINE q == IF mode = "off" THEN "ladder" ELSE "lookup"
           f == [Idle EXCEPT !.pc = q, !.scope = scope]
<1>2. call' = [call EXCEPT ![c] = f]
  BY <1>1
<1>3. q \in {"ladder", "lookup"} /\ Idle.lost = FALSE
  BY DEF Idle
<1>4. f \in Frame /\ f.pc = q /\ ~f.lost
  <2> HIDE DEF q
  <2> QED  BY <1>3, IdleType DEF Frame
<1>5. Sound(c, f)
  BY <1>3, <1>4 DEF Sound, InFlight
<1> HIDE DEF f
<1>6. Moved(c)
  BY <1>2, <1>5, UnheldMoves DEF Begin, InFlight
<1>7. begun' \in 0 .. MaxCalls
  <2>1. begun \in 0 .. MaxCalls /\ begun < MaxCalls /\ begun' = begun + 1 /\ MaxCalls \in Nat
    BY ClientAssumption DEF Begin, IInv, TypeOK
  <2> QED  BY <2>1
<1> QED  BY <1>6, <1>7, MovedKeeps, CacheKept DEF Begin, IInv

LEMMA BegunType ==
  ASSUME IInv, UNCHANGED begun
  PROVE  begun' \in 0 .. MaxCalls
BY DEF IInv, TypeOK

LEMMA LookupKeeps ==
  ASSUME IInv, NEW c \in Callers, Lookup(c)
  PROVE  IInv'
<1> DEFINE key == CacheKey(call[c].scope, route[1].identity)
           f == [call[c] EXCEPT !.pc = "ladder"]
<1>1. call[c].pc = "lookup" /\ UNCHANGED <<mode, route, health, cache, begun>>
  BY DEF Lookup
<1>2. \/ \E outcome : Over(c, outcome, FALSE)
      \/ call' = [call EXCEPT ![c] = f]
  BY DEF Lookup, IInv, TypeOK
<1>3. Resolved(c, health')
  BY <1>1, UnheldResolved DEF InFlight
<1>4. ASSUME NEW outcome, Over(c, outcome, FALSE) PROVE Moved(c)
  BY <1>3, <1>4, OverMoves
<1>5. ASSUME call' = [call EXCEPT ![c] = f] PROVE Moved(c)
  <2>1. f \in Frame /\ f.pc = "ladder" /\ f.lost = call[c].lost
    BY DEF IInv, TypeOK, Frame
  <2> HIDE DEF f
  <2>2. Sound(c, f)
    BY <2>1, SoundNow DEF Sound, InFlight
  <2> QED  BY <1>1, <1>5, <2>2, UnheldMoves DEF InFlight
<1>6. Moved(c)
  BY <1>2, <1>4, <1>5
<1> QED  BY <1>1, <1>6, BegunType, MovedKeeps, CacheKept DEF IInv

LEMMA DispatchKeeps ==
  ASSUME IInv, NEW c \in Callers, Dispatch(c)
  PROVE  IInv'
<1>1. call[c].pc = "ladder" /\ Climb(c, 1, health) /\ UNCHANGED <<mode, route, cache, begun>>
  BY DEF Dispatch
<1>2. Resolved(c, health)
  BY <1>1, UnheldResolved DEF InFlight
<1>3. Moved(c)
  BY <1>1, <1>2, ClimbMoves
<1> QED  BY <1>1, <1>3, BegunType, MovedKeeps, CacheKept DEF IInv

LEMMA InvokeKeeps ==
  ASSUME IInv, NEW c \in Callers, Invoke(c)
  PROVE  IInv'
<1> DEFINE e == Ladder[c][call[c].i]
           b == route[e.target].backend
<1>1. call[c].pc \in InFlight /\ UNCHANGED <<mode, route, cache, begun>>
  BY DEF Invoke, InFlight
<1>2. \/ \E r \in Results[b] : Reply(c, r[1], r[2])
      \/ Abort(c, "LlmError", FALSE)
  BY DEF Invoke
<1>3. b \in Backends
  BY <1>1, AtEndpoint, EndpointTarget
<1> HIDE DEF b
<1>4. ASSUME NEW r \in Results[b], Reply(c, r[1], r[2]) PROVE Moved(c)
  <2>1. Shape(r[1]) /\ r[2] \in BOOLEAN /\ (r[1].kind = "LlmError" => ~r[2])
    BY <1>3, ResultsAreHonest
  <2> QED  BY <1>1, <1>4, <2>1, ReplyMoves
<1>5. ASSUME Abort(c, "LlmError", FALSE) PROVE Moved(c)
  BY <1>1, <1>5, AbortMoves
<1>6. Moved(c)
  BY <1>2, <1>4, <1>5
<1> QED  BY <1>1, <1>6, BegunType, MovedKeeps, CacheKept DEF IInv

LEMMA BackoffKeeps ==
  ASSUME IInv, NEW c \in Callers, Backoff(c)
  PROVE  IInv'
<1> DEFINE f == [call[c] EXCEPT !.pc = "invoke"]
<1>1. /\ call[c].pc = "backoff" /\ call[c].pc \in InFlight
      /\ UNCHANGED <<mode, route, health, cache, begun>>
      /\ call' = [call EXCEPT ![c] = f]
  BY DEF Backoff, InFlight, IInv, TypeOK
<1>2. /\ f \in Frame /\ f.pc = "invoke" /\ f.i = call[c].i /\ f.cap = call[c].cap
      /\ f.probing = call[c].probing /\ f.lost = call[c].lost
  BY DEF IInv, TypeOK, Frame
<1> HIDE DEF f
<1>3. Sound(c, f)
  BY <1>1, <1>2, SoundNow DEF Sound, InFlight
<1>4. Moved(c)
  BY <1>1, <1>2, <1>3, AgainMoves DEF InFlight
<1> QED  BY <1>1, <1>4, BegunType, MovedKeeps, CacheKept DEF IInv

LEMMA StoreKeeps ==
  ASSUME IInv, NEW c \in Callers, Store(c)
  PROVE  IInv'
<1> DEFINE identity == Identity(Ladder[c][call[c].i])
           key == CacheKey(call[c].scope, identity)
<1>1. /\ call[c].pc = "store" /\ put(key, identity) /\ Over(c, identity, FALSE)
      /\ UNCHANGED <<mode, route, health, begun>>
  BY DEF Store
<1>2. Resolved(c, health')
  BY <1>1, UnheldResolved DEF InFlight
<1>3. Moved(c)
  BY <1>1, <1>2, OverMoves
<1>4. AnswerIsItsOwn'
  <2>1. key.identity = identity
    BY DEF CacheKey
  <2> HIDE DEF key, identity
  <2> QED  BY <1>1, <2>1 DEF put, IInv, AnswerIsItsOwn
<1> QED  BY <1>1, <1>3, <1>4, BegunType, MovedKeeps DEF IInv

LEMMA CancelKeeps ==
  ASSUME IInv, NEW c \in Callers, Cancel(c)
  PROVE  IInv'
<1>1. UNCHANGED <<mode, route, cache, begun>>
  BY DEF Cancel
<1>2. ASSUME call[c].pc \in InFlight, Abort(c, "Cancelled", FALSE) PROVE Moved(c)
  BY <1>2, AbortMoves
<1>3. ASSUME call[c].pc \notin InFlight, Over(c, "Cancelled", FALSE), UNCHANGED health
      PROVE  Moved(c)
  BY <1>3, UnheldResolved, OverMoves
<1>4. Moved(c)
  BY <1>2, <1>3 DEF Cancel, InFlight
<1> QED  BY <1>1, <1>4, BegunType, MovedKeeps, CacheKept DEF IInv

LEMMA EnvironmentKeeps ==
  ASSUME IInv, (\E e \in Endpoints : CooldownElapses(e)) \/ Evict \/ Restart
  PROVE  IInv'
<1> USE DEF IInv
<1>1. ASSUME NEW e \in Endpoints, CooldownElapses(e) PROVE IInv'
  <2>1. /\ UNCHANGED <<mode, route, cache, call, begun>>
        /\ health' = [health EXCEPT ![e].cooled = TRUE]
    BY <1>1 DEF CooldownElapses
  <2>2. /\ health' \in [Endpoints -> Health]
        /\ \A x \in Endpoints : health'[x].state = health[x].state
    BY <2>1 DEF TypeOK, Health
  <2>3. Endpoints' = Endpoints /\ Ladder' = Ladder
    BY <2>1 DEF Endpoints, Ladder
  <2>4. TypeOK' /\ ProbeHeld'
    BY <2>1, <2>2, <2>3 DEF TypeOK, ProbeHeld
  <2> QED  BY <2>1, <2>4 DEF AnswerIsItsOwn, OutageFailsOver, TokensWithinBudget
<1>2. CASE Evict
  <2>1. UNCHANGED <<mode, route, health, call, begun>>
    BY <1>2 DEF Evict
  <2>2. AnswerIsItsOwn'
    BY <1>2 DEF Evict, AnswerIsItsOwn
  <2> QED  BY <2>1, <2>2 DEF TypeOK, ProbeHeld, OutageFailsOver, TokensWithinBudget, Endpoints, Ladder
<1>3. CASE Restart
  <2>1. /\ UNCHANGED <<mode, route, cache, begun>>
        /\ health' = [e \in Endpoints |-> Fresh] /\ call' = [c \in Callers |-> Idle]
    BY <1>3 DEF Restart
  <2>2. Idle.lost = FALSE
    BY DEF Idle
  <2>3. Endpoints' = Endpoints /\ Ladder' = Ladder
    BY <2>1 DEF Endpoints, Ladder
  <2>4. TypeOK' /\ ProbeHeld'
    BY <2>1, <2>3, IdleType, FreshType DEF TypeOK, ProbeHeld
  <2> QED  BY <2>1, <2>2, <2>4, IdleType DEF AnswerIsItsOwn, OutageFailsOver, TokensWithinBudget
<1> QED  BY <1>1, <1>2, <1>3

-----------------------------------------------------------------------------
LEMMA InitHolds == Init => IInv
<1> SUFFICES ASSUME Init PROVE IInv
  OBVIOUS
<1>1. 0 \in 0 .. MaxCalls
  BY ClientAssumption
<1>2. TypeOK
  BY <1>1, IdleType, FreshType DEF Init, TypeOK
<1>3. Idle.lost = FALSE
  BY DEF Idle
<1> QED  BY <1>2, <1>3, IdleType, FreshType
         DEF Init, IInv, ProbeHeld, AnswerIsItsOwn, OutageFailsOver, TokensWithinBudget

LEMMA NextKeeps == IInv /\ [Next]_vars => IInv'
<1> SUFFICES ASSUME IInv, [Next]_vars PROVE IInv'
  OBVIOUS
<1>1. CASE UNCHANGED vars
  BY <1>1 DEF vars, IInv, TypeOK, ProbeHeld, AnswerIsItsOwn, OutageFailsOver,
              TokensWithinBudget, Endpoints, Ladder
<1>2. ASSUME NEW c \in Callers, Begin(c) \/ Step(c) \/ Cancel(c) PROVE IInv'
  BY <1>2, BeginKeeps, LookupKeeps, DispatchKeeps, InvokeKeeps, BackoffKeeps, StoreKeeps,
     CancelKeeps DEF Step
<1>3. CASE (\E e \in Endpoints : CooldownElapses(e)) \/ Evict \/ Restart
  BY <1>3, EnvironmentKeeps
<1> QED  BY <1>1, <1>2, <1>3 DEF Next

\* The frames of the calls and the records of the breaker keep their types: a
\* call in flight is at a rung of its ladder, and its retries stay counted
\* within their bounds (client.py, _call_target).
THEOREM TypeInvariant == Spec => []TypeOK
<1>1. IInv => TypeOK
  BY DEF IInv
<1> QED  BY <1>1, InitHolds, NextKeeps, PTL DEF Spec

\* However a probe ends, the endpoint it tried is not left HALF_OPEN
\* (failover.py, abandon_probe), for every route, number of callers and
\* threshold of the breaker.
THEOREM ProbeIsHeldAlways == Spec => []ProbeHeld
<1>1. IInv => ProbeHeld
  BY DEF IInv
<1> QED  BY <1>1, InitHolds, NextKeeps, PTL DEF Spec

\* A cached answer is only ever replayed for the target that gave it
\* (cache.py, _store_response).
THEOREM AnswerIsItsOwnAlways == Spec => []AnswerIsItsOwn
<1>1. IInv => AnswerIsItsOwn
  BY DEF IInv
<1> QED  BY <1>1, InitHolds, NextKeeps, PTL DEF Spec

\* No transport turns an outage into an error that skips the remaining
\* targets (client.py, complete; the adapters of llm/backends).
THEOREM OutageFailsOverAlways == Spec => []OutageFailsOver
<1>1. IInv => OutageFailsOver
  BY DEF IInv
<1> QED  BY <1>1, InitHolds, NextKeeps, PTL DEF Spec

\* No dispatch, however often truncated and wherever it failed over to, asks
\* for more tokens than the call's budget has left (client.py,
\* _check_budget and _raise_cap).
THEOREM TokensWithinBudgetAlways == Spec => []TokensWithinBudget
<1>1. IInv => TokensWithinBudget
  BY DEF IInv
<1> QED  BY <1>1, InitHolds, NextKeeps, PTL DEF Spec
=============================================================================
