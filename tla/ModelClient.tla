---------------------------- MODULE ModelClient ----------------------------
(***************************************************************************)
(* The call surface every worker gets: CachingModelClient (llm/cache.py)    *)
(* over LadderModelClient (llm/client.py) with its per-endpoint circuit     *)
(* breaker (llm/failover.py) and the transports of module Backends.  The    *)
(* records the client reports to its sink are left out.                     *)
(*                                                                         *)
(* Callers are coroutines of one event loop: a caller runs without          *)
(* interruption from one await to the next, so an action is one such        *)
(* stretch.  The clock is abstracted to whether an endpoint's cooldown has  *)
(* elapsed since it went down.                                             *)
(***************************************************************************)
EXTENDS Backends, Integers, FiniteSets, FiniteSetsExt, SequencesExt

CONSTANTS
    Callers,          \* coroutines that call complete()
    Routes,           \* tiers: each the logical targets, in order
    replica_index,    \* caller -> which replica its repo starts at
    Scopes,           \* ContextPolicy and rejected-approach digest of a call
    MaxTargets,       \* llm.failover.max_targets_per_call
    OpenAfter,        \* llm.failover.open_after_failures
    MaxRateRetries,   \* RetryPolicy.max_transient_retries
    MaxRepairs,       \* llm.max_schema_repairs
    MaxTruncations,   \* llm.max_truncation_retries
    Requested,        \* max_output_tokens the caller asks for
    InputTokens,      \* the estimate of the prompt
    Budget,           \* CallBudget: [tokens, usd]
    MaxCalls          \* bound: calls begun

ASSUME ClientAssumption ==
    /\ OpenAfter \in Nat \ {0}
    /\ MaxTargets \in Nat \ {0}
    /\ {MaxRateRetries, MaxRepairs, MaxTruncations} \subseteq Nat
    /\ {Requested, InputTokens, Budget.tokens, MaxCalls} \subseteq Nat
    /\ Scopes # {} /\ replica_index \in [Callers -> Nat]
    /\ \A r \in Routes : r # <<>> /\ r \in Seq(Range(r))
    /\ \A r \in Routes : \A t \in DOMAIN r :
         /\ r[t].backend \in Backends
         /\ r[t].max_output \in Nat
         /\ r[t].urls # <<>> /\ r[t].urls \in Seq(Range(r[t].urls))

VARIABLES
    mode,      \* --llm-cache of this process
    route,     \* the tier this run is configured with
    health,    \* BackendHealth._targets
    cache,     \* llm_cache: key -> the identity that answered
    call,      \* each caller's frame
    begun      \* calls begun, to bound them

vars == <<mode, route, health, cache, call, begun>>

-----------------------------------------------------------------------------
(* The route.                                                              *)

\* An endpoint is a logical target at one of its URLs: the breaker's key.
Endpoint(t, u) == [target |-> t, url |-> u]
EndpointsOf ==
    [r \in Routes |-> UNION {{Endpoint(t, u) : u \in Range(r[t].urls)} :
                                t \in DOMAIN r}]
Endpoints == EndpointsOf[route]

\* The replicas of a logical target, rotated so that a repo starts at its own.
resolve_replicas(r, t, c) ==
    LET urls == r[t].urls
        start == replica_index[c] % Len(urls)
    IN  [k \in DOMAIN urls |->
            Endpoint(t, urls[((start + k - 1) % Len(urls)) + 1])]

\* The concrete targets of one call, in the order they are tried.
LadderOf ==
    [r \in Routes |-> [c \in Callers |->
        FlattenSeq([t \in 1 .. Min({MaxTargets, Len(r)}) |->
                       resolve_replicas(r, t, c)])]]
Ladder == LadderOf[route]

\* What the cache knows of a target: backend, model and effort, no endpoint.
Identity(e) == route[e.target].identity

\* CacheKeyParts: the scope of the call and the identity of a target.
CacheKey(scope, identity) == [scope |-> scope, identity |-> identity]

-----------------------------------------------------------------------------
(* BackendHealth.                                                          *)

Fresh == [state |-> "UP", fails |-> 0, cooled |-> FALSE]

may_call(h) == h.state = "UP" \/ (h.state = "DOWN" /\ h.cooled)

claim(h) == IF h.state = "DOWN" THEN [h EXCEPT !.state = "HALF_OPEN"] ELSE h

record_success(h) == Fresh

\* A failed probe restarts the cooldown; a failure that arrives late, at an
\* endpoint already down, counts and leaves the cooldown alone.
record_failure(h) ==
    IF h.state = "HALF_OPEN"
    THEN [state |-> "DOWN", fails |-> Max({h.fails, OpenAfter}),
          cooled |-> FALSE]
    ELSE LET n == Min({h.fails + 1, OpenAfter})
         IN  IF n >= OpenAfter /\ h.state # "DOWN"
             THEN [state |-> "DOWN", fails |-> n, cooled |-> FALSE]
             ELSE [h EXCEPT !.fails = n]

\* Whose probe it is, is not asked.
abandon_probe(h) ==
    IF h.state = "HALF_OPEN" THEN [h EXCEPT !.state = "DOWN"] ELSE h

-----------------------------------------------------------------------------
(* LadderModelClient.                                                      *)

Idle ==
    [pc |-> "idle", scope |-> CHOOSE s \in Scopes : TRUE, i |-> 0, rate |-> 0,
     truncations |-> 0, repairs |-> 0, cap |-> 0, probing |-> FALSE,
     lost |-> FALSE]

estimate_cost_usd(e, tokens) == route[e.target].price * tokens

\* The cap of a dispatch: what is asked for, within the target's own limit.
FirstCap(e) == Min({Requested, route[e.target].max_output})

\* _check_budget, before a target is called.
check_budget(e) ==
    /\ InputTokens + FirstCap(e) <= Budget.tokens
    /\ estimate_cost_usd(e, InputTokens + FirstCap(e)) <= Budget.usd

\* Mutant: the raised cap is not held to what the budget has left.
raise_cap_Unbudgeted(e, cap, truncations) ==
    LET want == Min({cap * 2, route[e.target].max_output})
    IN  IF truncations > MaxTruncations \/ want <= cap THEN 0 ELSE want

\* _raise_cap: the next cap after a truncated reply, 0 when there is none.
raise_cap(e, cap, truncations) ==
    LET want == Min({cap * 2, route[e.target].max_output,
                     Max({Budget.tokens - InputTokens, 0})})
    IN  IF truncations > MaxTruncations \/ want <= cap THEN 0 ELSE want

\* The rung a target is called at, and whether its adapter can express it.
RungFits(e) ==
    LET b == route[e.target].backend
        caps == merge_capabilities(declared_capabilities(b),
                                   route[e.target].override)
    IN  negotiate(caps) \in Expressible(b)

\* The position of the next endpoint the breaker lets this call try, from
\* position i on; one past the end when there is none.
NextRung(c, i, h) ==
    Min({j \in i .. Len(Ladder[c]) : may_call(h[Ladder[c][j]])}
            \cup {Len(Ladder[c]) + 1})

\* A call is over: it answered or raised, and its worker goes on.  Kept of
\* it is whether an outage raised an error that no other target heard of.
Over(c, outcome, outage) ==
    call' = [call EXCEPT ![c] =
                [Idle EXCEPT !.lost = outcome = "LlmError" /\ outage]]

\* The rest of the for loop from position i, with h the breaker so far:
\* dispatch to the next endpoint that may be called, or give the call up.
Climb(c, i, h) ==
    LET j == NextRung(c, i, h)
        e == Ladder[c][j]
        h2 == [h EXCEPT ![e] = claim(h[e])]
    IN  \/ /\ j > Len(Ladder[c])
           /\ health' = h
           /\ Over(c, "TierUnavailable", FALSE)
        \/ /\ j <= Len(Ladder[c])
           /\ check_budget(e)
           /\ health' = h2
           /\ call' = [call EXCEPT
                  ![c].pc = "invoke", ![c].i = j, ![c].rate = 0,
                  ![c].truncations = 0, ![c].repairs = 0,
                  ![c].cap = FirstCap(e),
                  ![c].probing = h2[e].state = "HALF_OPEN"]
        \/ /\ j <= Len(Ladder[c])   \* over budget, or the deadline has passed
           /\ health' = [h2 EXCEPT ![e] = abandon_probe(h2[e])]
           /\ Over(c, "BudgetExhausted", FALSE)

\* Mutant: only a transport failure ends a probe.
Abort_KeepsProbe(c, outcome, outage) ==
    /\ UNCHANGED health
    /\ Over(c, outcome, outage)

\* Any other exception: the probe is given back and the error propagates.
\* outage says what the wire showed.
Abort(c, outcome, outage) ==
    /\ health' = [health EXCEPT ![Ladder[c][call[c].i]] = abandon_probe(@)]
    /\ Over(c, outcome, outage)

\* SchemaUnsatisfied or TransportError: the breaker hears of it, and the next
\* target gets the call.
FailOver(c, h) == Climb(c, call[c].i + 1, h)

-----------------------------------------------------------------------------
(* The steps of one call.                                                  *)

\* CachingModelClient.complete; stream runs the same ladder without the
\* cache, like a call in mode "off".
Begin(c) ==
    /\ call[c].pc = "idle"
    /\ begun < MaxCalls
    /\ begun' = begun + 1
    /\ \E scope \in Scopes :
         call' = [call EXCEPT ![c] =
             [Idle EXCEPT !.pc = IF mode = "off" THEN "ladder" ELSE "lookup",
                          !.scope = scope]]
    /\ UNCHANGED <<mode, route, health, cache>>

\* The store is asked for the key of the route's first target.
Lookup(c) ==
    LET key == CacheKey(call[c].scope, route[1].identity)
    IN  /\ call[c].pc = "lookup"
        /\ \/ /\ key \in DOMAIN cache
              /\ Over(c, cache[key], FALSE)
           \/ /\ key \notin DOMAIN cache
              /\ mode = "read-only"
              /\ Over(c, "CacheMiss", FALSE)
           \/ /\ key \notin DOMAIN cache
              /\ mode = "read-write"
              /\ call' = [call EXCEPT ![c].pc = "ladder"]
        /\ UNCHANGED <<mode, route, health, cache, begun>>

\* LadderModelClient.complete up to its first await.
Dispatch(c) ==
    /\ call[c].pc = "ladder"
    /\ Climb(c, 1, health)
    /\ UNCHANGED <<mode, route, cache, begun>>

\* The answer validated: the endpoint is healthy and, with a cache, the
\* response is still to be stored.
Answered(c, e) ==
    /\ health' = [health EXCEPT ![e] = record_success(@)]
    /\ IF mode # "off"
       THEN call' = [call EXCEPT ![c].pc = "store", ![c].probing = FALSE]
       ELSE Over(c, Identity(e), FALSE)

\* Mutant: the retries of the rate limit are not counted.
RateRetry_Uncounted(frame) == [frame EXCEPT !.pc = "backoff"]

RateRetry(frame) == [frame EXCEPT !.pc = "backoff", !.rate = @ + 1]

\* _call_target, one turn: the backend's reply or error and what follows it
\* up to the next await.
Reply(c, r, outage) ==
    LET e == Ladder[c][call[c].i]
        again(frame) == /\ call' = [call EXCEPT ![c] = frame]
                        /\ UNCHANGED health
        retried == r.trigger = "RATE_LIMIT" /\ call[c].rate < MaxRateRetries
    IN  CASE r.kind = "LlmError" -> Abort(c, "LlmError", outage)
          [] r.kind = "TransportError" /\ retried ->
                 again(RateRetry(call[c]))
          [] r.kind = "TransportError" /\ ~retried ->
                 FailOver(c, [health EXCEPT ![e] = record_failure(@)])
          [] r.finish = "length" ->
                 LET n == call[c].truncations + 1
                     cap == raise_cap(e, call[c].cap, n)
                 IN  IF cap = 0 THEN Abort(c, "BudgetExhausted", outage)
                     ELSE again([call[c] EXCEPT !.truncations = n,
                                                !.cap = cap])
          [] r.finish \in {"refusal", "filtered"} ->
                 Abort(c, "ModelRefused", outage)
          [] r.finish \in {"stop", "tool_call"} ->
                 IF r.body = "valid" THEN Answered(c, e)
                 ELSE IF call[c].repairs < MaxRepairs
                 THEN again([call[c] EXCEPT !.repairs = @ + 1])
                 ELSE FailOver(c, [health EXCEPT ![e] = abandon_probe(@)])

\* Everything invoke can do, and whether it follows from an outage.
Results ==
    [b \in Backends |->
        {<<invoke(b, w, w2, TRUE), DecidingClass(b, w, w2) \in Outages>> :
            w \in Wire, w2 \in IF b = "harmony_gpt_oss" THEN Wire ELSE Single}]

\* The await of backend.invoke ends.
Invoke(c) ==
    LET e == Ladder[c][call[c].i]
    IN  /\ call[c].pc = "invoke"
        /\ \/ /\ RungFits(e)
              /\ \E r \in Results[route[e.target].backend] : Reply(c, r[1], r[2])
           \/ /\ ~RungFits(e)
              /\ Abort(c, "LlmError", FALSE)
        /\ UNCHANGED <<mode, route, cache, begun>>

\* The sleep of the rate-limit schedule is over.
Backoff(c) ==
    /\ call[c].pc = "backoff"
    /\ call' = [call EXCEPT ![c].pc = "invoke"]
    /\ UNCHANGED <<mode, route, health, cache, begun>>

\* SqliteLlmCacheStore.put: a row already there stays.
put(key, identity) ==
    cache' = IF key \in DOMAIN cache THEN cache
             ELSE [k \in DOMAIN cache \cup {key} |->
                      IF k = key THEN identity ELSE cache[k]]

\* Mutant: the response is stored under the key that missed.
Store_UnderPrimary(c) ==
    LET key == CacheKey(call[c].scope, route[1].identity)
        identity == Identity(Ladder[c][call[c].i])
    IN  /\ call[c].pc = "store"
        /\ put(key, identity)
        /\ Over(c, identity, FALSE)
        /\ UNCHANGED <<mode, route, health, begun>>

\* _store_response: under the key of the target that answered.
Store(c) ==
    LET identity == Identity(Ladder[c][call[c].i])
        key == CacheKey(call[c].scope, identity)
    IN  /\ call[c].pc = "store"
        /\ put(key, identity)
        /\ Over(c, identity, FALSE)
        /\ UNCHANGED <<mode, route, health, begun>>

\* The task is cancelled at an await: its phase's wall clock, SIGINT, or the
\* consumer of a stream gone.
Cancel(c) ==
    /\ \/ /\ call[c].pc \in {"invoke", "backoff"}
          /\ Abort(c, "Cancelled", FALSE)
       \/ /\ call[c].pc \in {"lookup", "store"}
          /\ Over(c, "Cancelled", FALSE)
          /\ UNCHANGED health
    /\ UNCHANGED <<mode, route, cache, begun>>

-----------------------------------------------------------------------------
(* The environment.                                                        *)

CooldownElapses(e) ==
    /\ health[e].state = "DOWN"
    /\ ~health[e].cooled
    /\ health' = [health EXCEPT ![e].cooled = TRUE]
    /\ UNCHANGED <<mode, route, cache, call, begun>>

\* `fleet gc` evicts a row that has not been hit for long, with --force also
\* beneath live work.
Evict ==
    /\ \E k \in DOMAIN cache :
         cache' = [x \in DOMAIN cache \ {k} |-> cache[x]]
    /\ UNCHANGED <<mode, route, health, call, begun>>

\* The process dies and a resumed run builds a fresh client: the breaker
\* starts UP and the cache is what was stored.
Restart ==
    /\ \E c \in Callers : call[c].pc # "idle"
    /\ health' = [e \in Endpoints |-> Fresh]
    /\ call' = [c \in Callers |-> Idle]
    /\ UNCHANGED <<mode, route, cache, begun>>

Init ==
    /\ mode \in {"off", "read-only", "read-write"}
    /\ route \in Routes
    /\ health = [e \in Endpoints |-> Fresh]
    /\ cache = [k \in {} |-> "none"]
    /\ call = [c \in Callers |-> Idle]
    /\ begun = 0

Step(c) ==
    \/ Lookup(c) \/ Dispatch(c) \/ Invoke(c) \/ Backoff(c) \/ Store(c)

Next ==
    \/ \E c \in Callers : Begin(c) \/ Step(c) \/ Cancel(c)
    \/ \E e \in Endpoints : CooldownElapses(e)
    \/ Evict
    \/ Restart

\* Every await of a call ends (a timeout bounds it, the writer answers).
Fairness == \A c \in Callers : WF_vars(Step(c))

Spec == Init /\ [][Next]_vars /\ Fairness
-----------------------------------------------------------------------------
Health == [state : {"UP", "DOWN", "HALF_OPEN"}, fails : 0 .. OpenAfter,
           cooled : BOOLEAN]

Frame == [pc : {"idle", "lookup", "ladder", "invoke", "backoff", "store"},
          scope : Scopes, i : Nat, rate : 0 .. MaxRateRetries,
          truncations : 0 .. MaxTruncations, repairs : 0 .. MaxRepairs,
          cap : Nat, probing : BOOLEAN, lost : BOOLEAN]

\* The state has its type; a call in flight is at a place of its ladder.
TypeOK ==
    /\ mode \in {"off", "read-only", "read-write"}
    /\ route \in Routes
    /\ health \in [Endpoints -> Health]
    /\ call \in [Callers -> Frame]
    /\ begun \in 0 .. MaxCalls
    /\ \A c \in Callers : call[c].pc \in {"invoke", "backoff", "store"} =>
                            call[c].i \in 1 .. Len(Ladder[c])

\* An endpoint is HALF_OPEN only while the call that claimed its probe is
\* still in flight (failover.py, abandon_probe): whatever way a probe ends, a
\* refusal, an exhausted budget or a cancellation included, the endpoint is
\* not left in the one state no later call may enter.
ProbeHeld ==
    \A e \in Endpoints : health[e].state = "HALF_OPEN" =>
        \E c \in Callers :
            /\ call[c].pc \in {"invoke", "backoff"}
            /\ call[c].probing
            /\ Ladder[c][call[c].i] = e

\* An answer is replayed only for the target that gave it (cache.py,
\* _store_response): a row's key names the backend, model and effort that
\* answered, so an answer served by a fallback is never replayed as the
\* primary's.
AnswerIsItsOwn == \A k \in DOMAIN cache : cache[k] = k.identity

\* An outage never ends a call (client.py, complete): the error that
\* propagates to the worker without the remaining targets being tried was
\* never a lost connection, a throttled one or a server error, whichever
\* transport it came through.
OutageFailsOver == \A c \in Callers : ~call[c].lost

\* No dispatch asks for more tokens than the call's budget has left
\* (client.py, _check_budget and _raise_cap), however often the reply was
\* truncated and whichever target it failed over to.
TokensWithinBudget ==
    \A c \in Callers : call[c].pc \in {"invoke", "backoff"} =>
        InputTokens + call[c].cap <= Budget.tokens

\* Nor for more dollars: what complete() promises of its budget.
DollarsWithinBudget ==
    \A c \in Callers : call[c].pc \in {"invoke", "backoff"} =>
        estimate_cost_usd(Ladder[c][call[c].i], InputTokens + call[c].cap)
            <= Budget.usd

\* One probe decides (failover.py): an endpoint that went down is never
\* called by two calls at once before one has succeeded.
OneProbe ==
    \A c, d \in Callers :
        /\ c # d
        /\ call[c].pc \in {"invoke", "backoff"} /\ call[c].probing
        /\ call[d].pc \in {"invoke", "backoff"} /\ call[d].probing
        => Ladder[c][call[c].i] # Ladder[d][call[d].i]

\* Every call returns: the rate-limit schedule, the repairs, the truncation
\* retries and the targets are each bounded, and so is their product.
CallsReturn ==
    \A c \in Callers : call[c].pc # "idle" ~> call[c].pc = "idle"
=============================================================================
