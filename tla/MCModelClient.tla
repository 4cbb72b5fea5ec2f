--------------------------- MODULE MCModelClient ---------------------------
(* Two callers whose repos start at different replicas of the first target, *)
(* and a fallback of another vendor; three configurations, so that every    *)
(* transport is called.                                                    *)
EXTENDS ModelClient, TLC

CONSTANTS c1, c2

Plain == [on |-> {}, off |-> {}]

Target(backend, urls, price, max_output, override) ==
    [backend |-> backend, identity |-> backend, urls |-> urls,
     price |-> price, max_output |-> max_output, override |-> override]

MCRoutes ==
    {<<Target("harmony_gpt_oss", <<"u1">>, 1, 2, Plain),
       Target("vertex", <<"v1">>, 2, 8, Plain)>>,
     <<Target("openai_compatible", <<"u1", "u2">>, 1, 2,
              [on |-> {"JSON_SCHEMA"}, off |-> {}]),
       Target("anthropic", <<"v1">>, 2, 8, Plain)>>,
     <<Target("bedrock", <<"u1">>, 1, 2, Plain),
       Target("vertex", <<"v1">>, 2, 8, [on |-> {"JSON_SCHEMA"}, off |-> {}])>>}

MCReplica == c1 :> 0 @@ c2 :> 1

MCBudget == [tokens |-> 4, usd |-> 6]
=============================================================================
