------------------------------ MODULE MCRollout ------------------------------
EXTENDS Rollout, TLC

CONSTANTS v1, q1

\* The property service, and the pricing service, which extends its Property.
MCServiceOf == [i \in Instances |-> IF i = v1 THEN "property" ELSE "pricing"]

\* A schema that extends a type composes only with the one that has it.
MCComposable(services) == "property" \in services

MCManifests == ("persisted.json" :> "whole") @@ ("persisted-queries.json" :> "missing")
                 @@ ("cut.json" :> "malformed")

\* The cluster's router, docker-compose's, a developer's, and one whose manifest is cut.
MCBoots ==
  LET nothing == [k \in {} |-> ""] IN
  { [file |-> [cache_enabled |-> TRUE, redis_url |-> "redis", manifest |-> "persisted.json",
               allow_arbitrary_queries |-> FALSE],
     timeouts |-> nothing, flag |-> FALSE,
     env |-> [redis_url |-> "", cache_enabled |-> "true", jwt_secret |-> "key"]],
    [file |-> [cache_enabled |-> FALSE, redis_url |-> "localhost", max_depth |-> 10],
     timeouts |-> [pricing |-> 1500], flag |-> TRUE,
     env |-> [redis_url |-> "redis", cache_enabled |-> "yes", allow_arbitrary_queries |-> "false"]],
    [file |-> [manifest |-> "persisted.json", default_subgraph_timeout_ms |-> 100],
     timeouts |-> nothing, flag |-> FALSE,
     env |-> [manifest |-> "cut.json", cache_enabled |-> ""]] }
==============================================================================
