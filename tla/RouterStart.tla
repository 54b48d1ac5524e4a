---------------------------- MODULE RouterStart ----------------------------
(***************************************************************************)
(* How the router becomes a serving process: the configuration it puts     *)
(* together from defaults, file, environment and command line (config.rs,  *)
(* main.rs), and what server.rs build() makes of it and of the supergraph  *)
(* file.  A boot is the file, the environment and the flag a process is    *)
(* started with; a key that a source does not give is absent from it.      *)
(* Values of ROUTER_CACHE_ENABLED and its like are taken in lower case.    *)
(***************************************************************************)
EXTENDS Naturals

CONSTANTS
  Manifests   \* for each path the state of the file there: "whole", "malformed" or "missing"

\* The keys of the file that are optional, each with what serde fills in: the
\* default functions of config.rs, the same whether a key or its section is absent.
Default ==
  [default_subgraph_timeout_ms |-> 1000, pool_max_idle_per_host |-> 50,
   pool_idle_timeout_sec |-> 90, tcp_keepalive_sec |-> 90, retry_max_attempts |-> 2,
   retry_initial_backoff_ms |-> 10, retry_max_backoff_ms |-> 250,
   circuit_window_sec |-> 60, circuit_min_samples |-> 8, circuit_failure_percent |-> 50,
   circuit_open_recovery_sec |-> 15, cache_enabled |-> FALSE, redis_url |-> "",
   ttl_property_read_sec |-> 600, ttl_search_sec |-> 120, ttl_pricing_sec |-> 30,
   ttl_review_summary_sec |-> 300, max_depth |-> 10, max_cost |-> 1000,
   default_requests_per_sec |-> 100, default_burst |-> 100, jwt_secret |-> "dev-jwt",
   identity_signature_secret |-> "dev-identity", manifest |-> "persisted-queries.json",
   allow_arbitrary_queries |-> FALSE, usage_endpoint |-> "schema-registry",
   usage_enabled |-> TRUE]

\* Deserialising the file: what it gives, and the default for every other key.
Parsed(file) ==
  [k \in DOMAIN Default |-> IF k \in DOMAIN file THEN file[k] ELSE Default[k]]

Texts == {"redis_url", "jwt_secret", "identity_signature_secret", "manifest", "usage_endpoint"}
Switches == {"cache_enabled", "allow_arbitrary_queries", "usage_enabled"}

\* Mutant: an empty text erases what the file says.
FromEnvErasing(boot) ==
  LET parsed == Parsed(boot.file) IN
  [k \in DOMAIN Default |->
    CASE k \in Texts \cap DOMAIN boot.env -> boot.env[k]
      [] k \in Switches \cap DOMAIN boot.env -> boot.env[k] \in {"1", "true", "yes"}
      [] OTHER -> parsed[k]]

\* A text of the environment counts unless it is empty; a switch counts once it is
\* set, and turns its feature off unless it says 1, true or yes.
FromEnv(boot) ==
  LET parsed == Parsed(boot.file) IN
  [k \in DOMAIN Default |->
    CASE k \in Texts \cap DOMAIN boot.env /\ boot.env[k] # "" -> boot.env[k]
      [] k \in Switches \cap DOMAIN boot.env -> boot.env[k] \in {"1", "true", "yes"}
      [] OTHER -> parsed[k]]

\* --allow-arbitrary-queries is applied after the configuration has been loaded.
Loaded(boot) ==
  [FromEnv(boot) EXCEPT !.allow_arbitrary_queries = @ \/ boot.flag]

\* The timeout of a subgraph: the override of the file, else the default of its name,
\* else the fallback of the server section.
default_subgraph_timeouts_ms ==
  [property |-> 300, pricing |-> 500, booking |-> 700, review |-> 500, user |-> 500]

Timeout(cfg, overrides, name) ==
  IF name \in DOMAIN overrides THEN overrides[name]
  ELSE IF name \in DOMAIN default_subgraph_timeouts_ms
  THEN default_subgraph_timeouts_ms[name]
  ELSE cfg.default_subgraph_timeout_ms

\* The catalog is refused if its file declares no subgraph.
Parses(subgraphs) == subgraphs # {}

\* The cache is used only if it is enabled and has an address; then its first
\* connection has to succeed.
OpensCache(cfg) == cfg.cache_enabled /\ cfg.redis_url # ""

\* The manifest is read if it is there, and has to be there unless any text is allowed.
ReadsManifest(cfg) == Manifests[cfg.manifest] # "missing" \/ ~ cfg.allow_arbitrary_queries
ManifestLoads(cfg) == ReadsManifest(cfg) => Manifests[cfg.manifest] = "whole"

\* What server::build returns for a catalog of these subgraphs.
App(cfg, overrides, subgraphs) ==
  [cache |-> OpensCache(cfg), address |-> cfg.redis_url,
   arbitrary |-> cfg.allow_arbitrary_queries, queries |-> ReadsManifest(cfg),
   breakers |-> subgraphs,
   timeouts |-> [n \in subgraphs |-> Timeout(cfg, overrides, n)]]
=============================================================================
