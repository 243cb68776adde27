-------------------------- MODULE ManifestSchema --------------------------
(***************************************************************************)
(* The strict schema of tonin.toml: every key must be known, and a table   *)
(* that is not may be the overlay of an environment                        *)
(* (tonin-plugin/src/schema.rs).                                           *)
(*                                                                         *)
(* A document is a table, a function on its keys; an item is              *)
(* [is |-> "value"], [is |-> "flag"], [is |-> "table", keys |-> a table]   *)
(* or [is |-> "array", items |-> a sequence of items].                     *)
(***************************************************************************)
EXTENDS Sequences, Functions, TLC

CONSTANT NotEnvNames  \* the keys with a character no environment's name has

---------------------------------------------------------------------------
(* Shapes of values, and tables.                                           *)

Value == [shape |-> "value"]
Free == [shape |-> "free"]
Callers == [shape |-> "callers"]
Table(schema) == [shape |-> "table", schema |-> schema]
Array(schema) == [shape |-> "array", schema |-> schema]
FlagOrArray(schema) == [shape |-> "flag or array", schema |-> schema]
Named(schema) == [shape |-> "named", schema |-> schema]
NamedOr(schema) == [shape |-> "named or value", schema |-> schema]

Values(keys) == [key \in keys |-> Value]

table(fields) == [fields |-> fields, overlay |-> <<>>, open_values |-> FALSE,
                  open_envs |-> FALSE, required |-> {}]

with_overlay(fields, overlay) == [table(fields) EXCEPT !.overlay = <<overlay>>]

\* Most sections let an overlay say all that the base says.
Overlaid(fields) == with_overlay(fields, table(fields))

k8s_object(fields, required) == [table(fields) EXCEPT !.required = required]

---------------------------------------------------------------------------
(* The walk: what it finds is a set of keys that are not allowed and of    *)
(* environments that overlays name.  The code stops at the first of the    *)
(* former.                                                                 *)

Unknown(path) == [unknown |-> path]

OverlayEnv(env, path) == [env |-> env, location |-> path]

(* Mutant: the environment an overlay names is not recorded. *)
MutantEnvName(key, path) == IF key \in NotEnvNames THEN {Unknown(path)} ELSE {}

env_name(key, path) == IF key \in NotEnvNames THEN {Unknown(path)} ELSE {OverlayEnv(key, path)}

CALLER == table(Values({"namespace", "service", "ports"}) @@ [labels |-> Free])

RECURSIVE walk_table(_, _, _), walk_shape(_, _, _)

\* A table that is no field is an overlay where there are overlays; a value
\* that is none is accepted where keys are open, and may name an environment.
walk_table(t, schema, path) ==
    UNION {LET item == t[key] full == Append(path, key) IN
           IF key \in DOMAIN schema.fields
           THEN walk_shape(item, schema.fields[key], full)
           ELSE IF item.is = "table" /\ schema.overlay # <<>>
           THEN env_name(key, full) \cup walk_table(item.keys, schema.overlay[1], full)
           ELSE IF item.is # "table" /\ schema.open_values
           THEN IF schema.open_envs THEN env_name(key, full) ELSE {}
           ELSE {Unknown(full)}
           : key \in DOMAIN t}

\* An entry of an array also has every required key.
walk_entry(t, schema, path) ==
    walk_table(t, schema, path) \cup {Unknown(Append(path, r)) : r \in schema.required \ DOMAIN t}

\* [callers]: a table with a key of a caller, or with none, is a caller, any
\* other one the overlay of an environment.
walk_callers(t) ==
    UNION {LET full == <<"callers", name>>
               keys == t[name].keys
           IN  IF t[name].is # "table" THEN {}
               ELSE IF DOMAIN keys = {} \/ DOMAIN keys \cap DOMAIN CALLER.fields # {}
               THEN walk_table(keys, CALLER, full)
               ELSE env_name(name, full) \cup
                    UNION {walk_table(keys[inner].keys, CALLER, Append(full, inner))
                           : inner \in {k \in DOMAIN keys : keys[k].is = "table"}}
           : name \in DOMAIN t}

walk_shape(item, shape, path) ==
    CASE shape.shape \in {"value", "free"} -> {}
      [] shape.shape = "flag or array" /\ item.is = "flag" -> {}
      [] shape.shape \in {"array", "flag or array"} /\ item.is = "array" ->
            UNION {IF item.items[i].is = "table"
                   THEN walk_entry(item.items[i].keys, shape.schema, path) ELSE {Unknown(path)}
                   : i \in DOMAIN item.items}
      [] shape.shape = "table" /\ item.is = "table" -> walk_table(item.keys, shape.schema, path)
      [] shape.shape = "callers" /\ item.is = "table" -> walk_callers(item.keys)
      [] shape.shape \in {"named", "named or value"} /\ item.is = "table" ->
            UNION {IF item.keys[name].is = "table"
                   THEN walk_table(item.keys[name].keys, shape.schema, Append(path, name))
                   ELSE IF shape.shape = "named" THEN {Unknown(Append(path, name))} ELSE {}
                   : name \in DOMAIN item.keys}
      [] OTHER -> {Unknown(path)}

---------------------------------------------------------------------------
(* The tables of tonin.toml.  Fields that were removed stay known, for the *)
(* resolver to say what replaces them.                                     *)

STRATEGY == table(Values({"type", "partition", "max_surge", "max_unavailable"}))

DEPLOY_ENV == Values({"replicas", "namespace", "mesh", "mcp_sidecar", "expose",
                      "termination_grace_period_seconds", "image_pull_secrets"})
                  @@ [strategy |-> Table(STRATEGY)]

SERVICE == table(Values({"name", "version", "language", "type", "web_mode", "codec", "port",
                         "command", "args"})
    @@ [health |-> Table(table(Values({"path", "port", "liveness_path", "readiness_path"})
            @@ [startup |-> Table(table(Values({"path", "period_seconds", "failure_threshold"})))])),
        http |-> Table(table(Values({"port", "health_path"})))])

RESOURCE_LIST == Table(table(Values({"cpu", "memory", "ephemeral_storage"})))

CACHE_FIELDS == Values({"engine", "secret", "key", "env", "namespace", "port", "url", "size",
                        "shared", "name"}) @@ [labels |-> Free]

DATABASE_FIELDS == CACHE_FIELDS @@ Values({"tls", "ca_secret", "cluster", "version"})

ENV == [with_overlay(<<>>, [table(<<>>) EXCEPT !.open_values = TRUE]) EXCEPT !.open_values = TRUE]

DEPENDENCY == [table(Values({"namespace", "port", "ports", "envs"}))
               EXCEPT !.open_values = TRUE, !.open_envs = TRUE]

EGRESS_FIELDS == Values({"kube_apiserver"})
    @@ [fqdns |-> Array(table(Values({"name", "pattern", "ports"}))),
        cidrs |-> Array(table(Values({"cidr", "except", "ports"})))]

TOLERATION == k8s_object(Values({"key", "operator", "value", "effect", "toleration_seconds"}), {})

TOPOLOGY_SPREAD == k8s_object(Values({"max_skew", "topology_key", "when_unsatisfiable",
        "min_domains", "node_affinity_policy", "node_taints_policy", "match_label_keys"})
    @@ [label_selector |-> Free], {"max_skew", "topology_key", "when_unsatisfiable"})

PLACEMENT_FIELDS == [node_selector |-> Free, tolerations |-> Array(TOLERATION),
                     topology_spread |-> FlagOrArray(TOPOLOGY_SPREAD)]

SA_TOKEN == table(Values({"audience", "path", "expiration_seconds"}))

CRONJOB == table(Values({"name", "schedule", "time_zone", "command", "args",
        "concurrency_policy", "successful_jobs_history_limit", "failed_jobs_history_limit",
        "starting_deadline_seconds", "active_deadline_seconds", "backoff_limit", "suspend",
        "envs"}) @@ [resources |-> Table(table(Values({"cpu", "memory"}))), env |-> Free])

DEPLOY == with_overlay(DEPLOY_ENV @@ Values({"kind", "pod_management_policy"}), table(DEPLOY_ENV))

RESOURCES == table(Values({"cpu", "memory"})
                   @@ [requests |-> RESOURCE_LIST, limits |-> RESOURCE_LIST])

MIGRATIONS == with_overlay(Values({"tool", "dir", "command", "mode", "run_on"}),
                           table(Values({"mode"})))

SECRETS == with_overlay(Values({"provider", "required", "create"})
               @@ [map |-> Free, external_store |-> Table(table(Values({"name", "kind"})))],
               table(Values({"create"})))

CONFIG == table(Values({"engine", "path_prefix", "poll_interval_seconds", "endpoints", "repo",
                        "git_ref", "sources"}))

CLIENT == table(Values({"coalesce", "proxy"})
                @@ [cache |-> Named(table(Values({"ttl_ms", "capacity"})))])

PATH_RULE == table(Values({"pattern", "propagate_to_callers", "layer", "packages", "build_order"}))

VOLUME == table(Values({"name", "type", "mount_path", "read_only", "size_limit", "medium",
                        "size", "storage_class", "access_modes"}))

PORT == table(Values({"name", "port", "protocol", "service"}))

TONIN_TOML == table(
    [schema |-> Value, service |-> Table(SERVICE), deploy |-> Table(DEPLOY),
     resources |-> Table(RESOURCES),
     autoscale |-> Table(Overlaid(Values({"enabled", "min_replicas", "max_replicas"}))),
     depends_on |-> NamedOr(DEPENDENCY), env |-> Table(ENV), callers |-> Callers,
     egress |-> Table(Overlaid(EGRESS_FIELDS)),
     database |-> Table(Overlaid(DATABASE_FIELDS)), databases |-> Named(Overlaid(DATABASE_FIELDS)),
     cache |-> Table(Overlaid(CACHE_FIELDS)), caches |-> Named(Overlaid(CACHE_FIELDS)),
     secrets |-> Table(SECRETS), migrations |-> Table(MIGRATIONS), config |-> Table(CONFIG),
     client |-> Table(CLIENT), image |-> Table(table(Values({"registry"}))),
     security |-> Table(table([pod |-> Free, container |-> Free])),
     path_rules |-> Array(PATH_RULE), volumes |-> Array(VOLUME), ports |-> Array(PORT),
     placement |-> Table(Overlaid(PLACEMENT_FIELDS)),
     pdb |-> Table(Overlaid(Values({"enabled", "min_available", "max_unavailable"}))),
     service_account |-> Table(table([automount_token |-> Value, token |-> Table(SA_TOKEN),
                                      tokens |-> Array(SA_TOKEN)])),
     cronjobs |-> Array(CRONJOB), storage |-> Table(table(Values({"kind"})))])

---------------------------------------------------------------------------
validate(doc) == ~\E f \in walk_table(doc, TONIN_TOML, <<>>) : "unknown" \in DOMAIN f

\* The environments a document that validates names, and where.
overlay_envs(doc) == walk_table(doc, TONIN_TOML, <<>>)
===========================================================================
