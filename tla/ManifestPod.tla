--------------------------- MODULE ManifestPod ---------------------------
(***************************************************************************)
(* Placement, disruption budget, service account, cron jobs and pull       *)
(* secrets of a service for one environment (tonin-plugin/src/pod.rs).     *)
(***************************************************************************)
EXTENDS ManifestWorkload

---------------------------------------------------------------------------
(* What the sections of a manifest may hold.                               *)

RawPlacement(raw) ==
    LET selectors == {raw.base.node_selector} \cup {t.node_selector : t \in Range(raw.envs)}
    IN  /\ \A selector \in selectors \ {None} : TextTable(selector)
        /\ Sectioned(raw, [node_selector : selectors, tolerations : Maybe(SUBSET STRING),
               topology_spread : Maybe([switch : {"on", "off", "list"}, list : SUBSET STRING])])

RawPdb(raw) == Sectioned(raw, [enabled : Maybe(BOOLEAN), min_available : Maybe(RawCount),
                               max_unavailable : Maybe(RawCount)])

RawSaToken == [audience : STRING, path : Maybe([dir : STRING, file : STRING]),
               expiration_seconds : Maybe(Nat)]

RawServiceAccount == [automount_token : Maybe(BOOLEAN), token : Maybe(RawSaToken),
                      tokens : Seq(RawSaToken)]

RawCronJob(c) ==
    c \in [name : STRING, schedule : STRING, command : Maybe(STRING), args : Maybe(STRING),
           concurrency_policy : Maybe(STRING), successful_jobs_history_limit : Maybe(Nat),
           failed_jobs_history_limit : Maybe(Nat), backoff_limit : Maybe(Nat),
           suspend : Maybe(BOOLEAN), env : [DOMAIN c.env -> STRING],
           envs : Maybe(SUBSET STRING)]

---------------------------------------------------------------------------
(* [placement]: each field of an overlay replaces the field of the base.   *)
(* Tolerations and constraints are tables: one that has an unknown key or  *)
(* lacks a required one is IllFormed.  topology_spread is a switch or a    *)
(* list: [switch |-> "on", "off" or "list", list |-> constraints].         *)

DefaultSpread == {"maxSkew 1 over hostnames"}

DefaultPlacement == [node_selector |-> NoEntries, tolerations |-> {}, topology_spread |-> DefaultSpread]

PlacementFieldsValid(t) ==
    /\ Given(t.tolerations) => IllFormed \notin t.tolerations
    /\ Given(t.topology_spread) => IllFormed \notin t.topology_spread.list

PlacementValid(raw) ==
    raw # None => /\ PlacementFieldsValid(raw.base)
                  /\ \A e \in DOMAIN raw.envs : PlacementFieldsValid(raw.envs[e])

Spread(t) == CASE t.topology_spread = None -> None
               [] t.topology_spread.switch = "on" -> DefaultSpread
               [] t.topology_spread.switch = "off" -> {}
               [] OTHER -> t.topology_spread.list

apply_placement(t, spec) == [node_selector   |-> Or(t.node_selector, spec.node_selector),
                             tolerations     |-> Or(t.tolerations, spec.tolerations),
                             topology_spread |-> Or(Spread(t), spec.topology_spread)]

resolve_placement(raw, env) ==
    IF raw = None THEN DefaultPlacement
    ELSE LET base == apply_placement(raw.base, DefaultPlacement)
         IN  IF env \in DOMAIN raw.envs THEN apply_placement(raw.envs[env], base) ELSE base

---------------------------------------------------------------------------
(* [pdb]: the budget for voluntary evictions.                              *)

Percentage(v) == v.percent => v.n <= 100

PdbFieldsValid(t) ==
    /\ \A v \in {t.min_available, t.max_unavailable} \ {None} : IntOrPercent(v) /\ Percentage(v)
    /\ ~Given(t.min_available) \/ ~Given(t.max_unavailable)

PdbTable(t) == [enabled |-> t.enabled,
                budget  |-> IF Given(t.min_available) \/ Given(t.max_unavailable)
                            THEN [min_available |-> t.min_available,
                                  max_unavailable |-> t.max_unavailable]
                            ELSE None]

Pdb(raw, env) == Merge(PdbTable(raw.base),
                       IF env \in DOMAIN raw.envs THEN PdbTable(raw.envs[env]) ELSE None)

PdbEnabled(raw, env) == raw # None /\ Pdb(raw, env).enabled # FALSE

OneAtATime == [min_available |-> None, max_unavailable |-> [percent |-> FALSE, n |-> 1]]

resolve_pdb(raw, env) ==
    IF PdbEnabled(raw, env) THEN Or(Pdb(raw, env).budget, OneAtATime) ELSE None

\* What the code refuses: a count of pods that the replicas do not exceed,
\* and none that may be missing.  Percentages are not looked at.
PdbValid(raw, env, replicas) ==
    raw # None =>
        /\ PdbFieldsValid(raw.base)
        /\ \A e \in DOMAIN raw.envs : PdbFieldsValid(raw.envs[e])
        /\ PdbEnabled(raw, env) =>
              LET budget == resolve_pdb(raw, env) IN
              /\ replicas > 1 /\ Given(budget.min_available) /\ ~budget.min_available.percent
                    => budget.min_available.n < replicas
              /\ budget.max_unavailable # [percent |-> FALSE, n |-> 0]

---------------------------------------------------------------------------
(* [service_account]: projected tokens, at most one to a path.             *)

DEFAULT_TOKEN_DIR == "/var/run/secrets/tokens"
MIN_TOKEN_EXPIRATION == 600
DEFAULT_TOKEN_EXPIRATION == 3600

TokenPath(t) == Or(t.path, [dir |-> DEFAULT_TOKEN_DIR, file |-> t.audience])

\* `token' is shorthand for a list of one.
Tokens(raw) == IF raw.token # None THEN <<raw.token>> ELSE raw.tokens

ServiceAccountValid(raw) ==
    raw # None =>
        /\ raw.token = None \/ raw.tokens = <<>>
        /\ \A i \in DOMAIN Tokens(raw) : LET t == Tokens(raw)[i] IN
              /\ t.audience # ""
              /\ IllFormed \notin {TokenPath(t).dir, TokenPath(t).file}
              /\ Or(t.expiration_seconds, DEFAULT_TOKEN_EXPIRATION) >= MIN_TOKEN_EXPIRATION
        /\ \A i, j \in DOMAIN Tokens(raw) :
              i # j => TokenPath(Tokens(raw)[i]) # TokenPath(Tokens(raw)[j])

resolve_service_account(raw) ==
    IF raw = None THEN [automount_token |-> FALSE, tokens |-> {}]
    ELSE [automount_token |-> Or(raw.automount_token, FALSE),
          tokens |-> {[audience |-> t.audience, path |-> TokenPath(t),
                       expiration_seconds |-> Or(t.expiration_seconds, DEFAULT_TOKEN_EXPIRATION)]
                      : t \in Range(Tokens(raw))}]

\* One volume to a directory.  The code numbers them in the order of their
\* directories: sa-token-0, sa-token-1, ...
token_volumes(spec) ==
    {[mount_path |-> dir, sources |-> {t \in spec.tokens : t.path.dir = dir}]
     : dir \in {t.path.dir : t \in spec.tokens}}

---------------------------------------------------------------------------
(* [[cronjobs]]: an entry for other environments is checked and left out.  *)

CronDefaults == [concurrency_policy |-> "forbid", successful_jobs_history_limit |-> 3,
                 failed_jobs_history_limit |-> 3, backoff_limit |-> 3, suspend |-> FALSE]

CronJobsValid(raw) ==
    /\ \A i \in DOMAIN raw : LET c == raw[i] IN
          /\ c.name # IllFormed /\ c.schedule # IllFormed
          /\ {c.command, c.args} \ {None, ""} # {}
          /\ c.concurrency_policy \in {None, "forbid", "allow", "replace"}
    /\ \A i, j \in DOMAIN raw : i # j => raw[i].name # raw[j].name

resolve_cronjobs(raw, env) ==
    {[name |-> c.name, schedule |-> c.schedule,
      command |-> IF c.command = "" THEN None ELSE c.command, args |-> Or(c.args, ""),
      settings |-> [key \in DOMAIN CronDefaults |-> Or(c[key], CronDefaults[key])],
      env |-> c.env]
     : c \in {d \in Range(raw) : ActiveIn(d, env)}}

---------------------------------------------------------------------------
(* image_pull_secrets: the overlay's list in place of the base's.          *)

PullSecretsValid(deploy) ==
    /\ Given(deploy.base.image_pull_secrets) => IllFormed \notin deploy.base.image_pull_secrets
    /\ \A e \in DOMAIN deploy.envs :
          Given(deploy.envs[e].image_pull_secrets) =>
              IllFormed \notin deploy.envs[e].image_pull_secrets

resolve_pull_secrets(deploy, overlay) ==
    Or(IF overlay = None THEN None ELSE overlay.image_pull_secrets,
       Or(deploy.base.image_pull_secrets, {}))
===========================================================================
