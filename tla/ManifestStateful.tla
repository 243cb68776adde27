------------------------- MODULE ManifestStateful -------------------------
(***************************************************************************)
(* The databases, caches, secrets and migrations a service refers to, for  *)
(* one environment, and the container environment variables they put into  *)
(* the pod (tonin-plugin/src/stateful.rs).                                 *)
(*                                                                         *)
(* [database] and [databases.<variant>] are one section with the variant   *)
(* None or a name.  Removed fields (size, shared, version, name) are one   *)
(* flag of a table: any of them is refused.                                *)
(***************************************************************************)
EXTENDS ManifestPod

CONSTANT UpperCase  \* the name of a variant in capitals

ASSUME UpperCaseAssumption == DOMAIN UpperCase \subseteq STRING

Engines == [database |-> {"postgres", "mysql", "sqlite", "clickhouse", "none"},
            cache    |-> {"redis", "none"}]

RawDatastore(raw) ==
    Sectioned(raw, [engine : Maybe(STRING), secret : Maybe(STRING), key : Maybe(STRING),
                    env : Maybe(STRING), tls : Maybe(STRING), ca_secret : Maybe(STRING),
                    cluster : Maybe(STRING), labels : Maybe(SUBSET STRING),
                    namespace : Maybe(STRING), port : Maybe(Nat), url : Maybe(STRING),
                    removed : BOOLEAN])

RawSecrets(raw) == raw \in [create : Maybe(BOOLEAN), provider : Maybe(STRING),
                            required : Seq(STRING),
                            envs : [DOMAIN raw.envs -> [create : Maybe(BOOLEAN)]]]

RawMigrations(raw) == raw \in [tool : STRING, dir : STRING, command : Maybe(STRING),
                               mode : Maybe(STRING), removed : BOOLEAN,
                               envs : [DOMAIN raw.envs -> Maybe(STRING)]]

RawConfigBlock == [engine : STRING, poll_interval_seconds : Maybe(Nat), sources : Seq(STRING)]

DefaultPorts == [postgres |-> 5432, mysql |-> 3306, clickhouse |-> 9000, redis |-> 6379]

---------------------------------------------------------------------------
(* Names made of a service's or a variant's.                               *)

section_name(kind, variant) == IF variant = None THEN kind ELSE kind \o "s." \o variant

name_stem(service, variant) == IF variant = None THEN service ELSE service \o "-" \o variant

env_prefix(variant) == IF variant = None THEN "" ELSE UpperCase[variant] \o "_"

dns_label(prefix, variant) == IF variant = None THEN prefix ELSE prefix \o "-" \o variant

---------------------------------------------------------------------------
(* Merge and checks common to databases and caches.                        *)

\* A url is never inherited: it is the overlay's own or there is none.
MergeDatastore(raw, env) ==
    LET overlay == Overlay(raw, env)
    IN  [Merge(raw.base, overlay) EXCEPT !.url = IF overlay = None THEN None ELSE overlay.url]

Tables(raw) == {raw.base} \cup Range(raw.envs)

\* Every table is looked at, those of other environments too.
DatastoreTablesValid(kind, raw) ==
    /\ raw.base.url = None
    /\ \A t \in Tables(raw) : ~t.removed /\ t.engine \in Engines[kind] \cup {None}

Source(f, default, env) == IF Given(f.url)
                           THEN [secret |-> None, key |-> None, url |-> apply_env(f.url, env)]
                           ELSE [secret |-> Or(f.secret, default), key |-> Or(f.key, "uri"),
                                 url |-> None]

\* The pods a network policy lets the service reach.
Egress(f, default, env) ==
    [port |-> Or(f.port, DefaultPorts[f.engine]),
     namespace |-> IF Given(f.namespace) THEN apply_env(f.namespace, env) ELSE None,
     labels |-> Or(f.labels, {default})]

---------------------------------------------------------------------------
(* [database], [databases.*]                                               *)

DatabaseValid(raw, env) ==
    LET f == MergeDatastore(raw, env) IN
    /\ DatastoreTablesValid("database", raw)
    /\ Given(f.engine)
    /\ f.engine # "none" => /\ f.tls \in {None, "none", "verify-full"}
                            /\ f.engine # "postgres" => f.tls # "verify-full" /\ ~Given(f.cluster)

\* Postgres follows the names CloudNativePG gives: the cluster is <stem>-pg,
\* its Secrets <cluster>-app and <cluster>-ca.
Contract(f, stem) ==
    IF f.engine = "postgres"
    THEN LET cluster == Or(f.cluster, stem \o "-pg")
         IN  [secret |-> cluster \o "-app", ca |-> cluster \o "-ca", pods |-> cluster]
    ELSE [secret |-> stem \o "-db", ca |-> stem \o "-db-ca", pods |-> stem \o "-db"]

\* f is the merged table of the environment.
resolve_database(f, env, service, variant) ==
    LET contract == Contract(f, name_stem(service, variant))
    IN  [engine |-> f.engine, variant |-> variant,
         env |-> Or(f.env, env_prefix(variant) \o "DATABASE_URL"),
         source |-> Source(f, contract.secret, env),
         tls |-> f.tls = "verify-full",
         ca_secret |-> Or(f.ca_secret, contract.ca),
         egress |-> IF f.engine = "sqlite" THEN None ELSE Egress(f, contract.pods, env)]

---------------------------------------------------------------------------
(* [cache], [caches.*]                                                     *)

CacheValid(raw, env) == /\ DatastoreTablesValid("cache", raw)
                        /\ Given(MergeDatastore(raw, env).engine)

resolve_cache(f, env, service, variant) ==
    LET contract == name_stem(service, variant) \o "-cache"
    IN  [engine |-> f.engine, variant |-> variant,
         env |-> Or(f.env, env_prefix(variant) \o "REDIS_URL"),
         source |-> Source(f, contract, env),
         egress |-> Egress(f, contract, env)]

---------------------------------------------------------------------------
(* [secrets], [migrations], [config]                                       *)

resolve_secrets(raw, env) ==
    LET overlay == Overlay(raw, env)
    IN  [create |-> Or(IF overlay = None THEN None ELSE overlay.create, Or(raw.create, TRUE)),
         provider |-> IF raw.provider \in {"external-secrets", "vault", "aws-secrets-manager"}
                      THEN raw.provider ELSE "k8s",
         required |-> raw.required]

MigrationModes == {"job", "init-container", "none"}

MigrationsValid(raw) == /\ ~raw.removed
                        /\ \A mode \in {raw.mode} \cup Range(raw.envs) :
                              mode \in MigrationModes \cup {None}

resolve_migrations(raw, env) ==
    [mode |-> Or(Overlay(raw, env), Or(raw.mode, "init-container")),
     command |-> IF raw.tool = "custom" THEN Or(raw.command, "") ELSE raw.tool \o " " \o raw.dir]

ConfigEngines == {"etcd", "github", "chained"}

resolve_config(raw) ==
    [engine |-> IF raw.engine \in ConfigEngines THEN raw.engine ELSE "env",
     poll_interval_seconds |-> Or(raw.poll_interval_seconds, 30),
     sources |-> [i \in DOMAIN raw.sources |->
                     IF raw.sources[i] \in ConfigEngines THEN raw.sources[i] ELSE "env"]]

---------------------------------------------------------------------------
(* What the datastores put into the pod.  With tls = "verify-full" the uri *)
(* of the Secret goes into a helper variable, which the value of the       *)
(* application's variable refers to.  The reference to a Secret, or the    *)
(* value, that an entry does not have is one of None.                      *)

PG_CA_MOUNT_DIR == "/etc/pg-ca"

Allowed(egress) == IF egress # None /\ egress.labels # {} THEN egress ELSE None

HelperEnv(spec) == "TONIN_" \o env_prefix(spec.variant) \o "PG_URI"

CaMount(spec) ==
    [volume |-> dns_label("pg-ca", spec.variant), secret |-> spec.ca_secret,
     mount_path |-> IF spec.variant = None THEN PG_CA_MOUNT_DIR
                    ELSE "/etc/" \o dns_label("pg-ca", spec.variant)]

extend_database(spec) ==
    LET inSecret == spec.source.url = None
        secretEnv == IF spec.tls THEN HelperEnv(spec) ELSE spec.env
    IN  [name |-> section_name("database", spec.variant),
         env |-> spec.env,
         secret |-> [env |-> IF inSecret THEN secretEnv ELSE None,
                     name |-> spec.source.secret, key |-> spec.source.key],
         value |-> [refers_to |-> IF inSecret /\ spec.tls THEN secretEnv ELSE None,
                    url |-> spec.source.url],
         verify_full |-> spec.tls,
         ca_mount |-> IF spec.tls THEN CaMount(spec) ELSE None,
         egress |-> Allowed(spec.egress)]

extend_cache(spec) ==
    [name |-> section_name("cache", spec.variant),
     env |-> spec.env,
     secret |-> [env |-> IF spec.source.url = None THEN spec.env ELSE None,
                 name |-> spec.source.secret, key |-> spec.source.key],
     value |-> [refers_to |-> None, url |-> spec.source.url],
     verify_full |-> FALSE, ca_mount |-> None, egress |-> Allowed(spec.egress)]

\* The variables of an entry, the helper before the one that refers to it.
env_names(entry) == IF entry.secret.env \notin {None, entry.env}
                    THEN <<entry.secret.env, entry.env>> ELSE <<entry.env>>

\* Every variable tonin emits, in the order they are rendered in: the keys
\* of [secrets].required, then those of the datastores.
declared(required, datastores) ==
    Concatenated(required, [i \in DOMAIN datastores |-> env_names(datastores[i])])

---------------------------------------------------------------------------
\* The sections `tonin helm' warns about: a url of the environment's own
\* that leaves the network policy pointing at the pods of the contract.
datastore_url_warnings(stores, env) ==
    {s \in stores : LET f == MergeDatastore(s.raw, env) IN
        /\ f.engine \notin {"sqlite", "none"}
        /\ Given(f.url) /\ ~Given(f.namespace) /\ ~Given(f.labels)}
===========================================================================
