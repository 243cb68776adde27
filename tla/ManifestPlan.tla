--------------------------- MODULE ManifestPlan ---------------------------
(***************************************************************************)
(* The plan of a service for one environment, or for none (the base plan   *)
(* the environment-free part of its chart is made of), and the plans of a  *)
(* whole workspace (Plan::load_scoped and load_workspace of                *)
(* tonin-plugin/src/plan.rs).                                              *)
(*                                                                         *)
(* A manifest is a record with one field to a section.  The sections       *)
(* [database] and [databases.*] are one sequence in the order the code     *)
(* takes them in, each entry with its variant; so are the caches.          *)
(***************************************************************************)
EXTENDS ManifestStateful

SupportedSchemas == {"v1"}

\* The environment's name, empty for the base plan: no overlay matches it.
EnvName(scope) == Or(scope, "")

---------------------------------------------------------------------------
(* What a manifest may hold.                                               *)

RawService == [name : STRING, type : Maybe(STRING), web_mode : Maybe(STRING),
               language : Maybe(STRING), port : Maybe(Nat),
               health : [path : Maybe(STRING), port : Maybe(Nat), liveness_path : Maybe(STRING),
                         readiness_path : Maybe(STRING), startup : Maybe(RawStartupProbe)],
               http : Maybe([port : Nat, health_path : Maybe(STRING)]),
               command : Maybe(STRING), args : Maybe(STRING)]

RawDeployEnv == [replicas : Maybe(Nat), namespace : Maybe(STRING), mesh : Maybe(STRING),
                 mcp_sidecar : Maybe(BOOLEAN), expose : Maybe(STRING),
                 grace_period : Maybe(Nat), strategy : Maybe(RawStrategy),
                 image_pull_secrets : Maybe(SUBSET STRING)]

\* The base has two keys more, and must say how many replicas and where.
RawDeploy(raw) ==
    LET more == {"kind", "pod_management_policy"}
        rest(keys) == [key \in keys |-> raw.base[key]]
    IN  /\ \A key \in more : raw.base[key] \in Maybe(STRING)
        /\ Sectioned([raw EXCEPT !.base = rest(DOMAIN @ \ more)], RawDeployEnv)
        /\ Given(raw.base.replicas) /\ Given(raw.base.namespace)

RawClientConfig == [proxy : Maybe(BOOLEAN)]

Sections == {"misspelt", "schema", "service", "deploy", "resources", "autoscale", "depends_on",
             "env", "callers", "egress", "databases", "caches", "secrets", "migrations",
             "config", "client", "image", "security", "volumes", "ports", "placement", "pdb",
             "service_account", "cronjobs"}

\* The sections whose tables have types.  The rest hold values that their
\* resolvers look into, under the names the user gives them.
RawConfig(m) ==
    /\ DOMAIN m = Sections
    /\ \A key \in {"env", "callers", "egress"} : DOMAIN m[key] = {"base", "envs"}
    /\ \A name \in DOMAIN m.depends_on : DOMAIN m.depends_on[name] = DOMAIN Shorthand(None)
    /\ m.schema \in Maybe(STRING) /\ m.service \in RawService /\ RawDeploy(m.deploy)
    /\ m.resources \in RawResources /\ m.client \in RawClientConfig
    /\ \A key \in {"databases", "caches"} :
          /\ m[key] \in Seq(Range(m[key]))
          /\ \A i \in DOMAIN m[key] :
                /\ DOMAIN m[key][i] = {"variant", "raw"}
                /\ m[key][i].variant \in Maybe(STRING) /\ RawDatastore(m[key][i].raw)
    /\ Given(m.autoscale) => RawAutoscale(m.autoscale)
    /\ Given(m.secrets) => RawSecrets(m.secrets)
    /\ Given(m.migrations) => RawMigrations(m.migrations)
    /\ m.config \in Maybe(RawConfigBlock)
    /\ m.volumes \in Seq(RawVolume) /\ m.ports \in Seq(RawPort)
    /\ Given(m.placement) => RawPlacement(m.placement)
    /\ Given(m.pdb) => RawPdb(m.pdb)
    /\ m.service_account \in Maybe(RawServiceAccount)
    /\ \A c \in Range(m.cronjobs) : RawCronJob(c)

---------------------------------------------------------------------------
(* What the service is: its kind, its ports, its probe.                    *)

Kind(m) == IF m.service.type \in {"web", "http"} THEN m.service.type ELSE "backend"

WebMode(m) == IF m.service.web_mode = "bff" THEN "bff" ELSE "spa"

Port(m) == Or(m.service.port, CASE Kind(m) = "web" -> (IF WebMode(m) = "spa" THEN 8080 ELSE 3000)
                                [] Kind(m) = "http" -> 8080
                                [] OTHER -> 50051)

\* A backend may serve HTTP on a second port.
HttpPort(m) == IF Kind(m) = "http" \/ m.service.http = None THEN None ELSE m.service.http.port

\* Where the service speaks HTTP it is probed over HTTP, else over gRPC.
Health(m) ==
    LET surface == IF Kind(m) = "backend" THEN HttpPort(m) ELSE Port(m)
        secondary == IF m.service.http = None THEN None ELSE m.service.http.health_path
    IN  IF Given(surface)
        THEN [grpc |-> FALSE, path |-> Or(m.service.health.path, Or(secondary, "/health")),
              port |-> Or(m.service.health.port, surface)]
        ELSE [grpc |-> TRUE, path |-> "", port |-> Port(m)]

Language(m) == Or(m.service.language, "rust")

---------------------------------------------------------------------------
(* What [deploy] and its overlay make of it.                               *)

DeployKey(m, env, key) ==
    LET overlay == Overlay(m.deploy, env)
    IN  Or(IF overlay = None THEN None ELSE overlay[key], m.deploy.base[key])

McpMode(m, env) == CASE DeployKey(m, env, "mcp_sidecar") = FALSE -> "none"
                     [] Kind(m) # "backend" \/ Language(m) = "node" -> "none"
                     [] Language(m) = "rust" -> "in-process"
                     [] OTHER -> "sidecar"

\* The sections that only make sense for one environment are left out of the
\* base plan.
DependsOn(m, scope) == IF scope = None THEN {} ELSE resolve_depends_on(m.depends_on, scope)

NeedsOutboundProxy(m, scope) == /\ Language(m) \notin {"rust", "node"}
                                /\ DependsOn(m, scope) # {}
                                /\ m.client.proxy # FALSE

WorkloadContext(m, scope) ==
    LET env == EnvName(scope)
    IN  [env |-> env, replicas |-> DeployKey(m, env, "replicas"), port |-> Port(m),
         http_port |-> HttpPort(m), health |-> Health(m), mcp |-> McpMode(m, env),
         proxy |-> NeedsOutboundProxy(m, scope), is_rust |-> Language(m) = "rust",
         autoscale |-> IF scope = None THEN None ELSE m.autoscale]

---------------------------------------------------------------------------
(* The datastores, and the environment variables the pod gets from them.   *)

MergedStores(section, env) ==
    [i \in DOMAIN section |-> [variant |-> section[i].variant,
                               table   |-> MergeDatastore(section[i].raw, env)]]

\* An engine "none" switches a datastore off in an environment.
Databases(stores, env, service) ==
    [i \in DOMAIN stores |->
        IF stores[i].table.engine = "none" THEN <<>>
        ELSE <<extend_database(resolve_database(stores[i].table, env, service, stores[i].variant))>>]

Caches(stores, env, service) ==
    [i \in DOMAIN stores |->
        IF stores[i].table.engine = "none" THEN <<>>
        ELSE <<extend_cache(resolve_cache(stores[i].table, env, service, stores[i].variant))>>]

Datastores(m, scope) ==
    IF scope = None THEN <<>>
    ELSE Concatenated(<<>>, Databases(MergedStores(m.databases, scope), scope, m.service.name)
                                \o Caches(MergedStores(m.caches, scope), scope, m.service.name))

Declared(m, scope) == declared(IF m.secrets = None THEN <<>> ELSE m.secrets.required,
                               Datastores(m, scope))

EnvVars(m, scope) == IF scope = None THEN NoEntries ELSE resolve_env_vars(m.env, scope)

CronJobs(m, scope) == IF scope = None THEN {} ELSE resolve_cronjobs(m.cronjobs, scope)

(* Mutant: [env] is not compared with what tonin emits. *)
MutantNoVariableTwice(m, scope) == IsInjective(Declared(m, scope))

\* Of two variables of one name the last wins in Kubernetes: no section may
\* emit one that another does, and neither [env] nor a cron job shadow one.
NoVariableTwice(m, scope) ==
    /\ IsInjective(Declared(m, scope))
    /\ DOMAIN EnvVars(m, scope) \cap Range(Declared(m, scope)) = {}
    /\ \A job \in CronJobs(m, scope) : DOMAIN job.env \cap Range(Declared(m, scope)) = {}

---------------------------------------------------------------------------
(* The plan.                                                               *)

Namespace(m, scope) == IF scope = None THEN ""
                       ELSE apply_env(DeployKey(m, scope, "namespace"), scope)

\* What is checked for an environment only.
ScopedSectionsValid(m, env) ==
    /\ DependsOnValid(m.depends_on, env)
    /\ EnvVarsValid(m.env)
    /\ CallersValid(m.callers, env)
    /\ EgressValid(m.egress)
    /\ Namespace(m, env) # Unresolved
    /\ \A i \in DOMAIN m.databases : DatabaseValid(m.databases[i].raw, env)
    /\ \A i \in DOMAIN m.caches : CacheValid(m.caches[i].raw, env)
    /\ CronJobsValid(m.cronjobs)
    /\ PlacementValid(m.placement)
    /\ PdbValid(m.pdb, env, DeployKey(m, env, "replicas"))

PlanValid(m, scope) ==
    LET env == EnvName(scope) IN
    /\ m.schema \in SupportedSchemas \cup {None}
    /\ scope # None => ScopedSectionsValid(m, scope)
    /\ PullSecretsValid(m.deploy)
    /\ m.migrations # None => MigrationsValid(m.migrations)
    /\ NoVariableTwice(m, scope)
    /\ WorkloadValid(m, Overlay(m.deploy, env), WorkloadContext(m, scope))
    /\ ServiceAccountValid(m.service_account)

PodSettings(m, scope) ==
    LET env == EnvName(scope)
        scoped(section) == IF scope = None THEN None ELSE section
    IN  [image_pull_secrets |-> resolve_pull_secrets(m.deploy, Overlay(m.deploy, env)),
         placement |-> resolve_placement(scoped(m.placement), env),
         pdb |-> resolve_pdb(scoped(m.pdb), env),
         service_account |-> resolve_service_account(m.service_account),
         cronjobs |-> CronJobs(m, scope)]

PlanFor(m, scope) ==
    LET env == EnvName(scope)
        cx == WorkloadContext(m, scope)
    IN  [name |-> m.service.name, kind |-> Kind(m), port |-> cx.port, http_port |-> cx.http_port,
         health |-> cx.health, is_rust |-> cx.is_rust, namespace |-> Namespace(m, scope),
         mesh |-> Or(DeployKey(m, env, "mesh"), "cilium"), replicas |-> cx.replicas,
         mcp_mode |-> cx.mcp, needs_outbound_proxy |-> cx.proxy,
         expose |-> DeployKey(m, env, "expose"),
         image_registry |-> Or(m.image.prefix, m.image.registry), security |-> m.security,
         depends_on |-> DependsOn(m, scope),
         callers |-> IF scope = None THEN {} ELSE resolve_callers(m.callers, scope),
         egress |-> IF scope = None THEN EmptyEgress ELSE resolve_egress(m.egress, scope),
         secrets |-> IF m.secrets = None THEN None ELSE resolve_secrets(m.secrets, env),
         migrations |-> IF m.migrations = None THEN None ELSE resolve_migrations(m.migrations, env),
         config |-> IF m.config = None THEN None ELSE resolve_config(m.config),
         datastores |-> Datastores(m, scope), env_vars |-> EnvVars(m, scope),
         selected_env |-> env,
         workload |-> resolve_workload(m, Overlay(m.deploy, env), cx),
         pod |-> PodSettings(m, scope)]

---------------------------------------------------------------------------
(* The plans of a workspace: who a service depends on may be called by it. *)

ServiceRef(plan) == [pods |-> FALSE, name |-> plan.name, namespace |-> plan.namespace]

from_service(ref) == [name |-> ref.name, source |-> ref, ports |-> <<>>]

DependsOnPlan(q, p) == \E d \in q.depends_on : d.name = p.name /\ d.namespace = p.namespace

(* Mutant: an entry of the same name wins, wherever that service is. *)
MutantDerivedCallers(p, plans) ==
    [p EXCEPT !.callers = @ \cup
        {from_service(ServiceRef(q)) : q \in {r \in plans :
            DependsOnPlan(r, p) /\ ~\E c \in p.callers : c.name = r.name}}]

\* An explicit entry for the same service wins: it may have its own ports.
WithDerivedCallers(p, plans) ==
    [p EXCEPT !.callers = @ \cup
        {from_service(ServiceRef(q)) : q \in {r \in plans :
            /\ DependsOnPlan(r, p)
            /\ ~\E c \in p.callers : c.source = ServiceRef(r)}}]

load_workspace(manifests, env) ==
    LET plans == {PlanFor(m, env) : m \in manifests}
    IN  {WithDerivedCallers(p, plans) : p \in plans}
===========================================================================
