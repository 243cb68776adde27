---------------------------- MODULE MCManifest ----------------------------
(***************************************************************************)
(* What tonin writes into a service's directory, in one run: the files of  *)
(* `service new' and the chart of `helm generate'.  For the chart:         *)
(* manifests that use every section, one or two at a time, for two         *)
(* environments; the mistakes the plan refuses; and a workspace around the *)
(* service.  The two share no state, so each moves only while the other is *)
(* as it started.                                                          *)
(***************************************************************************)
EXTENDS ChartFiles, Scaffold, FiniteSetsExt

MCEnvironments == {"dev", "prd"}
MCUpperCase == [write |-> "WRITE", dash |-> "DASH"]
MCRequests == {<<"dev">>, <<"dev", "prd">>}
MCStaticFiles == <<"templates/deployment.yaml">>
MCObsolete == {"templates/db-service.yaml"}
MCUserFiles == {"templates/extra.yaml"}

Section(base) == [base |-> base, envs |-> NoEntries]

Overlaid(base, env, overlay) == [base |-> base, envs |-> env :> overlay]

---------------------------------------------------------------------------
(* A plain service.                                                        *)

NoDeploy == [replicas |-> None, namespace |-> None, mesh |-> None, mcp_sidecar |-> None,
             expose |-> None, grace_period |-> None, strategy |-> None,
             image_pull_secrets |-> None]

Plain ==
    [misspelt |-> None, schema |-> "v1",
     service |-> [name |-> "api", type |-> None, web_mode |-> None, port |-> None, http |-> None,
                  health |-> [path |-> None, port |-> None, liveness_path |-> None,
                              readiness_path |-> None, startup |-> None],
                  language |-> None, command |-> None, args |-> None],
     deploy |-> Section([kind |-> None, pod_management_policy |-> None]
                        @@ [NoDeploy EXCEPT !.replicas = 1, !.namespace = "apps",
                                            !.mesh = "cilium"]),
     resources |-> [cpu |-> "100m", memory |-> "64Mi", requests |-> None, limits |-> None],
     autoscale |-> None, depends_on |-> NoEntries, env |-> Section(NoEntries),
     callers |-> Section(NoEntries),
     egress |-> Section([typed |-> TRUE, fqdns |-> None, cidrs |-> None,
                         kube_apiserver |-> None]),
     databases |-> <<>>, caches |-> <<>>, secrets |-> None, migrations |-> None,
     config |-> None, client |-> [proxy |-> None],
     image |-> [prefix |-> None, registry |-> "registry"], security |-> None,
     volumes |-> <<>>, ports |-> <<>>, placement |-> None, pdb |-> None,
     service_account |-> None, cronjobs |-> <<>>]

With(m, key, value) == [m EXCEPT ![key] = value]

Serving(m, key, value) == [m EXCEPT !.service[key] = value]

\* [deploy] of the base and of prd.
Deploying(m, changes) == [m EXCEPT !.deploy.base = changes @@ @]

InPrd(m, changes) == [m EXCEPT !.deploy.envs = "prd" :> (changes @@ NoDeploy)]

---------------------------------------------------------------------------
(* Tables of the sections.                                                 *)

Caller(namespace, labels, ports) ==
    [typed |-> TRUE, namespace |-> namespace, labels |-> labels, service |-> None,
     ports |-> ports]

Pods(n) == [percent |-> FALSE, n |-> n]
Percent(n) == [percent |-> TRUE, n |-> n]

Budget(min, max) == [enabled |-> None, min_available |-> min, max_unavailable |-> max]

Datastore(engine) ==
    [engine |-> engine, secret |-> None, key |-> None, env |-> None, tls |-> None,
     ca_secret |-> None, cluster |-> None, url |-> None, port |-> None,
     namespace |-> None, labels |-> None, removed |-> FALSE]

Table(engine, changes) == changes @@ Datastore(engine)

Store(variant, raw) == [variant |-> variant, raw |-> raw]

Toleration == {"dedicated"}

Spot == [switch |-> "list", list |-> {"maxSkew 2 over zones"}]

Placement(selector, tolerations, spread) ==
    [node_selector |-> selector, tolerations |-> tolerations, topology_spread |-> spread]

Cron(name, where, variables) ==
    [name |-> name, schedule |-> "daily", command |-> "purge", args |-> None, envs |-> where,
     env |-> variables, concurrency_policy |-> None, successful_jobs_history_limit |-> None,
     failed_jobs_history_limit |-> 1, backoff_limit |-> None, suspend |-> None]

Volume(name, type, path) ==
    [name |-> name, type |-> type, mount_path |-> [path |-> path, slash |-> FALSE],
     read_only |-> None, size |-> IF type = "pvc" THEN "1Gi" ELSE None, storage_class |-> None,
     access_modes |-> None, medium |-> None, size_limit |-> None]

NamedPort(name, port, service) ==
    [name |-> name, port |-> port, protocol |-> None, service |-> service]

Rolling(surge) == [NoStrategy EXCEPT !.max_surge = surge]

Dependency(namespace) == Shorthand(namespace)

Range2(min, max) == [enabled |-> None, min_replicas |-> min, max_replicas |-> max]

---------------------------------------------------------------------------
(* The manifests.                                                          *)

Postgres == <<Store(None, Overlaid(Table("postgres", [tls |-> "verify-full"]), "dev",
                                   Table(None, [tls |-> "none", url |-> "{env}"]))),
              Store("write", Section(Table("postgres", [cluster |-> "shared"])))>>

Secrets(keys) == [create |-> None, provider |-> None, required |-> keys,
                  envs |-> "prd" :> [create |-> FALSE]]

Kinds == {Serving(Plain, "type", "http"),
          Serving(Serving(Plain, "type", "web"), "web_mode", "bff"),
          Serving(Plain, "http", [port |-> 8081, health_path |-> "/ready"]),
          Serving(Plain, "language", "python"),
          With(Plain, "config", [engine |-> "chained", poll_interval_seconds |-> None,
                                 sources |-> <<"etcd", "env">>])}

Deploys ==
    {InPrd(Plain, [replicas |-> 3]),
     InPrd(Deploying(Plain, [strategy |-> Rolling(Pods(1))]),
           [strategy |-> [NoStrategy EXCEPT !.max_unavailable = Percent(50)],
            grace_period |-> 30]),
     InPrd(Deploying(Plain, [strategy |-> [NoStrategy EXCEPT !.type = "Recreate"]]),
           [mesh |-> "none", expose |-> "api.example", mcp_sidecar |-> FALSE]),
     InPrd(Deploying(Plain, [image_pull_secrets |-> {"base"}, namespace |-> EnvPattern]),
           [image_pull_secrets |-> {}]),
     With(Deploying(Plain, [kind |-> "statefulset", pod_management_policy |-> "Parallel"]),
          "volumes", <<Volume("data", "pvc", "/data"), Volume("tmp", "empty-dir", "/tmp")>>)}

Networks ==
    {With(Plain, "depends_on", [auth |-> [Dependency("apps") EXCEPT
                                              !.overrides = "prd" :> "auth-prd"]]),
     With(Serving(Plain, "language", "python"), "depends_on",
          [auth |-> [Dependency(Inherit) EXCEPT !.envs = {"prd"}, !.port = 9000]]),
     With(Plain, "callers", Overlaid([auth |-> Caller("apps", None, None)], "prd",
                                     [auth |-> Caller(EnvPattern, None, <<8080, 50051>>),
                                      scrape |-> Caller(None, {"app=scrape"}, <<50051>>)])),
     With(Plain, "egress", Overlaid([Plain.egress.base EXCEPT !.kube_apiserver = TRUE], "prd",
                                    [Plain.egress.base EXCEPT !.fqdns = <<[typed |-> TRUE,
                                        name |-> "example", pattern |-> None,
                                        ports |-> <<443>>]>>])),
     With(Plain, "env", Overlaid([LEVEL |-> "info", WHERE |-> EnvPattern], "prd",
                                 [LEVEL |-> "warn"]))}

Stores ==
    {With(Plain, "databases", Postgres),
     With(With(Plain, "databases", Postgres), "secrets", Secrets(<<"JWT_KEY">>)),
     With(Plain, "caches", <<Store(None, Overlaid(Datastore("redis"), "dev", Datastore("none")))>>),
     With(Plain, "databases", <<Store(None, Section(Table("sqlite", [secret |-> "file"])))>>),
     With(Plain, "databases", <<Store(None, Section(Table("postgres",
              [tls |-> "verify-full", env |-> "TONIN_PG_URI"])))>>),
     With(Plain, "migrations", [removed |-> FALSE, mode |-> None, tool |-> "sqlx", dir |-> "db",
                                command |-> None, envs |-> "prd" :> "job"])}

Hygiene ==
    {With(Plain, "placement",
          Overlaid(Placement([disk |-> "ssd", zone |-> "a"], Toleration, None), "prd",
                   Placement([zone |-> "b"], None, Spot))),
     With(InPrd(Plain, [replicas |-> 3]), "pdb",
          Overlaid(Budget(None, Percent(50)), "prd", Budget(Pods(2), None))),
     With(InPrd(Plain, [replicas |-> 2]), "pdb",
          Overlaid(Budget(None, None), "dev", [Budget(None, None) EXCEPT !.enabled = FALSE])),
     With(Plain, "cronjobs", <<Cron("purge", None, [DRY |-> "1"]), Cron("report", {"prd"}, NoEntries)>>),
     With(Plain, "service_account",
          [automount_token |-> None, token |-> None,
           tokens |-> <<[audience |-> "vault", path |-> None, expiration_seconds |-> None],
                        [audience |-> "aws", path |-> [dir |-> "/aws", file |-> "token"],
                         expiration_seconds |-> 600]>>]),
     With(Plain, "ports", <<NamedPort("metrics", 9090, None), NamedPort("admin", 9091, "admin")>>),
     With(Plain, "autoscale", Overlaid(Range2(None, 4), "dev", Range2(None, 1)))}

\* What the plan refuses, in one environment or in all.
Mistakes ==
    {With(With(Plain, "env", Section([JWT_KEY |-> "x"])), "secrets", Secrets(<<"JWT_KEY">>)),
     With(With(Plain, "databases", Postgres), "secrets", Secrets(<<"DATABASE_URL">>)),
     With(With(Plain, "databases", Postgres), "env", Section([TONIN_PG_URI |-> "x"])),
     With(With(Plain, "secrets", Secrets(<<"JWT_KEY">>)), "cronjobs",
          <<Cron("purge", {"prd"}, [JWT_KEY |-> "x"])>>),
     InPrd(Plain, [strategy |-> Rolling(Pods(-1))]),
     With(Plain, "depends_on", [auth |-> Dependency(Unresolved)]),
     With(Plain, "callers", Overlaid(NoEntries, "prd", [auth |-> Caller(None, None, None)])),
     With(Plain, "egress", Overlaid(Plain.egress.base, "prd", [Plain.egress.base EXCEPT
              !.cidrs = <<[typed |-> TRUE, cidr |-> IllFormed, except |-> {}, ports |-> <<443>>]>>])),
     With(InPrd(Plain, [replicas |-> 2]), "pdb", Section(Budget(Pods(2), None))),
     With(Plain, "autoscale", Overlaid(Range2(3, 4), "prd", Range2(None, 2))),
     With(Plain, "autoscale", Overlaid(Range2(3, 4), "prd", NoAutoscaleFields)),
     With(Plain, "ports", <<NamedPort("metrics", 50051, None)>>),
     With(Plain, "volumes", <<Volume("data", "pvc", "/data")>>),
     With(Plain, "volumes", <<Volume("a", "empty-dir", "/a"), Volume("b", "empty-dir", "/a")>>),
     With(Plain, "resources", [Plain.resources EXCEPT !.memory = None])}

(* The document: one that has every key of the schema and overlays for dev,*)
(* or the same with one key misspelt.  What the sections of the record say *)
(* is not read from it.                                                    *)

MCNotEnvNames == {"TYPO"}

Schema == INSTANCE ManifestSchema WITH NotEnvNames <- MCNotEnvNames

Leaf == [is |-> "value"]
Subtable(keys) == [is |-> "table", keys |-> keys]

RECURSIVE Sample(_), SampleTable(_)
SampleTable(schema) ==
    Subtable([key \in DOMAIN schema.fields |-> Sample(schema.fields[key])]
             @@ (IF schema.overlay = <<>> THEN <<>>
                 ELSE "dev" :> SampleTable(schema.overlay[1])))
Sample(shape) ==
    CASE shape.shape = "value" -> Leaf
      [] shape.shape = "free" -> Subtable([any |-> Leaf])
      [] shape.shape = "table" -> SampleTable(shape.schema)
      [] shape.shape \in {"array", "flag or array"} ->
            [is |-> "array", items |-> <<SampleTable(shape.schema)>>]
      [] shape.shape = "callers" -> Subtable(
            [main |-> SampleTable(Schema!CALLER),
             dev |-> Subtable([other |-> SampleTable(Schema!CALLER)])])
      [] OTHER -> Subtable([main |-> SampleTable(shape.schema)])

\* The paths of the keys the schema knows: not those the user chooses.
Under(key, paths) == {<<key>> \o path : path \in paths}

RECURSIVE KeysOf(_), TableKeys(_)
TableKeys(schema) ==
    UNION {{<<key>>} \cup Under(key, KeysOf(schema.fields[key])) : key \in DOMAIN schema.fields}
        \cup (IF schema.overlay = <<>> THEN {}
              ELSE {<<"dev">>} \cup Under("dev", TableKeys(schema.overlay[1])))
KeysOf(shape) ==
    CASE shape.shape \in {"value", "free"} -> {}
      [] shape.shape = "callers" ->
            Under("main", TableKeys(Schema!CALLER)) \cup {<<"dev">>}
                \cup Under("dev", Under("other", TableKeys(Schema!CALLER)))
      [] shape.shape \in {"named", "named or value"} -> Under("main", TableKeys(shape.schema))
      [] OTHER -> TableKeys(shape.schema)

RECURSIVE Respell(_, _, _)
Respell(t, path, key) ==
    IF Len(path) = 1
    THEN (key :> t[path[1]]) @@ [k \in DOMAIN t \ {path[1]} |-> t[k]]
    ELSE LET item == t[path[1]]
             deeper(keys) == Respell(keys, Tail(path), key)
         IN  [t EXCEPT ![path[1]] =
                 IF item.is = "array"
                 THEN [item EXCEPT !.items = <<Subtable(deeper(@[1].keys))>>]
                 ELSE [item EXCEPT !.keys = deeper(@)]]

SampleDoc == SampleTable(Schema!TONIN_TOML).keys

\* "prod" could be an environment, TYPO could not.
Typos == {[at |-> path, key |-> key] : path \in TableKeys(Schema!TONIN_TOML), key \in {"prod"}}
             \cup {[at |-> <<"deploy", "dev">>, key |-> "TYPO"],
                   [at |-> <<"pdb", "min_available">>, key |-> "TYPO"]}

Documents == [typo \in Typos |-> Respell(SampleDoc, typo.at, typo.key)]

Document(m) == IF m.misspelt = None THEN SampleDoc ELSE Documents[m.misspelt]

MCKeepsSchema(m) == Schema!validate(Document(m))
MCOverlaysIn(m) == Schema!overlay_envs(Document(m))

---------------------------------------------------------------------------
\* What it is edited to: one more setting, which is invalid in prd.
WrongInPrd == With(Plain, "depends_on", [auth |-> [Dependency("apps") EXCEPT
                                                      !.overrides = "prd" :> Unresolved]])

Listed(set) == FoldSet(LAMBDA m, list : Append(list, m), <<>>, set)

Spelt == <<WrongInPrd>> \o Listed({Plain} \cup Kinds \cup Deploys \cup Networks \cup Stores
                                      \cup Hygiene \cup Mistakes)

ManifestTable == [id \in {<<"list", i>> : i \in DOMAIN Spelt} \cup {<<"typo", typo>> : typo \in Typos} |->
                   IF id[1] = "list" THEN Spelt[id[2]] ELSE With(Plain, "misspelt", id[2])]

\* What a .cfg substitutes is worked out at every use: what it refers to, once.
MCManifests == ManifestTable

MCDrafts == {<<"list", 1>>}

\* Budgets for services of three pods, with and without a range of replicas.
MCBudgets == Listed({With(With(Deploying(Plain, [replicas |-> 3]), "pdb", Section(budget)),
                   "autoscale", autoscale)
              : budget \in {Budget(Pods(2), None), Budget(None, Percent(50))},
                autoscale \in {None, Section(Range2(2, 4))}})

---------------------------------------------------------------------------
(* The workspace: two services that may call this one.                     *)

Named(name, m) == Serving(m, "name", name)

Auth == Named("auth", With(Plain, "depends_on", [api |-> Dependency("apps")]))

Billing == Named("billing", InPrd(With(Plain, "depends_on",
                     [api |-> [Dependency(EnvPattern) EXCEPT !.port = 8080],
                      auth |-> Dependency("apps")]), [mesh |-> "none"]))

MCNeighbours == {Auth, Billing}

\* A misspelt key is never quietly ignored: generate fails, or takes it for
\* the overlay of an environment and warns that it never applies.
TyposNoticed == outcome = "done" /\ Given(Toml.misspelt) => warned # {}
---------------------------------------------------------------------------
(* The commands of `service new`: every layout, language and option, the   *)
(* spellings of a name, repositories of templates that lack a directory,   *)
(* and what is refused.                                                    *)

MCKebabNames == {"send-mail"}
MCBadNames == {"Bad"}

Asked(flags) ==
    flags @@ [name |-> "plain", lang |-> "rust", type |-> Unset, web_mode |-> Unset,
              flat |-> FALSE, no_workspace |-> FALSE, template |-> Unset, jobs |-> <<>>,
              storage |-> Unset, clients |-> <<>>]

MCNames == {"plain", "digits", "doubled", "suffix"}
MCJobs == {<<>>, <<"purge", "send-mail">>, <<"purge", "purge">>}

CommandTable ==
    {Asked([name |-> name, clients |-> clients]) :
        name \in MCNames, clients \in {<<>>, <<"python">>, <<"ts", "rust", "ts">>, <<"python", "ts">>}}
    \cup {Asked([flat |-> TRUE, name |-> name, clients |-> <<"rust", "python">>]) : name \in MCNames}
    \cup {Asked([flat |-> TRUE, storage |-> kind, jobs |-> jobs, clients |-> <<"ts">>]) :
            kind \in {"s3", "gcs", "azure", "local"}, jobs \in MCJobs}
    \cup {Asked([lang |-> "python", name |-> name, storage |-> kind, jobs |-> jobs,
                 clients |-> <<"rust", "python">>]) :
            name \in {"plain", "doubled"}, kind \in {"s3", Unset}, jobs \in MCJobs}
    \cup {Asked([lang |-> "ts", type |-> type, web_mode |-> mode, clients |-> <<"ts", "python">>]) :
            type \in {Unset, "backend", "web"}, mode \in {Unset, "spa", "bff"}}
    \cup {Asked([flat |-> flat, template |-> {lacking}, clients |-> <<"python">>]) :
            flat \in BOOLEAN, lacking \in {"none", "_shared", "variants/flat", "variants/default",
                                           "rust", "python/client-python"}}
    \cup {Asked([lang |-> "python", type |-> "web"]), Asked([name |-> "Bad"]),
          Asked([flat |-> TRUE, jobs |-> <<"Bad">>]),
          Asked([flat |-> TRUE, no_workspace |-> TRUE])}

MCCommands == CommandTable

---------------------------------------------------------------------------
\* A workspace around it matters to the scaffold alone.
MCInit ==
    /\ ChartInit /\ ScaffoldInit
    /\ enclosing.workspace = "none" \/ manifest \in Drafts

ScaffoldRests == command = Unset /\ enclosing.workspace = "none"

ChartRests == ChartInit /\ manifest \in Drafts

MCNext ==
    \/ ScaffoldRests /\ ChartNext /\ UNCHANGED scaffoldVars
    \/ ChartRests /\ ScaffoldNext /\ UNCHANGED chartVars

MCSpec == MCInit /\ [][MCNext]_<<chartVars, scaffoldVars>>
===========================================================================
