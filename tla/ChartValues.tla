---------------------------- MODULE ChartValues ----------------------------
(***************************************************************************)
(* The values files of a service's Helm chart, and what its templates      *)
(* make of them (tonin/src/commands/helm/generate.rs, pod_values.rs and    *)
(* tonin/templates/helm).                                                  *)
(*                                                                         *)
(* A values file is [leaf |-> f, map |-> g]: f gives the keys that are     *)
(* replaced as a whole, lists included, under a name for their path, and g *)
(* the keys Helm merges key by key.  A key a file does not set is not in   *)
(* the domain.                                                             *)
(***************************************************************************)
EXTENDS ManifestPlan

\* The keys a serializer writes: those that are there.
Present(table) == [key \in {k \in DOMAIN table : Given(table[k])} |-> table[key]]

---------------------------------------------------------------------------
(* The keys of values-<env>.yaml, from the plan of the environment.        *)

HasAutoscale(p) == p.workload.autoscale # None

\* A caller that is a service carries its namespace, one that is pods may
\* do without; no ports stand for the default set.
CallerValues(c) ==
    IF c.source.pods
    THEN [name |-> c.name, namespace |-> c.source.namespace,
          labels |-> c.source.labels, ports |-> c.ports]
    ELSE [name |-> c.source.name, namespace |-> c.source.namespace,
          labels |-> {}, ports |-> c.ports]

for_plan(p) == [enabled |-> p.mesh = "cilium", port |-> p.port, mcp |-> p.mcp_mode # "none",
                callers |-> {CallerValues(c) : c \in p.callers},
                depends_on |-> p.depends_on, egress |-> p.egress]

pod_block(pod) ==
    [leaf |-> [imagePullSecrets |-> pod.image_pull_secrets,
               tolerations |-> pod.placement.tolerations,
               topologySpreadConstraints |-> pod.placement.topology_spread,
               pdbEnabled |-> pod.pdb # None,
               cronjobs |-> pod.cronjobs],
     map  |-> [nodeSelector |-> pod.placement.node_selector,
               podDisruptionBudget |-> IF pod.pdb = None THEN NoEntries ELSE Present(pod.pdb)]]

strategy_block(w) == IF w.strategy = None THEN NoEntries ELSE Present(w.strategy)

build_context(p) ==
    LET pod == pod_block(p.pod)
    IN  [leaf |-> Laid(pod.leaf,
             [replicaCount |-> p.replicas,
              terminationGracePeriodSeconds |-> Or(p.workload.grace_period, 0),
              imageTag |-> "<version>",
              autoscalingEnabled |-> HasAutoscale(p),
              minReplicas |-> IF HasAutoscale(p) THEN p.workload.autoscale.min_replicas
                              ELSE p.replicas,
              maxReplicas |-> IF HasAutoscale(p) THEN p.workload.autoscale.max_replicas
                              ELSE p.replicas,
              mesh |-> p.mesh,
              mcpEnabled |-> p.mcp_mode # "none", mcpMode |-> p.mcp_mode,
              outboundProxyEnabled |-> p.needs_outbound_proxy,
              ingressEnabled |-> Given(p.expose), ingressHost |-> Or(p.expose, ""),
              datastores |-> p.datastores,
              secretsCreate |-> p.secrets = None \/ p.secrets.create,
              secretKeys |-> IF p.secrets = None THEN <<>> ELSE p.secrets.required,
              migrationsMode |-> IF p.migrations = None THEN "none" ELSE p.migrations.mode,
              networkPolicy |-> for_plan(p)]),
         map  |-> Laid(pod.map, [strategy |-> strategy_block(p.workload), env |-> p.env_vars])]

---------------------------------------------------------------------------
(* values.yaml, from the base plan: the keys only it has, and a neutral    *)
(* value for each key of an environment.                                   *)

\* A StatefulSet gives each of its other Services a name of its own.
extra_services(w) == {port.service : port \in w.ports} \ {""}

workload_context(w) ==
    [kind |-> w.kind, podManagementPolicy |-> Or(w.pod_management_policy, ""),
     command |-> w.command, args |-> w.args,
     livenessPath |-> w.probes.liveness_path, readinessPath |-> w.probes.readiness_path,
     startup |-> w.probes.startup, volumes |-> w.volumes, extraPorts |-> w.ports,
     extraServices |-> extra_services(w)]

\* tokenVolumes, automountToken and the security contexts are there too.
ServiceValues(p) ==
    [leaf |-> Laid(workload_context(p.workload),
             [imageRepository |-> p.image_registry, port |-> p.port,
              portName |-> IF p.kind = "backend" THEN "grpc" ELSE "http",
              httpPort |-> Or(p.http_port, 0), health |-> p.health,
              security |-> p.security,
              rustService |-> p.is_rust,
              serviceAccount |-> [automountToken |-> p.pod.service_account.automount_token,
                                  tokenVolumes |-> token_volumes(p.pod.service_account)],
              migrationsCommand |-> IF p.migrations = None THEN "" ELSE p.migrations.command]),
     map  |-> [requests |-> Present(p.workload.resources.requests),
               limits   |-> Present(p.workload.resources.limits)]]

Neutral(p) ==
    [leaf |-> [replicaCount |-> 1, terminationGracePeriodSeconds |-> 0,
               imageTag |-> "<version>", autoscalingEnabled |-> FALSE,
               minReplicas |-> 1, maxReplicas |-> 1, mesh |-> "none",
               mcpEnabled |-> FALSE, mcpMode |-> "none", outboundProxyEnabled |-> FALSE,
               ingressEnabled |-> FALSE, ingressHost |-> "", datastores |-> <<>>,
               secretsCreate |-> TRUE, secretKeys |-> <<>>, migrationsMode |-> "none",
               networkPolicy |-> [enabled |-> FALSE, port |-> p.port, mcp |-> FALSE,
                                  callers |-> {}, depends_on |-> {}, egress |-> EmptyEgress],
               imagePullSecrets |-> {}, tolerations |-> {}, topologySpreadConstraints |-> {},
               pdbEnabled |-> FALSE, cronjobs |-> {}],
     map  |-> [strategy |-> NoEntries, env |-> NoEntries, nodeSelector |-> NoEntries,
               podDisruptionBudget |-> NoEntries]]

base_context(p) == [leaf |-> Laid(Neutral(p).leaf, ServiceValues(p).leaf),
                    map  |-> Laid(Neutral(p).map, ServiceValues(p).map)]

---------------------------------------------------------------------------
(* What Helm makes of the two files: -f values.yaml -f values-<env>.yaml.  *)

Entry(table, key) == IF key \in DOMAIN table THEN table[key] ELSE NoEntries

DeepMerge(base, over) ==
    [leaf |-> Laid(over.leaf, base.leaf),
     map  |-> [key \in DOMAIN base.map \cup DOMAIN over.map |->
                  Laid(Entry(over.map, key), Entry(base.map, key))]]

\* What the plan of an environment asks for, were it one file.
PlanValues(p) == [leaf |-> Laid(build_context(p).leaf, ServiceValues(p).leaf),
                  map  |-> Laid(build_context(p).map, ServiceValues(p).map)]

---------------------------------------------------------------------------
(* The templates that decide something.                                    *)

minReplicas(values) == IF values.leaf.autoscalingEnabled THEN values.leaf.minReplicas
                       ELSE values.leaf.replicaCount

\* hpa.yaml: a StatefulSet keeps a fixed replica count.
hpa(values) == values.leaf.autoscalingEnabled /\ values.leaf.kind = "deployment"

\* pdb.yaml: None where nothing is rendered.
pdb(values) ==
    LET budget == values.map.podDisruptionBudget
    IN  IF ~values.leaf.pdbEnabled \/ minReplicas(values) <= 1 THEN None
        ELSE [min_available |-> IF "min_available" \in DOMAIN budget
                                THEN budget.min_available ELSE None,
              max_unavailable |-> IF "max_unavailable" \in DOMAIN budget
                                  THEN budget.max_unavailable
                                  ELSE [percent |-> FALSE, n |-> 1]]

\* What a datastore gives: the variable read from a Secret, then the value.
datastoreEnv(entry) ==
    (IF entry.secret.env = None THEN <<>> ELSE <<entry.secret.env>>)
        \o (IF Given(entry.value.refers_to) \/ Given(entry.value.url) THEN <<entry.env>> ELSE <<>>)

\* The env of the server container after what the template itself sets: the
\* keys of the Secret, what each datastore gives, then the map `env'.
SecretsFirst(values) ==
    LET stores == values.leaf.datastores
    IN  Concatenated(values.leaf.secretKeys, [i \in DOMAIN stores |-> datastoreEnv(stores[i])])

\* networkpolicy.yaml: who may reach the pod, and whom it may reach.
PolicyRendered(values) == values.leaf.networkPolicy.enabled /\ values.leaf.mesh = "cilium"

IngressPorts(values, caller) ==
    IF caller.ports # <<>> THEN Range(caller.ports)
    ELSE {values.leaf.networkPolicy.port} \cup ({values.leaf.httpPort} \ {0})
            \cup (IF values.leaf.networkPolicy.mcp THEN {MCP_PORT} ELSE {})

\* A service is known by its name and its namespace.
AdmitsService(values, name, namespace, port) ==
    PolicyRendered(values) =>
        \E c \in values.leaf.networkPolicy.callers :
            c.labels = {} /\ c.name = name /\ c.namespace = namespace
                /\ port \in IngressPorts(values, c)

LetsReach(values, name, namespace, port) ==
    PolicyRendered(values) =>
        \E d \in values.leaf.networkPolicy.depends_on :
            d.name = name /\ d.namespace = namespace /\ port \in Range(d.ports)
===========================================================================
