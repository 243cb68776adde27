------------------------- MODULE ManifestWorkload -------------------------
(***************************************************************************)
(* The shape of the workload: kind, update strategy, volumes, ports,      *)
(* probes, resources and autoscaling, resolved for one environment         *)
(* (tonin-plugin/src/workload.rs, and resolve_workload of plan.rs).        *)
(*                                                                         *)
(* A quantity, a name or a path is well formed or is IllFormed.  A number  *)
(* of pods that may also be a percentage is [percent |-> b, n |-> k]; a    *)
(* negative k stands for whatever is neither.                              *)
(***************************************************************************)
EXTENDS ManifestNetwork

\* The overlay of one environment, or None: sections here have at most one.
Overlay(section, env) == IF env \in DOMAIN section.envs THEN section.envs[env] ELSE None

\* Field-wise merge of two tables with the same keys.
Merge(base, overlay) ==
    IF overlay = None THEN base ELSE [key \in DOMAIN base |-> Or(overlay[key], base[key])]

---------------------------------------------------------------------------
(* What the sections of a manifest may hold.                               *)

RawCount == [percent : BOOLEAN, n : Int]

RawStrategy == [type : Maybe(STRING), partition : Maybe(Nat),
                max_surge : Maybe(RawCount), max_unavailable : Maybe(RawCount)]

RawVolume == [name : STRING, type : STRING, mount_path : [path : STRING, slash : BOOLEAN],
              read_only : Maybe(BOOLEAN), size_limit : Maybe(STRING), medium : Maybe(STRING),
              size : Maybe(STRING), storage_class : Maybe(STRING),
              access_modes : Maybe(SUBSET STRING)]

RawPort == [name : STRING, port : Nat, protocol : Maybe(STRING), service : Maybe(STRING)]

RawStartupProbe == [path : Maybe(STRING), period_seconds : Maybe(Nat),
                    failure_threshold : Maybe(Nat)]

RawResources ==
    LET RawResourceList == [{"cpu", "memory", "ephemeral_storage"} -> Maybe(STRING)]
    IN  [cpu : Maybe(STRING), memory : Maybe(STRING),
         requests : Maybe(RawResourceList), limits : Maybe(RawResourceList)]

RawAutoscale(raw) == Sectioned(raw, [enabled : Maybe(BOOLEAN), min_replicas : Maybe(Nat),
                                     max_replicas : Maybe(Nat)])

---------------------------------------------------------------------------
(* [deploy] kind, pod_management_policy, strategy, grace period            *)

WorkloadKinds == {"deployment", "statefulset"}

parse_kind(raw) == Or(raw, "deployment")

PodManagementPolicyValid(kind, raw) ==
    Given(raw) => kind = "statefulset" /\ raw \in {"OrderedReady", "Parallel"}

NoStrategy == [type |-> None, partition |-> None, max_surge |-> None, max_unavailable |-> None]

MergedStrategy(base, overlay) == Merge(IF base = None THEN NoStrategy ELSE base, overlay)

IntOrPercent(v) == v.n >= 0

StrategyType(s) == Or(s.type, "RollingUpdate")

StrategyValid(kind, base, overlay) ==
    (base # None \/ overlay # None) =>
        LET s == MergedStrategy(base, overlay)
            rolling == StrategyType(s) = "RollingUpdate"
        IN  \/ /\ kind = "deployment"
               /\ StrategyType(s) \in {"RollingUpdate", "Recreate"}
               /\ ~Given(s.partition)
               /\ \A v \in {s.max_surge, s.max_unavailable} \ {None} : rolling /\ IntOrPercent(v)
            \/ /\ kind = "statefulset"
               /\ StrategyType(s) \in {"RollingUpdate", "OnDelete"}
               /\ ~Given(s.max_surge) /\ ~Given(s.max_unavailable)
               /\ Given(s.partition) => rolling

resolve_strategy(base, overlay) ==
    IF base = None /\ overlay = None THEN None
    ELSE LET s == MergedStrategy(base, overlay)
         IN  [type |-> StrategyType(s), partition |-> s.partition,
              max_surge |-> s.max_surge, max_unavailable |-> s.max_unavailable]

resolve_grace_period(deploy, overlay) ==
    Or(IF overlay = None THEN None ELSE overlay.grace_period, deploy.grace_period)

---------------------------------------------------------------------------
(* [[volumes]]                                                             *)

\* The names tonin keeps for itself: those that begin with pg-ca.
ReservedVolumes == {"pg-ca"}

AccessModes == {"ReadWriteOnce", "ReadOnlyMany", "ReadWriteMany", "ReadWriteOncePod"}

\* A mount path loses its trailing slashes: two volumes of one path differ
\* in nothing but their slash.
MountPath(v) == v.mount_path.path

VolumeSourceValid(kind, v) ==
    \/ /\ v.type = "empty-dir"
       /\ ~Given(v.size) /\ ~Given(v.storage_class) /\ ~Given(v.access_modes)
       /\ v.medium \in {None, "", "Memory"}
       /\ v.size_limit # IllFormed
    \/ /\ v.type = "pvc"
       /\ kind = "statefulset"
       /\ ~Given(v.size_limit) /\ ~Given(v.medium)
       /\ Given(v.size) /\ v.size # IllFormed
       /\ Given(v.access_modes) => v.access_modes # {} /\ v.access_modes \subseteq AccessModes

VolumesValid(kind, raw) ==
    /\ \A i \in DOMAIN raw : /\ raw[i].name \notin ReservedVolumes \cup {IllFormed}
                             /\ MountPath(raw[i]) # IllFormed
                             /\ VolumeSourceValid(kind, raw[i])
    /\ \A i, j \in DOMAIN raw : i # j => /\ raw[i].name # raw[j].name
                                         /\ MountPath(raw[i]) # MountPath(raw[j])

VolumeSource(v) ==
    IF v.type = "pvc"
    THEN [pvc |-> TRUE, size |-> v.size, storage_class |-> v.storage_class,
          access_modes |-> Or(v.access_modes, {"ReadWriteOnce"})]
    ELSE [pvc |-> FALSE, size_limit |-> v.size_limit,
          medium |-> IF v.medium = "" THEN None ELSE v.medium]

\* The code sorts them by mount path; here they are a set.
resolve_volumes(raw) ==
    {[name |-> v.name, mount_path |-> MountPath(v), read_only |-> Or(v.read_only, FALSE),
      source |-> VolumeSource(v)] : v \in Range(raw)}

---------------------------------------------------------------------------
(* [[ports]]                                                               *)

MCP_PORT == 50052
PROXY_PORT == 6565

ReservedPortNames == {"grpc", "http", "mcp", "proxy"}

\* cx says what the rest of the manifest has made of the pod.
ReservedPorts(cx) == {cx.port} \cup ({cx.http_port} \ {None})
                        \cup (IF cx.mcp # "none" THEN {MCP_PORT} ELSE {})
                        \cup (IF cx.proxy THEN {PROXY_PORT} ELSE {})

Protocol(p) == Or(p.protocol, "TCP")

PortsValid(raw, cx) ==
    /\ \A i \in DOMAIN raw : LET p == raw[i] IN
          /\ p.name \notin ReservedPortNames \cup {IllFormed}
          /\ p.port \in PortNumbers \ ReservedPorts(cx)
          /\ Protocol(p) \in {"TCP", "UDP", "SCTP"}
          /\ p.service \notin {"headless", IllFormed}
    /\ \A i, j \in DOMAIN raw : i # j =>
          /\ raw[i].name # raw[j].name
          /\ <<raw[i].port, Protocol(raw[i])>> # <<raw[j].port, Protocol(raw[j])>>

\* A port of its own Service carries the suffix of the Service's name.
resolve_ports(raw) == {[name |-> p.name, port |-> p.port, protocol |-> Protocol(p),
                        service |-> Or(p.service, "")] : p \in Range(raw)}

---------------------------------------------------------------------------
(* [resources]                                                             *)

Shorthanded(r) == Given(r.cpu) \/ Given(r.memory)

ResourcesValid(r) ==
    IF Shorthanded(r)
    THEN /\ r.requests = None /\ r.limits = None
         /\ {r.cpu, r.memory} \cap {None, IllFormed} = {}
    ELSE /\ r.requests # None
         /\ {r.requests.cpu, r.requests.memory} \cap {None, IllFormed} = {}
         /\ r.requests.ephemeral_storage # IllFormed
         /\ r.limits # None => IllFormed \notin Range(r.limits)

NoLimits == [cpu |-> None, memory |-> None, ephemeral_storage |-> None]

resolve_resources(r) ==
    LET both == [cpu |-> r.cpu, memory |-> r.memory, ephemeral_storage |-> None]
    IN  IF Shorthanded(r) THEN [requests |-> both, limits |-> both]
        ELSE [requests |-> r.requests, limits |-> IF r.limits = None THEN NoLimits ELSE r.limits]

---------------------------------------------------------------------------
(* [autoscale]                                                             *)

NoAutoscaleFields == [enabled |-> None, min_replicas |-> None, max_replicas |-> None]

AutoscaleFields(raw, env) == Merge(raw.base, Overlay(raw, env))

AutoscaleEnabled(raw, env) == raw # None /\ Or(AutoscaleFields(raw, env).enabled, TRUE)

\* Without a minimum of its own the range begins at the replicas of [deploy].
MinReplicas(raw, replicas, env) == Or(AutoscaleFields(raw, env).min_replicas, replicas)

AutoscaleValid(raw, kind, replicas, env) ==
    /\ raw # None => \A e \in DOMAIN raw.envs : raw.envs[e] # NoAutoscaleFields
    /\ AutoscaleEnabled(raw, env) =>
          LET max == AutoscaleFields(raw, env).max_replicas
              min == MinReplicas(raw, replicas, env)
          IN  kind = "deployment" /\ Given(max) /\ min \in 1 .. max

\* A range of one replica count is no autoscaling.
resolve_autoscale(raw, replicas, env) ==
    IF /\ AutoscaleEnabled(raw, env)
       /\ MinReplicas(raw, replicas, env) # AutoscaleFields(raw, env).max_replicas
    THEN [min_replicas |-> MinReplicas(raw, replicas, env),
          max_replicas |-> AutoscaleFields(raw, env).max_replicas]
    ELSE None

---------------------------------------------------------------------------
(* The probes, from [service.health] and the probe the plan has chosen.    *)

IsPath(path) == path # IllFormed

NoProbes == [liveness_path |-> "", readiness_path |-> "", startup |-> None]

resolve_probes(declared, health) ==
    LET http(path, default) == IF health.grpc THEN "" ELSE Or(path, default)
        liveness == http(declared.liveness_path, health.path)
    IN  IF health = None THEN NoProbes
        ELSE [liveness_path  |-> liveness,
              readiness_path |-> http(declared.readiness_path, health.path),
              startup |-> IF declared.startup = None THEN None
                          ELSE [path |-> http(declared.startup.path, liveness),
                                period_seconds |-> Or(declared.startup.period_seconds, 10),
                                failure_threshold |-> Or(declared.startup.failure_threshold, 30)]]

ProbesValid(declared, health) ==
    health # None =>
        LET probes == resolve_probes(declared, health) IN
        /\ health.grpc => /\ ~Given(declared.liveness_path) /\ ~Given(declared.readiness_path)
                          /\ declared.startup # None => ~Given(declared.startup.path)
        /\ IsPath(probes.liveness_path) /\ IsPath(probes.readiness_path)
        /\ declared.startup # None => /\ health.grpc \/ probes.startup.path \notin {IllFormed, ""}
                                      /\ probes.startup.period_seconds # 0
                                      /\ probes.startup.failure_threshold # 0

---------------------------------------------------------------------------
WorkloadValid(m, overlay, cx) ==
    LET kind == parse_kind(m.deploy.base.kind)
        strategy == IF overlay = None THEN None ELSE overlay.strategy
    IN  /\ kind \in WorkloadKinds
        /\ PodManagementPolicyValid(kind, m.deploy.base.pod_management_policy)
        /\ StrategyValid(kind, m.deploy.base.strategy, strategy)
        /\ resolve_grace_period(m.deploy.base, overlay) # 0
        /\ PortsValid(m.ports, cx)
        /\ VolumesValid(kind, m.volumes)
        /\ ResourcesValid(m.resources)
        /\ AutoscaleValid(cx.autoscale, kind, cx.replicas, cx.env)
        /\ ProbesValid(m.service.health, cx.health)

resolve_workload(m, overlay, cx) ==
    [kind |-> parse_kind(m.deploy.base.kind),
     pod_management_policy |-> m.deploy.base.pod_management_policy,
     strategy |-> resolve_strategy(m.deploy.base.strategy,
                                   IF overlay = None THEN None ELSE overlay.strategy),
     grace_period |-> resolve_grace_period(m.deploy.base, overlay),
     volumes |-> resolve_volumes(m.volumes),
     ports |-> resolve_ports(m.ports),
     probes |-> resolve_probes(m.service.health, cx.health),
     resources |-> resolve_resources(m.resources),
     command |-> Or(m.service.command, IF cx.is_rust THEN "/usr/local/bin/<service>" ELSE ""),
     args |-> Or(m.service.args, ""),
     autoscale |-> resolve_autoscale(cx.autoscale, cx.replicas, cx.env)]
===========================================================================
