---------------------------- MODULE ChartFiles ----------------------------
(***************************************************************************)
(* The chart directory of a service: `tonin helm generate' writes it from  *)
(* tonin.toml, `tonin helm check' compares it with what generate would     *)
(* write (tonin/src/commands/helm/generate.rs and check.rs).  The manifest *)
(* is edited between the runs, files of the chart are edited by hand, a    *)
(* run may be killed at any step, and the directory may come from an       *)
(* earlier version of tonin.                                               *)
(*                                                                         *)
(* A run is the list of the steps it has left: every plan is loaded before *)
(* the first file is written.                                              *)
(***************************************************************************)
EXTENDS ChartValues, FiniteSets

CONSTANTS Manifests,      \* what tonin.toml may say: a manifest for each of some names
          KeepsSchema(_), \* whether a manifest keeps to the schema,
          OverlaysIn(_),  \* and the overlays its document has
          Drafts,         \* the names of those it may be edited to
          Requests,       \* the lists of environments generate is run for
          StaticFiles,    \* the templates copied as they are, in their order
          OBSOLETE_FILES, \* files earlier versions wrote
          UserFiles,      \* files of the chart tonin knows nothing of
          Neighbours      \* the manifests of the workspace's other services

\* What does not deserialize never gets as far as a plan.
ASSUME ManifestsAssumption == \A id \in DOMAIN Manifests : RawConfig(Manifests[id])

ASSUME RequestsAssumption ==
    /\ None \notin {"running", "done", "invalid", "killed"} \cup Environments
    /\ Drafts \subseteq DOMAIN Manifests
    /\ Requests \subseteq Seq(Environments) /\ StaticFiles \in Seq(STRING)

VARIABLES manifest,  \* the name of what tonin.toml says
          chart,     \* what the chart directory holds: file |-> content
          envs,      \* the environments of the run, or of the last one
          todo,      \* its steps still to come
          outcome,   \* how the last run of generate ended
          report,    \* what the last check found; None if it has not run since
          warned,    \* the overlays it has warned about
          before     \* the directory as the run found it

chartVars == <<manifest, chart, envs, todo, outcome, report, warned, before>>

Toml == Manifests[manifest]

\* The plans and whether they load, worked out once.
Scopes == Environments \cup {None}

\* Plan::load_base and load_with_env: the schema is checked first.
Loads == [m \in DOMAIN Manifests |-> [scope \in Scopes |->
             KeepsSchema(Manifests[m]) /\ PlanValid(Manifests[m], scope)]]

PlanOf == [m \in DOMAIN Manifests |-> [scope \in Scopes |->
              IF Loads[m][scope] THEN PlanFor(Manifests[m], scope) ELSE None]]

---------------------------------------------------------------------------
(* The files and their contents.                                           *)

ValuesFile(env) == "values-" \o env

\* No two files have one name, and none that is generated is on the list of
\* the obsolete ones: a test of generate.rs sees to that.
ASSUME FilesAssumption ==
    LET own == {"Chart.yaml", "values.yaml"}
        values == {ValuesFile(env) : env \in Environments}
    IN  /\ \A d, e \in Environments : ValuesFile(d) = ValuesFile(e) => d = e
        /\ own \cap values = {}
        /\ Range(StaticFiles) \cap (own \cup values) = {}
        /\ OBSOLETE_FILES \cap (own \cup values \cup Range(StaticFiles)) = {}

EarlierVersion == [version |-> "earlier"]
ByHand == [version |-> "edited by hand"]

(* Mutant: values.yaml is made of the plan of the first environment. *)
MutantRender(m, file) ==
    CASE file = "Chart.yaml"     -> [name |-> Manifests[m].service.name]
      [] file = "values.yaml"    -> PlanValues(PlanOf[m]["dev"])
      [] file \in Range(StaticFiles) -> [version |-> "this"]
      [] OTHER -> LET env == CHOOSE e \in Environments : ValuesFile(e) = file
                  IN  build_context(PlanOf[m][env])

render_tmpl(m, file) ==
    CASE file = "Chart.yaml"     -> [name |-> Manifests[m].service.name]
      [] file = "values.yaml"    -> base_context(PlanOf[m][None])
      [] file \in Range(StaticFiles) -> [version |-> "this"]
      [] OTHER -> LET env == CHOOSE e \in Environments : ValuesFile(e) = file
                  IN  build_context(PlanOf[m][env])

Load(scope) == [do |-> "load", scope |-> scope]
Write(file) == [do |-> "write", file |-> file]

RenderSteps(es) == <<Write("Chart.yaml"), Write("values.yaml")>>
                   \o [i \in DOMAIN es |-> Write(ValuesFile(es[i]))]

(* Mutant: the plan of an environment is loaded when its file is due. *)
MutantSteps(es) ==
    <<Load(None), Write("Chart.yaml"), Write("values.yaml")>>
    \o [i \in 1 .. 2 * Len(es) |-> IF i % 2 = 1 THEN Load(es[(i + 1) \div 2])
                                   ELSE Write(ValuesFile(es[i \div 2]))]

\* The steps of a run before it cleans up.
Steps(es) == <<Load(None)>> \o [i \in DOMAIN es |-> Load(es[i])]
             \o <<[do |-> "warn"]>> \o RenderSteps(es)
             \o [i \in DOMAIN StaticFiles |-> Write(StaticFiles[i])]

AllSteps(es) == Append(Steps(es), [do |-> "clean"])

GeneratedFiles(es) == {"Chart.yaml", "values.yaml"} \cup {ValuesFile(e) : e \in Range(es)}
                      \cup Range(StaticFiles)

obsolete_present(files) == {f \in OBSOLETE_FILES : f \in DOMAIN files}

Without(files, gone) == [f \in DOMAIN files \ gone |-> files[f]]

---------------------------------------------------------------------------
Idle == todo = <<>>

ChartInit ==
    /\ manifest \in DOMAIN Manifests
    /\ chart = [f \in Range(StaticFiles) \cup OBSOLETE_FILES \cup UserFiles |-> EarlierVersion]
    /\ envs = <<>> /\ todo = <<>>
    /\ outcome = None /\ report = None /\ warned = {} /\ before = chart

\* generate: a step at a time.
Start(es) == /\ Idle
             /\ envs' = es
             /\ todo' = AllSteps(es)
             /\ before' = chart
             /\ outcome' = "running"
             /\ report' = None
             /\ warned' = {}
             /\ UNCHANGED <<manifest, chart>>

Done(how) == /\ todo' = <<>>
             /\ outcome' = how

\* A plan that does not load ends the run.
LoadPlan == /\ ~Idle /\ Head(todo).do = "load"
            /\ IF Loads[manifest][Head(todo).scope]
               THEN todo' = Tail(todo) /\ UNCHANGED outcome
               ELSE Done("invalid")
            /\ UNCHANGED <<manifest, chart, envs, report, warned, before>>

\* unrendered_overlays: those that name an environment not asked for.
Warn == /\ ~Idle /\ Head(todo).do = "warn"
        /\ warned' = {o \in OverlaysIn(Toml) : o.env \notin Range(envs)}
        /\ todo' = Tail(todo)
        /\ UNCHANGED <<manifest, chart, envs, outcome, report, before>>

\* render_tmpl and copy_static_templates: a temporary file, renamed.
WriteFile == /\ ~Idle /\ Head(todo).do = "write"
             /\ LET file == Head(todo).file
                IN  chart' = Laid([f \in {file} |-> render_tmpl(manifest, file)], chart)
             /\ todo' = Tail(todo)
             /\ UNCHANGED <<manifest, envs, outcome, report, warned, before>>

\* remove_obsolete: one file after the other, then the run is over.
remove_obsolete == /\ ~Idle /\ Head(todo).do = "clean"
                   /\ \/ \E f \in obsolete_present(chart) :
                            /\ chart' = Without(chart, {f})
                            /\ UNCHANGED <<todo, outcome>>
                      \/ /\ obsolete_present(chart) = {}
                         /\ Done("done")
                         /\ UNCHANGED chart
                   /\ UNCHANGED <<manifest, envs, report, warned, before>>

\* The process dies, or a file cannot be written.
Killed == /\ ~Idle
          /\ Done("killed")
          /\ UNCHANGED <<manifest, chart, envs, report, warned, before>>

(* Mutant: only what generate writes is looked at. *)
MutantDrift(m, files, es) ==
    {f \in GeneratedFiles(es) : f \notin DOMAIN files \/ files[f] # render_tmpl(m, f)}

\* check: what generate would change, or None where a plan does not load.
collect_drift(m, files, es) ==
    {f \in GeneratedFiles(es) : f \notin DOMAIN files \/ files[f] # render_tmpl(m, f)}
        \cup obsolete_present(files)

Check(es) == /\ Idle
             /\ \A scope \in {None} \cup Range(es) : Loads[manifest][scope]
             /\ envs' = es
             /\ report' = collect_drift(manifest, chart, es)
             /\ outcome' = None
             /\ UNCHANGED <<manifest, chart, todo, warned, before>>

\* What people do between the runs.
Edit(m) == /\ Idle /\ m # manifest
           /\ manifest' = m
           /\ outcome' = None /\ report' = None
           /\ UNCHANGED <<chart, envs, todo, warned, before>>

EditByHand(file) == /\ Idle /\ file \in DOMAIN chart /\ chart[file] # ByHand
                    /\ chart' = [chart EXCEPT ![file] = ByHand]
                    /\ outcome' = None /\ report' = None
                    /\ UNCHANGED <<manifest, envs, todo, warned, before>>

ChartNext ==
    \/ \E es \in Requests : Start(es) \/ Check(es)
    \/ LoadPlan \/ Warn \/ WriteFile \/ remove_obsolete \/ Killed
    \/ \E m \in Drafts : Edit(m)
    \/ EditByHand("values.yaml")

ChartSpec == ChartInit /\ [][ChartNext]_chartVars

---------------------------------------------------------------------------
(* Properties.                                                             *)

\* "Every env is loaded before anything is written: an invalid env leaves
\* the chart as it was" (generate.rs), whatever was loaded before it.
InvalidLeavesChart == outcome = "invalid" => chart = before

\* When generate has ended, Helm makes of values.yaml and the environment's
\* file what the plan of that environment asks for, key by key: nothing of
\* an earlier run, of another environment or of a base table shines through
\* the merge; what is not tonin's is as it was.
ChartSaysPlan ==
    outcome = "done" =>
        /\ \A env \in Range(envs) :
              DeepMerge(chart["values.yaml"], chart[ValuesFile(env)])
                  = PlanValues(PlanOf[manifest][env])
        /\ Without(chart, GeneratedFiles(envs))
              = Without(before, GeneratedFiles(envs) \cup OBSOLETE_FILES)

\* The chart after one more run of generate that is not disturbed.
Regenerated == Laid([f \in GeneratedFiles(envs) |-> render_tmpl(manifest, f)],
                    Without(chart, OBSOLETE_FILES))

\* check finds nothing exactly where generate would change nothing, after
\* runs that were killed, edits by hand and earlier versions of tonin.
CheckTellsTruth == Given(report) => (report = {} <=> Regenerated = chart)

---------------------------------------------------------------------------
(* The invariant the proofs go by: how far a run has come in its list, and *)
(* what the steps it has taken have left behind.                           *)

IsTable(f) == f = [x \in DOMAIN f |-> f[x]]

\* Nothing has been taken back of the first n steps.
Stands(n) == \A i \in 1 .. n : LET step == AllSteps(envs)[i] IN
    /\ step.do = "load" => Loads[manifest][step.scope]
    /\ step.do = "write" => /\ step.file \in DOMAIN chart
                            /\ chart[step.file] = render_tmpl(manifest, step.file)

\* Files that are not tonin's are as the run found them.
OthersKept ==
    \A f \in (DOMAIN chart \cup DOMAIN before) \ (GeneratedFiles(envs) \cup OBSOLETE_FILES) :
        f \in DOMAIN chart /\ f \in DOMAIN before /\ chart[f] = before[f]

RunIInv ==
    /\ outcome = "running" =>
          /\ OthersKept
          /\ \E n \in 0 .. Len(AllSteps(envs)) - 1 :
                /\ todo = SubSeq(AllSteps(envs), n + 1, Len(AllSteps(envs)))
                /\ Stands(n)
                /\ n <= Len(envs) + 1 => chart = before
    /\ outcome = "done" => /\ OthersKept /\ Stands(Len(AllSteps(envs)))
                           /\ obsolete_present(chart) = {}
    /\ outcome = "invalid" => chart = before

ChartIInv ==
    /\ manifest \in DOMAIN Manifests /\ envs \in Seq(Environments)
    /\ IsTable(chart) /\ IsTable(before)
    /\ Idle <=> outcome # "running"
    /\ RunIInv
    /\ Given(report) => Idle /\ report = collect_drift(manifest, chart, envs)

---------------------------------------------------------------------------
(* What holds of the plans of whatever tonin.toml says.                    *)

ValidIn(env) == Loads[manifest][env]

Home(section, env) ==
    IF section = None THEN None
    ELSE [section EXCEPT !.envs = [e \in DOMAIN @ \cap {env} |-> @[e]]]

\* None stands for what is not there, and is none of what may be there.
ASSUME NoneAssumption ==
    \A id \in DOMAIN Manifests : LET m == Manifests[id] IN
        /\ \A env \in Environments \cup {""} :
              /\ \A key \in {"autoscale", "placement", "pdb", "secrets", "migrations"} :
                    Given(m[key]) => Given(Home(m[key], env))
              /\ Given(m.migrations) => Given(resolve_migrations(m.migrations, env))
              /\ Given(m.secrets) => Given(resolve_secrets(m.secrets, env))
        /\ \A store \in Range(m.databases) \cup Range(m.caches) :
              None \notin {HelperEnv(store), env_prefix(store.variant) \o "DATABASE_URL",
                           env_prefix(store.variant) \o "REDIS_URL"}

\* The manifest without the overlays of the other environments.
OnlyFor(m, env) == [key \in DOMAIN m |->
    CASE key \in {"deploy", "autoscale", "env", "callers", "egress", "placement", "pdb",
                  "secrets", "migrations"} -> Home(m[key], env)
      [] key \in {"databases", "caches"} ->
            [i \in DOMAIN m[key] |-> [m[key][i] EXCEPT !.raw = Home(@, env)]]
      [] key = "depends_on" ->
            [name \in DOMAIN m[key] |-> [m[key][name] EXCEPT
                !.overrides = [e \in DOMAIN @ \cap {env} |-> @[e]]]]
      [] OTHER -> m[key]]

StaysHome == [m \in DOMAIN Manifests |->
    \A env \in Environments : Loads[m][env] =>
        LET alone == OnlyFor(Manifests[m], env)
        IN  PlanValid(alone, env) /\ PlanFor(alone, env) = PlanOf[m][env]]

\* The overlay of one environment never changes the plan of another: the
\* dozen merges of plan.rs and its submodules all pick the environment's own.
OverlaysStayHome == outcome = "done" => StaysHome[manifest]

\* An entry whose own variable is named as the helper its value refers to.
RefersToItself(store) == Given(store.value.refers_to) /\ store.value.refers_to = store.env

\* Among the variables the chart puts into a container, of the service or of
\* a cron job, no name comes twice - the last would silently win - and the
\* one a value refers to with $(VAR) comes before it.  The code lets one pair
\* pass: the two variables of a database that refers to itself.
OneVariableOnce == outcome = "done" =>
    \A env \in Environments : ValidIn(env) =>
        LET values == PlanValues(PlanOf[manifest][env])
            first == SecretsFirst(values)
            stores == Range(values.leaf.datastores)
        IN  /\ (\A store \in stores : ~RefersToItself(store)) => IsInjective(first)
            /\ Range(first) \cap DOMAIN values.map.env = {}
            /\ \A job \in values.leaf.cronjobs : Range(first) \cap DOMAIN job.env = {}
            /\ \A store \in stores : Given(store.value.refers_to) =>
                      \E i, j \in DOMAIN first : i < j /\ first[i] = store.value.refers_to
                                                     /\ first[j] = store.env

Agree == [id \in DOMAIN Manifests |->
    \A env \in Environments :
        LET services == {m \in {Manifests[id]} \cup Neighbours : PlanValid(m, env)}
            plans == {PlanFor(m, env) : m \in services}
            values == [p \in plans |-> PlanValues(WithDerivedCallers(p, plans))]
        IN  \A p, q \in plans : \A port \in {p.port, p.http_port} \ {None, 0} :
                (/\ LetsReach(values[q], p.name, p.namespace, port)
                 /\ DependsOnPlan(q, p)
                 /\ ~\E c \in p.callers : c.source = ServiceRef(q))
                => AdmitsService(values[p], q.name, q.namespace, port)]

\* In the plans of a workspace the network policies of the two ends agree:
\* where a service may send to another on a port the other serves, that one
\* lets it in - unless an entry of [callers] says which ports it may use.
PoliciesAgree == outcome = "done" => Agree[manifest]

\* Whether a budget lets one of so many pods go.
LetsGo(budget, pods) ==
    IF Given(budget.min_available)
    THEN IF budget.min_available.percent
         THEN budget.min_available.n * pods <= (pods - 1) * 100
         ELSE budget.min_available.n < pods
    ELSE budget.max_unavailable.n > 0

\* "a min_available that would block every eviction is an error" (pod.rs):
\* with as many pods as the chart runs at least, the budget it renders lets
\* one of them go.
EvictionPossible ==
    \A env \in Environments : ValidIn(env) =>
        LET values == PlanValues(PlanOf[manifest][env])
        IN  pdb(values) # None => LetsGo(pdb(values), minReplicas(values))
===========================================================================
