------------------------- MODULE ManifestNetwork -------------------------
(***************************************************************************)
(* Who a service calls and who may call it, and its plain environment:    *)
(* the sections [depends_on], [env], [callers] and [egress] of tonin.toml  *)
(* resolved for one environment (tonin-plugin/src/plan.rs, network.rs).    *)
(*                                                                         *)
(* A section with overlays is [base |-> T, envs |-> [environment -> T]].   *)
(* Tables of named entries are functions on the names they hold.  An      *)
(* absent optional key is None.  The field `typed' of an entry says that   *)
(* its keys are known and its values have the types they must have: the    *)
(* many ways to get one wrong all end in the same refusal.                 *)
(*                                                                         *)
(* Resolution is split in two: XValid says the code does not return an     *)
(* error, X is what it returns then.  The errors are not told apart.       *)
(***************************************************************************)
EXTENDS Integers, Sequences, Functions, TLC

CONSTANTS Environments,  \* the environments an overlay is written for
          None           \* an optional key that is not there

Or(a, b) == IF a = None THEN b ELSE a

Given(a) == a # None

Maybe(S) == {None} \cup S

\* A section whose tables, the base and the overlays, are all in S.
Sectioned(section, S) == section \in [base : S, envs : [DOMAIN section.envs -> S]]

\* A table of texts, under whatever keys.
TextTable(table) == table \in [DOMAIN table -> STRING]

\* A table without entries.
NoEntries == [x \in {} |-> None]

\* A table laid over another: what it has replaces what the other has.
Laid(over, base) == [key \in DOMAIN over \cup DOMAIN base |->
                        IF key \in DOMAIN over THEN over[key] ELSE base[key]]

\* The tables of a section for an environment, laid over its base.
LaidOver(raw, env) == IF env \in DOMAIN raw.envs THEN Laid(raw.envs[env], raw.base) ELSE raw.base

\* A list, followed by others.
Concatenated(list, others) ==
    LET upto[i \in 0 .. Len(others)] == IF i = 0 THEN list ELSE upto[i - 1] \o others[i]
    IN  upto[Len(others)]

---------------------------------------------------------------------------
(* Names, namespaces and ports.                                            *)

\* The one placeholder, alone: patterns that hold more text behave alike.
EnvPattern == "{env}"

Inherit == "@inherit"

\* What is left of a pattern with a misspelt placeholder.
Unresolved == "{evn}"

apply_env(pattern, env) == IF pattern = EnvPattern THEN env ELSE pattern

\* ensure_resolved and the test for an empty namespace that follows it.
GoodNamespace(pattern, env) == apply_env(pattern, env) \notin {Unresolved, ""}

PortNumbers == 1 .. 65535

parse_ports(ports) == /\ ports # <<>>
                      /\ Range(ports) \subseteq PortNumbers
                      /\ IsInjective(ports)

---------------------------------------------------------------------------
(* [depends_on]                                                            *)

DEFAULT_DEPENDENCY_PORT == 50051

\* The shorthand  name = "ns"  is a table with nothing but a namespace.
Shorthand(ns) == [namespace |-> ns, overrides |-> NoEntries, envs |-> None,
                  port |-> None, ports |-> None, typed |-> TRUE]

DependencyParses(d) ==
    /\ d.typed
    /\ Given(d.port) => d.port \in PortNumbers /\ ~Given(d.ports)
    /\ Given(d.ports) => parse_ports(d.ports)

\* A whitelist of environments drops the dependency from all others.
ActiveIn(d, env) == Given(d.envs) => env \in d.envs

Pattern(d, env) == IF env \in DOMAIN d.overrides THEN d.overrides[env] ELSE d.namespace

DependsOnValid(raw, env) ==
    \A name \in DOMAIN raw : LET d == raw[name] IN
        /\ DependencyParses(d)
        /\ ActiveIn(d, env) => /\ Given(Pattern(d, env))
                               /\ GoodNamespace(Pattern(d, env), env)

\* The namespace of a dependency marked @inherit is the deployer's affair.
Rendered(raw, env) == {name \in DOMAIN raw : /\ ActiveIn(raw[name], env)
                                             /\ Pattern(raw[name], env) # Inherit}

resolve_depends_on(raw, env) ==
    {LET d == raw[name] IN
        [name |-> name,
         namespace |-> apply_env(Pattern(d, env), env),
         ports |-> IF Given(d.port) THEN <<d.port>>
                   ELSE Or(d.ports, <<DEFAULT_DEPENDENCY_PORT>>)]
     : name \in Rendered(raw, env)}

---------------------------------------------------------------------------
(* [env]                                                                   *)

\* A value that is no string.
NotString == "<not a string>"

EnvVarsValid(raw) == NotString \notin
    Range(raw.base) \cup UNION {Range(raw.envs[e]) : e \in DOMAIN raw.envs}

resolve_env_vars(raw, env) ==
    LET merged == LaidOver(raw, env)
    IN  [key \in DOMAIN merged |-> apply_env(merged[key], env)]

---------------------------------------------------------------------------
(* [callers]                                                               *)

\* An overlay is told from a caller by having none of the caller keys: an
\* entry of an overlay that has none of them looks like one, and is refused.
IsOverlay(c) == /\ c.typed
                /\ \A key \in {"namespace", "labels", "service", "ports"} : ~Given(c[key])

CallerParses(c, env) ==
    /\ c.typed
    /\ Given(c.namespace) => GoodNamespace(c.namespace, env)
    /\ Given(c.ports) => parse_ports(c.ports)
    /\ Given(c.labels) => c.labels # {} /\ ~Given(c.service)
    /\ ~Given(c.labels) => Given(c.namespace)

\* A tonin service, by default the one the entry is named for, or any pods.
CallerSource(name, c, env) ==
    LET namespace == IF Given(c.namespace) THEN apply_env(c.namespace, env) ELSE None
    IN  IF Given(c.labels)
        THEN [pods |-> TRUE, labels |-> c.labels, namespace |-> namespace]
        ELSE [pods |-> FALSE, name |-> Or(c.service, name), namespace |-> namespace]

parse_caller(name, c, env) ==
    [name |-> name, source |-> CallerSource(name, c, env), ports |-> Or(c.ports, <<>>)]

CallersValid(raw, env) ==
    /\ \A name \in DOMAIN raw.base : CallerParses(raw.base[name], env)
    /\ \A e \in DOMAIN raw.envs : \A name \in DOMAIN raw.envs[e] :
          LET c == raw.envs[e][name] IN ~IsOverlay(c) /\ CallerParses(c, env)

(* Mutant: every overlay is applied. *)
MutantCallers(raw, env) ==
    UNION {{parse_caller(name, t[name], env) : name \in DOMAIN t}
           : t \in {raw.base} \cup Range(raw.envs)}

resolve_callers(raw, env) ==
    LET merged == LaidOver(raw, env)
    IN  {parse_caller(name, merged[name], env) : name \in DOMAIN merged}

---------------------------------------------------------------------------
(* [egress]                                                                *)

\* DNS names and CIDRs are well formed or not; which characters make them so
\* is left out.
IllFormed == "<ill-formed>"

FqdnParses(f) == /\ f.typed
                 /\ Given(f.name) # Given(f.pattern)
                 /\ IllFormed \notin {f.name, f.pattern}
                 /\ Given(f.ports) /\ parse_ports(f.ports)

CidrParses(c) == /\ c.typed
                 /\ Given(c.cidr) /\ c.cidr # IllFormed
                 /\ IllFormed \notin c.except
                 /\ Given(c.ports) /\ parse_ports(c.ports)

\* A list that is not there is None, not the empty list.
EgressTableParses(t) ==
    /\ t.typed
    /\ Given(t.fqdns) => \A i \in DOMAIN t.fqdns : FqdnParses(t.fqdns[i])
    /\ Given(t.cidrs) => \A i \in DOMAIN t.cidrs : CidrParses(t.cidrs[i])

EgressValid(raw) == /\ EgressTableParses(raw.base)
                    /\ \A e \in DOMAIN raw.envs : EgressTableParses(raw.envs[e])

EmptyEgress == [fqdns |-> <<>>, cidrs |-> <<>>, kube_apiserver |-> FALSE]

\* Each key a table has replaces the value it had.
apply_egress_table(t, spec) == [key \in DOMAIN spec |-> Or(t[key], spec[key])]

resolve_egress(raw, env) ==
    LET base == apply_egress_table(raw.base, EmptyEgress)
    IN  IF env \in DOMAIN raw.envs THEN apply_egress_table(raw.envs[env], base) ELSE base
===========================================================================
