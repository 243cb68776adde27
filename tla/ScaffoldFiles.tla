-------------------------- MODULE ScaffoldFiles --------------------------
(***************************************************************************)
(* The files `tonin service new` writes, by what they say of each other:   *)
(* every text a function of new.rs returns, or a template holds, offers    *)
(* names, reads paths and uses names that other files offer.               *)
(*                                                                         *)
(* Named are the paths of the scaffold, and its crates, packages, modules, *)
(* items, messages, rpcs, dependencies, tests, make targets and scripts,   *)
(* in code, comments and prose alike.  Not named are what a text gives as  *)
(* conditional, to come or an example, what other repositories hold, what  *)
(* a build leaves or .gitignore lists, environment variables, tonin's own  *)
(* commands, and what the libraries are made of.                           *)
(*                                                                         *)
(* A path is a sequence; the directory `<name>-proto` is "name-proto".     *)
(* `v` is the record of spellings of Vars: a name with digits or a doubled *)
(* dash is spelled differently by the libraries that derive identifiers.   *)
(***************************************************************************)
EXTENDS SequencesExt

File(offers, reads, uses) == [offers |-> offers, reads |-> reads, uses |-> uses]

Text == File({}, {}, {})

Reads(paths) == File({}, paths, {})

Uses(names) == File({}, {}, names)

Offers(names) == File(names, {}, {})

\* Two texts in one file.
Both(f, g) == [part \in DOMAIN f |-> f[part] \cup g[part]]

Targets(dir, targets) == {<<"target", dir, t>> : t \in targets}

Crate(spelled, dir) == <<"crate", spelled, dir>>

Dependencies(dir, crates) == {<<"dependency", dir, c>> : c \in crates}

Items(part, items) == {<<"item", part, i>> : i \in items}

\* `<crate> = { workspace = true }` for each of them.
Inherited(dir, crates) ==
    File(Dependencies(dir, crates), {}, {<<"workspace dependency", c>> : c \in crates})

RPCS == {"SayHello", "SayHelloStream", "SayHelloClientStream"}

Handlers(rpcs) == {<<"handler", rpc>> : rpc \in rpcs}

Rpcs(rpcs) == {<<"rpc", rpc>> : rpc \in rpcs}

Messages == {<<"message", m>> : m \in {"HelloRequest", "HelloReply"}}

\* The service of the example the templates were written from.
Greeter == {<<"item", "example", "Greeter">>}

Rust(v, dir, part) == {Crate(v.snake, dir), <<"service module", v.proto_mod, part>>}

\* What is generated of the proto file for whoever includes its package.
proto(v) ==
    File({<<"package", v.snake>>, <<"service">>} \cup Messages \cup Rpcs(RPCS)
             \cup {<<"service module", v.proto_mod, part>> : part \in {"client", "server"}},
         {<<"server", "src">>, <<"client-rust", "src">>}, Greeter)

---------------------------------------------------------------------------
(* The default layout of a Rust service: a workspace.                      *)

Members == {"name-proto", "name-server", "name-rs", "name-e2e"}

Versions == {"tonin", "tonin-client", "tonic", "prost", "prost-types", "tokio", "async-trait",
             "tracing", "thiserror", "tokio-stream", "anyhow", "testcontainers",
             "testcontainers-modules", "sqlx"}

\* Mutant: the end-to-end tests' crates are not among the dependencies.
MutantWorkspace ==
    File({<<"workspace dependency", c>>
            : c \in ({"name-proto", "name-rs"} \cup Versions) \ {"testcontainers-modules"}},
         {<<member, "Cargo.toml">> : member \in Members}, {})

ws_cargo_toml ==
    File({<<"workspace dependency", c>> : c \in {"name-proto", "name-rs"} \cup Versions},
         {<<member, "Cargo.toml">> : member \in Members}, {})

ws_cargo_config == Offers({<<"target directory">>})

ws_claude_md(v) ==
    File({}, {<<"Cargo.toml">>, <<".cargo", "config.toml">>, <<"name-server", "tonin.toml">>}
                 \cup {<<member, "CLAUDE.md">> : member \in Members \ {"name-e2e"}},
         {<<"target directory">>, <<"package", v.snake>>, <<"service">>})

ws_agents_md == Reads({<<"CLAUDE.md">>, <<"Cargo.toml">>, <<"name-server", "tonin.toml">>})

ws_gitignore == Text

\* Its description has the package as the service is named.
proto_cargo_toml(v) ==
    Both(Inherited("name-proto", {"tonic", "prost", "prost-types"}),
         File({Crate(v.cargo, "name-proto")} \cup Dependencies("name-proto", {"tonic-build"}),
              {<<"name-proto", "src", "lib.rs">>}, {<<"package", v.name>>}))

\* The server trait tonic_build generates has a method for every rpc.
proto_build_rs(v) == File({}, {<<"name-proto", "proto", v.snake>>},
                          Handlers(RPCS) \cup Dependencies("name-proto", {"tonic-build"}))

proto_lib_rs(v) == Uses({<<"package", v.snake>>} \cup Dependencies("name-proto", {"tonic", "prost"}))

ServerCrates == {"name-proto", "tonin", "tonic", "prost", "prost-types", "tokio", "async-trait",
                 "tracing", "thiserror", "tokio-stream"}

server_cargo_toml(v) ==
    Both(Inherited("name-server", ServerCrates),
         File({Crate(v.cargo, "name-server"), <<"bin", "name">>},
              {<<"name-server", "src", "main.rs">>, <<"name-server", "src", "lib.rs">>}, {}))

\* Its sections are read by the commands of the chart, not by another file.
server_tonin_toml == Text

server_main_rs(v) ==
    Uses(Rust(v, "name-proto", "server") \cup {Crate(v.snake, "name-server"), <<"item", "name-server", "Service">>}
             \cup Dependencies("name-server", {"tonin", "tokio", "name-proto"}))

server_lib_rs == File({<<"item", "name-server", "Service">>}, {<<"name-server", "src", "service.rs">>}, {})

server_service_rs(v) ==
    File(Handlers({"SayHello"}), {},
         Rust(v, "name-proto", "server") \cup Messages
             \cup Dependencies("name-server", {"tonic", "name-proto"}))

server_contract_test(v) ==
    File({<<"test", "name-server", "contract_e2e_test">>}, {},
         Rust(v, "name-proto", "client") \cup Rust(v, "name-proto", "server")
             \cup {Crate(v.snake, "name-server"), <<"item", "name-server", "Service">>}
             \cup Messages \cup Rpcs({"SayHello"})
             \cup Dependencies("name-server", {"tonic", "tokio", "tokio-stream", "name-proto"}))

server_gitignore == Text

rs_cargo_toml(v) ==
    Both(Inherited("name-rs", {"name-proto", "tonin-client", "tonic", "tokio", "tracing"}),
         File({Crate(v.cargo, "name-rs")}, {<<"name-rs", "src", "lib.rs">>}, {}))

rs_lib_rs(v) ==
    File({<<"item", "name-rs", "Client">>}, {},
         Rust(v, "name-proto", "client") \cup {Crate(v.snake, "name-rs")} \cup Rpcs({"SayHello"})
             \cup Dependencies("name-rs", {"name-proto", "tonin-client", "tonic"}))

\* CLAUDE.md of a crate, one text for each.
ProtoGuide(v) ==
    Uses({Crate(v.cargo, "name-proto"), Crate(v.snake, "name-proto"), <<"package", v.snake>>, <<"service">>}
             \cup {<<"service module", v.proto_mod, part>> : part \in {"client", "server"}}
             \cup Messages \cup Dependencies("name-proto", {"tonic-build", "prost-types"}))

ServerGuide(v) ==
    File({}, {<<"name-server", "migrations">>, <<"name-server", "tonin.toml">>,
              <<"name-server", "tests", "contract_e2e_test.rs">>},
         {<<"test", "name-server", "contract_e2e_test">>, Crate(v.cargo, "name-server"), <<"service">>,
          <<"item", "name-server", "Service">>} \cup Messages \cup Rpcs({"SayHello"}))

RsGuide(v) == Uses({Crate(v.snake, "name-rs"), Crate(v.snake, "name-proto"), <<"item", "name-rs", "Client">>}
                       \cup Messages \cup Rpcs({"SayHello"}))

sub_claude_md(v, crate) ==
    Both(Reads({<<"CLAUDE.md">>}),
         CASE crate = "name-proto" -> ProtoGuide(v)
           [] crate = "name-server" -> ServerGuide(v)
           [] crate = "name-rs" -> RsGuide(v))

PyGuide(v) ==
    File({}, {<<"name-py", "codegen.sh">>, <<"name-proto", "proto", v.snake>>},
         {<<"python package", v.snake, "client">>, <<"project", "name-py">>} \cup Messages
             \cup Rpcs({"SayHello"}) \cup Items("client-python", {"Stub", "AuthCtx"})
             \cup Dependencies("client-python", {"grpcio"}))

TsGuide(v) ==
    File({}, {<<"name-proto", "proto", v.snake>>, <<"name-ts", "tsconfig.json">>,
              <<"name-ts", "package.json">>},
         {<<"script", "name-ts", "gen">>, <<"script", "name-ts", "build">>, <<"npm package", "name-ts">>,
          <<"generated", "client-ts", v.snake>>} \cup Messages \cup Rpcs({"SayHello"})
             \cup Dependencies("client-ts", {"@grpc/grpc-js", "@bufbuild/buf"}))

ws_client_claude_md(v, dir) ==
    Both(Reads({<<"CLAUDE.md">>}), IF dir = "name-py" THEN PyGuide(v) ELSE TsGuide(v))

ws_client_gitignore == Text

---------------------------------------------------------------------------
(* Its Makefiles, its workflow and its end-to-end tests.                   *)

ws_makefile ==
    File(Targets("", {"help", "install", "build", "check", "fmt", "fmt-check", "lint", "test",
                      "test-e2e", "e2e", "ci", "k8s-generate", "clean", "proto", "server", "rs"}),
         {<<"Cargo.toml">>},
         {<<"target", dir, "ci">> : dir \in {"name-proto", "name-server", "name-rs"}}
             \cup Targets("name-e2e", {"test"}) \cup Targets("name-server", {"k8s-generate"})
             \cup Targets("", {"fmt-check", "lint", "test"}))

CrateTargets == {"help", "build", "check", "fmt", "fmt-check", "lint", "ci"}

proto_makefile(v) ==
    File(Targets("name-proto", CrateTargets), {},
         {Crate(v.cargo, "name-proto")} \cup Targets("name-proto", {"fmt-check", "lint", "build"}))

server_makefile(v) ==
    File(Targets("name-server", CrateTargets \cup {"test", "test-contract", "test-migrations",
                                                   "k8s-generate", "migrate"}),
         {<<"name-server", "tonin.toml">>, <<"name-server", "migrations">>},
         {Crate(v.cargo, "name-server")}
             \cup {<<"test", "name-server", t>> : t \in {"contract_e2e_test", "migrations_test"}}
             \cup Targets("name-server", {"fmt-check", "lint", "test"}))

rs_makefile(v) ==
    File(Targets("name-rs", CrateTargets \cup {"test"}), {},
         {Crate(v.cargo, "name-rs")} \cup Targets("name-rs", {"fmt-check", "lint", "test"}))

ws_github_ci_yml ==
    Uses(Targets("", {"fmt-check", "lint", "test", "test-e2e"}) \cup {<<"target directory">>})

EndToEndCrates == {"name-proto", "name-rs", "tonic", "tokio", "tokio-stream", "testcontainers",
                   "testcontainers-modules", "sqlx", "anyhow"}

e2e_cargo_toml(v) ==
    Both(Inherited("name-e2e", EndToEndCrates),
         File({Crate(v.cargo, "name-e2e"), <<"dependency", "name-e2e", "name-server">>},
              {<<"name-server", "Cargo.toml">>, <<"name-e2e", "tests">>}, {}))

e2e_makefile(v) ==
    File(Targets("name-e2e", {"help", "check", "test", "ci"}), {},
         {Crate(v.cargo, "name-e2e")} \cup Targets("name-e2e", {"test"}))

\* It spells the identifiers itself, like cargo does, and the module with them.
e2e_common_mod(v) ==
    File({<<"harness">>}, {<<"name-server", "migrations">>},
         {Crate(v.cargo, dir) : dir \in {"name-proto", "name-server", "name-rs"}}
             \cup {<<"service module", v.cargo, "server">>, <<"item", "name-server", "Service">>, <<"item", "name-rs", "Client">>}
             \cup Dependencies("name-e2e", EndToEndCrates \cup {"name-server"}))

e2e_contract_test(v) ==
    File({<<"test", "name-e2e", "contract">>}, {<<"name-e2e", "tests", "common", "mod.rs">>},
         {Crate(v.cargo, "name-proto"), <<"harness">>} \cup Messages \cup Rpcs({"SayHello"})
             \cup Dependencies("name-e2e", {"name-proto", "tokio", "tonic", "anyhow"}))

---------------------------------------------------------------------------
(* Background jobs and storage, which no template holds.                   *)

render_job_bin(job) == Uses({<<"bin", job>>} \cup Dependencies("server", {"tonin", "tokio", "tonic", "tracing"}))

\* The [[bin]] entries of the jobs: cargo takes one entry per name.
JobBins(jobs) ==
    File({<<"bin", job>> : job \in Range(jobs)},
         {<<"server", "src", "bin", job>> : job \in Range(jobs)},
         {<<"second entry", jobs[i]>> : i \in {j \in DOMAIN jobs :
                                                   \E k \in 1..(j - 1) : jobs[k] = jobs[j]}})

\* A module is imported by name: a kebab-case file has none.
render_job_py(job, kebab) ==
    File(IF job \in kebab THEN {} ELSE {<<"python module", "jobs", job>>}, {<<"server", "pyproject.toml">>},
         {<<"bin", job>>} \cup Dependencies("server", {"tonin"}))

JobScripts(jobs) ==
    File({<<"bin", job>> : job \in Range(jobs)}, {},
         {<<"python module", "jobs", job>> : job \in Range(jobs)}
             \cup {<<"second entry", jobs[i]>> : i \in {j \in DOMAIN jobs :
                                                   \E k \in 1..(j - 1) : jobs[k] = jobs[j]}})

opendal_feature == [s3 |-> "services-s3", gcs |-> "services-gcs", azure |-> "services-azblob",
                    local |-> "services-fs"]

\* The service of opendal each kind's builder is of, and the feature that brings it.
Builder == [s3 |-> "S3", gcs |-> "Gcs", azure |-> "Azblob", local |-> "Fs"]

FeatureOf == [S3 |-> "services-s3", Gcs |-> "services-gcs", Azblob |-> "services-azblob",
              Fs |-> "services-fs"]

render_storage_rs_rust(kind) ==
    File({<<"item", "server", "OpendalStorage">>}, {<<"server", "src", "main.rs">>},
         Dependencies("server", {"async-trait", "futures", "tonin", "opendal"})
             \cup {<<"opendal", FeatureOf[Builder[kind]]>>})

render_storage_py == File({<<"item", "server", "OpendalStorage">>}, {}, Dependencies("server", {"opendal"}))

OpendalCrate(kind) == Offers(Dependencies("server", {"opendal"}) \cup {<<"opendal", opendal_feature[kind]>>})

---------------------------------------------------------------------------
(* What every single-directory scaffold ends with.                         *)

\* Its comments: "tonic-build is what runs today", and where the environment is read.
write_service_toml == Uses({<<"tool", "tonic-build">>})

storage_block == Reads({<<"server", "src", "storage.rs">>})

emit_claude_md == Reads({<<"AGENTS.md">>, <<"docs", "README.md">>, <<"docs", "roadmap.md">>,
                         <<"docs", "capabilities">>, <<"docs", "plans">>,
                         <<"docs", "plans", "archive">>, <<"tonin.toml">>})

docs_agents_md == Reads({<<"docs", "README.md">>, <<"CLAUDE.md">>, <<"docs", "roadmap.md">>,
                         <<"docs", "capabilities">>, <<"docs", "plans">>,
                         <<"docs", "plans", "archive">>})

docs_readme_md == Reads({<<"docs", "roadmap.md">>, <<"docs", "capabilities">>, <<"docs", "plans">>,
                         <<"docs", "plans", "archive">>})

docs_roadmap_md == Text

\* .gitkeep of each empty directory of docs.
docs_convention == Reads({<<"docs", "README.md">>})

default_rust_gitignore == Reads({<<"proto">>})
===========================================================================
