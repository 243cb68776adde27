----------------------------- MODULE Scaffold -----------------------------
(***************************************************************************)
(* `tonin service new`: the checks of service.rs, then the writes of       *)
(* new.rs one at a time - any may fail and tonin may be killed between two *)
(* of them - and at last the enclosing Cargo workspace, if there is one.   *)
(***************************************************************************)
EXTENDS ScaffoldTemplates

CONSTANTS
    Commands,       \* the commands to run: records of the flags
    KebabNames,     \* the names of jobs that have a dash
    BadNames,       \* the names validate_name refuses
    Unset           \* a flag that is not given

VARIABLES
    command,        \* the command being run
    steps,          \* what is left of its writes
    directory,      \* the service's directory: path -> what the file holds; Unset when there is none
    enclosing,      \* the [workspace] members around it; Unset when there is none
    printed,        \* what the closing message tells the user to run
    scaffolding     \* idle, running, created, failed, killed or refused

scaffoldVars == <<command, steps, directory, enclosing, printed, scaffolding>>

(* The spellings of a name, by its kind.  "digits" (s3svc) gets more words *)
(* from convert_case's Pascal case, which names the proto service;         *)
(* "doubled" (a--b) loses dashes in heck's snake case that cargo turns     *)
(* into underscores; "suffix" (in) ends the word tonin.                    *)
Vars(name) ==
    [name |-> IF name = "doubled" THEN "dashed" ELSE "snake",
     snake |-> "snake",
     proto_mod |-> IF name \in {"plain", "suffix"} THEN "snake" ELSE "proto module",
     cargo |-> IF name = "doubled" THEN "cargo's" ELSE "snake"]

---------------------------------------------------------------------------
(* service.rs: the defaults and what is refused.                           *)

default_type(lang) == IF lang = "ts" THEN "web" ELSE "backend"

Type(c) == IF c.type = Unset THEN default_type(c.lang) ELSE c.type

Mode(c) == IF Type(c) # "web" THEN Unset ELSE IF c.web_mode = Unset THEN "spa" ELSE c.web_mode

FlagsAgree(c) ==
    /\ Type(c) = "web" => c.lang = "ts"
    /\ c.web_mode # Unset => Type(c) = "web" /\ c.lang = "ts"
    /\ c.jobs # <<>> => c.lang # "ts"
    /\ c.storage # Unset => c.lang # "ts"
    /\ c.flat => c.lang = "rust"

\* The extra clients: without the server's own language, each once.
Extras(c) ==
    FoldLeft(LAMBDA extras, cl : IF cl = c.lang \/ cl \in Range(extras) THEN extras
                                 ELSE Append(extras, cl), <<>>, c.clients)

validate_name(name) == name \notin BadNames

Workspace(c) == c.lang = "rust" /\ ~c.flat

---------------------------------------------------------------------------
(* The writes, as a list of steps.                                         *)

Put(path, file) == <<[do |-> "write", path |-> path, file |-> file]>>

\* Read the file, add to it, write it back: an error when there is no such file.
Change(path, file) == <<[do |-> "change", path |-> path, file |-> file]>>

\* The same where the file has a line to put it at, and nothing otherwise.
Wire(path, line, file) == <<[do |-> "wire", path |-> path, line |-> line, file |-> file]>>

\* Replace every occurrence, if there is such a file.
patch_file(path, occurrences, to) ==
    <<[do |-> "rename", path |-> path, from |-> occurrences, to |-> to]>>

Missing == <<[do |-> "missing"]>>

Fetched(c) == c.template # Unset

PutAll(files) == FoldSet(LAMBDA path, puts : puts \o Put(path, files[path]), <<>>, DOMAIN files)

\* Every .tmpl of a directory; a fetched repository may lack it.
walk_and_render(c, dir, files) ==
    IF Fetched(c) /\ dir \in c.template THEN Missing ELSE PutAll(files)

read_shared_file(c) == IF Fetched(c) /\ "_shared" \in c.template THEN Missing ELSE <<>>

Variant(c) == IF c.flat THEN "variants/flat" ELSE "variants/default"

\* Before anything is written; the version it asks for is only warned about.
fetch_template_repo(c) ==
    IF ~Fetched(c) THEN <<>> ELSE IF Variant(c) \in c.template THEN Missing ELSE <<[do |-> "fetch"]>>

CreateDirectory == <<[do |-> "mkdir"]>>

emit_workspace_client(c, v, client) ==
    LET dir == IF client = "python" THEN "name-py" ELSE "name-ts"
        template == IF client = "python" THEN "python/client-python" ELSE "ts/client-ts"
        files == IF client = "python" THEN PythonClient(v, dir) ELSE TsClient(v, dir)
        kind == IF client = "python" THEN "project" ELSE "npm package"
        package == <<dir, IF client = "python" THEN "pyproject.toml" ELSE "package.json">>
        \* `<name>-client` is also the end of "tonin-client".
        occurrences == {<<kind, "name-client">>}
                           \cup IF client = "python" /\ c.name = "suffix"
                                THEN Dependencies("client-python", {"tonin-client"}) ELSE {}
    IN  walk_and_render(c, template, Within(<<dir>>, files))
            \o patch_file(package, occurrences, <<kind, dir>>)
            \o Put(<<dir, "CLAUDE.md">>, ws_client_claude_md(v, dir))
            \o Put(<<dir, "AGENTS.md">>, Reads({<<dir, "CLAUDE.md">>}))
            \o Put(<<dir, ".gitignore">>, ws_client_gitignore)

\* CLAUDE.md, AGENTS.md and .gitignore of a crate of the workspace.
Guides(v, dir, gitignore) ==
    Put(<<dir, "CLAUDE.md">>, sub_claude_md(v, dir))
        \o Put(<<dir, "AGENTS.md">>, Reads({<<dir, "CLAUDE.md">>}))
        \o Put(<<dir, ".gitignore">>, gitignore)

WorkspaceRoot(v) ==
    Put(<<"Cargo.toml">>, ws_cargo_toml) \o Put(<<".cargo", "config.toml">>, ws_cargo_config)
        \o Put(<<"CLAUDE.md">>, ws_claude_md(v)) \o Put(<<"AGENTS.md">>, ws_agents_md)
        \o Put(<<".gitignore">>, ws_gitignore)

ProtoCrate(v) ==
    Put(<<"name-proto", "Cargo.toml">>, proto_cargo_toml(v))
        \o Put(<<"name-proto", "build.rs">>, proto_build_rs(v))
        \o Put(<<"name-proto", "proto", v.snake>>, proto(v))
        \o Put(<<"name-proto", "src", "lib.rs">>, proto_lib_rs(v)) \o Guides(v, "name-proto", Text)

ServerCrate(v) ==
    Put(<<"name-server", "Cargo.toml">>, server_cargo_toml(v))
        \o Put(<<"name-server", "tonin.toml">>, server_tonin_toml)
        \o Put(<<"name-server", "src", "main.rs">>, server_main_rs(v))
        \o Put(<<"name-server", "src", "lib.rs">>, server_lib_rs)
        \o Put(<<"name-server", "src", "service.rs">>, server_service_rs(v))
        \o Put(<<"name-server", "migrations", ".gitkeep">>, Text)
        \o Put(<<"name-server", "tests", "contract_e2e_test.rs">>, server_contract_test(v))
        \o Guides(v, "name-server", server_gitignore)

RsCrate(v) ==
    Put(<<"name-rs", "Cargo.toml">>, rs_cargo_toml(v))
        \o Put(<<"name-rs", "src", "lib.rs">>, rs_lib_rs(v)) \o Guides(v, "name-rs", Text)

Makefiles(v) ==
    Put(<<"Makefile">>, ws_makefile) \o Put(<<"name-proto", "Makefile">>, proto_makefile(v))
        \o Put(<<"name-server", "Makefile">>, server_makefile(v))
        \o Put(<<"name-rs", "Makefile">>, rs_makefile(v))
        \o Put(<<".github", "workflows", "ci.yml">>, ws_github_ci_yml)

EndToEndCrate(v) ==
    Put(<<"name-e2e", "Cargo.toml">>, e2e_cargo_toml(v))
        \o Put(<<"name-e2e", "Makefile">>, e2e_makefile(v))
        \o Put(<<"name-e2e", "tests", "common", "mod.rs">>, e2e_common_mod(v))
        \o Put(<<"name-e2e", "tests", "contract.rs">>, e2e_contract_test(v))

\* Jobs, storage and --no-workspace are not looked at.
emit_workspace_layout(c, v) ==
    CreateDirectory \o read_shared_file(c) \o WorkspaceRoot(v) \o ProtoCrate(v) \o ServerCrate(v) \o RsCrate(v)
        \o Makefiles(v) \o EndToEndCrate(v)
        \o FlattenSeq([i \in DOMAIN Extras(c) |-> emit_workspace_client(c, v, Extras(c)[i])])

LangDirectory(c) ==
    IF c.lang # "ts" THEN c.lang
    ELSE IF Type(c) = "backend" THEN "ts/backend"
    ELSE IF Mode(c) = "bff" THEN "ts/web-bff" ELSE "ts/web-spa"

Templates(c, v) ==
    CASE c.lang = "rust" -> RustTemplates(v)
      [] c.lang = "python" -> PythonTemplates(v)
      [] OTHER -> TsTemplates(v, IF Type(c) = "web" THEN Mode(c) ELSE "backend")

scaffold(c, v) ==
    CreateDirectory \o read_shared_file(c) \o Put(<<"proto", v.snake>>, proto(v))
        \o walk_and_render(c, LangDirectory(c), Templates(c, v))
        \o IF Type(c) = "web" THEN <<>> ELSE Put(<<"migrations", ".gitkeep">>, Text)

emit_storage_block_in_micro_toml == Change(<<"tonin.toml">>, storage_block)

emit_jobs(jobs) ==
    FlattenSeq([i \in DOMAIN jobs |-> Put(<<"server", "src", "bin", jobs[i]>>, render_job_bin(jobs[i]))])
        \o Change(<<"server", "Cargo.toml">>, JobBins(jobs))

emit_jobs_python(v, jobs) ==
    Put(<<"server", "src", v.snake, "jobs", "__init__.py">>, Text)
        \o FlattenSeq([i \in DOMAIN jobs |->
               Put(<<"server", "src", v.snake, "jobs", jobs[i]>>, render_job_py(jobs[i], KebabNames))])
        \o Change(<<"server", "pyproject.toml">>, JobScripts(jobs))

emit_storage_rust(v, kind) ==
    Put(<<"server", "src", "storage.rs">>, render_storage_rs_rust(kind))
        \o Change(<<"server", "src", "lib.rs">>,
                  File({<<"module", "storage">>}, {<<"server", "src", "storage.rs">>}, {}))
        \o Change(<<"server", "Cargo.toml">>, OpendalCrate(kind))
        \o Wire(<<"server", "src", "main.rs">>, "let state = State::from_env().await?;",
                Uses({<<"module", "storage">>, <<"item", "server", "OpendalStorage">>, Crate(v.snake, "server")}))

emit_storage_python(v) ==
    Put(<<"server", "src", v.snake, "storage.py">>, render_storage_py)
        \o Wire(<<"server", "pyproject.toml">>, "dependencies = [", Offers(Dependencies("server", {"opendal"})))
        \o Wire(<<"server", "src", v.snake, "main.py">>, "state = await tonin.State.from_env()",
                Uses({<<"item", "server", "OpendalStorage">>} \cup PythonPackage(v, "server")))

emit_extra_client(c, v, client) ==
    CASE client = "rust" -> walk_and_render(c, "rust/client-rust", Within(<<"client-rust">>, RustClient(v)))
      [] client = "python" ->
            walk_and_render(c, "python/client-python", Within(<<"client-python">>, PythonClient(v, "client-python")))
      [] client = "ts" -> walk_and_render(c, "ts/client-ts", Within(<<"client-ts">>, TsClient(v, "client-ts")))

emit_gitignore == Put(<<".gitignore">>, default_rust_gitignore)

emit_docs_tree ==
    Put(<<"AGENTS.md">>, docs_agents_md) \o Put(<<"docs", "README.md">>, docs_readme_md)
        \o Put(<<"docs", "roadmap.md">>, docs_roadmap_md)
        \o Put(<<"docs", "capabilities", ".gitkeep">>, docs_convention)
        \o Put(<<"docs", "plans", ".gitkeep">>, docs_convention)
        \o Put(<<"docs", "plans", "archive", ".gitkeep">>, docs_convention)

EmitStorage(c, v) == IF c.lang = "rust" THEN emit_storage_rust(v, c.storage) ELSE emit_storage_python(v)

SingleDirectory(c, v) ==
    scaffold(c, v) \o Put(<<"tonin.toml">>, write_service_toml)
        \o (IF c.storage = Unset THEN <<>> ELSE emit_storage_block_in_micro_toml)
        \o (IF c.jobs = <<>> THEN <<>>
            ELSE IF c.lang = "rust" THEN emit_jobs(c.jobs) ELSE emit_jobs_python(v, c.jobs))
        \o (IF c.storage = Unset THEN <<>> ELSE EmitStorage(c, v))
        \o FlattenSeq([i \in DOMAIN Extras(c) |-> emit_extra_client(c, v, Extras(c)[i])])
        \o Put(<<"CLAUDE.md">>, emit_claude_md) \o emit_gitignore \o emit_docs_tree
        \o IF c.lang = "rust" /\ ~c.no_workspace THEN <<[do |-> "join"]>> ELSE <<>>

Writes(c) ==
    LET v == Vars(c.name)
    IN  fetch_template_repo(c)
            \o IF Workspace(c) THEN emit_workspace_layout(c, v) ELSE SingleDirectory(c, v)

---------------------------------------------------------------------------
(* What the closing messages tell the user to run.                         *)

ClientHint(dir) ==
    CASE dir \in {"client-python", "name-py"} -> Reads({<<dir, "codegen.sh">>})
      [] dir \in {"client-ts", "name-ts"} ->
            File({}, {<<dir, "package.json">>},
                 {<<"script", dir, "gen">>} \cup Dependencies("client-ts", {"tonin-client"}))
      [] dir = "client-rust" -> Reads({<<dir, "Cargo.toml">>})

\* `cargo build` of a Rust service is run at its root.
print_next_steps(c) ==
    LET folder == [rust |-> "client-rust", python |-> "client-python", ts |-> "client-ts"]
        language == CASE c.lang = "rust" -> Reads({<<"Cargo.toml">>})
                      [] c.lang = "python" ->
                            File({}, {<<"client-python", "codegen.sh">>, <<"server", "codegen.sh">>,
                                      <<"server", "tests">>},
                                 {<<"bin", "name">>} \cup Dependencies("server", {"pytest"}))
                      [] c.lang = "ts" -> File({}, {<<"package.json">>, <<"proto">>},
                                               Scripts("", {"gen", "dev"}))
    IN  FoldLeft(LAMBDA text, client : Both(text, ClientHint(folder[client])),
                 Both(Both(language, Reads({<<"tonin.toml">>})),
                      Uses({<<"bin", job>> : job \in Range(c.jobs)})), Extras(c))

\* "cargo build --workspace", "contract test should pass", and the crates.
print_workspace_next_steps(c) ==
    LET folder == [python |-> "name-py", ts |-> "name-ts"]
    IN  FoldLeft(LAMBDA text, client : Both(text, ClientHint(folder[client])),
                 File({}, {<<"Cargo.toml">>, <<"name-proto">>, <<"name-rs">>, <<"name-server", "tonin.toml">>},
                      {<<"test", "name-server", "contract_e2e_test">>}), Extras(c))

NextSteps(c) == IF Workspace(c) THEN print_workspace_next_steps(c) ELSE print_next_steps(c)

---------------------------------------------------------------------------
(* The command.                                                            *)

Exists == directory # Unset

ScaffoldInit ==
    /\ command = Unset /\ steps = <<>> /\ directory = Unset /\ printed = Text
    /\ enclosing \in [workspace : {"none", "list", "no list"}, members : {{}}]
    /\ scaffolding = "idle"

Accepted(c) ==
    /\ FlagsAgree(c)
    /\ validate_name(c.name) /\ \A job \in Range(c.jobs) : validate_name(job)
    /\ ~Exists

\* An existing directory is never written to, whatever left it there; a later
\* attempt may have other flags.
NewService(c) ==
    /\ scaffolding # "running"
    /\ IF Accepted(c) THEN scaffolding' = "running" /\ command' = c /\ steps' = Writes(c)
       ELSE scaffolding' = "refused" /\ UNCHANGED <<command, steps>>
    /\ printed' = Text
    /\ UNCHANGED <<directory, enclosing>>

Renamed(file, step) ==
    IF step.from \cap file.offers = {} THEN file
    ELSE [file EXCEPT !.offers = (@ \ step.from) \cup {step.to}]

Changed(dir, step) ==
    CASE step.do = "mkdir" -> IF dir = Unset THEN <<>> ELSE dir
      [] step.do = "write" -> step.path :> step.file @@ dir
      [] step.do = "change" -> [dir EXCEPT ![step.path] = Both(@, step.file)]
      [] step.do = "wire" -> IF <<"line", step.line>> \in dir[step.path].offers
                             THEN [dir EXCEPT ![step.path] = Both(@, step.file)] ELSE dir
      [] step.do = "rename" -> IF step.path \in DOMAIN dir
                               THEN [dir EXCEPT ![step.path] = Renamed(@, step)] ELSE dir
      [] OTHER -> dir

Possible(step) ==
    /\ step.do \notin {"missing", "join"}
    /\ step.do \in {"change", "wire"} => step.path \in DOMAIN directory

WriteNext ==
    /\ scaffolding = "running" /\ steps # <<>> /\ Possible(Head(steps))
    /\ directory' = Changed(directory, Head(steps)) /\ steps' = Tail(steps)
    /\ UNCHANGED <<command, enclosing, printed, scaffolding>>

\* find_workspace_root, the question, and the members; no answer is a no.
maybe_add_to_workspace ==
    /\ scaffolding = "running" /\ steps # <<>> /\ Head(steps).do = "join"
    /\ \E yes \in {enclosing.workspace # "none", FALSE} :
          IF yes /\ enclosing.workspace = "no list"
          THEN scaffolding' = "failed" /\ steps' = <<>> /\ UNCHANGED enclosing
          ELSE /\ enclosing' = IF yes THEN [enclosing EXCEPT !.members = @ \cup {"server", "client-rust"}]
                               ELSE enclosing
               /\ steps' = Tail(steps) /\ UNCHANGED scaffolding
    /\ UNCHANGED <<command, directory, printed>>

\* A template or a file that is not there, or any error of the file system.
StepFails ==
    /\ scaffolding = "running" /\ steps # <<>>
    /\ scaffolding' = "failed" /\ steps' = <<>>
    /\ UNCHANGED <<command, directory, enclosing, printed>>

Created ==
    /\ scaffolding = "running" /\ steps = <<>>
    /\ scaffolding' = "created" /\ printed' = NextSteps(command)
    /\ UNCHANGED <<command, steps, directory, enclosing>>

ScaffoldKilled ==
    /\ scaffolding = "running"
    /\ scaffolding' = "killed" /\ steps' = <<>>
    /\ UNCHANGED <<command, directory, enclosing, printed>>

\* The user deletes what a failed attempt left.
RemoveService ==
    /\ scaffolding \in {"failed", "killed", "refused"} /\ Exists
    /\ directory' = Unset /\ UNCHANGED <<command, steps, enclosing, printed, scaffolding>>

ScaffoldNext ==
    \/ \E c \in Commands : NewService(c)
    \/ WriteNext \/ maybe_add_to_workspace \/ StepFails \/ Created
    \/ ScaffoldKilled \/ RemoveService

ScaffoldSpec == ScaffoldInit /\ [][ScaffoldNext]_scaffoldVars

---------------------------------------------------------------------------
(* What a scaffold refers to and does not hold.                            *)

Texts == {directory[path] : path \in DOMAIN directory} \cup {printed}

Dangling ==
    {path \in UNION {text.reads : text \in Texts} : ~\E p \in DOMAIN directory : IsPrefix(path, p)}
        \cup ((UNION {text.uses : text \in Texts}) \ (UNION {text.offers : text \in Texts}))

\* Crates below a workspace they are not members of: cargo builds neither.
Strays ==
    {dir \in {"server", "client-rust"} : /\ enclosing.workspace # "none"
                                         /\ <<dir, "Cargo.toml">> \in DOMAIN directory
                                         /\ dir \notin enclosing.members}

(* What is known to be missing.  Every proto file has the example's name,  *)
(* and sends its reader to two directories that the layout may not have.   *)
ProtoGaps(dirs) == Greeter \cup {<<dir, "src">> : dir \in {"server", "client-rust"} \ dirs}

(* The default layout: two of the handlers its server trait asks for, the  *)
(* test of `make test-migrations`, the ../proto its Python and TypeScript  *)
(* clients generate from and the name the latter had before it was given   *)
(* the directory's; and, by the spelling of the service's name, the module *)
(* the end-to-end tests spell themselves, the package as a description has *)
(* it, the crates whose name heck and cargo spell differently, and the     *)
(* tonin-client that renaming the package renames as well.                 *)
WorkspaceGaps(c) ==
    LET v == Vars(c.name)
        clients == Range(Extras(c)) \cap {"python", "ts"}
    IN  ProtoGaps({}) \cup Handlers({"SayHelloStream", "SayHelloClientStream"})
            \cup {<<"test", "name-server", "migrations_test">>}
            \cup {path \in {<<"proto">>} : clients # {}}
            \cup {path \in {<<"proto", v.snake>>} : "python" \in clients}
            \cup {package \in {<<"npm package", "name-client">>} : "ts" \in clients}
            \cup {module \in {<<"service module", v.cargo, "server">>} : v.cargo # v.proto_mod}
            \cup {package \in {<<"package", v.name>>} : v.name # v.snake}
            \cup {crate \in {Crate(v.snake, dir) : dir \in Members \ {"name-e2e"}} : v.cargo # v.snake}
            \cup {crate \in Dependencies("client-python", {"tonin-client"}) :
                     c.name = "suffix" /\ "python" \in clients}

(* Every Rust client: the example's type, a type its documentation has by  *)
(* the service's name, and what is spelled differently.                    *)
RustClientGaps(v) ==
    GreeterClient \cup Items("client-rust", {"ServiceCoalescingClient"})
        \cup {package \in {<<"package", v.name>>} : v.name # v.snake}
        \cup {crate \in {Crate(v.snake, "client-rust")} : v.cargo # v.snake}

(* A flat Rust service: the exclusion list of its Dockerfile, the          *)
(* manifests, the capability and the compose services of its README, the   *)
(* clients it was not asked for, which the README of its contract names,   *)
(* and the Cargo.toml that `cargo build` finds only above it, if at all.   *)
FlatRustGaps(v, clients) ==
    {<<".dockerignore">>, <<"k8s">>, <<"docs", "capabilities", "greeter.md">>, <<"compose services">>,
     <<"Cargo.toml">>}
        \cup {crate \in {Crate(v.snake, "server")} : v.cargo # v.snake}
        \cup {path \in {<<"client-python">>, <<"client-python", "codegen.sh">>} : "python" \notin clients}
        \cup {path \in {<<"client-ts">>, <<"client-ts", "buf.gen.yaml">>} : "ts" \notin clients}

(* A Python service: the manifests of its README, jobs whose name is no    *)
(* identifier, and the Rust file its storage is said to be configured in.  *)
PythonGaps(c) ==
    {<<"k8s">>} \cup {<<"python module", "jobs", job>> : job \in Range(c.jobs) \cap KebabNames}
        \cup {path \in {<<"server", "src", "storage.rs">>} : c.storage # Unset}

\* A TypeScript one: the import and the call to uncomment.
TsGaps(c, v) ==
    {name \in {<<"generated", "ts", v.name, "v1">>, <<"rpc", "echo">>} : Mode(c) # "bff"}

(* In a single directory also the generator tonin.toml says runs, and the  *)
(* second of two jobs by one name.                                         *)
DirectoryGaps(c) ==
    LET v == Vars(c.name)
        clients == Range(Extras(c))
    IN  {<<"tool", "tonic-build">>}
            \cup ProtoGaps({dir \in {"server"} : c.lang # "ts"}
                               \cup {dir \in {"client-rust"} : "rust" \in clients \cup {c.lang}})
            \cup (IF "rust" \in clients \cup {c.lang} THEN RustClientGaps(v) ELSE {})
            \cup (CASE c.lang = "rust" -> FlatRustGaps(v, clients)
                    [] c.lang = "python" -> PythonGaps(c)
                    [] c.lang = "ts" -> TsGaps(c, v))
            \cup {<<"second entry", job>> : job \in {j \in Range(c.jobs) :
                                          \E i, k \in DOMAIN c.jobs : i # k /\ c.jobs[i] = j /\ c.jobs[k] = j}}

\* What a command writes where nothing was.
Afresh(c) == FoldLeft(Changed, Unset, Writes(c))

\* A service that was created is whole: every path, crate, module, item, test,
\* make target and script that its files and the closing message name is there,
\* but for the gaps listed above; nothing that an attempt with other flags left,
\* by failing or being killed, is among it; and a workspace around it has both
\* its crates as members or neither - a Rust client of a service in another
\* language is none.
ScaffoldCloses ==
    scaffolding = "created" =>
        /\ directory = Afresh(command)
        /\ Dangling = IF Workspace(command) THEN WorkspaceGaps(command) ELSE DirectoryGaps(command)
        /\ Strays \in {{}} \cup (IF command.lang = "rust" THEN {{"server", "client-rust"}}
                                 ELSE {{"client-rust"}})
===========================================================================
