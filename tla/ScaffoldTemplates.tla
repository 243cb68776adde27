------------------------ MODULE ScaffoldTemplates ------------------------
(***************************************************************************)
(* The templates of a service, in the vocabulary of ScaffoldFiles.  A      *)
(* template repository is taken to hold the same ones, or to lack whole    *)
(* directories of them.                                                    *)
(***************************************************************************)
EXTENDS ScaffoldFiles, TLC

Within(dir, files) == [path \in {dir \o p : p \in DOMAIN files} |->
                           files[SubSeq(path, Len(dir) + 1, Len(path))]]

Lib(v, part) == {Crate(v.snake, "client-rust"), <<"service module", v.proto_mod, part>>}

\* The client type of the example service.
GreeterClient == {<<"item", "example", "GreeterClient">>}

ClientItems == Items("client-rust", {"Client", "AuthCtx"})

\* What the adapter that tonin::mcp_expose writes is made of.
McpCrates == {"serde_json", "schemars", "rmcp", "rmcp-macros"}

rust_server_cargo(v) ==
    File({Crate(v.cargo, "server"), <<"bin", "name">>, <<"line", "[dependencies]">>}
             \cup Dependencies("server", {"tonin", "client-rust", "tokio", "tonic", "tonic-prost", "prost",
                                          "async-trait", "tracing", "futures", "tokio-stream",
                                          "tonic-prost-build"} \cup McpCrates),
         {<<"server", "src", "main.rs">>, <<"server", "src", "lib.rs">>, <<"server", "build.rs">>,
          <<"client-rust", "Cargo.toml">>}, Greeter)

rust_server_build(v) ==
    File({}, {<<"proto", v.snake>>, <<"server", "Cargo.toml">>},
         Handlers(RPCS) \cup {Crate(v.snake, "client-rust")} \cup Greeter \cup GreeterClient
             \cup Dependencies("server", {"tonic-prost-build"}))

rust_server_main(v) ==
    File({<<"line", "let state = State::from_env().await?;">>},
         {<<"AGENTS.md">>, <<"tonin.toml">>, <<"server", "src", "auth.rs">>, <<"server", "src", "server.rs">>},
         {Crate(v.snake, "server"), <<"service module", v.proto_mod, "server">>,
          <<"module", "auth">>, <<"module", "server">>}
             \cup Items("server", {"verifier", "Impl", "ImplMcpAdapter"})
             \cup Dependencies("server", {"tonin", "tokio", "tonic"}))

rust_server_lib(v) ==
    File({<<"module", "auth">>, <<"module", "server">>, <<"line", "pub mod auth;">>,
          <<"item", "server", "test_helpers">>},
         {<<"server", "src", "auth.rs">>, <<"server", "src", "server.rs">>, <<"server", "build.rs">>,
          <<"server", "tests">>},
         {<<"package", v.snake>>, <<"item", "server", "Impl">>} \cup Lib(v, "server") \cup Greeter
             \cup Dependencies("server", {"tonin", "client-rust", "tokio", "tonic", "tonic-prost", "prost"}))

rust_server_server(v) ==
    File(Handlers(RPCS) \cup Items("server", {"Impl", "ImplMcpAdapter"}), {<<"server", "src", "main.rs">>},
         {<<"service module", v.proto_mod, "server">>} \cup Messages
             \cup Dependencies("server", {"tonin", "tonic", "tracing", "futures", "tokio-stream"}
                                             \cup McpCrates))

rust_server_auth ==
    File(Items("server", {"verifier"}), {<<"AGENTS.md">>}, Dependencies("server", {"tonin", "tracing"}))

rust_server_e2e(v) ==
    Uses(Lib(v, "client") \cup {Crate(v.snake, "server"), <<"item", "server", "test_helpers">>}
             \cup ClientItems \cup Messages \cup Rpcs(RPCS)
             \cup Dependencies("server", {"client-rust", "tokio", "tonic", "tokio-stream"}))

rust_server_makefile ==
    Both(Offers(Targets("server", {"help", "build", "check", "test", "fmt", "lint", "clean"})),
         Reads({<<"server", "Makefile">>}))

rust_client_cargo(v) ==
    File({Crate(v.cargo, "client-rust")}
             \cup Dependencies("client-rust", {"tonic", "tonic-prost", "prost", "serde", "schemars",
                                               "tonin-client", "tonic-prost-build"}),
         {<<"client-rust", "src", "lib.rs">>}, {})

rust_client_build(v) ==
    File({}, {<<"proto", v.snake>>},
         Dependencies("client-rust", {"tonic-prost-build", "serde", "schemars"}))

\* Its documentation promises a coalescing client by the service's name.
rust_client_lib(v) ==
    File(ClientItems, {<<"client-rust", "README.md">>, <<"proto">>},
         {<<"package", v.snake>>, <<"service module", v.proto_mod, "client">>, <<"service">>,
          Crate(v.snake, "client-rust"), <<"item", "client-rust", "ServiceCoalescingClient">>}
             \cup Messages \cup Rpcs({"SayHello"})
             \cup Dependencies("client-rust", {"tonic", "tonic-prost", "prost", "tonin-client"}))

\* It is compiled with lib.rs; it has the package as the service is named.
rust_client_readme(v) ==
    File({}, {<<"client-rust", "Cargo.toml">>},
         {<<"package", v.name>>, Crate(v.snake, "client-rust"), <<"item", "client-rust", "AuthCtx">>}
             \cup GreeterClient \cup Messages \cup Rpcs({"SayHello"}))

rust_dockerfile ==
    File({}, {<<"proto">>, <<"client-rust">>, <<"server">>, <<"migrations">>, <<".dockerignore">>,
              <<"server", "src", "main.rs">>, <<"tonin.toml">>}, {<<"bin", "name">>})

\* "every client folder" it names reads the contract.
rust_proto_readme(v) ==
    File({}, {<<"proto", v.snake>>, <<"server">>, <<"client-rust">>, <<"client-python">>, <<"client-ts">>,
              <<"client-rust", "build.rs">>, <<"client-python", "codegen.sh">>,
              <<"client-ts", "buf.gen.yaml">>, <<"docs", "capabilities">>}, {<<"tool", "tonic-build">>})

\* `docker compose up postgres redis` among the rest.
rust_readme(v) ==
    File({}, {<<"AGENTS.md">>, <<"proto">>, <<"server">>, <<"client-rust">>, <<"tonin.toml">>,
              <<"Dockerfile">>, <<"k8s">>, <<"docs">>, <<"docs", "README.md">>, <<"docs", "roadmap.md">>,
              <<"docs", "capabilities">>, <<"docs", "capabilities", "greeter.md">>,
              <<"client-rust", "Cargo.toml">>, <<"server", ".config", "nextest.toml">>}
                 \cup {<<"server", "src", f>> : f \in {"main.rs", "auth.rs", "server.rs"}},
         {Crate(v.cargo, "client-rust"), <<"test profile", "ci">>, <<"compose services">>})

RustClient(v) ==
    <<"Cargo.toml">> :> rust_client_cargo(v) @@ <<"build.rs">> :> rust_client_build(v)
        @@ <<"src", "lib.rs">> :> rust_client_lib(v) @@ <<"README.md">> :> rust_client_readme(v)

RustTemplates(v) ==
    <<"server", "Cargo.toml">> :> rust_server_cargo(v)
        @@ <<"server", "build.rs">> :> rust_server_build(v)
        @@ <<"server", "src", "main.rs">> :> rust_server_main(v)
        @@ <<"server", "src", "lib.rs">> :> rust_server_lib(v)
        @@ <<"server", "src", "server.rs">> :> rust_server_server(v)
        @@ <<"server", "src", "auth.rs">> :> rust_server_auth
        @@ <<"server", "tests", "e2e.rs">> :> rust_server_e2e(v)
        @@ <<"server", ".config", "nextest.toml">> :> Offers({<<"test profile", "ci">>})
        @@ <<"server", "Makefile">> :> rust_server_makefile
        @@ <<"proto", "README.md">> :> rust_proto_readme(v)
        @@ <<"Dockerfile">> :> rust_dockerfile @@ <<"README.md">> :> rust_readme(v)
        @@ Within(<<"client-rust">>, RustClient(v))

---------------------------------------------------------------------------
(* Python.  The server may import what comes with the client.              *)

PythonPackage(v, part) == {<<"python package", v.snake, part>>}

Stubs(v, part) == {<<"stubs", v.snake, part>>}

python_server_pyproject(v) ==
    File({<<"bin", "name">>, <<"line", "dependencies = [">>, <<"line", "[project.scripts]">>}
             \cup Dependencies("server", {"tonin", "client-python", "tonin-client", "grpcio", "protobuf",
                                          "grpcio-tools", "pytest", "pytest-asyncio", "ruff", "mypy"}),
         {<<"client-python", "pyproject.toml">>, <<"server", "src", v.snake, "main.py">>},
         {<<"project", "name-client">>} \cup PythonPackage(v, "server"))

\* The stubs it generates count as offered by it.
python_codegen(v, part, dir) ==
    File(Stubs(v, part), {<<"proto", v.snake>>}, Dependencies(dir, {"grpcio-tools"}))

python_server_init(v) ==
    File(PythonPackage(v, "server"), {<<"server", "src", v.snake, "main.py">>, <<"server", "pyproject.toml">>},
         {<<"bin", "name">>})

python_server_main(v) ==
    File({<<"line", "state = await tonin.State.from_env()">>},
         {<<"AGENTS.md">>, <<"tonin.toml">>, <<"server", "pyproject.toml">>},
         {<<"handler class">>, <<"python auth">>, <<"bin", "name">>} \cup Stubs(v, "server")
             \cup Dependencies("server", {"tonin"}))

python_server_handler(v) ==
    File({<<"handler class">>}, {}, Messages \cup Stubs(v, "server")
             \cup Dependencies("server", {"tonin", "tonin-client", "grpcio"}))

python_server_auth ==
    File({<<"python auth">>}, {<<"server", "codegen.sh">>}, Dependencies("server", {"tonin"}))

python_test_e2e(v) ==
    Uses({<<"handler class">>, <<"project", "name-client">>} \cup Messages \cup Rpcs(RPCS)
             \cup PythonPackage(v, "client") \cup PythonPackage(v, "server") \cup Stubs(v, "server")
             \cup Items("client-python", {"Stub", "AuthCtx"})
             \cup Dependencies("server", {"tonin", "client-python", "grpcio", "pytest", "pytest-asyncio"}))

python_client_pyproject(v) ==
    File({<<"project", "name-client">>}
             \cup Dependencies("client-python", {"grpcio", "protobuf", "grpcio-tools", "tonin-client"}),
         {}, PythonPackage(v, "client"))

python_client_init(v, dir) ==
    File(PythonPackage(v, "client") \cup Items("client-python", {"Stub", "AuthCtx"}),
         {<<"proto">>, <<dir, "codegen.sh">>},
         Stubs(v, "client") \cup Messages \cup Rpcs({"SayHello"})
             \cup Dependencies("client-python", {"grpcio", "tonin-client"}))

python_makefile ==
    File(Targets("", {"help", "codegen", "install", "fmt", "fmt-check", "lint", "typecheck", "test",
                      "ci", "run", "clean"}),
         {<<"proto">>, <<"client-python", "codegen.sh">>, <<"server", "codegen.sh">>, <<"server", "src">>},
         {<<"bin", "name">>} \cup Targets("", {"help", "fmt-check", "lint", "test"})
             \cup Dependencies("server", {"ruff", "mypy", "pytest"}))

python_dockerfile(v) ==
    File({}, {<<"proto">>, <<"client-python", "codegen.sh">>, <<"server", "codegen.sh">>,
              <<"client-python", "src">>, <<"server", "src", v.snake, "main.py">>}, PythonPackage(v, "server"))

python_proto_readme(v) ==
    File({}, {<<"proto", v.snake>>, <<"client-python", "codegen.sh">>, <<"server", "codegen.sh">>},
         Dependencies("server", {"grpcio-tools"}))

python_readme(v) ==
    File({}, {<<"AGENTS.md">>, <<"proto">>, <<"server", "codegen.sh">>, <<"client-python", "codegen.sh">>,
              <<"tonin.toml">>, <<"Dockerfile">>, <<"k8s">>}
                 \cup {<<"server", "src", v.snake, f>> : f \in {"main.py", "auth.py"}},
         {<<"project", "name-client">>, <<"item", "client-python", "Stub">>} \cup Messages
             \cup PythonPackage(v, "client") \cup PythonPackage(v, "server")
             \cup Dependencies("server", {"pytest"}))

PythonClient(v, dir) ==
    <<"pyproject.toml">> :> python_client_pyproject(v)
        @@ <<"codegen.sh">> :> python_codegen(v, "client", "client-python")
        @@ <<"src", v.snake, "__init__.py">> :> python_client_init(v, dir)

PythonTemplates(v) ==
    <<"server", "pyproject.toml">> :> python_server_pyproject(v)
        @@ <<"server", "codegen.sh">> :> Both(python_codegen(v, "server", "server"), Reads({<<"client-python">>}))
        @@ <<"server", "src", v.snake, "__init__.py">> :> python_server_init(v)
        @@ <<"server", "src", v.snake, "main.py">> :> python_server_main(v)
        @@ <<"server", "src", v.snake, "handler.py">> :> python_server_handler(v)
        @@ <<"server", "src", v.snake, "auth.py">> :> python_server_auth
        @@ <<"server", "tests", "test_e2e.py">> :> python_test_e2e(v)
        @@ <<"proto", "README.md">> :> python_proto_readme(v)
        @@ <<"Makefile">> :> python_makefile @@ <<"Dockerfile">> :> python_dockerfile(v)
        @@ <<"README.md">> :> python_readme(v)
        @@ Within(<<"client-python">>, PythonClient(v, "client-python"))

---------------------------------------------------------------------------
(* TypeScript: a Node server, a single-page app, a Next.js server.         *)

Scripts(dir, scripts) == {<<"script", dir, s>> : s \in scripts}

Connect(packages) == Dependencies("ts", {"@connectrpc/connect" \o p : p \in packages})

\* `gen` runs buf on the directory buf.gen.yaml names: a module for its file.
ts_buf(v) ==
    File({<<"generated", "ts", v.snake>>}, {<<"proto">>},
         Dependencies("ts", {"@bufbuild/protoc-gen-es", "@connectrpc/protoc-gen-connect-es"}))

\* What package.json of each kind has and runs.
ts_package(scripts, dependencies) ==
    File(Scripts("", {"gen", "build", "dev"} \cup scripts)
             \cup Dependencies("ts", {"@bufbuild/protobuf", "@bufbuild/buf", "@bufbuild/protoc-gen-es",
                                      "@connectrpc/protoc-gen-connect-es", "typescript"} \cup dependencies),
         {<<"buf.gen.yaml">>, <<"tsconfig.json">>}, Dependencies("ts", {"@bufbuild/buf"}))

ts_backend_package ==
    Both(ts_package({"start"}, {"@connectrpc/connect", "@connectrpc/connect-node", "@types/node", "tsx",
                                "@opentelemetry/auto-instrumentations-node"}),
         File({}, {<<"src", "server.ts">>}, Dependencies("ts", {"tsx", "typescript"})))

ts_spa_package ==
    Both(ts_package({"preview"}, {"@connectrpc/connect", "@connectrpc/connect-web", "react", "react-dom",
                                  "@types/react", "@types/react-dom", "@vitejs/plugin-react", "vite"}),
         Uses(Dependencies("ts", {"typescript", "vite"})))

ts_bff_package ==
    Both(ts_package({"start"}, {"@connectrpc/connect", "@connectrpc/connect-node", "@connectrpc/connect-web",
                                "next", "react", "react-dom", "@types/node", "@types/react",
                                "@types/react-dom"}),
         Uses(Dependencies("ts", {"next"})))

\* The import and the call that server.ts and App.tsx have in comments.
Uncomment(v) == Uses({<<"generated", "ts", v.name, "v1">>, <<"rpc", "echo">>, <<"service">>})

ts_server(v) ==
    Both(Uncomment(v), Uses(Scripts("", {"gen"}) \cup Connect({"", "-node"})
                                \cup Dependencies("ts", {"@opentelemetry/auto-instrumentations-node"})))

ts_spa_app(v) ==
    Both(Uncomment(v), File({}, {<<"vite.config.ts">>, <<"src", "App.tsx">>},
                            Scripts("", {"gen"}) \cup Connect({"", "-web"}) \cup Dependencies("ts", {"react"})))

ts_backends == File({<<"item", "lib", "backends">>}, {<<"tonin.toml">>},
                    Scripts("", {"gen"}) \cup Connect({"", "-node"}))

ts_dockerfile(copied) == File({}, copied, Scripts("", {"gen", "build"}))

TsTemplates(v, mode) ==
    <<"buf.gen.yaml">> :> ts_buf(v) @@
        CASE mode = "backend" ->
                  <<"package.json">> :> ts_backend_package @@ <<"src", "server.ts">> :> ts_server(v)
                      @@ <<"tsconfig.json">> :> Reads({<<"src">>, <<"buf.gen.yaml">>})
                      @@ <<"Dockerfile">> :>
                             ts_dockerfile({<<"package.json">>, <<"tsconfig.json">>, <<"buf.gen.yaml">>,
                                            <<"proto">>, <<"src">>})
          [] mode = "spa" ->
                  <<"package.json">> :> ts_spa_package
                      @@ <<"tsconfig.json">> :> Reads({<<"src">>, <<"vite.config.ts">>})
                      @@ <<"index.html">> :> Reads({<<"src", "main.tsx">>})
                      @@ <<"src", "main.tsx">> :> File({}, {<<"src", "App.tsx">>}, Dependencies("ts", {"react-dom"}))
                      @@ <<"src", "App.tsx">> :> ts_spa_app(v)
                      @@ <<"vite.config.ts">> :> Uses(Dependencies("ts", {"vite", "@vitejs/plugin-react"}))
                      @@ <<"Dockerfile">> :> ts_dockerfile({<<"package.json">>})
          [] mode = "bff" ->
                  <<"package.json">> :> ts_bff_package
                      @@ <<"tsconfig.json">> :> Uses(Dependencies("ts", {"next"}))
                      @@ <<"app", "page.tsx">> :> File({}, {<<"lib", "backends.ts">>}, {<<"item", "lib", "backends">>})
                      @@ <<"app", "layout.tsx">> :> Uses(Dependencies("ts", {"@types/react"}))
                      @@ <<"app", "api", "health", "route.ts">> :> Text
                      @@ <<"lib", "backends.ts">> :> ts_backends
                      @@ <<"next.config.mjs">> :> Uses(Dependencies("ts", {"next"}))
                      @@ <<"Dockerfile">> :> ts_dockerfile({<<"package.json">>, <<"next.config.mjs">>})

ts_client_package(dir) ==
    File({<<"npm package", "name-client">>} \cup Scripts(dir, {"gen", "build", "clean"})
             \cup Dependencies("client-ts", {"@grpc/grpc-js", "google-protobuf", "tonin-client", "grpc-web",
                                             "@bufbuild/buf", "ts-proto", "typescript"}),
         {<<"proto">>} \cup {<<dir, f>> : f \in {"buf.gen.yaml", "tsconfig.json", "src", "README.md"}},
         Dependencies("client-ts", {"@bufbuild/buf", "typescript"}))

ts_client_buf(v) ==
    File({<<"generated", "client-ts", v.snake>>}, {<<"proto">>}, Dependencies("client-ts", {"ts-proto"}))

ts_client_index(v, dir) ==
    File(Items("client-ts", {"AuthCtx"}), {<<"proto">>},
         {<<"generated", "client-ts", v.snake>>, <<"npm package", "name-client">>, <<"service">>}
             \cup Scripts(dir, {"gen"})
             \cup Dependencies("client-ts", {"@grpc/grpc-js", "grpc-web", "tonin-client"}))

ts_client_readme(v, dir) ==
    File({}, {<<"proto">>},
         {<<"npm package", "name-client">>, <<"item", "client-ts", "AuthCtx">>, <<"service">>} \cup Messages
             \cup Rpcs({"SayHello"}) \cup Scripts(dir, {"gen", "build"})
             \cup Dependencies("client-ts", {"@grpc/grpc-js", "grpc-web", "tonin-client"}))

TsClient(v, dir) ==
    <<"package.json">> :> ts_client_package(dir) @@ <<"buf.gen.yaml">> :> ts_client_buf(v)
        @@ <<"tsconfig.json">> :> Reads({<<dir, "src">>}) @@ <<"src", "index.ts">> :> ts_client_index(v, dir)
        @@ <<"README.md">> :> ts_client_readme(v, dir)
===========================================================================
